------------------------- MODULE ActionsEvidenceProofs -------------------------
(***************************************************************************)
(* Proofs about the trusted Actions verification.                          *)
(*                                                                         *)
(* Three arguments meet.  The record of the execution is well formed at    *)
(* every step of the executor, so that what is handed over is accepted     *)
(* (ExecutionWell).  What the run has seen of the remote is compared with  *)
(* a memory of when the remote was as dispatched (SightingsWell).  A       *)
(* receipt, an artifact and a status say PASS only of a record the         *)
(* validator accepts (ReceiptWell), and such a record counts no disputed   *)
(* exit if the last command of the profile collects the totals (Undisputed).*)
(***************************************************************************)
EXTENDS ActionsEvidence, SequenceTheorems, TLAPS

Started == Controlling \cup {"recheck", "reresolve", "setup", "commands"}
Unfinished == Started \cup {"controller failed", "executor failed"}
Closing == {"source", "runner", "cleanup", "handoff"}
Handed == Publishing \cup {"publisher failed", "rejected", "refused", "reported", "passed"}

Last(s) == s[Len(s)]

(* What the validator asks of a record whatever its result, but for a      *)
(* moved HEAD.                                                             *)
Ordinary(rec) ==
    /\ rec.exits # <<>> \/ rec.result # "BLOCKED" => rec.known /\ rec.runner /\ rec.isolated
    /\ rec.result = "FAIL" =>
          /\ rec.exits # <<>> /\ Last(rec.exits) = "nonzero"
          /\ \A i \in 1..(Len(rec.exits) - 1) : rec.exits[i] = "zero"
    /\ rec.reason = "signal" => rec.result = "BLOCKED" /\ Last(rec.exits) = "signal"
    /\ rec.result = "BLOCKED" <=> rec.reason # "null"

(* All commands so far ended with zero, and there are more. *)
Running(rec) ==
    /\ rec.known /\ rec.runner /\ rec.result = "BLOCKED" /\ rec.reason = "other"
    /\ Len(rec.exits) < NCommands /\ \A i \in DOMAIN rec.exits : rec.exits[i] = "zero"
    /\ rec.exits # <<>> => rec.isolated

ExecutionWell ==
    /\ at = "commands" => Running(record)
    /\ at \in Closing \cup Handed => Ordinary(record)
    /\ at = "source" => record.result # "PASS"
    /\ at \in (Closing \ {"source"}) \cup Handed /\ record.result = "PASS" =>
          AllZero(record) /\ record.clean /\ (Collector # 0 => record.totals # "none")
    /\ at \in {"cleanup", "handoff"} \cup Handed /\ record.result = "PASS" => record.steady

(* While the remote is watched, the memory is at least what it is now; a   *)
(* step that found it exact could only do so because it was.               *)
SightingsWell ==
    /\ at \in Watched => (Exact(pr) => exact.pr) /\ (main = dispatch.main => exact.main)
    /\ at = "reresolve" => exact.main
    /\ at = "setup" => exact.main /\ exact.pr
    /\ at = "effective" /\ Exact(seen) => exact.pr
    /\ at = "post" /\ effective = "PASS" => exact.pr /\ exact.main

(* A controlled dispatch never leaves the controller. *)
ControlledStays ==
    <<dispatch.base, dispatch.head>> \in Controlled =>
        at \in Controlling \cup {"controller failed"} /\ posted = NoStatus

IInv == TypeOK /\ ExecutionWell /\ SightingsWell /\ ControlledStays

(* Where the totals come with the last command, an exit that was disputed  *)
(* is the last one and left no totals.                                     *)
Undisputed ==
    /\ at \in Unfinished => ~unclear
    /\ at = "commands" => record.totals = "none"
    /\ at = "source" /\ unclear => (AllZero(record) => record.totals = "none")
    /\ at \in Closing \cup Handed /\ unclear => record.result # "PASS"

ReceiptWell ==
    /\ posted.attempt <= attempt /\ (posted.attempt = attempt => at \in Ended)
    /\ at \in {"upload", "status", "effective", "post"} => receipt.attempt = attempt
    /\ at = "upload" /\ receipt.result = "PASS" => record.result = "PASS" /\ ValidExecution(record)
    /\ at \in {"status", "effective", "post"} =>
          artifact.receipt = receipt /\ (receipt.result = "PASS" => artifact.proven)
    /\ at = "post" /\ effective = "PASS" => receipt.result = "PASS"
    /\ SuccessIsBacked

SInv == IInv /\ Undisputed /\ ReceiptWell

-----------------------------------------------------------------------------
(* The lists of exits and the records of the execution. *)

ExitLists == UNION {[1..n -> Exits] : n \in 0..NCommands}

LEMMA ExitListsAre ==
    \A s : s \in ExitLists <=> s \in Seq(Exits) /\ Len(s) <= NCommands
<1>1. ASSUME NEW s, s \in ExitLists
      PROVE  s \in Seq(Exits) /\ Len(s) <= NCommands
  <2>1. PICK n \in 0..NCommands : s \in [1..n -> Exits]
      BY <1>1 DEF ExitLists
  <2>2. n \in Nat /\ n <= NCommands
      BY ActionsAssumption
  <2>3. s \in Seq(Exits)
      BY <2>1, <2>2, SeqDef
  <2>4. Len(s) = n
      BY <2>1, <2>2, <2>3, LenProperties
  <2> QED
      BY <2>2, <2>3, <2>4
<1>2. ASSUME NEW s, s \in Seq(Exits), Len(s) <= NCommands
      PROVE  s \in ExitLists
  <2>1. Len(s) \in 0..NCommands /\ s \in [1..Len(s) -> Exits]
      BY <1>2, ActionsAssumption, LenProperties
  <2> QED
      BY <2>1 DEF ExitLists
<1> QED
    BY <1>1, <1>2

LEMMA Appended ==
    ASSUME NEW s \in Seq(Exits), NEW e \in Exits
    PROVE  /\ Append(s, e) \in Seq(Exits) /\ Len(Append(s, e)) = Len(s) + 1
           /\ Len(s) \in Nat /\ Append(s, e) # <<>>
           /\ Append(s, e)[Len(s) + 1] = e
           /\ \A i \in 1..Len(s) : Append(s, e)[i] = s[i]
           /\ DOMAIN s = 1..Len(s) /\ DOMAIN Append(s, e) = 1..(Len(s) + 1)
BY AppendProperties, LenProperties, EmptySeq

Reasons == {"null", "signal", "other"}

LEMMA RecordsAre ==
    Records =
      [known : BOOLEAN, moved : BOOLEAN, runner : BOOLEAN, attempt : 0..MaxAttempts,
       isolated : BOOLEAN, exits : ExitLists, totals : {"none", "good", "odd"}, clean : BOOLEAN,
       steady : BOOLEAN, removed : BOOLEAN, result : Results, reason : Reasons]
BY DEF Records, ExitLists, Reasons

LEMMA Fields ==
    ASSUME NEW rec \in Records
    PROVE  /\ rec.known \in BOOLEAN /\ rec.runner \in BOOLEAN /\ rec.isolated \in BOOLEAN
           /\ rec.moved \in BOOLEAN /\ rec.clean \in BOOLEAN /\ rec.steady \in BOOLEAN
           /\ rec.removed \in BOOLEAN /\ rec.attempt \in 0..MaxAttempts
           /\ rec.exits \in ExitLists /\ rec.totals \in {"none", "good", "odd"}
           /\ rec.result \in Results /\ rec.reason \in Reasons
BY RecordsAre

LEMMA Blocked ==
    ASSUME NEW rec \in Records, NEW reason \in Reasons
    PROVE  LET b == Block(rec, reason)
           IN  /\ b \in Records /\ b.result = "BLOCKED" /\ b.reason = reason
               /\ b.known = rec.known /\ b.moved = rec.moved /\ b.runner = rec.runner
               /\ b.isolated = rec.isolated /\ b.exits = rec.exits /\ b.totals = rec.totals
               /\ b.clean = rec.clean /\ b.steady = rec.steady /\ b.removed = rec.removed
<1> DEFINE b == Block(rec, reason)
<1>1. b \in Records
    BY RecordsAre DEF Block, Results
<1>2. b = [rec EXCEPT !.result = "BLOCKED", !.reason = reason]
    BY DEF Block
<1> QED
    BY <1>1, <1>2, RecordsAre

LEMMA CountedIs ==
    ASSUME NEW rec \in Records, NEW exit \in Exits, Len(rec.exits) < NCommands
    PROVE  LET c == Counted(rec, exit)
           IN  /\ c \in Records /\ c.isolated /\ c.exits = Append(rec.exits, exit)
               /\ c.known = rec.known /\ c.moved = rec.moved /\ c.runner = rec.runner
               /\ c.totals = rec.totals /\ c.clean = rec.clean /\ c.steady = rec.steady
               /\ c.removed = rec.removed /\ c.result = rec.result /\ c.reason = rec.reason
<1> DEFINE c == Counted(rec, exit)
<1>1. Append(rec.exits, exit) \in ExitLists
  <2>1. rec.exits \in Seq(Exits)
      BY Fields, ExitListsAre
  <2>2. /\ Append(rec.exits, exit) \in Seq(Exits) /\ Len(rec.exits) \in Nat
        /\ Len(Append(rec.exits, exit)) = Len(rec.exits) + 1
      BY <2>1, Appended
  <2>3. Len(Append(rec.exits, exit)) <= NCommands
      BY <2>2, ActionsAssumption
  <2> QED
      BY <2>2, <2>3, ExitListsAre
<1>2. c = [rec EXCEPT !.isolated = TRUE, !.exits = Append(rec.exits, exit)]
    BY DEF Counted
<1>3. c \in Records
    BY <1>1, <1>2, RecordsAre
<1> QED
    BY <1>2, <1>3, RecordsAre

-----------------------------------------------------------------------------
(* The steps of the executor on its record. *)

Totals == {"none", "good", "odd"}

LEMMA Totalled ==
    ASSUME NEW rec \in Records, NEW totals \in Totals
    PROVE  LET t == [rec EXCEPT !.totals = totals]
           IN  /\ t \in Records /\ t.totals = totals
               /\ t.known = rec.known /\ t.moved = rec.moved /\ t.runner = rec.runner
               /\ t.isolated = rec.isolated /\ t.exits = rec.exits /\ t.clean = rec.clean
               /\ t.steady = rec.steady /\ t.removed = rec.removed
               /\ t.result = rec.result /\ t.reason = rec.reason
BY RecordsAre DEF Totals

LEMMA TotalsAre ==
    ASSUME TypeOK, NEW totals \in TotalsAfter(record)
    PROVE  totals \in Totals /\ (Command # Collector => totals = record.totals)
BY Fields DEF TypeOK, TotalsAfter, Totals

(* The record after a command, by what became of it: still running, or     *)
(* ordinary and without a PASS.                                            *)
LEMMA CommandEnds ==
    ASSUME TypeOK, ExecutionWell, RunCommand
    PROVE  /\ record' \in Records
           /\ at' \in {"commands", "source"}
           /\ at' = "commands" => Running(record')
           /\ at' = "source" => Ordinary(record') /\ record'.result # "PASS"
<1> DEFINE n == Len(record.exits)
<1>1. record \in Records /\ at = "commands" /\ Running(record)
    BY DEF TypeOK, RunCommand, ExecutionWell
<1>2. /\ record.exits \in Seq(Exits) /\ n \in Nat /\ n < NCommands /\ NCommands \in Nat
      /\ DOMAIN record.exits = 1..n
    BY <1>1, Fields, ExitListsAre, LenProperties, ActionsAssumption DEF Running
<1>3. ASSUME NEW exit \in Exits
      PROVE  LET e == Append(record.exits, exit)
             IN  /\ e # <<>> /\ Len(e) = n + 1 /\ DOMAIN e = 1..(n + 1)
                 /\ e[n + 1] = exit /\ \A i \in 1..n : e[i] = "zero"
    BY <1>1, <1>2, Appended DEF Running
<1>4. /\ record.known /\ record.runner /\ record.result = "BLOCKED" /\ record.reason = "other"
      /\ record.exits # <<>> => record.isolated
    BY <1>1 DEF Running
<1>5. CASE NotStarted
  <2>1. CASE record' = Block(record, "other")
    <3>1. /\ record' \in Records /\ record'.result = "BLOCKED" /\ record'.reason = "other"
          /\ record'.exits = record.exits /\ record'.known = record.known
          /\ record'.runner = record.runner /\ record'.isolated = record.isolated
        BY <1>1, <2>1, Blocked DEF Reasons
    <3> QED
        BY <1>4, <1>5, <3>1 DEF NotStarted, Go, Ordinary
  <2>2. CASE record' = Block([record EXCEPT !.isolated = TRUE], "other")
    <3> DEFINE r == [record EXCEPT !.isolated = TRUE]
    <3>1. /\ r \in Records /\ r.isolated /\ r.exits = record.exits /\ r.known = record.known
          /\ r.runner = record.runner
        BY <1>1, RecordsAre
    <3> HIDE DEF r
    <3>2. /\ record' \in Records /\ record'.result = "BLOCKED" /\ record'.reason = "other"
          /\ record'.exits = record.exits /\ record'.known = record.known
          /\ record'.runner = record.runner /\ record'.isolated
        BY <2>2, <3>1, Blocked DEF Reasons, r
    <3> QED
        BY <1>4, <1>5, <3>2 DEF NotStarted, Go, Ordinary
  <2> QED
      BY <1>5, <2>1, <2>2 DEF NotStarted
<1>6. CASE Inconsistent
  <2>1. PICK exit \in Exits : record' = Block(Counted(record, exit), "other")
      BY <1>6 DEF Inconsistent
  <2> DEFINE c == Counted(record, exit)
  <2>2. /\ c \in Records /\ c.isolated /\ c.known /\ c.runner
      BY <1>1, <1>2, <1>4, CountedIs
  <2> HIDE DEF c
  <2>3. /\ record' \in Records /\ record'.result = "BLOCKED" /\ record'.reason = "other"
        /\ record'.known /\ record'.runner /\ record'.isolated
      BY <2>1, <2>2, Blocked DEF Reasons, c
  <2> QED
      BY <1>6, <2>3 DEF Inconsistent, Go, Ordinary
<1>7. CASE Killed
  <2>1. PICK totals \in TotalsAfter(record) :
            record' = Block([Counted(record, "signal") EXCEPT !.totals = totals], "signal")
      BY <1>7 DEF Killed
  <2>2. totals \in Totals
      BY <2>1, TotalsAre
  <2> DEFINE c == Counted(record, "signal")
             t == [c EXCEPT !.totals = totals]
  <2>3. /\ c \in Records /\ c.isolated /\ c.known /\ c.runner
        /\ c.exits = Append(record.exits, "signal")
      BY <1>1, <1>2, <1>4, CountedIs DEF Exits
  <2> HIDE DEF c
  <2>4. /\ t \in Records /\ t.isolated /\ t.known /\ t.runner /\ t.exits = c.exits
      BY <2>2, <2>3, Totalled
  <2> HIDE DEF t
  <2>5. /\ record' \in Records /\ record'.result = "BLOCKED" /\ record'.reason = "signal"
        /\ record'.known /\ record'.runner /\ record'.isolated
        /\ record'.exits = Append(record.exits, "signal")
      BY <2>1, <2>3, <2>4, Blocked DEF Reasons, c, t
  <2>6. Last(record'.exits) = "signal"
      BY <1>3, <2>5 DEF Last, Exits
  <2> QED
      BY <1>7, <2>5, <2>6 DEF Killed, Go, Ordinary
<1>8. CASE Failed
  <2>1. PICK totals \in TotalsAfter(record) :
            record' = [Counted(record, "nonzero") EXCEPT !.totals = totals,
                                                         !.result = "FAIL", !.reason = "null"]
      BY <1>8 DEF Failed
  <2>2. totals \in Totals
      BY <2>1, TotalsAre
  <2> DEFINE c == Counted(record, "nonzero")
  <2>3. /\ c \in Records /\ c.isolated /\ c.known /\ c.runner
        /\ c.exits = Append(record.exits, "nonzero")
      BY <1>1, <1>2, <1>4, CountedIs DEF Exits
  <2> HIDE DEF c
  <2>4. record' = [c EXCEPT !.totals = totals, !.result = "FAIL", !.reason = "null"]
      BY <2>1 DEF c
  <2>5. /\ record' \in Records /\ record'.result = "FAIL" /\ record'.reason = "null"
        /\ record'.known /\ record'.runner /\ record'.isolated
        /\ record'.exits = c.exits
      BY <2>2, <2>3, <2>4, RecordsAre DEF Totals, Results, Reasons
  <2>6. /\ record'.exits # <<>> /\ Last(record'.exits) = "nonzero"
        /\ \A i \in 1..(Len(record'.exits) - 1) : record'.exits[i] = "zero"
      BY <1>2, <1>3, <2>3, <2>5 DEF Last, Exits
  <2> QED
      BY <1>8, <2>5, <2>6 DEF Failed, Go, Ordinary
<1>9. CASE Succeeded
  <2>1. PICK totals \in TotalsAfter(record) :
            record' = [Counted(record, "zero") EXCEPT !.totals = totals]
      BY <1>9 DEF Succeeded
  <2>2. totals \in Totals
      BY <2>1, TotalsAre
  <2> DEFINE c == Counted(record, "zero")
  <2>3. /\ c \in Records /\ c.isolated /\ c.known /\ c.runner
        /\ c.result = "BLOCKED" /\ c.reason = "other"
        /\ c.exits = Append(record.exits, "zero")
      BY <1>1, <1>2, <1>4, CountedIs DEF Exits
  <2> HIDE DEF c
  <2>4. /\ record' \in Records /\ record'.isolated /\ record'.known /\ record'.runner
        /\ record'.result = "BLOCKED" /\ record'.reason = "other" /\ record'.exits = c.exits
      BY <2>1, <2>2, <2>3, Totalled DEF c
  <2>5. /\ Len(record'.exits) = n + 1
        /\ \A i \in DOMAIN record'.exits : record'.exits[i] = "zero"
      BY <1>2, <1>3, <2>3, <2>4 DEF Exits
  <2>6. at' = "source" \/ (at' = "commands" /\ n + 1 # NCommands)
      BY <1>9 DEF Succeeded, Go, Command
  <2>7. at' = "commands" => n + 1 < NCommands
      BY <1>2, <2>6
  <2> QED
      BY <2>4, <2>5, <2>6, <2>7 DEF Ordinary, Running
<1> QED
    BY <1>5, <1>6, <1>7, <1>8, <1>9 DEF RunCommand

(* A record may be blocked at any later point. *)
LEMMA BlockedOrdinary ==
    ASSUME NEW rec \in Records, Ordinary(rec)
    PROVE  /\ Block(rec, "other") \in Records /\ Ordinary(Block(rec, "other"))
           /\ Block(rec, "other").result # "PASS"
<1> DEFINE b == Block(rec, "other")
<1>1. /\ b \in Records /\ b.result = "BLOCKED" /\ b.reason = "other"
      /\ b.known = rec.known /\ b.runner = rec.runner
      /\ b.isolated = rec.isolated /\ b.exits = rec.exits
    BY Blocked DEF Reasons
<1> HIDE DEF b
<1>2. Ordinary(b) /\ b.result # "PASS"
    BY <1>1 DEF Ordinary
<1> QED
    BY <1>1, <1>2 DEF b

LEMMA NoRecordTyped ==
    /\ NoRecord \in Records /\ NoRecord.exits = <<>> /\ NoRecord.totals = "none"
    /\ NoRecord.result = "BLOCKED" /\ NoRecord.reason = "other"
<1>1. <<>> \in ExitLists
  <2>1. <<>> \in Seq(Exits) /\ Len(<<>>) = 0
      BY EmptySeq
  <2>2. 0 <= NCommands
      BY ActionsAssumption
  <2> QED
      BY <2>1, <2>2, ExitListsAre
<1>2. 0 \in 0..MaxAttempts
    BY ActionsAssumption
<1> QED
    BY <1>1, <1>2, RecordsAre DEF NoRecord, Results, Reasons

LEMMA SetupEnds ==
    ASSUME TypeOK, Setup
    PROVE  /\ record' \in Records /\ record'.exits = <<>> /\ record'.totals = "none"
           /\ at' = "commands" => Running(record')
           /\ at' = "source" => Ordinary(record') /\ record'.result # "PASS"
<1>1. Len(<<>>) = 0 /\ DOMAIN <<>> = {} /\ 0 < NCommands
  <2>1. <<>> \in Seq(Exits) /\ Len(<<>>) = 0
      BY EmptySeq
  <2>2. DOMAIN <<>> = 1..Len(<<>>)
      BY <2>1, LenProperties
  <2> QED
      BY <2>1, <2>2, ActionsAssumption
<1>2. attempt \in 0..MaxAttempts
    BY ActionsAssumption DEF TypeOK
<1>3. /\ StartRecord \in Records /\ StartRecord.exits = <<>> /\ StartRecord.totals = "none"
      /\ StartRecord.result = "BLOCKED" /\ StartRecord.reason = "other"
  <2>1. /\ NoRecord \in Records /\ NoRecord.exits = <<>> /\ NoRecord.totals = "none"
        /\ NoRecord.result = "BLOCKED" /\ NoRecord.reason = "other"
      BY NoRecordTyped
  <2> QED
      BY <1>2, <2>1, RecordsAre DEF StartRecord
<1>4. CASE record' = [StartRecord EXCEPT !.known = TRUE, !.runner = TRUE]
  <2>1. /\ record' \in Records /\ record'.known /\ record'.runner
        /\ record'.exits = <<>> /\ record'.totals = "none"
        /\ record'.result = "BLOCKED" /\ record'.reason = "other"
      BY <1>3, <1>4, RecordsAre
  <2> QED
      BY <1>1, <2>1 DEF Running, Ordinary
<1>5. ASSUME NEW known \in BOOLEAN, record' = [StartRecord EXCEPT !.known = known], at' = "source"
      PROVE  /\ record' \in Records /\ record'.exits = <<>> /\ record'.totals = "none"
             /\ Ordinary(record') /\ record'.result # "PASS"
  <2>1. /\ record' \in Records /\ record'.exits = <<>> /\ record'.totals = "none"
        /\ record'.result = "BLOCKED" /\ record'.reason = "other"
      BY <1>3, <1>5, RecordsAre
  <2> QED
      BY <2>1 DEF Ordinary
<1> QED
    BY <1>4, <1>5 DEF Setup, Go

(* What the final proof of the source leaves. *)
LEMMA SourceEnds ==
    ASSUME TypeOK, ExecutionWell, FinalSource
    PROVE  /\ record' \in Records /\ Ordinary(record')
           /\ record'.exits = record.exits /\ record'.totals = record.totals
           /\ record'.result = "PASS" =>
                 AllZero(record') /\ record'.clean /\ (Collector # 0 => record'.totals # "none")
<1>1. /\ record \in Records /\ Ordinary(record) /\ record.result # "PASS"
    BY DEF TypeOK, ExecutionWell, FinalSource, Closing
<1>2. AllZero(record) => /\ record.exits # <<>> /\ record.known /\ record.runner /\ record.isolated
                         /\ record.exits[Len(record.exits)] = "zero"
  <2>1. SUFFICES ASSUME AllZero(record)
                 PROVE  /\ record.exits # <<>>
                        /\ record.exits[Len(record.exits)] = "zero"
      BY <1>1 DEF Ordinary
  <2>2. /\ record.exits \in Seq(Exits) /\ Len(record.exits) = NCommands
        /\ NCommands \in Nat /\ NCommands >= 1 /\ DOMAIN record.exits = 1..NCommands
      BY <1>1, <2>1, Fields, ExitListsAre, LenProperties, ActionsAssumption DEF AllZero
  <2> QED
      BY <2>1, <2>2, EmptySeq DEF AllZero
<1> DEFINE c == Concluded(record)
<1>3. /\ c \in Records /\ Ordinary(c) /\ c.exits = record.exits /\ c.totals = record.totals
      /\ c.known = record.known
      /\ c.result = "PASS" => AllZero(record) /\ (Collector # 0 => c.totals # "none")
  <2>1. CASE ~AllZero(record)
      BY <1>1, <2>1 DEF Concluded
  <2>2. CASE AllZero(record) /\ Collector # 0 /\ record.totals = "none"
    <3>1. c = Block(record, "other")
        BY <2>2 DEF Concluded
    <3> QED
        BY <1>1, <3>1, Blocked, BlockedOrdinary DEF Reasons
  <2>3. CASE AllZero(record) /\ ~(Collector # 0 /\ record.totals = "none")
    <3>1. c = [record EXCEPT !.result = "PASS", !.reason = "null"]
        BY <2>3 DEF Concluded
    <3>2. /\ c \in Records /\ c.result = "PASS" /\ c.reason = "null"
          /\ c.exits = record.exits /\ c.totals = record.totals /\ c.known = record.known
          /\ c.runner = record.runner /\ c.isolated = record.isolated
        BY <1>1, <3>1, RecordsAre DEF Results, Reasons
    <3> HIDE DEF c
    <3>3. Ordinary(c)
        BY <1>2, <2>3, <3>2 DEF Ordinary
    <3> QED
        BY <2>3, <3>2, <3>3
  <2> QED
      BY <2>1, <2>2, <2>3
<1> HIDE DEF c
<1>4. CASE record' = SourceProof(c, checkout)
  <2>1. CASE ~c.known
    <3>1. record' = c /\ c.result # "PASS"
        BY <1>2, <1>3, <1>4, <2>1 DEF SourceProof
    <3> QED
        BY <1>3, <3>1
  <2>2. CASE c.known
    <3> DEFINE moved == checkout = "moved"
               clean == checkout = "exact"
               p == [c EXCEPT !.moved = moved, !.clean = clean]
    <3>1. moved \in BOOLEAN /\ clean \in BOOLEAN
        OBVIOUS
    <3>2. record' = IF p.clean THEN p ELSE Block(p, "other")
        BY <1>4, <2>2 DEF SourceProof
    <3> HIDE DEF moved, clean
    <3>3. /\ p \in Records /\ p.exits = c.exits /\ p.totals = c.totals /\ p.known = c.known
          /\ p.runner = c.runner /\ p.isolated = c.isolated /\ p.result = c.result
          /\ p.reason = c.reason
        BY <1>3, <3>1, RecordsAre
    <3> HIDE DEF p
    <3>4. Ordinary(p)
        BY <1>3, <3>3 DEF Ordinary
    <3>5. CASE p.clean
        BY <1>3, <3>2, <3>3, <3>4, <3>5 DEF AllZero
    <3>6. CASE ~p.clean
        BY <1>3, <3>2, <3>3, <3>4, <3>6, Blocked, BlockedOrdinary DEF Reasons
    <3> QED
        BY <3>5, <3>6
  <2> QED
      BY <2>1, <2>2
<1>5. ASSUME NEW moved \in {FALSE, checkout = "moved"},
             record' = Block([record EXCEPT !.moved = moved], "other")
      PROVE  /\ record' \in Records /\ Ordinary(record') /\ record'.result # "PASS"
             /\ record'.exits = record.exits /\ record'.totals = record.totals
  <2> DEFINE m == [record EXCEPT !.moved = moved]
  <2>1. moved \in BOOLEAN
      BY <1>5
  <2>2. /\ m \in Records /\ m.exits = record.exits /\ m.totals = record.totals
        /\ m.known = record.known /\ m.runner = record.runner /\ m.isolated = record.isolated
        /\ m.result = record.result /\ m.reason = record.reason
      BY <1>1, <2>1, RecordsAre
  <2> HIDE DEF m
  <2>3. Ordinary(m)
      BY <1>1, <2>2 DEF Ordinary
  <2> QED
      BY <1>5, <2>2, <2>3, Blocked, BlockedOrdinary DEF Reasons, m
<1> QED
    BY <1>4, <1>5 DEF FinalSource, c

(* The last two steps of the executor only add a finding or block. *)
LEMMA RunnerEnds ==
    ASSUME TypeOK, ExecutionWell, FinalRunner
    PROVE  /\ record' \in Records /\ Ordinary(record')
           /\ record'.result = "PASS" =>
                 /\ record.result = "PASS" /\ record'.steady
                 /\ record'.exits = record.exits /\ record'.totals = record.totals
                 /\ record'.clean = record.clean
<1>1. record \in Records /\ Ordinary(record)
    BY DEF TypeOK, ExecutionWell, FinalRunner, Closing
<1>2. CASE record' = IF record.runner THEN [record EXCEPT !.steady = TRUE] ELSE record
  <2>1. CASE record.runner
    <3>1. /\ record' \in Records /\ record'.steady /\ record'.exits = record.exits
          /\ record'.totals = record.totals /\ record'.clean = record.clean
          /\ record'.known = record.known /\ record'.runner = record.runner
          /\ record'.isolated = record.isolated /\ record'.result = record.result
          /\ record'.reason = record.reason
        BY <1>1, <1>2, <2>1, RecordsAre
    <3> QED
        BY <1>1, <3>1 DEF Ordinary
  <2>2. CASE ~record.runner
    <3>1. record.result # "PASS"
        BY <1>1, <2>2 DEF Ordinary
    <3> QED
        BY <1>1, <1>2, <2>2, <3>1
  <2> QED
      BY <2>1, <2>2
<1>3. CASE record' = Block(record, "other")
    BY <1>1, <1>3, BlockedOrdinary
<1> QED
    BY <1>2, <1>3 DEF FinalRunner

LEMMA CleanupEnds ==
    ASSUME TypeOK, ExecutionWell, Cleanup
    PROVE  /\ record' \in Records /\ Ordinary(record')
           /\ record'.result = "PASS" =>
                 /\ record.result = "PASS" /\ record'.steady = record.steady
                 /\ record'.exits = record.exits /\ record'.totals = record.totals
                 /\ record'.clean = record.clean
<1>1. record \in Records /\ Ordinary(record)
    BY DEF TypeOK, ExecutionWell, Cleanup, Closing
<1>2. CASE record' = [record EXCEPT !.removed = TRUE]
  <2>1. /\ record' \in Records /\ record'.steady = record.steady /\ record'.exits = record.exits
        /\ record'.totals = record.totals /\ record'.clean = record.clean
        /\ record'.known = record.known /\ record'.runner = record.runner
        /\ record'.isolated = record.isolated /\ record'.result = record.result
        /\ record'.reason = record.reason
      BY <1>1, <1>2, RecordsAre
  <2> QED
      BY <1>1, <2>1 DEF Ordinary
<1>3. CASE record' = Block(record, "other")
    BY <1>1, <1>3, BlockedOrdinary
<1> QED
    BY <1>1, <1>2, <1>3 DEF Cleanup

-----------------------------------------------------------------------------
(* Type correctness. *)

Steps == Controlling \cup Executing \cup Publishing \cup Ended

LEMMA StepKinds ==
    /\ \A step \in {"preflight", "resolve", "census", "recheck", "reresolve", "setup", "commands",
                    "source", "runner", "cleanup", "handoff", "build", "receipt", "upload", "status",
                    "effective", "post", "controller failed", "executor failed",
                    "publisher failed", "rejected", "refused", "reported", "passed"} : step \in Steps
    /\ \A step \in Steps : JobOf(step) \in Steps
BY DEF Steps, Controlling, Executing, Publishing, Ended, JobOf

LEMMA Moves ==
    ASSUME TypeOK, NEW step \in Steps, Go(step) \/ Enter(step)
    PROVE  at' \in Steps /\ exact' \in [pr : BOOLEAN, main : BOOLEAN]
<1>1. ASSUME NEW p \in BOOLEAN, NEW m \in BOOLEAN
      PROVE  [pr |-> p, main |-> m] \in [pr : BOOLEAN, main : BOOLEAN]
    OBVIOUS
<1>2. Exact(pr) \in BOOLEAN /\ (main = dispatch.main) \in BOOLEAN
    BY DEF Exact, TypeOK, PullRequests
<1>3. Since(pr, main) \in [pr : BOOLEAN, main : BOOLEAN]
    BY <1>1, <1>2 DEF Since
<1>4. Never \in [pr : BOOLEAN, main : BOOLEAN]
    BY DEF Never
<1> QED
    BY <1>3, <1>4 DEF TypeOK, Go, Enter

LEMMA UnreadTyped ==
    ASSUME TypeOK
    PROVE  Unread \in PullRequests
BY ActionsAssumption DEF TypeOK, Unread, PullRequests

LEMMA NoReceiptTyped == NoReceipt \in Receipts
BY ActionsAssumption DEF NoReceipt, Receipts, Results

LEMMA TypeStep ==
    ASSUME TypeOK, ExecutionWell, [Next]_vars
    PROVE  TypeOK'
<1> USE DEF remote, local, published
<1>1. /\ at \in Steps /\ dispatch \in Dispatches /\ pr \in PullRequests /\ main \in Mains
      /\ moves \in 0..MaxMoves /\ attempt \in 1..MaxAttempts /\ seen \in PullRequests
      /\ record \in Records /\ receipt \in Receipts
      /\ checkout \in {"none", "exact", "dirty", "moved"}
      /\ effective \in Results \cup {"STALE", "none"}
      /\ artifact \in [receipt : Receipts, proven : BOOLEAN]
      /\ posted \in [attempt : 0..MaxAttempts, state : {"none", "success", "failure", "error"}]
      /\ unclear \in BOOLEAN /\ exact \in [pr : BOOLEAN, main : BOOLEAN]
    BY DEF TypeOK, Steps
<1>2. MaxMoves \in Nat /\ MaxAttempts \in Nat /\ attempt \in 0..MaxAttempts /\ attempt \in Nat
    BY <1>1, ActionsAssumption
<1> USE DEF TypeOK
<1>3. CASE UNCHANGED vars
    BY <1>3 DEF vars
<1>4. ASSUME at' \in Steps, exact' \in [pr : BOOLEAN, main : BOOLEAN], UNCHANGED remote,
             seen' \in PullRequests, record' \in Records, receipt' \in Receipts,
             checkout' \in {"none", "exact", "dirty", "moved"},
             effective' \in Results \cup {"STALE", "none"},
             artifact' \in [receipt : Receipts, proven : BOOLEAN],
             posted' \in [attempt : 0..MaxAttempts,
                          state : {"none", "success", "failure", "error"}],
             unclear' \in BOOLEAN, attempt' \in 1..MaxAttempts
      PROVE  TypeOK'
    BY <1>1, <1>4 DEF Steps
<1>5. CASE Controller \/ Recheck
  <2>1. PICK step \in Steps : Go(step) \/ Enter(step)
      BY <1>5, StepKinds DEF Controller, Preflight, Recheck, ReadController, ReadPullRequest, Census
  <2>2. UNCHANGED <<remote, local, published, attempt>>
      BY <1>5 DEF Controller, Preflight, Recheck, ReadController, ReadPullRequest, Census
  <2> QED
      BY <1>1, <1>4, <2>1, <2>2, Moves
<1>6. CASE Setup
  <2>1. PICK step \in Steps : Go(step)
      BY <1>6, StepKinds DEF Setup
  <2> QED
      BY <1>1, <1>4, <1>6, <2>1, Moves, SetupEnds DEF Setup
<1>7. CASE RunCommand
  <2>1. PICK step \in Steps : Go(step)
      BY <1>7, StepKinds DEF RunCommand, NotStarted, Inconsistent, Killed, Failed, Succeeded
  <2>2. unclear' \in BOOLEAN
      BY <1>1, <1>7 DEF RunCommand, NotStarted, Inconsistent, Killed, Failed, Succeeded
  <2> QED
      BY <1>1, <1>4, <1>7, <2>1, <2>2, Moves, CommandEnds DEF RunCommand
<1>8. CASE FinalSource \/ FinalRunner \/ Cleanup
  <2>1. PICK step \in Steps : Go(step)
      BY <1>8, StepKinds DEF FinalSource, FinalRunner, Cleanup
  <2>2. record' \in Records
      BY <1>8, SourceEnds, RunnerEnds, CleanupEnds
  <2> QED
      BY <1>1, <1>4, <1>8, <2>1, <2>2, Moves DEF FinalSource, FinalRunner, Cleanup
<1>9. CASE Handoff
    BY <1>1, <1>4, <1>9, StepKinds, Moves DEF Handoff
<1>10. CASE ResolvePullRequest("build", "receipt") \/ Upload \/ Accept
  <2>1. PICK step \in Steps : Go(step) \/ Enter(step)
      BY <1>10, StepKinds DEF ResolvePullRequest, Upload, Accept
  <2>2. Proven \in BOOLEAN
      BY <1>1, Fields DEF Proven, AllZero
  <2>3. artifact' \in [receipt : Receipts, proven : BOOLEAN]
    <3> HIDE DEF Proven
    <3> QED
        BY <1>1, <1>10, <2>2 DEF ResolvePullRequest, Upload, Accept
  <2> QED
      BY <1>1, <1>4, <1>10, <2>1, <2>3, Moves DEF ResolvePullRequest, Upload, Accept
<1>11. CASE Build
  <2>1. PICK step \in Steps : Go(step)
      BY <1>11, StepKinds DEF Build
  <2>2. \A final \in {"PASS", "STALE", "BLOCKED"} : BuildReceipt(record, final) \in Receipts
      BY <1>1, <1>2, Fields DEF BuildReceipt, Receipts, Results
  <2>3. PublicationIdentity(seen) \in {"PASS", "STALE", "BLOCKED"}
      BY DEF PublicationIdentity
  <2>4. receipt' \in Receipts
      BY <1>1, <1>11, <2>2, <2>3 DEF Build
  <2> QED
      BY <1>1, <1>4, <1>11, <2>1, <2>4, Moves, UnreadTyped DEF Build
<1>12. CASE Resolve
  <2>1. EffectiveResult(seen) \in Results \cup {"STALE"}
      BY <1>1 DEF EffectiveResult, PublicationIdentity, Receipts, Results
  <2> QED
      BY <1>1, <1>4, <1>12, <2>1, StepKinds, Moves, UnreadTyped DEF Resolve
<1>13. CASE Post
  <2>1. PICK step \in Steps : Go(step)
      BY <1>13, StepKinds DEF Post
  <2>2. StatusForResult(effective) \in {"none", "success", "failure", "error"}
      BY DEF StatusForResult
  <2>3. posted' \in [attempt : 0..MaxAttempts, state : {"none", "success", "failure", "error"}]
    <3> HIDE DEF StatusForResult
    <3> QED
        BY <1>2, <1>13, <2>2 DEF Post
  <2> QED
      BY <1>1, <1>4, <1>13, <2>1, <2>3, Moves DEF Post
<1>14. CASE Remote
  <2>1. exact' \in [pr : BOOLEAN, main : BOOLEAN]
    <3> DEFINE p == exact.pr \/ Exact(pr')
               m == exact.main \/ main' = dispatch.main
    <3>1. exact' = exact \/ exact' = [pr |-> p, main |-> m]
        BY <1>14 DEF Remote
    <3>2. p \in BOOLEAN /\ m \in BOOLEAN
        BY <1>1 DEF Exact
    <3> HIDE DEF p, m
    <3> QED
        BY <1>1, <3>1, <3>2
  <2>2. moves' \in 0..MaxMoves /\ pr' \in PullRequests /\ main' \in Mains
      BY <1>1, <1>2, <1>14 DEF Remote
  <2> QED
      BY <1>1, <1>14, <2>1, <2>2 DEF Remote, Steps
<1>15. CASE Disturb
    BY <1>1, <1>4, <1>15 DEF Disturb
<1>16. CASE Lose
  <2>1. JobOf(at) \in Steps
      BY <1>1, StepKinds
  <2>2. at' \in Steps /\ exact' \in [pr : BOOLEAN, main : BOOLEAN]
      BY <1>16, <2>1, Moves DEF Lose
  <2>3. record' \in Records /\ unclear' \in BOOLEAN
      BY <1>1, <1>16, NoRecordTyped DEF Lose
  <2> QED
      BY <1>1, <1>4, <1>16, <2>2, <2>3, UnreadTyped, NoReceiptTyped DEF Lose
<1>17. CASE RerunFailed \/ RerunAll
  <2>1. PICK step \in Steps : Enter(step)
    <3>1. Enter("preflight") \/ Enter("recheck") \/ Enter("build")
        BY <1>17 DEF RerunFailed, RerunAll
    <3> QED
        BY <3>1, StepKinds
  <2>2. attempt' \in 1..MaxAttempts
    <3>1. attempt < MaxAttempts /\ attempt' = attempt + 1
        BY <1>17 DEF RerunFailed, RerunAll
    <3>2. attempt \in 1..MaxAttempts
        BY <1>1
    <3> HIDE DEF TypeOK
    <3> QED
        BY <1>2, <3>1, <3>2
  <2>3. /\ record' \in Records /\ receipt' \in Receipts /\ unclear' \in BOOLEAN
        /\ artifact' \in [receipt : Receipts, proven : BOOLEAN]
    <3>1. /\ record' = record \/ record' = NoRecord
          /\ receipt' = NoReceipt /\ artifact' = NoArtifact
        BY <1>17 DEF RerunFailed, RerunAll
    <3>2. unclear' \in BOOLEAN
        BY <1>1, <1>17 DEF RerunFailed, RerunAll
    <3>3. NoArtifact \in [receipt : Receipts, proven : BOOLEAN]
      <4> HIDE DEF TypeOK
      <4> QED
          BY NoReceiptTyped DEF NoArtifact
    <3> HIDE DEF TypeOK
    <3> QED
        BY <1>1, <3>1, <3>2, <3>3, NoRecordTyped, NoReceiptTyped
  <2>4. /\ checkout' \in {"none", "exact", "dirty", "moved"}
        /\ UNCHANGED <<remote, effective, seen, posted>>
      BY <1>1, <1>17 DEF RerunFailed, RerunAll
  <2> QED
      BY <1>1, <1>4, <2>1, <2>2, <2>3, <2>4, Moves
<1> QED
    BY <1>3, <1>5, <1>6, <1>7, <1>8, <1>9, <1>10, <1>11, <1>12, <1>13, <1>14, <1>15, <1>16, <1>17
       DEF Next, Executor, Publisher

-----------------------------------------------------------------------------
(* The invariant, part by part. *)

LEMMA ExecutionStep ==
    ASSUME TypeOK, ExecutionWell, [Next]_vars
    PROVE  ExecutionWell'
<1> USE DEF Closing, Handed, Publishing
<1>1. SUFFICES ASSUME at' \in {"commands"} \cup Closing \cup Handed
               PROVE  ExecutionWell'
    BY DEF ExecutionWell
<1>2. ASSUME UNCHANGED record, at \in {"handoff"} \cup Handed, at' \in Handed
      PROVE  ExecutionWell'
    BY <1>2 DEF ExecutionWell, Ordinary, Running, AllZero
<1>3. CASE UNCHANGED vars \/ Remote \/ Disturb
  <2>1. UNCHANGED <<record, at>>
      BY <1>3 DEF vars, Remote, Disturb, local
  <2> QED
      BY <2>1 DEF ExecutionWell, Ordinary, Running, AllZero
<1>4. CASE Controller \/ Recheck
    BY <1>1, <1>4
       DEF Controller, Preflight, Recheck, ReadController, ReadPullRequest, Census, Go, Enter,
           JobOf, Controlling, Executing
<1>5. CASE Setup
  <2>1. at' \in {"commands", "source"}
      BY <1>5 DEF Setup, Go
  <2> QED
      BY <1>5, <2>1, SetupEnds DEF ExecutionWell
<1>6. CASE RunCommand
    BY <1>6, CommandEnds DEF ExecutionWell
<1>7. CASE FinalSource
  <2>1. at' = "runner"
      BY <1>7 DEF FinalSource, Go
  <2> QED
      BY <1>7, <2>1, SourceEnds DEF ExecutionWell
<1>8. CASE FinalRunner
  <2>1. at = "runner" /\ at' = "cleanup"
      BY <1>8 DEF FinalRunner, Go
  <2> QED
      BY <1>8, <2>1, RunnerEnds DEF ExecutionWell, AllZero
<1>9. CASE Cleanup
  <2>1. at = "cleanup" /\ at' = "handoff"
      BY <1>9 DEF Cleanup, Go
  <2> QED
      BY <1>9, <2>1, CleanupEnds DEF ExecutionWell, AllZero
<1>10. CASE Handoff \/ Publisher
  <2>1. UNCHANGED record /\ at \in {"handoff"} \cup Handed /\ at' \in Handed
      BY <1>10
         DEF Handoff, Publisher, ResolvePullRequest, Build, Upload, Accept, Resolve, Post, Go,
             Enter, local
  <2> QED
      BY <1>2, <2>1
<1>11. CASE Lose
  <2>1. UNCHANGED record /\ at \in Publishing /\ at' = "publisher failed"
      BY <1>1, <1>11 DEF Lose, Go, JobOf, TypeOK, Controlling, Executing, Ended
  <2> QED
      BY <1>2, <2>1
<1>12. CASE RerunFailed \/ RerunAll
  <2>1. UNCHANGED record /\ at \in Handed /\ at' = "build"
      BY <1>1, <1>12 DEF RerunFailed, RerunAll, Enter, Ended
  <2> QED
      BY <1>2, <2>1
<1> QED
    BY <1>3, <1>4, <1>5, <1>6, <1>7, <1>8, <1>9, <1>10, <1>11, <1>12 DEF Next, Executor


(* What the run keeps of the remote when a step begins, and when it goes on. *)
LEMMA Begun ==
    ASSUME TypeOK, NEW step, Enter(step), UNCHANGED remote
    PROVE  at' = step /\ (Exact(pr') => exact'.pr) /\ (main' = dispatch'.main => exact'.main)
<1> DEFINE p == Exact(pr)
           m == main = dispatch.main
<1>1. at' = step /\ exact' = [pr |-> p, main |-> m]
    BY DEF Enter, Since
<1>2. (Exact(pr')) <=> p
    BY DEF remote, Exact
<1> HIDE DEF p
<1> QED
    BY <1>1, <1>2 DEF remote

LEMMA SightingsStep ==
    ASSUME TypeOK, SightingsWell, [Next]_vars
    PROVE  SightingsWell'
<1> USE DEF Watched, remote
<1>1. CASE UNCHANGED vars \/ Disturb
  <2>1. UNCHANGED <<at, pr, main, dispatch, exact, seen, effective>>
      BY <1>1 DEF vars, Disturb, local
  <2> QED
      BY <2>1 DEF SightingsWell, Exact
<1>2. ASSUME NEW step \in Steps \ Watched, Go(step), UNCHANGED remote
      PROVE  SightingsWell'
    BY <1>2 DEF Go, SightingsWell
<1>3. ASSUME NEW step \in {"preflight", "recheck", "build", "status"},
              Enter(step), UNCHANGED remote
       PROVE  SightingsWell'
  <2>1. at' = step /\ (Exact(pr') => exact'.pr) /\ (main' = dispatch'.main => exact'.main)
      BY <1>3, Begun
  <2>2. Exact(pr)' <=> Exact(pr')
      BY <1>3 DEF Exact
  <2> QED
      BY <1>3, <2>1, <2>2 DEF SightingsWell
<1>4. ASSUME NEW step \in {"reresolve", "setup", "effective", "post"}, at \in Watched,
             Go(step), UNCHANGED remote
      PROVE  /\ at' = step /\ UNCHANGED exact
             /\ (Exact(pr)' => exact'.pr) /\ (main' = dispatch'.main => exact'.main)
    BY <1>4 DEF SightingsWell, Go, Exact
<1>5. CASE Remote
  <2>1. UNCHANGED <<at, seen, effective, dispatch>>
      BY <1>5 DEF Remote, local
  <2>2. CASE at \notin Watched
      BY <2>1, <2>2 DEF SightingsWell
  <2>3. CASE at \in Watched
    <3> DEFINE p == exact.pr \/ Exact(pr')
               m == exact.main \/ main' = dispatch.main
    <3>1. exact' = [pr |-> p, main |-> m]
        BY <1>5, <2>3 DEF Remote
    <3>2. /\ (exact.pr => p) /\ (exact.main => m) /\ (Exact(pr)' => p)
          /\ (main' = dispatch'.main => m)
        BY <2>1 DEF Exact
    <3> HIDE DEF p, m
    <3>3. exact'.pr = p /\ exact'.main = m
        BY <3>1
    <3>4. Exact(seen)' <=> Exact(seen)
        BY <2>1 DEF Exact
    <3> QED
        BY <2>1, <2>3, <3>2, <3>3, <3>4 DEF SightingsWell
  <2> QED
      BY <2>2, <2>3
<1>6. CASE Preflight
  <2>1. CASE Census
    <3>1. CASE Go("controller failed")
        BY <1>2, <2>1, <3>1, StepKinds DEF Census
    <3>2. CASE Enter("recheck")
        BY <1>3, <2>1, <3>2 DEF Census
    <3> QED
        BY <2>1, <3>1, <3>2 DEF Census
  <2>2. CASE ~Census
    <3>1. PICK step \in {"resolve", "census", "controller failed"} : Go(step)
        BY <1>6, <2>2 DEF Preflight, ReadController, ReadPullRequest, JobOf, Controlling
    <3>2. UNCHANGED remote
        BY <1>6, <2>2 DEF Preflight, ReadController, ReadPullRequest
    <3> QED
        BY <1>2, <3>1, <3>2, StepKinds
  <2> QED
      BY <2>1, <2>2
<1>7. CASE Recheck
  <2>1. CASE Go("executor failed")
      BY <1>2, <1>7, <2>1, StepKinds DEF Recheck, ReadController, ReadPullRequest
  <2>2. CASE at = "recheck" /\ main = dispatch.main /\ Go("reresolve")
    <3>1. exact.main
        BY <2>2 DEF SightingsWell
    <3>2. UNCHANGED remote
        BY <1>7 DEF Recheck, ReadController, ReadPullRequest
    <3> QED
        BY <1>4, <2>2, <3>1, <3>2 DEF SightingsWell
  <2>3. CASE at = "reresolve" /\ EvaluatePrIdentity(pr) = "PASS" /\ Go("setup")
    <3>1. exact.main /\ exact.pr
        BY <2>3 DEF SightingsWell, EvaluatePrIdentity, Moved, Exact
    <3>2. UNCHANGED remote
        BY <1>7 DEF Recheck, ReadController, ReadPullRequest
    <3> QED
        BY <1>4, <2>3, <3>1, <3>2 DEF SightingsWell
  <2> QED
      BY <1>7, <2>1, <2>2, <2>3
         DEF Recheck, ReadController, ReadPullRequest, JobOf, Controlling, Executing
<1>8. CASE Setup \/ RunCommand \/ FinalSource \/ FinalRunner \/ Cleanup
  <2>1. PICK step \in {"commands", "source", "runner", "cleanup", "handoff"} : Go(step)
      BY <1>8
         DEF Setup, RunCommand, NotStarted, Inconsistent, Killed, Failed, Succeeded, FinalSource,
             FinalRunner, Cleanup
  <2>2. UNCHANGED remote
      BY <1>8 DEF Setup, RunCommand, FinalSource, FinalRunner, Cleanup
  <2> QED
      BY <1>2, <2>1, <2>2, StepKinds
<1>9. CASE Handoff \/ Upload
  <2>1. PICK step \in {"build", "status"} : Enter(step)
      BY <1>9 DEF Handoff, Upload
  <2>2. UNCHANGED remote
      BY <1>9 DEF Handoff, Upload
  <2> QED
      BY <1>3, <2>1, <2>2
<1>10. CASE ResolvePullRequest("build", "receipt") \/ Build
    BY <1>2, <1>10, StepKinds DEF ResolvePullRequest, Build
<1>11. CASE Accept
  <2>1. CASE Go("refused")
      BY <1>2, <1>11, <2>1, StepKinds DEF Accept
  <2>2. CASE seen' = pr /\ Go("effective")
    <3>1. Exact(seen)' <=> Exact(pr)'
        BY <1>11, <2>2 DEF Accept, Exact
    <3> QED
        BY <1>4, <1>11, <2>2, <3>1 DEF Accept, SightingsWell
  <2> QED
      BY <1>11, <2>1, <2>2 DEF Accept
<1>12. CASE Resolve
  <2>1. at = "effective" /\ Go("post") /\ UNCHANGED remote
      BY <1>12 DEF Resolve
  <2>2. effective' = "PASS" => main = dispatch.main /\ Exact(seen)
      BY <1>12 DEF Resolve, EffectiveResult, PublicationIdentity, EvaluatePrIdentity, Moved, Exact
  <2>3. effective' = "PASS" => exact.main /\ exact.pr
      BY <2>1, <2>2 DEF SightingsWell
  <2> QED
      BY <1>4, <2>1, <2>3 DEF SightingsWell
<1>13. CASE Post
    BY <1>2, <1>13, StepKinds DEF Post
<1>14. CASE Lose
  <2>1. JobOf(at) \in Steps \ Watched
      BY StepKinds DEF JobOf, TypeOK, Steps
  <2> QED
      BY <1>2, <1>14, <2>1 DEF Lose
<1>15. CASE RerunFailed \/ RerunAll
  <2>1. PICK step \in {"preflight", "recheck", "build"} : Enter(step)
      BY <1>15 DEF RerunFailed, RerunAll
  <2>2. UNCHANGED remote
      BY <1>15 DEF RerunFailed, RerunAll
  <2> QED
      BY <1>3, <2>1, <2>2
<1> QED
    BY <1>1, <1>5, <1>6, <1>7, <1>8, <1>9, <1>10, <1>11, <1>12, <1>13, <1>14, <1>15
       DEF Next, Controller, Executor, Publisher

LEMMA ControlledStep ==
    ASSUME TypeOK, ControlledStays, [Next]_vars
    PROVE  ControlledStays'
<1>1. UNCHANGED dispatch
    BY DEF vars, remote, Next, Controller, Preflight, Executor, Recheck, Publisher, ReadController,
           ReadPullRequest, Census, Setup, RunCommand, FinalSource, FinalRunner, Cleanup, Handoff,
           ResolvePullRequest, Build, Upload, Accept, Resolve, Post, Remote, Disturb, Lose,
           RerunFailed, RerunAll
<1>2. SUFFICES ASSUME <<dispatch.base, dispatch.head>> \in Controlled
               PROVE  at' \in Controlling \cup {"controller failed"} /\ posted' = NoStatus
    BY <1>1 DEF ControlledStays
<1>3. at \in Controlling \cup {"controller failed"} /\ posted = NoStatus
    BY <1>2 DEF ControlledStays
<1>4. SelfCertifying
    BY <1>2 DEF SelfCertifying
<1> HIDE DEF NoStatus
<1> USE DEF Controlling, published
<1>5. CASE UNCHANGED vars \/ Remote
    BY <1>3, <1>5 DEF vars, Remote
<1>6. CASE Preflight
    BY <1>3, <1>4, <1>6 DEF Preflight, ReadController, ReadPullRequest, Census, Go, JobOf
<1>7. CASE Lose
    BY <1>3, <1>7 DEF Lose, Go, JobOf, Ended
<1>8. CASE RerunFailed \/ RerunAll
    BY <1>3, <1>8 DEF RerunFailed, RerunAll, Enter, Ended
<1>9. ~Disturb /\ ~Executor /\ ~Publisher
    BY <1>3
       DEF Disturb, Executor, Recheck, ReadController, ReadPullRequest, Setup, RunCommand,
           FinalSource, FinalRunner, Cleanup, Handoff, Publisher, ResolvePullRequest, Build,
           Upload, Accept, Resolve, Post
<1> QED
    BY <1>5, <1>6, <1>7, <1>8, <1>9 DEF Next, Controller

-----------------------------------------------------------------------------
(* A success, where the totals come with the last command. *)

LEMMA UndisputedStep ==
    ASSUME Collector = NCommands, TypeOK, ExecutionWell, Undisputed, [Next]_vars
    PROVE  Undisputed'
<1> USE DEF Unfinished, Started, Closing, Handed, Publishing, Controlling
<1>1. Collector # 0 /\ record \in Records
    BY ActionsAssumption DEF TypeOK
<1>2. ASSUME UNCHANGED <<record, unclear>>, at \in Handed \cup {"handoff"}, at' \in Handed
      PROVE  Undisputed'
    BY <1>2 DEF Undisputed
<1>3. CASE UNCHANGED vars \/ Remote \/ Disturb
  <2>1. UNCHANGED <<record, unclear, at>>
      BY <1>3 DEF vars, Remote, Disturb, local
  <2> QED
      BY <2>1 DEF Undisputed, AllZero
<1>4. CASE Controller \/ Recheck
  <2>1. UNCHANGED unclear
      BY <1>4
         DEF Controller, Preflight, Recheck, ReadController, ReadPullRequest, Census, local
  <2>2. at \in Unfinished /\ at' \in Unfinished \ {"commands"}
      BY <1>4
         DEF Controller, Preflight, Recheck, ReadController, ReadPullRequest, Census, Go, Enter,
             JobOf, Executing
  <2>3. ~unclear'
      BY <2>1, <2>2 DEF Undisputed
  <2> QED
      BY <2>2, <2>3 DEF Undisputed
<1>5. CASE Setup
  <2>1. ~unclear' /\ at' \in {"commands", "source"}
      BY <1>5 DEF Setup, Go
  <2> QED
      BY <1>5, <2>1, SetupEnds DEF Undisputed
<1>6. CASE RunCommand
  <2>1. at = "commands" /\ ~unclear /\ record.totals = "none" /\ Running(record)
      BY <1>6 DEF RunCommand, Undisputed, ExecutionWell
  <2>2. at' = "source" => record'.result # "PASS"
      BY <1>6, CommandEnds
  <2>3. CASE Inconsistent
    <3>1. PICK exit \in Exits : record' = Block(Counted(record, exit), "other")
        BY <2>3 DEF Inconsistent
    <3> DEFINE c == Counted(record, exit)
    <3>2. c \in Records /\ c.totals = record.totals
        BY <1>1, <2>1, CountedIs DEF Running
    <3> HIDE DEF c
    <3>3. record'.totals = "none" /\ at' = "source"
        BY <2>1, <2>3, <3>1, <3>2, Blocked DEF Reasons, Inconsistent, Go, c
    <3> QED
        BY <2>2, <3>3 DEF Undisputed
  <2>4. CASE Succeeded /\ at' = "commands"
    <3>1. PICK totals \in TotalsAfter(record) :
              record' = [Counted(record, "zero") EXCEPT !.totals = totals]
        BY <2>4 DEF Succeeded
    <3>2. Command # Collector
        BY <2>4 DEF Succeeded, Go
    <3>3. totals \in Totals /\ totals = "none"
        BY <2>1, <3>1, <3>2, TotalsAre
    <3> DEFINE c == Counted(record, "zero")
    <3>4. c \in Records
        BY <1>1, <2>1, CountedIs DEF Running, Exits
    <3> HIDE DEF c
    <3>5. record'.totals = "none"
        BY <3>1, <3>3, <3>4, Totalled DEF c
    <3> QED
        BY <2>1, <2>4, <3>5 DEF Undisputed, Succeeded
  <2>5. CASE (NotStarted \/ Killed \/ Failed \/ Succeeded) /\ at' # "commands"
    <3>1. UNCHANGED unclear
        BY <2>5 DEF NotStarted, Killed, Failed, Succeeded
    <3>2. at' = "source"
        BY <1>6, <2>5, CommandEnds
    <3> QED
        BY <2>1, <3>1, <3>2 DEF Undisputed
  <2>6. ~(NotStarted \/ Killed \/ Failed) \/ at' # "commands"
      BY DEF NotStarted, Killed, Failed, Go
  <2> QED
    <3>1. NotStarted \/ Inconsistent \/ Killed \/ Failed \/ Succeeded
        BY <1>6 DEF RunCommand
    <3> QED
        BY <2>3, <2>4, <2>5, <2>6, <3>1
<1>7. CASE FinalSource
  <2>1. at = "source" /\ at' = "runner" /\ UNCHANGED unclear
      BY <1>7 DEF FinalSource, Go
  <2>2. record'.result = "PASS" => AllZero(record') /\ record'.totals # "none"
      BY <1>1, <1>7, SourceEnds
  <2>3. record'.exits = record.exits /\ record'.totals = record.totals
      BY <1>7, SourceEnds
  <2>4. AllZero(record') => AllZero(record)
      BY <2>3 DEF AllZero
  <2> QED
      BY <2>1, <2>2, <2>3, <2>4 DEF Undisputed
<1>8. CASE FinalRunner \/ Cleanup
  <2>1. at \in Closing /\ at' \in Closing \ {"source"} /\ UNCHANGED unclear
      BY <1>8 DEF FinalRunner, Cleanup, Go
  <2>2. record'.result = "PASS" => record.result = "PASS"
      BY <1>8, RunnerEnds, CleanupEnds
  <2> QED
      BY <2>1, <2>2 DEF Undisputed
<1>9. CASE Handoff \/ Publisher
  <2>1. UNCHANGED <<record, unclear>> /\ at \in {"handoff"} \cup Handed /\ at' \in Handed
      BY <1>9
         DEF Handoff, Publisher, ResolvePullRequest, Build, Upload, Accept, Resolve, Post, Go,
             Enter, local
  <2> QED
      BY <1>2, <2>1
<1>10. CASE Lose
  <2>1. CASE at \in Publishing
    <3>1. UNCHANGED <<record, unclear>> /\ at' = "publisher failed"
        BY <1>10, <2>1 DEF Lose, Go, JobOf, Executing
    <3> QED
        BY <1>2, <2>1, <3>1
  <2>2. CASE at \notin Publishing
    <3>1. ~unclear' /\ at' \in {"controller failed", "executor failed"}
        BY <1>10, <2>2 DEF Lose, Go, JobOf, TypeOK, Executing, Ended
    <3> QED
        BY <3>1 DEF Undisputed
  <2> QED
      BY <2>1, <2>2
<1>11. CASE RerunFailed
  <2>1. UNCHANGED unclear
      BY <1>11 DEF RerunFailed
  <2>2. CASE at \in {"controller failed", "executor failed"}
    <3>1. at' \in {"preflight", "recheck"}
        BY <1>11, <2>2 DEF RerunFailed, Enter
    <3>2. ~unclear
        BY <2>2 DEF Undisputed
    <3> QED
        BY <2>1, <3>1, <3>2 DEF Undisputed
  <2>3. CASE at \notin {"controller failed", "executor failed"}
    <3>1. UNCHANGED record /\ at \in Handed /\ at' = "build"
        BY <1>11, <2>3 DEF RerunFailed, Enter, Ended
    <3> QED
        BY <1>2, <2>1, <3>1
  <2> QED
      BY <2>2, <2>3
<1>12. CASE RerunAll
  <2>1. at' = "preflight" /\ ~unclear'
      BY <1>12 DEF RerunAll, Enter
  <2> QED
      BY <2>1 DEF Undisputed
<1> QED
    BY <1>3, <1>4, <1>5, <1>6, <1>7, <1>8, <1>9, <1>10, <1>11, <1>12 DEF Next, Executor

(* A record the validator accepts as a PASS, and that counts no disputed   *)
(* exit, is what a success is to rest on.                                  *)
LEMMA AcceptedIsProven ==
    ASSUME ValidExecution(record), record.result = "PASS", ~unclear
    PROVE  Proven
BY DEF ValidExecution, Proven

LEMMA ReceiptStep ==
    ASSUME Collector = NCommands, TypeOK, Undisputed, ReceiptWell, [Next]_vars
    PROVE  ReceiptWell'
<1>1. /\ attempt \in Nat /\ posted.attempt \in Nat /\ posted.attempt <= attempt
      /\ posted.attempt = attempt => at \in Ended
    BY ActionsAssumption DEF TypeOK, ReceiptWell
<1> DEFINE Told == {"upload", "status", "effective", "post"}
<1>2. \A step \in Ended : step \notin Told
    BY DEF Ended
<1>3. ASSUME UNCHANGED <<attempt, posted>>, at \notin Ended, at' \notin Told
      PROVE  ReceiptWell'
    BY <1>1, <1>3 DEF ReceiptWell, SuccessIsBacked
<1>4. CASE UNCHANGED vars \/ Remote \/ Disturb
  <2>1. UNCHANGED <<at, record, receipt, effective, published, attempt>>
      BY <1>4 DEF vars, Remote, Disturb, local
  <2> QED
      BY <2>1 DEF ReceiptWell, SuccessIsBacked, published, ValidExecution, AllZero
<1>5. CASE Controller \/ Executor
  <2>1. UNCHANGED <<attempt, posted>> /\ at \notin Ended /\ at' \notin Told
      BY <1>5
         DEF Controller, Preflight, Executor, Recheck, ReadController, ReadPullRequest, Census,
             Setup, RunCommand, NotStarted, Inconsistent, Killed, Failed, Succeeded, FinalSource,
             FinalRunner, Cleanup, Handoff, Go, Enter, JobOf, Controlling, Executing, Ended,
             published
  <2> QED
      BY <1>3, <2>1
<1>6. CASE ResolvePullRequest("build", "receipt")
  <2>1. UNCHANGED <<attempt, posted>> /\ at \notin Ended /\ at' \notin Told
      BY <1>6 DEF ResolvePullRequest, Go, Ended, published
  <2> QED
      BY <1>3, <2>1
<1>7. CASE Build
  <2>1. /\ at = "receipt" /\ UNCHANGED <<attempt, posted, record>>
        /\ at \notin Ended /\ at' \in {"upload", "rejected"}
      BY <1>7 DEF Build, Go, Ended, published
  <2>2. CASE at' = "upload"
    <3>1. ValidExecution(record) /\ receipt' = BuildReceipt(record, PublicationIdentity(seen))
        BY <1>7, <2>2 DEF Build, Go
    <3>2. receipt'.attempt = attempt /\ (receipt'.result = "PASS" => record.result = "PASS")
        BY <3>1 DEF BuildReceipt
    <3>3. ValidExecution(record)'
        BY <2>1, <3>1 DEF ValidExecution, AllZero
    <3> QED
        BY <1>1, <2>1, <2>2, <3>2, <3>3 DEF ReceiptWell, SuccessIsBacked
  <2> QED
      BY <1>3, <2>1, <2>2
<1>8. CASE Upload
  <2>1. /\ at = "upload" /\ at' = "status" /\ at \notin Ended
        /\ UNCHANGED <<attempt, posted, receipt>>
        /\ artifact' = [receipt |-> receipt, proven |-> Proven]
      BY <1>8 DEF Upload, Enter, Ended, local
  <2>2. receipt.attempt = attempt
      BY <2>1 DEF ReceiptWell
  <2>3. receipt.result = "PASS" => Proven
      BY <2>1, AcceptedIsProven DEF ReceiptWell, Undisputed, Handed, Publishing
  <2>4. artifact'.receipt = receipt /\ (receipt.result = "PASS" => artifact'.proven)
    <3> HIDE DEF Proven
    <3> QED
        BY <2>1, <2>3
  <2> QED
      BY <1>1, <2>1, <2>2, <2>4 DEF ReceiptWell, SuccessIsBacked
<1>9. CASE Accept \/ Resolve
  <2>1. /\ at \in {"status", "effective"} /\ at' \in {"effective", "post", "refused"}
        /\ at \notin Ended /\ UNCHANGED <<attempt, posted, receipt, artifact>>
      BY <1>9 DEF Accept, Resolve, Go, Ended, published
  <2>2. at' = "post" /\ effective' = "PASS" => receipt.result = "PASS"
      BY <1>9, <2>1 DEF Accept, Resolve, Go, EffectiveResult, PublicationIdentity
  <2> QED
      BY <1>1, <2>1, <2>2 DEF ReceiptWell, SuccessIsBacked
<1>10. CASE Post
  <2>1. /\ at = "post" /\ at' \in Ended /\ at' \notin Told
        /\ UNCHANGED <<attempt, receipt, artifact>>
        /\ posted' = [attempt |-> attempt, state |-> StatusForResult(effective)]
      BY <1>10 DEF Post, Go, Ended
  <2>2. StatusForResult(effective) = "success" => effective = "PASS"
      BY DEF StatusForResult
  <2>3. posted'.attempt = attempt /\ (posted'.state = "success" => effective = "PASS")
    <3> HIDE DEF StatusForResult
    <3> QED
        BY <2>1, <2>2
  <2>4. effective = "PASS" =>
          artifact.proven /\ artifact.receipt.attempt = attempt /\ artifact.receipt.result = "PASS"
      BY <2>1 DEF ReceiptWell
  <2> QED
      BY <1>1, <2>1, <2>3, <2>4 DEF ReceiptWell, SuccessIsBacked
<1>11. CASE Lose
  <2>1. UNCHANGED <<attempt, posted>> /\ at \notin Ended /\ at' \notin Told
      BY <1>11 DEF Lose, Go, JobOf, published
  <2> QED
      BY <1>3, <2>1
<1>12. CASE RerunFailed \/ RerunAll
  <2>1. attempt' = attempt + 1 /\ UNCHANGED posted /\ at' \notin Told
      BY <1>12 DEF RerunFailed, RerunAll, Enter
  <2> QED
      BY <1>1, <2>1 DEF ReceiptWell, SuccessIsBacked
<1> QED
    BY <1>4, <1>5, <1>6, <1>7, <1>8, <1>9, <1>10, <1>11, <1>12 DEF Next, Publisher

-----------------------------------------------------------------------------
(* The theorems. *)

LEMMA Initially ==
    ASSUME Init
    PROVE  IInv /\ Undisputed /\ ReceiptWell
<1>1. TypeOK
  <2>1. /\ dispatch \in Dispatches /\ dispatch \in [base : Bases, head : Heads, main : Mains]
        /\ 0 \in 0..MaxMoves /\ 1 \in 1..MaxAttempts /\ 0 \in 0..MaxAttempts
      BY ActionsAssumption DEF Init
  <2>2. Unread \in PullRequests
      BY <2>1 DEF Unread, PullRequests
  <2>3. NoArtifact \in [receipt : Receipts, proven : BOOLEAN]
      BY NoReceiptTyped DEF NoArtifact
  <2>4. NoStatus \in [attempt : 0..MaxAttempts, state : {"none", "success", "failure", "error"}]
      BY <2>1 DEF NoStatus
  <2>5. Never \in [pr : BOOLEAN, main : BOOLEAN]
      BY DEF Never
  <2> HIDE DEF Unread, NoArtifact, NoStatus, Never
  <2> QED
      BY <2>1, <2>2, <2>3, <2>4, <2>5, NoRecordTyped, NoReceiptTyped
         DEF Init, TypeOK, Controlling
<1>2. ExecutionWell
    BY DEF Init, ExecutionWell, Closing, Handed, Publishing
<1>3. SightingsWell
    BY DEF Init, SightingsWell, Watched
<1>4. ControlledStays
    BY DEF Init, ControlledStays, Controlling
<1>5. Undisputed
    BY DEF Init, Undisputed, Closing, Handed, Publishing
<1>6. ReceiptWell
    BY DEF Init, ReceiptWell, SuccessIsBacked, NoStatus
<1> QED
    BY <1>1, <1>2, <1>3, <1>4, <1>5, <1>6 DEF IInv

\* The invariant of every profile holds at every step of every run.
THEOREM Invariant == Spec => []IInv
<1>1. Init => IInv
    BY Initially
<1>2. IInv /\ [Next]_vars => IInv'
    BY TypeStep, ExecutionStep, SightingsStep, ControlledStep DEF IInv
<1> QED
    BY <1>1, <1>2, PTL DEF Spec

\* Type correctness: the record, the receipt and the status of a run stay what
\* the modules of the executor and the publisher may write.
THEOREM TypeCorrect == Spec => []TypeOK
<1>1. IInv => TypeOK
    BY DEF IInv
<1> QED
    BY <1>1, Invariant, PTL

\* A commit whose trees touch the trusted control files is never executed and
\* never given a success, whatever the pull request shows in between.
THEOREM ControlFilesAreNotCertified == Spec => []NoSelfCertification
<1>1. IInv => NoSelfCertification
  <2>1. \A step \in Controlling \cup {"controller failed"} : step \notin Executing \cup Publishing
      BY DEF Controlling, Executing, Publishing
  <2> QED
      BY <2>1 DEF IInv, ControlledStays, NoSelfCertification
<1> QED
    BY <1>1, Invariant, PTL

\* What the executor hands over is accepted by the validator, but for commands run
\* on a HEAD found moved, and a PASS with contradicting totals or with a checkout
\* still there: a failed run with failing totals and a blocked one that could not
\* be cleaned up are accepted, for every profile.
THEOREM HandoffsAreAccepted == Spec => []HandoffIsAccepted
<1>1. IInv => HandoffIsAccepted
  <2>1. SUFFICES ASSUME IInv, at \in {"build", "receipt"},
                        record.moved => record.exits = <<>>,
                        record.result = "PASS" => record.totals # "odd" /\ record.removed
                 PROVE  ValidExecution(record)
      BY DEF HandoffIsAccepted
  <2>2. /\ Ordinary(record)
        /\ record.result = "PASS" =>
              /\ AllZero(record) /\ record.clean /\ record.steady
              /\ Collector # 0 => record.totals # "none"
      BY <2>1 DEF IInv, ExecutionWell, Closing, Handed, Publishing
  <2>3. record.totals \in {"none", "good", "odd"}
      BY <2>1, Fields DEF IInv, TypeOK
  <2>4. record.exits # <<>> \/ record.result # "BLOCKED" => record.exits # <<>> /\ ~record.moved
    <3>1. record.result \in {"PASS", "FAIL", "BLOCKED"}
        BY <2>1, Fields DEF IInv, TypeOK, Results
    <3>2. record.result = "PASS" => record.exits # <<>>
        BY <2>2, ActionsAssumption DEF AllZero
    <3>3. record.result = "FAIL" => record.exits # <<>>
        BY <2>2 DEF Ordinary
    <3> QED
        BY <2>1, <3>1, <3>2, <3>3
  <2> QED
      BY <2>1, <2>2, <2>3, <2>4 DEF ValidExecution, Ordinary, Last
<1> QED
    BY <1>1, Invariant, PTL

\* Commands run, and a success is posted, only after a moment of the exact
\* dispatched identity in the phase that is acting.
THEOREM ActsOnExact == Spec => ActsOnExactIdentity
<1>1. ASSUME IInv, [Next]_vars, at # "commands", at' = "commands"
      PROVE  exact.pr /\ exact.main
  <2>1. at = "setup"
      BY <1>1
         DEF vars, Next, Controller, Preflight, Executor, Recheck, Publisher, ReadController,
             ReadPullRequest, Census, Setup, RunCommand, FinalSource, FinalRunner, Cleanup,
             Handoff, ResolvePullRequest, Build, Upload, Accept, Resolve, Post, Remote, Disturb,
             Lose, RerunFailed, RerunAll, Go, Enter, JobOf, Controlling, Executing
  <2> QED
      BY <1>1, <2>1 DEF IInv, SightingsWell
<1>2. ASSUME IInv, at = "post", effective = "PASS"
      PROVE  exact.pr /\ exact.main
    BY <1>2 DEF IInv, SightingsWell
<1>3. IInv /\ [Next]_vars =>
        [/\ at # "commands" /\ at' = "commands" => exact.pr /\ exact.main
         /\ at = "post" /\ posted' # posted /\ effective = "PASS" => exact.pr /\ exact.main]_vars
    BY <1>1, <1>2
<1> QED
    BY <1>3, Invariant, PTL DEF Spec, ActsOnExactIdentity

\* Of a profile whose last command collects the test totals, as the
\* repository's does: a success rests on an uploaded PASS of the same attempt,
\* with every command ended undisputed, on a clean checkout since removed.
THEOREM SuccessRestsOnReceipt ==
    ASSUME Collector = NCommands
    PROVE  Spec => []SuccessIsBacked
<1>1. Init => SInv
    BY Initially DEF SInv
<1>2. SInv /\ [Next]_vars => SInv'
    BY TypeStep, ExecutionStep, SightingsStep, ControlledStep, UndisputedStep, ReceiptStep
       DEF SInv, IInv
<1>3. SInv => SuccessIsBacked
    BY DEF SInv, ReceiptWell
<1> QED
    BY <1>1, <1>2, <1>3, PTL DEF Spec
=============================================================================
