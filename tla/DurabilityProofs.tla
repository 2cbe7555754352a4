-------------------------- MODULE DurabilityProofs --------------------------
(***************************************************************************)
(* Proofs about the two components that keep their promises over a crash   *)
(* by what they leave on the disk.  They share no state.                   *)
(*                                                                         *)
(* SafetyStore, for any number of sessions, calls and edits: no push       *)
(* passes an unverified edit unless a hook ran beside a load, the file     *)
(* keeps the gate closed over every crash, and the store implements the    *)
(* atomic file behind a queue that its callers rely on.  Installer, for    *)
(* any number of invocations, promotions and trees: who holds the lock,    *)
(* what a journal brings back, and what PASS means.                        *)
(***************************************************************************)
EXTENDS SafetyStore, Installer, SequenceTheorems, TLAPS

(***************************************************************************)
(* SafetyStore: the inductive invariant.                                   *)
(***************************************************************************)
NeverAhead(s) == s.verifiedGeneration <= s.editGeneration

\* No copy of the state is verified beyond its edits, so that one more edit
\* closes the gate.
CopiesNeverAhead ==
    /\ NeverAhead(safety)
    /\ sample \in Snapshot => NeverAhead(sample)
    /\ file \in Snapshot => NeverAhead(file)
    /\ \A i \in DOMAIN saves : NeverAhead(saves[i].snapshot)

\* The order of load, hooks and writes.
Phases ==
    /\ ~loaded => reader = NoSession /\ opened = {}
    /\ loaded /\ reader = NoSession => opened # {}
    /\ sample # NotRead => reader # NoSession
    /\ opened = {} => saves = <<>>
    /\ writing => saves # <<>>
    /\ ~loadRaced /\ reader # NoSession => opened = {}
    /\ ~loadRaced /\ sample \in Snapshot \cup {NoFile} => sample = file

SavesKnown == \A i \in DOMAIN saves : saves[i].edit <= edits

\* A copy with an open gate is covered: every edit admitted so far, and every
\* edit that the writes up to that copy will admit, has been verified.
OpenCopiesCovered ==
    /\ file = NoFile \/ ~GateClosed(file) => admitted <= covered
    /\ \A i \in DOMAIN saves :
          ~GateClosed(saves[i].snapshot) =>
             /\ admitted <= covered
             /\ \A j \in 1 .. i : saves[j].edit <= covered
    /\ opened # {} /\ ~GateClosed(safety) =>
          /\ admitted <= covered
          /\ \A i \in DOMAIN saves : saves[i].edit <= covered

StoreIInv ==
    /\ StoreTypeOK
    /\ CopiesNeverAhead
    /\ Phases
    /\ SavesKnown
    /\ ~loadRaced => OpenCopiesCovered
    /\ ~loadRaced => published <= covered

-----------------------------------------------------------------------------
(***************************************************************************)
(* The queue.                                                              *)
(***************************************************************************)
Entry == [call : Calls, snapshot : Snapshot, edit : 0 .. MaxEdits]

LEMMA Appended ==
  ASSUME NEW q \in Seq(Entry), NEW x \in Entry
  PROVE  /\ Append(q, x) \in Seq(Entry)
         /\ Append(q, x) # <<>>
         /\ DOMAIN q = 1 .. Len(q) /\ Len(q) \in Nat
         /\ DOMAIN Append(q, x) = 1 .. Len(q) + 1
         /\ \A i \in 1 .. Len(q) : Append(q, x)[i] = q[i]
         /\ Append(q, x)[Len(q) + 1] = x
  BY AppendProperties, LenProperties

LEMMA TailElements ==
  ASSUME NEW q \in Seq(Entry), q # <<>>
  PROVE  /\ Tail(q) \in Seq(Entry) /\ Head(q) \in Entry /\ Head(q) = q[1]
         /\ DOMAIN q = 1 .. Len(q) /\ Len(q) \in Nat \ {0}
         /\ DOMAIN Tail(q) = 1 .. Len(q) - 1
         /\ \A i \in 1 .. Len(q) - 1 : Tail(q)[i] = q[i + 1]
  BY HeadTailProperties, LenProperties, EmptySeq

LEMMA Numbers ==
  ASSUME StoreTypeOK
  PROVE  /\ saves \in Seq(Entry) /\ DOMAIN saves = 1 .. Len(saves)
         /\ \A i \in DOMAIN saves :
               saves[i].edit \in Nat /\ saves[i].edit <= MaxEdits
         /\ MaxEdits \in Nat /\ edits \in Nat /\ admitted \in Nat
         /\ covered \in Nat /\ published \in Nat
  <1>1. saves \in Seq(Entry)
    BY DEF StoreTypeOK, Entry
  <1>2. \A i \in DOMAIN saves : saves[i] \in Entry
    BY <1>1, ElementOfSeq, LenProperties
  <1>3. QED
    BY <1>1, <1>2, LenProperties, StoreAssumption DEF StoreTypeOK, Entry

LEMMA NoElements ==
  /\ <<>> \in Seq(Entry)
  /\ DOMAIN <<>> = {}
  BY EmptySeq

\* What a call of save() does to the queue, for a hook that leaves an object
\* nowhere verified beyond its edits, and covers everything if it opens the
\* gate.
LEMMA SaveKeepsQueue ==
  ASSUME StoreIInv, opened # {}, NEW c \in Calls, NEW edit \in 0 .. MaxEdits,
         Save(c, edit), safety' \in Snapshot, NeverAhead(safety)',
         edits' \in 0 .. MaxEdits, edits <= edits', edit <= edits',
         covered' \in 0 .. edits', covered <= covered',
         UNCHANGED <<process, writing, broken, file, admitted, published, loadRaced>>,
         ~loadRaced /\ ~GateClosed(safety)' =>
            /\ admitted <= covered'
            /\ edit <= covered'
            /\ \A i \in DOMAIN saves : saves[i].edit <= covered',
         persistenceWarning' = persistenceWarning
  PROVE  StoreIInv'
  <1> DEFINE x == [call |-> c, snapshot |-> safety', edit |-> edit]
  <1>1. saves \in Seq(Entry) /\ x \in Entry
    BY DEF StoreIInv, StoreTypeOK, Entry
  <1>n. /\ \A i \in DOMAIN saves : saves[i].edit \in Nat /\ saves[i].edit <= edits
        /\ MaxEdits \in Nat /\ edits \in Nat /\ admitted \in Nat /\ covered \in Nat
        /\ edits' \in Nat /\ covered' \in Nat /\ edit \in Nat
    BY Numbers DEF StoreIInv, SavesKnown
  <1>2. StoreIInv' /\ StoreTypeOK'
    <2>1. CASE broken
      <3>1. saves' = saves
        BY <2>1 DEF Save
      <3>2. StoreTypeOK'
        BY <3>1 DEF StoreIInv, StoreTypeOK, process
      <3>3. CopiesNeverAhead'
        BY <3>1 DEF StoreIInv, CopiesNeverAhead, NeverAhead, process
      <3>4. Phases'
        BY <3>1 DEF StoreIInv, Phases, process
      <3>5. SavesKnown'
        BY <3>1, <1>n DEF SavesKnown
      <3>6. ~loadRaced' => OpenCopiesCovered'
        <4>1. SUFFICES ASSUME ~loadRaced' PROVE OpenCopiesCovered'
          OBVIOUS
        <4>2. OpenCopiesCovered /\ ~loadRaced
          BY <4>1 DEF StoreIInv
        <4>3. \A i \in DOMAIN saves : \A j \in 1 .. i : j \in DOMAIN saves
          BY <1>1, LenProperties
        <4>4. QED
          BY <3>1, <1>n, <4>2, <4>3 DEF OpenCopiesCovered, process
      <3>7. QED
        BY <3>2, <3>3, <3>4, <3>5, <3>6 DEF StoreIInv, StoreTypeOK
    <2>2. CASE ~broken
      <3>1. saves' = Append(saves, x)
        BY <2>2 DEF Save
      <3>2. /\ saves' \in Seq(Entry) /\ saves' # <<>>
            /\ DOMAIN saves = 1 .. Len(saves) /\ Len(saves) \in Nat
            /\ DOMAIN saves' = 1 .. Len(saves) + 1
            /\ \A i \in 1 .. Len(saves) : saves'[i] = saves[i]
            /\ saves'[Len(saves) + 1] = x
        BY <1>1, <3>1, Appended
      <3>3. StoreTypeOK'
        BY <3>2 DEF StoreIInv, StoreTypeOK, process, Entry
      <3>4. CopiesNeverAhead'
        BY <3>2 DEF StoreIInv, CopiesNeverAhead, NeverAhead, process
      <3>5. Phases'
        BY <3>2 DEF StoreIInv, Phases, process
      <3>6. SavesKnown'
        BY <3>2, <1>n DEF SavesKnown
      <3>7. ASSUME ~loadRaced' PROVE OpenCopiesCovered'
        <4>1. OpenCopiesCovered /\ ~loadRaced
          BY <3>7 DEF StoreIInv
        <4>2. file' = NoFile \/ ~GateClosed(file') => admitted' <= covered'
          BY <4>1, <1>n DEF OpenCopiesCovered
        <4>3. ASSUME NEW i \in DOMAIN saves', ~GateClosed(saves'[i].snapshot)
              PROVE  admitted' <= covered' /\ \A j \in 1 .. i : saves'[j].edit <= covered'
          <5>1. CASE i = Len(saves) + 1
            <6>1. saves'[i].snapshot = safety'
              BY <5>1, <3>2
            <6>2. /\ admitted <= covered' /\ edit <= covered'
                  /\ \A k \in DOMAIN saves : saves[k].edit <= covered'
              BY <6>1, <4>1, <4>3
            <6>3. x.edit = edit
              OBVIOUS
            <6>4. ASSUME NEW j \in 1 .. i PROVE saves'[j].edit <= covered'
              <7>1. j = Len(saves) + 1 \/ j \in DOMAIN saves
                BY <5>1, <3>2
              <7>2. CASE j = Len(saves) + 1
                BY <7>2, <6>2, <6>3, <3>2
              <7>3. CASE j \in DOMAIN saves
                <8>1. saves'[j] = saves[j]
                  BY <7>3, <3>2
                <8>2. QED
                  BY <8>1, <7>3, <6>2
              <7>4. QED
                BY <7>1, <7>2, <7>3
            <6>5. QED
              BY <6>2, <6>4
          <5>2. CASE i \in 1 .. Len(saves)
            <6>1. saves'[i] = saves[i] /\ i \in DOMAIN saves
              BY <5>2, <3>2
            <6>2. admitted <= covered /\ \A j \in 1 .. i : saves[j].edit <= covered
              BY <6>1, <4>1, <4>3 DEF OpenCopiesCovered
            <6>3. admitted' <= covered'
              BY <6>2, <1>n
            <6>4. ASSUME NEW j \in 1 .. i PROVE saves'[j].edit <= covered'
              <7>1. j \in DOMAIN saves /\ saves'[j] = saves[j]
                BY <5>2, <3>2
              <7>2. QED
                BY <7>1, <6>2, <1>n
            <6>5. QED
              BY <6>3, <6>4
          <5>3. QED
            BY <5>1, <5>2, <3>2
        <4>4. opened' # {} /\ ~GateClosed(safety') =>
                 /\ admitted' <= covered'
                 /\ \A i \in DOMAIN saves' : saves'[i].edit <= covered'
          BY <3>2, <4>1, <1>n DEF GateClosed
        <4>5. QED
          BY <4>2, <4>3, <4>4 DEF OpenCopiesCovered
      <3>8. QED
        BY <3>3, <3>4, <3>5, <3>6, <3>7 DEF StoreIInv, StoreTypeOK
    <2>3. QED
      BY <2>1, <2>2
  <1>3. QED
    BY <1>2

-----------------------------------------------------------------------------
(***************************************************************************)
(* Each step preserves the invariant.                                      *)
(***************************************************************************)
LEMMA StoreInitInv == StoreInit => StoreIInv
  <1> SUFFICES ASSUME StoreInit PROVE StoreIInv
    OBVIOUS
  <1> USE DEF StoreInit, emptySafetyState
  <1>1. StoreTypeOK
    <2>1. safety \in Snapshot
      BY DEF Snapshot
    <2>2. saves \in Seq([call : Calls, snapshot : Snapshot, edit : 0 .. MaxEdits])
      BY NoElements DEF Entry
    <2>3. 0 \in 0 .. MaxEdits /\ 0 \in 0 .. 0
      BY StoreAssumption
    <2>4. QED
      BY <2>1, <2>2, <2>3 DEF StoreTypeOK
  <1>2. CopiesNeverAhead
    BY NoElements, StoreAssumption DEF CopiesNeverAhead, NeverAhead
  <1>3. Phases
    BY StoreAssumption DEF Phases
  <1>4. SavesKnown /\ OpenCopiesCovered /\ published <= covered
    BY NoElements DEF SavesKnown, OpenCopiesCovered
  <1>5. QED
    BY <1>1, <1>2, <1>3, <1>4 DEF StoreIInv

LEMMA HookInv ==
  ASSUME StoreIInv, opened # {}, NEW c \in Calls, Hook(c)
  PROVE  StoreIInv'
  <1>n. /\ saves \in Seq(Entry)
        /\ \A i \in DOMAIN saves : saves[i].edit \in Nat /\ saves[i].edit <= edits
        /\ MaxEdits \in Nat /\ edits \in 0 .. MaxEdits /\ admitted \in 0 .. edits
        /\ covered \in 0 .. edits
        /\ safety \in Snapshot /\ NeverAhead(safety)
    BY Numbers DEF StoreIInv, SavesKnown, StoreTypeOK, CopiesNeverAhead
  <1>1. CASE Edit(c)
    <2>1. /\ safety' = [safety EXCEPT !.editGeneration = @ + 1]
          /\ edits < MaxEdits /\ edits' = edits + 1 /\ Save(c, edits + 1)
          /\ UNCHANGED <<process, writing, broken, persistenceWarning, file,
                          admitted, covered, published, loadRaced>>
      BY <1>1 DEF Edit
    <2>2. safety' \in Snapshot /\ NeverAhead(safety)' /\ GateClosed(safety)'
      BY <1>n, <2>1 DEF Snapshot, NeverAhead, GateClosed
    <2>3. /\ edits + 1 \in 0 .. MaxEdits /\ edits' \in 0 .. MaxEdits
          /\ edits <= edits' /\ edits + 1 <= edits'
          /\ covered' \in 0 .. edits' /\ covered <= covered'
      BY <1>n, <2>1
    <2>4. QED
      BY <2>1, <2>2, <2>3, SaveKeepsQueue
  <1>2. CASE VerifyPasses(c)
    <2>1. /\ safety' = [safety EXCEPT !.verifiedGeneration = safety.editGeneration]
          /\ covered' = edits /\ Save(c, 0)
          /\ UNCHANGED <<process, writing, broken, persistenceWarning, file,
                          edits, admitted, published, loadRaced>>
      BY <1>2 DEF VerifyPasses
    <2>2. safety' \in Snapshot /\ NeverAhead(safety)'
      BY <1>n, <2>1 DEF Snapshot, NeverAhead
    <2>3. /\ 0 \in 0 .. MaxEdits /\ edits' \in 0 .. MaxEdits
          /\ edits <= edits' /\ 0 <= edits'
          /\ covered' \in 0 .. edits' /\ covered <= covered'
          /\ admitted <= covered' /\ 0 <= covered'
          /\ \A i \in DOMAIN saves : saves[i].edit <= covered'
      BY <1>n, <2>1
    <2>4. QED
      BY <2>1, <2>2, <2>3, SaveKeepsQueue
  <1>3. CASE OtherSave(c)
    <2>1. /\ safety' = safety /\ Save(c, 0)
          /\ UNCHANGED <<process, writing, broken, persistenceWarning, file, world>>
      BY <1>3 DEF OtherSave
    <2>2. safety' \in Snapshot /\ NeverAhead(safety)'
      BY <1>n, <2>1 DEF NeverAhead
    <2>3. /\ 0 \in 0 .. MaxEdits /\ edits' \in 0 .. MaxEdits
          /\ edits <= edits' /\ 0 <= edits'
          /\ covered' \in 0 .. edits' /\ covered <= covered' /\ 0 <= covered'
      BY <1>n, <2>1 DEF world
    <2>4. ASSUME ~loadRaced, ~GateClosed(safety)'
          PROVE  admitted <= covered' /\ \A i \in DOMAIN saves : saves[i].edit <= covered'
      BY <2>1, <2>4 DEF StoreIInv, OpenCopiesCovered, GateClosed, world
    <2>5. UNCHANGED <<admitted, published, loadRaced>>
      BY <2>1 DEF world
    <2>6. QED
      BY <2>1, <2>2, <2>3, <2>4, <2>5, SaveKeepsQueue
  <1>4. QED
    BY <1>1, <1>2, <1>3 DEF Hook

LEMMA LoadInv ==
  ASSUME StoreIInv, \/ \E s \in Sessions : LoadBegins(s) \/ LoadSkipped(s)
               \/ FileRead
               \/ LoadEnds
  PROVE  StoreIInv'
  <1> USE DEF queue, world
  <1>1. CASE \E s \in Sessions : LoadBegins(s)
    <2>1. PICK s \in Sessions : LoadBegins(s)
      BY <1>1
    <2>2. StoreTypeOK' /\ CopiesNeverAhead' /\ SavesKnown'
      BY <2>1 DEF LoadBegins, StoreIInv, StoreTypeOK, CopiesNeverAhead, SavesKnown
    <2>3. Phases'
      BY <2>1, StoreAssumption DEF LoadBegins, StoreIInv, StoreTypeOK, Phases
    <2>4. ~loadRaced' => OpenCopiesCovered' /\ published' <= covered'
      BY <2>1 DEF LoadBegins, StoreIInv, OpenCopiesCovered
    <2>5. QED
      BY <2>2, <2>3, <2>4 DEF StoreIInv
  <1>2. CASE \E s \in Sessions : LoadSkipped(s)
    <2>1. PICK s \in Sessions : LoadSkipped(s)
      BY <1>2
    <2>2. StoreTypeOK' /\ CopiesNeverAhead' /\ SavesKnown'
      BY <2>1 DEF LoadSkipped, StoreIInv, StoreTypeOK, CopiesNeverAhead, SavesKnown
    <2>3. Phases'
      BY <2>1 DEF LoadSkipped, StoreIInv, StoreTypeOK, Phases
    <2>4. ~loadRaced' => OpenCopiesCovered' /\ published' <= covered'
      <3>1. SUFFICES ASSUME ~loadRaced' PROVE OpenCopiesCovered' /\ published' <= covered'
        OBVIOUS
      <3>2. /\ ~loadRaced /\ opened # {}
            /\ UNCHANGED <<safety, saves, file, admitted, covered, published>>
        BY <2>1, <3>1 DEF LoadSkipped, StoreIInv, Phases
      <3>3. OpenCopiesCovered /\ published <= covered
        BY <3>2 DEF StoreIInv
      <3>4. QED
        BY <3>2, <3>3 DEF OpenCopiesCovered
    <2>5. QED
      BY <2>2, <2>3, <2>4 DEF StoreIInv
  <1>3. CASE FileRead
    <2>1. StoreTypeOK' /\ CopiesNeverAhead' /\ SavesKnown'
      BY <1>3, StoreAssumption DEF FileRead, StoreIInv, StoreTypeOK, CopiesNeverAhead, SavesKnown
    <2>2. Phases'
      BY <1>3, StoreAssumption DEF FileRead, StoreIInv, StoreTypeOK, Phases
    <2>3. ~loadRaced' => OpenCopiesCovered' /\ published' <= covered'
      BY <1>3 DEF FileRead, StoreIInv, OpenCopiesCovered
    <2>4. QED
      BY <2>1, <2>2, <2>3 DEF StoreIInv
  <1>4. CASE LoadEnds
    <2>1. /\ sample # NotRead /\ reader \in Sessions
          /\ reader' = NoSession /\ sample' = NotRead /\ loaded' = loaded
          /\ opened' = opened \cup {reader}
          /\ saves' = saves /\ writing' = writing /\ broken' = broken /\ file' = file
          /\ edits' = edits /\ admitted' = admitted /\ covered' = covered
          /\ published' = published /\ loadRaced' = loadRaced
      BY <1>4 DEF LoadEnds, StoreIInv, StoreTypeOK, Phases
    <2>2. \/ sample = NoFile /\ safety' = safety
          \/ sample = Unreadable /\ safety' = failClosed(safety)
          \/ sample \in Snapshot /\ safety' = sample
      BY <1>4, StoreAssumption DEF LoadEnds, hydrated, StoreIInv, StoreTypeOK
    <2>3. /\ failClosed(safety) \in Snapshot
          /\ NeverAhead(failClosed(safety))
          /\ GateClosed(failClosed(safety))
      BY DEF failClosed, StoreIInv, StoreTypeOK, Snapshot, NeverAhead, GateClosed
    <2>4. safety' \in Snapshot /\ NeverAhead(safety')
      BY <2>2, <2>3 DEF StoreIInv, StoreTypeOK, CopiesNeverAhead
    <2>5. persistenceWarning' \in BOOLEAN
      BY <1>4 DEF LoadEnds, StoreIInv, StoreTypeOK
    <2>6. StoreTypeOK'
      BY <2>1, <2>4, <2>5 DEF StoreIInv, StoreTypeOK
    <2>7. CopiesNeverAhead' /\ SavesKnown'
      BY <2>1, <2>4, StoreAssumption DEF StoreIInv, CopiesNeverAhead, SavesKnown, NeverAhead
    <2>8. Phases'
      BY <2>1, StoreAssumption DEF StoreIInv, StoreTypeOK, Phases
    <2>9. ASSUME ~loadRaced, ~GateClosed(safety')
          PROVE  admitted <= covered /\ saves = <<>>
      <3>1. saves = <<>> /\ OpenCopiesCovered
        BY <2>1, <2>9, StoreAssumption DEF StoreIInv, Phases
      <3>2. file = NoFile \/ ~GateClosed(file)
        BY <2>2, <2>3, <2>9, StoreAssumption DEF StoreIInv, Phases
      <3>3. QED
        BY <3>1, <3>2 DEF OpenCopiesCovered
    <2>10. ~loadRaced' => OpenCopiesCovered' /\ published' <= covered'
      <3>1. SUFFICES ASSUME ~loadRaced PROVE OpenCopiesCovered' /\ published' <= covered'
        BY <2>1
      <3>2. OpenCopiesCovered /\ published <= covered
        BY <3>1 DEF StoreIInv
      <3>3. ~GateClosed(safety') =>
               admitted' <= covered' /\ \A i \in DOMAIN saves' : saves'[i].edit <= covered'
        BY <2>1, <2>9, <3>1, NoElements
      <3>4. QED
        BY <2>1, <3>2, <3>3 DEF OpenCopiesCovered
    <2>11. QED
      BY <2>6, <2>7, <2>8, <2>10 DEF StoreIInv
  <1>5. QED
    BY <1>1, <1>2, <1>3, <1>4

LEMMA PushInv ==
  ASSUME StoreIInv, opened # {}, Push
  PROVE  StoreIInv'
  <1> USE DEF Push, process, queue
  <1>1. StoreTypeOK'
    BY Numbers DEF StoreIInv, StoreTypeOK
  <1>2. CopiesNeverAhead' /\ SavesKnown'
    BY DEF StoreIInv, CopiesNeverAhead, SavesKnown
  <1>3. Phases'
    BY DEF StoreIInv, Phases
  <1>4. ~loadRaced' => OpenCopiesCovered' /\ published' <= covered'
    BY DEF StoreIInv, OpenCopiesCovered
  <1>5. QED
    BY <1>1, <1>2, <1>3, <1>4 DEF StoreIInv

LEMMA TemporaryInv ==
  ASSUME StoreIInv, TemporaryWritten
  PROVE  StoreIInv'
  <1> USE DEF TemporaryWritten, process, world
  <1>1. StoreTypeOK'
    BY DEF StoreIInv, StoreTypeOK
  <1>2. CopiesNeverAhead' /\ SavesKnown'
    BY DEF StoreIInv, CopiesNeverAhead, SavesKnown
  <1>3. Phases'
    BY DEF StoreIInv, Phases
  <1>4. ~loadRaced' => OpenCopiesCovered' /\ published' <= covered'
    BY DEF StoreIInv, OpenCopiesCovered
  <1>5. QED
    BY <1>1, <1>2, <1>3, <1>4 DEF StoreIInv

\* The renamed snapshot was the oldest: with an open gate it is covered
\* together with the edit it admits.
LEMMA RenamedInv ==
  ASSUME StoreIInv, Renamed
  PROVE  StoreIInv'
  <1> DEFINE first == saves[1]
  <1>1. saves # <<>> /\ saves \in Seq(Entry)
    BY Numbers DEF StoreIInv, Phases, Renamed
  <1>2. /\ Tail(saves) \in Seq(Entry) /\ first \in Entry /\ Head(saves) = first
        /\ DOMAIN saves = 1 .. Len(saves) /\ Len(saves) \in Nat \ {0}
        /\ DOMAIN Tail(saves) = 1 .. Len(saves) - 1
        /\ \A i \in 1 .. Len(saves) - 1 : Tail(saves)[i] = saves[i + 1]
    BY <1>1, TailElements
  <1>3. /\ saves' = Tail(saves) /\ writing' = FALSE /\ persistenceWarning' = FALSE
        /\ file' = first.snapshot
        /\ admitted' = IF first.edit > admitted THEN first.edit ELSE admitted
        /\ UNCHANGED <<safety, loaded, reader, sample, opened, broken, edits,
                       covered, published, loadRaced>>
    BY <1>2 DEF Renamed, process
  <1>n. /\ \A i \in DOMAIN saves : saves[i].edit \in Nat /\ saves[i].edit <= edits
        /\ edits \in Nat /\ admitted \in 0 .. edits /\ covered \in Nat
        /\ 1 \in DOMAIN saves /\ first.snapshot \in Snapshot
        /\ opened # {}
    BY <1>1, <1>2, Numbers DEF StoreIInv, SavesKnown, StoreTypeOK, Entry, Phases
  <1>4. StoreTypeOK'
    <2>1. admitted' \in 0 .. edits
      BY <1>3, <1>n
    <2>2. QED
      BY <2>1, <1>2, <1>3, <1>n DEF StoreIInv, StoreTypeOK, Entry
  <1>5. CopiesNeverAhead' /\ SavesKnown'
    BY <1>2, <1>3, <1>n DEF StoreIInv, CopiesNeverAhead, SavesKnown
  <1>6. Phases'
    <2>1. loadRaced \/ reader = NoSession
      BY <1>n DEF StoreIInv, Phases
    <2>2. QED
      BY <1>3, <1>n, <2>1, StoreAssumption DEF StoreIInv, StoreTypeOK, Phases
  <1>7. ASSUME ~loadRaced
        PROVE  OpenCopiesCovered' /\ published' <= covered'
    <2>1. OpenCopiesCovered /\ published <= covered
      BY <1>7 DEF StoreIInv
    <2>2. ~GateClosed(file') => admitted' <= covered'
      <3>1. ASSUME ~GateClosed(first.snapshot)
            PROVE  admitted <= covered /\ first.edit <= covered
        BY <2>1, <3>1, <1>n DEF OpenCopiesCovered
      <3>2. QED
        BY <1>3, <3>1, <1>n
    <2>3. ASSUME NEW i \in DOMAIN saves', ~GateClosed(saves'[i].snapshot)
          PROVE  admitted' <= covered' /\ \A j \in 1 .. i : saves'[j].edit <= covered'
      <3>1. i \in 1 .. Len(saves) - 1 /\ saves'[i] = saves[i + 1]
            /\ i + 1 \in DOMAIN saves
        BY <1>2, <1>3, <2>3
      <3>2. admitted <= covered /\ \A j \in 1 .. i + 1 : saves[j].edit <= covered
        BY <3>1, <2>1, <2>3 DEF OpenCopiesCovered
      <3>3. 1 \in 1 .. i + 1 /\ \A j \in 1 .. i : j + 1 \in 1 .. i + 1
                                          /\ saves'[j] = saves[j + 1]
        BY <3>1, <1>2, <1>3
      <3>4. QED
        BY <3>2, <3>3, <1>3, <1>n
    <2>4. ASSUME ~GateClosed(safety')
          PROVE  /\ admitted' <= covered'
                 /\ \A i \in DOMAIN saves' : saves'[i].edit <= covered'
      <3>1. admitted <= covered /\ \A i \in DOMAIN saves : saves[i].edit <= covered
        BY <2>1, <2>4, <1>3, <1>n DEF OpenCopiesCovered
      <3>2. \A i \in DOMAIN saves' : i + 1 \in DOMAIN saves /\ saves'[i] = saves[i + 1]
        BY <1>2, <1>3
      <3>3. QED
        BY <3>1, <3>2, <1>3, <1>n
    <2>5. file' # NoFile
      BY <1>3, <1>n, StoreAssumption
    <2>6. QED
      BY <2>1, <2>2, <2>3, <2>4, <2>5, <1>3 DEF OpenCopiesCovered
  <1>8. QED
    BY <1>3, <1>4, <1>5, <1>6, <1>7 DEF StoreIInv

LEMMA LostInv ==
  ASSUME StoreIInv, WriteFails \/ Restart
  PROVE  StoreIInv'
  <1>1. saves' = <<>> /\ writing' = FALSE /\ file' = file /\ UNCHANGED world
    BY DEF WriteFails, Restart
  <1>2. CASE WriteFails
    <2>1. /\ safety' = safety /\ broken' = TRUE
          /\ persistenceWarning' = persistenceWarning /\ UNCHANGED process
      BY <1>2 DEF WriteFails
    <2>2. StoreTypeOK'
      BY <1>1, <2>1, NoElements DEF StoreIInv, StoreTypeOK, Entry, process, world
    <2>3. CopiesNeverAhead' /\ SavesKnown'
      BY <1>1, <2>1, NoElements DEF StoreIInv, CopiesNeverAhead, NeverAhead, SavesKnown, process
    <2>4. Phases'
      BY <1>1, <2>1 DEF StoreIInv, Phases, process, world
    <2>5. ~loadRaced' => OpenCopiesCovered' /\ published' <= covered'
      BY <1>1, <2>1, NoElements DEF StoreIInv, OpenCopiesCovered, process, world
    <2>6. QED
      BY <2>2, <2>3, <2>4, <2>5 DEF StoreIInv
  <1>3. CASE Restart
    <2>1. /\ safety' = emptySafetyState /\ broken' = FALSE
          /\ persistenceWarning' = FALSE
          /\ loaded' = FALSE /\ reader' = NoSession /\ sample' = NotRead /\ opened' = {}
      BY <1>3 DEF Restart
    <2>2. emptySafetyState \in Snapshot /\ NeverAhead(emptySafetyState)
      BY DEF emptySafetyState, Snapshot, NeverAhead
    <2>3. StoreTypeOK'
      BY <1>1, <2>1, <2>2, NoElements DEF StoreIInv, StoreTypeOK, Entry, world
    <2>4. CopiesNeverAhead' /\ SavesKnown'
      BY <1>1, <2>1, <2>2, NoElements, StoreAssumption
      DEF StoreIInv, CopiesNeverAhead, NeverAhead, SavesKnown
    <2>5. Phases'
      BY <1>1, <2>1, StoreAssumption DEF StoreIInv, Phases, world
    <2>6. ~loadRaced' => OpenCopiesCovered' /\ published' <= covered'
      BY <1>1, <2>1, NoElements DEF StoreIInv, OpenCopiesCovered, world
    <2>7. QED
      BY <2>3, <2>4, <2>5, <2>6 DEF StoreIInv
  <1>4. QED
    BY <1>2, <1>3

LEMMA StoreStepInv == StoreIInv /\ [StoreNext]_storeVars => StoreIInv'
  <1> SUFFICES ASSUME StoreIInv, [StoreNext]_storeVars PROVE StoreIInv'
    OBVIOUS
  <1>1. CASE \/ \E s \in Sessions : LoadBegins(s) \/ LoadSkipped(s)
             \/ FileRead
             \/ LoadEnds
    BY <1>1, LoadInv
  <1>2. CASE opened # {} /\ \E c \in Calls \ Waiting : Hook(c)
    BY <1>2, HookInv
  <1>3. CASE opened # {} /\ Push
    BY <1>3, PushInv
  <1>4. CASE TemporaryWritten
    BY <1>4, TemporaryInv
  <1>5. CASE Renamed
    BY <1>5, RenamedInv
  <1>6. CASE WriteFails \/ Restart
    BY <1>6, LostInv
  <1>7. CASE UNCHANGED storeVars
    <2>1. StoreTypeOK' /\ CopiesNeverAhead' /\ SavesKnown'
      BY <1>7 DEF storeVars, StoreIInv, StoreTypeOK, CopiesNeverAhead, NeverAhead, SavesKnown
    <2>2. Phases'
      BY <1>7 DEF storeVars, StoreIInv, Phases
    <2>3. ~loadRaced' => OpenCopiesCovered' /\ published' <= covered'
      BY <1>7 DEF storeVars, StoreIInv, OpenCopiesCovered
    <2>4. QED
      BY <2>1, <2>2, <2>3 DEF StoreIInv
  <1>8. QED
    BY <1>1, <1>2, <1>3, <1>4, <1>5, <1>6, <1>7 DEF StoreNext

LEMMA StoreInvariance == StoreSpec => []StoreIInv
  BY StoreInitInv, StoreStepInv, PTL DEF StoreSpec

-----------------------------------------------------------------------------
(***************************************************************************)
(* The theorems.                                                           *)
(***************************************************************************)

\* Every variable keeps its type, and nothing is admitted or covered that was
\* not attempted.
THEOREM StoreTypeCorrect == StoreSpec => []StoreTypeOK
  <1>1. StoreIInv => StoreTypeOK
    BY DEF StoreIInv
  <1>2. QED
    BY <1>1, StoreInvariance, PTL

\* However many sessions, calls and edits: a push that passes the gate of an
\* unverified edit needs a hook that ran beside a load.
THEOREM OnlyTheRacePublishes == StoreSpec => []PublishedWorkIsCoveredUnlessRaced
  <1>1. StoreIInv => PublishedWorkIsCoveredUnlessRaced
    BY DEF StoreIInv, PublishedWorkIsCoveredUnlessRaced, PublishedWorkIsCovered
  <1>2. QED
    BY <1>1, StoreInvariance, PTL

\* An admitted and unverified edit keeps the gate closed in the file, whatever
\* crashes and failures come between.
THEOREM FileRemembersEdits == StoreSpec => []FileKeepsGateClosed
  <1>1. StoreIInv => FileKeepsGateClosed
    BY Numbers DEF StoreIInv, OpenCopiesCovered, FileKeepsGateClosed
  <1>2. QED
    BY <1>1, StoreInvariance, PTL

-----------------------------------------------------------------------------
(***************************************************************************)
(* Refinement: a save submits, the rename persists the oldest submission,  *)
(* a failed write and a restart lose what is outstanding, and every other  *)
(* step stutters.                                                          *)
(***************************************************************************)
LEMMA AppendSubmits ==
  ASSUME NEW q \in Seq(Entry), NEW x \in Entry
  PROVE  Append(q, x) # <<>> /\ q = Durable!Front(Append(q, x))
  <1>1. Append(q, x) # <<>> /\ Len(Append(q, x)) = Len(q) + 1
    BY AppendProperties
  <1>2. SubSeq(Append(q, x), 1, Len(q)) = q
    <2>1. Len(SubSeq(Append(q, x), 1, Len(q))) = Len(q)
      BY AppendProperties, LenProperties
    <2>2. QED
      BY <2>1, AppendProperties, LenProperties
  <1>3. QED
    BY <1>1, <1>2, LenProperties DEF Durable!Front

LEMMA HookRefines ==
  ASSUME StoreIInv, StoreIInv', NEW c \in Calls, Hook(c)
  PROVE  Durable!Submit \/ UNCHANGED <<file, saves, admitted>>
  <1>1. PICK edit \in 0 .. MaxEdits : Save(c, edit)
    <2>1. edits \in Nat /\ MaxEdits \in Nat
      BY Numbers DEF StoreIInv
    <2>2. CASE Edit(c)
      <3>1. edits + 1 \in 0 .. MaxEdits /\ Save(c, edits + 1)
        BY <2>1, <2>2 DEF Edit
      <3>2. QED
        BY <3>1
    <2>3. CASE VerifyPasses(c) \/ OtherSave(c)
      <3>1. 0 \in 0 .. MaxEdits /\ Save(c, 0)
        BY <2>1, <2>3 DEF VerifyPasses, OtherSave
      <3>2. QED
        BY <3>1
    <2>4. QED
      BY <2>2, <2>3 DEF Hook
  <1>2. UNCHANGED <<file, admitted>>
    BY DEF Hook, Edit, VerifyPasses, OtherSave, world
  <1>3. CASE broken
    BY <1>1, <1>2, <1>3 DEF Save
  <1>4. CASE ~broken
    <2> DEFINE x == [call |-> c, snapshot |-> safety', edit |-> edit]
    <2>1. saves' = Append(saves, x)
      BY <1>1, <1>4 DEF Save
    <2>2. saves \in Seq(Entry)
      BY Numbers DEF StoreIInv
    <2>3. x \in Entry
      BY DEF StoreIInv, StoreTypeOK, Entry
    <2>4. saves' # <<>> /\ saves = Durable!Front(saves')
      BY <2>1, <2>2, <2>3, AppendSubmits
    <2>5. QED
      BY <1>2, <2>4 DEF Durable!Submit
  <1>5. QED
    BY <1>3, <1>4

\* The saves of any number of sessions and calls are an atomic file behind a
\* first-in first-out queue (ImplementsDurableState).
THEOREM StoreRefinesDurableState == StoreSpec => ImplementsDurableState
  <1>1. StoreInit => Durable!Init
    BY DEF StoreInit, Durable!Init
  <1>2. StoreIInv /\ StoreIInv' /\ [StoreNext]_storeVars =>
           [Durable!Submit \/ Durable!Persist \/ Durable!Lose]_<<file, saves, admitted>>
    <2> SUFFICES ASSUME StoreIInv, StoreIInv', [StoreNext]_storeVars
                 PROVE  \/ Durable!Submit \/ Durable!Persist \/ Durable!Lose
                        \/ UNCHANGED <<file, saves, admitted>>
      OBVIOUS
    <2>1. CASE \E s \in Sessions : LoadBegins(s) \/ LoadSkipped(s)
      BY <2>1 DEF LoadBegins, LoadSkipped, queue, world
    <2>2. CASE FileRead \/ LoadEnds \/ Push \/ TemporaryWritten
      BY <2>2 DEF FileRead, LoadEnds, Push, TemporaryWritten, queue, world
    <2>3. CASE \E c \in Calls \ Waiting : Hook(c)
      BY <2>3, HookRefines
    <2>4. CASE Renamed
      BY <2>4 DEF Renamed, StoreIInv, Phases, Durable!Persist
    <2>5. CASE WriteFails \/ Restart
      BY <2>5 DEF WriteFails, Restart, Durable!Lose, world
    <2>6. CASE UNCHANGED storeVars
      BY <2>6 DEF storeVars
    <2>7. QED
      BY <2>1, <2>2, <2>3, <2>4, <2>5, <2>6 DEF StoreNext
  <1>3. QED
    BY <1>1, <1>2, StoreInvariance, PTL DEF StoreSpec, ImplementsDurableState, Durable!Spec

-----------------------------------------------------------------------------
(***************************************************************************)
(* Installer.                                                              *)
(***************************************************************************)

(* A promotion on top of whose candidate another one was made. *)
Covered(r) == \E q \in Receipts : superseded[q] = r

(* The promotion whose displaced source would be put back next. *)
Top(r) == superseded[r] # NoDir /\ ~Covered(r)

Started ==
    /\ \A r \in Receipts : receipt[r] # "absent" => plan[r] # NoPlan
    /\ \A i \in Invocations : ~At(i, {"new"}) =>
          proc[i].r \in Receipts /\ plan[proc[i].r] # NoPlan
    /\ lock # NoLock => ~At(lock.owner, {"new"})

HoldersOwnLock ==
    "lock" \notin raced =>
        \A i \in Invocations : At(i, Holding \cup {"create"}) =>
            lock = [owner |-> i, written |-> ~At(i, {"create"})]

StaleOwnersGone ==
    "lock" \notin raced =>
        \A i \in Invocations : At(i, {"stale"}) =>
            proc[i].saw # NoLock /\ At(proc[i].saw.owner, {"end", "crashed"})

(* The displaced sources form a stack, one promotion upon another. *)
Shelves ==
    raced = {} =>
        /\ \A r \in Receipts : superseded[r] # NoDir =>
              superseded[r] = plan[r].prior /\ receipt[r] \in {"armed", "pass"}
        /\ \A r \in Receipts : receipt[r] \in {"absent", "pending"} =>
              live # r /\ ~Covered(r) /\ failed[r] = NoDir
        /\ \A r \in Receipts : failed[r] # NoDir => live # r /\ ~Covered(r)
        /\ \A r, s \in Receipts : Top(r) /\ Top(s) => r = s
        /\ live # NoDir => \A r \in Receipts : Top(r) => live = r

Verdicts == MissingRootIsRecoverable /\ CertifiedIsKept

Swapping(i) ==
    LET r == proc[i].r
    IN  receipt[r] = "armed" /\ superseded[r] # NoDir /\ ~Covered(r)

(* What the invocation that holds the lock knows at each step. *)
StepInv ==
    raced = {} =>
        \A i \in Invocations :
            LET r == proc[i].r
            IN  /\ At(i, {"checked", "armed"}) => live = plan[r].prior
                /\ At(i, {"armed"}) => /\ receipt[r] = "armed" /\ incoming[r] = r
                                       /\ superseded[r] = NoDir /\ ~Covered(r)
                                       /\ failed[r] = NoDir /\ live # r
                /\ At(i, {"away"}) => /\ Swapping(i) /\ live = NoDir
                                      /\ failed[r] = NoDir /\ incoming[r] = r
                /\ At(i, {"in", "valid", "undo"}) => Swapping(i) /\ live = r
                /\ At(i, {"undone", "restoring"}) => Swapping(i) /\ live = NoDir
                /\ At(i, {"restored"}) => superseded[r] = NoDir /\ live # NoDir

IInv == /\ TypeOK /\ Started /\ HoldersOwnLock /\ StaleOwnersGone
        /\ Shelves /\ Verdicts /\ StepInv

-----------------------------------------------------------------------------
(* Type correctness. *)
LEMMA InitType == Init => TypeOK
BY InstallerAssumption DEF Init, TypeOK, Dirs, Plan, Lock, ReceiptState, Steps, Holding, Proc

LEMMA LockStepType ==
    ASSUME TypeOK, Started, NEW i \in Invocations, LockStep(i) PROVE TypeOK'
<1> USE InstallerAssumption DEF TypeOK, Dirs, Plan, Lock, ReceiptState, Steps, Holding, Proc, Go, At,
        WriteReceipt, disk
<1>1. CASE CreateLock(i)    BY <1>1 DEF CreateLock
<1>2. CASE WriteLock(i)     BY <1>2 DEF WriteLock
<1>3. CASE InspectLock(i)
  <2>1. [proc[i] EXCEPT !.at = "stale", !.saw = lock] \in Proc
    <3>1. proc[i] \in Proc /\ lock \in Lock
          BY <1>3 DEF InspectLock, Reclaimable
    <3>2. "stale" \in Steps
          OBVIOUS
    <3> HIDE DEF TypeOK, Steps, Lock, Plan, Dirs
    <3> QED BY <3>1, <3>2
  <2>2. proc' \in [Invocations -> Proc]
        BY <1>3, <2>1 DEF InspectLock
  <2> QED BY <1>3, <2>2 DEF InspectLock
<1>4. CASE UnlinkLock(i)    BY <1>4 DEF UnlinkLock
<1>5. CASE LockRefused(i)   BY <1>5 DEF LockRefused
<1>6. CASE ReleaseLock(i)   BY <1>6 DEF ReleaseLock
<1>7. CASE Cleanup(i)       BY <1>7 DEF Cleanup, Started
<1> QED BY <1>1, <1>2, <1>3, <1>4, <1>5, <1>6, <1>7 DEF LockStep

LEMMA PromoteStepType ==
    ASSUME TypeOK, NEW i \in Invocations, proc[i].r \in Receipts, PromoteStep(i) PROVE TypeOK'
<1> USE InstallerAssumption DEF TypeOK, Dirs, Plan, Lock, ReceiptState, Steps, Holding, Proc, Go, At,
        WriteReceipt, disk
<1>1. CASE CheckPreconditions(i) BY <1>1 DEF CheckPreconditions
<1>2. CASE Arm(i)                BY <1>2 DEF Arm
<1>3. CASE SwapOut(i)            BY <1>3 DEF SwapOut
<1>4. CASE SwapIn(i)             BY <1>4 DEF SwapIn
<1>5. CASE SwapInFails(i)        BY <1>5 DEF SwapInFails
<1>6. CASE ValidationPasses(i)   BY <1>6 DEF ValidationPasses
<1>7. CASE ValidationFails(i)    BY <1>7 DEF ValidationFails
<1>8. CASE UndoOut(i)            BY <1>8 DEF UndoOut
<1>9. CASE UndoIn(i)             BY <1>9 DEF UndoIn
<1>10. CASE Commit(i)            BY <1>10 DEF Commit
<1> QED BY <1>1, <1>2, <1>3, <1>4, <1>5, <1>6, <1>7, <1>8, <1>9, <1>10 DEF PromoteStep

LEMMA RecoverStepType ==
    ASSUME TypeOK, NEW i \in Invocations, proc[i].r \in Receipts, RecoverStep(i) PROVE TypeOK'
<1> USE InstallerAssumption DEF TypeOK, Dirs, Plan, Lock, ReceiptState, Steps, Holding, Proc, Go, At,
        WriteReceipt, disk
<1>1. CASE RecoverDecides(i)   BY <1>1 DEF RecoverDecides
<1>2. CASE RestorePrior(i)     BY <1>2 DEF RestorePrior
<1>3. CASE RecoveryRecorded(i) BY <1>3 DEF RecoveryRecorded
<1> QED BY <1>1, <1>2, <1>3 DEF RecoverStep

LEMMA TypeStep == TypeOK /\ Started /\ [Next]_vars => TypeOK'
<1> SUFFICES ASSUME TypeOK, Started, [Next]_vars PROVE TypeOK'
    OBVIOUS
<1> USE InstallerAssumption DEF TypeOK, Dirs, Plan, Lock, ReceiptState, Steps, Holding, Proc, Go, At,
        WriteReceipt, disk
<1>1. CASE UNCHANGED vars BY <1>1 DEF vars
<1>2. CASE EditConfig     BY <1>2 DEF EditConfig
<1>3. ASSUME NEW r \in Receipts, NEW tree \in Trees, Prepare(r, tree) PROVE TypeOK'
      BY <1>3 DEF Prepare
<1>4. ASSUME NEW i \in Invocations, NEW r \in Receipts, PromoteBegins(i, r) PROVE TypeOK'
      BY <1>4 DEF PromoteBegins
<1>5. ASSUME NEW i \in Invocations, NEW r \in Receipts, RecoverBegins(i, r) PROVE TypeOK'
      BY <1>5 DEF RecoverBegins
<1>6. ASSUME NEW i \in Invocations, LockStep(i) PROVE TypeOK'
      BY <1>6, LockStepType
<1>7. ASSUME NEW i \in Invocations, PromoteStep(i) PROVE TypeOK'
  <2>1. proc[i].r \in Receipts
        BY <1>7 DEF Started, PromoteStep, CheckPreconditions, Arm, SwapOut, SwapIn, SwapInFails,
                    ValidationPasses, ValidationFails, UndoOut, UndoIn, Commit
  <2> QED BY <1>7, <2>1, PromoteStepType
<1>8. ASSUME NEW i \in Invocations, RecoverStep(i) PROVE TypeOK'
  <2>1. proc[i].r \in Receipts
        BY <1>8 DEF Started, RecoverStep, RecoverDecides, RestorePrior, RecoveryRecorded
  <2> QED BY <1>8, <2>1, RecoverStepType
<1>9. ASSUME NEW i \in Invocations, Crash(i) PROVE TypeOK'
      BY <1>9 DEF Crash
<1>10. ASSUME NEW i \in Invocations, StepFails(i) PROVE TypeOK'
      BY <1>10 DEF StepFails
<1> QED BY <1>1, <1>2, <1>3, <1>4, <1>5, <1>6, <1>7, <1>8, <1>9, <1>10 DEF Next

-----------------------------------------------------------------------------
(* Who has begun, and who holds the lock. *)
LEMMA StartedStep == TypeOK /\ Started /\ [Next]_vars => Started'
<1> SUFFICES ASSUME TypeOK, Started, [Next]_vars PROVE Started'
    OBVIOUS
<1> USE InstallerAssumption DEF TypeOK, Started, Proc, Plan, Dirs, Lock, At, Go, disk, WriteReceipt
<1>1. CASE UNCHANGED vars BY <1>1 DEF vars
<1>2. CASE EditConfig     BY <1>2 DEF EditConfig
<1>3. ASSUME NEW r \in Receipts, NEW tree \in Trees, Prepare(r, tree) PROVE Started'
      BY <1>3 DEF Prepare
<1>4. ASSUME NEW i \in Invocations, NEW r \in Receipts, PromoteBegins(i, r) PROVE Started'
      BY <1>4 DEF PromoteBegins
<1>5. ASSUME NEW i \in Invocations, NEW r \in Receipts, RecoverBegins(i, r) PROVE Started'
      BY <1>5 DEF RecoverBegins
<1>6. ASSUME NEW i \in Invocations, LockStep(i) PROVE Started'
  <2>1. CASE CreateLock(i)    BY <2>1 DEF CreateLock
  <2>2. CASE WriteLock(i)     BY <2>2 DEF WriteLock
  <2>3. CASE InspectLock(i)   BY <2>3 DEF InspectLock
  <2>4. CASE UnlinkLock(i)    BY <2>4 DEF UnlinkLock
  <2>5. CASE LockRefused(i)   BY <2>5 DEF LockRefused
  <2>6. CASE ReleaseLock(i)   BY <2>6 DEF ReleaseLock
  <2>7. CASE Cleanup(i)       BY <2>7 DEF Cleanup
  <2> QED BY <1>6, <2>1, <2>2, <2>3, <2>4, <2>5, <2>6, <2>7 DEF LockStep
<1>7. ASSUME NEW i \in Invocations, PromoteStep(i) PROVE Started'
  <2>1. CASE CheckPreconditions(i) BY <2>1 DEF CheckPreconditions
  <2>2. CASE Arm(i)                BY <2>2 DEF Arm
  <2>3. CASE SwapOut(i)            BY <2>3 DEF SwapOut
  <2>4. CASE SwapIn(i)             BY <2>4 DEF SwapIn
  <2>5. CASE SwapInFails(i)        BY <2>5 DEF SwapInFails
  <2>6. CASE ValidationPasses(i)   BY <2>6 DEF ValidationPasses
  <2>7. CASE ValidationFails(i)    BY <2>7 DEF ValidationFails
  <2>8. CASE UndoOut(i)            BY <2>8 DEF UndoOut
  <2>9. CASE UndoIn(i)             BY <2>9 DEF UndoIn
  <2>10. CASE Commit(i)            BY <2>10 DEF Commit
  <2> QED BY <1>7, <2>1, <2>2, <2>3, <2>4, <2>5, <2>6, <2>7, <2>8, <2>9, <2>10 DEF PromoteStep
<1>8. ASSUME NEW i \in Invocations, RecoverStep(i) PROVE Started'
  <2>1. CASE RecoverDecides(i)   BY <2>1 DEF RecoverDecides
  <2>2. CASE RestorePrior(i)     BY <2>2 DEF RestorePrior
  <2>3. CASE RecoveryRecorded(i) BY <2>3 DEF RecoveryRecorded
  <2> QED BY <1>8, <2>1, <2>2, <2>3 DEF RecoverStep
<1>9. ASSUME NEW i \in Invocations, Crash(i) PROVE Started'
      BY <1>9 DEF Crash, Alive
<1>10. ASSUME NEW i \in Invocations, StepFails(i) PROVE Started'
      BY <1>10 DEF StepFails, Holding
<1> QED BY <1>1, <1>2, <1>3, <1>4, <1>5, <1>6, <1>7, <1>8, <1>9, <1>10 DEF Next

LockInv == HoldersOwnLock /\ StaleOwnersGone

(* A step of an invocation inside the lock moves it to another step there, *)
(* or to its release, and leaves the lock alone.                           *)
LEMMA InsideTheLock ==
    ASSUME TypeOK, LockInv, NEW i \in Invocations, NEW step \in Holding,
           At(i, Holding), Go(i, step), lock' = lock, raced \subseteq raced'
    PROVE  LockInv'
BY DEF TypeOK, LockInv, HoldersOwnLock, StaleOwnersGone, Holding, Proc, Lock, At, Go

(* An invocation dies or ends, or one that has not reached the lock moves. *)
LEMMA OutsideTheLock ==
    ASSUME TypeOK, LockInv, NEW i \in Invocations, NEW p \in Proc,
           proc' = [proc EXCEPT ![i] = p], lock' = lock, raced' = raced,
           ~At(i, {"end", "crashed"}),
           p.at \notin Holding \cup {"create", "stale"}
    PROVE  LockInv'
BY DEF TypeOK, LockInv, HoldersOwnLock, StaleOwnersGone, Holding, Proc, Lock, At

LEMMA LockInvStep == TypeOK /\ Started /\ LockInv /\ [Next]_vars => LockInv'
<1> SUFFICES ASSUME TypeOK, Started, LockInv, [Next]_vars PROVE LockInv'
    OBVIOUS
<1>1. CASE UNCHANGED vars
      BY <1>1 DEF vars, LockInv, HoldersOwnLock, StaleOwnersGone, At
<1>2. CASE EditConfig
      BY <1>2 DEF EditConfig, LockInv, HoldersOwnLock, StaleOwnersGone, At
<1>3. ASSUME NEW r \in Receipts, NEW tree \in Trees, Prepare(r, tree) PROVE LockInv'
      BY <1>3 DEF Prepare, LockInv, HoldersOwnLock, StaleOwnersGone, At
<1>4. ASSUME NEW i \in Invocations, NEW r \in Receipts,
             PromoteBegins(i, r) \/ RecoverBegins(i, r) PROVE LockInv'
  <2>1. PICK b \in BOOLEAN :
            proc' = [proc EXCEPT ![i] = [at |-> "lock", recovers |-> b, r |-> r, saw |-> NoLock]]
        BY <1>4 DEF PromoteBegins, RecoverBegins
  <2>2. [at |-> "lock", recovers |-> b, r |-> r, saw |-> NoLock] \in Proc
        BY DEF Proc, Steps
  <2> QED BY <1>4, <2>1, <2>2, OutsideTheLock
          DEF PromoteBegins, RecoverBegins, At, Holding, disk
<1>5. ASSUME NEW i \in Invocations, LockStep(i) PROVE LockInv'
  <2> USE DEF TypeOK, Started, LockInv, HoldersOwnLock, StaleOwnersGone, Holding, Proc, Lock, At, Go, disk
  <2>1. CASE CreateLock(i)
    <3>1. ASSUME "lock" \notin raced, NEW j \in Invocations
          PROVE  ~At(j, Holding \cup {"create"})
      <4>1. [owner |-> j, written |-> ~At(j, {"create"})] \in [owner : Invocations, written : BOOLEAN]
            OBVIOUS
      <4> QED BY <2>1, <3>1, <4>1, InstallerAssumption DEF CreateLock
    <3>2. lock' = [owner |-> i, written |-> FALSE] /\ At(i, {"create"})' /\ ~At(i, Holding)'
          BY <2>1 DEF CreateLock
    <3>3. \A j \in Invocations : j # i => proc'[j] = proc[j]
          BY <2>1 DEF CreateLock
    <3>4. raced' = raced /\ ~At(i, {"end", "crashed"}) /\ ~At(i, {"stale"})'
          BY <2>1 DEF CreateLock
    <3>5. HoldersOwnLock'
          BY <3>1, <3>2, <3>3, <3>4
    <3>6. StaleOwnersGone'
          BY <3>3, <3>4
    <3> QED BY <3>5, <3>6
  <2>2. CASE WriteLock(i)
    <3>1. raced' = raced /\ ~At(i, {"end", "crashed"}) /\ At(i, {"create"})
          BY <2>2 DEF WriteLock
    <3>2. At(i, {"held"})' /\ \A j \in Invocations : j # i => proc'[j] = proc[j]
          BY <2>2 DEF WriteLock
    <3>3. ASSUME "lock" \notin raced
          PROVE  /\ lock = [owner |-> i, written |-> FALSE]
                 /\ lock' = [owner |-> i, written |-> TRUE]
      <4>1. lock = [owner |-> i, written |-> ~At(i, {"create"})]
            BY <3>1, <3>3
      <4>2. lock = [owner |-> i, written |-> FALSE]
            BY <3>1, <4>1
      <4> QED BY <2>2, <4>2 DEF WriteLock
    <3>4. ASSUME "lock" \notin raced, NEW j \in Invocations, At(j, Holding \cup {"create"})
          PROVE  j = i
          BY <3>3, <3>4
    <3>5. HoldersOwnLock'
          BY <3>1, <3>2, <3>3, <3>4
    <3>6. StaleOwnersGone'
          BY <3>1, <3>2
    <3> QED BY <3>5, <3>6
  <2>3. CASE InspectLock(i)   BY <2>3 DEF InspectLock, Reclaimable, Alive
  <2>4. CASE UnlinkLock(i)    BY <2>4 DEF UnlinkLock
  <2>5. CASE LockRefused(i)   BY <2>5 DEF LockRefused
  <2>6. CASE ReleaseLock(i)   BY <2>6 DEF ReleaseLock
  <2>7. CASE Cleanup(i)       BY <2>7 DEF Cleanup
  <2> QED BY <1>5, <2>1, <2>2, <2>3, <2>4, <2>5, <2>6, <2>7 DEF LockStep
<1>6. ASSUME NEW i \in Invocations, PromoteStep(i) \/ RecoverStep(i) \/ StepFails(i) PROVE LockInv'
  <2>1. \E step \in Holding : Go(i, step)
        BY <1>6 DEF PromoteStep, RecoverStep, StepFails, CheckPreconditions, Arm, SwapOut, SwapIn,
                    SwapInFails, ValidationPasses, ValidationFails, UndoOut, UndoIn, Commit,
                    RecoverDecides, RestorePrior, RecoveryRecorded, Holding
  <2>2. At(i, Holding)
        BY <1>6 DEF PromoteStep, RecoverStep, StepFails, CheckPreconditions, Arm, SwapOut, SwapIn,
                    SwapInFails, ValidationPasses, ValidationFails, UndoOut, UndoIn, Commit,
                    RecoverDecides, RestorePrior, RecoveryRecorded, Holding, At
  <2>3. lock' = lock /\ raced \subseteq raced'
        BY <1>6 DEF PromoteStep, RecoverStep, StepFails, CheckPreconditions, Arm, SwapOut, SwapIn,
                    SwapInFails, ValidationPasses, ValidationFails, UndoOut, UndoIn, Commit,
                    RecoverDecides, RestorePrior, RecoveryRecorded, disk
  <2> QED BY <2>1, <2>2, <2>3, InsideTheLock
<1>7. ASSUME NEW i \in Invocations, Crash(i) PROVE LockInv'
      BY <1>7 DEF Crash, Alive, TypeOK, LockInv, HoldersOwnLock, StaleOwnersGone, Holding, Proc, Lock,
                  At, Go, disk
<1> QED BY <1>1, <1>2, <1>3, <1>4, <1>5, <1>6, <1>7 DEF Next

LEMMA HoldersAreOne ==
    ASSUME LockInv, "lock" \notin raced, NEW i \in Invocations, NEW j \in Invocations,
           At(i, Holding), At(j, Holding)
    PROVE  i = j
BY DEF LockInv, HoldersOwnLock, Holding, At

-----------------------------------------------------------------------------
(* The directories. *)
DiskInv == Shelves /\ Verdicts /\ StepInv

Claiming == {"checked", "armed", "away", "in", "valid", "undo", "undone", "restoring", "restored"}

(* Nothing is renamed, no journal armed or closed, and no invocation comes *)
(* to a step at which it claims something about the disk.                  *)
LEMMA QuietStep ==
    ASSUME TypeOK, Started, DiskInv,
           live' = live, superseded' = superseded, failed' = failed, incoming' = incoming,
           \A r \in Receipts : plan[r] # NoPlan => plan'[r] = plan[r],
           \A r \in Receipts : \/ receipt'[r] = receipt[r]
                               \/ /\ receipt[r] \in {"absent", "pending"}
                                  /\ receipt'[r] \in {"absent", "pending"},
           raced \subseteq raced',
           \A j \in Invocations : proc'[j] = proc[j] \/ ~At(j, Claiming)'
    PROVE  DiskInv'
<1> USE DEF DiskInv, Started
<1>1. Shelves'
      BY DEF Shelves, Covered, Top
<1>2. Verdicts'
      BY DEF Verdicts, MissingRootIsRecoverable, CertifiedIsKept
<1>3. ASSUME raced' = {}, NEW j \in Invocations, At(j, Claiming)'
      PROVE  /\ proc'[j] = proc[j] /\ At(j, Claiming) /\ raced = {}
             /\ proc[j].r \in Receipts /\ plan'[proc[j].r] = plan[proc[j].r]
             /\ receipt[proc[j].r] = "armed" => receipt'[proc[j].r] = "armed"
      BY <1>3 DEF At, Claiming
<1>4. StepInv'
      BY <1>3 DEF StepInv, Swapping, Covered, At, Claiming
<1> QED BY <1>1, <1>2, <1>4

(* The invocation that moves is the only one with a claim afterwards. *)
LEMMA OnlyMoverClaims ==
    ASSUME TypeOK, LockInv, NEW i \in Invocations, NEW step \in Steps, At(i, Holding),
           Go(i, step), raced = {}, NEW j \in Invocations, At(j, Claiming)'
    PROVE  j = i
BY HoldersAreOne DEF At, Go, Claiming, Holding, TypeOK, Proc

LEMMA CheckPreconditionsDisk ==
    ASSUME TypeOK, Started, LockInv, DiskInv, NEW i \in Invocations, CheckPreconditions(i)
    PROVE  DiskInv'
<1> USE DEF DiskInv
<1>1. Shelves'
      BY DEF CheckPreconditions, disk, Shelves, Covered, Top
<1>2. Verdicts'
      BY DEF CheckPreconditions, disk, Verdicts, MissingRootIsRecoverable, CertifiedIsKept
<1>3. Go(i, "checked") /\ At(i, Holding) /\ raced' = raced
      BY DEF CheckPreconditions, At, Holding
<1>4. ASSUME raced' = {}, NEW j \in Invocations, At(j, Claiming)'
      PROVE  /\ j = i /\ proc'[j].at = "checked" /\ proc'[j].r = proc[i].r
             /\ live' = plan'[proc[i].r].prior
  <2>1. j = i
        BY <1>3, <1>4, OnlyMoverClaims DEF Steps, Holding
  <2> QED BY <2>1 DEF CheckPreconditions, disk, Go, TypeOK, Proc
<1>5. StepInv'
      BY <1>4 DEF StepInv, At, Claiming
<1> QED BY <1>1, <1>2, <1>5

LEMMA ArmDisk ==
    ASSUME TypeOK, Started, LockInv, DiskInv, NEW i \in Invocations,
           NEW r \in Receipts, proc[i].r = r, Arm(i)
    PROVE  DiskInv'
<1> USE DEF DiskInv
<1>1. Go(i, "armed") /\ At(i, Holding) /\ At(i, {"checked"}) /\ raced' = raced
      BY DEF Arm, At, Holding
<1>2. /\ receipt[r] = "pending" /\ receipt' = [receipt EXCEPT ![r] = "armed"]
      /\ incoming' = [incoming EXCEPT ![r] = r] /\ UNCHANGED <<live, plan, superseded, failed>>
      BY DEF Arm, WriteReceipt
<1> SUFFICES ASSUME raced = {} PROVE DiskInv'
    BY <1>1 DEF Shelves, Verdicts, StepInv, MissingRootIsRecoverable, CertifiedIsKept
<1>3. live = plan[r].prior /\ live # r /\ ~Covered(r) /\ failed[r] = NoDir /\ superseded[r] = NoDir
      BY <1>1, <1>2 DEF StepInv, Shelves, At
<1>4. Shelves'
      BY <1>1, <1>2, <1>3 DEF Shelves, Covered, Top, TypeOK
<1>5. Verdicts'
      BY <1>1, <1>2 DEF Verdicts, MissingRootIsRecoverable, CertifiedIsKept, TypeOK
<1>6. ASSUME NEW j \in Invocations, At(j, Claiming)'
      PROVE  /\ j = i /\ proc'[j].at = "armed" /\ proc'[j].r = r
  <2>1. j = i
        BY <1>1, <1>6, OnlyMoverClaims DEF Steps, Holding
  <2> QED BY <1>1, <2>1 DEF Go, TypeOK, Proc
<1>7. /\ receipt'[r] = "armed" /\ incoming'[r] = r /\ ~Covered(r)'
      BY <1>1, <1>2, <1>3 DEF Covered, TypeOK
<1>8. StepInv'
      BY <1>1, <1>2, <1>3, <1>6, <1>7 DEF StepInv, At, Claiming
<1> QED BY <1>4, <1>5, <1>8

LEMMA SwapOutDisk ==
    ASSUME TypeOK, Started, LockInv, DiskInv, NEW i \in Invocations,
           NEW r \in Receipts, proc[i].r = r, SwapOut(i)
    PROVE  DiskInv'
<1> USE DEF DiskInv
<1>1. Go(i, "away") /\ At(i, Holding) /\ At(i, {"armed"}) /\ raced' = raced
      BY DEF SwapOut, At, Holding
<1>2. /\ live # NoDir /\ live' = NoDir /\ superseded' = [superseded EXCEPT ![r] = live]
      /\ UNCHANGED <<plan, receipt, incoming, failed>>
      BY DEF SwapOut
<1> SUFFICES ASSUME raced = {} PROVE DiskInv'
    BY <1>1 DEF Shelves, Verdicts, StepInv, MissingRootIsRecoverable, CertifiedIsKept
<1>3. /\ live = plan[r].prior /\ live # r /\ ~Covered(r) /\ failed[r] = NoDir
      /\ superseded[r] = NoDir /\ receipt[r] = "armed" /\ incoming[r] = r
      BY <1>1 DEF StepInv, At
<1>4. superseded'[r] = live /\ \A q \in Receipts : q # r => superseded'[q] = superseded[q]
      BY <1>2 DEF TypeOK
<1>5. ~Covered(r)' /\ \A q \in Receipts : Top(q)' => q = r
  <2>1. ~Covered(r)'
        BY <1>3, <1>4 DEF Covered
  <2>2. ASSUME NEW q \in Receipts, Top(q)', q # r PROVE FALSE
    <3>1. ~Covered(q) /\ superseded[q] # NoDir
          BY <2>2, <1>3, <1>4, InstallerAssumption DEF Top, Covered
    <3>2. live = q
          BY <3>1, <1>2 DEF Shelves, Top
    <3> QED BY <2>2, <3>2, <1>4 DEF Top, Covered
  <2> QED BY <2>1, <2>2
<1>6. \A q \in Receipts : Covered(q)' => Covered(q) \/ live = q
      BY <1>4 DEF Covered
<1>7. Shelves'
  <2>1. \A q \in Receipts : q # NoDir
        BY InstallerAssumption
  <2> QED BY <1>1, <1>2, <1>3, <1>4, <1>5, <1>6, <2>1 DEF Shelves
<1>8. Verdicts'
      BY <1>1, <1>2, <1>3, <1>4 DEF Verdicts, MissingRootIsRecoverable, CertifiedIsKept
<1>9. ASSUME NEW j \in Invocations, At(j, Claiming)'
      PROVE  /\ j = i /\ proc'[j].at = "away" /\ proc'[j].r = r
  <2>1. j = i
        BY <1>1, <1>9, OnlyMoverClaims DEF Steps, Holding
  <2> QED BY <1>1, <2>1 DEF Go, TypeOK, Proc
<1>10. StepInv'
      BY <1>1, <1>2, <1>3, <1>4, <1>5, <1>9 DEF StepInv, Swapping, At, Claiming
<1> QED BY <1>7, <1>8, <1>10

LEMMA SwapInDisk ==
    ASSUME TypeOK, Started, LockInv, DiskInv, NEW i \in Invocations,
           NEW r \in Receipts, proc[i].r = r, SwapIn(i)
    PROVE  DiskInv'
<1> USE DEF DiskInv
<1>1. Go(i, "in") /\ At(i, Holding) /\ At(i, {"away"}) /\ raced' = raced
      BY DEF SwapIn, At, Holding
<1>2. /\ live = NoDir /\ live' = incoming[r]
      /\ UNCHANGED <<plan, receipt, superseded, failed>>
      BY DEF SwapIn
<1> SUFFICES ASSUME raced = {} PROVE DiskInv'
    BY <1>1 DEF Shelves, Verdicts, StepInv, MissingRootIsRecoverable, CertifiedIsKept
<1>3. Swapping(i) /\ failed[r] = NoDir /\ live' = r /\ Top(r)
      BY <1>1, <1>2 DEF StepInv, At, Swapping, Top
<1>4. Shelves'
      BY <1>1, <1>2, <1>3 DEF Shelves, Covered, Top, Swapping
<1>5. Verdicts'
      BY <1>1, <1>2, <1>3, InstallerAssumption
         DEF Verdicts, MissingRootIsRecoverable, CertifiedIsKept
<1>6. ASSUME NEW j \in Invocations, At(j, Claiming)'
      PROVE  /\ j = i /\ proc'[j].at = "in" /\ proc'[j].r = r
  <2>1. j = i
        BY <1>1, <1>6, OnlyMoverClaims DEF Steps, Holding
  <2> QED BY <1>1, <2>1 DEF Go, TypeOK, Proc
<1>7. StepInv'
      BY <1>1, <1>2, <1>3, <1>6 DEF StepInv, Swapping, Covered, At, Claiming
<1> QED BY <1>4, <1>5, <1>7

(* The displaced source of the top promotion goes back to the live root:   *)
(* a failed rename, the rollback and the recovery all do this.             *)
LEMMA PutBackDisk ==
    ASSUME TypeOK, Started, LockInv, DiskInv, NEW i \in Invocations,
           NEW r \in Receipts, proc[i].r = r,
           At(i, {"away", "undone", "restoring"}),
           NEW step \in {"exit", "restored"}, Go(i, step), raced' = raced,
           live = NoDir, live' = superseded[r], superseded' = [superseded EXCEPT ![r] = NoDir],
           UNCHANGED <<plan, receipt, failed>>
    PROVE  DiskInv'
<1> USE DEF DiskInv
<1> SUFFICES ASSUME raced = {} PROVE DiskInv'
    BY DEF Shelves, Verdicts, StepInv, MissingRootIsRecoverable, CertifiedIsKept
<1>1. Swapping(i) /\ Top(r) /\ superseded[r] # NoDir /\ ~Covered(r)
      BY DEF StepInv, At, Swapping, Top
<1>2. superseded'[r] = NoDir /\ \A q \in Receipts : q # r => superseded'[q] = superseded[q]
      BY DEF TypeOK
<1>3. \A q \in Receipts : q # NoDir
      BY InstallerAssumption
<1>4. \A q \in Receipts : Covered(q)' => Covered(q)
      BY <1>2, <1>3 DEF Covered
<1>5. ASSUME NEW q \in Receipts, Top(q)' PROVE live' = q
  <2>1. q # r /\ superseded[q] # NoDir
        BY <1>2, <1>5 DEF Top
  <2>2. Covered(q)
        BY <1>1, <2>1 DEF Shelves, Top
  <2>3. PICK p \in Receipts : superseded[p] = q
        BY <2>2 DEF Covered
  <2>4. CASE p = r
        BY <2>3, <2>4
  <2>5. CASE p # r
        BY <1>2, <1>5, <2>3, <2>5 DEF Top, Covered
  <2> QED BY <2>4, <2>5
<1>6. Shelves'
      BY <1>1, <1>2, <1>3, <1>4, <1>5 DEF Shelves, Covered
<1>7. live' # NoDir /\ superseded'[r] = NoDir
      BY <1>1, <1>2
<1>8. Verdicts'
      BY <1>2, <1>3, <1>7 DEF Verdicts, MissingRootIsRecoverable, CertifiedIsKept
<1>9. ASSUME NEW j \in Invocations, At(j, Claiming)'
      PROVE  j = i /\ proc'[j].at = "restored" /\ proc'[j].r = r
  <2>1. j = i
        BY <1>9, OnlyMoverClaims DEF Steps, Holding, At
  <2> QED BY <1>9, <2>1 DEF Go, TypeOK, Proc, At, Claiming
<1>10. StepInv'
      BY <1>7, <1>9 DEF StepInv, At, Claiming
<1> QED BY <1>6, <1>8, <1>10

LEMMA SwapInFailsDisk ==
    ASSUME TypeOK, Started, LockInv, DiskInv, NEW i \in Invocations,
           NEW r \in Receipts, proc[i].r = r, SwapInFails(i)
    PROVE  DiskInv'
<1>1. CASE live = NoDir /\ live' = superseded[r]
               /\ superseded' = [superseded EXCEPT ![r] = NoDir]
      BY <1>1, PutBackDisk DEF SwapInFails, At
<1>2. CASE UNCHANGED <<live, superseded>>
  <2>1. \A j \in Invocations : proc'[j] = proc[j] \/ ~At(j, Claiming)'
        BY DEF SwapInFails, Go, At, Claiming, TypeOK, Proc
  <2> QED BY <1>2, <2>1, QuietStep DEF SwapInFails
<1> QED BY <1>1, <1>2 DEF SwapInFails

LEMMA UndoInDisk ==
    ASSUME TypeOK, Started, LockInv, DiskInv, NEW i \in Invocations,
           NEW r \in Receipts, proc[i].r = r, UndoIn(i)
    PROVE  DiskInv'
BY PutBackDisk DEF UndoIn, At

LEMMA RestorePriorDisk ==
    ASSUME TypeOK, Started, LockInv, DiskInv, NEW i \in Invocations,
           NEW r \in Receipts, proc[i].r = r, RestorePrior(i)
    PROVE  DiskInv'
BY PutBackDisk DEF RestorePrior, At

(* The candidate is kept for the next step, valid or not. *)
LEMMA ValidationDisk ==
    ASSUME TypeOK, Started, LockInv, DiskInv, NEW i \in Invocations,
           NEW r \in Receipts, proc[i].r = r, ValidationPasses(i) \/ ValidationFails(i)
    PROVE  DiskInv'
<1> USE DEF DiskInv
<1>1. PICK step \in {"valid", "undo"} : Go(i, step)
      BY DEF ValidationPasses, ValidationFails
<1>2. At(i, Holding) /\ At(i, {"in"}) /\ raced' = raced /\ UNCHANGED disk
      BY DEF ValidationPasses, ValidationFails, At, Holding
<1>3. Shelves' /\ Verdicts'
      BY <1>2 DEF disk, Shelves, Covered, Top, Verdicts, MissingRootIsRecoverable, CertifiedIsKept
<1> SUFFICES ASSUME raced = {} PROVE StepInv'
    BY <1>2, <1>3 DEF StepInv
<1>4. Swapping(i) /\ live = r
      BY <1>2 DEF StepInv, At
<1>5. ASSUME NEW j \in Invocations, At(j, Claiming)'
      PROVE  /\ j = i /\ proc'[j].at \in {"valid", "undo"} /\ proc'[j].r = r
  <2>1. j = i
        BY <1>1, <1>2, <1>5, OnlyMoverClaims DEF Steps, Holding
  <2> QED BY <1>1, <2>1 DEF Go, TypeOK, Proc
<1> QED BY <1>2, <1>4, <1>5 DEF StepInv, Swapping, Covered, At, Claiming, disk

(* The candidate is set aside, by the rollback or by a recovery. *)
LEMMA SetAsideDisk ==
    ASSUME TypeOK, Started, LockInv, DiskInv, NEW i \in Invocations,
           NEW r \in Receipts, proc[i].r = r, At(i, Holding), raced' = raced,
           raced = {} => Swapping(i) /\ (live # NoDir => live = r),
           failed' = IF live = NoDir THEN failed ELSE [failed EXCEPT ![r] = live],
           live' = NoDir, UNCHANGED <<plan, receipt, superseded>>,
           NEW step \in {"undone", "restoring"}, Go(i, step)
    PROVE  DiskInv'
<1> USE DEF DiskInv
<1> SUFFICES ASSUME raced = {} PROVE DiskInv'
    BY DEF Shelves, Verdicts, StepInv, MissingRootIsRecoverable, CertifiedIsKept
<1>1. receipt[r] = "armed" /\ superseded[r] # NoDir /\ ~Covered(r)
      BY DEF Swapping
<1>2. \A q \in Receipts : q # r => failed'[q] = failed[q]
      BY DEF TypeOK
<1>3. \A q \in Receipts : q # NoDir
      BY InstallerAssumption
<1>4. Shelves'
      BY <1>1, <1>2, <1>3 DEF Shelves, Covered, Top
<1>5. superseded[r] = plan[r].prior
      BY <1>1 DEF Shelves
<1>6. Verdicts'
      BY <1>1, <1>5 DEF Verdicts, MissingRootIsRecoverable, CertifiedIsKept
<1>7. ASSUME NEW j \in Invocations, At(j, Claiming)'
      PROVE  /\ j = i /\ proc'[j].at \in {"undone", "restoring"} /\ proc'[j].r = r
  <2>1. j = i
        BY <1>7, OnlyMoverClaims DEF Steps, Holding
  <2> QED BY <2>1 DEF Go, TypeOK, Proc
<1>8. StepInv'
      BY <1>1, <1>7 DEF StepInv, Swapping, Covered, At, Claiming
<1> QED BY <1>4, <1>6, <1>8

LEMMA UndoOutDisk ==
    ASSUME TypeOK, Started, LockInv, DiskInv, NEW i \in Invocations,
           NEW r \in Receipts, proc[i].r = r, UndoOut(i)
    PROVE  DiskInv'
<1>1. At(i, Holding) /\ (raced = {} => Swapping(i) /\ live = r)
      BY DEF UndoOut, At, Holding, DiskInv, StepInv
<1> QED BY <1>1, SetAsideDisk DEF UndoOut

LEMMA RecoverDecidesDisk ==
    ASSUME TypeOK, Started, LockInv, DiskInv, NEW i \in Invocations,
           NEW r \in Receipts, proc[i].r = r, RecoverDecides(i)
    PROVE  DiskInv'
<1> USE DEF DiskInv
<1>1. At(i, Holding) /\ At(i, {"held"})
      BY DEF RecoverDecides, At, Holding
<1>2. CASE raced' # {}
      BY <1>2 DEF Shelves, Verdicts, StepInv, MissingRootIsRecoverable, CertifiedIsKept
<1>3. CASE superseded[r] = NoDir /\ live # NoDir /\ Go(i, "restored") /\ UNCHANGED <<live, failed, raced>>
  <2>1. UNCHANGED <<live, superseded, failed, plan, receipt, raced>>
        BY <1>3 DEF RecoverDecides
  <2>2. Shelves' /\ Verdicts'
        BY <2>1 DEF Shelves, Covered, Top, Verdicts, MissingRootIsRecoverable, CertifiedIsKept
  <2>3. ASSUME raced = {}, NEW j \in Invocations, At(j, Claiming)'
        PROVE  /\ j = i /\ proc'[j].at = "restored" /\ proc'[j].r = r
    <3>1. j = i
          BY <1>1, <1>3, <2>3, OnlyMoverClaims DEF Steps, Holding
    <3> QED BY <1>3, <3>1 DEF Go, TypeOK, Proc
  <2>4. StepInv'
        BY <1>3, <2>1, <2>3 DEF StepInv, At, Claiming
  <2> QED BY <2>2, <2>4
<1>4. CASE /\ raced' = {} /\ superseded[r] # NoDir /\ Go(i, "restoring") /\ live' = NoDir
           /\ failed' = IF live = NoDir THEN failed ELSE [failed EXCEPT ![r] = live]
           /\ raced' = raced \cup (IF receipt[r] = "armed" THEN {} ELSE {"journal"})
                             \cup (IF \E s \in Receipts : superseded[s] = r THEN {"later"} ELSE {})
  <2>1. raced = {} /\ receipt[r] = "armed" /\ ~Covered(r)
        BY <1>4 DEF Covered
  <2>2. live # NoDir => live = r
        BY <1>4, <2>1 DEF Shelves, Top
  <2> QED BY <1>1, <1>4, <2>1, <2>2, SetAsideDisk DEF RecoverDecides, Swapping
<1> QED BY <1>2, <1>3, <1>4 DEF RecoverDecides

(* A verdict is written: PASS while the candidate is live, RECOVERED when  *)
(* the source is back.                                                     *)
LEMMA VerdictDisk ==
    ASSUME TypeOK, Started, LockInv, DiskInv, NEW i \in Invocations,
           NEW r \in Receipts, proc[i].r = r, Commit(i) \/ RecoveryRecorded(i)
    PROVE  DiskInv'
<1> USE DEF DiskInv
<1>1. Go(i, "exit") /\ At(i, Holding) /\ raced' = raced /\ receipt[r] = "armed"
      BY DEF Commit, RecoveryRecorded, At, Holding
<1>2. UNCHANGED <<live, superseded, failed, plan>>
      BY DEF Commit, RecoveryRecorded
<1> SUFFICES ASSUME raced = {} PROVE DiskInv'
    BY <1>1 DEF Shelves, Verdicts, StepInv, MissingRootIsRecoverable, CertifiedIsKept
<1>3. live # NoDir
      BY InstallerAssumption DEF Commit, RecoveryRecorded, StepInv, At
<1>4. \/ receipt' = [receipt EXCEPT ![r] = "pass"] /\ live = r
      \/ receipt' = [receipt EXCEPT ![r] = "recovered"] /\ superseded[r] = NoDir
      BY DEF Commit, RecoveryRecorded, StepInv, At, WriteReceipt
<1>5. Shelves'
      BY <1>1, <1>2, <1>4 DEF Shelves, Covered, Top, TypeOK
<1>6. Verdicts'
      BY <1>2, <1>3, <1>4 DEF Verdicts, MissingRootIsRecoverable, CertifiedIsKept, TypeOK
<1>7. ASSUME NEW j \in Invocations, At(j, Claiming)' PROVE FALSE
  <2>1. j = i
        BY <1>1, <1>7, OnlyMoverClaims DEF Steps, Holding
  <2> QED BY <1>1, <1>7, <2>1 DEF Go, TypeOK, Proc, At, Claiming
<1>8. StepInv'
      BY <1>7 DEF StepInv, At, Claiming
<1> QED BY <1>5, <1>6, <1>8

LEMMA DiskInvStep == TypeOK /\ Started /\ LockInv /\ DiskInv /\ [Next]_vars => DiskInv'
<1> SUFFICES ASSUME TypeOK, Started, LockInv, DiskInv, [Next]_vars PROVE DiskInv'
    OBVIOUS
<1>1. CASE UNCHANGED vars
      BY <1>1, QuietStep DEF vars
<1>2. CASE EditConfig
      BY <1>2, QuietStep DEF EditConfig
<1>3. ASSUME NEW r \in Receipts, NEW tree \in Trees, Prepare(r, tree) PROVE DiskInv'
  <2>1. \A q \in Receipts : plan[q] # NoPlan => plan'[q] = plan[q]
        BY <1>3 DEF Prepare, TypeOK
  <2> QED BY <1>3, <2>1, QuietStep DEF Prepare
<1>4. ASSUME NEW i \in Invocations, NEW r \in Receipts, PromoteBegins(i, r) PROVE DiskInv'
  <2>1. \A j \in Invocations : proc'[j] = proc[j] \/ ~At(j, Claiming)'
        BY <1>4 DEF PromoteBegins, At, Claiming, TypeOK, Proc
  <2>2. \A q \in Receipts : \/ receipt'[q] = receipt[q]
                            \/ /\ receipt[q] \in {"absent", "pending"}
                               /\ receipt'[q] \in {"absent", "pending"}
        BY <1>4 DEF PromoteBegins, WriteReceipt, TypeOK
  <2>3. /\ UNCHANGED <<live, superseded, failed, incoming, plan>>
        /\ raced \subseteq raced'
        BY <1>4 DEF PromoteBegins
  <2> QED BY <2>1, <2>2, <2>3, QuietStep
<1>5. ASSUME NEW i \in Invocations, NEW r \in Receipts, RecoverBegins(i, r) PROVE DiskInv'
  <2>1. \A j \in Invocations : proc'[j] = proc[j] \/ ~At(j, Claiming)'
        BY <1>5 DEF RecoverBegins, At, Claiming, TypeOK, Proc
  <2> QED BY <1>5, <2>1, QuietStep DEF RecoverBegins, disk
<1>6. ASSUME NEW i \in Invocations, LockStep(i) PROVE DiskInv'
  <2>1. \A j \in Invocations : proc'[j] = proc[j] \/ ~At(j, Claiming)'
    <3>1. CASE InspectLock(i)
          BY <3>1 DEF InspectLock, At, Claiming, TypeOK, Proc
    <3>2. CASE ~InspectLock(i)
      <4>1. PICK step \in {"create", "held", "reclaim", "cleanup", "end"} : Go(i, step)
            BY <1>6, <3>2 DEF LockStep, CreateLock, WriteLock, UnlinkLock, LockRefused,
                              ReleaseLock, Cleanup
      <4> QED BY <4>1 DEF Go, At, Claiming, TypeOK, Proc
    <3> QED BY <3>1, <3>2
  <2>2. \A q \in Receipts : \/ receipt'[q] = receipt[q]
                            \/ /\ receipt[q] \in {"absent", "pending"}
                               /\ receipt'[q] \in {"absent", "pending"}
        BY <1>6 DEF LockStep, CreateLock, WriteLock, InspectLock, UnlinkLock, LockRefused,
                    ReleaseLock, Cleanup, disk, TypeOK
  <2>3. /\ UNCHANGED <<live, superseded, failed, incoming, plan>>
        /\ raced \subseteq raced'
        BY <1>6 DEF LockStep, CreateLock, WriteLock, InspectLock, UnlinkLock, LockRefused,
                    ReleaseLock, Cleanup, disk
  <2> QED BY <2>1, <2>2, <2>3, QuietStep
<1>7. ASSUME NEW i \in Invocations, PromoteStep(i) \/ RecoverStep(i) PROVE DiskInv'
  <2>1. PICK r \in Receipts : proc[i].r = r
        BY <1>7 DEF Started, PromoteStep, CheckPreconditions, Arm, SwapOut, SwapIn, SwapInFails,
                    ValidationPasses, ValidationFails, UndoOut, UndoIn, Commit,
                    RecoverStep, RecoverDecides, RestorePrior, RecoveryRecorded, At
  <2>2. CASE CheckPreconditions(i)
        BY <2>2, CheckPreconditionsDisk
  <2>3. CASE Arm(i)
        BY <2>1, <2>3, ArmDisk
  <2>4. CASE SwapOut(i)
        BY <2>1, <2>4, SwapOutDisk
  <2>5. CASE SwapIn(i)
        BY <2>1, <2>5, SwapInDisk
  <2>6. CASE SwapInFails(i)
        BY <2>1, <2>6, SwapInFailsDisk
  <2>7. CASE ValidationPasses(i) \/ ValidationFails(i)
        BY <2>1, <2>7, ValidationDisk
  <2>8. CASE UndoOut(i)
        BY <2>1, <2>8, UndoOutDisk
  <2>9. CASE UndoIn(i)
        BY <2>1, <2>9, UndoInDisk
  <2>10. CASE Commit(i) \/ RecoveryRecorded(i)
        BY <2>1, <2>10, VerdictDisk
  <2>11. CASE RecoverDecides(i)
        BY <2>1, <2>11, RecoverDecidesDisk
  <2>12. CASE RestorePrior(i)
        BY <2>1, <2>12, RestorePriorDisk
  <2> QED BY <1>7, <2>2, <2>3, <2>4, <2>5, <2>6, <2>7, <2>8, <2>9, <2>10, <2>11, <2>12
          DEF PromoteStep, RecoverStep
<1>8. ASSUME NEW i \in Invocations, Crash(i) \/ StepFails(i) PROVE DiskInv'
  <2>1. \A j \in Invocations : proc'[j] = proc[j] \/ ~At(j, Claiming)'
        BY <1>8 DEF Crash, StepFails, Go, At, Claiming, TypeOK, Proc
  <2> QED BY <1>8, <2>1, QuietStep DEF Crash, StepFails, disk
<1> QED BY <1>1, <1>2, <1>3, <1>4, <1>5, <1>6, <1>7, <1>8 DEF Next

-----------------------------------------------------------------------------
LEMMA InitInv == Init => IInv
<1> SUFFICES ASSUME Init PROVE IInv
    OBVIOUS
<1>1. TypeOK
      BY InitType
<1>2. \A i \in Invocations : proc[i].at = "new" /\ proc[i].r = NoReceipt
      BY DEF Init
<1>3. /\ live = Original /\ raced = {} /\ lock = NoLock
      /\ \A r \in Receipts : /\ receipt[r] = "absent" /\ superseded[r] = NoDir
                            /\ failed[r] = NoDir
      BY DEF Init
<1>4. \A r \in Receipts : ~Covered(r) /\ live # r /\ r # NoDir
      BY <1>3, InstallerAssumption DEF Covered
<1>5. Started
      BY <1>2, <1>3 DEF Started, At
<1>6. HoldersOwnLock /\ StaleOwnersGone
      BY <1>2 DEF HoldersOwnLock, StaleOwnersGone, At, Holding
<1>7. Shelves
      BY <1>3, <1>4 DEF Shelves, Top
<1>8. Verdicts
      BY <1>3, InstallerAssumption DEF Verdicts, MissingRootIsRecoverable, CertifiedIsKept
<1>9. StepInv
      BY <1>2 DEF StepInv, At
<1> QED BY <1>1, <1>5, <1>6, <1>7, <1>8, <1>9 DEF IInv

LEMMA Invariance == Spec => []IInv
<1>1. IInv /\ [Next]_vars => IInv'
      BY TypeStep, StartedStep, LockInvStep, DiskInvStep DEF IInv, LockInv, DiskInv
<1> QED BY InitInv, <1>1, PTL DEF Spec

-----------------------------------------------------------------------------
(* Every variable keeps its type, whatever crashes. *)
THEOREM TypeCorrect == Spec => []TypeOK
<1>1. IInv => TypeOK
      BY DEF IInv
<1> QED BY Invariance, <1>1, PTL

(* acquireLock and releaseLock let one invocation in at a time, however    *)
(* many run and are killed, unless two of them reclaim the same stale lock *)
(* and the slower one unlinks the faster one's.                            *)
THEOREM LockIsExclusive == Spec => []OneHolder
<1>1. IInv => OneHolder
      BY HoldersAreOne DEF IInv, LockInv, OneHolder
<1> QED BY Invariance, <1>1, PTL

(* Whenever the live root is missing, an armed journal names the source to *)
(* put back and that source is in its place (promote, rollbackSwap and     *)
(* recover, interrupted between any two renames), for any number of        *)
(* promotions and invocations none of which was in another's way (raced).  *)
THEOREM RootIsRecoverable == Spec => []MissingRootIsRecoverable
<1>1. IInv => MissingRootIsRecoverable
      BY DEF IInv, Verdicts
<1> QED BY Invariance, <1>1, PTL

(* A directory that a PASS receipt certifies stays live or is kept by the  *)
(* promotion that superseded it (the order of Commit and of the renames),  *)
(* unless invocations were in each other's way (raced).                    *)
THEOREM CertifiedKept == Spec => []CertifiedIsKept
<1>1. IInv => CertifiedIsKept
      BY DEF IInv, Verdicts
<1> QED BY Invariance, <1>1, PTL

(* recover never meets a displaced source it would refuse to put back      *)
(* because of what an earlier rollback or recovery left behind, unless     *)
(* invocations were in each other's way (raced).                           *)
THEOREM JournalsConsumable == Spec => []JournalsCanBeConsumed
<1>1. IInv => JournalsCanBeConsumed
  <2> SUFFICES ASSUME IInv, raced = {}, NEW r \in Receipts,
                      receipt[r] = "armed", superseded[r] # NoDir
               PROVE  superseded[r] = plan[r].prior /\ (live # NoDir => failed[r] = NoDir)
      BY DEF JournalsCanBeConsumed
  <2>1. superseded[r] = plan[r].prior
        BY DEF IInv, Shelves
  <2>2. ASSUME live # NoDir, failed[r] # NoDir PROVE FALSE
    <3>1. live # r /\ ~Covered(r)
          BY <2>2 DEF IInv, Shelves
    <3> QED BY <2>2, <3>1 DEF IInv, Shelves, Top
  <2> QED BY <2>1, <2>2
<1> QED BY Invariance, <1>1, PTL
=============================================================================
