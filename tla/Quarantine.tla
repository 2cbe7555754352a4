------------------------------ MODULE Quarantine ------------------------------
(***************************************************************************)
(* lib/untracked-quarantine.mjs, scripts/untracked-quarantine-fs.py and    *)
(* the ledger that lib/operation-guard.mjs keeps of their operations:      *)
(* untracked paths are inspected, copied, captured and restored by         *)
(* processes that may die at any step, beside a user who edits the same    *)
(* paths and beside each other.                                            *)
(*                                                                         *)
(* A path holds one of Contents or None; what git status tells is which    *)
(* paths hold something.  Admission by authority, workspace identity and   *)
(* lifecycle refuses a call and changes nothing: it is the choice not to   *)
(* take Admit...                                                           *)
(***************************************************************************)
EXTENDS Naturals

CONSTANTS Ops, Paths, Contents, None,
          Calls,     \* tool calls in progress at once
          MaxEdits,  \* bound on the user's edits
          MaxCalls   \* bound on the calls admitted, retries included

ASSUME QuarantineAssumption == None \notin Contents \cup Ops \cup Paths /\ {MaxEdits, MaxCalls} \subseteq Nat

VARIABLES
    ws,        \* content of each path of the workspace
    data,      \* <id>/data: the verified copy of an operation
    receipt,   \* <id>/receipt.json
    capture,   \* the capture root of each operation
    staging,   \* marker and staged copy of a restore, for each operation and path
    ledger,    \* the guard's ledger
    call,      \* the tool calls: before-hook, process, after-hook
    user,      \* what the user last put at each path, or was given back
    raced,     \* paths changed between a check of a helper and its rename
    edits,     \* edits so far
    calls      \* calls admitted so far

fs == <<ws, data, receipt, capture, staging>>
ghosts == <<user, raced, edits>>
vars == <<fs, ledger, call, calls, ghosts>>

Trees == [Paths -> Contents \cup {None}]
Nothing == [p \in Paths |-> None]
On(tree, S) == [p \in Paths |-> IF p \in S THEN tree[p] ELSE None]
Present(tree) == {p \in Paths : tree[p] # None}

NoReceipt == [kind |-> "none", paths |-> {}, before |-> {}, inv |-> Nothing]
Torn == [NoReceipt EXCEPT !.kind = "torn"]
Receipts == [kind : {"none", "torn", "whole"}, paths : SUBSET Paths,
             before : SUBSET Paths, inv : Trees]

NoEntry == [phase |-> "none", paths |-> {}, before |-> {}, inv |-> Nothing]
Entries == [phase : {"none", "inspected", "quarantined", "restored"},
            paths : SUBSET Paths, before : SUBSET Paths, inv : Trees]

Running == {"start", "stage", "receipt", "path", "rename", "verify", "putback",
            "fill", "publish", "settle", "clear"}
Free == [at |-> "free", action |-> "inspect", op |-> None, pending |-> FALSE,
         entry |-> NoEntry, todo |-> {}, path |-> None,
         read |-> [o \in Ops |-> NoEntry]]
CallRecords ==
    [at : Running \cup {"free", "pass", "read"}, action : {"inspect", "quarantine", "restore"},
     op : Ops \cup {None}, pending : BOOLEAN, entry : Entries, todo : SUBSET Paths, path : Paths \cup {None},
     read : [Ops -> Entries]]

TypeOK ==
    /\ ws \in Trees /\ data \in [Ops -> Trees] /\ receipt \in [Ops -> Receipts]
    /\ capture \in [Ops -> Trees]
    /\ staging \in [Ops -> [Paths -> {"none", "marked", "partial", "full"}]]
    /\ ledger \in [Ops -> Entries] /\ call \in [Calls -> CallRecords]
    /\ user \in Trees /\ raced \subseteq Paths /\ edits \in 0..MaxEdits /\ calls \in 0..MaxCalls

Init ==
    /\ ws \in Trees /\ user = ws /\ raced = {} /\ edits = 0 /\ calls = 0
    /\ data = [o \in Ops |-> Nothing] /\ receipt = [o \in Ops |-> NoReceipt]
    /\ capture = [o \in Ops |-> Nothing]
    /\ staging = [o \in Ops |-> [p \in Paths |-> "none"]]
    /\ ledger = [o \in Ops |-> NoEntry] /\ call = [c \in Calls |-> Free]

-----------------------------------------------------------------------------
(* tool.execute.before: the process of an admitted call starts. *)
Admit(c, action, o, entry) ==
    /\ call[c].at = "free" /\ calls < MaxCalls /\ calls' = calls + 1
    /\ call' = [call EXCEPT ![c] =
           [Free EXCEPT !.at = "start", !.action = action, !.op = o, !.pending = TRUE,
                        !.entry = entry, !.todo = entry.paths]]
    /\ UNCHANGED <<fs, ledger, ghosts>>

(* The guard inspects for itself and keeps its own evidence. *)
AdmitInspect(c, o, S) ==
    /\ ledger[o] = NoEntry /\ S # {} /\ S \subseteq Present(ws)
    /\ Admit(c, "inspect", o,
             [phase |-> "inspected", paths |-> S, before |-> Present(ws), inv |-> On(ws, S)])

AdmitQuarantine(c, o) ==
    /\ ledger[o].phase \in {"inspected", "quarantined"}
    /\ Admit(c, "quarantine", o, ledger[o])

(* The destination is empty or already holds what the receipt says. *)
Restorable(o) ==
    /\ receipt[o].kind = "whole" /\ data[o] = receipt[o].inv
    /\ \A p \in receipt[o].paths : ws[p] \in {None, receipt[o].inv[p]}

AdmitRestore(c, o) ==
    /\ ledger[o].phase = "quarantined" /\ Restorable(o)
    /\ Admit(c, "restore", o, ledger[o])

Does(c, at, action) == call[c].at = at /\ call[c].action = action

(* What a helper renames, it has checked before: another helper that       *)
(* renames the same path in between races it, and a user who puts          *)
(* something where the helper is about to rename to.                       *)
Between(c, p) == call[c].path = p /\ call[c].at \in {"rename", "putback", "fill", "publish"}
Window(c, p) == Between(c, p) /\ call[c].at # "fill" /\ ~Does(c, "rename", "quarantine")
Renames(c, p) ==
    raced' = IF \E k \in Calls \ {c} : Between(k, p) THEN raced \cup {p} ELSE raced
Go(c, at) == call' = [call EXCEPT ![c].at = at]
(* BLOCKED, or a process that dies: its result is of no use to the guard.  *)
Stop(c) == call' = [call EXCEPT ![c] = Free]

-----------------------------------------------------------------------------
(* The process of inspect changes nothing. *)
InspectPasses(c) ==
    /\ Does(c, "start", "inspect") /\ call[c].entry.paths \subseteq Present(ws)
    /\ Go(c, "pass")
    /\ UNCHANGED <<fs, ledger, calls, ghosts>>

(* quarantine: resume from a receipt, or check what was inspected. *)
SameEvidence(a, b) == a.paths = b.paths /\ a.before = b.before /\ a.inv = b.inv
Backed(o) == receipt[o].kind = "whole" /\ data[o] = receipt[o].inv

QuarantineResumes(c) ==
    LET o == call[c].op
    IN  /\ Does(c, "start", "quarantine")
        /\ Backed(o) /\ SameEvidence(receipt[o], call[c].entry)
        /\ Go(c, "path")
        /\ UNCHANGED <<fs, ledger, calls, ghosts>>

SourceUnchanged(c) ==
    /\ Present(ws) = call[c].entry.before
    /\ On(ws, call[c].entry.paths) = call[c].entry.inv

QuarantineStarts(c) ==
    /\ Does(c, "start", "quarantine")
    /\ receipt[call[c].op].kind = "none" /\ SourceUnchanged(c)
    /\ Go(c, "stage")
    /\ UNCHANGED <<fs, ledger, calls, ghosts>>

(* Copy, verify the copy, rename it to data; data that is there must match. *)
Stage(c) ==
    LET o == call[c].op
    IN  /\ Does(c, "stage", "quarantine")
        /\ \/ data[o] = Nothing /\ On(ws, call[c].entry.paths) = call[c].entry.inv
           \/ data[o] = call[c].entry.inv
        /\ data' = [data EXCEPT ![o] = call[c].entry.inv]
        /\ Go(c, "receipt")
        /\ UNCHANGED <<ws, receipt, capture, staging, ledger, calls, ghosts>>

(* An exclusive create; a receipt that is there must be the same one.      *)
WriteReceipt(c) ==
    LET o == call[c].op
        e == call[c].entry
        r == [kind |-> "whole", paths |-> e.paths, before |-> e.before, inv |-> e.inv]
    IN  /\ Does(c, "receipt", "quarantine") /\ receipt[o] \in {NoReceipt, r}
        /\ receipt' = [receipt EXCEPT ![o] = r]
        /\ Go(c, "path")
        /\ UNCHANGED <<ws, data, capture, staging, ledger, calls, ghosts>>

(* Killed between the create and the end of the write. *)
TearReceipt(c) ==
    /\ Does(c, "receipt", "quarantine") /\ receipt[call[c].op] = NoReceipt
    /\ receipt' = [receipt EXCEPT ![call[c].op] = Torn]
    /\ Stop(c)
    /\ UNCHANGED <<ws, data, capture, staging, ledger, calls, ghosts>>

-----------------------------------------------------------------------------
(* capture_path, one path at a time. *)
Next1(c, p) == call' = [call EXCEPT ![c].at = "path", ![c].path = None, ![c].todo = @ \ {p}]
Turn(c, at, p) == call' = [call EXCEPT ![c].at = at, ![c].path = p]

CapturePath(c, p) ==
    LET o == call[c].op
        inv == call[c].entry.inv
    IN  /\ Does(c, "path", "quarantine") /\ p \in call[c].todo
        /\ \/ ws[p] = None /\ capture[o][p] \in {None, inv[p]} /\ Next1(c, p)
           \/ ws[p] # None /\ capture[o][p] = None /\ Turn(c, "rename", p)
        /\ UNCHANGED <<fs, ledger, calls, ghosts>>

(* The object moves, whatever it is by now. *)
CaptureRenames(c) ==
    LET o == call[c].op
        p == call[c].path
    IN  /\ Does(c, "rename", "quarantine") /\ ws[p] # None
        /\ capture' = [capture EXCEPT ![o][p] = ws[p]]
        /\ ws' = [ws EXCEPT ![p] = None]
        /\ Renames(c, p)
        /\ Go(c, "verify")
        /\ UNCHANGED <<data, receipt, staging, ledger, calls, user, edits>>

CaptureVerifies(c) ==
    LET o == call[c].op
        p == call[c].path
    IN  /\ Does(c, "verify", "quarantine")
        /\ IF capture[o][p] = call[c].entry.inv[p] THEN Next1(c, p)
           ELSE IF ws[p] = None THEN Go(c, "putback")
           ELSE Stop(c)
        /\ UNCHANGED <<fs, ledger, calls, ghosts>>

(* Mutant: what does not match the receipt is dropped. *)
CaptureDrops(c) ==
    /\ Does(c, "putback", "quarantine")
    /\ capture' = [capture EXCEPT ![call[c].op][call[c].path] = None]
    /\ Stop(c)
    /\ UNCHANGED <<ws, data, receipt, staging, ledger, calls, ghosts>>

CapturePutsBack(c) ==
    LET o == call[c].op
        p == call[c].path
    IN  /\ Does(c, "putback", "quarantine")
        /\ IF capture[o][p] = None THEN UNCHANGED <<fs, raced>>
           ELSE /\ ws' = [ws EXCEPT ![p] = capture[o][p]]
                /\ capture' = [capture EXCEPT ![o][p] = None]
                /\ Renames(c, p)
                /\ UNCHANGED <<data, receipt, staging>>
        /\ Stop(c)
        /\ UNCHANGED <<ledger, calls, user, edits>>

(* Nothing left to capture: the status must be the one computed before. *)
QuarantinePasses(c) ==
    LET e == call[c].entry
    IN  /\ Does(c, "path", "quarantine") /\ call[c].todo = {}
        /\ Present(ws) = e.before \ e.paths
        /\ Go(c, "pass")
        /\ UNCHANGED <<fs, ledger, calls, ghosts>>

-----------------------------------------------------------------------------
(* restore checks the receipt, the copy and the destinations once more. *)
RestoreStarts(c) ==
    /\ Does(c, "start", "restore") /\ Restorable(call[c].op)
    /\ Go(c, "path")
    /\ UNCHANGED <<fs, ledger, calls, ghosts>>

(* restore_path: already there, or renamed from the capture, or copied.    *)
RestorePath(c, p) ==
    LET o == call[c].op
        inv == call[c].entry.inv
    IN  /\ Does(c, "path", "restore") /\ p \in call[c].todo
        /\ \/ /\ ws[p] = inv[p] /\ capture[o][p] = None
              /\ staging[o][p] \in {"none", "marked"}
              /\ staging' = [staging EXCEPT ![o][p] = "none"]
              /\ Next1(c, p)
           \/ /\ ws[p] = None /\ capture[o][p] = inv[p]
              /\ Turn(c, "rename", p) /\ UNCHANGED staging
           \/ /\ ws[p] = None /\ capture[o][p] = None
              /\ staging' = [staging EXCEPT ![o][p] = IF @ = "none" THEN "marked" ELSE @]
              /\ Turn(c, "fill", p)
        /\ UNCHANGED <<ws, data, receipt, capture, ledger, calls, ghosts>>

(* A rename that replaces whatever has come to the destination. *)
Publishes(c, p, content) ==
    /\ ws' = [ws EXCEPT ![p] = content]
    /\ user' = [user EXCEPT ![p] = content]
    /\ Renames(c, p)
    /\ UNCHANGED edits

(* Mutant: the capture is copied back and stays. *)
RestoreCopies(c) ==
    LET o == call[c].op
        p == call[c].path
    IN  /\ Does(c, "rename", "restore") /\ capture[o][p] # None
        /\ Publishes(c, p, capture[o][p])
        /\ Go(c, "settle")
        /\ UNCHANGED <<data, receipt, capture, staging, ledger, calls>>

RestoreRenames(c) ==
    LET o == call[c].op
        p == call[c].path
    IN  /\ Does(c, "rename", "restore") /\ capture[o][p] # None
        /\ Publishes(c, p, capture[o][p])
        /\ capture' = [capture EXCEPT ![o][p] = None]
        /\ Go(c, "settle")
        /\ UNCHANGED <<data, receipt, staging, ledger, calls>>

(* An incomplete staged copy is removed; the copy is made and verified.    *)
RestoreFills(c) ==
    LET o == call[c].op
        p == call[c].path
        s == staging[o][p]
    IN  /\ Does(c, "fill", "restore") /\ s # "none"
        /\ staging' = [staging EXCEPT ![o][p] = IF s = "marked" THEN "partial" ELSE "full"]
        /\ IF s = "full" /\ ws[p] = None THEN Go(c, "publish") ELSE UNCHANGED call
        /\ s = "full" => ws[p] = None
        /\ UNCHANGED <<ws, data, receipt, capture, ledger, calls, ghosts>>

RestorePublishes(c) ==
    LET o == call[c].op
        p == call[c].path
    IN  /\ Does(c, "publish", "restore") /\ staging[o][p] = "full"
        /\ Publishes(c, p, call[c].entry.inv[p])
        /\ staging' = [staging EXCEPT ![o][p] = "marked"]
        /\ Go(c, "clear")
        /\ UNCHANGED <<data, receipt, capture, ledger, calls>>

(* What was renamed is verified; after a copy the marker is cleared, which  *)
(* a rename from the capture leaves to a later restore.                     *)
Cleared(mark) == IF mark = "marked" THEN "none" ELSE mark

RestoreSettles(c) ==
    LET o == call[c].op
        p == call[c].path
    IN  /\ call[c].at \in {"settle", "clear"} /\ call[c].action = "restore"
        /\ ws[p] = call[c].entry.inv[p]
        /\ staging' = IF call[c].at = "settle" THEN staging
                      ELSE [staging EXCEPT ![o][p] = Cleared(@)]
        /\ Next1(c, p)
        /\ UNCHANGED <<ws, data, receipt, capture, ledger, calls, ghosts>>

RestorePasses(c) ==
    LET e == call[c].entry
    IN  /\ Does(c, "path", "restore") /\ call[c].todo = {}
        /\ On(ws, e.paths) = e.inv
        /\ Go(c, "pass")
        /\ UNCHANGED <<fs, ledger, calls, ghosts>>

(* Any check of a process fails, or it is killed: what it did stays. *)
ProcessStops(c) ==
    /\ call[c].at \in Running /\ Stop(c)
    /\ UNCHANGED <<fs, ledger, calls, ghosts>>

-----------------------------------------------------------------------------
(* tool.execute.after: the ledger is read, the result is checked against   *)
(* the files, and the whole ledger is written back.                        *)
(* Mutant: the result of a restore is recorded whatever the ledger says. *)
LedgerAdmitsRestores(c, l) ==
    LET e == call[c].entry
        mine == l[call[c].op]
    IN  CASE call[c].action = "inspect" -> mine = NoEntry
          [] call[c].action = "quarantine" ->
                /\ mine # NoEntry /\ Backed(call[c].op)
                /\ SameEvidence(mine, receipt[call[c].op])
                /\ Present(ws) = mine.before \ mine.paths
          [] call[c].action = "restore" -> On(ws, e.paths) = e.inv

LedgerAdmits(c, l) ==
    LET e == call[c].entry
        mine == l[call[c].op]
    IN  CASE call[c].action = "inspect" -> mine = NoEntry
          [] call[c].action = "quarantine" ->
                /\ mine # NoEntry /\ Backed(call[c].op)
                /\ SameEvidence(mine, receipt[call[c].op])
                /\ Present(ws) = mine.before \ mine.paths
          [] call[c].action = "restore" ->
                mine.phase = "quarantined" /\ On(ws, e.paths) = e.inv

AfterReads(c) ==
    /\ call[c].at = "pass" /\ call[c].pending /\ LedgerAdmits(c, ledger)
    /\ call' = [call EXCEPT ![c].at = "read", ![c].read = ledger]
    /\ UNCHANGED <<fs, ledger, calls, ghosts>>

Advanced(c) ==
    LET phase == [inspect |-> "inspected", quarantine |-> "quarantined", restore |-> "restored"]
        old == IF call[c].action = "inspect" THEN call[c].entry ELSE call[c].read[call[c].op]
    IN  [old EXCEPT !.phase = phase[call[c].action]]

AfterWrites(c) ==
    /\ call[c].at = "read"
    /\ ledger' = [call[c].read EXCEPT ![call[c].op] = Advanced(c)]
    /\ Stop(c)
    /\ UNCHANGED <<fs, calls, ghosts>>

AfterRefuses(c) ==
    /\ call[c].at = "pass" /\ (call[c].pending => ~LedgerAdmits(c, ledger))
    /\ Stop(c)
    /\ UNCHANGED <<fs, ledger, calls, ghosts>>

(* chat.message brings another authority: pending calls are forgotten, and *)
(* their processes and the hooks that already read the ledger run on.      *)
AuthorityChanges ==
    /\ \E c \in Calls : call[c].pending /\ call[c].at # "read"
    /\ call' = [c \in Calls |->
           IF call[c].at = "read" THEN call[c] ELSE [call[c] EXCEPT !.pending = FALSE]]
    /\ UNCHANGED <<fs, ledger, calls, ghosts>>

(* The plugin restarts: the hooks end as well. *)
PluginRestarts ==
    /\ \E c \in Calls : call[c].at = "read"
    /\ call' = [c \in Calls |->
           IF call[c].at = "read" THEN Free ELSE [call[c] EXCEPT !.pending = FALSE]]
    /\ UNCHANGED <<fs, ledger, calls, ghosts>>

(* The user writes or deletes a path. *)
Edit(p, content) ==
    /\ edits < MaxEdits /\ edits' = edits + 1 /\ ws[p] # content
    /\ ws' = [ws EXCEPT ![p] = content] /\ user' = [user EXCEPT ![p] = content]
    /\ raced' = IF \E c \in Calls : Window(c, p) THEN raced \cup {p} ELSE raced
    /\ UNCHANGED <<data, receipt, capture, staging, ledger, call, calls>>

QuarantineStep(c) ==
    \/ QuarantineResumes(c) \/ QuarantineStarts(c) \/ Stage(c)
    \/ WriteReceipt(c) \/ TearReceipt(c)
    \/ \E p \in Paths : CapturePath(c, p)
    \/ CaptureRenames(c) \/ CaptureVerifies(c) \/ CapturePutsBack(c) \/ QuarantinePasses(c)
RestoreStep(c) ==
    \/ RestoreStarts(c) \/ RestoreRenames(c) \/ RestoreFills(c)
    \/ \E p \in Paths : RestorePath(c, p)
    \/ RestorePublishes(c) \/ RestoreSettles(c) \/ RestorePasses(c)
HookStep(c) ==
    \/ \E o \in Ops, S \in SUBSET Paths : AdmitInspect(c, o, S)
    \/ \E o \in Ops : AdmitQuarantine(c, o) \/ AdmitRestore(c, o)
    \/ AfterReads(c) \/ AfterWrites(c) \/ AfterRefuses(c)

Next ==
    \/ \E c \in Calls : HookStep(c) \/ InspectPasses(c) \/ QuarantineStep(c)
                          \/ RestoreStep(c) \/ ProcessStops(c)
    \/ AuthorityChanges \/ PluginRestarts
    \/ \E p \in Paths, content \in Contents \cup {None} : Edit(p, content)

Spec == Init /\ [][Next]_vars

-----------------------------------------------------------------------------
(* What the user left at a path, or was given back there, is still there   *)
(* or in a capture root, whoever dies or edits when: no helper destroys it *)
(* except by a rename that raced another one or an edit of the same path   *)
(* after its last check.                                                   *)
ContentIsConserved ==
    \A p \in Paths \ raced : user[p] # None =>
        ws[p] = user[p] \/ \E o \in Ops : capture[o][p] = user[p]

(* As long as the user edits nothing, a file that at most one operation    *)
(* has copied is in exactly one place, the workspace or that operation's   *)
(* capture root, whichever process dies where and however often it is      *)
(* tried again; except a file that two helpers renamed at once (raced).    *)
OnePlace ==
    edits = 0 => \A p \in Paths \ raced, o \in Ops :
        user[p] # None /\ (\A k \in Ops \ {o} : data[k][p] = None) =>
            /\ \A k \in Ops \ {o} : capture[k][p] = None
            /\ (ws[p] = None) # (capture[o][p] = None)

(* A restore is only ever admitted for an operation whose receipt and copy *)
(* are whole and are the ones that were authenticated.                     *)
QuarantinedIsBacked ==
    \A o \in Ops : ledger[o].phase \in {"quarantined", "restored"} =>
        Backed(o) /\ SameEvidence(ledger[o], receipt[o])

(* README: the ledger is persisted and operation ids cannot be reused.     *)
LedgerKeepsOperations == [][\A o \in Ops : ledger[o] # NoEntry => ledger'[o] # NoEntry]_vars
=============================================================================
