---------------------------- MODULE QuarantineProofs ----------------------------
(***************************************************************************)
(* Theorems about Quarantine, for any sets of operations, paths, contents  *)
(* and calls and any number of edits and retries.                          *)
(***************************************************************************)
EXTENDS Quarantine, TLAPS

-----------------------------------------------------------------------------
(* The parts of the invariant, as operators of the stores they are about:  *)
(* D the copies, R the receipts, K the capture roots, W the workspace.     *)

Real(e) == e.paths # {} /\ \A p \in e.paths : e.inv[p] # None

Whole(o, D, R) == R[o].kind = "whole" /\ D[o] = R[o].inv

(* What the ledger, or a copy of it in a hook, may say of an operation. *)
Known(e, o, D, R) ==
    /\ e = NoEntry \/ Real(e)
    /\ e.phase \in {"quarantined", "restored"} => Whole(o, D, R) /\ SameEvidence(e, R[o])

(* What a call remembers is what its operation has on disk. *)
CallWell(r, D, R) ==
    r.at # "free" =>
        /\ r.op \in Ops /\ Real(r.entry) /\ r.todo \subseteq r.entry.paths
        /\ r.at \in {"rename", "verify", "putback", "fill", "publish", "settle", "clear"} =>
              r.path \in r.entry.paths
        /\ r.action = "quarantine" /\ r.at \in {"receipt", "path", "rename", "verify", "putback"} =>
              D[r.op] = r.entry.inv
        /\ r.action = "restore" => Whole(r.op, D, R) /\ SameEvidence(r.entry, R[r.op])
        /\ r.at = "read" =>
              /\ \A o \in Ops : Known(r.read[o], o, D, R)
              /\ r.action = "quarantine" =>
                    /\ r.read[r.op] # NoEntry
                    /\ Whole(r.op, D, R) /\ SameEvidence(r.read[r.op], R[r.op])
              /\ r.action = "restore" => r.read[r.op].phase = "quarantined"

(* What a helper has checked is still so, unless its path was raced. *)
CallClear(r, W, K, x, n) ==
    r.path \in Paths \ x =>
        /\ r.at = "rename" /\ r.action = "quarantine" => K[r.op][r.path] = None
        /\ r.at \in {"putback", "publish"} \/ (r.at = "rename" /\ r.action # "quarantine") =>
              W[r.path] = None
        /\ n = 0 /\ r.at \in {"fill", "publish"} => W[r.path] = None /\ K[r.op][r.path] = None

ReceiptsBacked == \A o \in Ops : receipt[o].kind = "whole" => data[o] = receipt[o].inv /\ data[o] # Nothing
CapturesCopied == \A o \in Ops, p \in Paths : capture[o][p] # None => data[o][p] # None
AbsentUnheld ==
    edits = 0 => \A p \in Paths : user[p] = None =>
        ws[p] = None /\ \A o \in Ops : capture[o][p] = None /\ data[o][p] = None

Stores ==
    /\ ReceiptsBacked /\ CapturesCopied /\ AbsentUnheld /\ ContentIsConserved /\ OnePlace
    /\ \A o \in Ops : Known(ledger[o], o, data, receipt)
CallOK(c) ==
    CallWell(call[c], data, receipt) /\ CallClear(call[c], ws, capture, raced, edits)

IInv == TypeOK /\ Stores /\ \A c \in Calls : CallOK(c)

-----------------------------------------------------------------------------
LEMMA ConstantTypes ==
    /\ MaxEdits \in Nat /\ MaxCalls \in Nat
    /\ None \notin Contents /\ None \notin Ops /\ None \notin Paths
  BY QuarantineAssumption

LEMMA Nothings ==
    /\ Nothing \in Trees /\ NoReceipt \in Receipts /\ Torn \in Receipts
    /\ NoEntry \in Entries /\ Free \in CallRecords
    /\ Torn.kind = "torn" /\ Free.at = "free" /\ NoEntry.phase = "none"
  <1>1. Nothing \in Trees
    BY DEF Nothing, Trees
  <1>2. NoReceipt \in Receipts /\ Torn \in Receipts /\ Torn.kind = "torn"
    BY <1>1 DEF NoReceipt, Torn, Receipts
  <1>3. NoEntry \in Entries /\ NoEntry.phase = "none"
    BY <1>1 DEF NoEntry, Entries
  <1>4. [o \in Ops |-> NoEntry] \in [Ops -> Entries]
    BY <1>3
  <1>5. Free \in CallRecords /\ Free.at = "free"
    BY <1>3, <1>4 DEF Free, CallRecords
  <1>. QED BY <1>1, <1>2, <1>3, <1>5

(* The ways in which the record of a call changes. *)
Others(c) == \A k \in Calls \ {c} : call'[k] = call[k]

LEMMA Replaced ==
  ASSUME TypeOK, NEW c \in Calls, NEW r \in CallRecords, call' = [call EXCEPT ![c] = r]
  PROVE  call' \in [Calls -> CallRecords] /\ call'[c] = r /\ Others(c)
  BY DEF TypeOK, Others

LEMMA Stops ==
  ASSUME TypeOK, NEW c \in Calls, Stop(c)
  PROVE  call' \in [Calls -> CallRecords] /\ call'[c] = Free /\ Others(c)
  BY Nothings, Replaced DEF Stop

LEMMA Goes ==
  ASSUME TypeOK, NEW c \in Calls, NEW at \in Running \cup {"free", "pass", "read"}, Go(c, at)
  PROVE  /\ call' \in [Calls -> CallRecords] /\ Others(c)
         /\ call'[c] = [call[c] EXCEPT !.at = at]
  <1>1. call[c] \in CallRecords
    BY DEF TypeOK
  <1>2. [call[c] EXCEPT !.at = at] \in CallRecords
    BY <1>1 DEF CallRecords
  <1>3. call' = [call EXCEPT ![c] = [call[c] EXCEPT !.at = at]]
    BY DEF Go
  <1>. QED BY <1>2, <1>3, Replaced

LEMMA Turns ==
  ASSUME TypeOK, NEW c \in Calls, NEW p \in Paths, NEW at \in Running, Turn(c, at, p)
  PROVE  /\ call' \in [Calls -> CallRecords] /\ Others(c)
         /\ call'[c] = [call[c] EXCEPT !.at = at, !.path = p]
  <1>1. call[c] \in CallRecords
    BY DEF TypeOK
  <1>2. [call[c] EXCEPT !.at = at, !.path = p] \in CallRecords
    BY <1>1 DEF CallRecords
  <1>3. call' = [call EXCEPT ![c] = [call[c] EXCEPT !.at = at, !.path = p]]
    BY DEF Turn, TypeOK
  <1>. QED BY <1>2, <1>3, Replaced

LEMMA Nexts ==
  ASSUME TypeOK, NEW c \in Calls, NEW p, Next1(c, p)
  PROVE  /\ call' \in [Calls -> CallRecords] /\ Others(c)
         /\ call'[c] = [call[c] EXCEPT !.at = "path", !.path = None, !.todo = @ \ {p}]
  <1>1. call[c] \in CallRecords
    BY DEF TypeOK
  <1>2. [call[c] EXCEPT !.at = "path", !.path = None, !.todo = @ \ {p}] \in CallRecords
    BY <1>1 DEF CallRecords, Running
  <1>3. call' = [call EXCEPT ![c] = [call[c] EXCEPT !.at = "path", !.path = None, !.todo = @ \ {p}]]
    BY DEF Next1, TypeOK
  <1>. QED BY <1>2, <1>3, Replaced

-----------------------------------------------------------------------------
(* Copies and whole receipts only grow. *)
Grows(D, R) ==
    /\ \A o \in Ops : D[o] = data[o] \/ data[o] = Nothing
    /\ \A o \in Ops : receipt[o].kind = "whole" => R[o] = receipt[o]

LEMMA WholeStays ==
  ASSUME ReceiptsBacked, NEW D, NEW R, Grows(D, R), NEW o \in Ops, Whole(o, data, receipt)
  PROVE  Whole(o, D, R) /\ R[o] = receipt[o] /\ D[o] = data[o]
  BY DEF ReceiptsBacked, Grows, Whole

LEMMA KnownStays ==
  ASSUME ReceiptsBacked, NEW D, NEW R, Grows(D, R), NEW o \in Ops, NEW e,
         Known(e, o, data, receipt)
  PROVE  Known(e, o, D, R)
  BY WholeStays DEF Known

LEMMA RealIsSome ==
  ASSUME NEW e \in Entries, Real(e)
  PROVE  e.inv # Nothing /\ e.inv \in Trees
  BY DEF Real, Nothing, Entries

LEMMA WellStays ==
  ASSUME ReceiptsBacked, NEW D, NEW R, Grows(D, R), NEW r \in CallRecords,
         CallWell(r, data, receipt)
  PROVE  CallWell(r, D, R)
  <1>1. SUFFICES ASSUME r.at # "free" PROVE CallWell(r, D, R)
    BY DEF CallWell
  <1>2. r.op \in Ops /\ Real(r.entry) /\ r.entry \in Entries
    BY <1>1 DEF CallWell, CallRecords
  <1>3. D[r.op] = data[r.op] \/ data[r.op] = Nothing
    BY <1>2 DEF Grows
  <1>4. r.entry.inv # Nothing
    BY <1>2, RealIsSome
  <1>5. Whole(r.op, data, receipt) => Whole(r.op, D, R) /\ R[r.op] = receipt[r.op]
    BY <1>2, WholeStays
  <1>6. \A o \in Ops : Known(r.read[o], o, data, receipt) => Known(r.read[o], o, D, R)
    BY KnownStays
  <1>. QED BY <1>1, <1>2, <1>3, <1>4, <1>5, <1>6 DEF CallWell

(* A path that a call is about to rename changes under its feet only when  *)
(* it becomes raced.                                                       *)
At(r, p) == r.path = p /\ r.at \in {"rename", "putback", "fill", "publish"}
Keeps(r, W, K, x, n) ==
    \A p \in Paths \ x : At(r, p) =>
        /\ \A o \in Ops : K[o][p] = capture[o][p]
        /\ n = 0 \/ (r.at # "fill" /\ ~(r.at = "rename" /\ r.action = "quarantine"))
              => W[p] = ws[p]

LEMMA ClearStays ==
  ASSUME NEW r \in CallRecords, CallWell(r, data, receipt), CallClear(r, ws, capture, raced, edits),
         NEW W, NEW K, NEW x, NEW n, raced \subseteq x, n = 0 => edits = 0, Keeps(r, W, K, x, n)
  PROVE  CallClear(r, W, K, x, n)
  <1>1. SUFFICES ASSUME r.path \in Paths \ x, r.at # "free"
                 PROVE  CallClear(r, W, K, x, n)
    BY DEF CallClear
  <1>2. r.op \in Ops /\ r.path \in Paths \ raced
    BY <1>1 DEF CallWell
  <1>. QED BY <1>1, <1>2 DEF CallClear, Keeps, At

LEMMA OtherCalls ==
  ASSUME IInv, NEW c \in Calls, Others(c), Grows(data', receipt'),
         raced \subseteq raced', edits' = 0 => edits = 0,
         \A k \in Calls \ {c} : Keeps(call[k], ws', capture', raced', edits')
  PROVE  \A k \in Calls \ {c} : CallOK(k)'
  <1>1. TAKE k \in Calls \ {c}
  <1>2. call[k] \in CallRecords /\ CallOK(k) /\ call'[k] = call[k] /\ ReceiptsBacked
    BY DEF IInv, TypeOK, Others, Stores
  <1>3. CallWell(call[k], data', receipt')
    BY <1>2, WellStays DEF CallOK
  <1>4. CallClear(call[k], ws', capture', raced', edits')
    BY <1>2, ClearStays DEF CallOK
  <1>. QED BY <1>2, <1>3, <1>4 DEF CallOK

LEMMA NothingGrows ==
  ASSUME UNCHANGED <<data, receipt>>
  PROVE  Grows(data', receipt')
  BY DEF Grows

(* Steps that change a call, and at most a staged copy. *)
LEMMA QuietStep ==
  ASSUME IInv, NEW c \in Calls, Others(c), call' \in [Calls -> CallRecords],
         staging' \in [Ops -> [Paths -> {"none", "marked", "partial", "full"}]],
         calls' \in 0..MaxCalls,
         UNCHANGED <<ws, data, receipt, capture, ledger, ghosts>>,
         CallWell(call'[c], data, receipt), CallClear(call'[c], ws, capture, raced, edits)
  PROVE  IInv'
  <1>1. TypeOK'
    BY DEF IInv, TypeOK, ghosts
  <1>2. Stores'
    BY DEF IInv, Stores, ReceiptsBacked, CapturesCopied, AbsentUnheld, ContentIsConserved,
           OnePlace, Known, Whole, SameEvidence, ghosts
  <1>3. \A k \in Calls \ {c} : Keeps(call[k], ws', capture', raced', edits')
    BY DEF Keeps, ghosts
  <1>4. \A k \in Calls \ {c} : CallOK(k)'
    BY <1>3, NothingGrows, OtherCalls DEF ghosts
  <1>5. CallOK(c)'
    BY DEF CallOK, ghosts
  <1>. QED BY <1>1, <1>2, <1>4, <1>5 DEF IInv

LEMMA FreeWell ==
  /\ \A D, R : CallWell(Free, D, R)
  /\ \A W, K, x, n : CallClear(Free, W, K, x, n)
  BY ConstantTypes DEF Free, CallWell, CallClear

LEMMA StopStep ==
  ASSUME IInv, NEW c \in Calls, Stop(c), UNCHANGED <<fs, ledger, calls, ghosts>>
  PROVE  IInv'
  <1>1. call' \in [Calls -> CallRecords] /\ call'[c] = Free /\ Others(c)
    BY Stops DEF IInv
  <1>. QED BY <1>1, FreeWell, QuietStep DEF IInv, TypeOK, fs

-----------------------------------------------------------------------------
(* Admission. *)
LEMMA Admitted ==
  ASSUME IInv, NEW c \in Calls, NEW action \in {"inspect", "quarantine", "restore"}, NEW o \in Ops,
         NEW e \in Entries, Real(e), Admit(c, action, o, e),
         action = "restore" => Whole(o, data, receipt) /\ SameEvidence(e, receipt[o])
  PROVE  IInv'
  <1>. DEFINE r == [Free EXCEPT !.at = "start", !.action = action, !.op = o, !.pending = TRUE,
                                !.entry = e, !.todo = e.paths]
  <1>1. /\ r \in CallRecords
        /\ r.at = "start" /\ r.action = action /\ r.op = o /\ r.entry = e /\ r.todo = e.paths /\ r.path = None
    BY Nothings DEF CallRecords, Entries, Running, Free
  <1>2. call' = [call EXCEPT ![c] = r]
    BY DEF Admit
  <1>. HIDE DEF r
  <1>3. call' \in [Calls -> CallRecords] /\ call'[c] = r /\ Others(c)
    BY <1>1, <1>2, Replaced DEF IInv
  <1>4. CallWell(r, data, receipt) /\ CallClear(r, ws, capture, raced, edits)
    BY <1>1, ConstantTypes DEF CallWell, CallClear
  <1>5. calls' \in 0..MaxCalls
    BY ConstantTypes DEF Admit, IInv, TypeOK
  <1>6. UNCHANGED <<ws, data, receipt, capture, ledger, ghosts, staging>>
    BY DEF Admit, fs
  <1>. QED BY <1>3, <1>4, <1>5, <1>6, QuietStep DEF IInv, TypeOK

LEMMA OnTyped ==
  ASSUME NEW tree \in Trees, NEW S
  PROVE  On(tree, S) \in Trees /\ \A p \in Paths : On(tree, S)[p] = IF p \in S THEN tree[p] ELSE None
  BY DEF On, Trees

LEMMA AdmitStep ==
  ASSUME IInv, NEW c \in Calls, NEW o \in Ops,
         (\E S \in SUBSET Paths : AdmitInspect(c, o, S)) \/ AdmitQuarantine(c, o) \/ AdmitRestore(c, o)
  PROVE  IInv'
  <1>1. ledger[o] \in Entries /\ Known(ledger[o], o, data, receipt) /\ ws \in Trees
    BY DEF IInv, TypeOK, Stores
  <1>2. ASSUME NEW S \in SUBSET Paths, AdmitInspect(c, o, S) PROVE IInv'
    <2>. DEFINE e == [phase |-> "inspected", paths |-> S, before |-> Present(ws), inv |-> On(ws, S)]
    <2>1. e \in Entries
      BY <1>1, OnTyped DEF Entries, Present
    <2>2. Real(e)
      BY <1>1, <1>2, OnTyped DEF Real, AdmitInspect, Present
    <2>3. Admit(c, "inspect", o, e)
      BY <1>2 DEF AdmitInspect
    <2>. HIDE DEF e
    <2>. QED BY <2>1, <2>2, <2>3, Admitted
  <1>3. CASE AdmitQuarantine(c, o)
    <2>1. Real(ledger[o])
      BY <1>1, <1>3, Nothings DEF AdmitQuarantine, Known
    <2>. QED BY <1>1, <1>3, <2>1, Admitted DEF AdmitQuarantine
  <1>4. CASE AdmitRestore(c, o)
    <2>1. Real(ledger[o]) /\ Whole(o, data, receipt) /\ SameEvidence(ledger[o], receipt[o])
      BY <1>1, <1>4, Nothings DEF AdmitRestore, Known
    <2>. QED BY <1>1, <1>4, <2>1, Admitted DEF AdmitRestore
  <1>. QED BY <1>2, <1>3, <1>4

-----------------------------------------------------------------------------
(* Steps that only check and go on. *)
LEMMA GoStep ==
  ASSUME IInv, NEW c \in Calls, NEW at \in Running \cup {"pass"}, Go(c, at),
         UNCHANGED <<fs, ledger, calls, ghosts>>, call[c].at # "free",
         at \in {"rename", "verify", "putback", "fill", "publish", "settle", "clear"} =>
             call[c].at \in {"rename", "verify", "putback", "fill", "publish", "settle", "clear"},
         call[c].action = "quarantine" /\ at \in {"receipt", "path", "rename", "verify", "putback"} =>
             data[call[c].op] = call[c].entry.inv,
         CallClear([call[c] EXCEPT !.at = at], ws, capture, raced, edits)
  PROVE  IInv'
  <1>1. call' \in [Calls -> CallRecords] /\ Others(c) /\ call'[c] = [call[c] EXCEPT !.at = at]
    BY Goes DEF IInv
  <1>2. call[c] \in CallRecords /\ CallWell(call[c], data, receipt)
    BY DEF IInv, TypeOK, CallOK
  <1>3. CallWell([call[c] EXCEPT !.at = at], data, receipt)
    BY <1>2 DEF CallWell, CallRecords, Running
  <1>. QED BY <1>1, <1>3, QuietStep DEF IInv, TypeOK, fs

LEMMA ClearElsewhere ==
  ASSUME NEW r, r.at \notin {"rename", "putback", "fill", "publish"}, NEW W, NEW K, NEW x, NEW n
  PROVE  CallClear(r, W, K, x, n)
  BY DEF CallClear

LEMMA CheckStep ==
  ASSUME IInv, NEW c \in Calls,
         InspectPasses(c) \/ QuarantineResumes(c) \/ QuarantineStarts(c) \/ QuarantinePasses(c)
             \/ RestoreStarts(c) \/ RestorePasses(c)
  PROVE  IInv'
  <1>1. call[c] \in CallRecords
    BY DEF IInv, TypeOK
  <1>2. \E at \in {"pass", "path", "stage"} :
           Go(c, at) /\ (at = "path" /\ call[c].action = "quarantine" =>
                            data[call[c].op] = call[c].entry.inv)
    BY DEF InspectPasses, QuarantineResumes, QuarantineStarts, QuarantinePasses, RestoreStarts,
           RestorePasses, Does, Backed, SameEvidence
  <1>3. call[c].at # "free" /\ UNCHANGED <<fs, ledger, calls, ghosts>>
    BY DEF InspectPasses, QuarantineResumes, QuarantineStarts, QuarantinePasses, RestoreStarts,
           RestorePasses, Does
  <1>4. PICK at \in {"pass", "path", "stage"} :
           Go(c, at) /\ (at = "path" /\ call[c].action = "quarantine" =>
                            data[call[c].op] = call[c].entry.inv)
    BY <1>2
  <1>5. [call[c] EXCEPT !.at = at].at = at
    BY <1>1 DEF CallRecords
  <1>6. CallClear([call[c] EXCEPT !.at = at], ws, capture, raced, edits)
    BY <1>5, ClearElsewhere
  <1>. QED BY <1>3, <1>4, <1>6, GoStep DEF Running

-----------------------------------------------------------------------------
(* Copy and receipt. *)
LEMMA StageStep ==
  ASSUME IInv, NEW c \in Calls, Stage(c)
  PROVE  IInv'
  <1>. DEFINE o == call[c].op
              inv == call[c].entry.inv
  <1>1. call[c] \in CallRecords /\ CallWell(call[c], data, receipt) /\ call[c].at = "stage"
        /\ call[c].action = "quarantine"
    BY DEF IInv, TypeOK, CallOK, Stage, Does
  <1>2. o \in Ops /\ Real(call[c].entry) /\ call[c].entry \in Entries /\ inv \in Trees /\ inv # Nothing
    BY <1>1, RealIsSome DEF CallWell, CallRecords
  <1>3. /\ data \in [Ops -> Trees] /\ data' = [data EXCEPT ![o] = inv]
        /\ (data[o] = Nothing /\ On(ws, call[c].entry.paths) = inv) \/ data[o] = inv
        /\ UNCHANGED <<ws, receipt, capture, staging, ledger, calls, ghosts>> /\ Go(c, "receipt")
    BY DEF IInv, TypeOK, Stage
  <1>4. /\ call' \in [Calls -> CallRecords] /\ Others(c)
        /\ call'[c] = [call[c] EXCEPT !.at = "receipt"]
    BY <1>3, Goes DEF IInv, Running
  <1>5. data' \in [Ops -> Trees] /\ data'[o] = inv /\ \A k \in Ops \ {o} : data'[k] = data[k]
    BY <1>2, <1>3
  <1>6. Grows(data', receipt')
    BY <1>3, <1>5 DEF Grows
  <1>7. TypeOK'
    BY <1>3, <1>4, <1>5 DEF IInv, TypeOK, ghosts
  <1>8. Stores'
    <2>1. Stores /\ ws \in Trees
      BY DEF IInv, TypeOK
    <2>2. ReceiptsBacked'
      BY <1>2, <1>3, <1>5, <2>1 DEF Stores, ReceiptsBacked
    <2>3. \A k \in Ops, p \in Paths : data[k][p] # None => data'[k][p] = data[k][p]
      BY <1>3, <1>5 DEF Nothing
    <2>4. CapturesCopied'
      BY <1>3, <2>1, <2>3 DEF Stores, CapturesCopied
    <2>5. \A p \in Paths : data'[o][p] # None => data[o][p] # None \/ ws[p] # None
      BY <1>2, <1>3, <1>5, <2>1, OnTyped
    <2>6. AbsentUnheld'
      BY <1>3, <1>5, <2>1, <2>5 DEF Stores, AbsentUnheld, ghosts
    <2>7. ContentIsConserved'
      BY <1>3, <2>1 DEF Stores, ContentIsConserved, ghosts
    <2>8. OnePlace'
      BY <1>3, <2>1, <2>3 DEF Stores, OnePlace, ghosts
    <2>9. \A k \in Ops : Known(ledger'[k], k, data', receipt')
      BY <1>3, <1>6, <2>1, KnownStays DEF Stores
    <2>. QED BY <2>2, <2>4, <2>6, <2>7, <2>8, <2>9 DEF Stores
  <1>9. \A k \in Calls \ {c} : CallOK(k)'
    BY <1>3, <1>4, <1>6, OtherCalls DEF Keeps, ghosts
  <1>10. CallOK(c)'
    <2>1. CallWell(call[c], data', receipt')
      BY <1>1, <1>6, WellStays DEF IInv, Stores
    <2>2. CallWell(call'[c], data', receipt')
      BY <1>1, <1>4, <1>5, <2>1 DEF CallWell, CallRecords
    <2>3. CallClear(call'[c], ws', capture', raced', edits')
      BY <1>1, <1>4, ClearElsewhere DEF CallRecords
    <2>. QED BY <2>2, <2>3 DEF CallOK
  <1>. QED BY <1>7, <1>8, <1>9, <1>10 DEF IInv

(* A step that changes one receipt, which was not whole, or not at all. *)
LEMMA ReceiptStep ==
  ASSUME IInv, NEW c \in Calls, NEW o \in Ops, NEW r \in Receipts,
         receipt' = [receipt EXCEPT ![o] = r], receipt[o].kind = "whole" => r = receipt[o],
         r.kind = "whole" => data[o] = r.inv /\ data[o] # Nothing,
         UNCHANGED <<ws, data, capture, staging, ledger, calls, ghosts>>,
         call' \in [Calls -> CallRecords], Others(c),
         CallWell(call'[c], data', receipt'), CallClear(call'[c], ws, capture, raced, edits)
  PROVE  IInv'
  <1>1. /\ receipt' \in [Ops -> Receipts] /\ receipt'[o] = r
        /\ \A k \in Ops \ {o} : receipt'[k] = receipt[k]
    BY DEF IInv, TypeOK
  <1>2. Grows(data', receipt')
    BY <1>1 DEF Grows
  <1>3. TypeOK'
    BY <1>1 DEF IInv, TypeOK, ghosts
  <1>4. Stores'
    <2>1. Stores
      BY DEF IInv
    <2>2. ReceiptsBacked'
      BY <1>1, <2>1 DEF Stores, ReceiptsBacked
    <2>3. CapturesCopied' /\ AbsentUnheld' /\ ContentIsConserved' /\ OnePlace'
      BY <2>1 DEF Stores, CapturesCopied, AbsentUnheld, ContentIsConserved, OnePlace, ghosts
    <2>4. \A k \in Ops : Known(ledger'[k], k, data', receipt')
      BY <1>2, <2>1, KnownStays DEF Stores
    <2>. QED BY <2>2, <2>3, <2>4 DEF Stores
  <1>5. \A k \in Calls \ {c} : CallOK(k)'
    BY <1>2, OtherCalls DEF Keeps, ghosts
  <1>6. CallOK(c)'
    BY DEF CallOK, ghosts
  <1>. QED BY <1>3, <1>4, <1>5, <1>6 DEF IInv

LEMMA WriteReceiptStep ==
  ASSUME IInv, NEW c \in Calls, WriteReceipt(c)
  PROVE  IInv'
  <1>. DEFINE o == call[c].op
              e == call[c].entry
              r == [kind |-> "whole", paths |-> e.paths, before |-> e.before, inv |-> e.inv]
  <1>1. call[c] \in CallRecords /\ CallWell(call[c], data, receipt) /\ call[c].at = "receipt"
        /\ call[c].action = "quarantine"
    BY DEF IInv, TypeOK, CallOK, WriteReceipt, Does
  <1>2. o \in Ops /\ Real(e) /\ e \in Entries /\ e.inv # Nothing /\ data[o] = e.inv
    BY <1>1, RealIsSome DEF CallWell, CallRecords
  <1>3. r \in Receipts
    BY <1>2 DEF Receipts, Entries
  <1>4. receipt[o].kind = "whole" => r = receipt[o]
    BY DEF WriteReceipt, NoReceipt
  <1>5. /\ call' \in [Calls -> CallRecords] /\ Others(c)
        /\ call'[c] = [call[c] EXCEPT !.at = "path"]
    BY Goes DEF IInv, Running, WriteReceipt
  <1>6. receipt' = [receipt EXCEPT ![o] = r] /\ UNCHANGED <<ws, data, capture, staging, ledger, calls, ghosts>>
    BY DEF WriteReceipt
  <1>7. CallWell(call'[c], data', receipt')
    <2>1. Grows(data', receipt')
      BY <1>2, <1>4, <1>6 DEF Grows, IInv, TypeOK
    <2>2. CallWell(call[c], data', receipt')
      BY <1>1, <2>1, WellStays DEF IInv, Stores
    <2>. QED BY <1>1, <1>2, <1>5, <1>6, <2>2 DEF CallWell, CallRecords
  <1>8. CallClear(call'[c], ws, capture, raced, edits)
    BY <1>1, <1>5, ClearElsewhere DEF CallRecords
  <1>. QED BY <1>2, <1>3, <1>4, <1>5, <1>6, <1>7, <1>8, ReceiptStep

LEMMA TearReceiptStep ==
  ASSUME IInv, NEW c \in Calls, TearReceipt(c)
  PROVE  IInv'
  <1>1. call[c].op \in Ops
    BY DEF IInv, CallOK, CallWell, TearReceipt, Does
  <1>2. call' \in [Calls -> CallRecords] /\ Others(c) /\ call'[c] = Free
    BY Stops DEF IInv, TearReceipt
  <1>3. Torn \in Receipts /\ Torn.kind # "whole" /\ receipt[call[c].op].kind # "whole"
    BY Nothings DEF TearReceipt, NoReceipt
  <1>4. CallWell(call'[c], data', receipt') /\ CallClear(call'[c], ws, capture, raced, edits)
    BY <1>2, FreeWell
  <1>. QED BY <1>1, <1>2, <1>3, <1>4, ReceiptStep DEF TearReceipt

-----------------------------------------------------------------------------
(* Capture. *)
LEMMA CapturePathStep ==
  ASSUME IInv, NEW c \in Calls, NEW p \in Paths, CapturePath(c, p)
  PROVE  IInv'
  <1>1. call[c] \in CallRecords /\ CallWell(call[c], data, receipt) /\ call[c].at = "path"
        /\ call[c].action = "quarantine" /\ p \in call[c].todo
    BY DEF IInv, TypeOK, CallOK, CapturePath, Does
  <1>2. UNCHANGED <<fs, ledger, calls, ghosts>>
    BY DEF CapturePath
  <1>3. CASE Next1(c, p)
    <2>1. /\ call' \in [Calls -> CallRecords] /\ Others(c)
          /\ call'[c] = [call[c] EXCEPT !.at = "path", !.path = None, !.todo = @ \ {p}]
      BY <1>3, Nexts DEF IInv
    <2>2. CallWell(call'[c], data, receipt) /\ CallClear(call'[c], ws, capture, raced, edits)
      BY <1>1, <2>1, ConstantTypes DEF CallWell, CallClear, CallRecords
    <2>. QED BY <1>2, <2>1, <2>2, QuietStep DEF IInv, TypeOK, fs
  <1>4. CASE capture[call[c].op][p] = None /\ Turn(c, "rename", p)
    <2>1. /\ call' \in [Calls -> CallRecords] /\ Others(c)
          /\ call'[c] = [call[c] EXCEPT !.at = "rename", !.path = p]
      BY <1>4, Turns DEF IInv, Running
    <2>2. CallWell(call'[c], data, receipt) /\ CallClear(call'[c], ws, capture, raced, edits)
      BY <1>1, <1>4, <2>1 DEF CallWell, CallClear, CallRecords
    <2>. QED BY <1>2, <2>1, <2>2, QuietStep, SMTT(30) DEF IInv, TypeOK, fs
  <1>. QED BY <1>3, <1>4 DEF CapturePath

LEMMA CaptureVerifiesStep ==
  ASSUME IInv, NEW c \in Calls, CaptureVerifies(c)
  PROVE  IInv'
  <1>1. call[c] \in CallRecords /\ CallWell(call[c], data, receipt) /\ call[c].at = "verify"
        /\ call[c].action = "quarantine"
    BY DEF IInv, TypeOK, CallOK, CaptureVerifies, Does
  <1>2. UNCHANGED <<fs, ledger, calls, ghosts>>
    BY DEF CaptureVerifies
  <1>3. CASE Next1(c, call[c].path)
    <2>1. /\ call' \in [Calls -> CallRecords] /\ Others(c)
          /\ call'[c] = [call[c] EXCEPT !.at = "path", !.path = None, !.todo = @ \ {call[c].path}]
      BY <1>3, Nexts DEF IInv
    <2>2. CallWell(call'[c], data, receipt) /\ CallClear(call'[c], ws, capture, raced, edits)
      BY <1>1, <2>1, ConstantTypes DEF CallWell, CallClear, CallRecords
    <2>. QED BY <1>2, <2>1, <2>2, QuietStep DEF IInv, TypeOK, fs
  <1>4. CASE ws[call[c].path] = None /\ Go(c, "putback")
    <2>1. CallClear([call[c] EXCEPT !.at = "putback"], ws, capture, raced, edits)
      BY <1>1, <1>4 DEF CallClear, CallRecords
    <2>2. data[call[c].op] = call[c].entry.inv
      BY <1>1 DEF CallWell
    <2>. QED BY <1>1, <1>2, <1>4, <2>1, <2>2, GoStep DEF Running
  <1>5. CASE Stop(c)
    BY <1>2, <1>5, StopStep
  <1>. QED BY <1>3, <1>4, <1>5 DEF CaptureVerifies

-----------------------------------------------------------------------------
(* Renames: the object of one path moves, and calls that had checked that  *)
(* path find it raced.                                                     *)
Elsewhere(p) ==
    \A q \in Paths \ {p} : ws'[q] = ws[q] /\ \A o \in Ops : capture'[o][q] = capture[o][q]

LEMMA RenameRaces ==
  ASSUME NEW c \in Calls, NEW p \in Paths, Renames(c, p), Elsewhere(p), raced \subseteq Paths
  PROVE  /\ raced \subseteq raced' /\ raced' \subseteq Paths
         /\ \A k \in Calls \ {c} : Keeps(call[k], ws', capture', raced', edits')
  <1>1. raced \subseteq raced' /\ raced' \subseteq Paths
    BY DEF Renames
  <1>2. ASSUME NEW k \in Calls \ {c}, NEW q \in Paths \ raced', At(call[k], q)
        PROVE  q # p
    <2>1. Between(k, q)
      BY <1>2 DEF At, Between
    <2>. QED BY <1>2, <2>1 DEF Renames
  <1>3. \A k \in Calls \ {c} : Keeps(call[k], ws', capture', raced', edits')
    BY <1>2 DEF Keeps, Elsewhere
  <1>. QED BY <1>1, <1>3

LEMMA CaptureChanged ==
  ASSUME TypeOK, NEW o \in Ops, NEW t \in Trees, capture' = [capture EXCEPT ![o] = t]
  PROVE  capture' \in [Ops -> Trees] /\ capture'[o] = t /\ \A k \in Ops \ {o} : capture'[k] = capture[k]
  BY DEF TypeOK

(* What a move has to show besides: the new call and the stores at p. *)
LEMMA MoveStep ==
  ASSUME IInv, NEW c \in Calls, NEW p \in Paths, Elsewhere(p), Renames(c, p),
         ws' \in Trees, capture' \in [Ops -> Trees], user' \in Trees,
         staging' \in [Ops -> [Paths -> {"none", "marked", "partial", "full"}]],
         call' \in [Calls -> CallRecords], Others(c),
         CallWell(call'[c], data, receipt), CallClear(call'[c], ws', capture', raced', edits),
         UNCHANGED <<data, receipt, ledger, calls, edits>>,
         \A q \in Paths \ {p} : user'[q] = user[q],
         \A o \in Ops : capture'[o][p] # None => data[o][p] # None,
         edits = 0 /\ user'[p] = None =>
             ws'[p] = None /\ \A o \in Ops : capture'[o][p] = None /\ data[o][p] = None,
         p \notin raced' /\ user'[p] # None =>
             ws'[p] = user'[p] \/ \E o \in Ops : capture'[o][p] = user'[p],
         edits = 0 /\ p \notin raced' /\ user'[p] # None =>
             \A o \in Ops : (\A k \in Ops \ {o} : data[k][p] = None) =>
                 (ws'[p] = None) # (capture'[o][p] = None)
  PROVE  IInv'
  <1>1. /\ raced \subseteq raced' /\ raced' \subseteq Paths
        /\ \A k \in Calls \ {c} : Keeps(call[k], ws', capture', raced', edits')
    BY RenameRaces DEF IInv, TypeOK
  <1>2. TypeOK'
    BY <1>1 DEF IInv, TypeOK
  <1>3. Stores'
    <2>1. Stores
      BY DEF IInv
    <2>2. ReceiptsBacked'
      BY <2>1 DEF Stores, ReceiptsBacked
    <2>3. CapturesCopied'
      BY <2>1 DEF Stores, CapturesCopied, Elsewhere
    <2>4. AbsentUnheld'
      <3>1. SUFFICES ASSUME edits = 0, NEW q \in Paths, user'[q] = None
                     PROVE  ws'[q] = None /\ \A o \in Ops : capture'[o][q] = None /\ data[o][q] = None
        BY DEF AbsentUnheld
      <3>2. CASE q = p
        BY <3>1, <3>2
      <3>3. CASE q # p
        <4>1. ws[q] = None /\ \A o \in Ops : capture[o][q] = None /\ data[o][q] = None
          BY <2>1, <3>1, <3>3 DEF Stores, AbsentUnheld
        <4>. QED BY <3>3, <4>1 DEF Elsewhere
      <3>. QED BY <3>2, <3>3
    <2>5. ContentIsConserved'
      <3>1. SUFFICES ASSUME NEW q \in Paths \ raced', user'[q] # None
                     PROVE  ws'[q] = user'[q] \/ \E o \in Ops : capture'[o][q] = user'[q]
        BY DEF ContentIsConserved
      <3>2. CASE q = p
        BY <3>1, <3>2
      <3>3. CASE q # p
        <4>1. ws[q] = user[q] \/ \E o \in Ops : capture[o][q] = user[q]
          BY <1>1, <2>1, <3>1, <3>3 DEF Stores, ContentIsConserved
        <4>. QED BY <3>3, <4>1 DEF Elsewhere
      <3>. QED BY <3>2, <3>3
    <2>6. OnePlace'
      <3>1. SUFFICES ASSUME edits = 0, NEW q \in Paths \ raced', NEW o \in Ops, user'[q] # None,
                            \A k \in Ops \ {o} : data[k][q] = None
                     PROVE  /\ \A k \in Ops \ {o} : capture'[k][q] = None
                            /\ (ws'[q] = None) # (capture'[o][q] = None)
        BY DEF OnePlace
      <3>2. \A k \in Ops \ {o} : capture'[k][q] = None
        BY <2>3, <3>1 DEF CapturesCopied
      <3>3. CASE q = p
        BY <3>1, <3>2, <3>3
      <3>4. CASE q # p
        <4>1. (ws[q] = None) # (capture[o][q] = None)
          BY <1>1, <2>1, <3>1, <3>4 DEF Stores, OnePlace
        <4>. QED BY <3>2, <3>4, <4>1 DEF Elsewhere
      <3>. QED BY <3>3, <3>4
    <2>7. \A o \in Ops : Known(ledger'[o], o, data', receipt')
      BY <2>1 DEF Stores
    <2>. QED BY <2>2, <2>3, <2>4, <2>5, <2>6, <2>7 DEF Stores
  <1>4. \A k \in Calls \ {c} : CallOK(k)'
    BY <1>1, NothingGrows, OtherCalls
  <1>5. CallOK(c)'
    BY DEF CallOK
  <1>. QED BY <1>2, <1>3, <1>4, <1>5 DEF IInv

LEMMA CaptureRenamesStep ==
  ASSUME IInv, NEW c \in Calls, CaptureRenames(c)
  PROVE  IInv'
  <1>. DEFINE o == call[c].op
              p == call[c].path
  <1>1. /\ call[c] \in CallRecords /\ CallWell(call[c], data, receipt)
        /\ CallClear(call[c], ws, capture, raced, edits)
        /\ call[c].at = "rename" /\ call[c].action = "quarantine"
    BY DEF IInv, TypeOK, CallOK, CaptureRenames, Does
  <1>2. /\ o \in Ops /\ Real(call[c].entry) /\ call[c].entry \in Entries
        /\ p \in call[c].entry.paths /\ data[o] = call[c].entry.inv
    BY <1>1 DEF CallWell, CallRecords
  <1>3. p \in Paths /\ data[o][p] # None
    BY <1>2 DEF Entries, Real
  <1>4. /\ ws[p] # None /\ capture' = [capture EXCEPT ![o][p] = ws[p]]
        /\ ws' = [ws EXCEPT ![p] = None] /\ Renames(c, p) /\ Go(c, "verify")
        /\ UNCHANGED <<data, receipt, staging, ledger, calls, user, edits>>
    BY DEF CaptureRenames
  <1>5. TypeOK /\ Stores /\ ws \in Trees /\ ws[p] \in Contents \cup {None}
    BY <1>3 DEF IInv, TypeOK, Trees
  <1>. HIDE DEF o, p
  <1>6. /\ capture' \in [Ops -> Trees] /\ capture'[o][p] = ws[p]
        /\ \A k \in Ops, q \in Paths : k # o \/ q # p => capture'[k][q] = capture[k][q]
    <2>. DEFINE t == [capture[o] EXCEPT ![p] = ws[p]]
    <2>1. capture[o] \in Trees
      BY <1>2, <1>5 DEF TypeOK
    <2>2. t \in Trees /\ t[p] = ws[p] /\ \A q \in Paths \ {p} : t[q] = capture[o][q]
      BY <1>3, <1>5, <2>1 DEF Trees
    <2>3. capture' = [capture EXCEPT ![o] = t]
      BY <1>4
    <2>. HIDE DEF t
    <2>. QED BY <1>2, <1>5, <2>2, <2>3, CaptureChanged
  <1>7. ws' \in Trees /\ ws'[p] = None /\ \A q \in Paths \ {p} : ws'[q] = ws[q]
    BY <1>3, <1>4, <1>5 DEF Trees
  <1>8. /\ call' \in [Calls -> CallRecords] /\ Others(c)
        /\ call'[c] = [call[c] EXCEPT !.at = "verify"]
    BY <1>4, <1>5, Goes DEF Running
  <1>9. CallWell(call'[c], data, receipt) /\ CallClear(call'[c], ws', capture', raced', edits)
    BY <1>1, <1>8 DEF CallWell, CallClear, CallRecords
  <1>10. Elsewhere(p)
    BY <1>6, <1>7 DEF Elsewhere
  <1>11. p \notin raced' => p \notin raced /\ capture[o][p] = None
    BY <1>1, <1>3, <1>4 DEF Renames, CallClear, o, p
  <1>12. \A k \in Ops : capture'[k][p] # None => data[k][p] # None
    BY <1>3, <1>5, <1>6 DEF Stores, CapturesCopied
  <1>13. edits = 0 => user[p] # None
    BY <1>3, <1>4, <1>5 DEF Stores, AbsentUnheld
  <1>14. p \notin raced' /\ user'[p] # None =>
             ws'[p] = user'[p] \/ \E k \in Ops : capture'[k][p] = user'[p]
    <2>1. SUFFICES ASSUME p \notin raced', user[p] # None
                   PROVE  \E k \in Ops : capture'[k][p] = user[p]
      BY <1>4
    <2>2. ws[p] = user[p] \/ \E k \in Ops : capture[k][p] = user[p]
      BY <1>3, <1>5, <1>11, <2>1 DEF Stores, ContentIsConserved
    <2>. QED BY <1>2, <1>3, <1>6, <1>11, <2>1, <2>2
  <1>15. ASSUME edits = 0, p \notin raced', user[p] # None, NEW k \in Ops,
                \A j \in Ops \ {k} : data[j][p] = None
         PROVE  (ws'[p] = None) # (capture'[k][p] = None)
    <2>1. k = o
      BY <1>2, <1>3, <1>15
    <2>. QED BY <1>4, <1>6, <1>7, <2>1
  <1>16. user' \in Trees /\ staging' \in [Ops -> [Paths -> {"none", "marked", "partial", "full"}]]
    BY <1>4, <1>5 DEF TypeOK
  <1>. HIDE DEF o, p
  <1>. QED BY <1>3, <1>4, <1>6, <1>7, <1>8, <1>9, <1>10, <1>12, <1>13, <1>14, <1>15, <1>16, MoveStep

LEMMA CapturePutsBackStep ==
  ASSUME IInv, NEW c \in Calls, CapturePutsBack(c)
  PROVE  IInv'
  <1>. DEFINE o == call[c].op
              p == call[c].path
  <1>1. /\ call[c] \in CallRecords /\ CallWell(call[c], data, receipt)
        /\ CallClear(call[c], ws, capture, raced, edits)
        /\ call[c].at = "putback" /\ call[c].action = "quarantine"
    BY DEF IInv, TypeOK, CallOK, CapturePutsBack, Does
  <1>2. o \in Ops /\ p \in Paths
    BY <1>1 DEF CallWell, CallRecords, Entries
  <1>3. CASE capture[o][p] = None
    <2>1. Stop(c) /\ UNCHANGED <<fs, ledger, calls, ghosts>>
      BY <1>3 DEF CapturePutsBack, ghosts
    <2>. QED BY <2>1, StopStep
  <1>4. CASE capture[o][p] # None
    <2>1. /\ capture' = [capture EXCEPT ![o][p] = None]
          /\ ws' = [ws EXCEPT ![p] = capture[o][p]] /\ Renames(c, p) /\ Stop(c)
          /\ UNCHANGED <<data, receipt, staging, ledger, calls, user, edits>>
      BY <1>4 DEF CapturePutsBack
    <2>2. TypeOK /\ Stores /\ ws \in Trees /\ capture[o] \in Trees /\ capture[o][p] \in Contents \cup {None}
      BY <1>2 DEF IInv, TypeOK, Trees
    <2>3. p \notin raced => ws[p] = None
      BY <1>1, <1>2 DEF CallClear
    <2>. HIDE DEF o, p
    <2>4. /\ capture' \in [Ops -> Trees] /\ capture'[o][p] = None
          /\ \A k \in Ops, q \in Paths : k # o \/ q # p => capture'[k][q] = capture[k][q]
      <3>. DEFINE t == [capture[o] EXCEPT ![p] = None]
      <3>1. t \in Trees /\ t[p] = None /\ \A q \in Paths \ {p} : t[q] = capture[o][q]
        BY <1>2, <2>2 DEF Trees
      <3>2. capture' = [capture EXCEPT ![o] = t]
        BY <2>1
      <3>. HIDE DEF t
      <3>. QED BY <1>2, <2>2, <3>1, <3>2, CaptureChanged
    <2>5. ws' \in Trees /\ ws'[p] = capture[o][p] /\ \A q \in Paths \ {p} : ws'[q] = ws[q]
      BY <1>2, <2>1, <2>2 DEF Trees
    <2>6. call' \in [Calls -> CallRecords] /\ Others(c) /\ call'[c] = Free
      BY <2>1, <2>2, Stops
    <2>7. CallWell(call'[c], data, receipt) /\ CallClear(call'[c], ws', capture', raced', edits)
      BY <2>6, FreeWell
    <2>8. Elsewhere(p)
      BY <2>4, <2>5 DEF Elsewhere
    <2>9. \A k \in Ops : capture[k][p] # None => data[k][p] # None
      BY <1>2, <2>2 DEF Stores, CapturesCopied
    <2>10. \A k \in Ops : capture'[k][p] # None => data[k][p] # None
      BY <1>2, <2>4, <2>9
    <2>11. edits = 0 => user[p] # None
      BY <1>2, <1>4, <2>2 DEF Stores, AbsentUnheld
    <2>12. p \notin raced' /\ user'[p] # None =>
               ws'[p] = user'[p] \/ \E k \in Ops : capture'[k][p] = user'[p]
      <3>1. SUFFICES ASSUME p \notin raced, user[p] # None
                     PROVE  ws'[p] = user[p] \/ \E k \in Ops : capture'[k][p] = user[p]
        BY <2>1 DEF Renames
      <3>2. ws[p] = user[p] \/ \E k \in Ops : capture[k][p] = user[p]
        BY <1>2, <2>2, <3>1 DEF Stores, ContentIsConserved
      <3>. QED BY <1>2, <2>3, <2>4, <2>5, <3>1, <3>2
    <2>13. ASSUME NEW k \in Ops, \A j \in Ops \ {k} : data[j][p] = None
           PROVE  (ws'[p] = None) # (capture'[k][p] = None)
      <3>1. k = o
        BY <1>2, <1>4, <2>9, <2>13
      <3>. QED BY <1>4, <2>4, <2>5, <3>1
    <2>14. user' \in Trees /\ staging' \in [Ops -> [Paths -> {"none", "marked", "partial", "full"}]]
      BY <2>1, <2>2 DEF TypeOK
    <2>. QED BY <1>2, <2>1, <2>4, <2>5, <2>6, <2>7, <2>8, <2>10, <2>11, <2>12, <2>13, <2>14, MoveStep
  <1>. QED BY <1>3, <1>4

-----------------------------------------------------------------------------
(* Restore. *)
LEMMA StagingChanged ==
  ASSUME TypeOK, NEW o \in Ops, NEW p \in Paths, NEW v \in {"none", "marked", "partial", "full"},
         staging' = [staging EXCEPT ![o][p] = v]
  PROVE  staging' \in [Ops -> [Paths -> {"none", "marked", "partial", "full"}]]
  BY DEF TypeOK

(* A restore works on its own copy. *)
LEMMA RestoreWell ==
  ASSUME IInv, NEW c \in Calls, call[c].action = "restore", call[c].at # "free"
  PROVE  /\ call[c] \in CallRecords /\ CallWell(call[c], data, receipt)
         /\ CallClear(call[c], ws, capture, raced, edits)
         /\ call[c].op \in Ops /\ call[c].entry \in Entries /\ call[c].todo \subseteq Paths
         /\ data[call[c].op] = call[c].entry.inv
         /\ \A p \in call[c].entry.paths : p \in Paths /\ call[c].entry.inv[p] \in Contents
  <1>1. /\ call[c] \in CallRecords /\ CallWell(call[c], data, receipt)
        /\ CallClear(call[c], ws, capture, raced, edits)
    BY DEF IInv, TypeOK, CallOK
  <1>2. /\ call[c].op \in Ops /\ call[c].entry \in Entries /\ call[c].todo \subseteq Paths
        /\ Real(call[c].entry)
    BY <1>1 DEF CallWell, CallRecords
  <1>3. data[call[c].op] = call[c].entry.inv
    BY <1>1 DEF CallWell, Whole, SameEvidence
  <1>4. \A p \in call[c].entry.paths : p \in Paths /\ call[c].entry.inv[p] \in Contents
    BY <1>2 DEF Real, Entries, Trees
  <1>. QED BY <1>1, <1>2, <1>3, <1>4

LEMMA RestorePathStep ==
  ASSUME IInv, NEW c \in Calls, NEW p \in Paths, RestorePath(c, p)
  PROVE  IInv'
  <1>. DEFINE o == call[c].op
  <1>1. call[c].at = "path" /\ call[c].action = "restore" /\ p \in call[c].todo
    BY DEF RestorePath, Does
  <1>2. call[c] \in CallRecords /\ CallWell(call[c], data, receipt) /\ o \in Ops
    BY <1>1, RestoreWell
  <1>3. TypeOK /\ staging[o][p] \in {"none", "marked", "partial", "full"}
    BY <1>2 DEF IInv, TypeOK
  <1>4. UNCHANGED <<ws, data, receipt, capture, ledger, calls, ghosts>> /\ calls' \in 0..MaxCalls
    BY <1>3 DEF RestorePath, TypeOK
  <1>5. CASE staging' = [staging EXCEPT ![o][p] = "none"] /\ Next1(c, p)
    <2>1. /\ call' \in [Calls -> CallRecords] /\ Others(c)
          /\ call'[c] = [call[c] EXCEPT !.at = "path", !.path = None, !.todo = @ \ {p}]
      BY <1>5, Nexts DEF IInv
    <2>2. CallWell(call'[c], data, receipt) /\ CallClear(call'[c], ws, capture, raced, edits)
      BY <1>1, <1>2, <2>1, ConstantTypes DEF CallWell, CallClear, CallRecords
    <2>. HIDE DEF o
    <2>3. staging' \in [Ops -> [Paths -> {"none", "marked", "partial", "full"}]]
      BY <1>2, <1>3, <1>5, StagingChanged
    <2>. QED BY <1>4, <2>1, <2>2, <2>3, QuietStep
  <1>6. CASE ws[p] = None /\ Turn(c, "rename", p) /\ UNCHANGED staging
    <2>1. /\ call' \in [Calls -> CallRecords] /\ Others(c)
          /\ call'[c] = [call[c] EXCEPT !.at = "rename", !.path = p]
      BY <1>6, Turns, ZenonT(60) DEF IInv, Running
    <2>2. CallWell(call'[c], data, receipt) /\ CallClear(call'[c], ws, capture, raced, edits)
      BY <1>1, <1>2, <1>6, <2>1 DEF CallWell, CallClear, CallRecords
    <2>. QED BY <1>3, <1>4, <1>6, <2>1, <2>2, QuietStep DEF TypeOK
  <1>7. CASE /\ ws[p] = None /\ capture[o][p] = None /\ Turn(c, "fill", p)
             /\ staging' = [staging EXCEPT ![o][p] = IF @ = "none" THEN "marked" ELSE @]
    <2>1. /\ call' \in [Calls -> CallRecords] /\ Others(c)
          /\ call'[c] = [call[c] EXCEPT !.at = "fill", !.path = p]
      BY <1>7, Turns DEF IInv, Running
    <2>2. CallWell(call'[c], data, receipt) /\ CallClear(call'[c], ws, capture, raced, edits)
      BY <1>1, <1>2, <1>7, <2>1 DEF CallWell, CallClear, CallRecords
    <2>3. staging' \in [Ops -> [Paths -> {"none", "marked", "partial", "full"}]]
      BY <1>2, <1>3, <1>7 DEF TypeOK
    <2>. QED BY <1>4, <2>1, <2>2, <2>3, QuietStep
  <1>. QED BY <1>5, <1>6, <1>7 DEF RestorePath

LEMMA RestoreFillsStep ==
  ASSUME IInv, NEW c \in Calls, RestoreFills(c)
  PROVE  IInv'
  <1>. DEFINE o == call[c].op
              p == call[c].path
  <1>1. call[c].at = "fill" /\ call[c].action = "restore"
    BY DEF RestoreFills, Does
  <1>2. /\ call[c] \in CallRecords /\ CallWell(call[c], data, receipt) /\ o \in Ops
        /\ CallClear(call[c], ws, capture, raced, edits)
    BY <1>1, RestoreWell
  <1>3. p \in Paths
    BY <1>1, <1>2, RestoreWell DEF CallWell
  <1>4. UNCHANGED <<ws, data, receipt, capture, ledger, calls, ghosts>> /\ calls' \in 0..MaxCalls /\ TypeOK
    BY DEF RestoreFills, IInv, TypeOK
  <1>5. staging' \in [Ops -> [Paths -> {"none", "marked", "partial", "full"}]]
    BY <1>2, <1>3, <1>4 DEF TypeOK, RestoreFills
  <1>6. CASE ws[p] = None /\ Go(c, "publish")
    <2>1. call' \in [Calls -> CallRecords] /\ Others(c) /\ call'[c] = [call[c] EXCEPT !.at = "publish"]
      BY <1>6, Goes DEF IInv, Running
    <2>2. CallWell(call'[c], data, receipt) /\ CallClear(call'[c], ws, capture, raced, edits)
      BY <1>1, <1>2, <1>6, <2>1 DEF CallWell, CallClear, CallRecords
    <2>. QED BY <1>4, <1>5, <2>1, <2>2, QuietStep
  <1>7. CASE UNCHANGED call
    <2>1. call' \in [Calls -> CallRecords] /\ Others(c)
      BY <1>4, <1>7 DEF TypeOK, Others
    <2>. QED BY <1>2, <1>4, <1>5, <1>7, <2>1, QuietStep
  <1>. QED BY <1>6, <1>7 DEF RestoreFills

LEMMA RestoreSettlesStep ==
  ASSUME IInv, NEW c \in Calls, RestoreSettles(c)
  PROVE  IInv'
  <1>. DEFINE o == call[c].op
              p == call[c].path
  <1>1. call[c].at \in {"settle", "clear"} /\ call[c].action = "restore" /\ Next1(c, p)
    BY DEF RestoreSettles, Does
  <1>2. call[c] \in CallRecords /\ CallWell(call[c], data, receipt) /\ o \in Ops
    BY <1>1, RestoreWell
  <1>3. p \in Paths
    BY <1>1, <1>2, RestoreWell DEF CallWell
  <1>4. UNCHANGED <<ws, data, receipt, capture, ledger, calls, ghosts>> /\ calls' \in 0..MaxCalls /\ TypeOK
    BY DEF RestoreSettles, IInv, TypeOK
  <1>5. staging' \in [Ops -> [Paths -> {"none", "marked", "partial", "full"}]]
    <2>1. \A mark \in {"none", "marked", "partial", "full"} :
              Cleared(mark) \in {"none", "marked", "partial", "full"}
      BY DEF Cleared
    <2>2. staging' = staging \/ staging' = [staging EXCEPT ![o][p] = Cleared(@)]
      BY DEF RestoreSettles
    <2>3. staging[o][p] \in {"none", "marked", "partial", "full"}
      BY <1>2, <1>3, <1>4 DEF TypeOK
    <2>4. Cleared(staging[o][p]) \in {"none", "marked", "partial", "full"}
      BY <2>1, <2>3
    <2>5. CASE staging' = staging
      BY <1>4, <2>5 DEF TypeOK
    <2>6. CASE staging' = [staging EXCEPT ![o][p] = Cleared(@)]
      <3> DEFINE mark == Cleared(staging[o][p])
      <3>1. staging' = [staging EXCEPT ![o][p] = mark]
        BY <2>6
      <3>2. mark \in {"none", "marked", "partial", "full"}
        BY <2>4
      <3> HIDE DEF mark
      <3>. QED BY <1>2, <1>3, <1>4, <3>1, <3>2 DEF TypeOK
    <2>. QED BY <2>2, <2>5, <2>6
  <1>6. /\ call' \in [Calls -> CallRecords] /\ Others(c)
        /\ call'[c] = [call[c] EXCEPT !.at = "path", !.path = None, !.todo = @ \ {p}]
    BY <1>1, Nexts DEF IInv
  <1>7. CallWell(call'[c], data, receipt) /\ CallClear(call'[c], ws, capture, raced, edits)
    BY <1>1, <1>2, <1>6, ConstantTypes DEF CallWell, CallClear, CallRecords
  <1>. QED BY <1>4, <1>5, <1>6, <1>7, QuietStep

LEMMA RestoreRenamesStep ==
  ASSUME IInv, NEW c \in Calls, RestoreRenames(c)
  PROVE  IInv'
  <1>. DEFINE o == call[c].op
              p == call[c].path
              v == capture[o][p]
  <1>1. call[c].at = "rename" /\ call[c].action = "restore" /\ v # None
    BY DEF RestoreRenames, Does
  <1>2. call[c] \in CallRecords /\ CallWell(call[c], data, receipt) /\ o \in Ops
    BY <1>1, RestoreWell
  <1>3. p \in Paths
    BY <1>1, <1>2, RestoreWell DEF CallWell
  <1>4. /\ capture' = [capture EXCEPT ![o][p] = None]
        /\ ws' = [ws EXCEPT ![p] = v] /\ user' = [user EXCEPT ![p] = v]
        /\ Renames(c, p) /\ Go(c, "settle")
        /\ UNCHANGED <<data, receipt, staging, ledger, calls, edits>>
    BY DEF RestoreRenames, Publishes
  <1>5. /\ TypeOK /\ Stores /\ ws \in Trees /\ user \in Trees /\ capture[o] \in Trees
        /\ v \in Contents \cup {None}
    BY <1>2, <1>3 DEF IInv, TypeOK, Trees
  <1>6. data[o][p] # None /\ \A k \in Ops : capture[k][p] # None => data[k][p] # None
    BY <1>1, <1>2, <1>3, <1>5 DEF Stores, CapturesCopied
  <1>7. /\ call' \in [Calls -> CallRecords] /\ Others(c)
        /\ call'[c] = [call[c] EXCEPT !.at = "settle"]
    BY <1>4, <1>5, Goes DEF Running
  <1>8. CallWell(call'[c], data, receipt) /\ CallClear(call'[c], ws', capture', raced', edits)
    BY <1>1, <1>2, <1>7 DEF CallWell, CallClear, CallRecords
  <1>. HIDE DEF o, p, v
  <1>9. /\ capture' \in [Ops -> Trees] /\ capture'[o][p] = None
        /\ \A k \in Ops, q \in Paths : k # o \/ q # p => capture'[k][q] = capture[k][q]
    <2>. DEFINE t == [capture[o] EXCEPT ![p] = None]
    <2>1. t \in Trees /\ t[p] = None /\ \A q \in Paths \ {p} : t[q] = capture[o][q]
      BY <1>3, <1>5 DEF Trees
    <2>2. capture' = [capture EXCEPT ![o] = t]
      BY <1>4
    <2>. HIDE DEF t
    <2>. QED BY <1>2, <1>5, <2>1, <2>2, CaptureChanged
  <1>10. /\ ws' \in Trees /\ ws'[p] = v /\ \A q \in Paths \ {p} : ws'[q] = ws[q]
         /\ user' \in Trees /\ user'[p] = v /\ \A q \in Paths \ {p} : user'[q] = user[q]
    BY <1>3, <1>4, <1>5 DEF Trees
  <1>11. Elsewhere(p)
    BY <1>9, <1>10 DEF Elsewhere
  <1>12. \A k \in Ops : capture'[k][p] # None => data[k][p] # None
    BY <1>3, <1>6, <1>9
  <1>13. ASSUME NEW k \in Ops, \A j \in Ops \ {k} : data[j][p] = None
         PROVE  (ws'[p] = None) # (capture'[k][p] = None)
    <2>1. k = o
      BY <1>2, <1>6, <1>13
    <2>. QED BY <1>1, <1>9, <1>10, <2>1
  <1>14. staging' \in [Ops -> [Paths -> {"none", "marked", "partial", "full"}]]
    BY <1>4, <1>5 DEF TypeOK
  <1>. QED BY <1>1, <1>3, <1>4, <1>7, <1>8, <1>9, <1>10, <1>11, <1>12, <1>13, <1>14, MoveStep

LEMMA RestorePublishesStep ==
  ASSUME IInv, NEW c \in Calls, RestorePublishes(c)
  PROVE  IInv'
  <1>. DEFINE o == call[c].op
              p == call[c].path
              v == call[c].entry.inv[p]
  <1>1. call[c].at = "publish" /\ call[c].action = "restore"
    BY DEF RestorePublishes, Does
  <1>2. /\ call[c] \in CallRecords /\ CallWell(call[c], data, receipt) /\ o \in Ops
        /\ CallClear(call[c], ws, capture, raced, edits)
    BY <1>1, RestoreWell
  <1>3. p \in Paths /\ v \in Contents /\ v # None /\ data[o][p] = v
    BY <1>1, <1>2, RestoreWell, ConstantTypes DEF CallWell
  <1>4. /\ ws' = [ws EXCEPT ![p] = v] /\ user' = [user EXCEPT ![p] = v]
        /\ Renames(c, p) /\ Go(c, "clear") /\ staging' = [staging EXCEPT ![o][p] = "marked"]
        /\ UNCHANGED <<data, receipt, capture, ledger, calls, edits>>
    BY DEF RestorePublishes, Publishes
  <1>5. TypeOK /\ Stores /\ ws \in Trees /\ user \in Trees
    BY DEF IInv, TypeOK
  <1>6. /\ call' \in [Calls -> CallRecords] /\ Others(c)
        /\ call'[c] = [call[c] EXCEPT !.at = "clear"]
    BY <1>4, <1>5, Goes DEF Running
  <1>7. CallWell(call'[c], data, receipt) /\ CallClear(call'[c], ws', capture', raced', edits)
    BY <1>1, <1>2, <1>6 DEF CallWell, CallClear, CallRecords
  <1>8. edits = 0 /\ p \notin raced' => capture[o][p] = None
    BY <1>1, <1>2, <1>3, <1>4 DEF CallClear, Renames
  <1>. HIDE DEF o, p, v
  <1>9. /\ ws' \in Trees /\ ws'[p] = v /\ \A q \in Paths \ {p} : ws'[q] = ws[q]
        /\ user' \in Trees /\ user'[p] = v /\ \A q \in Paths \ {p} : user'[q] = user[q]
    BY <1>3, <1>4, <1>5 DEF Trees
  <1>10. Elsewhere(p) /\ capture' \in [Ops -> Trees]
    BY <1>4, <1>5, <1>9 DEF Elsewhere, TypeOK
  <1>11. \A k \in Ops : capture'[k][p] # None => data[k][p] # None
    BY <1>3, <1>4, <1>5 DEF Stores, CapturesCopied
  <1>12. ASSUME edits = 0, p \notin raced', NEW k \in Ops, \A j \in Ops \ {k} : data[j][p] = None
         PROVE  (ws'[p] = None) # (capture'[k][p] = None)
    <2>1. k = o
      BY <1>2, <1>3, <1>12
    <2>. QED BY <1>3, <1>4, <1>8, <1>9, <1>12, <2>1
  <1>13. staging' \in [Ops -> [Paths -> {"none", "marked", "partial", "full"}]]
    BY <1>2, <1>3, <1>4, <1>5, StagingChanged
  <1>. QED BY <1>3, <1>4, <1>6, <1>7, <1>9, <1>10, <1>11, <1>12, <1>13, MoveStep

-----------------------------------------------------------------------------
(* The ledger. *)
LEMMA AfterReadsStep ==
  ASSUME IInv, NEW c \in Calls, AfterReads(c)
  PROVE  IInv'
  <1>. DEFINE r == [call[c] EXCEPT !.at = "read", !.read = ledger]
  <1>1. /\ call[c] \in CallRecords /\ CallWell(call[c], data, receipt) /\ call[c].at = "pass"
        /\ ledger \in [Ops -> Entries] /\ \A o \in Ops : Known(ledger[o], o, data, receipt)
    BY DEF IInv, TypeOK, Stores, CallOK, AfterReads
  <1>2. r \in CallRecords /\ call' = [call EXCEPT ![c] = r]
    BY <1>1 DEF CallRecords, AfterReads, IInv, TypeOK
  <1>3. /\ r.at = "read" /\ r.read = ledger /\ r.op = call[c].op /\ r.entry = call[c].entry
        /\ r.todo = call[c].todo /\ r.action = call[c].action
    BY <1>1 DEF CallRecords
  <1>. HIDE DEF r
  <1>4. call' \in [Calls -> CallRecords] /\ call'[c] = r /\ Others(c)
    BY <1>2, Replaced DEF IInv
  <1>5. LedgerAdmits(c, ledger) /\ UNCHANGED <<fs, ledger, calls, ghosts>>
    BY DEF AfterReads
  <1>6. r.action = "quarantine" =>
           /\ ledger[r.op] # NoEntry
           /\ Whole(r.op, data, receipt) /\ SameEvidence(ledger[r.op], receipt[r.op])
    BY <1>3, <1>5 DEF LedgerAdmits, Backed, Whole
  <1>7. r.action = "restore" => ledger[r.op].phase = "quarantined"
    BY <1>3, <1>5 DEF LedgerAdmits
  <1>8. CallWell(r, data, receipt)
    BY <1>1, <1>3, <1>6, <1>7 DEF CallWell
  <1>9. CallClear(r, ws, capture, raced, edits)
    BY <1>3, ClearElsewhere
  <1>. QED BY <1>4, <1>5, <1>8, <1>9, QuietStep DEF IInv, TypeOK, fs

LEMMA AdvancedKnown ==
  ASSUME IInv, NEW c \in Calls, call[c].at = "read"
  PROVE  Advanced(c) \in Entries /\ Known(Advanced(c), call[c].op, data, receipt)
  <1>. DEFINE o == call[c].op
              old == IF call[c].action = "inspect" THEN call[c].entry ELSE call[c].read[o]
              phase == [inspect |-> "inspected", quarantine |-> "quarantined", restore |-> "restored"]
              ph == phase[call[c].action]
  <1>1. /\ call[c] \in CallRecords /\ CallWell(call[c], data, receipt) /\ o \in Ops
        /\ Real(call[c].entry) /\ call[c].action \in {"inspect", "quarantine", "restore"}
    BY DEF IInv, TypeOK, CallOK, CallWell, CallRecords
  <1>2. old \in Entries
    BY <1>1 DEF CallRecords
  <1>3. Real(old)
    BY <1>1, Nothings DEF CallWell, Known
  <1>4. call[c].action # "inspect" => Whole(o, data, receipt) /\ SameEvidence(old, receipt[o])
    BY <1>1 DEF CallWell, Known
  <1>5. /\ ph \in {"inspected", "quarantined", "restored"}
        /\ ph # "inspected" => call[c].action # "inspect"
    BY <1>1
  <1>6. Advanced(c) = [old EXCEPT !.phase = ph]
    BY DEF Advanced
  <1>. HIDE DEF old, ph, o
  <1>7. /\ Advanced(c) \in Entries /\ Advanced(c).phase = ph /\ Advanced(c).paths = old.paths
        /\ Advanced(c).before = old.before /\ Advanced(c).inv = old.inv
    BY <1>2, <1>5, <1>6 DEF Entries
  <1>. QED BY <1>3, <1>4, <1>5, <1>7 DEF Known, Real, SameEvidence, o

LEMMA AfterWritesStep ==
  ASSUME IInv, NEW c \in Calls, AfterWrites(c)
  PROVE  IInv'
  <1>. DEFINE o == call[c].op
              e == Advanced(c)
  <1>1. /\ call[c] \in CallRecords /\ CallWell(call[c], data, receipt) /\ call[c].at = "read"
        /\ o \in Ops
    BY DEF IInv, TypeOK, CallOK, CallWell, AfterWrites
  <1>2. /\ call[c].read \in [Ops -> Entries]
        /\ \A k \in Ops : Known(call[c].read[k], k, data, receipt)
    BY <1>1 DEF CallWell, CallRecords
  <1>3. e \in Entries /\ Known(e, o, data, receipt)
    BY <1>1, AdvancedKnown
  <1>4. ledger' = [call[c].read EXCEPT ![o] = e] /\ Stop(c) /\ UNCHANGED <<fs, calls, ghosts>>
    BY DEF AfterWrites
  <1>5. call' \in [Calls -> CallRecords] /\ Others(c) /\ call'[c] = Free
    BY <1>4, Stops DEF IInv
  <1>. HIDE DEF e, o
  <1>6. ledger' \in [Ops -> Entries] /\ \A k \in Ops : Known(ledger'[k], k, data, receipt)
    BY <1>1, <1>2, <1>3, <1>4
  <1>7. TypeOK'
    BY <1>4, <1>5, <1>6 DEF IInv, TypeOK, fs, ghosts
  <1>8. Stores'
    BY <1>4, <1>6 DEF IInv, Stores, ReceiptsBacked, CapturesCopied, AbsentUnheld,
                      ContentIsConserved, OnePlace, fs, ghosts
  <1>9. \A k \in Calls \ {c} : CallOK(k)'
    BY <1>4, <1>5, NothingGrows, OtherCalls DEF Keeps, fs, ghosts
  <1>10. CallOK(c)'
    BY <1>5, FreeWell DEF CallOK
  <1>. QED BY <1>7, <1>8, <1>9, <1>10 DEF IInv

(* Pending calls are forgotten, and hooks that read the ledger go on or end. *)
LEMMA ForgetStep ==
  ASSUME IInv, AuthorityChanges \/ PluginRestarts
  PROVE  IInv'
  <1>1. UNCHANGED <<fs, ledger, calls, ghosts>>
    BY DEF AuthorityChanges, PluginRestarts
  <1>2. ASSUME NEW c \in Calls
        PROVE  call'[c] \in {call[c], Free, [call[c] EXCEPT !.pending = FALSE]}
    BY <1>2 DEF AuthorityChanges, PluginRestarts
  <1>3. ASSUME NEW c \in Calls
        PROVE  /\ call'[c] \in CallRecords /\ CallWell(call'[c], data, receipt)
               /\ CallClear(call'[c], ws, capture, raced, edits)
    <2>1. /\ call[c] \in CallRecords /\ CallWell(call[c], data, receipt)
          /\ CallClear(call[c], ws, capture, raced, edits)
      BY DEF IInv, TypeOK, CallOK
    <2>2. CASE call'[c] = [call[c] EXCEPT !.pending = FALSE]
      BY <2>1, <2>2, ZenonT(60) DEF CallRecords, CallWell, CallClear
    <2>3. CASE call'[c] = Free
      BY <2>3, Nothings, FreeWell
    <2>4. CASE call'[c] = call[c]
      BY <2>1, <2>4
    <2>. QED BY <1>2, <2>2, <2>3, <2>4
  <1>4. call' \in [Calls -> CallRecords]
    <2>1. call' = [c \in Calls |-> call'[c]]
      BY DEF AuthorityChanges, PluginRestarts
    <2>. QED BY <1>3, <2>1
  <1>5. TypeOK'
    BY <1>1, <1>4 DEF IInv, TypeOK, fs, ghosts
  <1>6. Stores'
    BY <1>1 DEF IInv, Stores, ReceiptsBacked, CapturesCopied, AbsentUnheld, ContentIsConserved,
                OnePlace, Known, Whole, SameEvidence, fs, ghosts
  <1>7. \A c \in Calls : CallOK(c)'
    BY <1>1, <1>3 DEF CallOK, fs, ghosts
  <1>. QED BY <1>5, <1>6, <1>7 DEF IInv

-----------------------------------------------------------------------------
(* The user. *)
LEMMA EditStep ==
  ASSUME IInv, NEW p \in Paths, NEW content \in Contents \cup {None}, Edit(p, content)
  PROVE  IInv'
  <1>1. /\ edits' \in 0..MaxEdits /\ edits' # 0
        /\ raced \subseteq raced' /\ raced' \subseteq Paths
        /\ UNCHANGED <<data, receipt, capture, staging, ledger, call, calls>>
    BY ConstantTypes DEF Edit, IInv, TypeOK
  <1>2. /\ ws' \in Trees /\ ws'[p] = content /\ \A q \in Paths \ {p} : ws'[q] = ws[q]
        /\ user' \in Trees /\ user'[p] = content /\ \A q \in Paths \ {p} : user'[q] = user[q]
    BY DEF Edit, IInv, TypeOK, Trees
  <1>3. TypeOK'
    BY <1>1, <1>2 DEF IInv, TypeOK
  <1>4. Stores'
    <2>1. Stores
      BY DEF IInv
    <2>2. ReceiptsBacked' /\ CapturesCopied' /\ \A o \in Ops : Known(ledger'[o], o, data', receipt')
      BY <1>1, <2>1 DEF Stores, ReceiptsBacked, CapturesCopied
    <2>3. AbsentUnheld' /\ OnePlace'
      BY <1>1 DEF AbsentUnheld, OnePlace
    <2>4. ContentIsConserved'
      <3>1. SUFFICES ASSUME NEW q \in Paths \ raced', user'[q] # None
                     PROVE  ws'[q] = user'[q] \/ \E o \in Ops : capture'[o][q] = user'[q]
        BY DEF ContentIsConserved
      <3>2. CASE q = p
        BY <1>2, <3>2
      <3>3. CASE q # p
        BY <1>1, <1>2, <2>1, <3>1, <3>3 DEF Stores, ContentIsConserved
      <3>. QED BY <3>2, <3>3
    <2>. QED BY <2>2, <2>3, <2>4 DEF Stores
  <1>5. ASSUME NEW c \in Calls
        PROVE  CallOK(c)'
    <2>1. call[c] \in CallRecords /\ CallWell(call[c], data, receipt) /\ CallClear(call[c], ws, capture, raced, edits)
      BY DEF IInv, TypeOK, CallOK
    <2>2. Window(c, p) => p \in raced'
      BY DEF Edit
    <2>3. Keeps(call[c], ws', capture', raced', edits')
      BY <1>1, <1>2, <2>2 DEF Keeps, At, Window, Between, Does
    <2>4. CallClear(call[c], ws', capture', raced', edits')
      BY <1>1, <2>1, <2>3, ClearStays
    <2>. QED BY <1>1, <2>1, <2>4 DEF CallOK
  <1>. QED BY <1>3, <1>4, <1>5 DEF IInv

-----------------------------------------------------------------------------
LEMMA InitIInv ==
  ASSUME Init
  PROVE  IInv
  <1>1. TypeOK
    BY Nothings, ConstantTypes DEF Init, TypeOK
  <1>2. Stores
    BY DEF Init, Stores, ReceiptsBacked, CapturesCopied, AbsentUnheld, ContentIsConserved, OnePlace,
           Known, Nothing, NoReceipt, NoEntry
  <1>3. \A c \in Calls : CallOK(c)
    BY FreeWell DEF Init, CallOK
  <1>. QED BY <1>1, <1>2, <1>3 DEF IInv

LEMMA NextIInv ==
  ASSUME IInv, [Next]_vars
  PROVE  IInv'
  <1>1. ASSUME NEW c \in Calls, HookStep(c) PROVE IInv'
    <2>1. CASE AfterRefuses(c)
      BY <2>1, StopStep DEF AfterRefuses
    <2>. QED BY <1>1, <2>1, AdmitStep, AfterReadsStep, AfterWritesStep DEF HookStep
  <1>2. ASSUME NEW c \in Calls, QuarantineStep(c) PROVE IInv'
    BY <1>2, CheckStep, StageStep, WriteReceiptStep, TearReceiptStep, CapturePathStep,
       CaptureRenamesStep, CaptureVerifiesStep, CapturePutsBackStep DEF QuarantineStep
  <1>3. ASSUME NEW c \in Calls, RestoreStep(c) PROVE IInv'
    BY <1>3, CheckStep, RestoreRenamesStep, RestoreFillsStep, RestorePathStep,
       RestorePublishesStep, RestoreSettlesStep DEF RestoreStep
  <1>4. ASSUME NEW c \in Calls, InspectPasses(c) \/ ProcessStops(c) PROVE IInv'
    BY <1>4, CheckStep, StopStep DEF ProcessStops
  <1>5. CASE UNCHANGED vars
    <2>1. UNCHANGED <<ws, data, receipt, capture, staging, ledger, call, calls, user, raced, edits>>
      BY <1>5 DEF vars, fs, ghosts
    <2>2. TypeOK'
      BY <2>1 DEF IInv, TypeOK
    <2>3. Stores'
      BY <2>1 DEF IInv, Stores, ReceiptsBacked, CapturesCopied, AbsentUnheld, ContentIsConserved, OnePlace
    <2>4. \A c \in Calls : CallOK(c)'
      BY <2>1 DEF IInv, CallOK
    <2>. QED BY <2>2, <2>3, <2>4 DEF IInv
  <1>. QED BY <1>1, <1>2, <1>3, <1>4, <1>5, ForgetStep, EditStep DEF Next

LEMMA Inductive == Spec => []IInv
  <1>1. Init => IInv
    BY InitIInv
  <1>2. IInv /\ [Next]_vars => IInv'
    BY NextIInv
  <1>. QED BY <1>1, <1>2, PTL DEF Spec

(* Every variable keeps its type. *)
THEOREM QuarantineTypeCorrect == Spec => []TypeOK
  <1>1. IInv => TypeOK
    BY DEF IInv
  <1>. QED BY <1>1, Inductive, PTL

(* What the user left at a path, or was given back there, is in the        *)
(* workspace or in a capture root, however many operations and calls work  *)
(* on it, die and are tried again, unless the path was raced.              *)
THEOREM ContentConserved == Spec => []ContentIsConserved
  <1>1. IInv => ContentIsConserved
    BY DEF IInv, Stores
  <1>. QED BY <1>1, Inductive, PTL

(* While the user edits nothing, a file that at most one operation copied  *)
(* is in exactly one place, unless two helpers renamed it at once (raced). *)
THEOREM InOnePlace == Spec => []OnePlace
  <1>1. IInv => OnePlace
    BY DEF IInv, Stores
  <1>. QED BY <1>1, Inductive, PTL

(* What the ledger calls quarantined or restored has a whole receipt and   *)
(* the copy it describes, although hooks write back ledgers they read long *)
(* before.                                                                 *)
THEOREM LedgerBacked == Spec => []QuarantinedIsBacked
  <1>1. IInv => QuarantinedIsBacked
    BY DEF IInv, Stores, Known, Whole, QuarantinedIsBacked, Backed
  <1>. QED BY <1>1, Inductive, PTL
=============================================================================
