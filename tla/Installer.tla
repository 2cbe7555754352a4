------------------------------ MODULE Installer ------------------------------
(***************************************************************************)
(* scripts/install-live-plugin.mjs: the program that replaces the live     *)
(* plugin directory by a merged commit, and takes an interrupted           *)
(* replacement back.  Several invocations may run at once and each may be  *)
(* killed at any step; what is on disk is all they share.                  *)
(*                                                                         *)
(* A directory is named by the promotion that copied it (Original: what    *)
(* was live at first), so that renames keep its identity as they keep its  *)
(* inode.  A promotion is named by its receipt; a plan promoted twice      *)
(* under two receipts is two plans here.  A validation compares trees; any *)
(* of them, and any file operation, may also fail for reasons of its own   *)
(* (StepFails, SwapInFails, ValidationFails).                              *)
(***************************************************************************)
EXTENDS Naturals, FiniteSets

CONSTANTS Invocations,   \* processes, each runs one command once
          Receipts,      \* promotions
          Trees,         \* Git trees a commit can have
          Configs,       \* contents of opencode.json
          Original, InitialTree,
          NoDir, NoPlan, NoLock, NoReceipt

ASSUME InstallerAssumption ==
    /\ InitialTree \in Trees
    /\ Original \notin Receipts
    /\ NoDir \notin Receipts \cup {Original}
    /\ NoReceipt \notin Receipts
    /\ NoLock \notin [owner : Invocations, written : BOOLEAN]
    /\ NoPlan \notin [prior : Receipts \cup {Original}, merged : Trees, config : Configs]

VARIABLES
    live,         \* the directory at the live root
    config,       \* the live configuration, which the operator may edit
    lock,         \* the lock file
    plan,         \* the prepared plan of a promotion
    receipt,      \* the receipt file of a promotion, its recovery journal
    incoming, superseded, failed,    \* a promotion's directories beside the live root
    proc,         \* the invocations
    raced         \* ways in which two invocations have got in each other's way

disk == <<live, config, lock, plan, receipt, incoming, superseded, failed>>
vars == <<live, config, lock, plan, receipt, incoming, superseded, failed, proc, raced>>

Dirs == Receipts \cup {Original}
Plan == [prior : Dirs, merged : Trees, config : Configs]
Lock == [owner : Invocations, written : BOOLEAN]
ReceiptState == {"absent", "pending", "armed", "pass", "recovered"}

(* The steps of an invocation that holds the lock. *)
Holding == {"held", "checked", "armed", "away", "in", "valid", "undo", "undone",
            "restoring", "restored", "exit"}
Steps == Holding \cup {"new", "lock", "create", "stale", "reclaim", "cleanup", "end", "crashed"}
Proc == [at : Steps, recovers : BOOLEAN, r : Receipts \cup {NoReceipt}, saw : Lock \cup {NoLock}]

TypeOK ==
    /\ live \in Dirs \cup {NoDir}
    /\ config \in Configs
    /\ lock \in Lock \cup {NoLock}
    /\ plan \in [Receipts -> Plan \cup {NoPlan}]
    /\ receipt \in [Receipts -> ReceiptState]
    /\ incoming \in [Receipts -> Dirs \cup {NoDir}]
    /\ superseded \in [Receipts -> Dirs \cup {NoDir}]
    /\ failed \in [Receipts -> Dirs \cup {NoDir}]
    /\ proc \in [Invocations -> Proc]
    /\ raced \subseteq {"lock", "journal", "later"}

Init ==
    /\ live = Original
    /\ config \in Configs
    /\ lock = NoLock
    /\ plan = [r \in Receipts |-> NoPlan]
    /\ receipt = [r \in Receipts |-> "absent"]
    /\ incoming = [r \in Receipts |-> NoDir]
    /\ superseded = [r \in Receipts |-> NoDir]
    /\ failed = [r \in Receipts |-> NoDir]
    /\ proc = [i \in Invocations |->
                  [at |-> "new", recovers |-> FALSE, r |-> NoReceipt, saw |-> NoLock]]
    /\ raced = {}

(* What validateTreeAgainstCommit computes from a directory. *)
TreeOf(d) == IF d = Original THEN InitialTree ELSE plan[d].merged

(* processIsAlive: a crashed or finished invocation is gone. *)
Alive(i) == proc[i].at \notin {"new", "end", "crashed"}

At(i, steps) == proc[i].at \in steps
Promotes(i) == ~proc[i].recovers
Go(i, step) == proc' = [proc EXCEPT ![i].at = step]
WriteReceipt(r, state) == receipt' = [receipt EXCEPT ![r] = state]

-----------------------------------------------------------------------------
(* prepare: stages the merged tree, and notes which directory and which    *)
(* configuration it found.  It takes no lock.                              *)
Prepare(r, tree) ==
    /\ plan[r] = NoPlan
    /\ live # NoDir
    /\ plan' = [plan EXCEPT ![r] = [prior |-> live, merged |-> tree, config |-> config]]
    /\ UNCHANGED <<live, config, lock, receipt, incoming, superseded, failed, proc, raced>>

EditConfig ==
    /\ config' \in Configs \ {config}
    /\ UNCHANGED <<live, lock, plan, receipt, incoming, superseded, failed, proc, raced>>

(* promote up to the lock: the receipt is created exclusively. *)
PromoteBegins(i, r) ==
    /\ At(i, {"new"})
    /\ plan[r] # NoPlan
    /\ receipt[r] = "absent"
    /\ WriteReceipt(r, "pending")
    /\ proc' = [proc EXCEPT ![i] =
                  [at |-> "lock", recovers |-> FALSE, r |-> r, saw |-> NoLock]]
    /\ UNCHANGED <<live, config, lock, plan, incoming, superseded, failed, raced>>

(* recover up to the lock: the journal is read here and not again. *)
RecoverBegins(i, r) ==
    /\ At(i, {"new"})
    /\ receipt[r] = "armed"
    /\ proc' = [proc EXCEPT ![i] =
                  [at |-> "lock", recovers |-> TRUE, r |-> r, saw |-> NoLock]]
    /\ UNCHANGED <<disk, raced>>

-----------------------------------------------------------------------------
(* acquireLock: an exclusive create, then the record. *)
CreateLock(i) ==
    /\ At(i, {"lock", "reclaim"})
    /\ lock = NoLock
    /\ lock' = [owner |-> i, written |-> FALSE]
    /\ Go(i, "create")
    /\ UNCHANGED <<live, config, plan, receipt, incoming, superseded, failed, raced>>

(* The record goes to the open file, wherever its name is by now. *)
WriteLock(i) ==
    /\ At(i, {"create"})
    /\ lock' = IF lock = [owner |-> i, written |-> FALSE]
               THEN [owner |-> i, written |-> TRUE] ELSE lock
    /\ Go(i, "held")
    /\ UNCHANGED <<live, config, plan, receipt, incoming, superseded, failed, raced>>

(* Mutant: the owner's process is not looked for. *)
ReclaimableAnyOwner(l) == l # NoLock /\ l.written

Reclaimable(l) == l # NoLock /\ l.written /\ ~Alive(l.owner)

(* The two inspections of an existing lock agree, and its owner is gone. *)
InspectLock(i) ==
    /\ At(i, {"lock"})
    /\ Reclaimable(lock)
    /\ proc' = [proc EXCEPT ![i] = [@ EXCEPT !.at = "stale", !.saw = lock]]
    /\ UNCHANGED <<disk, raced>>

(* unlink removes what has the name now, not what was inspected. *)
UnlinkLock(i) ==
    /\ At(i, {"stale"})
    /\ lock # NoLock
    /\ lock' = NoLock
    /\ raced' = IF lock = proc[i].saw THEN raced ELSE raced \cup {"lock"}
    /\ Go(i, "reclaim")
    /\ UNCHANGED <<live, config, plan, receipt, incoming, superseded, failed>>

(* INSTALL_LOCKED, or an unlink of a lock that is already gone. *)
LockRefused(i) ==
    /\ \/ At(i, {"lock"}) /\ lock # NoLock /\ ~Reclaimable(lock)
       \/ At(i, {"reclaim"}) /\ lock # NoLock
       \/ At(i, {"stale"}) /\ lock = NoLock
    /\ Go(i, "cleanup")
    /\ UNCHANGED <<disk, raced>>

(* releaseLock removes the caller's own record only. *)
ReleaseLock(i) ==
    /\ At(i, {"exit"})
    /\ lock' = IF lock # NoLock /\ lock.owner = i THEN NoLock ELSE lock
    /\ Go(i, "cleanup")
    /\ UNCHANGED <<live, config, plan, receipt, incoming, superseded, failed, raced>>

(* The outer finally of promote: a receipt that was not armed is withdrawn. *)
Cleanup(i) ==
    /\ At(i, {"cleanup"})
    /\ LET r == proc[i].r
       IN  receipt' = IF Promotes(i) /\ receipt[r] = "pending"
                      THEN [receipt EXCEPT ![r] = "absent"] ELSE receipt
    /\ Go(i, "end")
    /\ UNCHANGED <<live, config, lock, plan, incoming, superseded, failed, raced>>

(* A process dies; a file operation or a check under the lock fails. *)
Crash(i) ==
    /\ Alive(i)
    /\ Go(i, "crashed")
    /\ UNCHANGED <<disk, raced>>

StepFails(i) ==
    /\ At(i, Holding \ {"away", "in", "exit"})
    /\ Go(i, "exit")
    /\ UNCHANGED <<disk, raced>>

-----------------------------------------------------------------------------
(* promote under the lock. *)
CheckPreconditions(i) ==
    /\ At(i, {"held"}) /\ Promotes(i)
    /\ LET p == plan[proc[i].r]
       IN  live = p.prior /\ config = p.config
    /\ Go(i, "checked")
    /\ UNCHANGED <<disk, raced>>

(* Mutant: the journal is left for later. *)
ArmWithoutJournal(i) ==
    LET r == proc[i].r
    IN  /\ At(i, {"checked"})
        /\ live # NoDir
        /\ TreeOf(live) = TreeOf(plan[r].prior)
        /\ config = plan[r].config
        /\ incoming' = [incoming EXCEPT ![r] = r]
        /\ Go(i, "armed")
        /\ UNCHANGED <<live, config, lock, plan, receipt, superseded, failed, raced>>

(* Backups and the incoming copy are made and validated, then the journal  *)
(* is armed.                                                               *)
Arm(i) ==
    LET r == proc[i].r
    IN  /\ At(i, {"checked"})
        /\ live # NoDir
        /\ TreeOf(live) = TreeOf(plan[r].prior)
        /\ config = plan[r].config
        /\ receipt[r] = "pending"
        /\ incoming' = [incoming EXCEPT ![r] = r]
        /\ WriteReceipt(r, "armed")
        /\ Go(i, "armed")
        /\ UNCHANGED <<live, config, lock, plan, superseded, failed, raced>>

SwapOut(i) ==
    LET r == proc[i].r
    IN  /\ At(i, {"armed"})
        /\ live # NoDir
        /\ superseded' = [superseded EXCEPT ![r] = live]
        /\ live' = NoDir
        /\ Go(i, "away")
        /\ UNCHANGED <<config, lock, plan, receipt, incoming, failed, raced>>

SwapIn(i) ==
    LET r == proc[i].r
    IN  /\ At(i, {"away"})
        /\ live = NoDir
        /\ live' = incoming[r]
        /\ incoming' = [incoming EXCEPT ![r] = NoDir]
        /\ Go(i, "in")
        /\ UNCHANGED <<config, lock, plan, receipt, superseded, failed, raced>>

(* The candidate could not be renamed: the prior source is put back, or    *)
(* that fails too.                                                         *)
SwapInFails(i) ==
    LET r == proc[i].r
    IN  /\ At(i, {"away"})
        /\ \/ /\ live = NoDir
              /\ live' = superseded[r]
              /\ superseded' = [superseded EXCEPT ![r] = NoDir]
           \/ UNCHANGED <<live, superseded>>
        /\ Go(i, "exit")
        /\ UNCHANGED <<config, lock, plan, receipt, incoming, failed, raced>>

ValidationPasses(i) ==
    LET r == proc[i].r
    IN  /\ At(i, {"in"})
        /\ live # NoDir
        /\ TreeOf(live) = plan[r].merged
        /\ config = plan[r].config
        /\ Go(i, "valid")
        /\ UNCHANGED <<disk, raced>>

ValidationFails(i) ==
    /\ At(i, {"in"})
    /\ Go(i, "undo")
    /\ UNCHANGED <<disk, raced>>

(* rollbackSwap, one rename at a time. *)
UndoOut(i) ==
    LET r == proc[i].r
    IN  /\ At(i, {"undo"})
        /\ failed' = IF live = NoDir THEN failed ELSE [failed EXCEPT ![r] = live]
        /\ live' = NoDir
        /\ Go(i, "undone")
        /\ UNCHANGED <<config, lock, plan, receipt, incoming, superseded, raced>>

UndoIn(i) ==
    LET r == proc[i].r
    IN  /\ At(i, {"undone"})
        /\ live = NoDir
        /\ superseded[r] # NoDir
        /\ live' = superseded[r]
        /\ superseded' = [superseded EXCEPT ![r] = NoDir]
        /\ Go(i, "exit")
        /\ UNCHANGED <<config, lock, plan, receipt, incoming, failed, raced>>

(* Mutant: PASS is written before the candidate is validated. *)
CommitBeforeValidation(i) ==
    LET r == proc[i].r
    IN  /\ At(i, {"in"})
        /\ receipt[r] = "armed"
        /\ WriteReceipt(r, "pass")
        /\ Go(i, "in")
        /\ UNCHANGED <<live, config, lock, plan, incoming, superseded, failed, raced>>

(* replaceReservedJson: the receipt is still the one this promotion armed. *)
Commit(i) ==
    LET r == proc[i].r
    IN  /\ At(i, {"valid"})
        /\ receipt[r] = "armed"
        /\ WriteReceipt(r, "pass")
        /\ Go(i, "exit")
        /\ UNCHANGED <<live, config, lock, plan, incoming, superseded, failed, raced>>

-----------------------------------------------------------------------------
(* recover under the lock.  The directories decide what is done, whatever  *)
(* became of the journal since it was read and of the live root since the  *)
(* promotion.                                                              *)
RecoverDecides(i) ==
    LET r == proc[i].r
    IN  /\ At(i, {"held"}) /\ ~Promotes(i)
        /\ config = plan[r].config
        /\ \/ /\ superseded[r] = NoDir
              /\ live # NoDir
              /\ Go(i, "restored")
              /\ UNCHANGED <<live, failed, raced>>
           \/ /\ superseded[r] # NoDir
              /\ TreeOf(superseded[r]) = TreeOf(plan[r].prior)
              /\ live # NoDir => failed[r] = NoDir
              /\ failed' = IF live = NoDir THEN failed ELSE [failed EXCEPT ![r] = live]
              /\ live' = NoDir
              /\ Go(i, "restoring")
              /\ raced' = raced \cup (IF receipt[r] = "armed" THEN {} ELSE {"journal"})
                                \cup (IF \E s \in Receipts : superseded[s] = r THEN {"later"} ELSE {})
        /\ UNCHANGED <<config, lock, plan, receipt, incoming, superseded>>

RestorePrior(i) ==
    LET r == proc[i].r
    IN  /\ At(i, {"restoring"})
        /\ live = NoDir
        /\ superseded[r] # NoDir
        /\ live' = superseded[r]
        /\ superseded' = [superseded EXCEPT ![r] = NoDir]
        /\ Go(i, "restored")
        /\ UNCHANGED <<config, lock, plan, receipt, incoming, failed, raced>>

RecoveryRecorded(i) ==
    LET r == proc[i].r
    IN  /\ At(i, {"restored"})
        /\ live # NoDir
        /\ TreeOf(live) = TreeOf(plan[r].prior)
        /\ config = plan[r].config
        /\ receipt[r] = "armed"
        /\ WriteReceipt(r, "recovered")
        /\ Go(i, "exit")
        /\ UNCHANGED <<live, config, lock, plan, incoming, superseded, failed, raced>>

-----------------------------------------------------------------------------
LockStep(i) == \/ CreateLock(i) \/ WriteLock(i) \/ InspectLock(i) \/ UnlinkLock(i)
               \/ LockRefused(i) \/ ReleaseLock(i) \/ Cleanup(i)
PromoteStep(i) == \/ CheckPreconditions(i) \/ Arm(i) \/ SwapOut(i) \/ SwapIn(i)
                  \/ SwapInFails(i) \/ ValidationPasses(i) \/ ValidationFails(i)
                  \/ UndoOut(i) \/ UndoIn(i) \/ Commit(i)
RecoverStep(i) == RecoverDecides(i) \/ RestorePrior(i) \/ RecoveryRecorded(i)

Next ==
    \/ EditConfig
    \/ \E r \in Receipts, tree \in Trees : Prepare(r, tree)
    \/ \E i \in Invocations :
          \/ \E r \in Receipts : PromoteBegins(i, r) \/ RecoverBegins(i, r)
          \/ LockStep(i) \/ PromoteStep(i) \/ RecoverStep(i)
          \/ Crash(i) \/ StepFails(i)

Spec == Init /\ [][Next]_vars

-----------------------------------------------------------------------------
(* One invocation at a time is between the lock and its release, unless a  *)
(* stale lock was reclaimed by two of them (acquireLock).                  *)
OneHolder ==
    "lock" \notin raced =>
        \A i, j \in Invocations : At(i, Holding) /\ At(j, Holding) => i = j

(* While the live root is missing, an armed journal names the source to    *)
(* put back, and that source is where the journal says it is (promote's    *)
(* order of journal and renames, recover's own renames).  As long as no    *)
(* two invocations were in each other's way (raced): no stale lock         *)
(* reclaimed twice, no recovery by a journal another one consumed          *)
(* meanwhile, none of a promotion that a later one builds on.              *)
MissingRootIsRecoverable ==
    raced = {} /\ live = NoDir =>
        \E r \in Receipts : receipt[r] = "armed" /\ superseded[r] = plan[r].prior

(* What a PASS receipt certifies is live, or was superseded by a later     *)
(* promotion that still keeps it; it is never set aside as failed.  Again  *)
(* unless invocations were in each other's way (raced).                    *)
CertifiedIsKept ==
    raced = {} =>
        \A r \in Receipts : receipt[r] = "pass" =>
            live = r \/ \E s \in Receipts : superseded[s] = r

(* A journal whose promotion has displaced a source can be consumed:       *)
(* however often promote, its rollback and recover itself were killed,     *)
(* recover finds a case it handles, unless invocations were in each        *)
(* other's way (raced).                                                    *)
JournalsCanBeConsumed ==
    raced = {} =>
        \A r \in Receipts : receipt[r] = "armed" /\ superseded[r] # NoDir =>
            superseded[r] = plan[r].prior /\ (live # NoDir => failed[r] = NoDir)

(* The usage text of recover: it consumes an armed journal and restores    *)
(* the prior source after an interrupted swap.  So a source goes back to   *)
(* the live root only while its journal is armed.                          *)
RestoresOnlyFromArmedJournal ==
    [][\A r \in Receipts :
          superseded[r] # NoDir /\ superseded'[r] = NoDir => receipt[r] = "armed"]_vars
=============================================================================
