--------------------------- MODULE TargetLifecycle ---------------------------
(***************************************************************************)
(* The lifecycle of an exact-head target, as lib/operation-guard.mjs wraps *)
(* it around the core: a target is declared, its typed assessment runs,    *)
(* and the target is released by a terminal result.  One STALE result does *)
(* not release it: when the repository's own checkout (the owner) was      *)
(* clean on the base branch and merely behind the pinned base, the wrapper *)
(* persists an OWNER_RECONCILIATION capability in a file of its own, and   *)
(* reconcile-owner-base.mjs may fast-forward the owner to that base.       *)
(*                                                                         *)
(* Two files and three kinds of process meet here: the core's state file,  *)
(* the lifecycle file, the hooks of one plugin process (which await        *)
(* between what they read and what they do with it), the two helpers, and  *)
(* whoever else moves the owner or the remote.                             *)
(*                                                                         *)
(* The base branch is a chain of commits numbered from 0; Local stands for *)
(* any commit that is not on it.  A spec stands for its path, its bytes    *)
(* and its assessment id.  The core's state is changed and saved in one    *)
(* step: a reader of the file that still sees the state before is a reader *)
(* that ran earlier.                                                       *)
(***************************************************************************)
EXTENDS Naturals, FiniteSets

CONSTANTS
    Targets,      \* commits a user declares as exact head
    Calls,        \* tool calls of the plugin's sessions
    Modes,        \* the modes of a declaration: "target", "strict-start"
    Specs,        \* assessment specs: target, pinned base, and whether they
                  \* run repository-owned under base authority
    MaxBase,      \* bound: commits of the base branch after the first
    MaxEpochs,    \* bound: authority epochs
    MaxFaults,    \* bound: moves of the owner and the remote by others, and
                  \* deaths of the plugin process
    NoTarget, NoSha, Local, NoLifecycle, NoJob   \* null values

ASSUME ConstantsAssumption ==
    /\ MaxBase \in Nat /\ MaxEpochs \in Nat /\ MaxFaults \in Nat
    /\ Modes \subseteq {"target", "strict-start"}
    /\ Specs \subseteq [target : Targets, base : 0 .. MaxBase, owned : BOOLEAN]
    /\ NoTarget \notin Targets /\ NoSha \notin Nat /\ Local \notin Nat
    /\ Local # NoSha 

VARIABLES
    authority,   \* the core's binding, mode, epoch and observed head
    lifecycle,   \* the lifecycle file
    pending,     \* calls with an entry in pendingAssessments/Reconciliations
    job,         \* per call: what it runs
    pc,          \* per call: where it is
    evidence,    \* per call: what its helper printed
    owner,       \* the repository's own checkout
    remote,      \* what a fetch returns: the base, and who still has its head
    chat,        \* the chat.message hook under way
    faults,
    witnessed    \* history: <<spec, owner SHA>> an assessment saw behind

vars == <<authority, lifecycle, pending, job, pc, evidence, owner, remote,
          chat, faults, witnessed>>
world == <<owner, remote>>
files == <<authority, lifecycle>>

Commits == (0 .. MaxBase) \cup {Local}
\* merge-base --is-ancestor
Ancestor(a, b) == a # Local /\ b # Local /\ a <= b

Owners == [head : Commits, onBase : BOOLEAN, clean : BOOLEAN]
NoEvidence == [result |-> "none", initial |-> NoSha, behind |-> FALSE]
Evidence == [result : {"none", "stale", "terminal", "pass"},
             initial : Commits \cup {NoSha}, behind : BOOLEAN]
NoAuthority == [binding |-> NoTarget, mode |-> "none", epoch |-> 0, observed |-> NoSha]

Bound(a) == a.mode = "target" /\ a.binding # NoTarget
\* the lifecycle file names the target that is bound
Reconciling == lifecycle # NoLifecycle /\ Bound(authority)
               /\ lifecycle.spec.target = authority.binding

-----------------------------------------------------------------------------
(* The repository and its remote                                           *)

\* the user, another program or a command outside this model's helpers
OwnerMoves ==
    /\ faults < MaxFaults
    /\ faults' = faults + 1
    /\ \/ \E h \in Commits \ {owner.head} : owner' = [owner EXCEPT !.head = h]
       \/ owner' = [owner EXCEPT !.onBase = ~ @]
       \/ owner' = [owner EXCEPT !.clean = ~ @]
    /\ UNCHANGED <<authority, lifecycle, pending, job, pc, evidence, remote,
                   chat, witnessed>>

\* the base branch advances, or a pull request gets another head
RemoteMoves ==
    /\ faults < MaxFaults
    /\ faults' = faults + 1
    /\ \/ \E b \in (remote.base + 1) .. MaxBase :
              remote' = [remote EXCEPT !.base = b]
       \/ \E t \in remote.heads : remote' = [remote EXCEPT !.heads = @ \ {t}]
    /\ UNCHANGED <<authority, lifecycle, pending, job, pc, evidence, owner,
                   chat, witnessed>>

\* requireRemoteAuthority: fresh fetches return the pinned base and head
RemoteExact(spec) == remote.base = spec.base /\ spec.target \in remote.heads
OwnerReady == owner.onBase /\ owner.clean

-----------------------------------------------------------------------------
(* chat.message: the core's hook between two reads of the authority.  The   *)
(* first is one step with the core's: a release in between could only drop *)
(* more noted calls.                                                       *)

\* the declaration of another binding or mode is a new epoch; the same SHA
\* declared as a starting head does not touch a target; the same target
\* declared by another task rebinds its lease, in a new epoch
CoreDeclares ==
    /\ chat.at = "idle"
    /\ \/ authority' = authority
       \/ /\ authority.epoch < MaxEpochs
          /\ \E t \in Targets, m \in Modes :
                /\ ~ (authority.binding = t /\ authority.mode = "target" /\ m = "strict-start")
                /\ authority' =
                     [binding |-> t, mode |-> m, epoch |-> authority.epoch + 1,
                      observed |-> NoSha]
    /\ chat' = [at |-> "compare", before |-> authority]
    /\ UNCHANGED <<lifecycle, pending, job, pc, evidence, world, faults, witnessed>>

\* a change of the authority drops every noted call; a capability for another
\* target, or for none, is deleted
ChatCompares ==
    /\ chat.at = "compare"
    /\ LET same == /\ chat.before.epoch = authority.epoch
                   /\ chat.before.binding = authority.binding
                   /\ chat.before.mode = authority.mode
       IN  pending' = IF same THEN pending ELSE {}
    /\ lifecycle' = IF Reconciling THEN lifecycle ELSE NoLifecycle
    /\ chat' = [at |-> "idle", before |-> NoAuthority]
    /\ UNCHANGED <<authority, job, pc, evidence, world, faults, witnessed>>

\* one bare git rev-parse HEAD in the owner (a proof in a worktree of the
\* target shows the target itself, which would only refuse)
Prove ==
    /\ authority.binding # NoTarget
    /\ authority.observed = NoSha      \* bound: one proof in an epoch
    /\ authority' = [authority EXCEPT !.observed = owner.head]
    /\ UNCHANGED <<lifecycle, pending, job, pc, evidence, world, chat, faults, witnessed>>

\* releaseTargetAuthority: a strict starting head is not released
Release(a) == IF a.mode = "target"
              THEN [NoAuthority EXCEPT !.epoch = a.epoch] ELSE a

-----------------------------------------------------------------------------
(* Before a call: the wrapper reads both files, checks, notes the call     *)

\* an assessment without a bound target is not noted; a target that waits
\* for its reconciliation is not assessed again
AdmitAssessment(c) ==
    \E s \in Specs :
        /\ Bound(authority) => /\ ~ Reconciling
                               /\ s.target = authority.binding
        /\ job' = [job EXCEPT ![c] = [kind |-> "assess", spec |-> s, old |-> NoSha,
                                      noted |-> Bound(authority), epoch |-> 0]]

\* bug: any spec of the bound target will do
AdmitReconciliationOfAnySpec(c) ==
    /\ Reconciling
    /\ \E s \in Specs : job' = [job EXCEPT ![c] =
          [kind |-> "reconcile", spec |-> s, old |-> lifecycle.owner, noted |-> TRUE, epoch |-> 0]]

\* the exact capability: this spec, the recorded owner, and no newer proof of
\* another owner HEAD
AdmitReconciliation(c) ==
    /\ Reconciling
    /\ lifecycle.spec.owned
    /\ authority.observed \in {NoSha, lifecycle.owner}
    /\ job' = [job EXCEPT ![c] = [kind |-> "reconcile", spec |-> lifecycle.spec,
                                  old |-> lifecycle.owner, noted |-> TRUE, epoch |-> 0]]

Before(c) ==
    /\ pc[c] = "idle"
    /\ AdmitAssessment(c) \/ AdmitReconciliation(c)
    /\ pc' = [pc EXCEPT ![c] = "admitted"]
    /\ UNCHANGED <<files, pending, evidence, world, chat, faults, witnessed>>

\* the entry is made after the spec was loaded; a call the core's own hook
\* then refuses never runs, and its entry is never taken
Launch(c) ==
    /\ pc[c] = "admitted"
    /\ pending' = IF job[c].noted THEN pending \cup {c} ELSE pending
    /\ pc' = [pc EXCEPT ![c] = "run"]
    /\ UNCHANGED <<files, job, evidence, world, chat, faults, witnessed>>

-----------------------------------------------------------------------------
(* local-agent-assessment: what its summary says of owner and remote       *)

Ends(c) == /\ pc' = [pc EXCEPT ![c] = "idle"]
           /\ job' = [job EXCEPT ![c] = NoJob]
           /\ evidence' = [evidence EXCEPT ![c] = NoEvidence]

\* the result of a helper that outlived the plugin reaches nobody
Finish(c, e) ==
    IF job[c].kind = "orphan" THEN Ends(c)
    ELSE /\ pc' = [pc EXCEPT ![c] = "done"]
         /\ evidence' = [evidence EXCEPT ![c] = e]
         /\ job' = job

AssessmentEnds(c) ==
    /\ pc[c] = "run" /\ job[c].kind = "assess"
    /\ LET s == job[c].spec
           behind == /\ s.owned /\ OwnerReady /\ RemoteExact(s)
                     /\ owner.head # s.base /\ Ancestor(owner.head, s.base)
       IN  /\ \/ Finish(c, NoEvidence)      \* interrupted, or output cut
              \/ Finish(c, [result |-> "terminal", initial |-> NoSha, behind |-> FALSE])
              \/ /\ behind \/ ~ RemoteExact(s) \/ owner.head # s.base
                 /\ Finish(c, [result |-> "stale", initial |-> owner.head, behind |-> behind])
           /\ witnessed' = IF behind THEN witnessed \cup {<<s, owner.head>>} ELSE witnessed
    /\ UNCHANGED <<files, pending, world, chat, faults>>

-----------------------------------------------------------------------------
(* reconcile-owner-base: look twice, fetch twice, fast-forward, look again *)

Fails(c) == /\ Finish(c, NoEvidence)
            /\ UNCHANGED <<files, pending, world, chat, faults, witnessed>>

OwnerAsExpected(c) == OwnerReady /\ owner.head = job[c].old

ChecksOwner(c) ==
    /\ pc[c] = "run" /\ job[c].kind # "assess"
    /\ \/ /\ OwnerAsExpected(c) /\ RemoteExact(job[c].spec)
          /\ Ancestor(job[c].old, job[c].spec.base)
          /\ pc' = [pc EXCEPT ![c] = "checked"]
          /\ UNCHANGED <<files, pending, job, evidence, world, chat, faults, witnessed>>
       \/ /\ ~ (OwnerAsExpected(c) /\ RemoteExact(job[c].spec)
                 /\ Ancestor(job[c].old, job[c].spec.base))
          /\ Fails(c)

ChecksAgain(c) ==
    /\ pc[c] = "checked"
    /\ IF OwnerAsExpected(c) /\ RemoteExact(job[c].spec)
       THEN /\ pc' = [pc EXCEPT ![c] = "verified"]
            /\ UNCHANGED <<files, pending, job, evidence, world, chat, faults, witnessed>>
       ELSE Fails(c)

\* git merge --ff-only of the pinned base into whatever is checked out now;
\* local changes may or may not be in its way
FastForwards(c) ==
    /\ pc[c] = "verified"
    /\ LET base == job[c].spec.base
       IN  \/ /\ Ancestor(owner.head, base) \/ Ancestor(base, owner.head)
              /\ owner' = IF Ancestor(owner.head, base)
                          THEN [owner EXCEPT !.head = base] ELSE owner
              /\ pc' = [pc EXCEPT ![c] = "merged"]
              /\ UNCHANGED <<files, pending, job, evidence, remote, chat,
                             faults, witnessed>>
           \/ /\ ~ owner.clean \/ owner.head = Local
              /\ Fails(c)

ProvesResult(c) ==
    /\ pc[c] = "merged"
    /\ IF OwnerReady /\ owner.head = job[c].spec.base /\ RemoteExact(job[c].spec)
       THEN Finish(c, [result |-> "pass", initial |-> NoSha, behind |-> FALSE])
       ELSE Finish(c, NoEvidence)
    /\ UNCHANGED <<files, pending, world, chat, faults, witnessed>>

-----------------------------------------------------------------------------
(* After a call: the wrapper judges the result, the core acts on it, then  *)
(* the wrapper writes or clears the lifecycle file                         *)

\* bug: any STALE counts as the owner being behind
AnyStale(c) == evidence[c].result = "stale"

\* ownerBaseStaleOwnerSha
ReconcilableStale(c) ==
    /\ evidence[c].result = "stale" /\ evidence[c].behind
    /\ authority.observed \in {NoSha, evidence[c].initial}

\* bug: the target bound by now is not compared with the one admitted
MatchesAnyTarget(c) ==
    /\ Bound(authority)
    /\ evidence[c].result # "none"
    /\ job[c].kind # "assess" => lifecycle # NoLifecycle /\ lifecycle.spec = job[c].spec

\* assessmentMatchesPending, reconciliationMatchesPending
Matches(c) ==
    /\ Bound(authority) /\ authority.binding = job[c].spec.target
    /\ IF job[c].kind = "assess"
       THEN evidence[c].result \in {"stale", "terminal"}
       ELSE /\ evidence[c].result = "pass"
            /\ lifecycle # NoLifecycle
            /\ lifecycle.spec = job[c].spec /\ lifecycle.owner = job[c].old

\* the core gets the result with its result line renamed
Rejects(c) ==
    \/ c \notin pending /\ Bound(authority)
    \/ c \in pending /\ ~ Matches(c)

\* the entry is taken, the authority read again
Judges(c) ==
    /\ pc[c] = "done"
    /\ pending' = pending \ {c}
    /\ \/ Rejects(c) /\ Ends(c)
       \/ /\ ~ Rejects(c)
          /\ pc' = [pc EXCEPT ![c] =
                      IF /\ c \in pending /\ evidence[c].result = "stale"
                         /\ ~ ReconcilableStale(c)
                      THEN "clear" ELSE "accepted"]
          /\ job' = [job EXCEPT ![c].epoch = authority.epoch,
                                ![c].noted = c \in pending]
          /\ UNCHANGED evidence
    /\ UNCHANGED <<files, world, chat, faults, witnessed>>

\* the core's own after-hook: whatever target is bound by now is released by
\* a terminal result
CoreActs(c) ==
    /\ pc[c] = "accepted"
    /\ authority' = IF evidence[c].result \in {"terminal", "pass"}
                    THEN Release(authority) ELSE authority
    /\ \/ /\ job[c].noted
          /\ pc' = [pc EXCEPT ![c] = IF evidence[c].result = "stale" THEN "write" ELSE "clear"]
          /\ UNCHANGED <<job, evidence>>
       \/ ~ job[c].noted /\ Ends(c)
    /\ UNCHANGED <<lifecycle, pending, world, chat, faults, witnessed>>

WritesLifecycle(c) ==
    /\ pc[c] = "write"
    /\ lifecycle' = [spec |-> job[c].spec, owner |-> evidence[c].initial]
    /\ Ends(c)
    /\ UNCHANGED <<authority, pending, world, chat, faults, witnessed>>

ClearsLifecycle(c) ==
    /\ pc[c] = "clear"
    /\ lifecycle' = NoLifecycle
    /\ Ends(c)
    /\ UNCHANGED <<authority, pending, world, chat, faults, witnessed>>

\* the plugin process dies: hooks and entries are lost, helpers run on
Crash ==
    /\ faults < MaxFaults
    /\ faults' = faults + 1
    /\ pending' = {}
    /\ chat' = [at |-> "idle", before |-> NoAuthority]
    /\ LET Lives(c) == pc[c] \in {"run", "checked", "verified"} /\ job[c].kind # "assess"
       IN  /\ pc' = [c \in Calls |-> IF Lives(c) THEN pc[c] ELSE "idle"]
           /\ job' = [c \in Calls |-> IF Lives(c) THEN [job[c] EXCEPT !.kind = "orphan"]
                                      ELSE NoJob]
           /\ evidence' = [c \in Calls |-> NoEvidence]
    /\ UNCHANGED <<files, world, witnessed>>

-----------------------------------------------------------------------------
Init ==
    /\ authority = NoAuthority /\ lifecycle = NoLifecycle
    /\ pending = {} /\ witnessed = {}
    /\ job = [c \in Calls |-> NoJob] /\ pc = [c \in Calls |-> "idle"]
    /\ evidence = [c \in Calls |-> NoEvidence]
    /\ owner = [head |-> 0, onBase |-> TRUE, clean |-> TRUE]
    /\ remote \in [base : 0 .. MaxBase, heads : {Targets}]
    /\ chat = [at |-> "idle", before |-> NoAuthority]
    /\ faults = 0

Step(c) ==
    \/ Before(c) \/ Launch(c) \/ AssessmentEnds(c)
    \/ ChecksOwner(c) \/ ChecksAgain(c) \/ FastForwards(c) \/ ProvesResult(c)
    \/ Judges(c) \/ CoreActs(c)
    \/ WritesLifecycle(c) \/ ClearsLifecycle(c)

Next ==
    \/ CoreDeclares \/ ChatCompares \/ Prove
    \/ \E c \in Calls : Step(c)
    \/ OwnerMoves \/ RemoteMoves \/ Crash

Spec == Init /\ [][Next]_vars

-----------------------------------------------------------------------------
Jobs == [kind : {"assess", "reconcile", "orphan"}, spec : Specs,
         old : Commits \cup {NoSha}, noted : BOOLEAN, epoch : 0 .. MaxEpochs]
Authorities ==
    [binding : Targets \cup {NoTarget}, mode : {"none", "target", "strict-start"},
     epoch : 0 .. MaxEpochs, observed : Commits \cup {NoSha}]

TypeOK ==
    /\ authority \in Authorities
    /\ lifecycle \in [spec : Specs, owner : Commits] \cup {NoLifecycle}
    /\ pending \subseteq Calls
    /\ job \in [Calls -> Jobs \cup {NoJob}]
    /\ pc \in [Calls -> {"idle", "admitted", "run", "checked", "verified", "merged",
                         "done", "accepted", "write", "clear"}]
    /\ evidence \in [Calls -> Evidence]
    /\ owner \in Owners
    /\ remote \in [base : 0 .. MaxBase, heads : SUBSET Targets]
    /\ chat \in [at : {"idle", "compare"}, before : Authorities]
    /\ faults \in 0 .. MaxFaults
    /\ witnessed \subseteq (Specs \X Commits)

\* The persisted capability is what an assessment of that very spec saw: the
\* owner clean on the base branch, behind the base the spec pins, while the
\* remote still had that base and that target (ownerBaseStaleOwnerSha).
LifecycleIsBacked ==
    lifecycle # NoLifecycle => <<lifecycle.spec, lifecycle.owner>> \in witnessed

\* The helper moves the owner only for a capability some assessment backs,
\* and to the base that assessment pinned, also when the file, the target or
\* the whole plugin are gone by then.
MovesOnBackedCapability ==
    [][\A c \in Calls :
          pc[c] = "verified" /\ owner' # owner
              => \/ faults' # faults \/ pc'[c] = pc[c]
                 \/ /\ <<job[c].spec, job[c].old>> \in witnessed
                    /\ Ancestor(job[c].old, owner'.head)
                    /\ owner'.head = job[c].spec.base]_vars

\* A result releases the target, or writes the capability, of the very target
\* it is about, unless another declaration slipped in after its hook had read
\* the authority.
Releases(c) == pc[c] = "accepted" /\ pc'[c] # "accepted" /\ faults' = faults
               /\ authority' # authority
Persists(c) == pc[c] = "write" /\ lifecycle' # lifecycle /\ lifecycle' # NoLifecycle
ActsForItsTargetUnlessRaced ==
    [][\A c \in Calls :
          LET raced == job[c].epoch # authority.epoch
              own   == job[c].spec.target
          IN  /\ Releases(c) => raced \/ authority.binding = own
              /\ Persists(c) => raced \/ authority.binding \in {own, NoTarget}]_vars

\* README.md:17: "Target authority stays bound until its recognized
\* terminal/reconciliation release".
StaysBoundUntilItsRelease ==
    [][\A c \in Calls : Releases(c) => authority.binding = job[c].spec.target]_vars
=============================================================================
