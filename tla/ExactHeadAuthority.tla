-------------------------- MODULE ExactHeadAuthority --------------------------
(***************************************************************************)
(* The exact-head authority of lib/operation-guard-core.mjs: declarations, *)
(* target setups and HEAD proofs of several primary sessions, the lease a  *)
(* proof issues, and the delegations, their one resume and their child     *)
(* sessions, which all depend on that lease, beside a user who moves heads *)
(* and replaces worktrees.                                                 *)
(*                                                                         *)
(* Delegations are numbered in the order of their launch; a child session  *)
(* has the number of the delegation that created it.  The workspace head   *)
(* kept for the planner is left out.  A refusal that changes nothing is    *)
(* the choice not to act.                                                  *)
(***************************************************************************)
EXTENDS Naturals, FiniteSets

CONSTANTS Heads, Primaries, Modes, None,
          MaxEpochs, MaxLeases, MaxTasks,
          MaxOps,    \* bound on the setups and proofs in flight at once
          MaxMoves   \* bound on what the user does to the worktrees

ASSUME AuthorityAssumption ==
    /\ None \notin Heads \cup Primaries /\ Modes \subseteq {"target", "strict-start"}
    /\ {MaxEpochs, MaxLeases, MaxTasks, MaxOps, MaxMoves} \subseteq Nat

VARIABLES
    wt,      \* head and identity of the governed checkout and of a linked worktree
    safety,  \* the authority fields of the workspace state
    op,      \* the shell call of each primary that sets up or proves a target
    task,    \* pendingTasks, and what became of them
    again,   \* resumableTasks
    child,   \* the child sessions and their lease bindings
    proved,  \* epoch in which the proof behind the status was admitted
    moves    \* moves of the user so far

envs == <<wt, moves>>
vars == <<envs, safety, op, task, again, child, proved>>

Trees == {"owner", "linked"}
Absent == [head |-> None, mark |-> 0]
Marks == 0..2 * (MaxTasks + 2)
Checkouts == [head : Heads \cup {None}, mark : Marks]
Snapshots == [Trees -> Checkouts]
Tasks == 1..MaxTasks

NoLease == [st |-> "none", id |-> 0, task |-> None, tree |-> "owner", at |-> [w \in Trees |-> Absent]]
Leases == [st : {"none", "valid", "invalid"}, id : 0..MaxLeases, task : Primaries \cup {None},
           tree : Trees, at : Snapshots]

Bare == [binding |-> None, mode |-> "none", status |-> "none", epoch |-> 0,
         proofs |-> {}, lease |-> NoLease]
Authorities ==
    [binding : Heads \cup {None}, mode : Modes \cup {"none"},
     status : {"none", "pending", "verified", "mismatch"}, epoch : 0..MaxEpochs,
     proofs : SUBSET Trees, lease : Leases]
Admissions == [binding : Heads, mode : Modes, epoch : 0..MaxEpochs]
NoOp == [kind |-> "none", tree |-> "owner", adm |-> None, ran |-> FALSE, seen |-> None]
NoTask == [st |-> "none", by |-> None, lease |-> 0, resume |-> 0, at |-> [w \in Trees |-> Absent]]
NoAgain == [st |-> "none", by |-> None, lease |-> 0]
NoChild == [run |-> 0, lease |-> 0, task |-> 0, stop |-> FALSE]

(* Binding, mode and status are all there or all undefined. *)
TypeOK ==
    /\ wt \in Snapshots /\ moves \in 0..MaxMoves
    /\ safety \in Authorities
    /\ (safety.binding = None) = (safety.mode = "none")
    /\ (safety.binding = None) = (safety.status = "none")
    /\ op \in [Primaries -> [kind : {"none", "setup", "proof"}, tree : Trees, ran : BOOLEAN,
                             adm : Admissions \cup {None}, seen : Heads \cup {None}]]
    /\ task \in [Tasks -> [st : {"none", "pending", "drifted", "ended"},
                           by : Primaries \cup {None}, lease : 0..MaxLeases,
                           resume : 0..MaxTasks, at : Snapshots]]
    /\ again \in [Tasks -> [st : {"none", "fresh", "used"}, by : Primaries \cup {None},
                            lease : 0..MaxLeases]]
    /\ child \in [Tasks -> [run : 0..MaxTasks, lease : 0..MaxLeases, task : 0..MaxTasks,
                            stop : BOOLEAN]]
    /\ proved \in 0..MaxEpochs

Init ==
    /\ \E h \in Heads : wt = [w \in Trees |-> IF w = "owner" THEN [head |-> h, mark |-> 0] ELSE Absent]
    /\ safety = Bare /\ op = [p \in Primaries |-> NoOp]
    /\ task = [d \in Tasks |-> NoTask] /\ again = [c \in Tasks |-> NoAgain]
    /\ child = [c \in Tasks |-> NoChild] /\ proved = 0 /\ moves = 0

-----------------------------------------------------------------------------
(* Leases. *)
Exists(tree) == wt[tree].head # None
(* An identity no worktree has, and none that is remembered had. *)
NewMark ==
    LET used == {at[w].mark : w \in Trees, at \in {wt, safety.lease.at} \cup {task[d].at : d \in Tasks}}
    IN  CHOOSE m \in Marks \ used : TRUE
Snapshot(tree) == [w \in Trees |-> IF w \in {tree, "owner"} THEN wt[w] ELSE Absent]

(* validateExactHeadLease: heads and identities are those of the issue. *)
Holds(lease) == lease.st = "valid" /\ Snapshot(lease.tree) = lease.at
Mine(p) == safety.lease.st = "valid" /\ safety.lease.task = p

Lapsed(lease) == [NoLease EXCEPT !.st = "invalid", !.id = lease.id]

Invalidated(s, reset) ==
    IF s.lease.st # "valid" THEN s
    ELSE IF reset /\ s.mode = "target" /\ s.status = "verified"
         THEN [s EXCEPT !.lease = Lapsed(@), !.status = "pending", !.proofs = {}]
         ELSE [s EXCEPT !.lease = Lapsed(@)]

Issued(s, p, tree) ==
    [s EXCEPT !.status = "verified", !.proofs = {},
              !.lease = [st |-> "valid", id |-> s.lease.id + 1, task |-> p, tree |-> tree,
                         at |-> Snapshot(tree)]]

(* What the hooks of any call of p find out about its lease. *)
Checked(s, p) ==
    IF s.lease.st = "valid" /\ s.lease.task = p /\ ~Holds(s.lease)
    THEN Invalidated(s, TRUE) ELSE s

LeaseCheck(p) ==
    /\ Mine(p) /\ ~Holds(safety.lease)
    /\ safety' = Checked(safety, p)
    /\ UNCHANGED <<envs, op, task, again, child, proved>>

-----------------------------------------------------------------------------
(* chat.message. *)
Dropped(t) == IF t.st = "pending" THEN [NoTask EXCEPT !.st = "ended", !.resume = t.resume] ELSE t
Superseded ==
    /\ task' = [d \in Tasks |-> Dropped(task[d])]
    /\ again' = [c \in Tasks |-> NoAgain]

Rebind(p) ==
    /\ safety.mode = "target" /\ safety.lease.st = "valid" /\ safety.lease.task # p
    /\ IF Holds(safety.lease)
       THEN /\ safety.epoch < MaxEpochs /\ safety.lease.id < MaxLeases
            /\ safety' = [Issued(safety, p, safety.lease.tree) EXCEPT !.epoch = @ + 1]
            /\ proved' = safety.epoch + 1
            /\ Superseded
       ELSE safety' = Invalidated(safety, TRUE) /\ UNCHANGED <<task, again, proved>>
    /\ UNCHANGED <<envs, op, child>>

Declare(sha, mode) ==
    /\ safety.epoch < MaxEpochs
    /\ \/ safety.binding # sha
       \/ /\ safety.mode = "strict-start"
          /\ mode = "target" \/ safety.status = "mismatch"
    /\ safety' = [Invalidated(safety, FALSE) EXCEPT
           !.binding = sha, !.mode = mode, !.status = "pending", !.proofs = {}, !.epoch = @ + 1]
    /\ Superseded
    /\ UNCHANGED <<envs, op, child, proved>>

(* A terminal assessment or reconciliation releases the target. *)
Release ==
    /\ safety.mode = "target"
    /\ safety' = [Bare EXCEPT !.epoch = safety.epoch, !.lease = Invalidated(safety, FALSE).lease]
    /\ UNCHANGED <<envs, op, task, again, child, proved>>

-----------------------------------------------------------------------------
(* Target setups and proofs: admitted, run, judged. *)
AuthorityPending == safety.status \in {"pending", "mismatch"}
Admission == [binding |-> safety.binding, mode |-> safety.mode, epoch |-> safety.epoch]
Begin(p, kind, tree) ==
    /\ op[p] = NoOp /\ AuthorityPending
    /\ Cardinality({q \in Primaries : op[q] # NoOp}) < MaxOps
    /\ op' = [op EXCEPT ![p] = [NoOp EXCEPT !.kind = kind, !.tree = tree, !.adm = Admission]]
    /\ UNCHANGED <<envs, safety, task, again, child, proved>>

BeginSetup(p, tree) ==
    /\ safety.mode = "target" /\ safety.proofs \cap {tree, "owner"} = {}
    /\ Begin(p, "setup", tree)

BeginProof(p, tree) ==
    /\ safety.mode = "strict-start" => safety.status = "pending"
    /\ tree = "owner" \/ (tree \in safety.proofs /\ Exists(tree))
    /\ Begin(p, "proof", tree)

(* git checkout <sha>, or git worktree add <path> <sha>. *)
SetupRuns(p) ==
    LET tree == op[p].tree
    IN  /\ op[p].kind = "setup" /\ ~op[p].ran
        /\ IF tree = "owner"
           THEN wt' = [wt EXCEPT ![tree].head = op[p].adm.binding]
           ELSE /\ ~Exists(tree)
                /\ wt' = [wt EXCEPT ![tree] = [head |-> op[p].adm.binding, mark |-> NewMark]]
        /\ op' = [op EXCEPT ![p].ran = TRUE]
        /\ UNCHANGED <<safety, task, again, child, proved, moves>>

ProofRuns(p) ==
    /\ op[p].kind = "proof" /\ ~op[p].ran /\ Exists(op[p].tree)
    /\ op' = [op EXCEPT ![p].ran = TRUE, ![p].seen = wt[op[p].tree].head]
    /\ UNCHANGED <<envs, safety, task, again, child, proved>>

Over(p) == op' = [op EXCEPT ![p] = NoOp] /\ UNCHANGED <<envs, task, again, child>>

CallFails(p) ==
    /\ op[p].kind # "none" /\ ~op[p].ran
    /\ safety' = Checked(safety, p) /\ UNCHANGED proved /\ Over(p)

EndSetup(p) ==
    /\ op[p].kind = "setup" /\ op[p].ran
    /\ safety' = Checked(IF op[p].adm = Admission /\ Exists(op[p].tree)
                         THEN [safety EXCEPT !.proofs = @ \cup {op[p].tree}] ELSE safety, p)
    /\ UNCHANGED proved /\ Over(p)

(* Mutant: the epoch of the admission is not compared. *)
ProofCurrentInMode(p) ==
    /\ op[p].adm.binding = safety.binding /\ op[p].adm.mode = safety.mode
    /\ Exists(op[p].tree) /\ AuthorityPending

ProofCurrent(p) ==
    /\ op[p].adm = Admission /\ Exists(op[p].tree)
    /\ IF safety.mode = "strict-start" THEN safety.status = "pending" ELSE AuthorityPending

EndProofStale(p) ==
    /\ op[p].kind = "proof" /\ op[p].ran /\ ~ProofCurrent(p)
    /\ safety' = Checked(IF op[p].adm = Admission /\ ~Exists(op[p].tree)
                         THEN [safety EXCEPT !.proofs = @ \ {op[p].tree}] ELSE safety, p)
    /\ UNCHANGED proved /\ Over(p)

(* Mutant: what the proof printed is enough for the lease. *)
JudgedByOutput(p) ==
    LET o == op[p]
    IN  IF o.seen # safety.binding THEN [safety EXCEPT !.status = "mismatch"]
        ELSE IF safety.mode = "strict-start" THEN [safety EXCEPT !.status = "verified"]
        ELSE Issued(safety, p, o.tree)

(* The tree is read once more for the lease; if its head has moved since   *)
(* the proof saw it, the authority stays pending.                          *)
Judged(p) ==
    LET o == op[p]
    IN  IF o.seen # safety.binding THEN [safety EXCEPT !.status = "mismatch"]
        ELSE IF safety.mode = "strict-start" THEN [safety EXCEPT !.status = "verified"]
        ELSE IF wt[o.tree].head = safety.binding THEN Issued(safety, p, o.tree)
        ELSE [safety EXCEPT !.status = "pending"]

EndProof(p) ==
    /\ op[p].kind = "proof" /\ op[p].ran /\ ProofCurrent(p)
    /\ safety.lease.id < MaxLeases
    /\ safety' = Judged(p) /\ proved' = op[p].adm.epoch
    /\ Over(p)

-----------------------------------------------------------------------------
(* Task calls. *)
Child(d) == IF task[d].resume # 0 THEN task[d].resume ELSE d
Next1 == Cardinality({d \in Tasks : task[d].st # "none"}) + 1
Resumable(p, c) == again[c].st = "fresh" /\ again[c].by = p
LeaseAtLaunch == IF safety.mode = "target" /\ safety.lease.st = "valid" THEN safety.lease.id ELSE 0
LeaseKept(c) ==
    again[c].lease # 0 => safety.lease.st = "valid" /\ safety.lease.id = again[c].lease
Covered(p) == safety.mode = "target" => Mine(p) /\ Holds(safety.lease)

(* The child originated under another lease: it is resumable no longer. *)
ResumeForgotten(p, c) ==
    /\ Resumable(p, c) /\ ~LeaseKept(c)
    /\ again' = [again EXCEPT ![c] = NoAgain]
    /\ UNCHANGED <<envs, safety, op, task, child, proved>>

(* The one attempt is spent before the lease is validated. *)
ResumeSpent(p, c) ==
    /\ Resumable(p, c) /\ LeaseKept(c) /\ ~Covered(p)
    /\ again' = [again EXCEPT ![c].st = "used"]
    /\ safety' = Checked(safety, p)
    /\ UNCHANGED <<envs, op, task, child, proved>>

Launch(p, c) ==
    LET d == Next1
        runs == IF c = 0 THEN d ELSE c
    IN  /\ d \in Tasks /\ Covered(p)
        /\ c # 0 => Resumable(p, c) /\ LeaseKept(c)
        /\ again' = IF c = 0 THEN again ELSE [again EXCEPT ![c].st = "used"]
        /\ task' = [task EXCEPT ![d] =
               [st |-> "pending", by |-> p, lease |-> LeaseAtLaunch, resume |-> c,
                at |-> IF LeaseAtLaunch = 0 THEN NoTask.at ELSE safety.lease.at]]
        /\ child' = [child EXCEPT ![runs] = [@ EXCEPT !.run = d]]
        /\ UNCHANGED <<envs, safety, op, proved>>

Ends(d, st) == task' = [task EXCEPT ![d] = [NoTask EXCEPT !.st = st, !.resume = task[d].resume]]
Stops(d) == child' = [child EXCEPT ![Child(d)] = [@ EXCEPT !.run = 0]]
Runs(d) == child[Child(d)].run = d

(* The session of a delegation that is no longer pending ends. *)
UnknownEnds(d) ==
    /\ task[d].st = "ended" /\ Runs(d)
    /\ Stops(d)
    /\ UNCHANGED <<envs, safety, op, task, again, proved>>

(* Mutant: any valid lease will do. *)
LeaseOfLaunchHolds(d) ==
    task[d].lease # 0 => safety.lease.st = "valid" /\ Holds(safety.lease)

LeaseHolds(d) ==
    task[d].lease # 0 =>
        safety.lease.st = "valid" /\ safety.lease.id = task[d].lease /\ Holds(safety.lease)

ReportStale(d) ==
    /\ task[d].st = "pending" /\ Runs(d) /\ ~LeaseHolds(d)
    /\ safety' = IF safety.lease.id = task[d].lease THEN Checked(safety, task[d].by) ELSE safety
    /\ Ends(d, "ended") /\ Stops(d)
    /\ UNCHANGED <<envs, op, again, proved>>

(* An unhealthy result leaves a spent resume in place, a healthy one is    *)
(* accepted, on the checkouts it was launched on or on others.             *)
ReportAccepted(d) ==
    LET t == task[d]
    IN  /\ t.st = "pending" /\ Runs(d) /\ LeaseHolds(d)
        /\ \/ Ends(d, "ended") /\ UNCHANGED again
           \/ /\ ~child[Child(d)].stop
              /\ Ends(d, IF t.lease # 0 /\ t.at # Snapshot(safety.lease.tree) THEN "drifted" ELSE "ended")
              /\ again' = IF t.resume = 0 THEN again ELSE [again EXCEPT ![t.resume] = NoAgain]
        /\ Stops(d)
        /\ UNCHANGED <<envs, safety, op, proved>>

(* Mutant: a resumed child that fails again may be resumed again. *)
ResumableAfterErrors(d) ==
    IF task[d].resume # 0
    THEN [again EXCEPT ![task[d].resume] = [st |-> "fresh", by |-> task[d].by, lease |-> task[d].lease]]
    ELSE [again EXCEPT ![d] = [st |-> "fresh", by |-> task[d].by, lease |-> task[d].lease]]

ResumableAfterError(d) ==
    IF task[d].resume # 0 THEN [again EXCEPT ![task[d].resume] = NoAgain]
    ELSE [again EXCEPT ![d] = [st |-> "fresh", by |-> task[d].by, lease |-> task[d].lease]]

(* The event of a Task that failed, of a transient cause or of another. *)
TaskErrors(d) ==
    /\ task[d].st = "pending" /\ Runs(d)
    /\ \/ again' = ResumableAfterError(d)
       \/ again' = IF task[d].resume = 0 THEN again ELSE [again EXCEPT ![task[d].resume] = NoAgain]
    /\ Ends(d, "ended") /\ Stops(d)
    /\ UNCHANGED <<envs, safety, op, proved>>

-----------------------------------------------------------------------------
(* Calls of a child session. *)
Running(c) == child[c].run # 0 /\ ~child[c].stop
Pending(d) == d # 0 /\ task[d].st = "pending"

Candidates(c) ==
    {d \in Tasks : /\ task[d].st = "pending" /\ task[d].by = safety.lease.task
                   /\ task[d].lease = safety.lease.id
                   /\ task[d].resume = c \/ (child[c].lease = 0 /\ task[d].resume = 0)}

(* bindChildLeaseDelegation: the delegation the child is bound to. *)
BoundTo(c) ==
    IF child[c].lease \notin {0, safety.lease.id} THEN {}
    ELSE IF child[c].lease # 0 /\ Pending(child[c].task) THEN {child[c].task}
    ELSE IF Cardinality(Candidates(c)) = 1 THEN Candidates(c) ELSE {}

ChildCall(c) ==
    /\ Running(c) /\ safety.mode = "target" /\ Holds(safety.lease)
    /\ \E d \in BoundTo(c) :
           child' = [child EXCEPT ![c] = [@ EXCEPT !.lease = safety.lease.id, !.task = d]]
    /\ UNCHANGED <<envs, safety, op, task, again, proved>>

ChildBlocked(c) ==
    /\ Running(c) /\ safety.mode = "target"
    /\ ~Holds(safety.lease) \/ BoundTo(c) = {}
    /\ safety' = IF Holds(safety.lease) THEN safety ELSE Invalidated(safety, TRUE)
    /\ child' = [child EXCEPT ![c].stop = TRUE]
    /\ UNCHANGED <<envs, op, task, again, proved>>

-----------------------------------------------------------------------------
(* The user moves a head, or removes the linked worktree. *)
Move(tree, head) ==
    /\ moves < MaxMoves /\ moves' = moves + 1 /\ Exists(tree) /\ wt[tree].head # head
    /\ wt' = [wt EXCEPT ![tree].head = head]
    /\ UNCHANGED <<safety, op, task, again, child, proved>>

(* A worktree is made again, as git would leave it. *)
Remake(tree) ==
    /\ moves < MaxMoves /\ moves' = moves + 1 /\ Exists(tree)
    /\ wt' = [wt EXCEPT ![tree].mark = NewMark]
    /\ UNCHANGED <<safety, op, task, again, child, proved>>

RemoveLinked ==
    /\ moves < MaxMoves /\ moves' = moves + 1 /\ Exists("linked")
    /\ wt' = [wt EXCEPT !["linked"] = Absent]
    /\ UNCHANGED <<safety, op, task, again, child, proved>>

(* OpenCode restarts: sessions end and the safety state is loaded again. *)
Restart ==
    /\ \/ op # [p \in Primaries |-> NoOp]
       \/ \E c \in Tasks : child[c].run # 0 \/ again[c] # NoAgain
    /\ safety' = IF safety.mode = "target" /\ safety.status = "verified" /\ safety.lease.st # "valid"
                 THEN [safety EXCEPT !.status = "pending", !.proofs = {}] ELSE safety
    /\ op' = [p \in Primaries |-> NoOp]
    /\ task' = [d \in Tasks |-> Dropped(task[d])]
    /\ again' = [c \in Tasks |-> NoAgain]
    /\ child' = [c \in Tasks |-> NoChild]
    /\ UNCHANGED <<envs, proved>>

AuthorityStep(p) ==
    \/ LeaseCheck(p) \/ Rebind(p)
    \/ \E tree \in Trees : BeginSetup(p, tree) \/ BeginProof(p, tree)
    \/ SetupRuns(p) \/ ProofRuns(p) \/ CallFails(p) \/ EndSetup(p) \/ EndProof(p) \/ EndProofStale(p)
DelegationStep(p) ==
    \/ \E c \in Tasks \cup {0} : Launch(p, c)
    \/ \E c \in Tasks : ResumeForgotten(p, c) \/ ResumeSpent(p, c)
ReportStep(d) == UnknownEnds(d) \/ ReportStale(d) \/ ReportAccepted(d) \/ TaskErrors(d)

Next ==
    \/ \E p \in Primaries : AuthorityStep(p) \/ DelegationStep(p)
    \/ \E sha \in Heads, mode \in Modes : Declare(sha, mode)
    \/ Release \/ Restart
    \/ \E d \in Tasks : ReportStep(d)
    \/ \E c \in Tasks : ChildCall(c) \/ ChildBlocked(c)
    \/ \E tree \in Trees : Remake(tree) \/ \E h \in Heads : Move(tree, h)
    \/ RemoveLinked

Spec == Init /\ [][Next]_vars

-----------------------------------------------------------------------------
(* A verified target always has its lease, and a valid lease is one of the *)
(* target and head in force: no hook, late proof or restart parts the two. *)
VerifiedIsLeased ==
    /\ (safety.lease.st = "valid") = (safety.mode = "target" /\ safety.status = "verified")
    /\ safety.lease.st = "valid" => safety.lease.at[safety.lease.tree].head = safety.binding

(* What verified the authority in force was admitted in this epoch: a      *)
(* proof that outlives A, B, A does not verify the second A.               *)
ProofOfThisEpoch == safety.status \in {"verified", "mismatch"} => proved = safety.epoch

(* An accepted result was produced on the very checkouts it was launched   *)
(* on, even if a worktree was replaced and the same head proved again.     *)
AcceptedWhereLaunched == \A d \in Tasks : task[d].st # "drifted"

(* README: a transient failure is resumable exactly once.  A child that    *)
(* was resumed never becomes resumable again, however its resume ended.    *)
ResumedOnce ==
    \A c \in Tasks :
        LET resumes == {d \in Tasks : task[d].resume = c}
        IN  /\ Cardinality(resumes) <= 1
            /\ again[c].st = "fresh" => resumes = {}

(* tests: a completed child cannot attach to a later delegation; a child   *)
(* is bound to the delegation that runs it.  Does not hold: see README.    *)
ChildActsForItsDelegation ==
    [][\A c \in Tasks : child'[c].task # child[c].task => child'[c].task = child'[c].run]_vars
=============================================================================
