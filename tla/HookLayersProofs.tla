--------------------------- MODULE HookLayersProofs ---------------------------
(***************************************************************************)
(* Theorems about the two layers between OpenCode's hooks and the core:    *)
(* operation-guard.mjs, which wraps a target's lifecycle around the core   *)
(* of one directory (TargetLifecycle), and index.mjs, which routes a       *)
(* session to the guard of its directory (SessionRouting).                 *)
(*                                                                         *)
(* Each part keeps its constants: the first is about any targets, specs,   *)
(* calls, length of the base branch, epochs and faults, the second about   *)
(* any directories, tool calls, hooks under way at once and moves of the   *)
(* session.  The layers share no variable.                                 *)
(***************************************************************************)
EXTENDS TargetLifecycle, SessionRouting, SequenceTheorems, TLAPS

-----------------------------------------------------------------------------
(***************************************************************************)
(* The lifecycle of a target.                                              *)
(***************************************************************************)
(* A target-scoped authority has a target. *)
Scoped(a) == a.mode = "target" => a.binding # NoTarget

(* The call whose job is j, whose helper printed e and who is at p, beside *)
(* the assessments w and the authority a.                                  *)
Underway(p, j, e, w) ==
    /\ p = "idle" => ~ e.behind
    /\ p # "idle" =>
         /\ j \in Jobs
         /\ j.kind # "assess" => <<j.spec, j.old>> \in w
         /\ e.behind => <<j.spec, e.initial>> \in w
         /\ p \in {"checked", "verified"} => j.kind # "assess" /\ Ancestor(j.old, j.spec.base)
         /\ p = "accepted" /\ j.noted /\ e.result = "stale" => e.behind
         /\ p = "write" => e.behind /\ j.noted

(* In the epoch in which its hook read the authority, what is bound is     *)
(* still the target of an accepted call, or nothing.                       *)
Judged(p, j, a) ==
    /\ p # "idle" => j.epoch <= a.epoch
    /\ p \in {"accepted", "write"} /\ j.epoch = a.epoch =>
         /\ Bound(a) => a.binding = j.spec.target
         /\ j.noted => a.binding \in {j.spec.target, NoTarget}

CallOK(c) == Underway(pc[c], job[c], evidence[c], witnessed) /\ Judged(pc[c], job[c], authority)

IInv == TypeOK /\ Scoped(authority) /\ LifecycleIsBacked /\ \A c \in Calls : CallOK(c)

-----------------------------------------------------------------------------
LEMMA ConstantTypes ==
    /\ MaxBase \in Nat /\ MaxEpochs \in Nat /\ MaxFaults \in Nat
    /\ Modes \subseteq {"target", "strict-start"}
    /\ NoTarget \notin Targets /\ NoSha \notin Nat /\ Local \notin Nat /\ Local # NoSha
    /\ \A s \in Specs : s.target \in Targets /\ s.base \in 0 .. MaxBase /\ s.owned \in BOOLEAN
  BY ConstantsAssumption

LEMMA Nulls ==
    /\ NoAuthority \in Authorities /\ NoEvidence \in Evidence
    /\ NoEvidence.behind = FALSE /\ NoEvidence.result = "none"
    /\ NoAuthority.binding = NoTarget /\ NoAuthority.mode = "none"
  BY ConstantTypes DEF NoAuthority, Authorities, NoEvidence, Evidence

(* The records of one call change. *)
OthersStay(c) == \A k \in Calls \ {c} : pc'[k] = pc[k] /\ job'[k] = job[k] /\ evidence'[k] = evidence[k]

(* Witnesses only accumulate. *)
LEMMA UnderwayStays ==
  ASSUME NEW p, NEW j, NEW e, NEW w, NEW x, w \subseteq x, Underway(p, j, e, w)
  PROVE  Underway(p, j, e, x)
  BY DEF Underway

(* The authority moves to a later epoch, or stays, but for a proof, or is  *)
(* released.                                                               *)
Follows(a, b) ==
    \/ b.epoch > a.epoch
    \/ b.epoch = a.epoch /\ b.mode = a.mode /\ b.binding = a.binding
    \/ b.epoch = a.epoch /\ b.mode = "none" /\ b.binding = NoTarget

LEMMA JudgedStays ==
  ASSUME NEW a \in Authorities, NEW b \in Authorities, Follows(a, b),
         NEW p, NEW j, p # "idle" => j \in Jobs, Judged(p, j, a)
  PROVE  Judged(p, j, b)
  BY ConstantTypes DEF Follows, Judged, Bound, Authorities, Jobs

(* A step of one call: what it shows of that call suffices. *)
LEMMA CallStep ==
  ASSUME IInv, TypeOK', NEW c \in Calls, OthersStay(c),
         witnessed \subseteq witnessed', Follows(authority, authority'), Scoped(authority'),
         LifecycleIsBacked',
         Underway(pc'[c], job'[c], evidence'[c], witnessed'), Judged(pc'[c], job'[c], authority')
  PROVE  IInv'
  <1>1. ASSUME NEW k \in Calls \ {c} PROVE CallOK(k)'
    <2>1. CallOK(k) /\ authority \in Authorities /\ authority' \in Authorities
      BY DEF IInv, TypeOK
    <2>2. pc[k] # "idle" => job[k] \in Jobs
      BY <2>1 DEF CallOK, Underway
    <2>3. Underway(pc[k], job[k], evidence[k], witnessed')
      BY <2>1, UnderwayStays DEF CallOK
    <2>4. Judged(pc[k], job[k], authority')
      BY <2>1, <2>2, JudgedStays DEF CallOK
    <2>. QED BY <2>3, <2>4 DEF CallOK, OthersStay
  <1>2. CallOK(c)'
    BY DEF CallOK
  <1>3. Scoped(authority)'
    BY DEF Scoped
  <1>. QED BY <1>1, <1>2, <1>3 DEF IInv

LEMMA AuthorityStays ==
  ASSUME UNCHANGED authority, IInv
  PROVE  Follows(authority, authority') /\ Scoped(authority')
  BY DEF Follows, IInv

LEMMA LifecycleStays ==
  ASSUME IInv, UNCHANGED lifecycle, witnessed \subseteq witnessed'
  PROVE  LifecycleIsBacked'
  BY DEF IInv, LifecycleIsBacked

(* Steps of the hooks and of others, which change no call. *)
LEMMA WorldStep ==
  ASSUME IInv, TypeOK', UNCHANGED <<job, pc, evidence, witnessed>>,
         Follows(authority, authority'), Scoped(authority'), lifecycle' \in {lifecycle, NoLifecycle}
  PROVE  IInv'
  <1>1. ASSUME NEW c \in Calls PROVE CallOK(c)'
    <2>1. CallOK(c) /\ authority \in Authorities /\ authority' \in Authorities
      BY DEF IInv, TypeOK
    <2>2. pc[c] # "idle" => job[c] \in Jobs
      BY <2>1 DEF CallOK, Underway
    <2>3. Judged(pc[c], job[c], authority')
      BY <2>1, <2>2, JudgedStays DEF CallOK
    <2>. QED BY <2>1, <2>3 DEF CallOK
  <1>2. LifecycleIsBacked'
    BY DEF IInv, LifecycleIsBacked
  <1>3. Scoped(authority)'
    BY DEF Scoped
  <1>. QED BY <1>1, <1>2, <1>3 DEF IInv

-----------------------------------------------------------------------------
LEMMA OwnerMovesStep ==
  ASSUME IInv, OwnerMoves
  PROVE  IInv'
  <1>1. owner' \in Owners
    BY DEF OwnerMoves, IInv, TypeOK, Owners
  <1>2. TypeOK'
    BY <1>1, ConstantTypes DEF OwnerMoves, IInv, TypeOK
  <1>. QED BY <1>2, AuthorityStays, WorldStep DEF OwnerMoves

LEMMA RemoteMovesStep ==
  ASSUME IInv, RemoteMoves
  PROVE  IInv'
  <1>1. remote' \in [base : 0 .. MaxBase, heads : SUBSET Targets]
    <2>1. remote \in [base : 0 .. MaxBase, heads : SUBSET Targets]
      BY DEF IInv, TypeOK
    <2>2. ASSUME NEW b \in (remote.base + 1) .. MaxBase, remote' = [remote EXCEPT !.base = b]
          PROVE  remote' \in [base : 0 .. MaxBase, heads : SUBSET Targets]
      <3>1. b \in 0 .. MaxBase
        BY <2>1, ConstantTypes
      <3>. QED BY <2>1, <2>2, <3>1
    <2>. QED BY <2>1, <2>2 DEF RemoteMoves
  <1>2. TypeOK'
    BY <1>1, ConstantTypes DEF RemoteMoves, IInv, TypeOK
  <1>. QED BY <1>2, AuthorityStays, WorldStep DEF RemoteMoves

LEMMA CoreDeclaresStep ==
  ASSUME IInv, CoreDeclares
  PROVE  IInv'
  <1>1. authority \in Authorities
    BY DEF IInv, TypeOK
  <1>2. authority' \in Authorities /\ Follows(authority, authority') /\ Scoped(authority')
    BY <1>1, ConstantTypes DEF CoreDeclares, Authorities, Follows, Scoped, IInv
  <1>3. TypeOK'
    BY <1>1, <1>2 DEF CoreDeclares, IInv, TypeOK, world
  <1>. QED BY <1>2, <1>3, WorldStep DEF CoreDeclares

LEMMA ChatComparesStep ==
  ASSUME IInv, ChatCompares
  PROVE  IInv'
  <1>1. TypeOK'
    BY Nulls DEF ChatCompares, IInv, TypeOK, world
  <1>. QED BY <1>1, AuthorityStays, WorldStep DEF ChatCompares

LEMMA ProveStep ==
  ASSUME IInv, Prove
  PROVE  IInv'
  <1>1. authority \in Authorities /\ owner.head \in Commits
    BY DEF IInv, TypeOK, Owners
  <1>2. authority' \in Authorities /\ Follows(authority, authority') /\ Scoped(authority')
    BY <1>1 DEF Prove, Authorities, Follows, Scoped, IInv
  <1>3. TypeOK'
    BY <1>2 DEF Prove, IInv, TypeOK, world
  <1>. QED BY <1>2, <1>3, WorldStep DEF Prove

LEMMA CrashStep ==
  ASSUME IInv, Crash
  PROVE  IInv'
  <1>1. /\ faults' \in 0 .. MaxFaults /\ pending' = {} /\ UNCHANGED <<files, world, witnessed>>
        /\ chat' = [at |-> "idle", before |-> NoAuthority]
    BY ConstantTypes DEF Crash, IInv, TypeOK
  <1>2. ASSUME NEW c \in Calls
        PROVE  /\ evidence'[c] = NoEvidence
               /\ \/ pc'[c] = "idle" /\ job'[c] = NoJob
                  \/ /\ pc'[c] = pc[c] /\ pc[c] \in {"run", "checked", "verified"}
                     /\ job[c].kind # "assess" /\ job'[c] = [job[c] EXCEPT !.kind = "orphan"]
    BY DEF Crash
  <1>3. ASSUME NEW c \in Calls
        PROVE  /\ job'[c] \in Jobs \cup {NoJob}
               /\ Underway(pc'[c], job'[c], evidence'[c], witnessed') /\ Judged(pc'[c], job'[c], authority')
    <2>1. CallOK(c)
      BY DEF IInv
    <2>2. CASE pc'[c] = "idle" /\ job'[c] = NoJob
      BY <1>2, <2>2, Nulls DEF Underway, Judged
    <2>3. CASE /\ pc'[c] = pc[c] /\ pc[c] \in {"run", "checked", "verified"}
               /\ job[c].kind # "assess" /\ job'[c] = [job[c] EXCEPT !.kind = "orphan"]
      <3>1. job[c] \in Jobs
        BY <2>1, <2>3 DEF CallOK, Underway
      <3>2. /\ job'[c] \in Jobs /\ job'[c].kind = "orphan" /\ job'[c].spec = job[c].spec
            /\ job'[c].old = job[c].old /\ job'[c].epoch = job[c].epoch
        BY <2>3, <3>1 DEF Jobs
      <3>. QED BY <1>1, <1>2, <2>1, <2>3, <3>1, <3>2, Nulls DEF CallOK, Underway, Judged, files
    <2>. QED BY <1>2, <2>2, <2>3
  <1>4. /\ pc' = [c \in Calls |-> pc'[c]] /\ job' = [c \in Calls |-> job'[c]]
        /\ evidence' = [c \in Calls |-> NoEvidence]
    BY DEF Crash
  <1>5. \A c \in Calls : pc'[c] \in {"idle", "run", "checked", "verified"}
    BY <1>2
  <1>6. TypeOK'
    BY <1>1, <1>3, <1>4, <1>5, Nulls DEF IInv, TypeOK, files, world
  <1>. QED BY <1>1, <1>3, <1>6 DEF IInv, CallOK, Scoped, LifecycleIsBacked, files

-----------------------------------------------------------------------------
(* The steps of one call *)
LEMMA BeforeStep ==
  ASSUME IInv, NEW c \in Calls, Before(c)
  PROVE  IInv'
  <1>1. /\ pc[c] = "idle" /\ pc' = [pc EXCEPT ![c] = "admitted"]
        /\ UNCHANGED <<files, pending, evidence, world, chat, faults, witnessed>>
    BY DEF Before
  <1>2. \E j \in Jobs : /\ job' = [job EXCEPT ![c] = j] /\ j.epoch = 0
                        /\ j.kind # "assess" => <<j.spec, j.old>> \in witnessed
    <2>1. CASE AdmitAssessment(c)
      <3>1. PICK s \in Specs : job' = [job EXCEPT ![c] = [kind |-> "assess", spec |-> s, old |-> NoSha,
                                                         noted |-> Bound(authority), epoch |-> 0]]
        BY <2>1 DEF AdmitAssessment
      <3>. DEFINE j == [kind |-> "assess", spec |-> s, old |-> NoSha, noted |-> Bound(authority), epoch |-> 0]
      <3>2. Bound(authority) \in BOOLEAN
        BY DEF Bound
      <3>3. j \in Jobs /\ j.epoch = 0 /\ j.kind = "assess"
        BY <3>2, ConstantTypes DEF Jobs
      <3>. HIDE DEF j
      <3>. QED BY <3>1, <3>3 DEF j
    <2>2. CASE AdmitReconciliation(c)
      <3>. DEFINE j == [kind |-> "reconcile", spec |-> lifecycle.spec, old |-> lifecycle.owner,
                        noted |-> TRUE, epoch |-> 0]
      <3>1. lifecycle \in [spec : Specs, owner : Commits] /\ <<lifecycle.spec, lifecycle.owner>> \in witnessed
        BY <2>2 DEF AdmitReconciliation, Reconciling, IInv, TypeOK, LifecycleIsBacked
      <3>2. j \in Jobs /\ j.epoch = 0 /\ <<j.spec, j.old>> \in witnessed
        BY <3>1, ConstantTypes DEF Jobs
      <3>. QED BY <2>2, <3>2 DEF AdmitReconciliation
    <2>. QED BY <2>1, <2>2 DEF Before
  <1>3. PICK j \in Jobs : /\ job' = [job EXCEPT ![c] = j] /\ j.epoch = 0
                          /\ j.kind # "assess" => <<j.spec, j.old>> \in witnessed
    BY <1>2
  <1>4. TypeOK'
    BY <1>1, <1>3 DEF IInv, TypeOK, files, world
  <1>5. OthersStay(c) /\ pc'[c] = "admitted" /\ job'[c] = j /\ evidence'[c] = evidence[c]
    BY <1>1, <1>3 DEF OthersStay, IInv, TypeOK
  <1>6. ~ evidence[c].behind /\ authority \in Authorities
    BY <1>1 DEF IInv, CallOK, Underway, TypeOK
  <1>7. Underway(pc'[c], job'[c], evidence'[c], witnessed')
    BY <1>1, <1>3, <1>5, <1>6 DEF Underway
  <1>8. Judged(pc'[c], job'[c], authority')
    BY <1>1, <1>3, <1>5, <1>6 DEF Judged, Authorities, files
  <1>. QED BY <1>1, <1>4, <1>5, <1>7, <1>8, AuthorityStays, LifecycleStays, CallStep DEF files

LEMMA LaunchStep ==
  ASSUME IInv, NEW c \in Calls, Launch(c)
  PROVE  IInv'
  <1>1. /\ pc[c] = "admitted" /\ pc' = [pc EXCEPT ![c] = "run"]
        /\ UNCHANGED <<files, job, evidence, world, chat, faults, witnessed>>
        /\ pending' \subseteq Calls
    BY DEF Launch, IInv, TypeOK
  <1>2. TypeOK'
    BY <1>1 DEF IInv, TypeOK, files, world
  <1>3. OthersStay(c) /\ pc'[c] = "run"
    BY <1>1 DEF OthersStay, IInv, TypeOK
  <1>4. Underway(pc'[c], job'[c], evidence'[c], witnessed') /\ Judged(pc'[c], job'[c], authority')
    BY <1>1, <1>3 DEF Underway, Judged, IInv, CallOK, files
  <1>. QED BY <1>1, <1>2, <1>3, <1>4, AuthorityStays, LifecycleStays, CallStep DEF files

(* The call is over, or goes on with what its helper printed. *)
LEMMA EndsTo ==
  ASSUME IInv, NEW c \in Calls, Ends(c)
  PROVE  /\ OthersStay(c) /\ pc'[c] = "idle"
         /\ pc' \in [Calls -> {"idle", "admitted", "run", "checked", "verified", "merged",
                               "done", "accepted", "write", "clear"}]
         /\ job' \in [Calls -> Jobs \cup {NoJob}] /\ evidence' \in [Calls -> Evidence]
         /\ Underway(pc'[c], job'[c], evidence'[c], witnessed')
         /\ Judged(pc'[c], job'[c], authority')
  BY Nulls DEF Ends, OthersStay, Underway, Judged, IInv, TypeOK

LEMMA FinishTo ==
  ASSUME IInv, NEW c \in Calls, NEW e \in Evidence, Finish(c, e), pc[c] # "idle",
         witnessed \subseteq witnessed', UNCHANGED authority,
         e.behind => <<job[c].spec, e.initial>> \in witnessed'
  PROVE  /\ OthersStay(c)
         /\ pc' \in [Calls -> {"idle", "admitted", "run", "checked", "verified", "merged",
                               "done", "accepted", "write", "clear"}]
         /\ job' \in [Calls -> Jobs \cup {NoJob}] /\ evidence' \in [Calls -> Evidence]
         /\ Underway(pc'[c], job'[c], evidence'[c], witnessed')
         /\ Judged(pc'[c], job'[c], authority')
  <1>1. CASE Ends(c)
    BY <1>1, EndsTo
  <1>2. CASE pc' = [pc EXCEPT ![c] = "done"] /\ evidence' = [evidence EXCEPT ![c] = e] /\ job' = job
    <2>1. CallOK(c)
      BY DEF IInv
    <2>2. pc'[c] = "done" /\ evidence'[c] = e /\ job'[c] = job[c] /\ OthersStay(c)
      BY <1>2 DEF OthersStay, IInv, TypeOK
    <2>3. Underway(pc'[c], job'[c], evidence'[c], witnessed') /\ Judged(pc'[c], job'[c], authority')
      BY <2>1, <2>2 DEF CallOK, Underway, Judged
    <2>. QED BY <1>2, <2>2, <2>3 DEF IInv, TypeOK
  <1>. QED BY <1>1, <1>2 DEF Finish

LEMMA AssessmentEndsStep ==
  ASSUME IInv, NEW c \in Calls, AssessmentEnds(c)
  PROVE  IInv'
  <1>. DEFINE s == job[c].spec
              behind == /\ s.owned /\ OwnerReady /\ RemoteExact(s)
                        /\ owner.head # s.base /\ Ancestor(owner.head, s.base)
              terminal == [result |-> "terminal", initial |-> NoSha, behind |-> FALSE]
              stale == [result |-> "stale", initial |-> owner.head, behind |-> behind]
  <1>1. /\ pc[c] = "run" /\ job[c] \in Jobs /\ s \in Specs /\ owner.head \in Commits
        /\ UNCHANGED <<files, pending, world, chat, faults>>
    BY DEF AssessmentEnds, IInv, CallOK, Underway, Jobs, TypeOK, Owners
  <1>2. /\ Finish(c, NoEvidence) \/ Finish(c, terminal) \/ Finish(c, stale)
        /\ witnessed' = IF behind THEN witnessed \cup {<<s, owner.head>>} ELSE witnessed
    BY DEF AssessmentEnds
  <1>3. behind \in BOOLEAN
    BY <1>1, ConstantTypes DEF OwnerReady, RemoteExact, Ancestor, IInv, TypeOK, Owners
  <1>4. /\ witnessed \subseteq witnessed' /\ witnessed' \subseteq Specs \X Commits
        /\ behind => <<s, owner.head>> \in witnessed'
    BY <1>1, <1>2 DEF IInv, TypeOK
  <1>. HIDE DEF behind, s
  <1>5. /\ NoEvidence \in Evidence /\ terminal \in Evidence /\ stale \in Evidence
        /\ ~ NoEvidence.behind /\ ~ terminal.behind /\ stale.initial = owner.head /\ stale.behind = behind
    BY <1>1, <1>3, Nulls DEF Evidence
  <1>. HIDE DEF terminal, stale
  <1>6. \E e \in Evidence : Finish(c, e) /\ (e.behind => <<job[c].spec, e.initial>> \in witnessed')
    BY <1>2, <1>4, <1>5 DEF s
  <1>7. PICK e \in Evidence : Finish(c, e) /\ (e.behind => <<job[c].spec, e.initial>> \in witnessed')
    BY <1>6
  <1>8. /\ OthersStay(c)
        /\ pc' \in [Calls -> {"idle", "admitted", "run", "checked", "verified", "merged",
                              "done", "accepted", "write", "clear"}]
        /\ job' \in [Calls -> Jobs \cup {NoJob}] /\ evidence' \in [Calls -> Evidence]
        /\ Underway(pc'[c], job'[c], evidence'[c], witnessed')
        /\ Judged(pc'[c], job'[c], authority')
    BY <1>1, <1>4, <1>7, FinishTo DEF files
  <1>9. TypeOK'
    BY <1>1, <1>4, <1>8 DEF IInv, TypeOK, files, world
  <1>. QED BY <1>1, <1>4, <1>8, <1>9, AuthorityStays, LifecycleStays, CallStep DEF files

LEMMA FailsStep ==
  ASSUME IInv, NEW c \in Calls, pc[c] # "idle", NEW e \in Evidence, ~ e.behind, Finish(c, e),
         UNCHANGED <<files, pending, world, chat, faults, witnessed>>
  PROVE  IInv'
  <1>1. /\ OthersStay(c)
        /\ pc' \in [Calls -> {"idle", "admitted", "run", "checked", "verified", "merged",
                              "done", "accepted", "write", "clear"}]
        /\ job' \in [Calls -> Jobs \cup {NoJob}] /\ evidence' \in [Calls -> Evidence]
        /\ Underway(pc'[c], job'[c], evidence'[c], witnessed')
        /\ Judged(pc'[c], job'[c], authority')
    BY FinishTo DEF files
  <1>2. TypeOK'
    BY <1>1 DEF IInv, TypeOK, files, world
  <1>. QED BY <1>1, <1>2, AuthorityStays, LifecycleStays, CallStep DEF files

LEMMA ChecksStep ==
  ASSUME IInv, NEW c \in Calls, ChecksOwner(c) \/ ChecksAgain(c)
  PROVE  IInv'
  <1>1. CASE Fails(c)
    <2>1. pc[c] # "idle"
      BY DEF ChecksOwner, ChecksAgain
    <2>. QED BY <1>1, <2>1, Nulls, FailsStep DEF Fails
  <1>2. CASE ~ Fails(c)
    <2>. DEFINE p == IF pc[c] = "run" THEN "checked" ELSE "verified"
    <2>1. /\ pc[c] \in {"run", "checked"} /\ pc' = [pc EXCEPT ![c] = p]
          /\ pc[c] = "run" => job[c].kind # "assess" /\ Ancestor(job[c].old, job[c].spec.base)
          /\ UNCHANGED <<files, pending, job, evidence, world, chat, faults, witnessed>>
      BY <1>2 DEF ChecksOwner, ChecksAgain
    <2>2. TypeOK'
      BY <2>1 DEF IInv, TypeOK, files, world
    <2>3. OthersStay(c) /\ pc'[c] = p /\ p \in {"checked", "verified"}
      BY <2>1 DEF OthersStay, IInv, TypeOK
    <2>4. Underway(pc'[c], job'[c], evidence'[c], witnessed') /\ Judged(pc'[c], job'[c], authority')
      BY <2>1, <2>3 DEF Underway, Judged, IInv, CallOK, files
    <2>. QED BY <2>1, <2>2, <2>3, <2>4, AuthorityStays, LifecycleStays, CallStep DEF files
  <1>. QED BY <1>1, <1>2

LEMMA FastForwardsStep ==
  ASSUME IInv, NEW c \in Calls, FastForwards(c)
  PROVE  IInv'
  <1>0. pc[c] = "verified"
    BY DEF FastForwards
  <1>1. CASE Fails(c)
    BY <1>0, <1>1, Nulls, FailsStep DEF Fails
  <1>2. CASE ~ Fails(c)
    <2>1. /\ pc' = [pc EXCEPT ![c] = "merged"]
          /\ owner' \in {owner, [owner EXCEPT !.head = job[c].spec.base]}
          /\ UNCHANGED <<files, pending, job, evidence, remote, chat, faults, witnessed>>
      BY <1>2 DEF FastForwards
    <2>2. owner' \in Owners
      <3>1. job[c] \in Jobs /\ owner \in Owners
        BY <1>0 DEF IInv, TypeOK, CallOK, Underway
      <3>2. job[c].spec.base \in Commits
        BY <3>1, ConstantTypes DEF Jobs, Commits
      <3>. QED BY <2>1, <3>1, <3>2 DEF Owners
    <2>3. TypeOK'
      BY <2>1, <2>2 DEF IInv, TypeOK, files
    <2>4. OthersStay(c) /\ pc'[c] = "merged"
      BY <2>1 DEF OthersStay, IInv, TypeOK
    <2>5. Underway(pc'[c], job'[c], evidence'[c], witnessed') /\ Judged(pc'[c], job'[c], authority')
      BY <1>0, <2>1, <2>4 DEF Underway, Judged, IInv, CallOK, files
    <2>. QED BY <2>1, <2>3, <2>4, <2>5, AuthorityStays, LifecycleStays, CallStep DEF files
  <1>. QED BY <1>1, <1>2

LEMMA ProvesResultStep ==
  ASSUME IInv, NEW c \in Calls, ProvesResult(c)
  PROVE  IInv'
  <1>. DEFINE e == [result |-> "pass", initial |-> NoSha, behind |-> FALSE]
  <1>1. e \in Evidence /\ ~ e.behind
    BY DEF Evidence
  <1>2. pc[c] = "merged" /\ (Finish(c, e) \/ Finish(c, NoEvidence))
        /\ UNCHANGED <<files, pending, world, chat, faults, witnessed>>
    BY DEF ProvesResult
  <1>. HIDE DEF e
  <1>. QED BY <1>1, <1>2, Nulls, FailsStep

LEMMA JudgesStep ==
  ASSUME IInv, NEW c \in Calls, Judges(c)
  PROVE  IInv'
  <1>1. /\ pc[c] = "done" /\ CallOK(c) /\ job[c] \in Jobs /\ authority \in Authorities
        /\ pending' \subseteq Calls /\ UNCHANGED <<files, world, chat, faults, witnessed>>
    BY DEF Judges, IInv, TypeOK, CallOK, Underway
  <1>2. CASE Ends(c)
    <2>1. TypeOK'
      BY <1>1, <1>2, EndsTo DEF IInv, TypeOK, files, world
    <2>. QED BY <1>1, <1>2, <2>1, EndsTo, AuthorityStays, LifecycleStays, CallStep DEF files
  <1>3. CASE ~ Ends(c)
    <2>. DEFINE p == IF c \in pending /\ evidence[c].result = "stale" /\ ~ ReconcilableStale(c)
                     THEN "clear" ELSE "accepted"
                noted == c \in pending
                j == [job[c] EXCEPT !.epoch = authority.epoch, !.noted = noted]
    <2>1. /\ ~ Rejects(c) /\ pc' = [pc EXCEPT ![c] = p] /\ evidence' = evidence
          /\ job' = [job EXCEPT ![c] = j]
      BY <1>3 DEF Judges, IInv, TypeOK
    <2>2. noted \in BOOLEAN
      OBVIOUS
    <2>3. Bound(authority) => authority.binding = job[c].spec.target /\ noted
      BY <2>1 DEF Rejects, Matches
    <2>4. noted => Bound(authority)
      BY <2>1 DEF Rejects, Matches
    <2>. HIDE DEF noted
    <2>5. /\ j \in Jobs /\ j.spec = job[c].spec /\ j.old = job[c].old /\ j.kind = job[c].kind
          /\ j.epoch = authority.epoch /\ j.noted = noted
      BY <1>1, <2>2 DEF Jobs, Authorities
    <2>6. p \in {"accepted", "clear"} /\ (p = "accepted" /\ noted /\ evidence[c].result = "stale" => evidence[c].behind)
      BY DEF ReconcilableStale, noted
    <2>. HIDE DEF p, j
    <2>7. TypeOK'
      BY <1>1, <2>1, <2>5, <2>6 DEF IInv, TypeOK, files, world
    <2>8. OthersStay(c) /\ pc'[c] = p /\ job'[c] = j /\ evidence'[c] = evidence[c]
      BY <2>1 DEF OthersStay, IInv, TypeOK
    <2>9. Underway(pc'[c], job'[c], evidence'[c], witnessed')
      BY <1>1, <2>5, <2>6, <2>8 DEF CallOK, Underway
    <2>10. Judged(pc'[c], job'[c], authority')
      BY <1>1, <2>5, <2>3, <2>4, <2>6, <2>8 DEF Judged, Authorities, files
    <2>. QED BY <1>1, <2>7, <2>8, <2>9, <2>10, AuthorityStays, LifecycleStays, CallStep DEF files
  <1>. QED BY <1>2, <1>3

LEMMA Released ==
  ASSUME NEW a \in Authorities, Scoped(a)
  PROVE  Release(a) \in Authorities /\ Follows(a, Release(a)) /\ Scoped(Release(a))
  BY Nulls DEF Release, NoAuthority, Authorities, Follows, Scoped

LEMMA CoreActsStep ==
  ASSUME IInv, NEW c \in Calls, CoreActs(c)
  PROVE  IInv'
  <1>1. /\ pc[c] = "accepted" /\ CallOK(c) /\ authority \in Authorities /\ job[c] \in Jobs
        /\ UNCHANGED <<lifecycle, pending, world, chat, faults, witnessed>>
        /\ authority' \in {authority, Release(authority)}
    BY DEF CoreActs, IInv, TypeOK, CallOK, Underway
  <1>2. authority' \in Authorities /\ Follows(authority, authority') /\ Scoped(authority')
    BY <1>1, Released DEF IInv, Follows
  <1>3. CASE Ends(c)
    <2>1. TypeOK'
      BY <1>1, <1>2, <1>3, EndsTo DEF IInv, TypeOK, world
    <2>. QED BY <1>1, <1>2, <1>3, <2>1, EndsTo, LifecycleStays, CallStep
  <1>4. CASE ~ Ends(c)
    <2>. DEFINE p == IF evidence[c].result = "stale" THEN "write" ELSE "clear"
    <2>1. job[c].noted /\ pc' = [pc EXCEPT ![c] = p] /\ UNCHANGED <<job, evidence>>
      BY <1>4 DEF CoreActs
    <2>2. TypeOK'
      BY <1>1, <1>2, <2>1 DEF IInv, TypeOK, world
    <2>3. OthersStay(c) /\ pc'[c] = p
      BY <2>1 DEF OthersStay, IInv, TypeOK
    <2>4. Underway(pc'[c], job'[c], evidence'[c], witnessed')
      BY <1>1, <2>1, <2>3 DEF CallOK, Underway
    <2>5. Judged(pc[c], job[c], authority')
      BY <1>1, <1>2, JudgedStays DEF CallOK
    <2>6. Judged(pc'[c], job'[c], authority')
      BY <1>1, <2>1, <2>3, <2>5 DEF Judged
    <2>. QED BY <1>1, <1>2, <2>2, <2>3, <2>4, <2>6, LifecycleStays, CallStep
  <1>. QED BY <1>3, <1>4

LEMMA WritesLifecycleStep ==
  ASSUME IInv, NEW c \in Calls, WritesLifecycle(c) \/ ClearsLifecycle(c)
  PROVE  IInv'
  <1>1. /\ Ends(c) /\ CallOK(c) /\ UNCHANGED <<authority, pending, world, chat, faults, witnessed>>
    BY DEF WritesLifecycle, ClearsLifecycle, IInv
  <1>2. CASE lifecycle' = NoLifecycle
    <2>1. TypeOK'
      BY <1>1, <1>2, EndsTo DEF IInv, TypeOK, world
    <2>. QED BY <1>1, <1>2, <2>1, EndsTo, AuthorityStays, CallStep DEF LifecycleIsBacked
  <1>3. CASE WritesLifecycle(c)
    <2>1. /\ job[c] \in Jobs /\ <<job[c].spec, evidence[c].initial>> \in witnessed
          /\ lifecycle' = [spec |-> job[c].spec, owner |-> evidence[c].initial]
      BY <1>1, <1>3 DEF WritesLifecycle, CallOK, Underway
    <2>2. job[c].spec \in Specs /\ evidence[c].initial \in Commits
      BY <2>1 DEF IInv, TypeOK
    <2>3. lifecycle' \in [spec : Specs, owner : Commits] /\ LifecycleIsBacked'
      BY <1>1, <2>1, <2>2 DEF LifecycleIsBacked
    <2>4. TypeOK'
      BY <1>1, <2>3, EndsTo DEF IInv, TypeOK, world
    <2>. QED BY <1>1, <2>3, <2>4, EndsTo, AuthorityStays, CallStep
  <1>. QED BY <1>2, <1>3 DEF ClearsLifecycle

-----------------------------------------------------------------------------
LEMMA InitIInv ==
  ASSUME Init
  PROVE  IInv
  <1>1. TypeOK
    BY Nulls, ConstantTypes DEF Init, TypeOK, Owners, Commits
  <1>2. \A c \in Calls : CallOK(c)
    BY Nulls DEF Init, CallOK, Underway, Judged
  <1>. QED BY <1>1, <1>2, Nulls DEF Init, IInv, Scoped, LifecycleIsBacked

LEMMA NextIInv ==
  ASSUME IInv, [Next]_vars
  PROVE  IInv'
  <1>1. ASSUME NEW c \in Calls, Step(c) PROVE IInv'
    BY <1>1, BeforeStep, LaunchStep, AssessmentEndsStep, ChecksStep, FastForwardsStep,
       ProvesResultStep, JudgesStep, CoreActsStep, WritesLifecycleStep DEF Step
  <1>2. CASE UNCHANGED vars
    BY <1>2 DEF vars, IInv, TypeOK, Scoped, LifecycleIsBacked, CallOK
  <1>. QED BY <1>1, <1>2, CoreDeclaresStep, ChatComparesStep, ProveStep, OwnerMovesStep,
              RemoteMovesStep, CrashStep DEF Next

LEMMA Inductive == Spec => []IInv
  <1>1. Init => IInv
    BY InitIInv
  <1>2. IInv /\ [Next]_vars => IInv'
    BY NextIInv
  <1>. QED BY <1>1, <1>2, PTL DEF Spec

(* Every variable keeps its type. *)
THEOREM LifecycleTypeCorrect == Spec => []TypeOK
  <1>1. IInv => TypeOK
    BY DEF IInv
  <1>. QED BY <1>1, Inductive, PTL

(* What the lifecycle file says was seen by an assessment of that spec,    *)
(* whatever crashes, declarations and other calls came in between.         *)
THEOREM CapabilityBacked == Spec => []LifecycleIsBacked
  <1>1. IInv => LifecycleIsBacked
    BY DEF IInv
  <1>. QED BY <1>1, Inductive, PTL

LEMMA MovesStep ==
  ASSUME IInv, [Next]_vars, NEW c \in Calls, pc[c] = "verified", owner' # owner,
         faults' = faults, pc'[c] # pc[c]
  PROVE  /\ <<job[c].spec, job[c].old>> \in witnessed
         /\ Ancestor(job[c].old, owner'.head) /\ owner'.head = job[c].spec.base
  <1>1. \E k \in Calls : FastForwards(k)
    BY ConstantTypes DEF Next, vars, world, Step, CoreDeclares, ChatCompares, Prove, OwnerMoves, RemoteMoves,
       Crash, Before, Launch, AssessmentEnds, ChecksOwner, ChecksAgain, Fails, ProvesResult, Judges,
       CoreActs, WritesLifecycle, ClearsLifecycle, IInv, TypeOK
  <1>2. PICK k \in Calls : FastForwards(k)
    BY <1>1
  <1>3. ~ Fails(k) /\ pc' = [pc EXCEPT ![k] = "merged"] /\ k = c
    BY <1>2 DEF FastForwards, Fails, world, IInv, TypeOK
  <1>4. owner' = [owner EXCEPT !.head = job[c].spec.base]
    BY <1>2, <1>3 DEF FastForwards
  <1>5. owner'.head = job[c].spec.base
    BY <1>4 DEF IInv, TypeOK, Owners
  <1>. QED BY <1>5 DEF IInv, CallOK, Underway

(* The owner is moved only for a capability that an assessment backs, and  *)
(* to the base that assessment pinned, also by a helper that outlived the  *)
(* plugin.                                                                 *)
THEOREM MovesAreBacked == Spec => MovesOnBackedCapability
  <1>1. IInv /\ [Next]_vars =>
          [\A c \in Calls :
             pc[c] = "verified" /\ owner' # owner
                 => \/ faults' # faults \/ pc'[c] = pc[c]
                    \/ /\ <<job[c].spec, job[c].old>> \in witnessed
                       /\ Ancestor(job[c].old, owner'.head)
                       /\ owner'.head = job[c].spec.base]_vars
    BY MovesStep
  <1>. QED BY <1>1, Inductive, PTL DEF Spec, MovesOnBackedCapability

(* Within the epoch in which a hook read the authority, its result         *)
(* releases, or writes the capability of, its own target.                  *)
THEOREM ResultsActForTheirTarget == Spec => ActsForItsTargetUnlessRaced
  <1>1. ASSUME IInv, [Next]_vars, NEW c \in Calls, job[c].epoch = authority.epoch
        PROVE  /\ Releases(c) => authority.binding = job[c].spec.target
               /\ Persists(c) => authority.binding \in {job[c].spec.target, NoTarget}
    <2>1. CallOK(c) /\ Scoped(authority)
      BY <1>1 DEF IInv
    <2>2. ASSUME Persists(c) PROVE authority.binding \in {job[c].spec.target, NoTarget}
      BY <1>1, <2>1, <2>2 DEF Persists, CallOK, Underway, Judged
    <2>3. ASSUME Releases(c) PROVE authority.binding = job[c].spec.target
      <3>1. \E k \in Calls : CoreActs(k) /\ k = c
        BY <1>1, <2>3, ZenonT(60) DEF Releases, Next, vars, files, Step, CoreDeclares, ChatCompares, Prove, OwnerMoves,
           RemoteMoves, Crash, Before, Launch, AssessmentEnds, ChecksOwner, ChecksAgain, Fails,
           FastForwards, ProvesResult, Judges, CoreActs, WritesLifecycle, ClearsLifecycle, Ends, IInv, TypeOK
      <3>2. Bound(authority)
        BY <2>1, <2>3, <3>1 DEF CoreActs, Release, Releases, Bound, Scoped
      <3>. QED BY <1>1, <2>1, <2>3, <3>2, SMTT(30) DEF Releases, CallOK, Judged
    <2>. QED BY <2>2, <2>3
  <1>2. IInv /\ [Next]_vars =>
          [\A c \in Calls :
             LET raced == job[c].epoch # authority.epoch
                 own   == job[c].spec.target
             IN  /\ Releases(c) => raced \/ authority.binding = own
                 /\ Persists(c) => raced \/ authority.binding \in {own, NoTarget}]_vars
    BY <1>1
  <1>. QED BY <1>2, Inductive, PTL DEF Spec, ActsForItsTargetUnlessRaced

-----------------------------------------------------------------------------
(***************************************************************************)
(* The router, for one session and any directories, calls and hooks under  *)
(* way.                                                                    *)
(***************************************************************************)
Open(h) == hooks[h] # NoHook

(* What the phases of a hook require of its record. *)
HookWell(k) ==
    /\ k.phase \in {"moving", "serve", "record", "forget"} => k.dir \in Dirs
    /\ k.phase = "moving" => k.from \in Dirs
    /\ k.kind \in {"before", "after"} => k.call \in ToolCalls
    /\ k.phase = "record" => k.kind = "before"
    /\ k.phase = "forget" => k.kind = "deleted"
WellHooks == \A h \in Hooks : Open(h) => HookWell(hooks[h])

(* A notice names the directory in force; without one the model knows it.  *)
Told ==
    /\ route = NoRoute => shown = NoDir /\ notice = NoDir
    /\ route # NoRoute =>
          notice \in {NoDir, route.dir} /\ (notice = NoDir => shown \in {NoDir, route.dir})

OneHookPerCall ==
    /\ \A h \in Hooks : Open(h) =>
          /\ hooks[h].kind = "before" => program[hooks[h].call] = "asked"
          /\ hooks[h].kind = "after" => program[hooks[h].call] = "over"
    /\ \A g, h \in Hooks : Open(g) /\ Open(h) /\ hooks[g].kind = hooks[h].kind
          /\ hooks[g].kind \in {"before", "after"} /\ hooks[g].call = hooks[h].call => g = h

(* The session is only forgotten after it ended. *)
Undeleted ==
    session.alive =>
        /\ \A i \in DOMAIN bus : bus[i].kind # "deleted"
        /\ \A h \in Hooks : Open(h) => hooks[h].kind # "deleted"

(* A call that was admitted has the route of the guard that admitted it,   *)
(* and its after-hook is there at once.                                    *)
Met ==
    session.alive =>
        /\ \A c \in ToolCalls : program[c] \in {"admitted", "ran"} =>
              callRoutes[c] = servedBy[c] /\ callRoutes[c] # NoDir
        /\ \A h \in Hooks : Open(h) =>
              /\ hooks[h].kind = "after" => hooks[h].phase = "serve"
              /\ hooks[h].kind = "after" \/ hooks[h].phase = "record" =>
                    hooks[h].dir = servedBy[hooks[h].call]

(* State that was not entered late is in the guard in force, and no hook   *)
(* is about to leave it.                                                   *)
Unvisited ==
    session.alive =>
        \A d \in local \ late :
            /\ route # NoRoute /\ route.dir = d
            /\ \A h \in Hooks : Open(h) /\ hooks[h].phase = "moving" => hooks[h].from # d

RInv ==
    /\ RouterTypeOK /\ WellHooks /\ Told
    /\ OneHookPerCall /\ Undeleted /\ Met /\ Unvisited

Records == HookRecords

LEMMA HookTyped ==
    ASSUME NEW kind \in Kinds, NEW call \in ToolCalls \cup {NoDir}
    PROVE  LET k == Hook(kind, call)
           IN  k \in Records /\ k.kind = kind /\ k.call = call /\ k.phase = "start" /\ k.seen = NoRoute
BY DEF Hook, Records, HookRecords, NoCall, Sources

(* The record of a hook after a transition, and what else a transition     *)
(* changes: nothing, the first route, or what the guard that is left holds.*)
Stays(r) ==
    /\ UNCHANGED <<local, shown, late>> /\ r.phase \in {"serve", "lookup"}
    /\ route' # NoRoute <=> route # NoRoute
    /\ route # NoRoute => route'.dir = route.dir

Enters(h, r) ==
    /\ route = NoRoute /\ r.phase = "serve" /\ UNCHANGED local
    /\ route' # NoRoute /\ route'.dir = r.dir /\ shown' = r.dir
    /\ late' = (late \ {r.dir}) \cup BeingLeft(h)

Leaves(r) ==
    /\ route # NoRoute /\ r.phase = "moving" /\ r.from = route.dir
    /\ local' = local \ {route.dir} /\ UNCHANGED <<route, shown, late>>

Turns(h, kind, call, r) ==
    /\ r \in Records /\ HookWell(r) /\ r.kind = kind /\ r.call = call
    /\ hooks' = [hooks EXCEPT ![h] = r] /\ r.phase \in {"serve", "lookup", "moving"}
    /\ UNCHANGED <<notice, callRoutes, servedBy>>
    /\ route' \in Routes \cup {NoRoute}
    /\ Stays(r) \/ Enters(h, r) \/ Leaves(r)

Served(kind, call, dir) ==
    [Hook(kind, call) EXCEPT !.phase = "serve", !.dir = dir]

LEMMA ServingTyped ==
    ASSUME NEW kind \in Kinds, NEW call \in ToolCalls \cup {NoDir}, NEW dir \in Dirs,
           kind \in {"before", "after"} => call \in ToolCalls
    PROVE  LET r == Served(kind, call, dir)
           IN  /\ r \in Records /\ HookWell(r) /\ r.kind = kind /\ r.call = call
               /\ r.phase = "serve" /\ r.dir = dir
<1> DEFINE k == Hook(kind, call)
           r == Served(kind, call, dir)
<1>1. k \in Records /\ k.kind = kind /\ k.call = call
    BY HookTyped
<1>2. r = [k EXCEPT !.phase = "serve", !.dir = dir]
    BY DEF Served
<1> HIDE DEF k, r
<1>3. /\ r \in Records /\ r.kind = kind /\ r.call = call /\ r.phase = "serve" /\ r.dir = dir
    BY <1>1, <1>2 DEF Records, HookRecords
<1>4. HookWell(r)
    BY <1>3 DEF HookWell
<1> QED
    BY <1>3, <1>4 DEF r

LEMMA Transitions ==
    ASSUME RouterTypeOK, NEW h \in Hooks,
           NEW k \in Records, k.kind \in {"before", "after"} => k.call \in ToolCalls,
           NEW target \in Dirs, NEW source \in Sources,
           transitionSessionRoute(h, k, target, source)
    PROVE  \E r \in Records : Turns(h, k.kind, k.call, r)
<1>1. k.kind \in Kinds /\ k.call \in ToolCalls \cup {NoDir}
    BY DEF Records, HookRecords, NoCall
<1>2. route = NoRoute \/ (route \in Routes /\ route.dir \in Dirs /\ route.source \in Sources)
    BY DEF RouterTypeOK, Routes
<1> DEFINE s == Served(k.kind, k.call, target)
<1>3. /\ s \in Records /\ HookWell(s) /\ s.kind = k.kind /\ s.call = k.call
      /\ s.phase = "serve" /\ s.dir = target
    BY <1>1, ServingTyped, ZenonT(60)
<1>4. CASE StaysThere(h, k, target, source)
  <2>1. /\ route # NoRoute /\ route.dir = target /\ hooks' = [hooks EXCEPT ![h] = s]
        /\ UNCHANGED <<notice, callRoutes, servedBy, local, shown, late>>
        /\ route' = route \/ route' = [route EXCEPT !.source = "session"]
      BY <1>4 DEF StaysThere, Serve, history, Served
  <2>2. route' \in Routes /\ route'.dir = route.dir
      BY <1>2, <2>1 DEF Routes, Sources
  <2>3. route' # NoRoute
      BY <2>2, RouterAssumption DEF RouterAssumption
  <2> HIDE DEF s
  <2> QED
      BY <1>3, <2>1, <2>2, <2>3 DEF Turns, Stays
<1>5. CASE EntersFirst(h, k, target, source)
  <2>1. /\ route = NoRoute /\ hooks' = [hooks EXCEPT ![h] = s]
        /\ UNCHANGED <<notice, callRoutes, servedBy, local>>
        /\ route' = [dir |-> target, source |-> source] /\ shown' = target
        /\ late' = (late \ {target}) \cup BeingLeft(h)
      BY <1>5 DEF EntersFirst, Serve, Served
  <2>2. route' \in Routes /\ route'.dir = target
      BY <2>1 DEF Routes
  <2>3. route' # NoRoute
      BY <2>2, RouterAssumption DEF RouterAssumption
  <2> HIDE DEF s
  <2> QED
      BY <1>3, <2>1, <2>2, <2>3 DEF Turns, Enters
<1>6. CASE StartsToLeave(h, k, target, source)
  <2> DEFINE b == Hook(k.kind, k.call)
             r == [b EXCEPT !.phase = "moving", !.dir = target, !.from = route.dir,
                            !.source = source]
  <2>1. /\ route # NoRoute /\ hooks' = [hooks EXCEPT ![h] = r] /\ local' = local \ {route.dir}
        /\ UNCHANGED <<route, notice, callRoutes, servedBy, shown, late>>
      BY <1>6 DEF StartsToLeave, history
  <2>2. b \in Records /\ b.kind = k.kind /\ b.call = k.call
      BY <1>1, HookTyped
  <2> HIDE DEF b
  <2>3. /\ r \in Records /\ r.kind = k.kind /\ r.call = k.call /\ r.phase = "moving"
        /\ r.dir = target /\ r.from = route.dir
      BY <1>2, <2>1, <2>2 DEF Records, HookRecords
  <2> HIDE DEF r
  <2>4. HookWell(r)
      BY <1>2, <2>1, <2>3 DEF HookWell
  <2> QED
      BY <1>2, <2>1, <2>3, <2>4 DEF Turns, Leaves
<1> QED
    BY <1>4, <1>5, <1>6 DEF transitionSessionRoute

LEMMA Begins ==
    ASSUME RouterTypeOK, NEW h \in Hooks,
           NEW kind \in Kinds, NEW call \in ToolCalls \cup {NoDir},
           kind \in {"before", "after"} => call \in ToolCalls, NEW hint \in Dirs \cup {NoDir},
           routeForSession(h, Hook(kind, call), hint)
    PROVE  \E r \in Records : Turns(h, kind, call, r)
<1> DEFINE k == Hook(kind, call)
<1>1. k \in Records /\ k.kind = kind /\ k.call = call /\ k.phase = "start"
    BY HookTyped
<1>2. CASE hint # NoDir /\ transitionSessionRoute(h, k, hint, "session")
  <2> HIDE DEF k
  <2>1. "session" \in Sources /\ hint \in Dirs
      BY <1>2 DEF Sources
  <2> QED
      BY <1>1, <1>2, <2>1, Transitions
<1>3. CASE /\ hooks' = [hooks EXCEPT ![h] = [k EXCEPT !.phase = "lookup", !.seen = route]]
           /\ UNCHANGED <<route, notice, callRoutes, local, history>>
  <2> DEFINE r == [k EXCEPT !.phase = "lookup", !.seen = route]
  <2>1. UNCHANGED <<route, notice, callRoutes, local, servedBy, shown, late>>
      BY <1>3 DEF history
  <2> HIDE DEF k
  <2>2. /\ r \in Records /\ r.kind = kind /\ r.call = call /\ r.phase = "lookup"
      BY <1>1 DEF Records, HookRecords, RouterTypeOK
  <2>3. hooks' = [hooks EXCEPT ![h] = r] /\ route \in Routes \cup {NoRoute}
      BY <1>3 DEF RouterTypeOK
  <2> HIDE DEF r
  <2>4. HookWell(r)
      BY <2>2 DEF HookWell
  <2> QED
      BY <2>1, <2>2, <2>3, <2>4 DEF Turns, Stays
<1>4. CASE /\ Known /\ Serve(h, k, route.dir)
           /\ UNCHANGED <<route, notice, callRoutes, local, history>>
  <2> DEFINE s == Served(kind, call, route.dir)
  <2>1. UNCHANGED <<route, notice, callRoutes, local, servedBy, shown, late>>
      BY <1>4 DEF history
  <2>2. route.dir \in Dirs /\ route \in Routes
      BY <1>4 DEF Known, Routes, Sources
  <2>3. hooks' = [hooks EXCEPT ![h] = s]
      BY <1>1, <1>4 DEF Serve, Served
  <2>4. /\ s \in Records /\ HookWell(s) /\ s.kind = kind /\ s.call = call /\ s.phase = "serve"
      BY <2>2, ServingTyped
  <2> HIDE DEF s
  <2> QED
      BY <2>1, <2>2, <2>3, <2>4 DEF Turns, Stays
<1> QED
    BY <1>2, <1>3, <1>4 DEF routeForSession

LEMMA LookupsReturn ==
    ASSUME RouterTypeOK, WellHooks, NEW h \in Hooks,
           LookupReturns(h)
    PROVE  /\ Open(h) /\ hooks[h].phase = "answered"
           /\ \E r \in Records : Turns(h, hooks[h].kind, hooks[h].call, r)
<1> DEFINE k == hooks[h]
<1>1. Open(h) /\ k.phase = "answered"
    BY DEF LookupReturns, Open
<1>2. k \in Records /\ (k.kind \in {"before", "after"} => k.call \in ToolCalls)
    BY <1>1 DEF RouterTypeOK, Records, Open, WellHooks, HookWell
<1>3. k.dir \in Dirs \cup {NoDir} /\ k.seen \in Routes \cup {NoRoute}
      /\ k.kind \in Kinds /\ k.call \in ToolCalls \cup {NoDir}
    BY <1>2 DEF Records, HookRecords, NoCall
<1>4. {"session", "fallback"} \subseteq Sources /\ Fallback \in Dirs
    BY RouterAssumption DEF Sources, RouterAssumption
<1>5. CASE k.dir # NoDir /\ transitionSessionRoute(h, k, k.dir, "session")
  <2> HIDE DEF k
  <2> QED
      BY <1>2, <1>3, <1>4, <1>5, Transitions, <1>1 DEF k
<1>6. CASE transitionSessionRoute(h, k, Fallback, "fallback")
  <2> HIDE DEF k
  <2> QED
      BY <1>2, <1>4, <1>6, Transitions, <1>1 DEF k
<1>7. CASE /\ k.seen # NoRoute /\ Serve(h, k, k.seen.dir)
           /\ UNCHANGED <<route, notice, callRoutes, local, history>>
  <2> DEFINE s == Served(k.kind, k.call, k.seen.dir)
  <2>1. /\ UNCHANGED <<route, notice, callRoutes, local, servedBy, shown, late>>
        /\ route \in Routes \cup {NoRoute}
      BY <1>7 DEF history, RouterTypeOK
  <2>2. k.seen.dir \in Dirs
      BY <1>3, <1>7 DEF Routes
  <2>3. hooks' = [hooks EXCEPT ![h] = s]
      BY <1>7 DEF Serve, Served
  <2> HIDE DEF k
  <2>4. s \in Records /\ HookWell(s) /\ s.kind = k.kind /\ s.call = k.call /\ s.phase = "serve"
      BY <1>2, <1>3, <2>2, ServingTyped
  <2> HIDE DEF s
  <2>5. Turns(h, k.kind, k.call, s)
      BY <2>1, <2>3, <2>4 DEF Turns, Stays
  <2> QED
      BY <1>1, <2>4, <2>5 DEF k
<1> QED
    BY <1>5, <1>6, <1>7 DEF LookupReturns

-----------------------------------------------------------------------------
(* What a change of one hook leaves of each part of the invariant. *)

Sets(h, r) == hooks' = [hooks EXCEPT ![h] = r]

LEMMA Set ==
    ASSUME RouterTypeOK, NEW h \in Hooks, NEW r, Sets(h, r)
    PROVE  hooks'[h] = r /\ \A g \in Hooks \ {h} : hooks'[g] = hooks[g]
BY DEF RouterTypeOK, Sets

LEMMA HooksStayWell ==
    ASSUME RouterTypeOK, WellHooks, NEW h \in Hooks, NEW r, Sets(h, r),
           r = NoHook \/ HookWell(r)
    PROVE  WellHooks'
BY Set DEF WellHooks, Open, HookWell

(* The hook goes on, ends, or begins. *)
Continues(h, r) ==
    Open(h) /\ r.kind = hooks[h].kind /\ r.call = hooks[h].call /\ UNCHANGED program
Finishes(h, r) ==
    /\ r = NoHook
    /\ \/ UNCHANGED program
       \/ /\ Open(h) /\ hooks[h].kind = "before"
          /\ \E s : program' = [program EXCEPT ![hooks[h].call] = s]
BeginsFor(r, kind, from, to) ==
    /\ r.kind = kind /\ r.call \in ToolCalls /\ program[r.call] = from
    /\ program' = [program EXCEPT ![r.call] = to]

LEMMA CallsStayApart ==
    ASSUME RouterTypeOK, WellHooks, OneHookPerCall, NEW h \in Hooks, NEW r, Sets(h, r),
           \/ Continues(h, r) \/ Finishes(h, r)
           \/ r.kind \notin {"before", "after"} /\ UNCHANGED program
           \/ BeginsFor(r, "before", "new", "asked") \/ BeginsFor(r, "after", "ran", "over")
    PROVE  OneHookPerCall'
<1>1. hooks'[h] = r /\ \A g \in Hooks \ {h} : hooks'[g] = hooks[g]
    BY Set
<1>2. \A g \in Hooks : Open(g) /\ hooks[g].kind \in {"before", "after"} => hooks[g].call \in ToolCalls
    BY DEF WellHooks, HookWell
<1>3. DOMAIN program = ToolCalls
    BY DEF RouterTypeOK
<1>4. CASE Continues(h, r) \/ (r.kind \notin {"before", "after"} /\ UNCHANGED program)
    BY <1>1, <1>4 DEF Continues, OneHookPerCall, Open
<1>5. CASE Finishes(h, r)
  <2>1. CASE UNCHANGED program
      BY <1>1, <1>5, <2>1 DEF Finishes, OneHookPerCall, Open
  <2>2. CASE /\ Open(h) /\ hooks[h].kind = "before"
             /\ \E s : program' = [program EXCEPT ![hooks[h].call] = s]
    <3>1. PICK s : program' = [program EXCEPT ![hooks[h].call] = s]
        BY <2>2
    <3>2. program[hooks[h].call] = "asked" /\ hooks[h].call \in ToolCalls
        BY <1>2, <2>2 DEF OneHookPerCall
    <3>3. \A g \in Hooks \ {h} : Open(g) /\ hooks[g].kind \in {"before", "after"} =>
              hooks[g].call # hooks[h].call /\ program'[hooks[g].call] = program[hooks[g].call]
      <4>1. ASSUME NEW g \in Hooks \ {h}, Open(g), hooks[g].kind \in {"before", "after"}
            PROVE  hooks[g].call # hooks[h].call
          BY <2>2, <3>2, <4>1 DEF OneHookPerCall
      <4> QED
          BY <1>2, <1>3, <3>1, <4>1
    <3> QED
        BY <1>1, <1>5, <3>3 DEF Finishes, OneHookPerCall, Open
  <2> QED
      BY <1>5, <2>1, <2>2 DEF Finishes
<1>6. ASSUME NEW kind \in {"before", "after"}, NEW from \in {"new", "ran"}, NEW to,
             BeginsFor(r, kind, from, to), to = IF kind = "before" THEN "asked" ELSE "over"
      PROVE  OneHookPerCall'
  <2>1. \A g \in Hooks \ {h} : Open(g) /\ hooks[g].kind \in {"before", "after"} =>
            hooks[g].call # r.call /\ program'[hooks[g].call] = program[hooks[g].call]
    <3>1. ASSUME NEW g \in Hooks \ {h}, Open(g), hooks[g].kind \in {"before", "after"}
          PROVE  hooks[g].call # r.call
        BY <1>6, <3>1 DEF OneHookPerCall, BeginsFor
    <3> QED
        BY <1>2, <1>3, <1>6, <3>1 DEF BeginsFor
  <2>2. program'[r.call] = to /\ r.kind = kind
      BY <1>3, <1>6 DEF BeginsFor
  <2> QED
      BY <1>1, <1>6, <2>1, <2>2 DEF OneHookPerCall, Open
<1> QED
    BY <1>4, <1>5, <1>6

LEMMA Events ==
    ASSUME RouterTypeOK, bus # <<>>
    PROVE  /\ Head(bus) \in [kind : {"updated", "deleted"}, dir : Dirs]
           /\ Tail(bus) \in Seq([kind : {"updated", "deleted"}, dir : Dirs])
           /\ Head(bus) = bus[1] /\ 1 \in DOMAIN bus
           /\ \A i \in DOMAIN Tail(bus) : i + 1 \in DOMAIN bus /\ Tail(bus)[i] = bus[i + 1]
<1> DEFINE E == [kind : {"updated", "deleted"}, dir : Dirs]
<1>1. bus \in Seq(E) /\ bus # <<>>
    BY DEF RouterTypeOK
<1> HIDE DEF E
<1>2. Head(bus) \in E /\ Tail(bus) \in Seq(E) /\ Len(Tail(bus)) = Len(bus) - 1 /\ Len(bus) \in Nat \ {0}
      /\ \A i \in 1..Len(Tail(bus)) : Tail(bus)[i] = bus[i + 1]
    BY <1>1, HeadTailProperties, LenProperties, EmptySeq
<1>3. DOMAIN bus = 1..Len(bus) /\ DOMAIN Tail(bus) = 1..Len(Tail(bus)) /\ Head(bus) = bus[1]
    BY <1>1, <1>2, LenProperties
<1> QED
    BY <1>2, <1>3 DEF E

LEMMA StaysUndeleted ==
    ASSUME RouterTypeOK, Undeleted, NEW h \in Hooks, NEW r, Sets(h, r),
           session'.alive => session.alive,
           session.alive => r = NoHook \/ r.kind # "deleted",
           bus' = bus \/ (bus # <<>> /\ bus' = Tail(bus))
    PROVE  Undeleted'
<1>1. hooks'[h] = r /\ \A g \in Hooks \ {h} : hooks'[g] = hooks[g]
    BY Set
<1>2. session.alive => \A i \in DOMAIN bus' : bus'[i].kind # "deleted"
    BY Events DEF Undeleted
<1> QED
    BY <1>1, <1>2 DEF Undeleted, Open

LEMMA StaysMet ==
    ASSUME RouterTypeOK, Met, NEW h \in Hooks, NEW r, Sets(h, r),
           session'.alive => session.alive,
           session.alive => r = NoHook \/ (r.kind # "after" /\ r.phase # "record")
                              \/ (r.kind = "after" /\ r.phase = "serve"
                                    /\ r.dir = servedBy[r.call]),
           \A c \in ToolCalls : program'[c] \in {"admitted", "ran"} => program[c] \in {"admitted", "ran"},
           UNCHANGED <<callRoutes, servedBy>>
    PROVE  Met'
<1>1. hooks'[h] = r /\ \A g \in Hooks \ {h} : hooks'[g] = hooks[g]
    BY Set
<1> QED
    BY <1>1 DEF Met, Open

LEMMA StaysUnvisited ==
    ASSUME RouterTypeOK, Unvisited, NEW h \in Hooks, NEW r, Sets(h, r),
           session'.alive => session.alive, r = NoHook \/ r.phase # "moving",
           UNCHANGED <<route, local, late>>
    PROVE  Unvisited'
<1>1. hooks'[h] = r /\ \A g \in Hooks \ {h} : hooks'[g] = hooks[g]
    BY Set
<1> QED
    BY <1>1 DEF Unvisited, Open

(* A hook that is not moving takes a turn. *)
LEMMA TurnKeeps ==
    ASSUME RouterTypeOK, WellHooks, Told, Unvisited,
           NEW h \in Hooks, Open(h) => hooks[h].phase # "moving",
           NEW kind, NEW call, NEW r \in Records, Turns(h, kind, call, r),
           session'.alive => session.alive
    PROVE  /\ WellHooks' /\ Told' /\ Unvisited'
           /\ route' \in Routes \cup {NoRoute} /\ notice' \in Dirs \cup {NoDir}
           /\ local' \subseteq Dirs /\ late' \subseteq Dirs /\ shown' \in Dirs \cup {NoDir}
           /\ hooks' \in [Hooks -> Records \cup {NoHook}]
           /\ UNCHANGED <<callRoutes, servedBy>>
<1>1. Sets(h, r) /\ HookWell(r) /\ r.kind = kind /\ r.call = call /\ r \in Records
      /\ UNCHANGED <<notice, callRoutes, servedBy>>
    BY DEF Turns, Sets
<1>2. hooks'[h] = r /\ \A g \in Hooks \ {h} : hooks'[g] = hooks[g]
    BY <1>1, Set
<1>3. WellHooks'
    BY <1>1, HooksStayWell
<1>4. /\ hooks' \in [Hooks -> Records \cup {NoHook}]
      /\ route' \in Routes \cup {NoRoute} /\ notice' \in Dirs \cup {NoDir}
    BY <1>1 DEF Turns, Sets, RouterTypeOK, Records
<1>5. /\ local \subseteq Dirs /\ late \subseteq Dirs /\ shown \in Dirs \cup {NoDir}
      /\ notice \in Dirs \cup {NoDir}
    BY DEF RouterTypeOK
<1>6. CASE Stays(r)
    BY <1>1, <1>2, <1>3, <1>4, <1>5, <1>6 DEF Stays, Told, Unvisited, Open
<1>7. CASE Enters(h, r)
  <2>1. r.dir \in Dirs
      BY <1>1, <1>7 DEF Enters, HookWell
  <2>2. BeingLeft(h) \subseteq Dirs
    <3>1. ASSUME NEW g \in Hooks, ~Idle(g), hooks[g].phase = "moving"
          PROVE  hooks[g].from \in Dirs
        BY <3>1 DEF WellHooks, HookWell, Open, Idle
    <3> QED
        BY <3>1 DEF BeingLeft
  <2>3. Told'
      BY <1>1, <1>7 DEF Enters, Told
  <2>4. Unvisited'
    <3>1. SUFFICES ASSUME session'.alive, NEW d \in local' \ late'
                   PROVE  /\ route' # NoRoute /\ route'.dir = d
                          /\ \A g \in Hooks : Open(g)' /\ hooks'[g].phase = "moving" =>
                                hooks'[g].from # d
        BY DEF Unvisited
    <3>2. local \subseteq late
        BY <1>7, <3>1 DEF Enters, Unvisited
    <3>3. d = r.dir /\ d \notin BeingLeft(h)
        BY <1>7, <3>1, <3>2 DEF Enters
    <3>4. \A g \in Hooks \ {h} : Open(g) /\ hooks[g].phase = "moving" => hooks[g].from # d
        BY <3>3 DEF BeingLeft, Idle, Open
    <3> QED
        BY <1>2, <1>7, <3>3, <3>4 DEF Enters, Open
  <2> QED
      BY <1>1, <1>3, <1>4, <1>5, <1>7, <2>1, <2>2, <2>3, <2>4 DEF Enters
<1>8. CASE Leaves(r)
  <2>1. Told'
      BY <1>1, <1>8 DEF Leaves, Told
  <2>2. session'.alive => local' \subseteq late'
      BY <1>8 DEF Leaves, Unvisited
  <2>3. Unvisited'
      BY <2>2 DEF Unvisited
  <2> QED
      BY <1>1, <1>3, <1>4, <1>5, <1>8, <2>1, <2>3 DEF Leaves
<1> QED
    BY <1>6, <1>7, <1>8 DEF Turns

(* A hook ends or goes on where it is, and only its own record changes. *)
LEMMA OnlyThisHook ==
    ASSUME RInv, NEW h \in Hooks, NEW r, Sets(h, r),
           r = NoHook \/ (r \in Records /\ HookWell(r)),
           UNCHANGED program, Continues(h, r) \/ Finishes(h, r), r = NoHook \/ r.phase # "moving",
           session.alive => r = NoHook \/ (r.phase # "record" /\ r.kind # "after"),
           UNCHANGED <<session, moves, bus, route, callRoutes, local, servedBy, late>>,
           notice' \in Dirs \cup {NoDir}, shown' \in Dirs \cup {NoDir}, Told'
    PROVE  RInv'
<1>1. RouterTypeOK'
    BY DEF RInv, RouterTypeOK, Sets, Records
<1>2. WellHooks' /\ OneHookPerCall' /\ Met' /\ Unvisited'
    BY HooksStayWell, CallsStayApart, StaysMet, StaysUnvisited DEF RInv
<1>3. session.alive => r = NoHook \/ r.kind # "deleted"
    BY DEF RInv, Undeleted, Continues, Finishes
<1>4. Undeleted'
    BY <1>3, StaysUndeleted DEF RInv
<1> QED
    BY <1>1, <1>2, <1>4 DEF RInv

(* A hook that begins, or has its answer, takes a turn. *)
LEMMA TurnStep ==
    ASSUME RInv, NEW h \in Hooks,
           Open(h) => hooks[h].phase # "moving",
           NEW kind, NEW call, NEW r \in Records, Turns(h, kind, call, r),
           UNCHANGED <<session, moves>>, bus' = bus \/ (bus # <<>> /\ bus' = Tail(bus)),
           program' \in [ToolCalls -> {"new", "asked", "refused", "admitted", "ran", "over"}],
           \A c \in ToolCalls : program'[c] \in {"admitted", "ran"} => program[c] \in {"admitted", "ran"},
           \/ Continues(h, r)
           \/ r.kind \notin {"before", "after"} /\ UNCHANGED program
           \/ BeginsFor(r, "before", "new", "asked") \/ BeginsFor(r, "after", "ran", "over"),
           session.alive => r.kind # "deleted" /\
               (r.kind # "after" \/ (r.phase = "serve" /\ r.dir = servedBy[r.call]))
    PROVE  RInv'
<1>1. Sets(h, r) /\ HookWell(r) /\ r.phase # "record"
    BY DEF Turns, Sets
<1>2. /\ WellHooks' /\ Told' /\ Unvisited'
      /\ route' \in Routes \cup {NoRoute} /\ notice' \in Dirs \cup {NoDir}
      /\ local' \subseteq Dirs /\ late' \subseteq Dirs /\ shown' \in Dirs \cup {NoDir}
      /\ hooks' \in [Hooks -> Records \cup {NoHook}]
      /\ UNCHANGED <<callRoutes, servedBy>>
    BY TurnKeeps DEF RInv
<1>3. bus' \in Seq([kind : {"updated", "deleted"}, dir : Dirs])
    BY Events DEF RInv, RouterTypeOK
<1>4. RouterTypeOK'
    BY <1>2, <1>3 DEF RInv, RouterTypeOK, Records
<1>5. OneHookPerCall' /\ Undeleted' /\ Met'
    BY <1>1, <1>2, CallsStayApart, StaysUndeleted, StaysMet DEF RInv
<1> QED
    BY <1>2, <1>4, <1>5 DEF RInv

-----------------------------------------------------------------------------
(* OpenCode, and the hooks that begin. *)

LEMMA WorldSteps ==
    ASSUME RInv,
           \/ \E dir \in Dirs : SessionMoves(dir)
           \/ SessionEnds \/ \E c \in ToolCalls : ToolRuns(c)
    PROVE  RInv'
<1> USE DEF history
<1> DEFINE E == [kind : {"updated", "deleted"}, dir : Dirs]
<1>1. session.dir \in Dirs /\ session.alive \in BOOLEAN /\ bus \in Seq(E)
    BY DEF RInv, RouterTypeOK
<1>2. ASSUME NEW kind \in {"updated", "deleted"}, NEW dir \in Dirs,
             bus' = Append(bus, [kind |-> kind, dir |-> dir])
      PROVE  /\ bus' \in Seq(E)
             /\ kind # "deleted" /\ (\A i \in DOMAIN bus : bus[i].kind # "deleted") =>
                  \A i \in DOMAIN bus' : bus'[i].kind # "deleted"
  <2> DEFINE e == [kind |-> kind, dir |-> dir]
  <2>1. e \in E /\ e.kind = kind /\ bus' = Append(bus, e)
      BY <1>2
  <2> HIDE DEF e, E
  <2>2. /\ bus' \in Seq(E) /\ Len(bus') = Len(bus) + 1 /\ bus'[Len(bus) + 1] = e
        /\ \A i \in 1..Len(bus) : bus'[i] = bus[i]
      BY <1>1, <2>1, AppendProperties
  <2>3. DOMAIN bus' = 1..(Len(bus) + 1) /\ DOMAIN bus = 1..Len(bus) /\ Len(bus) \in Nat
      BY <1>1, <2>2, LenProperties
  <2>4. \A i \in DOMAIN bus' : i \in DOMAIN bus \/ i = Len(bus) + 1
      BY <2>3
  <2>5. \A i \in DOMAIN bus' :
            (i \in DOMAIN bus /\ bus'[i] = bus[i]) \/ bus'[i] = e
      BY <2>2, <2>3, <2>4
  <2> QED
      BY <2>1, <2>2, <2>5
<1> HIDE DEF E
<1>3. CASE \E dir \in Dirs : SessionMoves(dir)
  <2>1. PICK dir \in Dirs : SessionMoves(dir)
      BY <1>3
  <2> DEFINE e == [kind |-> "updated", dir |-> dir]
  <2>2. /\ session' = [session EXCEPT !.dir = dir] /\ moves' = moves + 1 /\ moves < MaxMoves
        /\ bus' = Append(bus, e)
        /\ UNCHANGED <<program, route, notice, callRoutes, local, hooks, servedBy, shown, late>>
      BY <2>1 DEF SessionMoves
  <2> HIDE DEF e
  <2>3. session' \in [dir : Dirs, alive : BOOLEAN] /\ session'.alive = session.alive
      BY <2>2 DEF RInv, RouterTypeOK
  <2>4. bus' \in Seq(E) /\ (session.alive => \A i \in DOMAIN bus' : bus'[i].kind # "deleted")
      BY <1>2, <2>2 DEF RInv, Undeleted, e
  <2>5. moves' \in 0 .. MaxMoves
      BY <2>2, RouterAssumption DEF RInv, RouterTypeOK, RouterAssumption
  <2>6. RouterTypeOK' /\ WellHooks' /\ Told' /\ Undeleted'
      BY <2>2, <2>3, <2>4, <2>5
         DEF RInv, RouterTypeOK, WellHooks, Told, Undeleted, Open, HookWell, E
  <2>7. OneHookPerCall'
      BY <2>2 DEF RInv, OneHookPerCall, Open
  <2>8. Met'
      BY <2>2, <2>3 DEF RInv, Met, Open
  <2>9. Unvisited'
      BY <2>2, <2>3 DEF RInv, Unvisited, Open
  <2> QED
      BY <2>6, <2>7, <2>8, <2>9 DEF RInv
<1>4. CASE SessionEnds
  <2> DEFINE e == [kind |-> "deleted", dir |-> session.dir]
  <2>1. /\ session' = [session EXCEPT !.alive = FALSE] /\ bus' = Append(bus, e)
        /\ UNCHANGED <<moves, program, route, notice, callRoutes, local, hooks, servedBy, shown,
                       late>>
      BY <1>4 DEF SessionEnds
  <2> HIDE DEF e
  <2>2. session' \in [dir : Dirs, alive : BOOLEAN] /\ session'.alive = FALSE
      BY <2>1 DEF RInv, RouterTypeOK
  <2>3. bus' \in Seq(E)
      BY <1>1, <1>2, <2>1 DEF e
  <2>4. RouterTypeOK' /\ WellHooks' /\ Told'
      BY <2>1, <2>2, <2>3 DEF RInv, RouterTypeOK, WellHooks, Told, Open, HookWell, E
  <2>5. OneHookPerCall'
      BY <2>1 DEF RInv, OneHookPerCall, Open
  <2>6. Undeleted' /\ Met' /\ Unvisited'
      BY <2>2 DEF Undeleted, Met, Unvisited
  <2> QED
      BY <2>4, <2>5, <2>6 DEF RInv
<1>5. CASE \E c \in ToolCalls : ToolRuns(c)
  <2>1. PICK c \in ToolCalls : ToolRuns(c)
      BY <1>5
  <2>2. /\ program[c] = "admitted" /\ program' = [program EXCEPT ![c] = "ran"]
        /\ UNCHANGED <<session, moves, bus, route, notice, callRoutes, local, hooks, servedBy,
                       shown, late>>
      BY <2>1 DEF ToolRuns
  <2>3. /\ program' \in [ToolCalls -> {"new", "asked", "refused", "admitted", "ran", "over"}]
        /\ \A d \in ToolCalls : program'[d] = IF d = c THEN "ran" ELSE program[d]
      BY <2>2 DEF RInv, RouterTypeOK
  <2>4. RouterTypeOK' /\ WellHooks' /\ Told' /\ Undeleted' /\ Unvisited'
      BY <2>2, <2>3
         DEF RInv, RouterTypeOK, WellHooks, Told, Undeleted, Unvisited, Open, HookWell
  <2>5. Met'
      BY <2>2, <2>3 DEF RInv, Met, Open
  <2>6. OneHookPerCall'
      BY <2>2, <2>3 DEF RInv, OneHookPerCall, WellHooks, HookWell, Open
  <2> QED
      BY <2>4, <2>5, <2>6 DEF RInv
<1> QED
    BY <1>3, <1>4, <1>5

LEMMA BeginPlainStep ==
    ASSUME RInv, NEW h \in Hooks, NEW kind \in Kinds,
           BeginPlain(h, kind)
    PROVE  RInv'
<1>1. /\ ~Open(h) /\ kind \in {"chat", "transform", "other"}
      /\ routeForSession(h, Hook(kind, NoDir), NoDir)
      /\ UNCHANGED <<session, moves, bus, program>>
    BY DEF BeginPlain, Idle, Open, NoCall, opencode
<1>2. PICK r \in Records : Turns(h, kind, NoDir, r)
    BY <1>1, Begins DEF RInv
<1>3. r.kind = kind
    BY <1>2 DEF Turns
<1> QED
    BY <1>1, <1>2, <1>3, TurnStep DEF RInv, RouterTypeOK

LEMMA BeginBeforeStep ==
    ASSUME RInv, NEW h \in Hooks, NEW c \in ToolCalls,
           BeginBefore(h, c)
    PROVE  RInv'
<1>1. /\ ~Open(h) /\ program[c] = "new" /\ program' = [program EXCEPT ![c] = "asked"]
      /\ routeForSession(h, Hook("before", c), NoDir)
      /\ UNCHANGED <<session, moves, bus>>
    BY DEF BeginBefore, Idle, Open
<1>2. "before" \in Kinds
    BY DEF Kinds
<1>3. PICK r \in Records : Turns(h, "before", c, r)
    BY <1>1, <1>2, Begins DEF RInv
<1>4. r.kind = "before" /\ r.call = c
    BY <1>3 DEF Turns
<1>5. /\ program' \in [ToolCalls -> {"new", "asked", "refused", "admitted", "ran", "over"}]
      /\ \A d \in ToolCalls : program'[d] = IF d = c THEN "asked" ELSE program[d]
    BY <1>1 DEF RInv, RouterTypeOK
<1>6. BeginsFor(r, "before", "new", "asked")
    BY <1>1, <1>4 DEF BeginsFor
<1> QED
    BY <1>1, <1>3, <1>4, <1>5, <1>6, TurnStep

LEMMA BeginAfterStep ==
    ASSUME RInv, NEW h \in Hooks, NEW c \in ToolCalls,
           BeginAfter(h, c)
    PROVE  RInv'
<1>1. /\ ~Open(h) /\ program[c] = "ran" /\ program' = [program EXCEPT ![c] = "over"]
      /\ UNCHANGED <<session, moves, bus>>
    BY DEF BeginAfter, Idle, Open
<1>2. "after" \in Kinds
    BY DEF Kinds
<1>3. PICK r \in Records : /\ Turns(h, "after", c, r)
                           /\ session.alive => r.phase = "serve" /\ r.dir = servedBy[c]
  <2>1. CASE callRoutes[c] # NoDir
    <3> DEFINE s == Served("after", c, callRoutes[c])
    <3>1. callRoutes[c] \in Dirs /\ route \in Routes \cup {NoRoute}
        BY <2>1 DEF RInv, RouterTypeOK
    <3>2. /\ s \in Records /\ HookWell(s) /\ s.kind = "after" /\ s.call = c
          /\ s.phase = "serve" /\ s.dir = callRoutes[c]
        BY <1>2, <3>1, ServingTyped
    <3>3. /\ Serve(h, Hook("after", c), callRoutes[c])
          /\ UNCHANGED <<route, notice, callRoutes, local, servedBy, shown, late>>
        BY <2>1 DEF BeginAfter, history
    <3>4. Hook("after", c).kind = "after" /\ Hook("after", c).call = c
        BY <1>2, HookTyped
    <3>5. hooks' = [hooks EXCEPT ![h] = s]
        BY <3>3, <3>4 DEF Serve, Served
    <3>6. session.alive => callRoutes[c] = servedBy[c]
        BY <1>1 DEF RInv, Met
    <3> HIDE DEF s
    <3>7. Turns(h, "after", c, s)
        BY <3>1, <3>2, <3>3, <3>5 DEF Turns, Stays
    <3> QED
        BY <3>2, <3>6, <3>7
  <2>2. CASE callRoutes[c] = NoDir
    <3>1. ~session.alive
        BY <1>1, <2>2 DEF RInv, Met
    <3>2. routeForSession(h, Hook("after", c), NoDir)
        BY <2>2 DEF BeginAfter
    <3> QED
        BY <1>2, <3>1, <3>2, Begins DEF RInv
  <2> QED
      BY <2>1, <2>2
<1>4. r.kind = "after" /\ r.call = c
    BY <1>3 DEF Turns
<1>5. /\ program' \in [ToolCalls -> {"new", "asked", "refused", "admitted", "ran", "over"}]
      /\ \A d \in ToolCalls : program'[d] = IF d = c THEN "over" ELSE program[d]
    BY <1>1 DEF RInv, RouterTypeOK
<1>6. BeginsFor(r, "after", "ran", "over")
    BY <1>1, <1>4 DEF BeginsFor
<1> QED
    BY <1>1, <1>3, <1>4, <1>5, <1>6, TurnStep

LEMMA BeginEventStep ==
    ASSUME RInv, NEW h \in Hooks, BeginEvent(h)
    PROVE  RInv'
<1>1. /\ ~Open(h) /\ bus # <<>> /\ bus' = Tail(bus) /\ UNCHANGED <<session, moves, program>>
    BY DEF BeginEvent, Idle, Open
<1>2. /\ Head(bus).kind \in {"updated", "deleted"} /\ Head(bus).dir \in Dirs
      /\ session.alive => Head(bus).kind # "deleted"
    BY <1>1, Events DEF RInv, Undeleted
<1>3. PICK hint \in {NoDir, Head(bus).dir} :
          routeForSession(h, Hook(Head(bus).kind, NoDir), hint)
    BY DEF BeginEvent, NoCall
<1>4. Head(bus).kind \in Kinds
    BY <1>2 DEF Kinds, EventKinds
<1>5. PICK r \in Records : Turns(h, Head(bus).kind, NoDir, r)
    BY <1>2, <1>3, <1>4, Begins DEF RInv
<1>6. r.kind = Head(bus).kind
    BY <1>5 DEF Turns
<1> QED
    BY <1>1, <1>2, <1>5, <1>6, TurnStep DEF RInv, RouterTypeOK

LEMMA LookupReturnsStep ==
    ASSUME RInv, NEW h \in Hooks, LookupReturns(h)
    PROVE  RInv'
<1>1. Open(h) /\ hooks[h].phase = "answered"
    BY LookupsReturn DEF RInv
<1>2. PICK r \in Records : Turns(h, hooks[h].kind, hooks[h].call, r)
    BY LookupsReturn DEF RInv
<1>3. UNCHANGED <<session, moves, bus, program>>
    BY DEF LookupReturns, opencode
<1>4. Continues(h, r) /\ r.kind = hooks[h].kind
    BY <1>1, <1>2, <1>3 DEF Turns, Continues
<1>5. session.alive => r.kind # "deleted" /\ r.kind # "after"
    BY <1>1, <1>4 DEF RInv, Undeleted, Met
<1> QED
    BY <1>1, <1>2, <1>3, <1>4, <1>5, TurnStep DEF RInv, RouterTypeOK

-----------------------------------------------------------------------------
(* The hooks that end, or go on where they are. *)

LEMMA LookupAnsweredStep ==
    ASSUME RInv, NEW h \in Hooks, LookupAnswered(h)
    PROVE  RInv'
<1>1. /\ Open(h) /\ hooks[h].phase = "lookup"
      /\ UNCHANGED <<session, moves, bus, program, route, notice, callRoutes, local,
                     servedBy, shown, late>>
    BY DEF LookupAnswered, Idle, Open, opencode, history
<1>2. PICK answer \in Dirs \cup {NoDir} :
          hooks' = [hooks EXCEPT ![h].phase = "answered", ![h].dir = answer]
    BY DEF LookupAnswered, RInv, RouterTypeOK
<1> DEFINE k == hooks[h]
           r == [k EXCEPT !.phase = "answered", !.dir = answer]
<1>3. k \in Records /\ HookWell(k) /\ (session.alive => k.kind # "after")
    BY <1>1 DEF RInv, RouterTypeOK, Records, Open, WellHooks, Met
<1>4. Sets(h, r)
    BY <1>1, <1>2 DEF Sets, RInv, RouterTypeOK
<1>5. r \in Records /\ r.kind = k.kind /\ r.call = k.call /\ r.phase = "answered"
    <2> HIDE DEF k
    <2> QED
        BY <1>2, <1>3 DEF Records, HookRecords
<1> HIDE DEF r
<1>6. HookWell(r) /\ Continues(h, r)
    BY <1>1, <1>3, <1>5 DEF HookWell, Continues
<1>7. notice' \in Dirs \cup {NoDir} /\ shown' \in Dirs \cup {NoDir} /\ Told'
    BY <1>1 DEF RInv, RouterTypeOK, Told
<1> HIDE DEF k
<1>8. session.alive => r.phase # "record" /\ r.kind # "after"
    BY <1>3, <1>5
<1> QED
    BY <1>1, <1>4, <1>5, <1>6, <1>7, <1>8, OnlyThisHook

LEMMA ServeUpdatedStep ==
    ASSUME RInv, NEW h \in Hooks, ServeUpdated(h)
    PROVE  RInv'
<1>1. /\ Open(h) /\ Sets(h, NoHook)
      /\ UNCHANGED <<session, moves, bus, program, route, notice, callRoutes, local,
                     servedBy, shown, late>>
    BY DEF ServeUpdated, Serving, HookEnds, Idle, Open, Sets,
           opencode, history
<1>2. notice' \in Dirs \cup {NoDir} /\ shown' \in Dirs \cup {NoDir} /\ Told'
    BY <1>1 DEF RInv, RouterTypeOK, Told
<1>3. Finishes(h, NoHook)
    BY <1>1 DEF Finishes
<1> QED
    BY <1>1, <1>2, <1>3, OnlyThisHook

LEMMA ServeTransformStep ==
    ASSUME RInv, NEW h \in Hooks, ServeTransform(h)
    PROVE  RInv'
<1>1. /\ Open(h) /\ Sets(h, NoHook)
      /\ UNCHANGED <<session, moves, bus, program, route, callRoutes, local, servedBy, late>>
      /\ \/ notice # NoDir /\ shown' = notice /\ notice' = NoDir
         \/ UNCHANGED <<shown, notice>>
    BY DEF ServeTransform, Serving, HookEnds, Idle, Open, Sets,
           opencode
<1>2. notice' \in Dirs \cup {NoDir} /\ shown' \in Dirs \cup {NoDir} /\ Told'
    BY <1>1 DEF RInv, RouterTypeOK, Told
<1>3. Finishes(h, NoHook)
    BY <1>1 DEF Finishes
<1> QED
    BY <1>1, <1>2, <1>3, OnlyThisHook

LEMMA ArrivalTyped ==
    ASSUME NEW k \in Records, HookWell(k), k.phase = "moving"
    PROVE  LET r == Served(k.kind, k.call, k.dir)
           IN  /\ r \in Records /\ HookWell(r) /\ r.kind = k.kind /\ r.call = k.call
               /\ r.phase = "serve" /\ r.dir = k.dir
<1>1. k.kind \in Kinds /\ k.call \in ToolCalls \cup {NoDir} /\ k.dir \in Dirs
      /\ (k.kind \in {"before", "after"} => k.call \in ToolCalls)
    BY DEF HookWell, Records, HookRecords, NoCall
<1> QED
    BY <1>1, ServingTyped

LEMMA MoveEndsStep ==
    ASSUME RInv, NEW h \in Hooks, MoveEnds(h)
    PROVE  RInv'
<1> DEFINE k == hooks[h]
           r == Served(k.kind, k.call, k.dir)
<1>1. /\ Open(h) /\ k.phase = "moving" /\ Sets(h, r)
      /\ notice' = k.dir /\ route' = [dir |-> k.dir, source |-> k.source]
      /\ late' = ((late \cup Overtaken(k)) \ {k.dir}) \cup BeingLeft(h)
      /\ UNCHANGED <<session, moves, bus, program, callRoutes, local, servedBy, shown>>
    BY DEF MoveEnds, Open, Sets, Serve, Served, opencode
<1>2. k \in Records /\ HookWell(k)
    BY <1>1 DEF RInv, RouterTypeOK, Records, Open, WellHooks
<1>3. k.dir \in Dirs /\ k.from \in Dirs /\ k.source \in Sources /\ k.kind \in Kinds
      /\ k.call \in ToolCalls \cup {NoDir} /\ (k.kind \in {"before", "after"} => k.call \in ToolCalls)
    BY <1>1, <1>2 DEF HookWell, Records, HookRecords, NoCall
<1>4. session.alive => k.kind # "deleted" /\ k.kind # "after"
    BY <1>1 DEF RInv, Undeleted, Met
<1>5. route' \in Routes /\ route' # NoRoute /\ route'.dir = k.dir
    BY <1>1, <1>3, RouterAssumption DEF Routes, RouterAssumption
<1>6. \A g \in Hooks \ {h} : Open(g) /\ hooks[g].phase = "moving" =>
          hooks[g].from \in Dirs /\ hooks[g].from \in BeingLeft(h)
    BY DEF RInv, WellHooks, HookWell, Open, BeingLeft, Idle
<1>7. BeingLeft(h) \subseteq Dirs
    BY <1>6 DEF BeingLeft, Idle, Open
<1>8. Overtaken(k) \subseteq Dirs
    BY DEF RInv, RouterTypeOK, Routes, Overtaken
<1>9. /\ r \in Records /\ HookWell(r) /\ r.kind = k.kind /\ r.call = k.call
      /\ r.phase = "serve" /\ r.dir = k.dir
    <2> HIDE DEF k
    <2> QED
        BY <1>1, <1>2, ArrivalTyped
<1>10. k.dir # NoDir
    BY <1>3, RouterAssumption DEF RouterAssumption
<1>11. hooks'[h] = r /\ \A g \in Hooks \ {h} : hooks'[g] = hooks[g]
    <2> HIDE DEF r, k
    <2> QED
        BY <1>1, Set DEF RInv
<1>12. Unvisited'
  <2>1. SUFFICES ASSUME session'.alive, NEW d \in local' \ late'
                 PROVE  /\ route' # NoRoute /\ route'.dir = d
                        /\ \A g \in Hooks : Open(g)' /\ hooks'[g].phase = "moving" =>
                              hooks'[g].from # d
      BY DEF Unvisited
  <2>2. d \in local /\ session.alive
      BY <1>1, <2>1
  <2>3. d \notin BeingLeft(h) /\ (d = k.dir \/ (d \notin late /\ d \notin Overtaken(k)))
      <3> HIDE DEF k
      <3> QED
          BY <1>1, <2>1
  <2>4. d = k.dir
    <3>1. SUFFICES ASSUME d \notin late, d \notin Overtaken(k)
                   PROVE  FALSE
        BY <2>3
    <3>2. route # NoRoute /\ route.dir = d /\ k.from # d
        BY <1>1, <2>2, <3>1 DEF RInv, Unvisited
    <3> QED
        BY <3>1, <3>2 DEF Overtaken
  <2> HIDE DEF k, r
  <2> QED
      BY <1>5, <1>6, <1>9, <1>11, <2>3, <2>4 DEF Open
<1> HIDE DEF k, r
<1>13. Told'
    BY <1>1, <1>5, <1>10 DEF Told
<1>14. Continues(h, r)
    BY <1>1, <1>9 DEF Continues, k
<1>15. WellHooks' /\ OneHookPerCall'
    BY <1>1, <1>9, <1>14, HooksStayWell, CallsStayApart DEF RInv
<1>16. Undeleted' /\ Met'
    BY <1>1, <1>4, <1>9, StaysUndeleted, StaysMet DEF RInv
<1>17. hooks' \in [Hooks -> Records \cup {NoHook}]
    BY <1>1, <1>9 DEF RInv, RouterTypeOK, Sets, Records
<1>18. late' \subseteq Dirs /\ notice' \in Dirs \cup {NoDir}
    BY <1>1, <1>3, <1>7, <1>8 DEF RInv, RouterTypeOK
<1>19. RouterTypeOK'
    BY <1>1, <1>5, <1>17, <1>18 DEF RInv, RouterTypeOK, Records
<1> QED
    BY <1>12, <1>13, <1>15, <1>16, <1>19 DEF RInv

-----------------------------------------------------------------------------
(* The hooks that enter a guard, and those that forget the session. *)

LEMMA EntersKeeps ==
    ASSUME RInv, NEW h \in Hooks, NEW r, Sets(h, r),
           r = NoHook \/ r.phase # "moving", Open(h), hooks[h].phase = "serve",
           EntersGuard(hooks[h]), UNCHANGED <<session, route>>
    PROVE  Unvisited' /\ local' \subseteq Dirs /\ late' \subseteq Dirs
<1> DEFINE k == hooks[h]
<1>1. hooks'[h] = r /\ \A g \in Hooks \ {h} : hooks'[g] = hooks[g]
    BY Set DEF RInv
<1>2. k.dir \in Dirs
    BY DEF RInv, WellHooks, HookWell
<1>3. /\ local' = local \cup {k.dir}
      /\ late' = IF Leaving(k.dir) THEN late \cup {k.dir} ELSE late
    BY DEF EntersGuard
<1> HIDE DEF k
<1>4. local' \subseteq Dirs /\ late' \subseteq Dirs
    BY <1>2, <1>3 DEF RInv, RouterTypeOK
<1>5. ASSUME session.alive, NEW d \in local' \ late'
      PROVE  /\ route # NoRoute /\ route.dir = d
             /\ \A g \in Hooks : Open(g) /\ hooks[g].phase = "moving" => hooks[g].from # d
  <2>1. CASE d = k.dir
    <3>1. ~Leaving(d)
        BY <1>3, <1>5, <2>1
    <3>2. d \notin BeingLeft(NoHook) /\ route # NoRoute /\ route.dir = d
        BY <3>1 DEF Leaving
    <3>3. NoHook \notin Hooks
        BY RouterAssumption DEF RouterAssumption
    <3> QED
        BY <3>2, <3>3 DEF BeingLeft, Idle, Open
  <2>2. CASE d # k.dir
    <3>1. d \in local \ late
        BY <1>3, <1>5, <2>2
    <3> QED
        BY <1>5, <3>1 DEF RInv, Unvisited
  <2> QED
      BY <2>1, <2>2
<1> QED
    BY <1>1, <1>4, <1>5 DEF Unvisited, Open

LEMMA ServeBeforeStep ==
    ASSUME RInv, NEW h \in Hooks, ServeBefore(h)
    PROVE  RInv'
<1> DEFINE k == hooks[h]
           s == [k EXCEPT !.phase = "record"]
<1>1. /\ Open(h) /\ k.phase = "serve" /\ k.kind = "before" /\ EntersGuard(hooks[h])
      /\ servedBy' = [servedBy EXCEPT ![k.call] = k.dir]
      /\ UNCHANGED <<session, moves, bus, route, notice, callRoutes, shown>>
    BY DEF ServeBefore, Serving, Idle, Open
<1>2. k \in Records /\ k.call \in ToolCalls /\ k.dir \in Dirs /\ program[k.call] = "asked"
    BY <1>1 DEF RInv, RouterTypeOK, Records, Open, WellHooks, HookWell, OneHookPerCall
<1>3. /\ s \in Records /\ s.kind = "before" /\ s.call = k.call /\ s.dir = k.dir
      /\ s.phase = "record"
    <2> HIDE DEF k
    <2> QED
        BY <1>1, <1>2 DEF Records, HookRecords
<1>4. \/ hooks' = [hooks EXCEPT ![h] = s] /\ UNCHANGED program
      \/ hooks' = [hooks EXCEPT ![h] = NoHook] /\ program' = [program EXCEPT ![k.call] = "refused"]
  <2>1. \/ hooks' = [hooks EXCEPT ![h].phase = "record"] /\ UNCHANGED program
        \/ hooks' = [hooks EXCEPT ![h] = NoHook] /\ program' = [program EXCEPT ![k.call] = "refused"]
      BY DEF ServeBefore, HookEnds
  <2> QED
      BY <2>1 DEF RInv, RouterTypeOK
<1> HIDE DEF s
<1>5. /\ \A c \in ToolCalls \ {k.call} : program'[c] = program[c]
      /\ program' \in [ToolCalls -> {"new", "asked", "refused", "admitted", "ran", "over"}]
      /\ program'[k.call] \in {"asked", "refused"}
  <2>1. /\ program \in [ToolCalls -> {"new", "asked", "refused", "admitted", "ran", "over"}]
        /\ UNCHANGED program \/ program' = [program EXCEPT ![k.call] = "refused"]
      BY <1>4 DEF RInv, RouterTypeOK
  <2> HIDE DEF k
  <2> QED
      BY <1>2, <2>1
<1>6. PICK r : Sets(h, r) /\ ((r = s /\ UNCHANGED program) \/ (r = NoHook /\ Finishes(h, r)))
  <2>1. CASE hooks' = [hooks EXCEPT ![h] = s] /\ UNCHANGED program
      BY <2>1 DEF Sets
  <2>2. CASE /\ hooks' = [hooks EXCEPT ![h] = NoHook]
             /\ program' = [program EXCEPT ![k.call] = "refused"]
    <3>1. Sets(h, NoHook) /\ Finishes(h, NoHook)
        BY <1>1, <2>2 DEF Sets, Finishes
    <3> QED
        BY <3>1
  <2> QED
      BY <1>4, <2>1, <2>2
<1>7. HookWell(s)
    BY <1>2, <1>3 DEF HookWell
<1>8. r = NoHook \/ (r \in Records /\ HookWell(r) /\ r.phase # "moving" /\ r.kind # "deleted")
    BY <1>3, <1>7, <1>6
<1>9. Continues(h, r) \/ Finishes(h, r)
    BY <1>1, <1>3, <1>6 DEF Continues
<1>10. Unvisited' /\ local' \subseteq Dirs /\ late' \subseteq Dirs
    BY <1>1, <1>8, <1>6, EntersKeeps
<1>11. WellHooks' /\ OneHookPerCall'
    BY <1>8, <1>9, <1>6, HooksStayWell, CallsStayApart DEF RInv
<1>12. Undeleted'
    BY <1>1, <1>8, <1>6, StaysUndeleted DEF RInv
<1>13. hooks'[h] = r /\ \A g \in Hooks \ {h} : hooks'[g] = hooks[g]
    BY <1>6, Set DEF RInv
<1>14. \A c \in ToolCalls : servedBy'[c] = IF c = k.call THEN k.dir ELSE servedBy[c]
    BY <1>1 DEF RInv, RouterTypeOK
<1>15. ASSUME NEW g \in Hooks \ {h}, Open(g), hooks[g].kind = "after" \/ hooks[g].phase = "record"
       PROVE  hooks[g].call \in ToolCalls \ {k.call}
  <2>1. hooks[g].kind \in {"before", "after"} /\ hooks[g].call \in ToolCalls
      BY <1>15 DEF RInv, WellHooks, HookWell
  <2>2. CASE hooks[g].kind = "after"
      BY <1>2, <1>15, <2>1, <2>2 DEF RInv, OneHookPerCall
  <2>3. CASE hooks[g].kind = "before"
      BY <1>1, <1>15, <2>1, <2>3 DEF RInv, OneHookPerCall
  <2> QED
      BY <2>1, <2>2, <2>3
<1> HIDE DEF k
<1>16. Met'
  <2>1. SUFFICES ASSUME session.alive PROVE Met'
      BY <1>1 DEF Met
  <2>2. \A c \in ToolCalls : program'[c] \in {"admitted", "ran"} =>
            callRoutes'[c] = servedBy'[c] /\ callRoutes'[c] # NoDir
      BY <1>1, <1>5, <1>14, <2>1 DEF RInv, Met
  <2>3. ASSUME NEW g \in Hooks \ {h}, Open(g)'
        PROVE  /\ hooks'[g].kind = "after" => hooks'[g].phase = "serve"
               /\ hooks'[g].kind = "after" \/ hooks'[g].phase = "record" =>
                     hooks'[g].dir = servedBy'[hooks'[g].call]
      BY <1>13, <1>14, <1>15, <2>1, <2>3 DEF RInv, Met, Open
  <2>4. Open(h)' => hooks'[h].kind # "after" /\ hooks'[h].dir = servedBy'[hooks'[h].call]
      BY <1>2, <1>3, <1>13, <1>14, <1>6 DEF Open
  <2> QED
      BY <2>2, <2>3, <2>4 DEF Met
<1>17. Told'
    BY <1>1 DEF RInv, Told
<1>18. servedBy' \in [ToolCalls -> Dirs \cup {NoDir}]
    BY <1>1, <1>2 DEF RInv, RouterTypeOK
<1>19. hooks' \in [Hooks -> Records \cup {NoHook}]
    BY <1>8, <1>6 DEF RInv, RouterTypeOK, Sets, Records
<1>20. RouterTypeOK'
    BY <1>1, <1>5, <1>10, <1>18, <1>19 DEF RInv, RouterTypeOK, Records
<1> QED
    BY <1>10, <1>11, <1>12, <1>16, <1>17, <1>20 DEF RInv

LEMMA RecordBeforeStep ==
    ASSUME RInv, NEW h \in Hooks, RecordBefore(h)
    PROVE  RInv'
<1> DEFINE k == hooks[h]
<1>1. /\ Open(h) /\ k.phase = "record" /\ Sets(h, NoHook)
      /\ callRoutes' = [callRoutes EXCEPT ![k.call] = k.dir]
      /\ program' = [program EXCEPT ![k.call] = "admitted"]
      /\ UNCHANGED <<session, moves, bus, route, notice, local, servedBy, shown, late>>
    BY DEF RecordBefore, HookEnds, Open, Sets, history
<1>2. k.kind = "before" /\ k.call \in ToolCalls /\ k.dir \in Dirs /\ k.dir # NoDir
    BY <1>1, RouterAssumption DEF RInv, WellHooks, HookWell, RouterAssumption
<1>3. Finishes(h, NoHook)
    BY <1>1, <1>2 DEF Finishes
<1>4. WellHooks' /\ OneHookPerCall'
    BY <1>1, <1>3, HooksStayWell, CallsStayApart DEF RInv
<1>5. Undeleted' /\ Unvisited'
    BY <1>1, StaysUndeleted, StaysUnvisited DEF RInv
<1>6. hooks'[h] = NoHook /\ \A g \in Hooks \ {h} : hooks'[g] = hooks[g]
    BY <1>1, Set DEF RInv
<1>7. \A c \in ToolCalls : /\ callRoutes'[c] = IF c = k.call THEN k.dir ELSE callRoutes[c]
                       /\ program'[c] = IF c = k.call THEN "admitted" ELSE program[c]
    BY <1>1 DEF RInv, RouterTypeOK
<1>8. session.alive => servedBy[k.call] = k.dir
    BY <1>1 DEF RInv, Met
<1> HIDE DEF k
<1>9. Met'
    BY <1>1, <1>2, <1>6, <1>7, <1>8 DEF RInv, Met, Open
<1>10. Told'
    BY <1>1 DEF RInv, Told
<1>11. hooks' \in [Hooks -> Records \cup {NoHook}]
    BY <1>1 DEF RInv, RouterTypeOK, Sets, Records
<1>12. RouterTypeOK'
    BY <1>1, <1>2, <1>11 DEF RInv, RouterTypeOK, Records
<1> QED
    BY <1>4, <1>5, <1>9, <1>10, <1>12 DEF RInv

LEMMA ServeAfterStep ==
    ASSUME RInv, NEW h \in Hooks, ServeAfter(h)
    PROVE  RInv'
<1> DEFINE k == hooks[h]
<1>1. /\ Open(h) /\ k.phase = "serve" /\ k.kind = "after" /\ EntersGuard(hooks[h])
      /\ Sets(h, NoHook)
      /\ callRoutes' = [callRoutes EXCEPT ![k.call] = NoDir]
      /\ servedBy' = [servedBy EXCEPT ![k.call] = NoDir]
      /\ UNCHANGED <<session, moves, bus, program, route, notice, shown>>
    BY DEF ServeAfter, Serving, Idle, HookEnds, Open, Sets,
           opencode
<1>2. k.call \in ToolCalls /\ program[k.call] = "over"
    BY <1>1 DEF RInv, WellHooks, HookWell, OneHookPerCall
<1>3. Finishes(h, NoHook)
    BY <1>1 DEF Finishes
<1>4. WellHooks' /\ OneHookPerCall'
    BY <1>1, <1>3, HooksStayWell, CallsStayApart DEF RInv
<1>5. Undeleted'
    BY <1>1, StaysUndeleted DEF RInv
<1>6. Unvisited' /\ local' \subseteq Dirs /\ late' \subseteq Dirs
    BY <1>1, EntersKeeps
<1>7. hooks'[h] = NoHook /\ \A g \in Hooks \ {h} : hooks'[g] = hooks[g]
    BY <1>1, Set DEF RInv
<1>8. \A c \in ToolCalls \ {k.call} : callRoutes'[c] = callRoutes[c] /\ servedBy'[c] = servedBy[c]
    BY <1>1 DEF RInv, RouterTypeOK
<1>9. ASSUME NEW g \in Hooks \ {h}, Open(g), hooks[g].kind = "after" \/ hooks[g].phase = "record"
      PROVE  hooks[g].call \in ToolCalls \ {k.call}
  <2>1. hooks[g].kind \in {"before", "after"} /\ hooks[g].call \in ToolCalls
      BY <1>9 DEF RInv, WellHooks, HookWell
  <2>2. CASE hooks[g].kind = "before"
      BY <1>2, <1>9, <2>1, <2>2 DEF RInv, OneHookPerCall
  <2>3. CASE hooks[g].kind = "after"
      BY <1>1, <1>9, <2>1, <2>3 DEF RInv, OneHookPerCall
  <2> QED
      BY <2>1, <2>2, <2>3
<1> HIDE DEF k
<1>10. Met'
  <2>1. SUFFICES ASSUME session.alive PROVE Met'
      BY <1>1 DEF Met
  <2>2. \A c \in ToolCalls : program'[c] \in {"admitted", "ran"} =>
            callRoutes'[c] = servedBy'[c] /\ callRoutes'[c] # NoDir
      BY <1>1, <1>2, <1>8, <2>1 DEF RInv, Met
  <2>3. ASSUME NEW g \in Hooks, Open(g)'
        PROVE  /\ hooks'[g].kind = "after" => hooks'[g].phase = "serve"
               /\ hooks'[g].kind = "after" \/ hooks'[g].phase = "record" =>
                     hooks'[g].dir = servedBy'[hooks'[g].call]
      BY <1>7, <1>8, <1>9, <2>1, <2>3 DEF RInv, Met, Open
  <2> QED
      BY <2>2, <2>3 DEF Met
<1>11. Told'
    BY <1>1 DEF RInv, Told
<1>12. hooks' \in [Hooks -> Records \cup {NoHook}]
    BY <1>1 DEF RInv, RouterTypeOK, Sets, Records
<1>13. RouterTypeOK'
    BY <1>1, <1>6, <1>12 DEF RInv, RouterTypeOK, Records
<1> QED
    BY <1>4, <1>5, <1>6, <1>10, <1>11, <1>13 DEF RInv

LEMMA ServePlainStep ==
    ASSUME RInv, NEW h \in Hooks, ServePlain(h)
    PROVE  RInv'
<1>1. /\ Open(h) /\ hooks[h].phase = "serve" /\ EntersGuard(hooks[h]) /\ Sets(h, NoHook)
      /\ UNCHANGED <<session, moves, bus, program, route, notice, callRoutes, servedBy, shown>>
    BY DEF ServePlain, Serving, Idle, HookEnds, Open, Sets,
           opencode
<1>2. Finishes(h, NoHook)
    BY <1>1 DEF Finishes
<1>3. WellHooks' /\ OneHookPerCall' /\ Undeleted' /\ Met'
    BY <1>1, <1>2, HooksStayWell, CallsStayApart, StaysUndeleted, StaysMet DEF RInv
<1>4. Unvisited' /\ local' \subseteq Dirs /\ late' \subseteq Dirs
    BY <1>1, EntersKeeps
<1>5. Told'
    BY <1>1 DEF RInv, Told
<1>6. hooks' \in [Hooks -> Records \cup {NoHook}]
    BY <1>1 DEF RInv, RouterTypeOK, Sets, Records
<1>7. RouterTypeOK'
    BY <1>1, <1>4, <1>6 DEF RInv, RouterTypeOK, Records
<1> QED
    BY <1>3, <1>4, <1>5, <1>7 DEF RInv

(* An ended session only has to stay well formed. *)
LEMMA DeletedStep ==
    ASSUME RInv, NEW h \in Hooks,
           ServeDeleted(h) \/ Forget(h)
    PROVE  RInv'
<1> DEFINE k == hooks[h]
<1>1. /\ Open(h) /\ k.kind = "deleted" /\ UNCHANGED <<session, moves, bus, program, servedBy, late>>
  <2>1. CASE ServeDeleted(h)
      BY <2>1 DEF ServeDeleted, Serving, Idle, Open, opencode,
                  history
  <2>2. CASE Forget(h)
      BY <2>2 DEF Forget, Idle, Open, opencode, RInv, WellHooks, HookWell
  <2> QED
      BY <2>1, <2>2
<1>2. ~session'.alive
    BY <1>1 DEF RInv, Undeleted
<1>3. Undeleted' /\ Met' /\ Unvisited'
    BY <1>2 DEF Undeleted, Met, Unvisited
<1>4. k \in Records /\ HookWell(k)
    BY <1>1 DEF RInv, RouterTypeOK, Records, Open, WellHooks
<1>5. CASE ServeDeleted(h)
  <2> DEFINE r == [k EXCEPT !.phase = "forget"]
  <2>1. /\ k.phase = "serve" /\ local' = local \ {k.dir} /\ Sets(h, r)
        /\ UNCHANGED <<route, notice, callRoutes, shown>>
      BY <1>5 DEF ServeDeleted, Serving, history, Sets, RInv,
                  RouterTypeOK
  <2>2. /\ r \in Records /\ r.kind = "deleted" /\ r.call = k.call /\ r.dir = k.dir
        /\ r.phase = "forget"
    <3> HIDE DEF k
    <3> QED
        BY <1>1, <1>4 DEF Records, HookRecords
  <2> HIDE DEF r
  <2>3. HookWell(r) /\ Continues(h, r)
      BY <1>1, <1>4, <2>1, <2>2 DEF HookWell, Continues
  <2>4. WellHooks' /\ OneHookPerCall'
      BY <2>1, <2>3, HooksStayWell, CallsStayApart DEF RInv
  <2>5. RouterTypeOK' /\ Told'
      BY <1>1, <2>1, <2>2 DEF RInv, RouterTypeOK, Records, Sets, Told
  <2> QED
      BY <1>3, <2>4, <2>5 DEF RInv
<1>6. CASE Forget(h)
  <2>1. /\ Sets(h, NoHook) /\ route' = NoRoute /\ notice' = NoDir /\ shown' = NoDir
        /\ callRoutes' = [c \in ToolCalls |-> NoDir] /\ UNCHANGED local
      BY <1>6 DEF Forget, HookEnds, Sets
  <2>2. Finishes(h, NoHook)
      BY <1>1 DEF Finishes
  <2>3. WellHooks' /\ OneHookPerCall'
      BY <2>1, <2>2, HooksStayWell, CallsStayApart DEF RInv
  <2>4. RouterTypeOK' /\ Told'
      BY <1>1, <2>1 DEF RInv, RouterTypeOK, Sets, Told
  <2> QED
      BY <1>3, <2>3, <2>4 DEF RInv
<1> QED
    BY <1>5, <1>6

-----------------------------------------------------------------------------
LEMMA RoutingStarts ==
    ASSUME RouterInit
    PROVE  RInv
<1> USE DEF RouterInit
<1>1. session \in [dir : Dirs, alive : BOOLEAN] /\ bus = <<>>
    OBVIOUS
<1>2. RouterTypeOK
    BY <1>1, RouterAssumption DEF RouterTypeOK, RouterAssumption
<1>3. \A h \in Hooks : ~Open(h)
    BY DEF Open
<1>4. WellHooks /\ OneHookPerCall /\ Undeleted
    BY <1>1, <1>3 DEF WellHooks, OneHookPerCall, Undeleted
<1>5. Told /\ Met /\ Unvisited
    BY <1>3 DEF Told, Met, Unvisited
<1> QED
    BY <1>2, <1>4, <1>5 DEF RInv

LEMMA RoutingStutters ==
    ASSUME RInv, UNCHANGED routerVars
    PROVE  RInv'
<1> USE DEF routerVars
<1>1. RouterTypeOK' /\ WellHooks' /\ Told' /\ Undeleted'
    BY DEF RInv, RouterTypeOK, WellHooks, HookWell, Told, Undeleted, Open
<1>2. OneHookPerCall' /\ Met' /\ Unvisited'
    BY DEF RInv, OneHookPerCall, Met, Unvisited, Open
<1> QED
    BY <1>1, <1>2 DEF RInv

LEMMA RoutingSteps ==
    ASSUME RInv, RouterNext
    PROVE  RInv'
<1>1. CASE \/ \E dir \in Dirs : SessionMoves(dir)
           \/ SessionEnds \/ \E c \in ToolCalls : ToolRuns(c)
    BY <1>1, WorldSteps
<1>2. ASSUME NEW h \in Hooks,
             \/ \E kind \in Kinds : BeginPlain(h, kind)
             \/ \E c \in ToolCalls : BeginBefore(h, c)
             \/ \E c \in ToolCalls : BeginAfter(h, c)
             \/ BeginEvent(h) \/ LookupAnswered(h) \/ LookupReturns(h)
      PROVE  RInv'
    BY <1>2, BeginPlainStep, BeginBeforeStep, BeginAfterStep, BeginEventStep,
       LookupAnsweredStep, LookupReturnsStep
<1>3. ASSUME NEW h \in Hooks,
             \/ MoveEnds(h) \/ ServeBefore(h) \/ RecordBefore(h)
             \/ ServeAfter(h) \/ ServePlain(h) \/ ServeTransform(h)
             \/ ServeUpdated(h) \/ ServeDeleted(h) \/ Forget(h)
      PROVE  RInv'
    BY <1>3, MoveEndsStep, ServeBeforeStep, RecordBeforeStep, ServeAfterStep, ServePlainStep,
       ServeTransformStep, ServeUpdatedStep, DeletedStep
<1> QED
    BY <1>1, <1>2, <1>3 DEF RouterNext

(* The session's route and the guards' state of it never change together,  *)
(* except where a guard drops its state.                                   *)
LEMMA HeldOrRouted ==
    ASSUME RouterNext
    PROVE  UNCHANGED route \/ local' \subseteq local
<1> USE DEF history, opencode
<1>1. ASSUME NEW h, NEW k, NEW target, NEW source,
             transitionSessionRoute(h, k, target, source)
      PROVE  local' \subseteq local
    BY <1>1 DEF transitionSessionRoute, StaysThere, EntersFirst,
               StartsToLeave
<1>2. ASSUME NEW h, NEW k, NEW hint, routeForSession(h, k, hint)
      PROVE  local' \subseteq local
    BY <1>1, <1>2 DEF routeForSession
<1>3. CASE \/ \E dir \in Dirs : SessionMoves(dir)
           \/ SessionEnds \/ \E c \in ToolCalls : ToolRuns(c)
    BY <1>3 DEF SessionMoves, SessionEnds, ToolRuns
<1>4. ASSUME NEW h \in Hooks,
             \/ \E kind \in Kinds : BeginPlain(h, kind)
             \/ \E c \in ToolCalls : BeginBefore(h, c) \/ BeginAfter(h, c)
             \/ BeginEvent(h) \/ LookupAnswered(h) \/ LookupReturns(h)
      PROVE  local' \subseteq local
    BY <1>1, <1>2, <1>4
       DEF BeginPlain, BeginBefore, BeginAfter, BeginEvent,
           LookupAnswered, LookupReturns
<1>5. ASSUME NEW h \in Hooks,
             \/ MoveEnds(h) \/ ServeBefore(h) \/ RecordBefore(h)
             \/ ServeAfter(h) \/ ServePlain(h) \/ ServeTransform(h)
             \/ ServeUpdated(h) \/ ServeDeleted(h) \/ Forget(h)
      PROVE  UNCHANGED route \/ local' \subseteq local
    BY <1>5 DEF MoveEnds, ServeBefore, RecordBefore, ServeAfter,
               ServePlain, ServeTransform, ServeUpdated,
               ServeDeleted, Forget
<1> QED
    BY <1>3, <1>4, <1>5 DEF RouterNext

LEMMA RoutingInductive == RouterSpec => []RInv
<1>1. RouterInit => RInv
    BY RoutingStarts
<1>2. RInv /\ [RouterNext]_routerVars => RInv'
    BY RoutingSteps, RoutingStutters
<1> QED
    BY <1>1, <1>2, PTL DEF RouterSpec

(* The router keeps its types. *)
THEOREM RoutingTypeCorrect == RouterSpec => []RouterTypeOK
<1>1. RInv => RouterTypeOK
    BY DEF RInv
<1> QED
    BY <1>1, RoutingInductive, PTL DEF RouterSpec

(* A session is never governed by another directory than the one the model *)
(* was told without a notice that names it (transitionSessionRoute and the *)
(* system transform).                                                      *)
THEOREM MovesAnnounced == RouterSpec => []MovesAreAnnounced
<1>1. RInv => MovesAreAnnounced
    BY DEF RInv, Told, MovesAreAnnounced
<1> QED
    BY <1>1, RoutingInductive, PTL DEF RouterSpec

(* An after-hook of an existing session is served by the guard that served *)
(* the before-hook of its call, wherever the session went (callRoutes).    *)
THEOREM AfterMeetsBefore == RouterSpec => AfterMeetsItsBefore
<1> DEFINE A == \A h \in Hooks :
                    Serving(h, "after") /\ Idle(h)' /\ route # NoRoute
                        /\ session.alive
                    => hooks[h].dir = servedBy[hooks[h].call]
<1>1. RInv => A
    BY DEF RInv, Met, Open, Serving, Idle
<1> QED
    BY <1>1, RoutingInductive, PTL DEF RouterSpec, AfterMeetsItsBefore

(* When an existing session comes to a guard, the guard holds nothing of   *)
(* an earlier visit, except what was entered while the session was leaving *)
(* or had left (transitionSessionRoute).                                   *)
THEOREM EarlierVisitsDropped == RouterSpec => NoStateOfAnEarlierVisit
<1> DEFINE A == /\ session.alive /\ route' # NoRoute
                /\ route = NoRoute \/ route.dir # route'.dir
                /\ route'.dir \in local'
                => route'.dir \in late
<1>1. RInv /\ [RouterNext]_routerVars => A
    BY HeldOrRouted DEF RInv, Unvisited, routerVars
<1> QED
    BY <1>1, RoutingInductive, PTL DEF RouterSpec, NoStateOfAnEarlierVisit
=============================================================================
