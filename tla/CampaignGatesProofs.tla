-------------------------- MODULE CampaignGatesProofs --------------------------
(***************************************************************************)
(* Proofs about CampaignGates for every value of its constants: type       *)
(* correctness, coverage never ahead of edits, delegations always of the   *)
(* epoch in force, and coverage advanced only by fresh work of the active  *)
(* campaign; outstanding obligations that never share a packet and always  *)
(* miss one, and a partition that opens the gate only as the last missing. *)
(***************************************************************************)
EXTENDS CampaignGates, TLAPS

(***************************************************************************)
(* The helpers of the safety object return safety objects.                 *)
(***************************************************************************)
LEMMA EmptyType == emptySafetyState \in Safety
  BY DEF emptySafetyState, Safety, Head, NoHead, NoCampaign

LEMMA ObligationIdType ==
  ASSUME NEW s \in Safety, NEW role \in Roles, NEW keys \in Plans
  PROVE  plannerPartitionObligationId(s, role, keys) \in ObligationId
  BY DEF plannerPartitionObligationId, ObligationAuthority, ObligationId, Safety

LEMMA IdOfType ==
  ASSUME NEW o \in Obligation
  PROVE  IdOf(o) \in ObligationId
  BY DEF IdOf, Obligation, ObligationId

LEMMA ResetType ==
  ASSUME NEW s \in Safety, NEW cleanHead \in Head
  PROVE  resetCampaign(s, cleanHead) \in Safety
  BY DEF resetCampaign, Safety, NoCampaign

LEMMA RecordType ==
  ASSUME NEW s \in Safety, campaigns \in Nat,
         NEW touched \in SUBSET Paths, NEW highRisk \in BOOLEAN
  PROVE  recordImplementationEdit(s, touched, highRisk) \in Safety
  <1> DEFINE id == CampaignOfEdit(s)
             base == IF s.campaignActive THEN s.campaignBaseHead ELSE s.observedHead
             paths == s.editedPaths \cup touched
             risk == s.highRiskEdit \/ highRisk
             generation == s.editGeneration + 1
  <1>1. id \in Nat /\ base \in Head /\ paths \in SUBSET Paths /\ generation \in Nat
    BY DEF CampaignOfEdit, Safety
  <1>2. risk \in BOOLEAN
    OBVIOUS
  <1> DEFINE opened == [s EXCEPT !.obligations = {}, !.campaignActive = TRUE,
                                 !.campaignId = id, !.campaignBaseHead = base]
             counted == [opened EXCEPT !.campaignPublished = FALSE,
                                       !.editedPaths = paths, !.highRiskEdit = risk,
                                       !.editGeneration = generation]
  <1>3. recordImplementationEdit(s, touched, highRisk) = counted
    BY DEF recordImplementationEdit
  <1> HIDE DEF id, base, paths, risk, generation
  <1>4. opened \in Safety
    BY <1>1 DEF Safety
  <1> HIDE DEF opened
  <1>5. counted \in Safety
    BY <1>1, <1>2, <1>4 DEF Safety
  <1> QED
    BY <1>3, <1>5

LEMMA AuthorityResetType ==
  ASSUME NEW s \in Safety
  PROVE  resetForAuthorityChange(s) \in Safety
  BY DEF resetForAuthorityChange, Safety

LEMMA EpochType ==
  ASSUME NEW s \in Safety, NEW sha \in Nat, NEW mode \in {"strict-start", "target"}
  PROVE  BeginEpoch(s, sha, mode) \in Safety
  <1> DEFINE receipt == IF s.authorityBinding = sha \/ s.trustedActionsReceiptHead = sha
                        THEN s.trustedActionsReceiptHead ELSE NoHead
             epoch == s.authorityEpoch + 1
  <1>1. receipt \in Head /\ sha \in Head /\ epoch \in Nat /\ NoHead \in Head
    BY DEF Safety, Head, NoHead
  <1> DEFINE bound == [s EXCEPT !.authorityEpoch = epoch, !.authorityBinding = sha,
                                !.authorityMode = mode, !.authorityStatus = "pending"]
             begun == [bound EXCEPT !.observedHead = NoHead, !.taskWorkspaceHead = NoHead,
                                    !.trustedActionsReceiptHead = receipt]
  <1>2. BeginEpoch(s, sha, mode) = begun
    BY DEF BeginEpoch
  <1> HIDE DEF receipt, epoch
  <1>3. bound \in Safety
    BY <1>1 DEF Safety
  <1> HIDE DEF bound
  <1>4. begun \in Safety
    BY <1>1, <1>3 DEF Safety
  <1> QED
    BY <1>2, <1>4

\* Losing the lease moves neither the campaign nor the epoch.
LEMMA LeaseLost ==
  ASSUME TypeOK, LoseLease
  PROVE  /\ safety' \in Safety /\ disk' = safety'
         /\ safety'.editGeneration = safety.editGeneration
         /\ safety'.campaignActive = safety.campaignActive
         /\ safety'.campaignId = safety.campaignId
         /\ safety'.authorityEpoch = safety.authorityEpoch
         /\ safety'.reviewedGeneration = safety.reviewedGeneration
         /\ safety'.verifiedGeneration = safety.verifiedGeneration
  <1>1. safety \in Safety /\ NoHead \in Head
    BY DEF TypeOK, Head, NoHead
  <1>2. /\ safety' = [safety EXCEPT !.authorityStatus = "pending", !.observedHead = NoHead,
                                    !.taskWorkspaceHead = NoHead]
        /\ disk' = safety'
    BY DEF LoseLease, Save
  <1>3. safety' \in Safety
    BY <1>1, <1>2 DEF Safety
  <1> QED
    BY <1>1, <1>2, <1>3 DEF Safety

LEMMA RegisterType ==
  ASSUME NEW s \in Safety, NEW id \in ObligationId
  PROVE  registerPlannerPartitionObligation(s, id) \in Safety
  BY DEF registerPlannerPartitionObligation, Safety, Obligation, ObligationId

LEMMA CoverType ==
  ASSUME NEW s \in Safety, NEW t \in Task
  PROVE  Cover(s, t) \in Safety
  BY DEF Cover, Safety, Task

LEMMA HydratedType ==
  ASSUME NEW d \in Safety
  PROVE  HydratedFields(d) \in Safety
  BY DEF HydratedFields, Safety

LEMMA FailClosedType ==
  ASSUME NEW d \in Safety, campaigns \in Nat
  PROVE  FailClosed(d) \in Safety
  <1> DEFINE h == HydratedFields(d)
             demoted == d.authorityMode = "target" /\ d.authorityStatus = "verified"
             status == IF demoted THEN "pending" ELSE h.authorityStatus
             observed == IF demoted THEN NoHead ELSE h.observedHead
             workspace == IF demoted THEN NoHead ELSE h.taskWorkspaceHead
             generation == IF h.editGeneration = 0 THEN 1 ELSE h.editGeneration
             id == IF h.campaignId = NoCampaign THEN campaigns + 1 ELSE h.campaignId
  <1>1. h \in Safety
    BY HydratedType
  <1>2. /\ status \in {"none", "pending", "verified", "mismatch"}
        /\ generation \in Nat /\ id \in Nat
    BY <1>1 DEF Safety
  <1>3. observed \in Head /\ workspace \in Head
    BY <1>1 DEF Safety, Head, NoHead
  <1> DEFINE unproved == [h EXCEPT !.obligations = {}, !.authorityStatus = status,
                                   !.observedHead = observed,
                                   !.taskWorkspaceHead = workspace]
             uncovered == [unproved EXCEPT !.highRiskEdit = TRUE,
                                           !.editGeneration = generation,
                                           !.reviewedGeneration = 0,
                                           !.verifiedGeneration = 0]
             closed == [uncovered EXCEPT !.campaignId = id, !.campaignActive = TRUE,
                                         !.campaignPublished = FALSE]
  <1>4. FailClosed(d) = closed
    BY DEF FailClosed
  <1> HIDE DEF h, demoted, status, observed, workspace, generation, id
  <1>5. unproved \in Safety
    BY <1>1, <1>2, <1>3 DEF Safety
  <1> HIDE DEF unproved
  <1>6. uncovered \in Safety
    BY <1>2, <1>5 DEF Safety
  <1> HIDE DEF uncovered
  <1>7. closed \in Safety
    BY <1>2, <1>6 DEF Safety
  <1> QED
    BY <1>4, <1>7

(***************************************************************************)
(* Type correctness.                                                       *)
(***************************************************************************)
LEMMA InitType == Init => TypeOK
  BY EmptyType DEF Init, TypeOK

\* The shared part of every edit, of Edit and of a publish that mutates.
LEMMA RecordEditType ==
  ASSUME TypeOK, NEW s \in Safety, NEW touched \in SUBSET Paths,
         NEW highRisk \in BOOLEAN, RecordEdit(s, touched, highRisk)
  PROVE  safety' \in Safety /\ disk' \in Safety /\ edits' \in Nat /\ campaigns' \in Nat
  <1>1. recordImplementationEdit(s, touched, highRisk) \in Safety
    BY RecordType DEF TypeOK
  <1> QED
    BY <1>1 DEF RecordEdit, Save, TypeOK

\* Restart reloads a typed snapshot, cleanly or failed closed.
LEMMA RestartType ==
  ASSUME TypeOK, Restart
  PROVE  TypeOK'
  <1>1. HydratedFields(disk) \in Safety /\ FailClosed(disk) \in Safety
    BY HydratedType, FailClosedType DEF TypeOK
  <1>2. safety' \in Safety /\ campaigns' \in Nat
    BY <1>1 DEF Restart, TypeOK
  <1> QED
    BY <1>2 DEF Restart, TypeOK

LEMMA TypeStep == TypeOK /\ [Next]_vars => TypeOK'
  <1> SUFFICES ASSUME TypeOK, [Next]_vars
               PROVE  TypeOK'
    OBVIOUS
  <1> USE ConstantsAssumption
  <1>1. ASSUME NEW session \in Sessions, NEW sha \in DeclaredHeads, NEW mode \in Modes,
               NEW residue \in BOOLEAN, NEW others \in BOOLEAN,
               DeclareAuthority(session, sha, mode, residue, others)
        PROVE  TypeOK'
    <2> DEFINE reset == authorityScopedStateNeedsReset(safety, session, residue)
               scoped == IF reset THEN resetForAuthorityChange(safety) ELSE safety
               shared == IF others THEN [scoped EXCEPT !.obligations = {}] ELSE scoped
    <2>1. scoped \in Safety
      BY AuthorityResetType DEF TypeOK
    <2>2. shared \in Safety
      BY <2>1 DEF Safety
    <2>3. safety' = BeginEpoch(shared, sha, mode)
      BY <1>1 DEF DeclareAuthority
    <2>4. safety' \in Safety
      BY <2>2, <2>3, EpochType
    <2> QED
      BY <1>1, <2>4 DEF DeclareAuthority, Save, TypeOK
  <1>2. ASSUME NEW session \in Sessions, NEW issued \in BOOLEAN, RebindTarget(session, issued)
        PROVE  TypeOK'
    <2> DEFINE s == resetForAuthorityChange(safety)
               status == IF issued THEN s.authorityStatus ELSE "pending"
               observed == IF issued THEN s.observedHead ELSE NoHead
               epoch == s.authorityEpoch + 1
    <2>1. s \in Safety
      BY AuthorityResetType DEF TypeOK
    <2>2. /\ status \in {"none", "pending", "verified", "mismatch"}
          /\ observed \in Head /\ epoch \in Nat
      BY <2>1 DEF Safety, Head, NoHead
    <2>3. safety' = [s EXCEPT !.authorityEpoch = epoch, !.authorityStatus = status,
                              !.observedHead = observed]
      BY <1>2 DEF RebindTarget
    <2> HIDE DEF s, status, observed, epoch
    <2>4. safety' \in Safety
      BY <2>1, <2>2, <2>3 DEF Safety
    <2> QED
      BY <1>2, <2>4 DEF RebindTarget, Save, TypeOK
  <1>3. ASSUME NEW review \in ReviewAuthorities, NEW verify \in VerifyAuthorities,
               NEW receipt \in DeclaredHeads \cup {safety.trustedActionsReceiptHead},
               DeclareGateAuthority(review, verify, receipt)
        PROVE  TypeOK'
    <2>1. receipt \in Head
      BY DEF TypeOK, Safety, Head
    <2>2. safety' \in Safety
      BY <1>3, <2>1 DEF DeclareGateAuthority, Safety, TypeOK
    <2> QED
      BY <1>3, <2>2 DEF DeclareGateAuthority, Save, TypeOK
  <1>4. ASSUME NEW observed \in DeclaredHeads \cup {head}, CorroborateHead(observed)
        PROVE  TypeOK'
    <2>1. observed \in Head
      BY DEF TypeOK, Head
    <2>2. safety' \in Safety
      BY <1>4, <2>1 DEF CorroborateHead, Safety, TypeOK
    <2> QED
      BY <1>4, <2>2 DEF CorroborateHead, Save, TypeOK
  <1>5. ASSUME NEW observed \in DeclaredHeads \cup {head}, NEW issued \in BOOLEAN,
               ProveHead(observed, issued)
        PROVE  TypeOK'
    <2> DEFINE proved == observed = safety.authorityBinding
               leased == safety.authorityMode = "target" => issued
               workspace == IF proved /\ ~leased THEN NoHead ELSE observed
               status == IF ~proved THEN "mismatch"
                         ELSE IF leased THEN "verified" ELSE "pending"
    <2>1. /\ observed \in Head /\ workspace \in Head
          /\ status \in {"none", "pending", "verified", "mismatch"}
      BY DEF TypeOK, Head, NoHead
    <2>2. safety' = [safety EXCEPT !.observedHead = observed,
                                   !.taskWorkspaceHead = workspace,
                                   !.authorityStatus = status]
      BY <1>5 DEF ProveHead
    <2> HIDE DEF workspace, status
    <2>3. safety' \in Safety
      BY <2>1, <2>2 DEF Safety, TypeOK
    <2> QED
      BY <1>5, <2>3 DEF ProveHead, Save, TypeOK
  <1>6. ASSUME InvalidateLease
        PROVE  TypeOK'
    BY <1>6, LeaseLost DEF InvalidateLease, TypeOK
  <1>7. ASSUME NEW reconciled \in BOOLEAN, ReleaseTarget(reconciled)
        PROVE  TypeOK'
    <2> DEFINE workspace == IF reconciled THEN head ELSE safety.taskWorkspaceHead
    <2>1. workspace \in Head /\ NoHead \in Head
      BY DEF TypeOK, Safety, Head, NoHead
    <2>2. safety' = [safety EXCEPT
            !.authorityBinding = NoHead, !.authorityMode = "none",
            !.authorityStatus = "none", !.observedHead = NoHead,
            !.taskWorkspaceHead = workspace]
      BY <1>7 DEF ReleaseTarget
    <2> HIDE DEF workspace
    <2>3. safety' \in Safety
      BY <2>1, <2>2 DEF Safety, TypeOK
    <2> QED
      BY <1>7, <2>3 DEF ReleaseTarget, Save, TypeOK
  <1>8. ASSUME NEW touched \in {{}} \cup {{path} : path \in Paths},
               NEW highRisk \in BOOLEAN, Edit(touched, highRisk)
        PROVE  TypeOK'
    <2>1. touched \in SUBSET Paths /\ safety \in Safety
      BY DEF TypeOK
    <2>2. safety' \in Safety /\ disk' \in Safety /\ edits' \in Nat /\ campaigns' \in Nat
      BY <1>8, <2>1, RecordEditType DEF Edit
    <2> QED
      BY <1>8, <2>2 DEF Edit, TypeOK
  <1>9. ASSUME EditLands
        PROVE  TypeOK'
    BY <1>9 DEF EditLands, TypeOK
  <1>10. ASSUME NEW call \in Calls, NEW session \in Sessions, NEW role \in Roles,
                NEW key \in Packets, NEW evidence \in BOOLEAN,
                TaskBegin(call, session, role, key, evidence)
         PROVE  TypeOK'
    <2> DEFINE member == plannerPartitionMembership(safety, role, key)
               ids == {IdOf(o) : o \in member}
               plannable == role = "explore" \/ AuthorityHead(safety) # NoHead
               p == [call |-> call, session |-> session, role |-> role, member |-> ids,
                     key |-> key, evidence |-> evidence, plannable |-> plannable]
    <2>1. member \subseteq Obligation
      BY DEF plannerPartitionMembership, TypeOK, Safety
    <2>2. ids \subseteq ObligationId
      BY <2>1, IdOfType
    <2>3. plannable \in BOOLEAN
      OBVIOUS
    <2>4. planning' = planning \cup {p}
      BY <1>10 DEF TaskBegin
    <2> HIDE DEF ids, plannable
    <2>5. p \in Planning
      BY <2>2, <2>3 DEF Planning
    <2> QED
      BY <1>10, <2>4, <2>5 DEF TaskBegin, TypeOK
  <1>11. ASSUME NEW p \in planning, PlanRejects(p)
         PROVE  TypeOK'
    BY <1>11, LeaseLost DEF PlanRejects, TypeOK
  <1>12. ASSUME NEW p \in planning, NEW keys \in Plans, PlanPartitions(p, keys)
         PROVE  TypeOK'
    <2> DEFINE id == plannerPartitionObligationId(safety, p.role, keys)
    <2>1. p.role \in Roles
      BY DEF TypeOK, Planning
    <2>2. id \in ObligationId
      BY <2>1, ObligationIdType DEF TypeOK
    <2>3. registerPlannerPartitionObligation(safety, id) \in Safety
      BY <2>2, RegisterType DEF TypeOK
    <2> QED
      BY <1>12, <2>3 DEF PlanPartitions, Save, TypeOK
  <1>13. ASSUME NEW p \in planning, PlanElides(p)
         PROVE  TypeOK'
    <2>1. safety' \in Safety
      BY <1>13 DEF PlanElides, Safety, TypeOK
    <2> QED
      BY <1>13, <2>1 DEF PlanElides, Save, TypeOK
  <1>14. ASSUME NEW p \in planning, TaskLaunches(p)
         PROVE  TypeOK'
    <2> DEFINE t == [call |-> p.call, session |-> p.session, role |-> p.role,
                     member |-> p.member, key |-> p.key,
                     generation |-> safety.editGeneration, edits |-> edits,
                     campaign |-> safety.campaignId, epoch |-> safety.authorityEpoch]
    <2>1. t \in Task
      BY DEF TypeOK, Planning, Safety, Task
    <2> QED
      BY <1>14, <2>1 DEF TaskLaunches, TypeOK
  <1>15. ASSUME NEW t \in pendingTasks, TaskFails(t)
         PROVE  TypeOK'
    BY <1>15, LeaseLost DEF TaskFails, TypeOK
  <1>16. ASSUME NEW t \in pendingTasks, TaskCompletes(t)
         PROVE  TypeOK'
    <2>1. Cover(safety, t) \in Safety
      BY CoverType DEF TypeOK
    <2> QED
      BY <1>16, <2>1 DEF TaskCompletes, Save, TypeOK
  <1>17. ASSUME NEW t \in pendingTasks, PartitionCompletes(t)
         PROVE  TypeOK'
    <2>0. /\ pendingTasks' = pendingTasks \ {t}
          /\ UNCHANGED <<planning, publishing, edits, landed, head, campaigns>>
      BY <1>17 DEF PartitionCompletes
    <2>1. CASE UNCHANGED <<safety, disk>>
      BY <2>0, <2>1 DEF TypeOK
    <2>2. ASSUME NEW o \in LiveObligations(safety, t), Finishes(o, t),
                 safety' = Cover([safety EXCEPT !.obligations = safety.obligations \ {o}], t),
                 disk' \in {disk, safety'}
          PROVE  TypeOK'
      <3>1. [safety EXCEPT !.obligations = safety.obligations \ {o}] \in Safety
        BY DEF TypeOK, Safety
      <3>2. safety' \in Safety
        BY <2>2, <3>1, CoverType DEF TypeOK
      <3> QED
        BY <2>0, <2>2, <3>2 DEF TypeOK
    <2>3. ASSUME NEW o \in LiveObligations(safety, t),
                 safety' = [safety EXCEPT !.obligations =
                     (safety.obligations \ {o}) \cup
                        {[o EXCEPT !.completedKeys = @ \cup {t.key}]}],
                 disk' = safety'
          PROVE  TypeOK'
      <3>1. o \in Obligation /\ t.key \in Packets
        BY DEF LiveObligations, TypeOK, Safety, Task
      <3>2. [o EXCEPT !.completedKeys = @ \cup {t.key}] \in Obligation
        BY <3>1 DEF Obligation
      <3>3. (safety.obligations \ {o}) \cup {[o EXCEPT !.completedKeys = @ \cup {t.key}]}
               \in SUBSET Obligation
        BY <3>2 DEF TypeOK, Safety
      <3>4. safety' \in Safety
        BY <2>3, <3>3 DEF TypeOK, Safety
      <3> QED
        BY <2>0, <2>3, <3>4 DEF TypeOK
    <2>4. \/ UNCHANGED <<safety, disk>>
          \/ \E o \in LiveObligations(safety, t) :
               \/ /\ Finishes(o, t) /\ disk' \in {disk, safety'}
                  /\ safety' = Cover([safety EXCEPT !.obligations = safety.obligations \ {o}], t)
               \/ /\ disk' = safety'
                  /\ safety' = [safety EXCEPT !.obligations =
                       (safety.obligations \ {o}) \cup
                          {[o EXCEPT !.completedKeys = @ \cup {t.key}]}]
      BY <1>17 DEF PartitionCompletes, Save
    <2> QED
      BY <2>1, <2>2, <2>3, <2>4
  <1>18. ASSUME NEW call \in Calls, NEW kind \in PublishKinds, NEW mutates \in BOOLEAN,
                PublishBegin(call, kind, mutates)
         PROVE  TypeOK'
    <2> DEFINE forgotten == IF kind = "commit"
                            THEN [safety EXCEPT !.taskWorkspaceHead = NoHead] ELSE safety
    <2>1. forgotten \in Safety
      BY DEF TypeOK, Safety, Head, NoHead
    <2>2. safety' \in Safety /\ disk' \in Safety /\ edits' \in Nat /\ campaigns' \in Nat
      <3>1. CASE mutates
        BY <1>18, <2>1, <3>1, RecordEditType DEF PublishBegin
      <3>2. CASE ~mutates
        BY <1>18, <2>1, <3>2 DEF PublishBegin, Save, TypeOK
      <3> QED
        BY <3>1, <3>2
    <2>3. [call |-> call, kind |-> kind, ran |-> kind = "push", edits |-> edits'] \in Publish
      BY <2>2 DEF Publish
    <2> QED
      BY <1>18, <2>2, <2>3 DEF PublishBegin, TypeOK
  <1>19. ASSUME NEW p \in publishing, CommitRuns(p)
         PROVE  TypeOK'
    <2>1. [p EXCEPT !.ran = TRUE] \in Publish
      BY DEF TypeOK, Publish
    <2> QED
      BY <1>19, <2>1 DEF CommitRuns, TypeOK
  <1>20. ASSUME NEW p \in publishing, PublishSucceeds(p)
         PROVE  TypeOK'
    <2>1. [safety EXCEPT !.campaignPublished = TRUE] \in Safety
      BY DEF Safety, TypeOK
    <2> QED
      BY <1>20, <2>1 DEF PublishSucceeds, Save, TypeOK
  <1>21. ASSUME NEW p \in publishing, PublishFails(p)
         PROVE  TypeOK'
    BY <1>21 DEF PublishFails, TypeOK
  <1>22. ASSUME WorkspaceIdentity
         PROVE  TypeOK'
    <2> DEFINE proved == [safety EXCEPT !.taskWorkspaceHead = head]
    <2>1. proved \in Safety /\ head \in Head
      BY DEF TypeOK, Safety, Head
    <2>2. safety' \in Safety
      BY <1>22, <2>1, ResetType DEF WorkspaceIdentity
    <2> QED
      BY <1>22, <2>2 DEF WorkspaceIdentity, Save, TypeOK
  <1>23. ASSUME HeadChangingCommand
         PROVE  TypeOK'
    <2>1. safety' \in Safety
      BY <1>23 DEF HeadChangingCommand, Safety, Head, NoHead, TypeOK
    <2> QED
      BY <1>23, <2>1 DEF HeadChangingCommand, Save, TypeOK
  <1>24. CASE UNCHANGED vars
    BY <1>24 DEF vars, TypeOK
  <1> QED
    BY <1>1, <1>2, <1>3, <1>4, <1>5, <1>6, <1>7, <1>8, <1>9, <1>10, <1>11, <1>12, <1>13,
       <1>14, <1>15, <1>16, <1>17, <1>18, <1>19, <1>20, <1>21, <1>22, <1>23, <1>24, RestartType
       DEF Next

\* Every variable keeps its type, whatever the constants.
THEOREM TypeCorrect == Spec => []TypeOK
  BY InitType, TypeStep, PTL DEF Spec

(***************************************************************************)
(* The inductive invariant.                                                *)
(***************************************************************************)
\* What the safety invariants rest on: the epoch and the gate authorities are
\* saved by the hook that sets them, campaign identifiers are drawn in order, a
\* launch never carries a later campaign, edit or generation than the current
\* one, and a member packet belongs to its obligation.
Bookkeeping ==
    /\ disk.authorityEpoch = safety.authorityEpoch
    /\ disk.semanticReviewAuthority = safety.semanticReviewAuthority
    /\ disk.repositoryVerifyAuthority = safety.repositoryVerifyAuthority
    /\ safety.campaignId <= campaigns /\ disk.campaignId <= campaigns
    /\ \A t \in pendingTasks :
          /\ t.campaign <= campaigns /\ t.edits <= edits
          /\ safety.campaignActive /\ t.campaign = safety.campaignId
                => t.generation <= safety.editGeneration

IInv ==
    /\ TypeOK
    /\ Bookkeeping
    /\ CoverageBehindEdits
    /\ InFlightEpochCurrent
    /\ SameCampaignFresh
    /\ GateFieldsDurable

LEMMA InitIInv == Init => IInv
  BY InitType DEF Init, IInv, Bookkeeping, CoverageBehindEdits, InFlightEpochCurrent,
     SameCampaignFresh, GateFieldsDurable, emptySafetyState, NoCampaign

\* A step that neither edits, launches, opens an epoch nor reloads: whatever it
\* does to coverage stays behind the edit generation, and what it changes of the
\* gate is saved.
LEMMA QuietStep ==
  ASSUME IInv, TypeOK',
         safety'.editGeneration = safety.editGeneration,
         safety'.campaignActive = safety.campaignActive,
         safety'.campaignId = safety.campaignId,
         safety'.authorityEpoch = safety.authorityEpoch,
         safety'.reviewedGeneration <= safety'.editGeneration,
         safety'.verifiedGeneration <= safety'.editGeneration,
         \/ disk' = safety'
         \/ disk' = disk /\ GateFields(safety') = GateFields(safety),
         pendingTasks' \subseteq pendingTasks, edits' = edits, campaigns' = campaigns
  PROVE  IInv'
  <1>1. disk'.authorityEpoch = safety'.authorityEpoch
    BY DEF IInv, Bookkeeping
  <1>2. /\ disk'.semanticReviewAuthority = safety'.semanticReviewAuthority
        /\ disk'.repositoryVerifyAuthority = safety'.repositoryVerifyAuthority
    BY DEF IInv, Bookkeeping, GateFields
  <1>3. Bookkeeping'
    BY <1>1, <1>2 DEF IInv, Bookkeeping
  <1>4. CoverageBehindEdits'
    BY DEF IInv, CoverageBehindEdits
  <1>5. InFlightEpochCurrent'
    BY DEF IInv, InFlightEpochCurrent
  <1>6. SameCampaignFresh'
    BY DEF IInv, SameCampaignFresh
  <1>7. GateFieldsDurable'
    BY DEF IInv, GateFieldsDurable
  <1> QED
    BY <1>3, <1>4, <1>5, <1>6, <1>7 DEF IInv

\* A step that opens an epoch drops every delegation in flight.
LEMMA EpochStep ==
  ASSUME IInv, TypeOK', pendingTasks' = {}, disk' = safety',
         safety'.editGeneration = safety.editGeneration,
         safety'.campaignActive = safety.campaignActive,
         safety'.campaignId = safety.campaignId,
         safety'.reviewedGeneration <= safety'.editGeneration,
         safety'.verifiedGeneration <= safety'.editGeneration,
         edits' = edits, campaigns' = campaigns
  PROVE  IInv'
  BY DEF IInv, Bookkeeping, CoverageBehindEdits, InFlightEpochCurrent,
         SameCampaignFresh, GateFieldsDurable

\* An edit makes every running delegation stale: by generation in its own
\* campaign, by identifier in a campaign the edit starts.
LEMMA RecordEditStep ==
  ASSUME IInv, TypeOK', NEW s \in Safety, NEW touched, NEW highRisk,
         s.editGeneration = safety.editGeneration,
         s.reviewedGeneration = safety.reviewedGeneration,
         s.verifiedGeneration = safety.verifiedGeneration,
         s.campaignActive = safety.campaignActive,
         s.campaignId = safety.campaignId,
         s.authorityEpoch = safety.authorityEpoch,
         RecordEdit(s, touched, highRisk), pendingTasks' = pendingTasks
  PROVE  IInv'
  <1> DEFINE r == recordImplementationEdit(s, touched, highRisk)
  <1>1. /\ safety' = r /\ disk' = r /\ edits' = edits + 1
        /\ campaigns' = IF s.campaignActive THEN campaigns ELSE campaigns + 1
    BY DEF RecordEdit, Save
  <1>2. /\ r.editGeneration = s.editGeneration + 1
        /\ r.reviewedGeneration = s.reviewedGeneration
        /\ r.verifiedGeneration = s.verifiedGeneration
        /\ r.campaignActive = TRUE
        /\ r.campaignId = CampaignOfEdit(s)
        /\ r.authorityEpoch = s.authorityEpoch
    BY DEF recordImplementationEdit, Safety
  <1> HIDE DEF r
  <1>3. safety \in Safety /\ edits \in Nat /\ campaigns \in Nat /\ pendingTasks \subseteq Task
    BY DEF IInv, TypeOK
  <1>4. /\ safety.editGeneration \in Nat /\ safety.reviewedGeneration \in Nat
        /\ safety.verifiedGeneration \in Nat /\ safety.campaignId \in Nat
        /\ safety.campaignActive \in BOOLEAN
    BY <1>3 DEF Safety
  <1>5. \A t \in pendingTasks : t.campaign \in Nat /\ t.edits \in Nat /\ t.generation \in Nat
    BY <1>3 DEF Task
  <1>6. CoverageBehindEdits'
    BY <1>1, <1>2, <1>3, <1>4 DEF IInv, CoverageBehindEdits, CampaignOfEdit, NoCampaign
  <1>7. InFlightEpochCurrent'
    BY <1>1, <1>2 DEF IInv, InFlightEpochCurrent
  <1>8. ASSUME NEW t \in pendingTasks, t.campaign = safety'.campaignId
        PROVE  t.generation < safety'.editGeneration
    BY <1>1, <1>2, <1>3, <1>4, <1>5, <1>8 DEF IInv, Bookkeeping, CampaignOfEdit
  <1>9. SameCampaignFresh'
    BY <1>1, <1>2, <1>4, <1>5, <1>8 DEF SameCampaignFresh
  <1>10. Bookkeeping'
    BY <1>1, <1>2, <1>3, <1>4, <1>5, <1>8 DEF IInv, Bookkeeping, CampaignOfEdit
  <1>11. GateFieldsDurable'
    BY <1>1 DEF GateFieldsDurable
  <1> QED
    BY <1>6, <1>7, <1>9, <1>10, <1>11 DEF IInv

\* A launch records the current edit, generation, campaign and epoch.
LEMMA LaunchStep ==
  ASSUME IInv, TypeOK', NEW p \in planning, TaskLaunches(p)
  PROVE  IInv'
  <1> DEFINE t == [call |-> p.call, session |-> p.session, role |-> p.role,
                   member |-> p.member, key |-> p.key,
                   generation |-> safety.editGeneration, edits |-> edits,
                   campaign |-> safety.campaignId, epoch |-> safety.authorityEpoch]
  <1>1. /\ t.generation = safety.editGeneration /\ t.edits = edits
        /\ t.campaign = safety.campaignId /\ t.epoch = safety.authorityEpoch
    OBVIOUS
  <1>2. pendingTasks' = pendingTasks \cup {t} /\ UNCHANGED <<safety, disk, edits, campaigns>>
    BY DEF TaskLaunches
  <1> HIDE DEF t
  <1>3. safety.editGeneration \in Nat /\ edits \in Nat
    BY DEF IInv, TypeOK, Safety
  <1> QED
    BY <1>1, <1>2, <1>3 DEF IInv, Bookkeeping, CoverageBehindEdits, InFlightEpochCurrent,
       SameCampaignFresh, GateFieldsDurable, GateFields

\* Closure ends the campaign: no delegation counts as launched in it any more.
LEMMA IdentityStep ==
  ASSUME IInv, TypeOK', WorkspaceIdentity
  PROVE  IInv'
  <1> DEFINE proved == [safety EXCEPT !.taskWorkspaceHead = head]
  <1>1. /\ disk' = safety' /\ UNCHANGED <<pendingTasks, edits, campaigns>>
        /\ safety' = IF ClosesCampaign(safety) THEN resetCampaign(proved, head) ELSE proved
    BY DEF WorkspaceIdentity, Save
  <1>2. safety \in Safety /\ campaigns \in Nat
    BY DEF IInv, TypeOK
  <1>3. CASE ClosesCampaign(safety)
    <2>1. /\ safety'.editGeneration = 0 /\ safety'.reviewedGeneration = 0
          /\ safety'.verifiedGeneration = 0 /\ safety'.campaignActive = FALSE
          /\ safety'.campaignId = NoCampaign
          /\ safety'.authorityEpoch = safety.authorityEpoch
      BY <1>1, <1>2, <1>3 DEF resetCampaign, Safety
    <2> QED
      BY <1>1, <1>2, <2>1 DEF IInv, Bookkeeping, CoverageBehindEdits,
         InFlightEpochCurrent, SameCampaignFresh, GateFieldsDurable, NoCampaign
  <1>4. CASE ~ClosesCampaign(safety)
    <2>1. /\ safety'.editGeneration = safety.editGeneration
          /\ safety'.reviewedGeneration = safety.reviewedGeneration
          /\ safety'.verifiedGeneration = safety.verifiedGeneration
          /\ safety'.campaignActive = safety.campaignActive
          /\ safety'.campaignId = safety.campaignId
          /\ safety'.authorityEpoch = safety.authorityEpoch
      BY <1>1, <1>2, <1>4 DEF Safety
    <2> QED
      BY <1>1, <2>1, QuietStep DEF IInv, CoverageBehindEdits
  <1> QED
    BY <1>3, <1>4

\* What hydration and the fail-closed path do to the fields of the invariant.
LEMMA HydratedValues ==
  ASSUME NEW d \in Safety
  PROVE  /\ GateFields(HydratedFields(d)) = GateFields(d)
         /\ HydratedFields(d).campaignId = d.campaignId
  BY DEF HydratedFields, GateFields, Safety

LEMMA FailClosedValues ==
  ASSUME NEW d \in Safety
  PROVE  /\ FailClosed(d).editGeneration =
               IF d.editGeneration = 0 THEN 1 ELSE d.editGeneration
         /\ FailClosed(d).reviewedGeneration = 0
         /\ FailClosed(d).verifiedGeneration = 0
         /\ FailClosed(d).campaignActive = TRUE
         /\ FailClosed(d).highRiskEdit = TRUE
         /\ FailClosed(d).campaignId =
               IF d.campaignId = NoCampaign THEN campaigns + 1 ELSE d.campaignId
         /\ FailClosed(d).authorityEpoch = d.authorityEpoch
         /\ FailClosed(d).semanticReviewAuthority = d.semanticReviewAuthority
         /\ FailClosed(d).repositoryVerifyAuthority = d.repositoryVerifyAuthority
  <1> DEFINE h == HydratedFields(d)
  <1>1. h \in Safety
    BY HydratedType
  <1>2. /\ h.editGeneration = d.editGeneration /\ h.campaignId = d.campaignId
        /\ h.authorityEpoch = d.authorityEpoch
        /\ h.semanticReviewAuthority = d.semanticReviewAuthority
        /\ h.repositoryVerifyAuthority = d.repositoryVerifyAuthority
    BY DEF HydratedFields, Safety
  <1> HIDE DEF h
  <1> QED
    BY <1>1, <1>2 DEF FailClosed, Safety, h

\* A reload keeps the gate, or closes it.
LEMMA RestartStep ==
  ASSUME IInv, TypeOK', Restart
  PROVE  IInv'
  <1>1. pendingTasks' = {} /\ UNCHANGED <<disk, edits>>
    BY DEF Restart
  <1>2. disk \in Safety /\ campaigns \in Nat
    BY DEF IInv, TypeOK
  <1>3. CASE HydratesCleanly(disk)
    <2>1. /\ GateFields(safety') = GateFields(disk)
          /\ safety'.campaignId = disk.campaignId /\ campaigns' = campaigns
      BY <1>2, <1>3, HydratedValues DEF Restart
    <2> QED
      BY <1>1, <2>1 DEF IInv, Bookkeeping, CoverageBehindEdits, InFlightEpochCurrent,
         SameCampaignFresh, GateFieldsDurable, GateFields
  <1>4. CASE ~HydratesCleanly(disk)
    <2>1. /\ safety' = FailClosed(disk)
          /\ campaigns' = IF disk.campaignId = NoCampaign THEN campaigns + 1 ELSE campaigns
      BY <1>4 DEF Restart
    <2>2. disk.editGeneration \in Nat /\ disk.campaignId \in Nat
      BY <1>2 DEF Safety
    <2>3. /\ safety'.editGeneration = IF disk.editGeneration = 0
                                       THEN 1 ELSE disk.editGeneration
          /\ safety'.reviewedGeneration = 0 /\ safety'.verifiedGeneration = 0
          /\ safety'.campaignActive = TRUE
          /\ safety'.campaignId = IF disk.campaignId = NoCampaign
                                   THEN campaigns + 1 ELSE disk.campaignId
          /\ safety'.authorityEpoch = disk.authorityEpoch
          /\ safety'.semanticReviewAuthority = disk.semanticReviewAuthority
          /\ safety'.repositoryVerifyAuthority = disk.repositoryVerifyAuthority
      BY <1>2, <2>1, FailClosedValues
    <2>4. CoverageBehindEdits'
      <3>1. safety'.editGeneration > 0 /\ safety'.campaignId # NoCampaign
        BY <1>2, <2>2, <2>3 DEF NoCampaign
      <3> QED
        BY <1>1, <2>2, <2>3, <3>1 DEF IInv, CoverageBehindEdits
    <2>5. Bookkeeping'
      <3>1. safety'.campaignId <= campaigns' /\ disk.campaignId <= campaigns'
        BY <1>2, <2>1, <2>2, <2>3 DEF IInv, Bookkeeping
      <3> QED
        BY <1>1, <2>3, <3>1 DEF Bookkeeping
    <2>6. InFlightEpochCurrent' /\ SameCampaignFresh'
      BY <1>1 DEF InFlightEpochCurrent, SameCampaignFresh
    <2>7. GateFieldsDurable'
      BY <1>1, <1>4 DEF GateFieldsDurable, HydratesCleanly, IdOf,
         plannerPartitionObligationId, ObligationAuthority
    <2> QED
      BY <2>4, <2>5, <2>6, <2>7 DEF IInv
  <1> QED
    BY <1>3, <1>4

\* Opening an epoch leaves no delegation in flight: those of other sessions are
\* dropped, and the declaring session is reset when it has one.
LEMMA DeclareDrops ==
  ASSUME NEW session, NEW sha, NEW mode, NEW residue, NEW others,
         DeclareAuthority(session, sha, mode, residue, others)
  PROVE  pendingTasks' = {}
  BY DEF DeclareAuthority, authorityScopedStateNeedsReset

\* What opening an epoch does to the fields of the invariant.
LEMMA DeclareValues ==
  ASSUME TypeOK, NEW session \in Sessions, NEW sha \in DeclaredHeads, NEW mode \in Modes,
         NEW residue \in BOOLEAN, NEW others \in BOOLEAN,
         DeclareAuthority(session, sha, mode, residue, others)
  PROVE  /\ safety'.editGeneration = safety.editGeneration
         /\ safety'.campaignActive = safety.campaignActive
         /\ safety'.campaignId = safety.campaignId
         /\ safety'.reviewedGeneration = 0
         /\ safety'.verifiedGeneration = 0
  <1> DEFINE reset == authorityScopedStateNeedsReset(safety, session, residue)
             scoped == IF reset THEN resetForAuthorityChange(safety) ELSE safety
             shared == IF others THEN [scoped EXCEPT !.obligations = {}] ELSE scoped
  <1>1. scoped \in Safety
    BY AuthorityResetType DEF TypeOK
  <1>2. scoped.reviewedGeneration = 0 /\ scoped.verifiedGeneration = 0
    <2>1. CASE reset
      BY <2>1 DEF resetForAuthorityChange, TypeOK, Safety
    <2>2. CASE ~reset
      BY <2>2 DEF authorityScopedStateNeedsReset, TypeOK, Safety
    <2> QED
      BY <2>1, <2>2
  <1>3. /\ scoped.editGeneration = safety.editGeneration
        /\ scoped.campaignActive = safety.campaignActive
        /\ scoped.campaignId = safety.campaignId
    BY DEF resetForAuthorityChange, TypeOK, Safety
  <1> HIDE DEF scoped
  <1>4. /\ shared \in Safety
        /\ shared.editGeneration = scoped.editGeneration
        /\ shared.campaignActive = scoped.campaignActive
        /\ shared.campaignId = scoped.campaignId
        /\ shared.reviewedGeneration = scoped.reviewedGeneration
        /\ shared.verifiedGeneration = scoped.verifiedGeneration
    BY <1>1 DEF Safety
  <1>5. safety' = BeginEpoch(shared, sha, mode)
    BY DEF DeclareAuthority, scoped
  <1> HIDE DEF shared
  <1> QED
    BY <1>2, <1>3, <1>4, <1>5 DEF BeginEpoch, Safety

\* What a completed partition does to the fields of the invariant.
LEMMA CoverValues ==
  ASSUME NEW s \in Safety, NEW t \in Task
  PROVE  /\ Cover(s, t).editGeneration = s.editGeneration
         /\ Cover(s, t).campaignActive = s.campaignActive
         /\ Cover(s, t).campaignId = s.campaignId
         /\ Cover(s, t).authorityEpoch = s.authorityEpoch
         /\ Cover(s, t).reviewedGeneration \in {s.reviewedGeneration, t.generation}
         /\ Cover(s, t).verifiedGeneration \in {s.verifiedGeneration, t.generation}
         /\ t.role = "explore" => Cover(s, t) = s
  BY DEF Cover, Safety

LEMMA CompletionStep ==
  ASSUME IInv, TypeOK', NEW t \in pendingTasks, TaskCompletes(t)
  PROVE  IInv'
  <1>1. t \in Task /\ safety \in Safety
    BY DEF IInv, TypeOK
  <1>2. safety.editGeneration \in Nat
    BY <1>1 DEF Safety
  <1>3. CASE t.generation = safety.editGeneration /\ t.role # "explore"
    <2>1. safety' = Cover(safety, t) /\ disk' = safety'
      BY <1>3 DEF TaskCompletes, Save
    <2>2. /\ safety'.reviewedGeneration <= safety'.editGeneration
          /\ safety'.verifiedGeneration <= safety'.editGeneration
      BY <1>1, <1>2, <1>3, <2>1, CoverValues DEF IInv, CoverageBehindEdits
    <2> QED
      BY <1>1, <2>1, <2>2, CoverValues, QuietStep DEF TaskCompletes
  <1>4. CASE ~(t.generation = safety.editGeneration /\ t.role # "explore")
    <2>1. UNCHANGED <<safety, disk>>
      BY <1>4 DEF TaskCompletes
    <2> QED
      BY <2>1, QuietStep DEF TaskCompletes, IInv, CoverageBehindEdits
  <1> QED
    BY <1>3, <1>4

LEMMA PartitionStep ==
  ASSUME IInv, TypeOK', NEW t \in pendingTasks, PartitionCompletes(t)
  PROVE  IInv'
  <1>1. t \in Task /\ safety \in Safety
    BY DEF IInv, TypeOK
  <1>2. safety.editGeneration \in Nat
    BY <1>1 DEF Safety
  <1>3. pendingTasks' \subseteq pendingTasks /\ edits' = edits /\ campaigns' = campaigns
    BY DEF PartitionCompletes
  <1>4. CASE UNCHANGED <<safety, disk>>
    BY <1>3, <1>4, QuietStep DEF IInv, CoverageBehindEdits
  <1>5. ASSUME NEW o \in LiveObligations(safety, t),
               safety' = Cover([safety EXCEPT !.obligations = safety.obligations \ {o}], t),
               IF t.role = "explore" THEN UNCHANGED disk ELSE disk' = safety'
        PROVE  IInv'
    <2> DEFINE s == [safety EXCEPT !.obligations = safety.obligations \ {o}]
    <2>1. /\ s \in Safety /\ GateFields(s) = GateFields(safety)
          /\ s.editGeneration = safety.editGeneration
          /\ s.campaignActive = safety.campaignActive
          /\ s.campaignId = safety.campaignId
          /\ s.authorityEpoch = safety.authorityEpoch
          /\ s.reviewedGeneration = safety.reviewedGeneration
          /\ s.verifiedGeneration = safety.verifiedGeneration
      BY <1>1 DEF Safety, GateFields
    <2>2. t.generation = safety.editGeneration
      BY DEF LiveObligations
    <2> HIDE DEF s
    <2>3. safety' = Cover(s, t)
      BY <1>5 DEF s
    <2>4. /\ safety'.reviewedGeneration <= safety'.editGeneration
          /\ safety'.verifiedGeneration <= safety'.editGeneration
      BY <1>1, <1>2, <2>1, <2>2, <2>3, CoverValues DEF IInv, CoverageBehindEdits
    <2>5. disk' = safety' \/ (disk' = disk /\ GateFields(safety') = GateFields(safety))
      BY <1>1, <1>5, <2>1, <2>3, CoverValues
    <2> QED
      BY <1>1, <1>3, <2>1, <2>3, <2>4, <2>5, CoverValues, QuietStep
  <1>6. ASSUME NEW o \in LiveObligations(safety, t),
               safety' = [safety EXCEPT !.obligations =
                   (safety.obligations \ {o}) \cup
                      {[o EXCEPT !.completedKeys = @ \cup {t.key}]}],
               disk' = safety'
        PROVE  IInv'
    <2>1. /\ safety'.editGeneration = safety.editGeneration
          /\ safety'.campaignActive = safety.campaignActive
          /\ safety'.campaignId = safety.campaignId
          /\ safety'.authorityEpoch = safety.authorityEpoch
          /\ safety'.reviewedGeneration = safety.reviewedGeneration
          /\ safety'.verifiedGeneration = safety.verifiedGeneration
      BY <1>1, <1>6 DEF Safety
    <2> QED
      BY <1>3, <1>6, <2>1, QuietStep DEF IInv, CoverageBehindEdits
  <1> QED
    BY <1>4, <1>5, <1>6 DEF PartitionCompletes, Save

LEMMA IInvStep == IInv /\ [Next]_vars => IInv'
  <1> SUFFICES ASSUME IInv, [Next]_vars
               PROVE  IInv'
    OBVIOUS
  <1>1. TypeOK /\ TypeOK'
    BY TypeStep DEF IInv
  <1>2. safety \in Safety /\ planning \subseteq Planning /\ edits \in Nat
    BY <1>1 DEF TypeOK
  <1>3. ASSUME NEW session \in Sessions, NEW sha \in DeclaredHeads, NEW mode \in Modes,
               NEW residue \in BOOLEAN, NEW others \in BOOLEAN,
               DeclareAuthority(session, sha, mode, residue, others)
        PROVE  IInv'
    <2>1. disk' = safety' /\ UNCHANGED <<edits, campaigns>>
      BY <1>3 DEF DeclareAuthority, Save
    <2>2. safety.editGeneration \in Nat
      BY <1>2 DEF Safety
    <2>3. pendingTasks' = {}
      BY <1>3, DeclareDrops
    <2>4. /\ safety'.editGeneration = safety.editGeneration
          /\ safety'.campaignActive = safety.campaignActive
          /\ safety'.campaignId = safety.campaignId
          /\ safety'.reviewedGeneration = 0 /\ safety'.verifiedGeneration = 0
      BY <1>1, <1>3, DeclareValues
    <2>5. /\ safety'.reviewedGeneration <= safety'.editGeneration
          /\ safety'.verifiedGeneration <= safety'.editGeneration
      BY <2>2, <2>4
    <2> QED
      BY <1>1, <2>1, <2>3, <2>4, <2>5, EpochStep
  <1>4. ASSUME NEW session \in Sessions, NEW issued \in BOOLEAN, RebindTarget(session, issued)
        PROVE  IInv'
    <2>1. /\ safety'.editGeneration = safety.editGeneration
          /\ safety'.campaignActive = safety.campaignActive
          /\ safety'.campaignId = safety.campaignId
          /\ safety'.reviewedGeneration <= safety'.editGeneration
          /\ safety'.verifiedGeneration <= safety'.editGeneration
      BY <1>2, <1>4 DEF RebindTarget, resetForAuthorityChange, Safety
    <2> QED
      BY <1>1, <1>4, <2>1, EpochStep DEF RebindTarget, Save
  <1>5. ASSUME NEW review, NEW verify, NEW receipt,
               DeclareGateAuthority(review, verify, receipt)
        PROVE  IInv'
    BY <1>1, <1>2, <1>5, QuietStep DEF DeclareGateAuthority, Save, Safety, IInv, CoverageBehindEdits
  <1>6. ASSUME NEW observed, CorroborateHead(observed)
        PROVE  IInv'
    BY <1>1, <1>2, <1>6, QuietStep DEF CorroborateHead, Save, Safety, IInv, CoverageBehindEdits
  <1>7. ASSUME NEW observed, NEW issued, ProveHead(observed, issued)
        PROVE  IInv'
    BY <1>1, <1>2, <1>7, QuietStep DEF ProveHead, Save, Safety, IInv, CoverageBehindEdits
  <1>8. ASSUME InvalidateLease
        PROVE  IInv'
    BY <1>1, <1>8, LeaseLost, QuietStep DEF InvalidateLease, IInv, CoverageBehindEdits
  <1>9. ASSUME NEW reconciled, ReleaseTarget(reconciled)
        PROVE  IInv'
    BY <1>1, <1>2, <1>9, QuietStep DEF ReleaseTarget, Save, Safety, IInv, CoverageBehindEdits
  <1>10. ASSUME NEW touched, NEW highRisk, Edit(touched, highRisk)
         PROVE  IInv'
    BY <1>1, <1>2, <1>10, RecordEditStep DEF Edit
  <1>11. ASSUME EditLands
         PROVE  IInv'
    BY <1>1, <1>11, QuietStep DEF EditLands, IInv, CoverageBehindEdits
  <1>12. ASSUME NEW call, NEW session, NEW role, NEW key, NEW evidence,
                TaskBegin(call, session, role, key, evidence)
         PROVE  IInv'
    BY <1>1, <1>12, QuietStep DEF TaskBegin, IInv, CoverageBehindEdits
  <1>13. ASSUME NEW p \in planning, PlanRejects(p)
         PROVE  IInv'
    BY <1>1, <1>13, LeaseLost, QuietStep DEF PlanRejects, IInv, CoverageBehindEdits
  <1>14. ASSUME NEW p \in planning, NEW keys \in Plans, PlanPartitions(p, keys)
         PROVE  IInv'
    <2> DEFINE id == plannerPartitionObligationId(safety, p.role, keys)
    <2>1. safety' = registerPlannerPartitionObligation(safety, id)
      BY <1>14 DEF PlanPartitions
    <2> HIDE DEF id
    <2>2. /\ safety'.editGeneration = safety.editGeneration
          /\ safety'.campaignActive = safety.campaignActive
          /\ safety'.campaignId = safety.campaignId
          /\ safety'.authorityEpoch = safety.authorityEpoch
          /\ safety'.reviewedGeneration = safety.reviewedGeneration
          /\ safety'.verifiedGeneration = safety.verifiedGeneration
      BY <1>2, <2>1 DEF registerPlannerPartitionObligation, Safety
    <2> QED
      BY <1>1, <1>14, <2>2, QuietStep DEF PlanPartitions, Save, IInv, CoverageBehindEdits
  <1>15. ASSUME NEW p \in planning, PlanElides(p)
         PROVE  IInv'
    BY <1>1, <1>2, <1>15, QuietStep DEF PlanElides, Save, Safety, IInv, CoverageBehindEdits
  <1>16. ASSUME NEW p \in planning, TaskLaunches(p)
         PROVE  IInv'
    BY <1>1, <1>16, LaunchStep
  <1>17. ASSUME NEW t \in pendingTasks, TaskFails(t)
         PROVE  IInv'
    BY <1>1, <1>17, LeaseLost, QuietStep DEF TaskFails, IInv, CoverageBehindEdits
  <1>18. ASSUME NEW t \in pendingTasks, TaskCompletes(t)
         PROVE  IInv'
    BY <1>1, <1>18, CompletionStep
  <1>19. ASSUME NEW t \in pendingTasks, PartitionCompletes(t)
         PROVE  IInv'
    BY <1>1, <1>19, PartitionStep
  <1>20. ASSUME NEW call, NEW kind, NEW mutates, PublishBegin(call, kind, mutates)
         PROVE  IInv'
    <2> DEFINE forgotten == IF kind = "commit"
                            THEN [safety EXCEPT !.taskWorkspaceHead = NoHead] ELSE safety
    <2>1. /\ forgotten \in Safety
          /\ forgotten.editGeneration = safety.editGeneration
          /\ forgotten.reviewedGeneration = safety.reviewedGeneration
          /\ forgotten.verifiedGeneration = safety.verifiedGeneration
          /\ forgotten.campaignActive = safety.campaignActive
          /\ forgotten.campaignId = safety.campaignId
          /\ forgotten.authorityEpoch = safety.authorityEpoch
      BY <1>2 DEF Safety, Head, NoHead
    <2>2. CASE mutates
      <3>1. RecordEdit(forgotten, {}, TRUE) /\ pendingTasks' = pendingTasks
        BY <1>20, <2>2 DEF PublishBegin
      <3> HIDE DEF forgotten
      <3> QED
        BY <1>1, <2>1, <3>1, RecordEditStep
    <2>3. CASE ~mutates
      <3>1. /\ safety' = forgotten /\ UNCHANGED <<pendingTasks, edits, campaigns>>
            /\ disk' = safety' \/ (disk' = disk /\ safety' = safety)
        BY <1>20, <2>3 DEF PublishBegin, Save
      <3> HIDE DEF forgotten
      <3> QED
        BY <1>1, <2>1, <3>1, QuietStep DEF IInv, CoverageBehindEdits, GateFields
    <2> QED
      BY <2>2, <2>3
  <1>21. ASSUME NEW p \in publishing, CommitRuns(p)
         PROVE  IInv'
    BY <1>1, <1>21, QuietStep DEF CommitRuns, IInv, CoverageBehindEdits
  <1>22. ASSUME NEW p \in publishing, PublishSucceeds(p)
         PROVE  IInv'
    <2>1. CASE safety.campaignActive
      BY <1>1, <1>2, <1>22, <2>1, QuietStep
         DEF PublishSucceeds, Save, Safety, IInv, CoverageBehindEdits
    <2>2. CASE ~safety.campaignActive
      BY <1>1, <1>22, <2>2, QuietStep DEF PublishSucceeds, IInv, CoverageBehindEdits
    <2> QED
      BY <2>1, <2>2
  <1>23. ASSUME NEW p \in publishing, PublishFails(p)
         PROVE  IInv'
    BY <1>1, <1>23, QuietStep DEF PublishFails, IInv, CoverageBehindEdits
  <1>24. ASSUME WorkspaceIdentity
         PROVE  IInv'
    BY <1>1, <1>24, IdentityStep
  <1>25. ASSUME Restart
         PROVE  IInv'
    BY <1>1, <1>25, RestartStep
  <1>26. ASSUME HeadChangingCommand
         PROVE  IInv'
    BY <1>1, <1>2, <1>26, QuietStep
       DEF HeadChangingCommand, Save, Safety, IInv, CoverageBehindEdits
  <1>27. CASE UNCHANGED vars
    BY <1>1, <1>27, QuietStep DEF vars, IInv, CoverageBehindEdits
  <1> QED
    BY <1>3, <1>4, <1>5, <1>6, <1>7, <1>8, <1>9, <1>10, <1>11, <1>12, <1>13, <1>14, <1>15,
       <1>16, <1>17, <1>18, <1>19, <1>20, <1>21, <1>22, <1>23, <1>24, <1>25, <1>26,
       <1>27 DEF Next

LEMMA Invariance == Spec => []IInv
  BY InitIInv, IInvStep, PTL DEF Spec

(***************************************************************************)
(* The safety properties of the runs, for every value of the constants.    *)
(***************************************************************************)
\* Coverage never exceeds the edits it covers (CoverageBehindEdits): late
\* results, epochs, closures and reloads included.
THEOREM CoverageNeverAhead == Spec => []CoverageBehindEdits
  <1>1. IInv => CoverageBehindEdits
    BY DEF IInv
  <1> QED
    BY <1>1, Invariance, PTL

\* Every delegation in flight belongs to the epoch in force
\* (InFlightEpochCurrent), whichever session opened the epoch.
THEOREM DelegationsOfTheEpoch == Spec => []InFlightEpochCurrent
  <1>1. IInv => InFlightEpochCurrent
    BY DEF IInv
  <1> QED
    BY <1>1, Invariance, PTL

\* Within a campaign the launch generation identifies the content
\* (SameCampaignFresh).
THEOREM GenerationsIdentifyContent == Spec => []SameCampaignFresh
  <1>1. IInv => SameCampaignFresh
    BY DEF IInv
  <1> QED
    BY <1>1, Invariance, PTL

\* What the publication gate reads is saved, except after a reload that failed
\* closed (GateFieldsDurable).
THEOREM GateIsDurable == Spec => []GateFieldsDurable
  <1>1. IInv => GateFieldsDurable
    BY DEF IInv
  <1> QED
    BY <1>1, Invariance, PTL

\* Coverage comes from a completed delegation of the current generation, or
\* from nothing that removes a delegation.
LEMMA AdvancingResult ==
  ASSUME IInv, Next, NEW t \in pendingTasks, AdvancesCoverage(t)
  PROVE  /\ TaskCompletes(t) \/ PartitionCompletes(t)
         /\ t.generation = safety.editGeneration
  <1>1. TypeOK /\ safety \in Safety /\ t \in Task
    BY DEF IInv, TypeOK
  <1>2. /\ safety.editGeneration \in Nat /\ safety.reviewedGeneration \in Nat
        /\ safety.verifiedGeneration \in Nat
    BY <1>1 DEF Safety
  <1>3. /\ t \notin pendingTasks'
        /\ \/ safety'.reviewedGeneration > safety.reviewedGeneration
           \/ safety'.verifiedGeneration > safety.verifiedGeneration
    BY DEF AdvancesCoverage
  <1>5. ASSUME NEW session \in Sessions, NEW sha \in DeclaredHeads, NEW mode \in Modes,
               NEW residue \in BOOLEAN, NEW others \in BOOLEAN,
               DeclareAuthority(session, sha, mode, residue, others)
        PROVE  FALSE
    <2>1. safety'.reviewedGeneration = 0 /\ safety'.verifiedGeneration = 0
      BY <1>1, <1>5, DeclareValues
    <2> QED
      BY <1>2, <1>3, <2>1
  <1>6. ASSUME NEW session \in Sessions, NEW issued \in BOOLEAN, RebindTarget(session, issued)
        PROVE  FALSE
    <2>1. safety'.reviewedGeneration = 0 /\ safety'.verifiedGeneration = 0
      BY <1>1, <1>6 DEF RebindTarget, resetForAuthorityChange, Safety
    <2> QED
      BY <1>2, <1>3, <2>1
  <1>7. ASSUME NEW u \in pendingTasks, TaskFails(u)
        PROVE  FALSE
    <2>1. /\ safety'.reviewedGeneration = safety.reviewedGeneration
          /\ safety'.verifiedGeneration = safety.verifiedGeneration
      BY <1>1, <1>7, LeaseLost DEF TaskFails
    <2> QED
      BY <1>2, <1>3, <2>1
  <1>8. ASSUME NEW u \in pendingTasks, TaskCompletes(u)
        PROVE  TaskCompletes(t) /\ t.generation = safety.editGeneration
    <2>1. u = t
      BY <1>3, <1>8 DEF TaskCompletes
    <2>2. t.generation = safety.editGeneration
      BY <1>2, <1>3, <1>8, <2>1 DEF TaskCompletes
    <2> QED
      BY <1>8, <2>1, <2>2
  <1>9. ASSUME NEW u \in pendingTasks, PartitionCompletes(u)
        PROVE  PartitionCompletes(t) /\ t.generation = safety.editGeneration
    <2>1. u = t
      BY <1>3, <1>9 DEF PartitionCompletes
    <2>2. LiveObligations(safety, t) # {}
      <3> SUFFICES ASSUME LiveObligations(safety, t) = {}
                   PROVE  FALSE
        OBVIOUS
      <3>1. safety' = safety
        BY <1>9, <2>1, Zenon DEF PartitionCompletes
      <3> QED
        BY <1>2, <1>3, <3>1
    <2>3. t.generation = safety.editGeneration
      BY <2>2 DEF LiveObligations
    <2> QED
      BY <1>9, <2>1, <2>3
  <1>10. ASSUME Restart
         PROVE  FALSE
    <2>1. disk \in Safety
      BY <1>1 DEF TypeOK
    <2>2. CASE HydratesCleanly(disk)
      <3>1. GateFields(safety') = GateFields(safety)
        BY <1>10, <2>1, <2>2, HydratedValues DEF Restart, IInv, GateFieldsDurable
      <3> QED
        BY <1>2, <1>3, <3>1 DEF GateFields
    <2>3. CASE ~HydratesCleanly(disk)
      <3>1. safety' = FailClosed(disk)
        BY <1>10, <2>3 DEF Restart
      <3>2. safety'.reviewedGeneration = 0 /\ safety'.verifiedGeneration = 0
        BY <2>1, <3>1, FailClosedValues
      <3> QED
        BY <1>2, <1>3, <3>2
    <2> QED
      BY <2>2, <2>3
  <1>11. ASSUME pendingTasks \subseteq pendingTasks'
         PROVE  FALSE
    BY <1>3, <1>11
  <1> QED
    BY <1>5, <1>6, <1>7, <1>8, <1>9, <1>10, <1>11, ZenonT(60)
       DEF Next, DeclareGateAuthority, CorroborateHead, ProveHead, InvalidateLease,
           ReleaseTarget, Edit, HeadChangingCommand, EditLands, TaskBegin, PlanRejects, PlanPartitions,
           PlanElides, TaskLaunches, PublishBegin, CommitRuns, PublishSucceeds,
           PublishFails, WorkspaceIdentity

LEMMA FreshStep == IInv /\ [Next]_vars => [FreshAdvance]_vars
  BY AdvancingResult DEF FreshAdvance, IInv, SameCampaignFresh

\* A late result never counts for newer content of its campaign
\* (CoverageIsFreshInCampaign).
THEOREM FreshCoverage == Spec => CoverageIsFreshInCampaign
  BY Invariance, FreshStep, PTL DEF Spec, CoverageIsFreshInCampaign

\* Only a declaration or a rebind moves the epoch; a reload restores the saved
\* one, which is the current one.
LEMMA EpochMoves ==
  ASSUME IInv, Next, safety'.authorityEpoch # safety.authorityEpoch
  PROVE  \/ \E session \in Sessions, sha \in DeclaredHeads, mode \in Modes,
               residue \in BOOLEAN, others \in BOOLEAN :
               DeclareAuthority(session, sha, mode, residue, others)
         \/ \E session \in Sessions, issued \in BOOLEAN : RebindTarget(session, issued)
  <1>1. TypeOK /\ safety \in Safety /\ disk \in Safety
    BY DEF IInv, TypeOK
  <1>2. ASSUME NEW review, NEW verify, NEW receipt,
               DeclareGateAuthority(review, verify, receipt)
        PROVE  FALSE
    BY <1>1, <1>2 DEF DeclareGateAuthority, Safety
  <1>3. ASSUME NEW observed, CorroborateHead(observed)
        PROVE  FALSE
    BY <1>1, <1>3 DEF CorroborateHead, Safety
  <1>4. ASSUME NEW observed, NEW issued, ProveHead(observed, issued)
        PROVE  FALSE
    BY <1>1, <1>4 DEF ProveHead, Safety
  <1>5. ASSUME LoseLease
        PROVE  FALSE
    BY <1>1, <1>5, LeaseLost
  <1>6. ASSUME NEW reconciled, ReleaseTarget(reconciled)
        PROVE  FALSE
    BY <1>1, <1>6 DEF ReleaseTarget, Safety
  <1>7. ASSUME NEW s \in Safety, s.authorityEpoch = safety.authorityEpoch,
               NEW touched, NEW highRisk, RecordEdit(s, touched, highRisk)
        PROVE  FALSE
    BY <1>7 DEF RecordEdit, recordImplementationEdit, Safety
  <1>8. ASSUME NEW touched, NEW highRisk, Edit(touched, highRisk)
        PROVE  FALSE
    BY <1>1, <1>7, <1>8 DEF Edit
  <1>9. ASSUME NEW p \in planning, NEW keys \in Plans, PlanPartitions(p, keys)
        PROVE  FALSE
    BY <1>1, <1>9 DEF PlanPartitions, registerPlannerPartitionObligation, Safety
  <1>10. ASSUME NEW p \in planning, PlanElides(p)
         PROVE  FALSE
    BY <1>1, <1>10 DEF PlanElides, Safety
  <1>11. ASSUME NEW t \in pendingTasks, TaskCompletes(t)
         PROVE  FALSE
    <2>1. t \in Task
      BY <1>1 DEF TypeOK
    <2> QED
      BY <1>1, <1>11, <2>1, CoverValues DEF TaskCompletes
  <1>12. ASSUME NEW t \in pendingTasks, PartitionCompletes(t)
         PROVE  FALSE
    <2>1. t \in Task
      BY <1>1 DEF TypeOK
    <2>2. PICK o \in LiveObligations(safety, t) :
            \/ safety' = Cover([safety EXCEPT !.obligations = safety.obligations \ {o}], t)
            \/ safety' = [safety EXCEPT !.obligations =
                  (safety.obligations \ {o}) \cup
                     {[o EXCEPT !.completedKeys = @ \cup {t.key}]}]
      BY <1>12 DEF PartitionCompletes
    <2> DEFINE s == [safety EXCEPT !.obligations = safety.obligations \ {o}]
    <2>3. s \in Safety /\ s.authorityEpoch = safety.authorityEpoch
      BY <1>1 DEF Safety
    <2>4. CASE safety' = Cover(s, t)
      BY <2>1, <2>3, <2>4, CoverValues
    <2>5. CASE safety' = [safety EXCEPT !.obligations =
                  (safety.obligations \ {o}) \cup
                     {[o EXCEPT !.completedKeys = @ \cup {t.key}]}]
      BY <1>1, <2>5 DEF Safety
    <2> QED
      BY <2>2, <2>4, <2>5
  <1>13. ASSUME NEW call, NEW kind, NEW mutates, PublishBegin(call, kind, mutates)
         PROVE  FALSE
    <2> DEFINE forgotten == IF kind = "commit"
                            THEN [safety EXCEPT !.taskWorkspaceHead = NoHead] ELSE safety
    <2>1. forgotten \in Safety /\ forgotten.authorityEpoch = safety.authorityEpoch
      BY <1>1 DEF Safety, Head, NoHead
    <2>2. safety' = forgotten \/ RecordEdit(forgotten, {}, TRUE)
      BY <1>13 DEF PublishBegin
    <2> HIDE DEF forgotten
    <2> QED
      BY <1>7, <2>1, <2>2
  <1>14. ASSUME NEW p \in publishing, PublishSucceeds(p)
         PROVE  FALSE
    BY <1>1, <1>14 DEF PublishSucceeds, Safety
  <1>15. ASSUME WorkspaceIdentity
         PROVE  FALSE
    BY <1>1, <1>15 DEF WorkspaceIdentity, resetCampaign, Safety
  <1>16. ASSUME Restart
         PROVE  FALSE
    <2>1. disk.authorityEpoch = safety.authorityEpoch
      BY DEF IInv, Bookkeeping
    <2>2. CASE HydratesCleanly(disk)
      <3>1. safety' = HydratedFields(disk)
        BY <1>16, <2>2 DEF Restart
      <3>2. GateFields(safety') = GateFields(disk)
        BY <1>1, <3>1, HydratedValues
      <3> QED
        BY <2>1, <3>2 DEF GateFields
    <2>3. CASE ~HydratesCleanly(disk)
      <3>1. safety' = FailClosed(disk)
        BY <1>16, <2>3 DEF Restart
      <3> QED
        BY <1>1, <2>1, <3>1, FailClosedValues
    <2> QED
      BY <2>2, <2>3
  <1>17. ASSUME HeadChangingCommand
         PROVE  FALSE
    BY <1>1, <1>17 DEF HeadChangingCommand, Safety
  <1> QED
    BY <1>2, <1>3, <1>4, <1>5, <1>6, <1>8, <1>9, <1>10, <1>11, <1>12, <1>13, <1>14, <1>15, <1>16,
       <1>17
       DEF Next, InvalidateLease, EditLands, TaskBegin, PlanRejects, TaskLaunches, TaskFails,
           CommitRuns, PublishFails

LEMMA UncoveredStep == IInv /\ [Next]_vars => [UncoveredEpoch]_vars
  <1> SUFFICES ASSUME IInv, Next, safety'.authorityEpoch # safety.authorityEpoch
               PROVE  /\ safety'.reviewedGeneration = 0 /\ safety'.verifiedGeneration = 0
                      /\ pendingTasks' = {}
    BY DEF UncoveredEpoch
  <1>1. TypeOK /\ safety \in Safety
    BY DEF IInv, TypeOK
  <1>2. ASSUME NEW session \in Sessions, NEW issued \in BOOLEAN, RebindTarget(session, issued)
        PROVE  /\ safety'.reviewedGeneration = 0 /\ safety'.verifiedGeneration = 0
               /\ pendingTasks' = {}
    BY <1>1, <1>2 DEF RebindTarget, resetForAuthorityChange, Safety
  <1> QED
    BY <1>1, <1>2, EpochMoves, DeclareValues, DeclareDrops

\* A new authority epoch starts with no coverage and no delegation in flight
\* (EpochStartsUncovered).
THEOREM EpochsStartUncovered == Spec => EpochStartsUncovered
  BY Invariance, UncoveredStep, PTL DEF Spec, EpochStartsUncovered

LEMMA ClosedGateStep == IInv /\ [Next]_vars => [ClosedGateReload]_vars
  <1> SUFFICES ASSUME IInv, Restart, ~PublishAdmissible(safety, FALSE)
               PROVE  ~PublishAdmissible(safety', FALSE)
    BY DEF ClosedGateReload
  <1>1. disk \in Safety /\ safety \in Safety
    BY DEF IInv, TypeOK
  <1>2. CASE HydratesCleanly(disk)
    <2>1. GateFields(safety') = GateFields(safety)
      BY <1>1, <1>2, HydratedValues DEF Restart, IInv, GateFieldsDurable
    <2> QED
      BY <2>1 DEF GateFields, PublishAdmissible, requiresIndependentGates
  <1>3. CASE ~HydratesCleanly(disk)
    <2>1. safety' = FailClosed(disk)
      BY <1>3 DEF Restart
    <2>2. /\ safety'.editGeneration = IF disk.editGeneration = 0
                                      THEN 1 ELSE disk.editGeneration
          /\ safety'.reviewedGeneration = 0 /\ safety'.verifiedGeneration = 0
          /\ safety'.campaignActive = TRUE /\ safety'.highRiskEdit = TRUE
          /\ safety'.semanticReviewAuthority = safety.semanticReviewAuthority
          /\ safety'.repositoryVerifyAuthority = safety.repositoryVerifyAuthority
      BY <1>1, <2>1, FailClosedValues DEF IInv, Bookkeeping
    <2>3. disk.editGeneration \in Nat
      BY <1>1 DEF Safety
    <2> QED
      BY <2>2, <2>3 DEF PublishAdmissible, requiresIndependentGates
  <1> QED
    BY <1>2, <1>3

\* A reload never opens a publication gate that was closed
\* (RestartKeepsGateClosed).
THEOREM ClosedGateSurvivesRestart == Spec => RestartKeepsGateClosed
  BY Invariance, ClosedGateStep, PTL DEF Spec, RestartKeepsGateClosed

(***************************************************************************)
(* The partition obligations.                                              *)
(***************************************************************************)
WellFormed(S) ==
    \A o \in S :
        /\ o.completedKeys \subseteq o.packetKeys /\ o.completedKeys # o.packetKeys
        /\ \A other \in S :
              o.role = other.role /\ o.packetKeys \cap other.packetKeys # {} => o = other

\* Obligations are well formed in memory and in the file, and a Task call knows
\* only obligations that ask for its packet.
OInv ==
    /\ WellFormed(safety.obligations) /\ WellFormed(disk.obligations)
    /\ \A t \in planning \cup pendingTasks : \A id \in t.member : t.key \in id.packetKeys

LEMMA FewerAreWellFormed ==
  ASSUME NEW S, NEW T \in SUBSET S, WellFormed(S)
  PROVE  WellFormed(T)
  BY DEF WellFormed

LEMMA InitOInv == Init => OInv
  BY DEF Init, OInv, WellFormed, emptySafetyState

\* A step that adds no obligation, and no Task call without a known packet.
LEMMA ShrinkingStep ==
  ASSUME OInv, safety'.obligations \subseteq safety.obligations,
         disk' = safety' \/ disk' = disk,
         planning' \subseteq planning, pendingTasks' \subseteq pendingTasks
  PROVE  OInv'
  <1>1. WellFormed(safety'.obligations)
    BY FewerAreWellFormed DEF OInv
  <1>2. WellFormed(disk'.obligations)
    BY <1>1 DEF OInv
  <1> QED
    BY <1>1, <1>2 DEF OInv, WellFormed

\* The record of an edit forgets the obligations.
LEMMA EditForgets ==
  ASSUME NEW s \in Safety, NEW touched, NEW highRisk, RecordEdit(s, touched, highRisk)
  PROVE  safety'.obligations = {} /\ disk' = safety'
  BY DEF RecordEdit, recordImplementationEdit, Save, Safety

LEMMA CoverKeepsObligations ==
  ASSUME NEW s \in Safety, NEW t
  PROVE  Cover(s, t).obligations = s.obligations
  BY DEF Cover, Safety

\* A packet is looked up in the obligations that ask for it.
LEMMA BeginStep ==
  ASSUME TypeOK, OInv, NEW call, NEW session, NEW role, NEW key, NEW evidence,
         TaskBegin(call, session, role, key, evidence)
  PROVE  OInv'
  <1> DEFINE member == plannerPartitionMembership(safety, role, key)
             ids == {IdOf(o) : o \in member}
  <1>1. /\ planning' = planning \cup
              {[call |-> call, session |-> session, role |-> role, member |-> ids, key |-> key,
                evidence |-> evidence,
                plannable |-> role = "explore" \/ AuthorityHead(safety) # NoHead]}
        /\ UNCHANGED <<safety, disk, pendingTasks>>
    BY DEF TaskBegin
  <1>2. \A id \in ids : key \in id.packetKeys
    BY DEF plannerPartitionMembership, IdOf
  <1> HIDE DEF ids
  <1> QED
    BY <1>1, <1>2 DEF OInv, WellFormed

\* A new obligation shares no packet with another of its role.
LEMMA RegisterStep ==
  ASSUME TypeOK, OInv, NEW p \in planning, NEW keys \in Plans, PlanPartitions(p, keys)
  PROVE  OInv'
  <1> DEFINE id == plannerPartitionObligationId(safety, p.role, keys)
             new == [role |-> id.role, generation |-> id.generation,
                     authority |-> id.authority, packetKeys |-> id.packetKeys,
                     completedKeys |-> {}]
  <1>1. /\ disk' = safety' /\ planning' \subseteq planning /\ UNCHANGED pendingTasks
        /\ ~OverlapsOther(safety, id)
        /\ safety' = registerPlannerPartitionObligation(safety, id)
    BY DEF PlanPartitions, Save
  <1>2. CASE \E o \in safety.obligations : IdOf(o) = id
    BY <1>1, <1>2, ShrinkingStep DEF registerPlannerPartitionObligation
  <1>3. CASE ~\E o \in safety.obligations : IdOf(o) = id
    <2>1. safety'.obligations = safety.obligations \cup {new}
      BY <1>1, <1>3 DEF registerPlannerPartitionObligation, TypeOK, Safety
    <2>2. new.packetKeys # {} /\ new.completedKeys = {}
      BY ConstantsAssumption DEF plannerPartitionObligationId
    <2>3. \A o \in safety.obligations :
             o.role = new.role => o.packetKeys \cap new.packetKeys = {}
      BY <1>1, <1>3 DEF OverlapsOther
    <2> HIDE DEF new
    <2>4. WellFormed(safety'.obligations)
      BY <2>1, <2>2, <2>3 DEF OInv, WellFormed
    <2> QED
      BY <1>1, <2>4 DEF OInv, WellFormed
  <1> QED
    BY <1>2, <1>3

\* A finished packet is one the obligation asks for, and not the last of them
\* unless the obligation goes.
LEMMA PacketStep ==
  ASSUME TypeOK, OInv, NEW t \in pendingTasks, PartitionCompletes(t)
  PROVE  OInv'
  <1>1. /\ planning' = planning /\ pendingTasks' \subseteq pendingTasks
        /\ safety \in Safety
    BY DEF PartitionCompletes, TypeOK
  <1>2. CASE UNCHANGED <<safety, disk>>
    BY <1>1, <1>2, ShrinkingStep
  <1>3. ASSUME NEW o \in LiveObligations(safety, t),
               safety' = Cover([safety EXCEPT !.obligations = safety.obligations \ {o}], t),
               IF t.role = "explore" THEN UNCHANGED disk ELSE disk' = safety'
        PROVE  OInv'
    <2> DEFINE s == [safety EXCEPT !.obligations = safety.obligations \ {o}]
    <2>1. s \in Safety /\ s.obligations = safety.obligations \ {o}
      BY <1>1 DEF Safety
    <2>2. safety'.obligations = safety.obligations \ {o}
      BY <1>3, <2>1, CoverKeepsObligations
    <2> QED
      BY <1>1, <1>3, <2>2, ShrinkingStep
  <1>4. ASSUME NEW o \in LiveObligations(safety, t), ~Finishes(o, t), disk' = safety',
               safety' = [safety EXCEPT !.obligations =
                   (safety.obligations \ {o}) \cup {[o EXCEPT !.completedKeys = @ \cup {t.key}]}]
        PROVE  OInv'
    <2> DEFINE done == [o EXCEPT !.completedKeys = o.completedKeys \cup {t.key}]
    <2>1. o \in safety.obligations /\ IdOf(o) \in t.member /\ o \in Obligation
      BY <1>1 DEF LiveObligations, Safety
    <2>2. t.key \in o.packetKeys
      BY <2>1 DEF OInv, IdOf
    <2>3. /\ done.role = o.role /\ done.packetKeys = o.packetKeys
          /\ done.completedKeys = o.completedKeys \cup {t.key}
      BY <2>1 DEF Obligation
    <2>4. safety'.obligations = (safety.obligations \ {o}) \cup {done}
      BY <1>1, <1>4 DEF Safety
    <2> HIDE DEF done
    <2>5. WellFormed(safety'.obligations)
      BY <1>4, <2>1, <2>2, <2>3, <2>4 DEF OInv, WellFormed, Finishes
    <2> QED
      BY <1>1, <1>4, <2>5 DEF OInv, WellFormed
  <1> QED
    BY <1>2, <1>3, <1>4 DEF PartitionCompletes, Save

-----------------------------------------------------------------------------
LEMMA OInvStep == TypeOK /\ OInv /\ [Next]_vars => OInv'
  <1> SUFFICES ASSUME TypeOK, OInv, [Next]_vars
               PROVE  OInv'
    OBVIOUS
  <1>1. safety \in Safety /\ disk \in Safety
    BY DEF TypeOK
  <1>2. ASSUME safety'.obligations \subseteq safety.obligations,
               disk' = safety' \/ disk' = disk,
               planning' \subseteq planning, pendingTasks' \subseteq pendingTasks
        PROVE  OInv'
    BY <1>2, ShrinkingStep
  <1>3. ASSUME NEW session, NEW sha, NEW mode, NEW residue, NEW others,
               DeclareAuthority(session, sha, mode, residue, others)
        PROVE  OInv'
    <2> DEFINE scoped == IF authorityScopedStateNeedsReset(safety, session, residue)
                         THEN resetForAuthorityChange(safety) ELSE safety
               shared == IF others THEN [scoped EXCEPT !.obligations = {}] ELSE scoped
    <2>1. scoped \in Safety /\ scoped.obligations \subseteq safety.obligations
      BY <1>1 DEF resetForAuthorityChange, Safety
    <2>2. shared \in Safety /\ shared.obligations \subseteq safety.obligations
      BY <2>1 DEF Safety
    <2>3. safety' = BeginEpoch(shared, sha, mode)
      BY <1>3 DEF DeclareAuthority
    <2> HIDE DEF shared
    <2>4. safety'.obligations = shared.obligations
      BY <2>2, <2>3 DEF BeginEpoch, Safety
    <2> QED
      BY <1>2, <1>3, <2>2, <2>4 DEF DeclareAuthority, Save
  <1>4. ASSUME NEW session, NEW issued, RebindTarget(session, issued)
        PROVE  OInv'
    BY <1>1, <1>2, <1>4 DEF RebindTarget, resetForAuthorityChange, Save, Safety
  <1>5. ASSUME NEW review, NEW verify, NEW receipt, DeclareGateAuthority(review, verify, receipt)
        PROVE  OInv'
    BY <1>1, <1>2, <1>5 DEF DeclareGateAuthority, Save, Safety
  <1>6. ASSUME NEW observed, CorroborateHead(observed)
        PROVE  OInv'
    BY <1>1, <1>2, <1>6 DEF CorroborateHead, Save, Safety
  <1>7. ASSUME NEW observed, NEW issued, ProveHead(observed, issued)
        PROVE  OInv'
    BY <1>1, <1>2, <1>7 DEF ProveHead, Save, Safety
  <1>8. ASSUME LoseLease
        PROVE  safety'.obligations = safety.obligations /\ disk' = safety'
    BY <1>1, <1>8 DEF LoseLease, Save, Safety
  <1>9. ASSUME NEW reconciled, ReleaseTarget(reconciled)
        PROVE  OInv'
    BY <1>1, <1>2, <1>9 DEF ReleaseTarget, Save, Safety
  <1>10. ASSUME NEW touched, NEW highRisk, Edit(touched, highRisk)
         PROVE  OInv'
    BY <1>1, <1>2, <1>10, EditForgets DEF Edit
  <1>11. ASSUME HeadChangingCommand
         PROVE  OInv'
    BY <1>1, <1>2, <1>11 DEF HeadChangingCommand, Save, Safety
  <1>12. ASSUME NEW p \in planning, PlanElides(p)
         PROVE  OInv'
    BY <1>1, <1>2, <1>12 DEF PlanElides, Save, Safety
  <1>13. ASSUME NEW p \in planning, TaskLaunches(p)
         PROVE  OInv'
    <2> DEFINE t == [call |-> p.call, session |-> p.session, role |-> p.role,
                     member |-> p.member, key |-> p.key,
                     generation |-> safety.editGeneration, edits |-> edits,
                     campaign |-> safety.campaignId, epoch |-> safety.authorityEpoch]
    <2>1. /\ UNCHANGED <<safety, disk>> /\ planning' \subseteq planning
          /\ pendingTasks' = pendingTasks \cup {t}
      BY <1>13 DEF TaskLaunches
    <2>2. \A id \in t.member : t.key \in id.packetKeys
      BY DEF OInv
    <2> HIDE DEF t
    <2> QED
      BY <2>1, <2>2 DEF OInv, WellFormed
  <1>14. ASSUME NEW t \in pendingTasks, TaskCompletes(t)
         PROVE  OInv'
    BY <1>1, <1>2, <1>14, CoverKeepsObligations DEF TaskCompletes, Save
  <1>15. ASSUME NEW call, NEW kind, NEW mutates, PublishBegin(call, kind, mutates)
         PROVE  OInv'
    <2> DEFINE forgotten == IF kind = "commit"
                            THEN [safety EXCEPT !.taskWorkspaceHead = NoHead] ELSE safety
    <2>1. forgotten \in Safety /\ forgotten.obligations = safety.obligations
      BY <1>1 DEF Safety, Head, NoHead
    <2>2. \/ RecordEdit(forgotten, {}, TRUE)
          \/ /\ safety' = forgotten
             /\ IF kind = "commit" THEN disk' = safety' ELSE UNCHANGED disk
      BY <1>15 DEF PublishBegin, Save
    <2> HIDE DEF forgotten
    <2> QED
      BY <1>2, <1>15, <2>1, <2>2, EditForgets DEF PublishBegin
  <1>16. ASSUME NEW p \in publishing, PublishSucceeds(p)
         PROVE  OInv'
    BY <1>1, <1>2, <1>16 DEF PublishSucceeds, Save, Safety
  <1>17. ASSUME WorkspaceIdentity
         PROVE  OInv'
    BY <1>1, <1>2, <1>17 DEF WorkspaceIdentity, resetCampaign, Save, Safety
  <1>18. ASSUME Restart
         PROVE  OInv'
    <2>1. HydratedFields(disk) \in Safety /\ HydratedFields(disk).obligations = disk.obligations
      BY <1>1 DEF HydratedFields, Safety
    <2>2. safety'.obligations \subseteq disk.obligations
      BY <1>18, <2>1 DEF Restart, FailClosed, Safety
    <2>3. WellFormed(safety'.obligations)
      BY <2>2, FewerAreWellFormed DEF OInv
    <2> QED
      BY <1>18, <2>3 DEF Restart, OInv, WellFormed
  <1>19. CASE UNCHANGED vars
    BY <1>2, <1>19 DEF vars
  <1> QED
    BY <1>2, <1>3, <1>4, <1>5, <1>6, <1>7, <1>8, <1>9, <1>10, <1>11, <1>12, <1>13, <1>14,
       <1>15, <1>16, <1>17, <1>18, <1>19, BeginStep, RegisterStep, PacketStep, ZenonT(60)
       DEF Next, InvalidateLease, EditLands, PlanRejects, TaskFails, CommitRuns, PublishFails

LEMMA ObligationInvariance == Spec => [](TypeOK /\ OInv)
  <1>1. TypeOK /\ OInv /\ [Next]_vars => (TypeOK /\ OInv)'
    BY OInvStep, TypeStep
  <1> QED
    BY <1>1, InitType, InitOInv, PTL DEF Spec

\* In memory and in the file, outstanding obligations never share a packet and always
\* have one of their own left to do (ObligationsWellFormed), whatever plans overlap
\* and whenever OpenCode restarts.
THEOREM ObligationsStayWellFormed == Spec => []ObligationsWellFormed
  <1>1. OInv => ObligationsWellFormed
    BY DEF OInv, WellFormed, ObligationsWellFormed
  <1> QED
    BY <1>1, ObligationInvariance, PTL

-----------------------------------------------------------------------------
\* What a partition result does when it moves a publication generation.
AggregateAdvance ==
    \A t \in pendingTasks :
        AdvancesCoverage(t) /\ t.member # {}
        => \E o \in safety.obligations :
              /\ IdOf(o) \in t.member
              /\ o.packetKeys \ o.completedKeys \subseteq {t.key}

LEMMA AggregateStep == IInv /\ [Next]_vars => [AggregateAdvance]_vars
  <1> SUFFICES ASSUME IInv, Next, NEW t \in pendingTasks, AdvancesCoverage(t), t.member # {}
               PROVE  \E o \in safety.obligations :
                         /\ IdOf(o) \in t.member
                         /\ o.packetKeys \ o.completedKeys \subseteq {t.key}
    BY DEF AggregateAdvance
  <1>1. PartitionCompletes(t) /\ safety \in Safety
    BY AdvancingResult DEF TaskCompletes, IInv, TypeOK
  <1>2. /\ safety.reviewedGeneration \in Nat /\ safety.verifiedGeneration \in Nat
        /\ \/ safety'.reviewedGeneration > safety.reviewedGeneration
           \/ safety'.verifiedGeneration > safety.verifiedGeneration
    BY <1>1 DEF AdvancesCoverage, Safety
  <1>3. ASSUME safety'.reviewedGeneration = safety.reviewedGeneration,
               safety'.verifiedGeneration = safety.verifiedGeneration
        PROVE  FALSE
    BY <1>2, <1>3
  <1>4. PICK o \in LiveObligations(safety, t) : Finishes(o, t)
    BY <1>1, <1>3 DEF PartitionCompletes, Safety
  <1> QED
    BY <1>4 DEF LiveObligations, Finishes

\* A partition opens the gate only as the last one missing from its obligation
\* (AggregateBeforeCoverage).
THEOREM AggregatesOpenTheGate == Spec => AggregateBeforeCoverage
  BY Invariance, AggregateStep, PTL DEF Spec, AggregateBeforeCoverage, AggregateAdvance
=============================================================================
