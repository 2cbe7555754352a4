---------------------------- MODULE CampaignGates ----------------------------
(***************************************************************************)
(* The workspace-level safety state of lib/operation-guard-core.mjs: edit  *)
(* generations, delegated review and Verify work, deterministic partition  *)
(* obligations, the publication gate, campaign closure, authority epochs   *)
(* and the reload of the persisted state after a plugin restart.           *)
(*                                                                         *)
(* One action is one hook invocation up to its next await that lets other  *)
(* hooks in.  A Task call therefore has a begin (the synchronous checks    *)
(* before planning), a planner answer, and a result; a publish call has an *)
(* admission, the Git command itself, and an after-hook.  The safety       *)
(* fields live in one record because the code shares one object between    *)
(* all sessions of a workspace; "disk" is what safetyStore.save() last     *)
(* wrote (the write queue behind it is the module SafetyStore).            *)
(*                                                                         *)
(* A commit SHA is represented by the number of landed edits it contains.  *)
(***************************************************************************)
EXTENDS Integers, FiniteSets

CONSTANTS
    Sessions,             \* primary OpenCode sessions of the workspace
    Calls,                \* identifiers for tool calls in flight
    Roles,                \* delegated roles in use
    Packets,              \* canonical planner packets (normalized prompts)
    Plans,                \* packet sets a PARTITION_REQUIRED answer can hold
    Paths,                \* production paths an edit can touch
    ReviewFileThreshold,  \* policy.reviewFileThreshold
    DeclaredHeads,        \* SHAs a user message may declare
    Modes,                \* authority modes a declaration may use
    ReviewAuthorities,    \* semantic-review authorities a message may set
    VerifyAuthorities,    \* repository Verify authorities a message may set
    PublishKinds,         \* Git publish commands issued
    MaxEdits,             \* bound: implementation edits
    MaxEpochs,            \* bound: authority epochs
    MaxCampaigns          \* bound: campaign identifiers drawn

ASSUME ConstantsAssumption ==
    /\ Roles \subseteq {"explore", "fresh-review", "verify"}
    /\ Plans \subseteq (SUBSET Packets) \ {{}}
    /\ DeclaredHeads \subseteq Nat
    /\ PublishKinds \subseteq {"commit", "push"}
    /\ Modes \subseteq {"strict-start", "target"}
    /\ ReviewAuthorities \subseteq {"local-fresh-review", "central-owned"}
    /\ VerifyAuthorities \subseteq {"local-verify", "trusted-actions"}
    /\ {MaxEdits, MaxEpochs, MaxCampaigns, ReviewFileThreshold} \subseteq Nat

VARIABLES
    safety,        \* the in-memory safety object shared by all sessions
    disk,          \* the last snapshot written by safetyStore.save()
    planning,      \* Task calls suspended in deterministicTaskPlan
    pendingTasks,  \* Task calls whose child is running, of every session
    publishing,    \* git commit / git push calls admitted, not yet returned
    edits,         \* number of edits admitted by the before-hook
    landed,        \* number of those that have reached the worktree
    head,          \* the commit checked out: edits it contains
    campaigns      \* campaign identifiers drawn so far (randomUUID)

vars == <<safety, disk, planning, pendingTasks, publishing,
          edits, landed, head, campaigns>>

-----------------------------------------------------------------------------
(***************************************************************************)
(* Values.                                                                 *)
(***************************************************************************)
NoHead == -1
NoCampaign == 0
Head == Nat \cup {NoHead}

\* The identity the code hashes into an obligation's id.
ObligationId ==
    [role : Roles, generation : Nat, authority : Head, packetKeys : Plans]

Obligation ==
    [role : Roles, generation : Nat, authority : Head, packetKeys : Plans,
     completedKeys : SUBSET Packets]

Safety ==
    [authorityBinding : Head,
     authorityMode : {"none", "strict-start", "target"},
     authorityStatus : {"none", "pending", "verified", "mismatch"},
     authorityEpoch : Nat,
     semanticReviewAuthority : {"local-fresh-review", "central-owned"},
     repositoryVerifyAuthority : {"local-verify", "trusted-actions"},
     trustedActionsReceiptHead : Head,
     obligations : SUBSET Obligation,
     observedHead : Head,
     taskWorkspaceHead : Head,
     editedPaths : SUBSET Paths,
     highRiskEdit : BOOLEAN,
     editGeneration : Nat,
     reviewedGeneration : Nat,
     verifiedGeneration : Nat,
     campaignId : Nat,
     campaignBaseHead : Head,
     campaignActive : BOOLEAN,
     campaignPublished : BOOLEAN]

\* member holds the id of the obligation the packet was admitted under, if any.
Planning ==
    [call : Calls, session : Sessions, role : Roles, member : SUBSET ObligationId,
     key : Packets, evidence : BOOLEAN, plannable : BOOLEAN]

\* edits, campaign and epoch record the moment of launch; the code keeps only
\* the generation, and the properties compare it with the rest.
Task ==
    [call : Calls, session : Sessions, role : Roles, member : SUBSET ObligationId,
     key : Packets, generation : Nat,
     edits : Nat, campaign : Nat, epoch : Nat]

Publish ==
    [call : Calls, kind : {"commit", "push"}, ran : BOOLEAN, edits : Nat]

emptySafetyState ==
    [authorityBinding |-> NoHead, authorityMode |-> "none",
     authorityStatus |-> "none", authorityEpoch |-> 0,
     semanticReviewAuthority |-> "local-fresh-review",
     repositoryVerifyAuthority |-> "local-verify",
     trustedActionsReceiptHead |-> NoHead, obligations |-> {},
     observedHead |-> NoHead, taskWorkspaceHead |-> NoHead,
     editedPaths |-> {}, highRiskEdit |-> FALSE,
     editGeneration |-> 0, reviewedGeneration |-> 0, verifiedGeneration |-> 0,
     campaignId |-> NoCampaign, campaignBaseHead |-> NoHead,
     campaignActive |-> FALSE, campaignPublished |-> FALSE]

Save == disk' = safety'

BusyCalls == {p.call : p \in planning} \cup {t.call : t \in pendingTasks}
                \cup {p.call : p \in publishing}

-----------------------------------------------------------------------------
(***************************************************************************)
(* Campaign helpers.                                                       *)
(***************************************************************************)
requiresIndependentGates(s) ==
    /\ s.campaignActive
    /\ s.highRiskEdit \/ Cardinality(s.editedPaths) >= ReviewFileThreshold

resetCampaign(s, cleanHead) ==
    [s EXCEPT !.editedPaths = {}, !.highRiskEdit = FALSE,
              !.editGeneration = 0, !.reviewedGeneration = 0,
              !.verifiedGeneration = 0, !.campaignId = NoCampaign,
              !.campaignBaseHead = cleanHead, !.campaignActive = FALSE,
              !.campaignPublished = FALSE, !.observedHead = cleanHead]

\* The campaign an edit belongs to: the active one, or one it starts.
CampaignOfEdit(s) == IF s.campaignActive THEN s.campaignId ELSE campaigns + 1

recordImplementationEdit(s, touched, highRisk) ==
    [s EXCEPT !.obligations = {},
              !.campaignActive = TRUE,
              !.campaignId = CampaignOfEdit(s),
              !.campaignBaseHead = IF s.campaignActive THEN @ ELSE s.observedHead,
              !.campaignPublished = FALSE,
              !.editedPaths = @ \cup touched,
              !.highRiskEdit = @ \/ highRisk,
              !.editGeneration = @ + 1]

\* The before-hook half of an admitted edit: state, snapshot and counters.
RecordEdit(s, touched, highRisk) ==
    /\ edits < MaxEdits
    /\ CampaignOfEdit(s) <= MaxCampaigns
    /\ safety' = recordImplementationEdit(s, touched, highRisk)
    /\ edits' = edits + 1
    /\ campaigns' = IF s.campaignActive THEN campaigns ELSE campaigns + 1
    /\ Save

authorityPending(s) == s.authorityBinding # NoHead /\ s.authorityStatus # "verified"

-----------------------------------------------------------------------------
(***************************************************************************)
(* Partition obligations.  The two maps of the code, from id to obligation *)
(* and from packet key to id, are one set here: a key belongs to the       *)
(* obligation that contains it.                                            *)
(***************************************************************************)
IdOf(o) == [role |-> o.role, generation |-> o.generation,
            authority |-> o.authority, packetKeys |-> o.packetKeys]

ObligationAuthority(s) ==
    IF s.authorityBinding # NoHead THEN s.authorityBinding ELSE s.taskWorkspaceHead

plannerPartitionObligationId(s, role, keys) ==
    [role |-> role, generation |-> s.editGeneration,
     authority |-> ObligationAuthority(s), packetKeys |-> keys]

plannerPartitionMembership(s, role, key) ==
    {o \in s.obligations : /\ o.role = role /\ key \in o.packetKeys
                           /\ o.generation = s.editGeneration}

outstandingPlannerPartitionObligation(s, role) ==
    {o \in s.obligations : /\ role \in {"fresh-review", "verify"}
                           /\ o.role = role /\ o.generation = s.editGeneration}

\* Mutant: overlap is looked for only under the same authority.
OverlapsSameAuthority(s, id) ==
    \E o \in s.obligations :
        /\ o.role = id.role /\ o.packetKeys \cap id.packetKeys # {} /\ IdOf(o) # id
        /\ o.authority = id.authority

OverlapsOther(s, id) ==
    \E o \in s.obligations :
        o.role = id.role /\ o.packetKeys \cap id.packetKeys # {} /\ IdOf(o) # id

registerPlannerPartitionObligation(s, id) ==
    IF \E o \in s.obligations : IdOf(o) = id THEN s
    ELSE [s EXCEPT !.obligations = @ \cup
            {[role |-> id.role, generation |-> id.generation,
              authority |-> id.authority, packetKeys |-> id.packetKeys,
              completedKeys |-> {}]}]

\* The obligations a finished partition of task t may still advance.
LiveObligations(s, t) ==
    {o \in s.obligations : /\ IdOf(o) \in t.member
                           /\ o.generation = t.generation
                           /\ o.generation = s.editGeneration}

\* Mutant: an obligation is finished by its last packet in plan order.
FinishesOnAnyPacket(o, t) == t.key \in o.packetKeys

Finishes(o, t) == o.completedKeys \cup {t.key} = o.packetKeys

\* Coverage advanced by an aggregate-complete result of task t.
Cover(s, t) ==
    CASE t.role = "verify" -> [s EXCEPT !.verifiedGeneration = t.generation]
      [] t.role = "fresh-review" -> [s EXCEPT !.reviewedGeneration = t.generation]
      [] OTHER -> s

-----------------------------------------------------------------------------
Init ==
    /\ safety = emptySafetyState
    /\ disk = emptySafetyState
    /\ planning = {}
    /\ pendingTasks = {}
    /\ publishing = {}
    /\ edits = 0
    /\ landed = 0
    /\ head = 0
    /\ campaigns = 0

(***************************************************************************)
(* chat.message: authority declarations.                                   *)
(***************************************************************************)
\* Mutant: Verify coverage alone is not taken for authority-scoped state.
NeedsResetWithoutVerify(s, session, residue) ==
    \/ s.authorityBinding # NoHead
    \/ s.reviewedGeneration > 0
    \/ \E t \in pendingTasks : t.session = session
    \/ residue

\* residue stands for the session's advisory traces (reads, direct
\* validations, delegated packets, resumable tasks, a failure notice).
authorityScopedStateNeedsReset(s, session, residue) ==
    \/ s.authorityBinding # NoHead
    \/ s.reviewedGeneration > 0
    \/ s.verifiedGeneration > 0
    \/ \E t \in pendingTasks : t.session = session
    \/ residue

resetForAuthorityChange(s) ==
    [s EXCEPT !.obligations = {}, !.reviewedGeneration = 0, !.verifiedGeneration = 0]

NewEpoch(s, sha, mode) ==
    \/ s.authorityBinding # sha
    \/ s.authorityMode # mode /\ s.authorityMode # "target"
    \/ s.authorityMode = "strict-start" /\ s.authorityStatus = "mismatch"

BeginEpoch(s, sha, mode) ==
    [s EXCEPT !.authorityEpoch = @ + 1, !.authorityBinding = sha,
              !.authorityMode = mode, !.authorityStatus = "pending",
              !.observedHead = NoHead, !.taskWorkspaceHead = NoHead,
              !.trustedActionsReceiptHead =
                  IF s.authorityBinding = sha \/ @ = sha THEN @ ELSE NoHead]

\* A declaration that opens an epoch.  others: the guard holds the state of
\* some other session, whose delegation the message handler clears; that
\* clearing empties the shared obligations too.
DeclareAuthority(session, sha, mode, residue, others) ==
    /\ NewEpoch(safety, sha, mode)
    /\ safety.authorityEpoch < MaxEpochs
    /\ (\E t \in pendingTasks : t.session # session) => others
    /\ LET reset == authorityScopedStateNeedsReset(safety, session, residue)
           scoped == IF reset THEN resetForAuthorityChange(safety) ELSE safety
           shared == IF others THEN [scoped EXCEPT !.obligations = {}] ELSE scoped
       IN  /\ safety' = BeginEpoch(shared, sha, mode)
           /\ pendingTasks' = {t \in pendingTasks : t.session = session /\ ~reset}
    /\ Save
    /\ UNCHANGED <<planning, publishing, edits, landed, head, campaigns>>

\* A declaration for a target that is verified under another session's lease:
\* the epoch advances, and the status stays verified if the lease can be
\* issued again for this session.
RebindTarget(session, issued) ==
    /\ safety.authorityMode = "target" /\ safety.authorityStatus = "verified"
    /\ safety.authorityEpoch < MaxEpochs
    /\ \E other \in Sessions : other # session
    /\ safety' = [resetForAuthorityChange(safety) EXCEPT
            !.authorityEpoch = @ + 1,
            !.authorityStatus = IF issued THEN @ ELSE "pending",
            !.observedHead = IF issued THEN @ ELSE NoHead]
    /\ pendingTasks' = {}
    /\ Save
    /\ UNCHANGED <<planning, publishing, edits, landed, head, campaigns>>

\* Typed review, Verify and receipt declarations in a message.
DeclareGateAuthority(review, verify, receipt) ==
    /\ safety' = [safety EXCEPT !.semanticReviewAuthority = review,
                                !.repositoryVerifyAuthority = verify,
                                !.trustedActionsReceiptHead = receipt]
    /\ safety' # safety
    /\ Save
    /\ UNCHANGED <<planning, pendingTasks, publishing, edits, landed, head, campaigns>>

(***************************************************************************)
(* tool.execute.after of an exact-head proof, loss of the target lease,    *)
(* and the assessment or reconciliation that releases a target.  Proof     *)
(* admissions and lease identities belong to the authority module.         *)
(***************************************************************************)
\* A bare HEAD proof with no authority bound, or one that corroborates a
\* valid target lease, only records where the workspace stands.
CorroborateHead(observed) ==
    /\ \/ safety.authorityBinding = NoHead /\ observed = head
       \/ /\ safety.authorityMode = "target" /\ safety.authorityStatus = "verified"
          /\ observed = safety.authorityBinding
    /\ safety' = [safety EXCEPT !.taskWorkspaceHead = observed]
    /\ Save
    /\ UNCHANGED <<planning, pendingTasks, publishing, edits, landed, head, campaigns>>

\* A target proof that cannot be turned into a lease leaves the authority
\* pending.
ProveHead(observed, issued) ==
    /\ safety.authorityBinding # NoHead
    /\ \/ safety.authorityStatus = "pending"
       \/ safety.authorityStatus = "mismatch" /\ safety.authorityMode = "target"
    /\ observed \in {head, safety.authorityBinding}
    /\ safety.authorityMode = "strict-start" => observed = head
    /\ LET proved == observed = safety.authorityBinding
           leased == safety.authorityMode = "target" => issued
       IN  safety' = [safety EXCEPT
             !.observedHead = observed,
             !.taskWorkspaceHead = IF proved /\ ~leased THEN NoHead ELSE observed,
             !.authorityStatus = IF ~proved THEN "mismatch"
                                 ELSE IF leased THEN "verified" ELSE "pending"]
    /\ Save
    /\ UNCHANGED <<planning, pendingTasks, publishing, edits, landed, head, campaigns>>

\* A lease check that fails demotes a verified target.  Hooks of other tools
\* meet it on its own; the planning and the result of a Task meet it on the way
\* to a refusal (PlanRejects, TaskFails).
LoseLease ==
    /\ safety.authorityMode = "target" /\ safety.authorityStatus = "verified"
    /\ safety' = [safety EXCEPT !.authorityStatus = "pending",
                                !.observedHead = NoHead, !.taskWorkspaceHead = NoHead]
    /\ Save

InvalidateLease ==
    /\ LoseLease
    /\ UNCHANGED <<planning, pendingTasks, publishing, edits, landed, head, campaigns>>

ReleaseTarget(reconciled) ==
    /\ safety.authorityMode = "target"
    /\ safety' = [safety EXCEPT
            !.authorityBinding = NoHead, !.authorityMode = "none",
            !.authorityStatus = "none", !.observedHead = NoHead,
            !.taskWorkspaceHead = IF reconciled THEN head ELSE @]
    /\ Save
    /\ UNCHANGED <<planning, pendingTasks, publishing, edits, landed, head, campaigns>>

(***************************************************************************)
(* Edits.  The before-hook counts the edit and saves; the write follows.   *)
(***************************************************************************)
Edit(touched, highRisk) ==
    /\ ~authorityPending(safety)
    /\ RecordEdit(safety, touched, highRisk)
    /\ UNCHANGED <<planning, pendingTasks, publishing, landed, head>>

\* A Git command that may move HEAD without changing content: the proof of
\* where the workspace stands is forgotten.  While an authority is pending, only
\* the set-up of its target is admitted.
HeadChangingCommand ==
    /\ authorityPending(safety) => safety.authorityMode = "target"
    /\ safety' = [safety EXCEPT !.taskWorkspaceHead = NoHead]
    /\ Save
    /\ UNCHANGED <<planning, pendingTasks, publishing, edits, landed, head, campaigns>>

EditLands ==
    /\ landed < edits
    /\ landed' = landed + 1
    /\ UNCHANGED <<safety, disk, planning, pendingTasks, publishing, edits, head, campaigns>>

(***************************************************************************)
(* Task calls.                                                             *)
(***************************************************************************)
AuthorityHead(s) ==
    IF s.taskWorkspaceHead # NoHead THEN s.taskWorkspaceHead ELSE s.authorityBinding

\* The synchronous checks of trustedActionsPlanEvidence.
ReceiptAdmissible(s, role) ==
    /\ role = "verify"
    /\ s.trustedActionsReceiptHead # NoHead
    /\ s.trustedActionsReceiptHead = AuthorityHead(s)
    /\ ~(s.campaignActive /\ s.editGeneration > 0)

TaskBegin(call, session, role, key, evidence) ==
    LET member == plannerPartitionMembership(safety, role, key) IN
    /\ call \notin BusyCalls
    /\ ~(role = "fresh-review" /\ safety.semanticReviewAuthority = "central-owned")
    /\ outstandingPlannerPartitionObligation(safety, role) # {} => member # {}
    /\ \A o \in member : key \notin o.completedKeys
    /\ evidence => ReceiptAdmissible(safety, role)
    /\ planning' = planning \cup
         {[call |-> call, session |-> session, role |-> role,
           member |-> {IdOf(o) : o \in member}, key |-> key, evidence |-> evidence,
           plannable |-> role = "explore" \/ AuthorityHead(safety) # NoHead]}
    /\ UNCHANGED <<safety, disk, pendingTasks, publishing, edits, landed, head, campaigns>>

\* A planner rejection, a failed packet check, or a lease lost while planning.
PlanRejects(p) ==
    /\ planning' = planning \ {p}
    /\ LoseLease \/ UNCHANGED <<safety, disk>>
    /\ UNCHANGED <<pendingTasks, publishing, edits, landed, head, campaigns>>

\* PARTITION_REQUIRED: the obligation is registered and saved, the call throws.
PlanPartitions(p, keys) ==
    LET id == plannerPartitionObligationId(safety, p.role, keys) IN
    /\ p.plannable
    /\ ~OverlapsOther(safety, id)
    /\ planning' = planning \ {p}
    /\ safety' = registerPlannerPartitionObligation(safety, id)
    /\ Save
    /\ UNCHANGED <<pendingTasks, publishing, edits, landed, head, campaigns>>

\* ELIDED by a trusted receipt: Verify counts as done, the call throws.
PlanElides(p) ==
    /\ p.evidence
    /\ planning' = planning \ {p}
    /\ safety' = [safety EXCEPT !.verifiedGeneration = safety.editGeneration]
    /\ Save
    /\ UNCHANGED <<pendingTasks, publishing, edits, landed, head, campaigns>>

\* The last checks after planning: under a target, a valid lease is required.
TaskLaunches(p) ==
    /\ safety.authorityMode = "target" => safety.authorityStatus = "verified"
    /\ planning' = planning \ {p}
    /\ pendingTasks' = pendingTasks \cup
         {[call |-> p.call, session |-> p.session, role |-> p.role,
           member |-> p.member, key |-> p.key,
           generation |-> safety.editGeneration, edits |-> edits,
           campaign |-> safety.campaignId, epoch |-> safety.authorityEpoch]}
    /\ UNCHANGED <<safety, disk, publishing, edits, landed, head, campaigns>>

\* An unhealthy, incomplete or lease-stale result, or a terminal task error.
TaskFails(t) ==
    /\ pendingTasks' = pendingTasks \ {t}
    /\ LoseLease \/ UNCHANGED <<safety, disk>>
    /\ UNCHANGED <<planning, publishing, edits, landed, head, campaigns>>

\* Mutant: the launch generation of the result is not compared.
TaskCompletesWhenever(t) ==
    /\ t.member = {}
    /\ pendingTasks' = pendingTasks \ {t}
    /\ safety' = Cover(safety, t)
    /\ Save
    /\ UNCHANGED <<planning, publishing, edits, landed, head, campaigns>>

\* A healthy complete result of a task outside any obligation.
TaskCompletes(t) ==
    /\ t.member = {}
    /\ pendingTasks' = pendingTasks \ {t}
    /\ IF t.generation = safety.editGeneration /\ t.role # "explore"
       THEN safety' = Cover(safety, t) /\ Save
       ELSE UNCHANGED <<safety, disk>>
    /\ UNCHANGED <<planning, publishing, edits, landed, head, campaigns>>

\* A healthy complete result of a canonical partition.  Only the completing
\* Explore partition is not followed by a save.
PartitionCompletes(t) ==
    /\ t.member # {}
    /\ pendingTasks' = pendingTasks \ {t}
    /\ \/ /\ LiveObligations(safety, t) = {}
          /\ UNCHANGED <<safety, disk>>
       \/ \E o \in LiveObligations(safety, t) :
            LET others == safety.obligations \ {o} IN
            IF Finishes(o, t)
            THEN /\ safety' = Cover([safety EXCEPT !.obligations = others], t)
                 /\ IF t.role = "explore" THEN UNCHANGED disk ELSE Save
            ELSE /\ safety' = [safety EXCEPT !.obligations =
                       others \cup {[o EXCEPT !.completedKeys = @ \cup {t.key}]}]
                 /\ Save
    /\ UNCHANGED <<planning, publishing, edits, landed, head, campaigns>>

(***************************************************************************)
(* Publication and campaign closure.                                       *)
(***************************************************************************)
\* mutates: the same shell command also changes workspace content.
PublishAdmissible(s, mutates) ==
    mutates \/ requiresIndependentGates(s) =>
        /\ s.semanticReviewAuthority # "central-owned" =>
              ~mutates /\ s.reviewedGeneration >= s.editGeneration
        /\ s.repositoryVerifyAuthority # "trusted-actions" =>
              s.verifiedGeneration >= s.editGeneration

PublishBegin(call, kind, mutates) ==
    LET forgotten == IF kind = "commit"
                     THEN [safety EXCEPT !.taskWorkspaceHead = NoHead] ELSE safety IN
    /\ call \notin BusyCalls
    /\ ~authorityPending(safety)
    /\ PublishAdmissible(safety, mutates)
    /\ IF mutates
       THEN RecordEdit(forgotten, {}, TRUE)
       ELSE /\ safety' = forgotten
            /\ IF kind = "commit" THEN Save ELSE UNCHANGED disk
            /\ UNCHANGED <<edits, campaigns>>
    /\ publishing' = publishing \cup
         {[call |-> call, kind |-> kind, ran |-> kind = "push", edits |-> edits']}
    /\ UNCHANGED <<planning, pendingTasks, landed, head>>

\* The Git command: a commit takes whatever has landed by then.
CommitRuns(p) ==
    /\ ~p.ran
    /\ head < landed
    /\ head' = landed
    /\ publishing' = (publishing \ {p}) \cup {[p EXCEPT !.ran = TRUE]}
    /\ UNCHANGED <<safety, disk, planning, pendingTasks, edits, landed, campaigns>>

\* Mutant: the publication flag is not saved.
PublishSucceedsUnsaved(p) ==
    /\ p.ran
    /\ publishing' = publishing \ {p}
    /\ safety' = [safety EXCEPT !.campaignPublished = safety.campaignActive]
    /\ UNCHANGED <<disk, planning, pendingTasks, edits, landed, head, campaigns>>

PublishSucceeds(p) ==
    /\ p.ran
    /\ publishing' = publishing \ {p}
    /\ IF safety.campaignActive
       THEN safety' = [safety EXCEPT !.campaignPublished = TRUE] /\ Save
       ELSE UNCHANGED <<safety, disk>>
    /\ UNCHANGED <<planning, pendingTasks, edits, landed, head, campaigns>>

PublishFails(p) ==
    /\ publishing' = publishing \ {p}
    /\ UNCHANGED <<safety, disk, planning, pendingTasks, edits, landed, head, campaigns>>

ClosesCampaign(s) ==
    /\ landed = head
    /\ s.campaignActive /\ s.campaignPublished
    /\ head # s.campaignBaseHead

\* The workspace identity helper: proves HEAD, and closes a published campaign.
WorkspaceIdentity ==
    /\ LET proved == [safety EXCEPT !.taskWorkspaceHead = head] IN
       safety' = IF ClosesCampaign(safety) THEN resetCampaign(proved, head) ELSE proved
    /\ Save
    /\ UNCHANGED <<planning, pendingTasks, publishing, edits, landed, head, campaigns>>

(***************************************************************************)
(* Restart: a new plugin process hydrates the last snapshot.  Hydration    *)
(* throws when a persisted obligation does not match the current           *)
(* generation and authority; load() then fails closed.                     *)
(***************************************************************************)
HydratesCleanly(d) ==
    \A o \in d.obligations : IdOf(o) = plannerPartitionObligationId(d, o.role, o.packetKeys)

\* hydrateSafetyState up to the obligations: a missing campaign base falls
\* back to the observed head.
HydratedFields(d) ==
    [d EXCEPT !.campaignBaseHead = IF @ = NoHead THEN d.observedHead ELSE @]

\* Mutant: unreadable state is replaced by a fresh one.
StartFresh(d) == emptySafetyState

FailClosed(d) ==
    LET demoted == d.authorityMode = "target" /\ d.authorityStatus = "verified" IN
    [HydratedFields(d) EXCEPT
              !.obligations = {},
              !.authorityStatus = IF demoted THEN "pending" ELSE @,
              !.observedHead = IF demoted THEN NoHead ELSE @,
              !.taskWorkspaceHead = IF demoted THEN NoHead ELSE @,
              !.highRiskEdit = TRUE,
              !.editGeneration = IF @ = 0 THEN 1 ELSE @,
              !.reviewedGeneration = 0, !.verifiedGeneration = 0,
              !.campaignId = IF @ = NoCampaign THEN campaigns + 1 ELSE @,
              !.campaignActive = TRUE, !.campaignPublished = FALSE]

Restart ==
    /\ planning' = {} /\ pendingTasks' = {} /\ publishing' = {}
    /\ IF HydratesCleanly(disk)
       THEN safety' = HydratedFields(disk) /\ UNCHANGED campaigns
       ELSE /\ safety' = FailClosed(disk)
            /\ disk.campaignId = NoCampaign => campaigns < MaxCampaigns
            /\ campaigns' = IF disk.campaignId = NoCampaign THEN campaigns + 1 ELSE campaigns
    /\ UNCHANGED <<disk, edits, landed, head>>

-----------------------------------------------------------------------------
Next ==
    \/ \E session \in Sessions, sha \in DeclaredHeads, mode \in Modes,
          residue \in BOOLEAN, others \in BOOLEAN :
          DeclareAuthority(session, sha, mode, residue, others)
    \/ \E session \in Sessions, issued \in BOOLEAN : RebindTarget(session, issued)
    \/ \E review \in ReviewAuthorities, verify \in VerifyAuthorities,
          receipt \in DeclaredHeads \cup {safety.trustedActionsReceiptHead} :
          DeclareGateAuthority(review, verify, receipt)
    \/ \E observed \in DeclaredHeads \cup {head} : CorroborateHead(observed)
    \/ \E observed \in DeclaredHeads \cup {head}, issued \in BOOLEAN :
          ProveHead(observed, issued)
    \/ InvalidateLease
    \/ \E reconciled \in BOOLEAN : ReleaseTarget(reconciled)
    \/ \E touched \in {{}} \cup {{path} : path \in Paths}, highRisk \in BOOLEAN :
          Edit(touched, highRisk)
    \/ HeadChangingCommand
    \/ EditLands
    \/ \E call \in Calls, session \in Sessions, role \in Roles, key \in Packets,
          evidence \in BOOLEAN : TaskBegin(call, session, role, key, evidence)
    \/ \E p \in planning : PlanRejects(p)
    \/ \E p \in planning, keys \in Plans : PlanPartitions(p, keys)
    \/ \E p \in planning : PlanElides(p)
    \/ \E p \in planning : TaskLaunches(p)
    \/ \E t \in pendingTasks : TaskFails(t)
    \/ \E t \in pendingTasks : TaskCompletes(t)
    \/ \E t \in pendingTasks : PartitionCompletes(t)
    \/ \E call \in Calls, kind \in PublishKinds, mutates \in BOOLEAN :
          PublishBegin(call, kind, mutates)
    \/ \E p \in publishing : CommitRuns(p)
    \/ \E p \in publishing : PublishSucceeds(p)
    \/ \E p \in publishing : PublishFails(p)
    \/ WorkspaceIdentity
    \/ Restart

Spec == Init /\ [][Next]_vars
-----------------------------------------------------------------------------
(***************************************************************************)
(* Properties.                                                             *)
(***************************************************************************)
TypeOK ==
    /\ safety \in Safety
    /\ disk \in Safety
    /\ planning \subseteq Planning
    /\ pendingTasks \subseteq Task
    /\ publishing \subseteq Publish
    /\ edits \in Nat /\ landed \in Nat /\ head \in Nat /\ campaigns \in Nat

\* Review and Verify coverage never exceeds the edits it covers, and edits are
\* counted exactly while a campaign is active, whatever late results, epoch
\* changes, closures and reloads come in between.
CoverageBehindEdits ==
    \A s \in {safety, disk} :
        /\ s.reviewedGeneration <= s.editGeneration
        /\ s.verifiedGeneration <= s.editGeneration
        /\ s.campaignActive <=> s.editGeneration > 0
        /\ s.campaignActive <=> s.campaignId # NoCampaign

\* A delegation that can still report back belongs to the authority epoch now
\* in force: opening an epoch drops the delegations of every session, although
\* the declaring session is cleared only when it looks as if it needs it.
InFlightEpochCurrent ==
    \A t \in pendingTasks : t.epoch = safety.authorityEpoch

\* Generations identify content within a campaign: a running delegation whose
\* launch generation and campaign are the current ones was launched after the
\* last edit the guard admitted.
SameCampaignFresh ==
    \A t \in pendingTasks :
        /\ safety.campaignActive
        /\ t.campaign = safety.campaignId
        /\ t.generation = safety.editGeneration
        => t.edits = edits

\* The result of task t moves a publication generation in this step.
AdvancesCoverage(t) ==
    /\ t \in pendingTasks /\ t \notin pendingTasks'
    /\ \/ safety'.reviewedGeneration > safety.reviewedGeneration
       \/ safety'.verifiedGeneration > safety.verifiedGeneration

\* A late result never counts for newer content: when a delegation launched in
\* the active campaign advances review or Verify coverage, no edit was admitted
\* between its launch and its result.
FreshAdvance ==
    \A t \in pendingTasks :
        AdvancesCoverage(t) /\ safety.campaignActive /\ t.campaign = safety.campaignId
        => t.edits = edits

CoverageIsFreshInCampaign == [][FreshAdvance]_vars

\* In memory and in the file, two obligations never share a packet, nothing but
\* their own packets is counted as completed, and each has a packet left to do
\* (registerPlannerPartitionObligation, recordPlannerPartitionCompletion).  Which
\* generation they belong to is another matter: closing a campaign resets the
\* generations and leaves them (core 3183).
ObligationsWellFormed ==
    \A s \in {safety, disk} : \A o \in s.obligations :
        /\ o.completedKeys \subseteq o.packetKeys /\ o.completedKeys # o.packetKeys
        /\ \A other \in s.obligations :
              o.role = other.role /\ o.packetKeys \cap other.packetKeys # {} => o = other

\* A result of a canonical partition moves a publication generation only when
\* it is the last partition missing from its obligation.
AggregateBeforeCoverage ==
    [][\A t \in pendingTasks :
        AdvancesCoverage(t) /\ t.member # {}
        => \E o \in safety.obligations :
              /\ IdOf(o) \in t.member
              /\ o.packetKeys \ o.completedKeys \subseteq {t.key}]_vars

\* A new authority epoch starts with no coverage and no delegation in flight.
\* Obligations are another matter: a first declaration keeps them (core 1346).
UncoveredEpoch ==
    safety'.authorityEpoch # safety.authorityEpoch
        => /\ safety'.reviewedGeneration = 0 /\ safety'.verifiedGeneration = 0
           /\ pendingTasks' = {}

EpochStartsUncovered == [][UncoveredEpoch]_vars

\* A plugin restart never opens a publication gate that was closed.
ClosedGateReload ==
    Restart /\ ~PublishAdmissible(safety, FALSE) => ~PublishAdmissible(safety', FALSE)

RestartKeepsGateClosed == [][ClosedGateReload]_vars

\* Whatever the publication gate reads is on disk before the hook that changed
\* it returns, unless the file is one that a reload refuses, because an obligation
\* in it does not match the authority and generation beside it: after such a
\* reload memory is stricter than the file until the next save.
GateFields(s) ==
    <<s.editGeneration, s.reviewedGeneration, s.verifiedGeneration, s.campaignActive,
      s.campaignPublished, s.highRiskEdit, s.editedPaths, s.authorityBinding,
      s.authorityStatus, s.authorityEpoch, s.semanticReviewAuthority,
      s.repositoryVerifyAuthority>>

GateFieldsDurable ==
    GateFields(safety) = GateFields(disk) \/ ~HydratesCleanly(disk)

-----------------------------------------------------------------------------
(***************************************************************************)
(* A statement of the code's own message that the interleavings refute.    *)
(***************************************************************************)
\* "require a CLEAN fresh-review after the latest content edit": coverage is
\* advanced only by work launched after the last admitted edit, in whichever
\* campaign the work was launched.
CoverageIsFresh ==
    [][\A t \in pendingTasks : AdvancesCoverage(t) => t.edits = edits]_vars
=============================================================================
