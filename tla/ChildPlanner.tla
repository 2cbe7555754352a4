----------------------------- MODULE ChildPlanner -----------------------------
(***************************************************************************)
(* The deterministic planner of child work and the Task calls it answers:  *)
(* planChildWork in lib/hybrid-workflow.mjs, deterministicTaskPlan and the *)
(* partition obligations in lib/operation-guard-core.mjs.                  *)
(*                                                                         *)
(* A Task call reads its targets one by one, each after an await, and is   *)
(* then answered in one synchronous stretch: planned, partitioned into     *)
(* canonical packets, refused, or elided.  A canonical packet comes back   *)
(* as a Task call of its own, is planned again, and starts a child; the    *)
(* gate of its role advances with the last child of the obligation.        *)
(* Several Task calls may be under way at once: what a call found when it  *)
(* began may have changed when it is answered.                             *)
(*                                                                         *)
(* Paths are numbers, compared as the code compares the strings.  Prompt   *)
(* lengths are counted in target lines.  The injected child contract is    *)
(* appended only where it fits, so it is not counted.                      *)
(***************************************************************************)
EXTENDS Integers, FiniteSets, SequencesExt

CONSTANTS
    Calls,         \* ids of the Task calls under way at once
    Paths,         \* target paths, as numbers in their string order
    Documents,     \* the paths of kind test-doc
    Sizes,         \* [file, patch, hunks] a write can give a target
    Disks,         \* sizes of all targets at the start
    Workloads,     \* sets of packets: what the primary agent submits is of one
    Reports,       \* terminal texts a child can end with
    TargetLimit,   \* policy.taskExplicitTargets
    PromptLimit,   \* policy.taskPromptChars
    MaxMoves       \* bound: edits, other writes and declarations together

Roles == {"explore", "verify", "fresh-review"}
GatedRoles == {"verify", "fresh-review"}

\* A failed git diff counts as the largest patch there is.
FailedPatch == -1
LargestPatch == 16 * 1024 * 1024

Measures == [file : Nat, patch : Nat \cup {FailedPatch}, hunks : Nat]

\* "fixed" and "context" are the lines of the rendered packet and what the
\* original packet has beyond them, without the targets.
PacketRecords ==
    [role : Roles, targets : Seq(Paths), questions : Nat, fixed : Int, context : Int,
     lossless : BOOLEAN, finite : BOOLEAN, discovery : BOOLEAN, receipt : BOOLEAN]

ASSUME PlannerAssumption ==
    /\ Paths \subseteq Int /\ IsFiniteSet(Paths)
    /\ Sizes \subseteq Measures
    /\ Disks \subseteq [Paths -> Measures]
    /\ Workloads \subseteq SUBSET PacketRecords
    /\ TargetLimit \in [Roles -> Nat \ {0}]
    /\ PromptLimit \in [Roles -> Int]

VARIABLES
    work,          \* the packets the primary agent submits
    bound,         \* an exact head is declared or proven
    disk,          \* path |-> its size and its patch against the planning base
    edited,        \* editedPaths
    central,       \* semantic review is central-owned
    generation,    \* editGeneration
    covered,       \* verifiedGeneration and reviewedGeneration
    obligations,   \* the partition obligations of this generation
    calls,         \* the Task calls: being planned, or their child running
    reviewed,      \* history: targets of the completed packets of a role
    overtaken,     \* history: roles of which a call registered an obligation
                   \* when another was outstanding that it did not belong to
    moves          \* number of moves so far

vars == <<work, bound, disk, edited, central, generation, covered, obligations, calls,
          reviewed, overtaken, moves>>

\* What no step of a Task call changes.
around == <<work, bound, disk, edited, central, generation, moves>>

Idle == [phase |-> "idle"]

-----------------------------------------------------------------------------
(***************************************************************************)
(* Targets and their cost.                                                 *)
(***************************************************************************)
Ceil(a, b) == (a + b - 1) \div b

LesserOf(a, b) == IF a < b THEN a ELSE b
GreaterOf(a, b) == IF a < b THEN b ELSE a

\* An empty patch (no difference, or no base is known) is replaced by a
\* conservative one where the path was edited; the unbound planner sees none.
targetDiffMetrics(path) ==
    LET size == disk[path] IN
    CASE ~bound -> [diff |-> 0, hunks |-> 0]
      [] bound /\ size.patch = FailedPatch ->
            [diff |-> GreaterOf(size.file, LargestPatch), hunks |-> 1024]
      [] bound /\ size.patch = 0 /\ path \in edited ->
            [diff |-> size.file, hunks |-> IF size.file > 0 THEN 1 ELSE 0]
      [] OTHER -> [diff |-> size.patch, hunks |-> size.hunks]

Measured(path) ==
    [path |-> path, file |-> disk[path].file, metrics |-> targetDiffMetrics(path)]

EffectiveBytes(t) ==
    IF t.metrics.diff > 0
    THEN LesserOf(IF t.file = 0 THEN t.metrics.diff ELSE t.file, 4 * t.metrics.diff)
    ELSE LesserOf(t.file, 120000)

targetCost(t) ==
    1 + Ceil(EffectiveBytes(t), 60000) + Ceil(t.metrics.diff, 12000)
      + Ceil(t.metrics.hunks, 8) + (IF t.path \in Documents THEN 0 ELSE 1)

roleComplexityLimit(role) ==
    CASE role = "fresh-review" -> 12 [] role = "explore" -> 14 [] OTHER -> 18

\* Production before tests and documents, then by path.
Before(a, b) ==
    IF (a.path \in Documents) = (b.path \in Documents)
    THEN a.path < b.path
    ELSE b.path \in Documents

InStableOrder(targets) ==
    \A i, j \in DOMAIN targets : i < j => Before(targets[i], targets[j])

\* The paths of a plan differ, so that there is one such order.
stableTargetOrder(targets) ==
    CHOOSE order \in [DOMAIN targets -> ToSet(targets)] :
        ToSet(order) = ToSet(targets) /\ InStableOrder(order)

PathsOf(targets) == [i \in DOMAIN targets |-> targets[i].path]

(***************************************************************************)
(* Partitions.                                                             *)
(***************************************************************************)
\* Mutant: the complexity of the open group counts, that of the target does not.
PlaceUncosted(acc, t, role) ==
    IF /\ acc.current # <<>>
       /\ \/ Len(acc.current) >= TargetLimit[role]
          \/ acc.cost > roleComplexityLimit(role)
    THEN [groups |-> Append(acc.groups, acc.current), current |-> <<t>>,
          cost |-> targetCost(t)]
    ELSE [acc EXCEPT !.current = Append(@, t), !.cost = @ + targetCost(t)]

\* Mutant: the cost is carried over into the next group.
PlaceCarrying(acc, t, role) ==
    IF /\ acc.current # <<>>
       /\ \/ Len(acc.current) >= TargetLimit[role]
          \/ acc.cost + targetCost(t) > roleComplexityLimit(role)
    THEN [groups |-> Append(acc.groups, acc.current), current |-> <<t>>,
          cost |-> acc.cost]
    ELSE [acc EXCEPT !.current = Append(@, t), !.cost = @ + targetCost(t)]

\* The next target opens a new group when the open one is full for it.
Place(acc, t, role) ==
    IF /\ acc.current # <<>>
       /\ \/ Len(acc.current) >= TargetLimit[role]
          \/ acc.cost + targetCost(t) > roleComplexityLimit(role)
    THEN [groups |-> Append(acc.groups, acc.current), current |-> <<t>>,
          cost |-> targetCost(t)]
    ELSE [acc EXCEPT !.current = Append(@, t), !.cost = @ + targetCost(t)]

makeTargetPartitions(targets, role) ==
    LET order == stableTargetOrder(targets)
        after[i \in 0..Len(order)] ==
            IF i = 0 THEN [groups |-> <<>>, current |-> <<>>, cost |-> 0]
            ELSE Place(after[i - 1], order[i], role)
        done == after[Len(order)]
    IN  Append(done.groups, done.current)

\* The groups that do not fit a prompt with room for so many targets.
Long(groups, room) == {i \in DOMAIN groups : Len(groups[i]) > room /\ Len(groups[i]) > 1}

First(places) == CHOOSE i \in places : \A j \in places : i <= j

\* Mutant: the target in the middle of a group is left out of both halves.
SplitLosing(groups, room) ==
    IF Long(groups, room) = {} THEN groups
    ELSE LET i == First(Long(groups, room))
             middle == Ceil(Len(groups[i]), 2)
         IN  SubSeq(groups, 1, i - 1)
             \o <<SubSeq(groups[i], 1, middle - 1),
                  SubSeq(groups[i], middle + 1, Len(groups[i]))>>
             \o SubSeq(groups, i + 1, Len(groups))

\* The first group that does not fit is replaced by its halves, in its place.
SplitFirst(groups, room) ==
    IF Long(groups, room) = {} THEN groups
    ELSE LET i == First(Long(groups, room))
             middle == Ceil(Len(groups[i]), 2)
         IN  SubSeq(groups, 1, i - 1)
             \o <<SubSeq(groups[i], 1, middle),
                  SubSeq(groups[i], middle + 1, Len(groups[i]))>>
             \o SubSeq(groups, i + 1, Len(groups))

\* The queue of the code until it is empty: n targets are split less than n times.
fitPromptPartitions(groups, room, n) ==
    LET queue[i \in 0..n] == IF i = 0 THEN groups ELSE SplitFirst(queue[i - 1], room)
    IN  queue[n]

Fits(groups, room) == \A i \in DOMAIN groups : Len(groups[i]) <= room

RenderedRoom(k) == PromptLimit[k.role] - k.fixed
OriginalRoom(k) == PromptLimit[k.role] - k.fixed - k.context

Unrepresentable == [status |-> "UNREPRESENTABLE", groups |-> <<>>]

Partitioned(groups) ==
    [status |-> IF Len(groups) <= 1 THEN "READY" ELSE "PARTITION_REQUIRED",
     groups |-> [i \in DOMAIN groups |-> PathsOf(groups[i])]]

\* The planner's answer to packet k, whose targets were measured.
planChildWork(k, targets, evidence) ==
    IF k.role = "fresh-review" /\ central
    THEN [status |-> "ELIDED", reason |-> "central-owned-semantic-review"]
    ELSE IF evidence
    THEN [status |-> "ELIDED", reason |-> "trusted-actions-receipt-reused"]
    ELSE LET fitted == fitPromptPartitions(makeTargetPartitions(targets, k.role),
                                           RenderedRoom(k), Len(targets))
         IN  IF \/ k.questions > 3
                \/ \E i \in DOMAIN targets :
                      targetCost(targets[i]) > roleComplexityLimit(k.role)
                \/ ~Fits(fitted, RenderedRoom(k))
             THEN Unrepresentable
             ELSE Partitioned(fitted)

\* The plan with the primary's own packet in place of the rendered one.  Only
\* the unbound planner splits again for the length of that packet.
preservePlannerPartitionContext(k, plan) ==
    LET split == fitPromptPartitions(plan.groups, OriginalRoom(k),
                                     Len(k.targets)) IN
    IF plan.status \notin {"READY", "PARTITION_REQUIRED"} \/ k.targets = <<>>
    THEN plan
    ELSE IF bound
    THEN IF plan.status = "READY" \/ k.lossless THEN plan ELSE Unrepresentable
    ELSE IF ~k.lossless \/ ~Fits(split, OriginalRoom(k)) THEN Unrepresentable
    ELSE [status |-> IF Len(split) <= 1 THEN "READY" ELSE "PARTITION_REQUIRED",
          groups |-> split]

deterministicTaskPlan(k, targets, evidence) ==
    IF ~bound /\ ~k.finite THEN Unrepresentable
    ELSE preservePlannerPartitionContext(k, planChildWork(k, targets, evidence))

\* Mutant: the target lines of the packet are not recognised when it returns.
PacketUnrecognised(k, group) == [k EXCEPT !.targets = group, !.lossless = FALSE]

\* The packet of one group: the original with its target lines replaced.
partitionPacketFromOriginalPrompt(k, group) == [k EXCEPT !.targets = group]

-----------------------------------------------------------------------------
(***************************************************************************)
(* Obligations: the two maps of the code are one set here, since a packet  *)
(* key belongs to the obligation that contains it.  "targets" is history:  *)
(* what the partitioned call had measured.                                 *)
(***************************************************************************)
IdOf(o) == [role |-> o.role, generation |-> o.generation, packets |-> o.packets]

Membership(k) == {o \in obligations : k \in o.packets}

Outstanding(role) == {o \in obligations : o.role = role}

RequestedPaths(o) == ToSet(PathsOf(o.targets))

-----------------------------------------------------------------------------
Init ==
    /\ work \in Workloads
    /\ bound \in BOOLEAN
    /\ disk \in Disks
    /\ edited \in {{}, Paths}
    /\ generation = Cardinality(edited)
    /\ central = FALSE
    /\ covered = [role \in GatedRoles |-> 0]
    /\ obligations = {}
    /\ calls = [c \in Calls |-> Idle]
    /\ reviewed = [role \in GatedRoles |-> {}]
    /\ overtaken = {}
    /\ moves = 0

(***************************************************************************)
(* What happens around the calls.                                          *)
(***************************************************************************)
Move == moves < MaxMoves /\ moves' = moves + 1

\* An implementation edit starts a generation and ends every obligation.
Edit(path, size) ==
    /\ Move
    /\ disk' = [disk EXCEPT ![path] = size]
    /\ edited' = edited \cup {path}
    /\ generation' = generation + 1
    /\ obligations' = {}
    /\ reviewed' = [role \in GatedRoles |-> {}]
    /\ overtaken' = {}
    /\ UNCHANGED <<work, bound, central, covered, calls>>

\* A write that is no edit of this workspace's tools, or a planning base
\* declared anew: sizes and patches change, the generation does not.
Remeasure(path, size) ==
    /\ Move
    /\ disk' = [disk EXCEPT ![path] = size]
    /\ UNCHANGED <<work, bound, edited, central, generation, covered, obligations, calls,
                   reviewed, overtaken>>

DeclareReviewAuthority ==
    /\ Move
    /\ central' = ~central
    /\ UNCHANGED <<work, bound, disk, edited, generation, covered, obligations, calls,
                   reviewed, overtaken>>

(***************************************************************************)
(* The Task call.                                                          *)
(***************************************************************************)
\* Without an exact head only Explore work with explicit targets is planned.
Plannable(k) == bound \/ (k.role = "explore" /\ k.targets # <<>>)

\* The one obligation check of a call, before its awaits (4654).
Admits(k) ==
    k.role \in GatedRoles /\ Outstanding(k.role) # {} => Membership(k) # {}

Becomes(c, call) == calls' = [calls EXCEPT ![c] = call]

TaskBegin(c, k) ==
    /\ calls[c] = Idle
    /\ ~(k.role = "fresh-review" /\ central)
    /\ Admits(k)
    /\ \A o \in Membership(k) : k \notin o.completed
    /\ Plannable(k) /\ k.receipt => generation = 0
    /\ Becomes(c, [phase |-> IF Plannable(k) THEN "measuring" ELSE "planned",
              packet |-> k, member |-> {IdOf(o) : o \in Membership(k)}, targets |-> <<>>])
    /\ UNCHANGED <<around, covered, obligations, reviewed, overtaken>>

\* The next target: its size, and its patch from a Git diff.
MeasureTarget(c) ==
    LET call == calls[c] IN
    /\ call.phase = "measuring"
    /\ Len(call.targets) < Len(call.packet.targets)
    /\ Becomes(c, [call EXCEPT !.targets =
                 Append(@, Measured(call.packet.targets[Len(@) + 1]))])
    /\ UNCHANGED <<around, covered, obligations, reviewed, overtaken>>

AllMeasured(call) ==
    /\ call.phase = "measuring"
    /\ Len(call.targets) = Len(call.packet.targets)
    /\ IsInjective(call.packet.targets)

\* The declared receipt answers repository-final Verify of an exact head.
EvidenceAnswers(k) == bound /\ k.role = "verify" /\ k.receipt

Answer(call) == deterministicTaskPlan(call.packet, call.targets, EvidenceAnswers(call.packet))

CanonicalPackets(k, groups) ==
    {partitionPacketFromOriginalPrompt(k, groups[i]) : i \in DOMAIN groups}

\* What a call that is answered PARTITION_REQUIRED registers.
ObligationOf(call) ==
    [role |-> call.packet.role, generation |-> generation,
     packets |-> CanonicalPackets(call.packet, Answer(call).groups), completed |-> {},
     targets |-> call.targets]

\* A canonical packet may belong to one obligation only.
OverlapsOther(n) ==
    \E o \in obligations : o.packets \cap n.packets # {} /\ IdOf(o) # IdOf(n)

IsRegistered(n) == \E o \in obligations : IdOf(o) = IdOf(n)

\* History: the check the call has passed would refuse it by now.
CountOvertaken(k) ==
    overtaken' = overtaken \cup (IF Admits(k) THEN {} ELSE {k.role})

\* PARTITION_REQUIRED: the obligation is registered and the call is refused
\* with its packets.  Nothing looks again at what the role has outstanding.
Partition(c) ==
    LET call == calls[c]
        n == ObligationOf(call) IN
    /\ AllMeasured(call) /\ Answer(call).status = "PARTITION_REQUIRED"
    /\ ~OverlapsOther(n)
    /\ IF IsRegistered(n) THEN UNCHANGED <<obligations, overtaken>>
       ELSE obligations' = obligations \cup {n} /\ CountOvertaken(call.packet)
    /\ Becomes(c, Idle)
    /\ UNCHANGED <<around, covered, reviewed>>

\* A trusted receipt satisfies repository-final Verify and no child starts.
ElideByReceipt(c) ==
    /\ AllMeasured(calls[c]) /\ Answer(calls[c]).status = "ELIDED"
    /\ Answer(calls[c]).reason = "trusted-actions-receipt-reused"
    /\ covered' = [covered EXCEPT !["verify"] = generation]
    /\ Becomes(c, Idle)
    /\ UNCHANGED <<around, obligations, reviewed, overtaken>>

\* READY.  An elision by central ownership is not refused here either.
Plan(c) ==
    LET call == calls[c] IN
    /\ AllMeasured(call)
    /\ \/ Answer(call).status = "READY"
       \/ /\ Answer(call).status = "ELIDED"
          /\ Answer(call).reason = "central-owned-semantic-review"
    /\ Becomes(c, [call EXCEPT !.phase = "planned"])
    /\ UNCHANGED <<around, covered, obligations, reviewed, overtaken>>

\* Duplicate targets, UNREPRESENTABLE, or packets of another obligation.
RefusePlan(c) ==
    LET call == calls[c] IN
    /\ \/ /\ call.phase = "measuring" /\ Len(call.targets) = Len(call.packet.targets)
          /\ ~IsInjective(call.packet.targets)
       \/ AllMeasured(call) /\ Answer(call).status = "UNREPRESENTABLE"
       \/ /\ AllMeasured(call) /\ Answer(call).status = "PARTITION_REQUIRED"
          /\ OverlapsOther(ObligationOf(call))
    /\ Becomes(c, Idle)
    /\ UNCHANGED <<around, covered, obligations, reviewed, overtaken>>

ExactLookupTargets == 4

\* The limits on the packet itself; a short Explore lookup is left to the
\* primary agent unless it is a canonical packet, carries a discovery signal or
\* has exhausted its reopenings ("discovery").
validateTaskPacket(k, canonical) ==
    /\ k.questions <= 3
    /\ k.fixed + k.context + Len(k.targets) <= PromptLimit[k.role]
    /\ Len(k.targets) <= TargetLimit[k.role]
    /\ k.role = "explore" /\ Len(k.targets) \in 1..ExactLookupTargets
          => k.discovery \/ canonical

Launch(c) ==
    LET call == calls[c] IN
    /\ call.phase = "planned"
    /\ validateTaskPacket(call.packet, call.member # {})
    /\ Becomes(c, [phase |-> "running", packet |-> call.packet, member |-> call.member,
              generation |-> generation])
    /\ UNCHANGED <<around, covered, obligations, reviewed, overtaken>>

\* The packet breaks a limit, or a later check of the hook refuses it.
RefuseLaunch(c) ==
    /\ calls[c].phase = "planned"
    /\ Becomes(c, Idle)
    /\ UNCHANGED <<around, covered, obligations, reviewed, overtaken>>

(***************************************************************************)
(* The child's result.                                                     *)
(***************************************************************************)
\* One well-formed terminal with the role's success and matching counts.
parseChildTerminal(r) ==
    r.formed /\ r.success /\ r.required >= 1 /\ r.inspected = r.required

\* A canonical Explore packet must also report the number of its targets.
Complete(child, r) ==
    /\ child.phase = "running" /\ r.healthy /\ parseChildTerminal(r)
    /\ child.packet.role = "explore" /\ child.member # {}
          => r.required = Len(child.packet.targets)

Advance(role, at) ==
    covered' = IF role \in GatedRoles THEN [covered EXCEPT ![role] = at] ELSE covered

CountReviewed(child) ==
    reviewed' = [role \in GatedRoles |-> reviewed[role] \cup
                   IF role = child.packet.role THEN ToSet(child.packet.targets) ELSE {}]

ReportStale(c, r) ==
    LET child == calls[c] IN
    /\ child.phase = "running"
    /\ \/ ~Complete(child, r)
       \/ child.generation # generation
       \/ child.member # {} /\ \A o \in obligations : IdOf(o) \notin child.member
    /\ Becomes(c, Idle)
    /\ UNCHANGED <<around, covered, obligations, reviewed, overtaken>>

\* Work that was not partitioned completes its gate by itself.
ReportWhole(c, r) ==
    LET child == calls[c] IN
    /\ Complete(child, r) /\ child.member = {} /\ child.generation = generation
    /\ Becomes(c, Idle)
    /\ Advance(child.packet.role, child.generation)
    /\ CountReviewed(child)
    /\ UNCHANGED <<around, obligations, overtaken>>

\* Mutant: the first packet to complete completes the aggregate.
ReportFirst(c, o, r) ==
    LET child == calls[c] IN
    /\ Complete(child, r) /\ IdOf(o) \in child.member /\ child.generation = generation
    /\ Becomes(c, Idle)
    /\ obligations' = obligations \ {o} /\ Advance(o.role, child.generation)
    /\ CountReviewed(child)
    /\ UNCHANGED <<around, overtaken>>

ReportPartition(c, o, r) ==
    LET child == calls[c]
        completed == o.completed \cup {child.packet} IN
    /\ Complete(child, r) /\ IdOf(o) \in child.member /\ child.generation = generation
    /\ Becomes(c, Idle)
    /\ IF completed = o.packets
       THEN obligations' = obligations \ {o} /\ Advance(o.role, child.generation)
       ELSE /\ obligations' = (obligations \ {o}) \cup
                                 {[o EXCEPT !.completed = completed]}
            /\ UNCHANGED covered
    /\ CountReviewed(child)
    /\ UNCHANGED <<around, overtaken>>

-----------------------------------------------------------------------------
Next ==
    \/ \E path \in Paths, size \in Sizes : Edit(path, size)
    \/ \E path \in Paths, size \in Sizes : Remeasure(path, size)
    \/ DeclareReviewAuthority
    \/ \E c \in Calls : \E k \in work \cup UNION {o.packets : o \in obligations} :
          TaskBegin(c, k)
    \/ \E c \in Calls : MeasureTarget(c)
    \/ \E c \in Calls : Partition(c)
    \/ \E c \in Calls : ElideByReceipt(c)
    \/ \E c \in Calls : Plan(c)
    \/ \E c \in Calls : RefusePlan(c)
    \/ \E c \in Calls : Launch(c)
    \/ \E c \in Calls : RefuseLaunch(c)
    \/ \E c \in Calls, r \in Reports : ReportStale(c, r)
    \/ \E c \in Calls, r \in Reports : ReportWhole(c, r)
    \/ \E c \in Calls, o \in obligations, r \in Reports : ReportPartition(c, o, r)

Spec == Init /\ [][Next]_vars

-----------------------------------------------------------------------------
(***************************************************************************)
(* Properties.                                                             *)
(***************************************************************************)
\* The obligations a step registers, and the call whose step it is.
Registered == {o \in obligations' \ obligations : o.completed = {}}
Stepping == {c \in Calls : calls'[c] # calls[c]}

AsTargets(paths) == [i \in DOMAIN paths |-> [path |-> paths[i]]]

\* Every path of the one packet comes before every path of the other.
Precedes(p, q) ==
    \A a \in ToSet(AsTargets(p.targets)), b \in ToSet(AsTargets(q.targets)) : Before(a, b)

\* The packets of an obligation are the request, cut up: together they name the
\* targets of the call, no target twice, each in the stable order, one packet
\* before the other in that order; and each carries the questions and the
\* context of the call (planChildWork, preservePlannerPartitionContext).
PacketsAreTheRequest ==
    [][\A o \in Registered : \E c \in Stepping :
          /\ UNION {ToSet(p.targets) : p \in o.packets} = ToSet(calls[c].packet.targets)
          /\ \A p \in o.packets :
                /\ p = [calls[c].packet EXCEPT !.targets = p.targets]
                /\ p.targets # <<>> /\ InStableOrder(AsTargets(p.targets))
          /\ \A p, q \in o.packets : p = q \/ Precedes(p, q) \/ Precedes(q, p)]_vars

\* The targets of an obligation as they were measured, for some of its paths.
AsMeasured(o, paths) ==
    [i \in DOMAIN paths |-> CHOOSE t \in ToSet(o.targets) : t.path = paths[i]]

CostOf(targets) ==
    LET sum[i \in 0..Len(targets)] ==
            IF i = 0 THEN 0 ELSE sum[i - 1] + targetCost(targets[i])
    IN  sum[Len(targets)]

Affordable(o, paths) ==
    /\ Len(paths) <= TargetLimit[o.role]
    /\ CostOf(AsMeasured(o, paths)) <= roleComplexityLimit(o.role)

\* Every canonical packet is within the limits of its role as it was measured,
\* and on the unbound path its prompt fits, so that it can be launched
\* (makeTargetPartitions, preservePlannerPartitionContext).
PacketsAreWithinLimits ==
    [][\A o \in Registered : \A k \in o.packets :
          /\ Affordable(o, k.targets)
          /\ bound \/ validateTaskPacket(k, TRUE)]_vars

\* The consecutive pieces a sequence falls into when it is cut after the
\* positions in "cut".
Pieces(paths, cut) ==
    LET gaps == {gap \in (cut \cup {0}) \X (cut \cup {Len(paths)}) :
                    /\ gap[1] < gap[2]
                    /\ \A c \in cut : c <= gap[1] \/ gap[2] <= c}
    IN  {SubSeq(paths, gap[1] + 1, gap[2]) : gap \in gaps}

\* Where no prompt has to be split for its length, no cut of the ordered
\* request into affordable pieces has fewer of them: broad work costs the
\* primary agent as few children as the limits allow (makeTargetPartitions).
AsFewPacketsAsPossible ==
    [][\A o \in Registered : \E c \in Stepping :
          LET paths == PathsOf(stableTargetOrder(o.targets))
              k == calls[c].packet IN
          Len(paths) <= RenderedRoom(k) /\ Len(paths) <= OriginalRoom(k) =>
              \A cut \in SUBSET (1..(Len(paths) - 1)) :
                  (\A piece \in Pieces(paths, cut) : Affordable(o, piece))
                      => Cardinality(o.packets) <= 1 + Cardinality(cut)]_vars

\* A canonical packet that comes back is planned, not partitioned or refused,
\* as long as its targets measure what they measured when it was made: the
\* planner's own packets are fixed points of the planner (deterministicTaskPlan).
CanonicalPacketsPlan ==
    [][\A o \in obligations, c \in Stepping :
          /\ AllMeasured(calls[c])
          /\ IdOf(o) \in calls[c].member
          /\ ToSet(calls[c].targets) \subseteq ToSet(o.targets)
          => calls'[c].phase = "planned"]_vars

\* A step finishes an obligation of a gated role when its last packet completes.
Finished(o) ==
    /\ o.role \in GatedRoles /\ generation' = generation
    /\ \A n \in obligations' : IdOf(n) # IdOf(o)

\* The obligation of a packet that had grown and was itself partitioned.
Nested(o) == \E r \in Outstanding(o.role) \ {o} : RequestedPaths(o) \subseteq RequestedPaths(r)

\* When the last packet of an obligation completes, which advances the gate of
\* its role, every target of its request is in a completed packet of this
\* generation.  So is every target of every request of that role, unless the
\* request was itself a packet of another obligation that is still outstanding,
\* or a call of the role has registered an obligation which the check before its
\* awaits would have refused by then: a READY child aside, the gate passes what
\* is outstanding in these two ways only (recordPlannerPartitionCompletion).
GateSeesEveryTarget ==
    [][\A o \in obligations :
          Finished(o) =>
             /\ RequestedPaths(o) \subseteq reviewed'[o.role]
             /\ ~Nested(o) /\ o.role \notin overtaken =>
                   \A q \in Outstanding(o.role) :
                      RequestedPaths(q) \subseteq reviewed'[o.role]]_vars

\* The guard's own continuity notice says that a commit or push remains blocked
\* while an aggregate partition gate is incomplete (core 4601), so that no
\* obligation advances the gate past another; two Task calls that are planned at
\* once do not keep it.  See ChildPlanner_planned_at_once.cfg.
GateWaitsForEveryRequest ==
    [][\A o \in obligations :
          Finished(o) /\ ~Nested(o) =>
             \A q \in Outstanding(o.role) :
                RequestedPaths(q) \subseteq reviewed'[o.role]]_vars
=============================================================================
