# A model of the OpenCode operational-schema guard

The guard is an OpenCode plugin. It stands between the agent and its tools:
every message, tool call and tool result of every session of a workspace goes
through its hooks, which refuse, count, record and annotate. Around it stand
helper programs that assess pull requests, move untracked files out of the way,
verify heads on GitHub Actions and install the plugin itself. This directory
holds TLA+ modules that model their control, TLC configurations that check the
modules on small instances, and proofs checked by TLAPS.

Paths below are relative to `src/`. `core` is `lib/operation-guard-core.mjs`,
`wrapper` is `lib/operation-guard.mjs`.

## The system

| Component | Where | State it keeps | Operations | Modelled by |
|---|---|---|---|---|
| Campaign gates | core | one *safety* object per workspace: edit, review and Verify generations, campaign, partition obligations, authority | `chat.message`, before- and after-hooks of edits, shell commands, Task and publish calls, task error events | `CampaignGates` |
| Safety store | core 3772-3836 | one JSON file per workspace, a `loaded` flag, a promise chain of writes | `load`, `save` | `SafetyStore`, `DurableState` |
| Exact-head authority, delegation lifecycle | core 889-923, 1302-1395, 2116-2332, 4642-4830, 5340-5410 | binding, mode, status, epoch, lease, admissions, pending and resumable tasks, child bindings | declarations, target setup, HEAD proofs, lease checks, Task launch, resume, results and errors, child calls | `ExactHeadAuthority` |
| Target lifecycle | wrapper | a lifecycle file per workspace, admissions by call | assessment, owner reconciliation, release of a target | `TargetLifecycle` |
| Child work planner | `lib/hybrid-workflow.mjs`, core 2569-2830 | partition obligations | measuring, ordering, grouping, splitting, the way back of the packets | `ChildPlanner` |
| Session routing | `index.mjs` | session to directory, directory to guard, call to guard | hooks, events, look-ups, moves | `SessionRouting` |
| Untracked quarantine | wrapper, `lib/untracked-quarantine.mjs`, `scripts/untracked-quarantine-fs.py` | a ledger file, moved files, receipts | inspect, quarantine, restore | `Quarantine` |
| Live installer | `scripts/install-live-plugin.mjs` | lock, plans, journals, live and set-aside trees | prepare, promote, roll back, recover | `Installer` |
| Assessment gateway | `lib/repo-pr-assessment.mjs` | reservations, checkouts, evidence files | the two phases of an assessment, clean-up, report | `RepoAssessment` |
| Runner supervisor | `scripts/repo-pr-runner-supervisor.py` | the process tree of one runner | launch, wait, contain, report | `RunnerSupervisor` |
| Trusted Actions evidence | `scripts/ghdev-actions-*.mjs`, `lib/actions-evidence.mjs` | execution record, receipt, commit status | controller, executor, publisher | `ActionsEvidence` |
| Todo ledger | `lib/todo-ledger.mjs`, core 4304-4415 | todo cache by session, warned fingerprints | idle warning, reminder | - |
| Command classification, policy, configuration, trace assessment | core, `lib/*`, `scripts/*` | none | parsing, validation, reports | inputs of the actions |

All sessions of a workspace share one safety object: `bindSafetyState` (core
126-136) gives every session's state accessors to it. JavaScript runs one hook at
a time between awaits, but a hook awaits the planner, the save, Git and file
reads, and OpenCode runs tool calls of one message in parallel, so hooks of
several calls and sessions interleave at those awaits. Everything session-local
is lost when the plugin process restarts; the safety object is reloaded from the
file. The wrapper keeps its own files beside the core's, and the helpers are
processes of their own: they race with the hooks, with each other, with the
user's editor and with the remote.

### What is hard

* A delegated review or Verify runs for minutes while edits, authority changes,
  campaign closure and restarts go on. Its result is matched with the present by
  one number, the edit generation at launch.
* A partitioned review opens the gate only when the last of its packets
  succeeds, in whatever order they finish; packets of two plans may collide, and
  a packet is measured again when it comes back.
* A target is verified by a proof that ran a while ago, in a worktree that may
  have changed since; every later hook and result depends on the lease it gave.
* Two files (safety, lifecycle) and three programs (guard, helper, Git) take
  part in the release of a target; any of them may stop between two steps.
* A process reads its state once, and hooks arrive while it reads; saves queue
  behind one another, and one of them may fail.
* Helpers move files in the user's workspace while the user edits it, and swap
  the live installation while other invocations try the same.
* A runner forks processes that must not outlive the assessment whose checkout
  and reservation they use.
* The pull request and main move between the reads of a verification, and parts
  of it are run again.

`PROJECT.json` lists these hazards one by one with the line where each bites and
the properties that cover it.

### What makes each component correct

* Campaign gates: coverage is advanced only by work that saw the last edit of its
  campaign; aggregates open the gate only when complete; an epoch starts with
  nothing covered; what the gate reads is saved; a reload never opens the gate.
* Safety store: a hook works on loaded state; snapshots reach the disk in the
  order they were taken; a resolved save is on the disk; every hook returns.
* Exact-head authority: only a proof admitted in the present epoch verifies; a
  verified target has a lease on its head; what a delegation reports is accepted
  only on the checkouts it was launched on; a failure is resumed at most once.
* Target lifecycle: a capability is what an assessment saw; the owner moves only
  on such a capability; results act for their own target.
* Planner: the packets are the request cut up, within limits, as few as possible,
  fixed points of the planner; the gate moves when every target was reviewed.
* Session routing: an after-hook meets the guard of its before-hook; the model is
  told of every move; a guard that was left keeps no state of the session.
* Quarantine: the user's files are conserved, each in one place; what the ledger
  calls quarantined is backed by a whole receipt and copy.
* Installer: one holder of the lock; a missing live root can be restored; what a
  receipt certifies is live or kept.
* Assessment: what a live runner uses is its own; a typed status means nothing is
  left running; a PASS is clean and is the one on disk; ended runs are reported.
* Actions evidence: success only for exact identities, complete undisputed
  evidence of the same attempt, never for a head that changes the trusted
  control files; records written by one job are accepted by the next.

## The modules

Every component has one module, and an `MC` module with its instances for TLC.
`SafetyStore` is composed with the abstract `DurableState` it implements, and
`RepoAssessment` extends `RunnerSupervisor`, one for every run. Proofs are in the
modules `...Proofs`, one for each component but two pairs: `HookLayersProofs`
holds those of `TargetLifecycle` and of `SessionRouting`, `DurabilityProofs` those
of `SafetyStore` and of `Installer`. The modules of a pair share no variable, so
what is proved beside the other module is what is proved alone.
The map of definitions to lines is in `PROJECT.json`. One action is one hook or
program step up to the next point where another actor can act; a refusal that
changes nothing is the choice not to act.

### CampaignGates

| Code | Model |
|---|---|
| the safety object; the file | `safety`; `disk` |
| Task calls inside `deterministicTaskPlan` | `planning` |
| `pendingTasks` of all sessions | `pendingTasks` |
| publish calls between the two hooks | `publishing` |
| worktree, checked-out commit, `randomUUID` | `landed`, `head`, `campaigns` |
| `chat.message` | `DeclareAuthority`, `RebindTarget`, `DeclareGateAuthority` |
| before-hook of edits and mutating shell commands | `Edit`, and `EditLands` for the write itself |
| before-hook of other HEAD-changing commands | `HeadChangingCommand` |
| before-hook of Task | `TaskBegin`, then `PlanRejects`, `PlanPartitions`, `PlanElides` or `TaskLaunches` |
| after-hook and error event of Task | `TaskFails`, `TaskCompletes`, `PartitionCompletes` |
| before-hook, Git command, after-hook of publish | `PublishBegin`, `CommitRuns`, `PublishSucceeds`, `PublishFails` |
| after-hook of HEAD proofs, lease checks, assessment and reconciliation | `CorroborateHead`, `ProveHead`, `InvalidateLease`, `ReleaseTarget` |
| after-hook of the workspace identity helper | `WorkspaceIdentity` |
| `safetyStore.load` in a new process | `Restart` |

Data is reduced to what the properties tell apart. A commit SHA is the number of
edits the commit contains. An obligation's id is the record the code hashes. A
packet is a model value, and the answer of the planner is any member of `Plans`.
Text classification is an input: whether a shell command mutates, which path an
edit touches, whether a result is healthy. `edits`, and the launch campaign and
epoch of a task, exist only in the model, so that the properties can say what a
result has seen. The semantic-review authority `both` acts as
`local-fresh-review` at every place modelled and is not a value of its own.

* A save is atomic here, and so is the load; their steps are in `SafetyStore`.
* Lease identities and admissions are reduced to the authority status; their
  detail is in `ExactHeadAuthority`. A result may complete after the lease was
  lost and proved again, where the code calls it stale (`TaskFails` covers that).
* The workspace identity is read in its after-hook. Git commands other than
  commit that move HEAD are not modelled beyond forgetting the proved HEAD.
* The restarted process is of the same version: no version migration on reload.

### SafetyStore

`createSafetyStore` (core 3778-3836) step by step, with the four kinds of hook
that matter to it: one that closes the gate (`Edit`), one that opens it
(`VerifyPasses`), one that reads it (`Push`) and one that saves without touching
it (`OtherSave`).

| Code | Model |
|---|---|
| the safety object, the `loaded` flag, the file | `safety`, `loaded`, `file` |
| the `chat.message` that awaits `readFile`, and what the read returned | `reader`, `sample` |
| `pending` with the snapshots chained to it; rejected for good | `saves`; `broken` |
| the complete temporary file | `writing` |
| `load()` | `LoadBegins`, `FileRead`, `LoadEnds`; `LoadSkipped` for every later caller |
| `save()` | `Save` inside the hook, then `TemporaryWritten`, `Renamed` or `WriteFails` |
| end of the process, at any step | `Restart` |

The object is reduced to the edit and Verify generations; every edit is
high-risk and review is central-owned, so the gate compares just these two. The
catch block's handling of a verified target is left to the authority module. A
session is `opened` when its first `chat.message` has returned: OpenCode sends
that hook first and waits for it. `edits`, `admitted`, `covered`, `published`
and `loadRaced` exist only in the model; they number the edits, so that a property
can say which of them ran, were verified and were pushed.

One process per workspace is modelled, running one version of the plugin. The
code has no lock against a second process, and it skips a file of an unknown
version without an error; both are among the places listed under "Other places",
not among the hazards. A failure of the host (the directory is not synced after
the rename) is outside the model.

`DurableState` is the promise: the file changes only to the oldest submission,
as a whole, and an edit is acknowledged by that step; outstanding submissions may
be lost together. `SafetyStore` is shown to implement it with `durable`,
`submitted` and `acknowledged` mapped to `file`, `saves` and `admitted`.

### ExactHeadAuthority

| Code | Model |
|---|---|
| head, device and inode of the owner's checkout and of a linked worktree | `wt` |
| binding, mode, status, epoch, proven setups, `exactHeadLease` | `safety` |
| a setup or proof call with its admission, between its hooks | `op` |
| `pendingTasks`; `resumableTasks`; child sessions with `childLeaseBindings` | `task`; `again`; `child` |
| `chat.message` | `Declare`, `Rebind` |
| hooks of a setup and of a HEAD proof, and the Git command between | `BeginSetup`, `SetupRuns`, `EndSetup`; `BeginProof`, `ProofRuns`, `EndProof`, `EndProofStale`; `CallFails` |
| `validateExactHeadLease` before and after any call of a primary | `LeaseCheck`, and `Checked` inside the other hooks |
| Task launch and its resume | `Launch`, `ResumeForgotten`, `ResumeSpent` |
| after-hook and error event of Task | `ReportAccepted`, `ReportStale`, `TaskErrors`, `UnknownEnds` |
| calls of a child session | `ChildCall`, `ChildBlocked` |
| terminal assessment or reconciliation; restart | `Release`; `Restart` |
| the user's Git | `Move`, `Remake`, `RemoveLinked` |

Delegations are numbered in the order of their launch, and a child session has
the number of the delegation that created it. A worktree identity is a mark that
was not used by any identity still remembered. The workspace head kept for the
planner is left out, as are the counters that only refuse calls (child budgets,
retry breaker). A proof without admission can only perform the lease check.
`proved`, and what a task records in `at`, exist only in the model.

### TargetLifecycle

`authority` is what the core holds of the target, `lifecycle` the wrapper's file,
`pending` the entries of `pendingAssessments` and `pendingReconciliations`, `pc`
how far a call is: before-hook (`AdmitAssessment`, `AdmitReconciliation`,
`Before`), helper process (`Launch`, `AssessmentEnds`; `ChecksOwner`,
`ChecksAgain`, `FastForwards`, `ProvesResult`), after-hook (`Judges`, `Rejects`,
`CoreActs`, `WritesLifecycle`, `ClearsLifecycle`). The after-hook compares the
result with the authority before it awaits the core, and the core acts on
whatever is bound then. `Crash` ends the plugin; a helper goes on without it.
The refusal of HEAD-changing Git (517-519) is left out: it only narrows
`OwnerMoves`, which anybody may take. An owner snapshot is read at one instant,
and a change of the core's state and its save are one step.

### ChildPlanner

`calls` holds every Task call that is under way, so that several are planned at
once. `TaskBegin` takes a request or a canonical packet and makes the one check of
what its role has outstanding (`Admits`); `MeasureTarget` reads the targets one by
one, each after an await; and `deterministicTaskPlan` answers in one synchronous
stretch, which looks at the obligations as they are by then but does not repeat
that check: `Plan`, `Partition`, `ElideByReceipt` or `RefusePlan`. `Launch` starts a
child with a planned packet or `RefuseLaunch` ends the call; the child's after-hook
is `ReportStale`, `ReportWhole` or `ReportPartition`
(`recordPlannerPartitionCompletion`). `Edit`, `Remeasure` and
`DeclareReviewAuthority` happen in between. What the primary agent can submit is
one of `Workloads`, chosen at the start.

The loops of the code are recursive functions over the position they have
reached: `makeTargetPartitions` folds `Place` over the ordered targets, and
`fitPromptPartitions`, a work queue in the code, repeats `SplitFirst`, which
halves the first group that is too long; a request of n targets needs fewer than
n such steps. `stableTargetOrder` is the one arrangement that is in the stable
order. Costs are the code's arithmetic on the code's thresholds; lengths of
prompts are counted in target lines, so that a limit is a number of lines, and
the injected child contract, appended only where it fits, is not counted. Paths
are numbers compared as the code compares strings. An obligation carries, as
history, the targets of its request as they were measured; `reviewed` is the
targets of the completed packets of a role in this generation, and `overtaken` the
roles of which a call registered an obligation that its check, made before its
awaits, would have refused by then.

### SessionRouting

A hook is a record that walks through its phases: it starts, asks OpenCode for
the session's directory where `routeForSession` does (`LookupAnswered`,
`LookupReturns`), moves the session where it has changed
(`transitionSessionRoute`, which awaits the old guard's clean-up), enters a guard
and returns. `route`, `notice` and `callRoutes` are the router's maps, `local`
says which guards hold session-local state. One session is modelled, since
sessions share no map entry; awaits of settled promises are merged with their
continuation. `dispose`, the resolution of the policy and `tool.definition` are
not modelled.

### Quarantine

`call` walks an operation through admission (`AdmitInspect`, `AdmitQuarantine`,
`AdmitRestore`), the helper (`Stage`, `WriteReceipt`, `CapturePath`,
`CaptureRenames`, `CaptureVerifies`, ...; `RestorePath`, `RestoreRenames`,
`RestoreFills`, `RestorePublishes`, `RestoreSettles`) and the after-hook, which
reads the ledger, awaits the readback and writes the ledger (`AfterReads`,
`AfterWrites`). `ProcessStops` kills a helper anywhere, `PluginRestarts` the
hooks. The window between a helper's last check of an object and its rename is a
step of its own, and `raced` names the paths that were changed in it, by the user
or by another helper. Two operations that work on one path at once may leave a
second copy of it; nothing is lost by that. An inspection snapshot is one step;
names of staged temporary files are ignored.

### Installer

One invocation is a process that runs `promote` or `recover` once: `LockStep`
(create, write, inspect, reclaim), `PromoteStep` (`Arm` the journal, `SwapOut`,
`SwapIn`, validate, `Commit`, or undo) and `RecoverStep`. `Crash` may take any of
them. A directory keeps the name of the promotion that copied it, as a rename
keeps its inode. A host crash that loses an unsynced rename is the state before
the rename. The release's read and unlink, and recover's stat and rename, are one
step each. `raced` records that a stale lock was reclaimed twice, that recover
acted on a journal that changed while it waited for the lock, or that a journal
was recovered after later promotions: properties that hold otherwise say so.

### RepoAssessment and RunnerSupervisor

`RunnerSupervisor` is the child subreaper of one phase: `SupLaunch`, `SupWaits`,
`SupReaps` and `SupReports` against a runner that forks, exits and leaves
descendants. `RepoAssessment` runs it for each assessment, through reservation
(`ReserveKernel`, `ReserveSummary`, `ReserveNative`, `MakeRuntime`), checkout
(`AddWorktree` or `CloneSnapshot`, then `AdmitWorktree` or `AdmitSnapshot`), the
two phases (`StartPhase`, `PhaseReported`, `PlanPasses`, `SnapshotPlanPasses`,
`RunJudged`, `RunCollected`) and clean-up (`ReleaseNative`, `ReleaseKernel`,
`RemoveCheckout`, `Report`). Each family of checks that may stop a run is an
action, enabled at the points where the code makes the check: `RemoteMoved`,
`AnchorLost`, `NotAdmissible`, `PinsChanged`, `OwnerChanged`, `LateFailure`,
`ReleaseNativeFails`, `ReleaseKernelFails`. What they read (the remote, the
owner's tree, the anchored directories) is not modelled, so any of them may fail.
Error kinds are merged into `"error"`. All runs carry one assessment id, the case
in which they share anything at all.

The write of the summary in `Report` ends in one of four ways (`Writes`): nothing
on disk, part of it, all of it but not confirmed (the sync or the revalidation
after it fails, 899-911), or done. A write that fails changes the result that is
returned, not the file, so the two may differ in one direction: `ReturnIsOnDisk`
says that a verdict returned is on disk, `PassIsClean` speaks of a PASS that was
returned and of one that is only on disk.

The supervisor's `fail()` where a wait for the runner or the holder fails
(supervisor 517, 530), which comes before the containment, is left out: the kernel
gives that error only for a child that is not there, and these are children it
forked itself and has not reaped.

### ActionsEvidence

One dispatched run of the verification workflow with its re-runs: `Controller`
(preflight of the pull request and the census of what the head changes),
`Executor` (recheck, set-up, the commands of the profile, source and runner
proofs, hand-over) and `Publisher` (build, upload, resolve, post). Every read of
the remote is a step. Block reasons are merged, except a signal. What identifies
the dispatch and the tool chain cannot change within a run: those refusals, like
a runner that is lost, are `Lose`. `exact` records, for the step in progress,
whether the pull request and main were at the dispatched identity since it began.
Concurrent dispatches that share a status context are not modelled.

`HandoffIsAccepted` names the three records that the executor hands over and the
validator of the next job refuses: one of commands run whose HEAD was found moved
(once a command ran, the validator wants the dispatched HEAD at the end), a PASS whose test totals
contradict the zero exits, and a PASS whose checkout is still there although its
removal reported no error. Everything else is accepted: a failed run with failing
totals, a signalled one, and one that is blocked because its checkout could not be
removed.

## The runs

| Run | What it shows | Instance |
|---|---|---|
| `CampaignGates_gates` | coverage is fresh, aggregates complete, the gate durable and never opened by a reload | one session, two calls, review in one packet or two, two edits, two campaigns, commits, restarts |
| `CampaignGates_epochs` | an epoch starts from nothing | two sessions, two calls, two SHAs, both modes, two epochs, one edit |
| `SafetyStore_queue` | the store keeps its promise over failed reads, failed writes and crashes, and implements `DurableState` | two sessions, two calls, two edits |
| `Installer_swap` | the lock, the live root and certified sources survive races and kills | three invocations, two promotions, two trees, two configurations |
| `RepoAssessment_gateway` | reservation, checkout, verdict and summary of two runs of one id, with failing writes | two runs, two targets, both modes, runners without descendants |
| `RepoAssessment_phases` | containment and termination | one run, up to two descendants at once |
| `Quarantine_operations` | content, place and backing of files | two operations, paths, contents and calls, four admissions, one edit |
| `ExactHeadAuthority_leases` | epochs of proofs, leases of verified targets, delegations on the checkouts of their launch, one resume | two primaries, two heads, both modes, two epochs, two leases, two delegations, one setup or proof at a time, one move of the user |
| `ActionsEvidence_attempts` | success, refusal and hand-over | one dispatch of a plain or a controlled head, two commands, two attempts, two moves of the remote |
| `TargetLifecycle_capability` | who may move the owner, write the capability and release the target | two targets, two calls, a base of two commits, two epochs, one fault |
| `ChildPlanner_packets` | the planner's packets and their way back | three paths, two disks, two workloads of three requests each, limits that each split, one write, two calls at once |
| `SessionRouting_hooks` | moves, notices, call routes and left-over state | one session, two directories, two hooks at once, one move by OpenCode and those of failed look-ups |

Bounds are guards of the actions that count, named `Max...`; nothing else cuts a
behaviour short. Two actors are enough for every race the hazards name but one (a
CLEAN identity that is stale across an edit and a publish needs three calls). Two
edits let a result be stale, and let a campaign close and another start with the
same generation. Two epochs and two leases let a declaration, a proof or a result
meet what an earlier one left. Two snapshots in the chain are what order and
shared rejection need. In `Installer_swap` the third invocation is the one that
recovers, or breaks the lock, between two others. In `ExactHeadAuthority_leases`
one move is enough to break a lease, and the authorities' own set-ups move heads
besides. In `TargetLifecycle_capability` all specs pin the newest base and are
repository-owned, since the others never write a capability. The two heads of
`ActionsEvidence_attempts` are the two cases of its census. In
`ChildPlanner_packets` the limits are chosen so that the number of targets, their
cost and the length of the prompt each split some request.

Calls, sessions, packets and the like are interchangeable where a configuration
uses symmetry; none of those runs checks liveness. Deadlock is checked where a
restart, or another invocation, is always possible. `CHECK_DEADLOCK FALSE` stands
where the system does end: a bounded number of calls or moves is used up, a
workflow run has ended, an assessment has returned, a session is deleted.

### Fairness

`SafetyStore` assumes weak fairness of the read, of its continuation, of the
write and of its outcome: file-system promises settle and the event loop runs what
awaits them. `RepoAssessment` assumes weak fairness of the gateway's own steps
(phases and clean-up are awaited promises) and of the supervisor's loop, and
strong fairness of the end of its clean-up deadline: the clock goes on, but the
step is enabled only between passes, and the loop takes passes for ever if
descendants fork for ever. Nothing is assumed of the runner, of hooks, of users,
of the remote or of crashes; therefore `EndedRunsReport` starts where the runner
has exited. The other modules have no liveness property: every wait there is on a
user, a model, a child session or a command, and the code schedules none of them.

### Statements the code does not keep

These statements of the repository are properties of the modules that the code
violates. Each has a configuration of its own, which finds the counterexample;
none is a run of the project.

| Configuration, property | What the code does | What it contradicts |
|---|---|---|
| `CampaignGates_stale_campaign`, `CoverageIsFresh` | closing a campaign resets the generations (core 3183), so a review launched in the closed campaign counts for the first edit of the next | core 4972: a PASS review "after the latest content edit" |
| `SafetyStore_load_race`, `PublishedWorkIsCovered` | `load` raises its flag before it awaits the file (core 3786); a second session's hooks run on the empty state and push what the file knows to be unverified | `README.md:109`, and core 4975: "require a PASS Verify after the latest content edit before commit or push" |
| `Installer_stale_journal`, `RestoresOnlyFromArmedJournal` | `recover` reads the journal before it takes the lock (1230) and not again under it; the promotion it waited for has written PASS, and its source is set aside | the usage text (83): recover "consumes an armed PROMOTION_PENDING journal" |
| `Quarantine_ledger_race`, `LedgerKeepsOperations` | the after-hook reads the ledger (wrapper 607), awaits the readback and replaces the file (661); overlapping hooks lose an entry, and its id is free again | `README.md:71`: "operation IDs cannot be silently reused" |
| `ExactHeadAuthority_children`, `ChildActsForItsDelegation` | an unbound child is bound to whichever single delegation is pending under the lease (core 910-921), also the child of a superseded delegation | core 4773, and `tests/target-lifecycle-guard.test.mjs:1272`: a "completed child cannot attach its lease binding to a later delegation" |
| `ActionsEvidence_uncollected`, `SuccessIsBacked` | the executor blocks a command whose exit evidence is contradictory (414-421) and leaves the loop, having recorded the exit of the process; the final verdict (454-464) looks at exits and totals only, and makes PASS of it when that exit was zero and the command was the last, unless the totals are still missing | executor 415-420: contradictory exit evidence is `BLOCKED` (the profile in `evidence/profiles` collects totals in its last command and is not affected) |
| `ChildPlanner_planned_at_once`, `GateWaitsForEveryRequest` | a Task call checks what its role has outstanding (core 4654), awaits the planner (4663) and registers an obligation (4665) without checking again; two calls of one gated role register disjoint obligations, and the first to be finished advances the gate past the other (2782-2801, 5165, 5205) | core 4601: "A commit or push remains blocked whenever [...] an aggregate partition gate remains incomplete" |
| `TargetLifecycle_release_race`, `StaysBoundUntilItsRelease` | the wrapper compares the bound target (681-683), awaits the core's after-hook, and the core releases what is bound by then (core 5070-5077) | `README.md:17`: "Target authority stays bound until its recognized terminal/reconciliation release" |

Other places where the code's order of steps is worth a reviewer's attention, met
while reading and modelling, without a property of their own:

* Gates. A receipt is checked before the planner's awaits and used after them
  (core 4671, 2569). An unbound obligation has the proved HEAD in its id; a commit
  forgets that HEAD, and a restart then drops the obligation (250, 2730). A first
  declaration keeps an outstanding obligation (1346, `README.md:50`). The publish
  gate does not read outstanding obligations of a generation already covered (4968
  against 4601). An edit can be admitted between a publish admission and its Git
  command (5228), a CLEAN identity printed before an edit can close its campaign
  (5243), and an edit is counted before it lands (5018). A READY child launched
  before an obligation of its role was registered still advances the gate (4655).
* Delegations. The one resume attempt is spent before the lease check that may
  refuse it (4715).
* Store. A renamed directory entry is not synced, a file of an unknown version is
  skipped without an error, and nothing keeps two plugin processes from one file
  (3825, 264).
* Todo ledger. A late hydration or idle reply overwrites a newer ledger (4373),
  and a stale one defeats the one toast per ledger.
* Planner. Under an exact authority a canonical packet keeps the whole context and
  may exceed the prompt limit: it is then refused while its obligation holds back
  other Tasks of the role (`README.md:11`, `README.md:50`). A packet measured again
  after growth is partitioned itself, and when its own packets are complete the
  gate advances although the outer request is not finished (2782-2801 look at one
  obligation, 5165-5200 at none); two packets of one request can grow alike, and
  the first of them to complete advances the gate while its sibling is
  outstanding. `GateSeesEveryTarget` therefore speaks of every outstanding request
  of the role only where the finished one was not itself a packet of one
  (`Nested`), and no call of the role registered its obligation beside one it
  should have waited for (`overtaken`; see `ChildPlanner_planned_at_once` above).
  An elided answer during a change to central review is not refused (4670-4675).
  The number of TARGETS_REQUIRED of a fresh review is compared with nothing (5184
  compares Explore's).
* Routing. A look-up that fails while another hook moves the session moves it back
  (`index.mjs` 148-154, `README.md:299`). A hook in flight, or two overlapping
  moves, leave session state in the guard that was left (131). A deletion that
  overtakes a look-up or a before-hook leaves a route behind. Two transitions may
  end out of order. A failed `config.get` may overwrite a policy that is already
  live (53-72).
* Installer. An empty lock file is never reclaimable (747). A journal left armed
  is recovered after later promotions (1298). A configuration edited while the root
  is missing blocks recovery (1286).
* Assessment. A write of the summary that fails after its bytes are on disk leaves
  PASS in the file while the caller is told of an error (`repo-pr-assessment.mjs`
  899-911, 1461-1465). Gateway-owned runs of one id share an evidence file (1676). The wait for a runner has no deadline (supervisor
  516).
* Actions. A command may override the executor's own verdict on it (executor
  414-421, 454-464). The three records of `HandoffIsAccepted` leave their run
  without a receipt.
* Lifecycle. A capability left by a crash after the release is stuck until its
  target is declared again.

## The proofs

The theorems hold for every value of the constants that satisfies the module's
assumption: any number of sessions, calls, runs, targets, edits. The assumptions
say that null values differ from proper ones, that bounds are naturals, that
sets of inputs hold what the code can be given, and that a workspace has finitely
many paths; nothing more. Every safety property of every run is a theorem; the two
liveness properties, named at the end of this section, are not. Each component's
proof is built on an inductive invariant, which TLC checked on the instance of a
run before it was proved. A proof that a step
preserves it has one lemma per action, or per family of actions that disturb the
same parts, and shared lemmas for what a step leaves alone.

### CampaignGates

The invariant `IInv` is the conjunction of `CoverageBehindEdits`,
`InFlightEpochCurrent`, `SameCampaignFresh` and `GateFieldsDurable` with
`Bookkeeping`:

* freshness (`SameCampaignFresh`) is not inductive alone. An edit raises the
  generation, so a running task falls behind it, but only if no task is ahead: a
  launch generation of the active campaign is at most the current one. A new
  campaign starts over, and needs an identifier no running task carries: drawn
  identifiers are bounded by `campaigns`.
* a reload restores what was saved, so it keeps `InFlightEpochCurrent` and the
  gate only if the epoch and the gate authorities on disk are the current ones,
  even where the rest of the snapshot is refused.

Most actions are instances of one lemma (`QuietStep`: nothing edits, launches,
opens an epoch or reloads); edits, launches, epochs, closure and restarts have
their own. The action properties follow from `IInv` in the state before the step.
`ObligationsWellFormed` and `AggregateBeforeCoverage` have an invariant of their
own, `OInv`: obligations are well formed in memory and in the file, and the packet
of a planned Task belongs to the obligation it names.

### SafetyStore (in `DurabilityProofs`)

The gate is copied in many places: in memory, in every queued snapshot, in the
file and in the answer of a read. The invariant says of each copy whose gate is
open that everything admitted so far, and everything the writes up to that copy
will admit, is covered (`OpenCopiesCovered`); that no copy is verified beyond its
edits, so that one more edit closes it (`CopiesNeverAhead`); and how loading,
hooks and writing follow each other (`Phases`): before the first session is open
nothing is queued, so what a load has read is still the file when it is hydrated,
unless a hook raced it. `SaveKeepsQueue` does the work for all hooks;
`RenamedInv` is the step where the oldest snapshot becomes the file. The
refinement maps a save to a submission, a rename to `Persist`, failures and
restarts to `Lose`.

### ExactHeadAuthority

`Sound` says what one value of the workspace state satisfies (a lease is valid
exactly while a target is verified, and was given on its head), `Follows` that
lease numbers only grow and a number is used for one lease. A pending delegation
whose lease is the one in force remembers that lease's checkouts
(`LeaseOfLaunch`); with it a result that passes the comparison of numbers is of
the checkouts of its launch. `Resumes` says that a resumable task is spent when a
delegation resumes it, and that no two delegations resume the same one. That a
fresh mark for a re-created worktree exists at all is a counting argument
(`FreshMark`: there are more marks than identities remembered).

### Target lifecycle and routing (in `HookLayersProofs`)

For the lifecycle the invariant follows each call: what its job and its helper's
output must have been for it to be where it is (`Underway`), and what the
authority may be by now if its epoch is still the one the hook read (`Judged`). A
change of the authority keeps the second for the other calls because it changes
the epoch or only releases (`Follows`).

For the router, of any number of hooks under way: a notice names the route in
force, or the model knows it (`Told`); each call has one hook at a time
(`OneHookPerCall`); while the session exists no hook is one of its deletion
(`Undeleted`), an admitted call has the route of the guard that admitted it, and
its after-hook takes no look-up (`Met`); a guard that holds state not entered
late is the guard in force, and no hook is about to leave it (`Unvisited`). The
hooks that begin and those whose look-up returns do the same thing to these:
stay, enter a first guard, or start to leave one (`Turns`).
`RoutingTypeCorrect` is proved for the invariant's sake; no run checks it.

### Quarantine

Receipts are backed by their copies, captured objects were copied before, paths
the user never had are held nowhere (`Stores`), and each call's memory agrees
with what its operation has on disk (`CallWell`) and with what its last check saw
unless its path was raced (`CallClear`). `ContentIsConserved`, `OnePlace` and
`QuarantinedIsBacked` are parts of, or follow from, this invariant.

### Installer (in `DurabilityProofs`)

While no lock was reclaimed twice, an invocation between taking and releasing the
lock owns it, and an invocation about to reclaim it saw an owner that is gone
(`HoldersOwnLock`, `StaleOwnersGone`). The displaced trees then form a stack
(`Shelves`), and what the holder has done so far is what the disk shows
(`StepInv`). From these follow `OneHolder`, `MissingRootIsRecoverable`,
`CertifiedIsKept` and `JournalsCanBeConsumed`.

### RepoAssessment

Of each run: what a supervisor's report means for its processes (`SupWell`), who
owns what a phase with processes uses (`PhaseOwns`), that what a run has acquired
is on disk under its name (`Holding`), what each point of the run has behind it
(`Earned`), and what a PASS in memory or on disk has passed through (`Passing`). A step of one run
leaves the others alone because what it takes was free, or its own (`Spares`).

### ActionsEvidence

The record is at every step of the executor what the validator of the next job
asks (`ExecutionWell`); what a job has seen was exact at some moment since it
began to look (`SightingsWell`); a head that changes control files stays in the
controller (`ControlledStays`). `SuccessIsBacked` needs a condition on the
profile, `Collector = NCommands`: the last command collects the test totals. The
repository's profile satisfies it; without it the property fails (see
`ActionsEvidence_uncollected` above). Under it an exit that was disputed left no
totals, so its record is no PASS (`Undisputed`), and receipt, artifact and status
repeat the record (`ReceiptWell`).

### ChildPlanner

The planner is a sequential algorithm, so the first half of its proof has no
state. What a loop computes is shown by induction on the position it has reached.
The library's induction theorems take an operator and cannot be used; the
induction is done with sets of numbers instead: a set of naturals has a least
element (`LeastElement`, from the well-foundedness of <), so one that contains 0
and every successor is all of them (`Induction`, `InductionTo`), and a loop of n
steps has a value after each (`Iteration`).

* Order. Every request has an arrangement in the stable order (`OrderExists`, by
  `Insertion` of one target after another) and only one, so that
  `stableTargetOrder` is it (`StableOrder`).
* Groups. `Cuts` says that the groups are the consecutive, non-empty pieces of the
  ordered request. After i placements the groups and the open group are a cut of
  the first i targets, each within the limits, and each group that was closed
  would break a limit with one target more (`Greedy`, `Placements`,
  `GreedyGroups`). Costs of pieces are differences of one running sum (`SumsOf`,
  `CostOfPart`), which grows, so that a part of what is within the limits is too.
* Splitting. One split keeps a cut a cut, finer than it was (`SplitCuts`,
  `FitCuts`), and makes one group more. A cut of n targets has at most n groups
  (`CutIsShort`), so after n splits no group that is too long has more than one
  target (`SplittingEnds`): the n steps of the model are those after which the
  queue of the code is empty.
* Fewest. Wherever the greedy partition closes a group, any other affordable cut
  has a cut in the same stretch (`CutIsForced`); the stretches are disjoint, so it
  has at least as many pieces (`FewestGroups`).
* Fixed points. What is within the limits and fits is one group (`OneGroup`), so a
  canonical packet, measured as it was, is planned (`CanonicalPlan`).

The second half puts these into the states. `PlannerInvariant` says that a call
measures its own packet in order (`MeasuresItsPacket`), that calls and their children
know only obligations of which their packet is a member (`KnowsItsObligations`),
that every obligation stands (`Stands`: its packets are its request, each would be
planned as it was measured, and what it counts as completed was reviewed in this
generation), and what a gated role may have outstanding (`GateStands`). The last
is what `GateSeesEveryTarget` needs and is not obvious: while a role has an
obligation, only packets of an obligation are admitted, so a second obligation of
the role is inside the first; after the first completes, what is left lies in
what was reviewed. A call that was admitted before and registers when that no
longer holds overtakes the role, and of an overtaken role nothing is claimed until
the next edit. Since a step changes one call, what holds of all calls has one lemma
(`CallsAfterStep`), and so have the steps that leave the obligations (`QuietStep`)
and the reviews (`CallStep`) alone.

### Only model-checked

`EveryHookReturns` and `EndedRunsReport` are liveness properties under fairness,
which the proof system does not reach.

## Not modelled

* The todo ledger (idle warnings and their toast): it changes no gate. Its
  races are among the places listed above.
* Text: classification of shell commands, reports and results, literal command
  fidelity, the contracts of policy and configuration, trace assessment. Their
  answers are inputs of the actions.
* Counters that only refuse (child budgets, retry breaker), `dispose` and the
  resolution of the policy.
* Two plugin processes on one workspace, a crash of the host that loses a rename
  which was not synced, migration between versions of the state file, concurrent
  dispatches that share a status context.
* The archived and vendored material under `docs/`.

## Plan

1. `TodoLedger`: hydration, idle replies and reminders, which overwrite each other.
2. `LiteralCommands`: a user's literal command, its normalisation and the retry
   of a call that differs from it.
3. Child budgets and the retry breaker in `ExactHeadAuthority`, and the binding of
   a child as a property that the code keeps for a single pending delegation.
