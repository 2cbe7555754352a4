---------------------------- MODULE RepoAssessment ----------------------------
(***************************************************************************)
(* lib/repo-pr-assessment.mjs: the gateway that runs a pull request's own  *)
(* assessment in a disposable checkout, composed with the supervisor of    *)
(* its runner.  All runs here carry one assessment id, the case in which   *)
(* they share the summary, the evidence file, the reservations and the     *)
(* runtime directory; their checkouts are named by mode and target (pull   *)
(* request and head).                                                      *)
(*                                                                         *)
(* What other parties decide is an outcome: the remote may have moved, the *)
(* owner's checkout changed, a directory been replaced, a pin not match    *)
(* (Stops).  A gateway process may be killed at any step (Crash); the      *)
(* supervisor and the runner then go on without it.                        *)
(***************************************************************************)
EXTENDS RunnerSupervisor

CONSTANTS Targets, NoRun

ASSUME AssessmentAssumption == NoRun \notin Runs

VARIABLES
    mode, target,  \* of each run
    at, result,    \* where a run is, and host_evidence_result
    has,           \* what it has acquired
    safe,          \* cleanupSafe, and not preserveRepositoryOwnedState
    cleaned,       \* the clean-up of the checkout passed
    kernel,        \* holder of the abstract socket
    reservation,   \* creator of the native reservation file
    runtime,       \* creator of the runtime directory
    native,        \* the runner's own evidence in the runtime directory
    evidence,      \* writer of <id>.runner.json
    summary,       \* <id>.summary.json
    checkout,      \* owner of each disposable checkout
    dirty          \* a checkout differs from the pinned commit

shared == <<kernel, reservation, runtime, native, evidence, summary, checkout, dirty>>
local == <<mode, target, at, result, has, safe, cleaned>>
vars == <<sup, local, shared>>

Modes == {"gateway", "repository"}
Places == Modes \X Targets
Verdicts == {"PASS", "FAIL"}
Results == Verdicts \cup {"error"}  \* BLOCKED, STALE, INFRA_ERROR or ISOLATION_BREACH
Things == {"kernel", "summary", "native", "anchor", "checkout", "admitted"}
Points == {"new", "reserve", "identity", "native", "runtime", "recheck", "isolate",
           "admit", "ready", "plan", "planned", "run", "collect", "close", "release", "remove",
           "report", "end", "exited", "crashed"}

Place(i) == <<mode[i], target[i]>>
Owned(i) == mode[i] = "repository"

TypeOK ==
    /\ SupTypeOK
    /\ mode \in [Runs -> Modes] /\ target \in [Runs -> Targets]
    /\ at \in [Runs -> Points] /\ result \in [Runs -> Results \cup {"none"}]
    /\ has \in [Runs -> SUBSET Things]
    /\ safe \in [Runs -> BOOLEAN] /\ cleaned \in [Runs -> BOOLEAN]
    /\ {kernel, reservation, runtime, evidence} \subseteq Runs \cup {NoRun}
    /\ native \in [Runs -> Verdicts \cup {"none"}]
    /\ summary \in [by : Runs \cup {NoRun}, result : Results \cup {"none"}]
    /\ checkout \in [Places -> Runs \cup {NoRun}] /\ dirty \in [Places -> BOOLEAN]

Init ==
    /\ SupInit
    /\ mode \in [Runs -> Modes] /\ target \in [Runs -> Targets]
    /\ at = [i \in Runs |-> "new"] /\ result = [i \in Runs |-> "none"]
    /\ has = [i \in Runs |-> {}]
    /\ safe = [i \in Runs |-> TRUE] /\ cleaned = [i \in Runs |-> FALSE]
    /\ kernel = NoRun /\ reservation = NoRun /\ runtime = NoRun /\ evidence = NoRun
    /\ native = [i \in Runs |-> "none"]
    /\ summary = [by |-> NoRun, result |-> "none"]
    /\ checkout = [p \in Places |-> NoRun] /\ dirty = [p \in Places |-> FALSE]

At(i, p) == at[i] = p
Go(i, p) == at' = [at EXCEPT ![i] = p]
Gains(i, thing) == has' = [has EXCEPT ![i] = @ \cup {thing}]
Judge(i, r) == result' = [result EXCEPT ![i] = r]

(* An error thrown in the try block: its kind becomes the result. *)
Throw(i, kind) == Go(i, "close") /\ Judge(i, kind)
Taken == summary.by # NoRun \/ evidence # NoRun

-----------------------------------------------------------------------------
(* Admission. *)
CheckFree(i) ==
    /\ At(i, "new")
    /\ IF Taken \/ (~Owned(i) /\ checkout[Place(i)] # NoRun)
       THEN Throw(i, "error")
       ELSE Go(i, IF Owned(i) THEN "reserve" ELSE "recheck") /\ UNCHANGED result
    /\ UNCHANGED <<sup, mode, target, has, safe, cleaned, shared>>

(* Repository-owned: four exclusive creations, each refused if taken.      *)
ReserveKernel(i) ==
    /\ At(i, "reserve") /\ kernel = NoRun
    /\ kernel' = i /\ Gains(i, "kernel") /\ Go(i, "identity")
    /\ UNCHANGED <<sup, mode, target, result, safe, cleaned,
                   reservation, runtime, native, evidence, summary, checkout, dirty>>

ReserveSummary(i) ==
    /\ At(i, "identity") /\ summary.by = NoRun
    /\ summary' = [by |-> i, result |-> "none"] /\ Gains(i, "summary") /\ Go(i, "native")
    /\ UNCHANGED <<sup, mode, target, result, safe, cleaned,
                   kernel, reservation, runtime, native, evidence, checkout, dirty>>

ReserveNative(i) ==
    /\ At(i, "native") /\ reservation = NoRun
    /\ reservation' = i /\ Gains(i, "native") /\ Go(i, "runtime")
    /\ UNCHANGED <<sup, mode, target, result, safe, cleaned,
                   kernel, runtime, native, evidence, summary, checkout, dirty>>

MakeRuntime(i) ==
    /\ At(i, "runtime") /\ runtime = NoRun
    /\ runtime' = i /\ Go(i, "isolate")
    /\ UNCHANGED <<sup, mode, target, result, has, safe, cleaned,
                   kernel, reservation, native, evidence, summary, checkout, dirty>>

Refused(i) ==
    /\ \/ At(i, "reserve") /\ kernel # NoRun
       \/ At(i, "identity") /\ summary.by # NoRun
       \/ At(i, "native") /\ reservation # NoRun
       \/ At(i, "runtime") /\ runtime # NoRun
       \/ At(i, "isolate") /\ checkout[Place(i)] # NoRun
    /\ Throw(i, "error")
    /\ UNCHANGED <<sup, mode, target, has, safe, cleaned, shared>>

(* Gateway-owned: the evidence root is opened and looked at once more. *)
Recheck(i) ==
    /\ At(i, "recheck") /\ Gains(i, "anchor")
    /\ IF Taken THEN Throw(i, "error") ELSE Go(i, "isolate") /\ UNCHANGED result
    /\ UNCHANGED <<sup, mode, target, safe, cleaned, shared>>

Isolate(i) ==
    /\ At(i, "isolate") /\ checkout[Place(i)] = NoRun
    /\ checkout' = [checkout EXCEPT ![Place(i)] = i]
    /\ dirty' = [dirty EXCEPT ![Place(i)] = FALSE]
    /\ Gains(i, "checkout") /\ Go(i, "admit")
    /\ UNCHANGED <<sup, mode, target, result, safe, cleaned,
                   kernel, reservation, runtime, native, evidence, summary>>

AddWorktree(i) == ~Owned(i) /\ Isolate(i)    \* git worktree add -b
CloneSnapshot(i) == Owned(i) /\ Isolate(i)   \* mkdir and a shared clone

Admit(i) ==
    /\ At(i, "admit") /\ ~dirty[Place(i)]
    /\ Gains(i, "admitted") /\ Go(i, "ready")
    /\ UNCHANGED <<sup, mode, target, result, safe, cleaned, shared>>

AdmitWorktree(i) == ~Owned(i) /\ Admit(i)
AdmitSnapshot(i) == Owned(i) /\ Admit(i)

-----------------------------------------------------------------------------
(* The two phases of the runner. *)
StartPhase(i, phase) ==
    /\ \/ At(i, "ready") /\ phase \in {"plan", "run"}
       \/ At(i, "planned") /\ phase = "run"
    /\ SupStart(i, Owned(i))
    /\ Go(i, phase)
    /\ UNCHANGED <<mode, target, result, has, safe, cleaned, shared>>

(* What runProcess makes of the status when the supervisor's pipe closes.  *)
Uncontained(s) == s.status \in {"none", "reap-error"}
SupervisorError(s) == Uncontained(s) \/ s.status = "setup-error"
Breach(s) == s.status \in {"descendants", "control-mutation"}
Failed(s) == s.status = "runner-signal" \/ s.runner = "exit1"

(* Mutant: repository-owned state is kept only when the status is missing. *)
PhaseBreaksRemoving(i) ==
    LET s == sup[i]
    IN  /\ at[i] \in {"plan", "run"} /\ s.at = "down"
        /\ SupervisorError(s) \/ Breach(s)
        /\ Throw(i, "error")
        /\ safe' = [safe EXCEPT ![i] = Owned(i)]
        /\ SupRead(i)
        /\ UNCHANGED <<mode, target, has, cleaned, shared>>

(* A supervisor error or a breach.  Gateway-owned state is then kept; the  *)
(* repository-owned state only if a descendant may still be alive.         *)
PhaseBreaks(i) ==
    LET s == sup[i]
    IN  /\ at[i] \in {"plan", "run"} /\ s.at = "down"
        /\ SupervisorError(s) \/ Breach(s)
        /\ Throw(i, "error")
        /\ safe' = [safe EXCEPT ![i] = Owned(i) /\ ~Uncontained(s)]
        /\ SupRead(i)
        /\ UNCHANGED <<mode, target, has, cleaned, shared>>

PhaseReported(i, phase) ==
    At(i, phase) /\ sup[i].at = "down" /\ sup[i].status \in {"runner", "runner-signal"}

PlanFails(i) ==
    /\ PhaseReported(i, "plan") /\ Failed(sup[i])
    /\ Throw(i, IF Owned(i) /\ sup[i].status = "runner-signal" THEN "error" ELSE "FAIL")
    /\ SupRead(i)
    /\ UNCHANGED <<mode, target, has, safe, cleaned, shared>>

(* Gateway-owned: a plan that changed the checkout is a breach. *)
PlanPasses(i) ==
    /\ PhaseReported(i, "plan") /\ ~Failed(sup[i]) /\ ~Owned(i)
    /\ IF dirty[Place(i)]
       THEN Throw(i, "error") /\ safe' = [safe EXCEPT ![i] = FALSE]
       ELSE Go(i, "planned") /\ UNCHANGED <<result, safe>>
    /\ SupRead(i)
    /\ UNCHANGED <<mode, target, has, cleaned, shared>>

(* Repository-owned: so is one that made the directory of the result.      *)
SnapshotPlanPasses(i) ==
    /\ PhaseReported(i, "plan") /\ ~Failed(sup[i]) /\ Owned(i)
    /\ IF native[i] # "none"
       THEN Throw(i, "error")
       ELSE Go(i, "planned") /\ UNCHANGED result
    /\ SupRead(i)
    /\ UNCHANGED <<mode, target, has, safe, cleaned, shared>>

HasEvidence == evidence # NoRun

(* Gateway-owned: the exit code and the checkout decide. *)
RunJudged(i) ==
    /\ PhaseReported(i, "run") /\ ~Owned(i)
    /\ IF Failed(sup[i]) THEN Throw(i, "FAIL") /\ UNCHANGED safe
       ELSE IF ~HasEvidence THEN Throw(i, "error") /\ UNCHANGED safe
       ELSE IF dirty[Place(i)]
            THEN Throw(i, "error") /\ safe' = [safe EXCEPT ![i] = FALSE]
       ELSE Throw(i, "PASS") /\ UNCHANGED safe
    /\ SupRead(i)
    /\ UNCHANGED <<mode, target, has, cleaned, shared>>

(* Repository-owned: the typed evidence decides, if the exit code agrees.  *)
(* Its copy beside the summary is created exclusively.                     *)
EvidenceAgrees(i) == native[i] = IF sup[i].runner = "exit0" THEN "PASS" ELSE "FAIL"

RunCollected(i) ==
    /\ PhaseReported(i, "run") /\ Owned(i)
    /\ IF sup[i].status = "runner-signal" \/ evidence # NoRun \/ ~EvidenceAgrees(i)
       THEN Throw(i, "error") /\ UNCHANGED evidence
       ELSE Throw(i, native[i]) /\ evidence' = i
    /\ native' = [native EXCEPT ![i] = "none"]
    /\ SupRead(i)
    /\ UNCHANGED <<mode, target, has, safe, cleaned,
                   kernel, reservation, runtime, summary, checkout, dirty>>

-----------------------------------------------------------------------------
(* The other checks and file operations of the try block.                  *)
Stops(i) ==
    /\ Throw(i, "error")
    /\ UNCHANGED <<sup, mode, target, has, cleaned, shared>>

(* The base or the head of the pull request moved on the remote. *)
RemoteMoved(i) ==
    /\ at[i] \in IF Owned(i) THEN {"isolate", "planned"} ELSE {"recheck"}
    /\ Stops(i) /\ UNCHANGED safe

(* A directory the run opened was replaced, or cannot be opened. *)
AnchorLost(i) ==
    /\ at[i] \in {"new", "identity", "native", "runtime", "recheck", "isolate", "admit",
                  "ready", "planned"}
    /\ Stops(i) /\ UNCHANGED safe

(* The runner, an integrity file or the venv is not what the spec pins. *)
NotAdmissible(i) == At(i, "admit") /\ Stops(i) /\ UNCHANGED safe

(* A pin no longer holds: the one such check that keeps a gateway-owned    *)
(* checkout.                                                               *)
PinsChanged(i) ==
    /\ at[i] \in {"ready", "planned"} /\ Stops(i)
    /\ safe' = [safe EXCEPT ![i] = Owned(i)]

(* The owner's checkout cannot be read, or is not where it was. *)
OwnerChanged(i) ==
    /\ at[i] \in IF Owned(i) THEN {"new", "isolate", "planned"} ELSE {"new"}
    /\ Stops(i) /\ UNCHANGED safe

(* The remote moved, or a root was replaced, by the time the run ends. *)
LateFailure(i) ==
    /\ At(i, "close") /\ result[i] \in Verdicts /\ "admitted" \in has[i]
    /\ Judge(i, "error") /\ Go(i, "close")
    /\ UNCHANGED <<sup, mode, target, has, safe, cleaned, shared>>

-----------------------------------------------------------------------------
(* The finally block. *)
ReleaseNative(i) ==
    /\ At(i, "close")
    /\ reservation' = IF "native" \in has[i] /\ safe[i] THEN NoRun ELSE reservation
    /\ Go(i, "release")
    /\ UNCHANGED <<sup, mode, target, result, has, safe, cleaned,
                   kernel, runtime, native, evidence, summary, checkout, dirty>>

ReleaseKernel(i) ==
    /\ At(i, "release")
    /\ kernel' = IF "kernel" \in has[i] /\ safe[i] THEN NoRun ELSE kernel
    /\ Go(i, "remove")
    /\ UNCHANGED <<sup, mode, target, result, has, safe, cleaned,
                   reservation, runtime, native, evidence, summary, checkout, dirty>>

(* A release that fails changes the result and keeps the rest. *)
ReleaseNativeFails(i) ==
    /\ At(i, "close") /\ "native" \in has[i] /\ safe[i]
    /\ Go(i, "release") /\ Judge(i, "error")
    /\ UNCHANGED <<sup, mode, target, has, safe, cleaned, shared>>

ReleaseKernelFails(i) ==
    /\ At(i, "release") /\ "kernel" \in has[i] /\ safe[i]
    /\ Go(i, "remove") /\ Judge(i, "error")
    /\ UNCHANGED <<sup, mode, target, has, safe, cleaned, shared>>

Removable(i) == "checkout" \in has[i] /\ safe[i]

RemoveCheckout(i) ==
    /\ At(i, "remove") /\ Removable(i)
    /\ (Owned(i) /\ "admitted" \in has[i]) => ~dirty[Place(i)]
    /\ checkout' = [checkout EXCEPT ![Place(i)] = NoRun]
    /\ dirty' = [dirty EXCEPT ![Place(i)] = FALSE]
    /\ cleaned' = [cleaned EXCEPT ![i] = TRUE]
    /\ Go(i, "report")
    /\ UNCHANGED <<sup, mode, target, result, has, safe,
                   kernel, reservation, runtime, native, evidence, summary>>

(* Mutant: a checkout that may be removed is never left to the report. *)
KeepCheckoutUnlessRemovable(i) ==
    /\ At(i, "remove") /\ ~Removable(i) /\ Go(i, "report")
    /\ UNCHANGED <<sup, mode, target, result, has, safe, cleaned, shared>>

(* Nothing to remove, kept on purpose, changed, or not removable. *)
KeepCheckout(i) ==
    /\ At(i, "remove")
    /\ IF Removable(i) /\ Owned(i) THEN Judge(i, "error") ELSE UNCHANGED result
    /\ Go(i, "report")
    /\ UNCHANGED <<sup, mode, target, has, safe, cleaned, shared>>

(* The result that is told in the end: a PASS needs the clean-up and the   *)
(* owner's checkout as it was.  Mutant: the clean-up is not asked for.     *)
ToldUncleaned(i, kept) == IF ~kept THEN "error" ELSE result[i]
Told(i, kept) ==
    IF ~kept \/ (result[i] = "PASS" /\ ~cleaned[i]) THEN "error" ELSE result[i]

(* The summary goes into the reserved file, or is created exclusively.     *)
Mine(i) == IF Owned(i) THEN "summary" \in has[i] ELSE "anchor" \in has[i] /\ summary.by = NoRun
Due(i) == (IF Owned(i) THEN "summary" ELSE "anchor") \in has[i]

(* How the write ends: refused or failed before a byte of it is on disk,   *)
(* cut short, whole but not confirmed (the sync, the last revalidation or  *)
(* the close fails), or done.                                              *)
Writes == {"none", "part", "whole", "done"}

Written(i, write, told) ==
    CASE write = "none" -> summary
      [] write = "part" -> [by |-> i, result |-> "none"]
      [] write \in {"whole", "done"} -> [by |-> i, result |-> told]

(* Mutant: a write that fails does not change the result.                  *)
ReportUnheeded(i) ==
    /\ At(i, "report")
    /\ \E kept \in BOOLEAN, write \in Writes :
          /\ write # "none" => Mine(i)
          /\ summary' = Written(i, write, Told(i, kept))
          /\ Judge(i, Told(i, kept))
    /\ Go(i, "end")
    /\ UNCHANGED <<sup, mode, target, has, safe, cleaned,
                   kernel, reservation, runtime, native, evidence, checkout, dirty>>

(* A write that fails changes the result that is returned, not the file.   *)
Report(i) ==
    /\ At(i, "report")
    /\ \E kept \in BOOLEAN, write \in Writes :
          /\ write # "none" => Mine(i)
          /\ summary' = Written(i, write, Told(i, kept))
          /\ Judge(i, IF Due(i) /\ write # "done" THEN "error" ELSE Told(i, kept))
    /\ Go(i, "end")
    /\ UNCHANGED <<sup, mode, target, has, safe, cleaned,
                   kernel, reservation, runtime, native, evidence, checkout, dirty>>

(* The process exits, or is killed: its memory and its socket are gone, and *)
(* nobody looks at a checkout it kept any more.                             *)
Gone(i, p) ==
    /\ Go(i, p)
    /\ has' = [has EXCEPT ![i] = {}]
    /\ safe' = [safe EXCEPT ![i] = TRUE] /\ cleaned' = [cleaned EXCEPT ![i] = FALSE]
    /\ kernel' = IF kernel = i THEN NoRun ELSE kernel
    /\ UNCHANGED <<sup, mode, target, reservation, runtime, native, evidence, summary, checkout>>
    /\ dirty' = [q \in Places |-> dirty[q] /\ checkout[q] # i]

Exit(i) == At(i, "end") /\ Gone(i, "exited") /\ UNCHANGED result
Crash(i) ==
    /\ at[i] \notin {"new", "exited", "crashed"}
    /\ Gone(i, "crashed") /\ Judge(i, "none")

-----------------------------------------------------------------------------
(* The runner writes its evidence where its arguments tell it; the typed   *)
(* evidence is read by its own gateway only.                               *)
RunnerWrites(i, verdict) ==
    /\ Live(i)
    /\ Owned(i) => at[i] \in {"plan", "run"}
    /\ IF Owned(i)
       THEN native' = [native EXCEPT ![i] = verdict] /\ UNCHANGED evidence
       ELSE evidence' = i /\ UNCHANGED native
    /\ UNCHANGED <<sup, local, kernel, reservation, runtime, summary, checkout, dirty>>

(* Someone changes a checkout a gateway still looks at, or changes it      *)
(* back; a watch sees both.                                                *)
Disturb(i) ==
    LET p == Place(i)
    IN  /\ checkout[p] = i /\ at[i] \notin {"report", "end", "exited", "crashed"}
        /\ dirty' = [dirty EXCEPT ![p] = ~@]
        /\ sup' = IF sup[i].watched
                  THEN [sup EXCEPT ![i].touched = TRUE] ELSE sup
        /\ UNCHANGED <<local, kernel, reservation, runtime, native, evidence, summary, checkout>>

AdmissionStep(i) ==
    \/ CheckFree(i) \/ ReserveKernel(i) \/ ReserveSummary(i) \/ ReserveNative(i)
    \/ MakeRuntime(i) \/ Refused(i) \/ Recheck(i)
    \/ AddWorktree(i) \/ CloneSnapshot(i) \/ AdmitWorktree(i) \/ AdmitSnapshot(i)
    \/ \E phase \in {"plan", "run"} : StartPhase(i, phase)
PhaseStep(i) ==
    \/ PhaseBreaks(i) \/ PlanFails(i) \/ PlanPasses(i) \/ SnapshotPlanPasses(i)
    \/ RunJudged(i) \/ RunCollected(i)
CloseStep(i) ==
    \/ ReleaseNative(i) \/ ReleaseKernel(i) \/ ReleaseNativeFails(i) \/ ReleaseKernelFails(i)
    \/ RemoveCheckout(i) \/ KeepCheckout(i) \/ Report(i)
OtherStep(i) ==
    \/ RemoteMoved(i) \/ AnchorLost(i) \/ NotAdmissible(i) \/ PinsChanged(i)
    \/ OwnerChanged(i) \/ LateFailure(i) \/ Exit(i) \/ Crash(i) \/ Disturb(i)
    \/ \E verdict \in Verdicts : RunnerWrites(i, verdict)

Next == \E i \in Runs :
    \/ AdmissionStep(i) \/ PhaseStep(i) \/ CloseStep(i) \/ OtherStep(i)
    \/ (SupStep(i) \/ RunnerStep(i)) /\ UNCHANGED <<local, shared>>

(* Node's event loop and the supervisor's loop keep going; a runner need   *)
(* not ever exit.                                                          *)
Fairness == \A i \in Runs :
    /\ SupFair(i)
    /\ WF_vars(PhaseStep(i)) /\ WF_vars(CloseStep(i))

Spec == Init /\ [][Next]_vars /\ Fairness

-----------------------------------------------------------------------------
(* A typed status other than reap-error is only reported once no process   *)
(* of the phase is left (contain_descendants before every return).         *)
StatusMeansContained ==
    \A i \in Runs : sup[i].status \in Contained => ~Live(i)

(* As long as any process of a runner lives, whatever became of its        *)
(* gateway, its checkout and its reservation are still its own.            *)
LiveRunnersOwnTheirState ==
    \A i \in Runs : Live(i) =>
        /\ checkout[Place(i)] = i
        /\ Owned(i) => reservation = i /\ runtime = i

(* A PASS that was returned, or that is on disk whatever was returned.     *)
Passed(i) ==
    \/ at[i] \in {"end", "exited"} /\ result[i] = "PASS"
    \/ summary = [by |-> i, result |-> "PASS"]

(* A run that passed has left nothing running and nothing behind, and its  *)
(* control checkout was not touched while the runner ran: also where the   *)
(* PASS on disk is all there is, because the write of it failed in the end *)
(* or the process was killed before it could return (finally blocks).      *)
PassIsClean ==
    \A i \in Runs : Passed(i) =>
        /\ ~Live(i) /\ checkout[Place(i)] # i
        /\ Owned(i) => ~sup[i].touched /\ {kernel, reservation} \cap {i} = {}

(* A verdict of the assessment that was returned is the one on disk, and   *)
(* stays it whatever other run of the id comes (writeReservedAnchoredFile, *)
(* writeSummary).  The converse does not hold: the disk may say PASS where *)
(* the caller was told of an error.                                        *)
ReturnIsOnDisk ==
    \A i \in Runs : at[i] \in {"end", "exited"} /\ result[i] \in Verdicts =>
        summary = [by |-> i, result |-> result[i]]

(* When the runner of the run phase has exited, the run is reported,       *)
(* whatever the runner left behind.                                        *)
EndedRunsReport ==
    \A i \in Runs : At(i, "run") /\ sup[i].runner \in RunnerEnds
                        ~> at[i] \in {"end", "exited", "crashed"}
=============================================================================
