--------------------------- MODULE RunnerSupervisor ---------------------------
(***************************************************************************)
(* scripts/repo-pr-runner-supervisor.py: the child subreaper that runs one *)
(* phase of an admitted assessment runner, contains what the runner left   *)
(* behind and reports one typed status on a descriptor of its own.         *)
(*                                                                         *)
(* kids counts the live descendants beside the runner; found says that the *)
(* clean-up found or will reap one.  touched says that a watched           *)
(* control path or its directory has changed since the watch was set up:   *)
(* Landlock keeps the runner from writing there, other processes and       *)
(* attribute changes remain.                                               *)
(*                                                                         *)
(* A wait for a child that this process forked and has not reaped does not *)
(* fail; the exits for that (fail before the containment) are left out.    *)
(***************************************************************************)
EXTENDS Naturals

CONSTANTS Runs,      \* one supervisor at a time for each run of an assessment
          MaxKids    \* bound on the descendants alive at once

ASSUME SupervisorAssumption == MaxKids \in Nat

VARIABLE sup

RunnerEnds == {"exit0", "exit1", "signal"}
Contained == {"runner", "runner-signal", "descendants", "control-mutation", "setup-error"}
Statuses == Contained \cup {"none", "reap-error"}

Supervisor ==
    [at : {"off", "setup", "waiting", "reaping", "down"},
     runner : RunnerEnds \cup {"none", "alive"}, kids : 0..MaxKids,
     watched : BOOLEAN, touched : BOOLEAN, found : BOOLEAN, status : Statuses]

Idle == [at |-> "off", runner |-> "none", kids |-> 0,
         watched |-> FALSE, touched |-> FALSE, found |-> FALSE, status |-> "none"]

SupTypeOK == sup \in [Runs -> Supervisor]
SupInit == sup = [i \in Runs |-> Idle]

(* A process of the phase is running. *)
Live(i) == sup[i].runner = "alive" \/ sup[i].kids > 0

-----------------------------------------------------------------------------
(* main: the descriptors, the watch and the write allowlist. *)
SupStart(i, watched) ==
    sup' = [sup EXCEPT ![i] = [Idle EXCEPT !.at = "setup", !.watched = watched]]

(* The supervisor is gone; what it reported, and the processes, are left.  *)
Down(s, status) ==
    [s EXCEPT !.at = "down", !.status = status, !.watched = FALSE, !.found = FALSE]

SupLaunch(i) ==
    /\ sup[i].at = "setup"
    /\ sup' = [sup EXCEPT ![i].at = "waiting", ![i].runner = "alive"]

SupSetupFails(i) ==
    /\ sup[i].at = "setup"
    /\ sup' = [sup EXCEPT ![i] = Down(@, "setup-error")]

(* The runner and what it starts, whether or not anyone still watches. *)
RunnerForks(i) ==
    /\ Live(i) /\ sup[i].kids < MaxKids
    /\ sup' = [sup EXCEPT ![i].kids = @ + 1]

RunnerExits(i, how) ==
    /\ sup[i].runner = "alive"
    /\ sup' = [sup EXCEPT ![i].runner = how]

(* A descendant exits; its parent may reap it while the runner is there,   *)
(* and init does once the supervisor is gone.                              *)
KidExits(i) ==
    /\ sup[i].kids > 0
    /\ \E left \in BOOLEAN :
          /\ sup[i].runner # "alive" => left
          /\ sup' = [sup EXCEPT ![i].kids = @ - 1, ![i].found = (@ \/ left) /\ sup[i].at # "down"]

(* execute_runner waits for the runner, and only then looks for the rest. *)
SupWaits(i) ==
    /\ sup[i].at = "waiting" /\ sup[i].runner # "alive"
    /\ sup' = [sup EXCEPT ![i].at = "reaping"]

(* contain_descendants: one pass kills what its scan found and reaps what  *)
(* has exited; a descendant forked behind the scan is left for the next.   *)
SupReaps(i) ==
    /\ sup[i].at = "reaping"
    /\ \E rest \in 0..MaxKids :
          /\ rest < sup[i].kids
          /\ sup' = [sup EXCEPT ![i].kids = rest, ![i].found = TRUE]

(* The deadline passes, a signal is refused, or procfs cannot be read. *)
SupOverdue(i) ==
    /\ sup[i].at = "reaping" /\ sup[i].kids > 0
    /\ sup' = [sup EXCEPT ![i] = Down(@, "reap-error")]

StatusOf(s) ==
    IF s.found THEN "descendants"
    ELSE IF s.touched THEN "control-mutation"
    ELSE IF s.runner = "signal" THEN "runner-signal" ELSE "runner"

(* Mutant: the status is written as soon as the runner has exited. *)
SupReportsEarly(i) ==
    /\ sup[i].at = "reaping"
    /\ sup' = [sup EXCEPT ![i] = Down(@, StatusOf(@))]

(* The holder of the control directory ended badly, the runner could not be *)
(* executed, or the watch cannot be read: looked at after the containment.  *)
SupReports(i) ==
    /\ sup[i].at = "reaping" /\ sup[i].kids = 0
    /\ \E status \in {StatusOf(sup[i])} \cup (IF sup[i].found THEN {} ELSE {"setup-error"}) :
          sup' = [sup EXCEPT ![i] = Down(@, status)]

(* The supervisor itself is killed: its status pipe closes without a word. *)
SupKilled(i) ==
    /\ sup[i].at \notin {"off", "down"}
    /\ sup' = [sup EXCEPT ![i] = Down(@, "none")]

(* The gateway has read the status: only the processes matter from here.   *)
SupRead(i) ==
    sup' = [sup EXCEPT ![i] =
        [Idle EXCEPT !.kids = sup[i].kids, !.touched = sup[i].touched,
                     !.runner = IF sup[i].runner = "alive" THEN "alive" ELSE "none"]]

SupLoop(i) == SupWaits(i) \/ SupReaps(i) \/ SupReports(i)

SupStep(i) == \/ SupLaunch(i) \/ SupSetupFails(i)
              \/ SupLoop(i) \/ SupOverdue(i) \/ SupKilled(i)
RunnerStep(i) == \/ RunnerForks(i) \/ KidExits(i)
                 \/ \E how \in RunnerEnds : RunnerExits(i, how)

(* The loop runs until its deadline, which comes however fast the          *)
(* descendants fork.                                                       *)
SupFair(i) == WF_sup(SupLoop(i)) /\ SF_sup(SupOverdue(i))
=============================================================================
