------------------------- MODULE RepoAssessmentProofs -------------------------
(***************************************************************************)
(* Proofs about the assessment gateway and its runner supervisor.          *)
(*                                                                         *)
(* The properties follow from an invariant about each run: what its        *)
(* supervisor has reported (SupWell), who owns the state of a phase that   *)
(* may still have processes (PhaseOwns), that what the process believes it *)
(* has acquired is on disk (Holding), that every point of the try block is *)
(* reached with what the earlier ones acquire (Earned), and what a verdict *)
(* has passed through, in memory and on disk (Passing).  A step of one run *)
(* leaves the invariant of the others alone because whatever it takes was  *)
(* free and whatever it gives up was its own (Spares).                     *)
(***************************************************************************)
EXTENDS RepoAssessment, TLAPS

Busy == {"setup", "waiting", "reaping"}
Closing == {"close", "release", "remove", "report", "end"}

(* A process of the phase runs or may yet be started. *)
Running(s) == s.runner = "alive" \/ s.kids > 0 \/ s.at \in Busy

(* A supervisor's record s. *)
SupWell(s) ==
    /\ s.status # "none" => s.at = "down"
    /\ s.at = "setup" => s.runner = "none" /\ s.kids = 0
    /\ s.at = "reaping" => s.runner # "alive"
    /\ s.status \in Contained => s.runner # "alive" /\ s.kids = 0
    /\ s.watched => s.at \in Busy
    /\ s.status \in {"runner", "runner-signal"} => ~s.touched

(* What a step of the supervisor or of the runner makes of a record. *)
Follows(s, t) ==
    /\ SupWell(t)
    /\ t.at # "off" => s.at # "off"
    /\ Running(t) => Running(s)
    /\ t.touched = s.touched
    /\ t.watched => s.watched

PhaseOwns(i) ==
    /\ sup[i].at # "off" => at[i] \in {"plan", "run", "crashed"}
    /\ Running(sup[i]) =>
          /\ at[i] \in {"plan", "run", "crashed", "exited"} \/ (at[i] \in Closing /\ ~safe[i])
          /\ checkout[Place(i)] = i
          /\ Owned(i) => reservation = i /\ runtime = i

Holding(i) ==
    /\ "kernel" \in has[i] /\ at[i] \notin {"remove", "report", "end"} => kernel = i
    /\ "native" \in has[i] /\ at[i] \notin {"release", "remove", "report", "end"}
           => reservation = i
    /\ "checkout" \in has[i] /\ at[i] \notin {"report", "end"} => checkout[Place(i)] = i
    /\ "summary" \in has[i] => Owned(i) /\ summary.by = i

(* The run is past its admission and has not failed. *)
Working(i) ==
    \/ at[i] \in {"ready", "plan", "planned", "run"}
    \/ at[i] \in {"close", "release", "remove", "report"} /\ result[i] \in Verdicts

Earned(i) ==
    /\ at[i] \in {"reserve", "identity", "native", "runtime"} => Owned(i)
    /\ at[i] = "recheck" => ~Owned(i)
    /\ Owned(i) =>
          /\ at[i] \in {"identity", "native", "runtime", "isolate", "admit"} \/ Working(i)
                 => "kernel" \in has[i]
          /\ at[i] \in {"native", "runtime", "isolate", "admit"} \/ Working(i)
                 => "summary" \in has[i]
          /\ at[i] \in {"runtime", "isolate", "admit"} \/ Working(i) => "native" \in has[i]
          /\ at[i] \in {"isolate", "admit"} \/ Working(i) => runtime = i
    /\ ~Owned(i) /\ (at[i] \in {"isolate", "admit"} \/ Working(i)) => "anchor" \in has[i]
    /\ at[i] = "admit" \/ Working(i) => "checkout" \in has[i]

Passing(i) ==
    /\ cleaned[i] => at[i] \in {"report", "end"} /\ safe[i] /\ checkout[Place(i)] # i
    /\ summary.by = i /\ summary.result = "PASS" =>
          /\ at[i] \in {"end", "exited", "crashed"} /\ checkout[Place(i)] # i
          /\ Owned(i) => ~sup[i].touched /\ ~sup[i].watched /\ kernel # i /\ reservation # i
    /\ result[i] \in Verdicts =>
          /\ at[i] \in Closing \/ at[i] = "exited"
          /\ at[i] \in {"end", "exited"} => summary.by = i /\ summary.result = result[i]
    /\ result[i] = "PASS" /\ Owned(i) =>
          /\ ~sup[i].touched /\ ~sup[i].watched
          /\ at[i] \in {"release", "remove", "report"} /\ safe[i] => reservation # i
          /\ at[i] \in {"remove", "report"} /\ safe[i] => kernel # i

RunWell(i) == SupWell(sup[i]) /\ PhaseOwns(i) /\ Holding(i) /\ Earned(i) /\ Passing(i)

IInv ==
    /\ TypeOK
    /\ summary.by = NoRun => summary.result = "none"
    /\ \A i \in Runs : RunWell(i)

-----------------------------------------------------------------------------
(* The supervisor. *)

LEMMA Fields ==
    ASSUME NEW s \in Supervisor
    PROVE  /\ s.kids \in 0..MaxKids /\ s.kids \in Nat
           /\ s.watched \in BOOLEAN /\ s.touched \in BOOLEAN /\ s.found \in BOOLEAN
           /\ s.status \in Statuses
           /\ s.at \in {"off", "setup", "waiting", "reaping", "down"}
           /\ s.runner \in RunnerEnds \cup {"none", "alive"}
BY SupervisorAssumption DEF Supervisor

(* A step of the supervisor or of the runner changes one record, keeps it  *)
(* well formed, and never brings a phase back to life.                     *)
LEMMA SupStepFollows ==
    ASSUME SupTypeOK, NEW i \in Runs, SupWell(sup[i]), SupStep(i) \/ RunnerStep(i)
    PROVE  \E t \in Supervisor : sup' = [sup EXCEPT ![i] = t] /\ Follows(sup[i], t)
<1> DEFINE s == sup[i]
<1> USE SupervisorAssumption
<1>1. s \in Supervisor
    BY DEF SupTypeOK
<1>2. SupWell(s)
    OBVIOUS
<1>3. /\ s.kids \in 0..MaxKids /\ s.kids \in Nat
      /\ s.watched \in BOOLEAN /\ s.touched \in BOOLEAN /\ s.found \in BOOLEAN
    BY <1>1, Fields
<1>4. CASE SupLaunch(i)
  <2> DEFINE t == [s EXCEPT !.at = "waiting", !.runner = "alive"]
  <2>1. sup' = [sup EXCEPT ![i] = t] /\ s.at = "setup"
      BY <1>4 DEF SupLaunch
  <2>2. t \in Supervisor
      BY <1>1 DEF Supervisor
  <2>3. Follows(s, t)
      BY <1>1, <1>2, <1>3, <2>1 DEF Follows, SupWell, Running, Busy, Contained, Supervisor
  <2> QED
      BY <2>1, <2>2, <2>3
<1>5. ASSUME NEW status \in Statuses, sup' = [sup EXCEPT ![i] = Down(s, status)], s.at \in Busy,
             status \in Contained => s.runner # "alive" /\ s.kids = 0,
             status \in {"runner", "runner-signal"} => ~s.touched
      PROVE  \E t \in Supervisor : sup' = [sup EXCEPT ![i] = t] /\ Follows(s, t)
  <2> DEFINE t == Down(s, status)
  <2>1. t \in Supervisor
      BY <1>1 DEF Supervisor, Down
  <2>2. Follows(s, t)
      BY <1>1, <1>2, <1>3, <1>5 DEF Follows, SupWell, Running, Busy, Contained, Supervisor, Down
  <2> QED
      BY <1>5, <2>1, <2>2
<1>6. CASE SupSetupFails(i)
    BY <1>2, <1>5, <1>6 DEF SupSetupFails, SupWell, Busy, Statuses, Contained
<1>7. CASE SupWaits(i)
  <2> DEFINE t == [s EXCEPT !.at = "reaping"]
  <2>1. sup' = [sup EXCEPT ![i] = t] /\ s.at = "waiting" /\ s.runner # "alive"
      BY <1>7 DEF SupWaits
  <2>2. t \in Supervisor
      BY <1>1 DEF Supervisor
  <2>3. Follows(s, t)
      BY <1>1, <1>2, <1>3, <2>1 DEF Follows, SupWell, Running, Busy, Contained, Supervisor
  <2> QED
      BY <2>1, <2>2, <2>3
<1>8. CASE SupReaps(i)
  <2>1. PICK rest \in 0..MaxKids :
            /\ rest < s.kids
            /\ sup' = [sup EXCEPT ![i] = [s EXCEPT !.kids = rest, !.found = TRUE]]
      BY <1>8 DEF SupReaps
  <2> DEFINE t == [s EXCEPT !.kids = rest, !.found = TRUE]
  <2>2. s.at = "reaping"
      BY <1>8 DEF SupReaps
  <2>3. t \in Supervisor
      BY <1>1 DEF Supervisor
  <2>4. Follows(s, t)
      BY <1>1, <1>2, <1>3, <2>1, <2>2
         DEF Follows, SupWell, Running, Busy, Contained, Supervisor
  <2> QED
      BY <2>1, <2>3, <2>4
<1>9. CASE SupReports(i)
  <2>1. PICK status \in {StatusOf(s)} \cup (IF s.found THEN {} ELSE {"setup-error"}) :
            sup' = [sup EXCEPT ![i] = Down(s, status)]
      BY <1>9 DEF SupReports
  <2>2. s.at = "reaping" /\ s.kids = 0 /\ s.runner # "alive"
      BY <1>2, <1>9 DEF SupReports, SupWell
  <2>3. /\ status \in Statuses
        /\ status \in {"runner", "runner-signal"} => ~s.touched
    <3>1. status = StatusOf(s) \/ status = "setup-error"
        OBVIOUS
    <3> QED
        BY <3>1 DEF StatusOf, Statuses, Contained
  <2> QED
      BY <1>5, <2>1, <2>2, <2>3 DEF Busy
<1>10. CASE SupOverdue(i)
    BY <1>5, <1>10 DEF SupOverdue, Busy, Statuses, Contained
<1>11. CASE SupKilled(i)
  <2>1. s.at \in Busy
      BY <1>3, <1>1, <1>11, Fields DEF SupKilled, Busy
  <2> QED
      BY <1>5, <1>11, <2>1 DEF SupKilled, Statuses, Contained
<1>12. CASE RunnerForks(i)
  <2> DEFINE t == [s EXCEPT !.kids = s.kids + 1]
  <2>1. /\ sup' = [sup EXCEPT ![i] = t] /\ s.kids < MaxKids
        /\ s.runner = "alive" \/ s.kids > 0
      BY <1>12 DEF RunnerForks, Live
  <2>2. t \in Supervisor
      BY <1>1, <1>3, <2>1 DEF Supervisor
  <2>3. Follows(s, t)
      BY <1>1, <1>2, <1>3, <2>1 DEF Follows, SupWell, Running, Busy, Contained, Supervisor
  <2> QED
      BY <2>1, <2>2, <2>3
<1>13. CASE KidExits(i)
  <2>1. PICK left \in BOOLEAN :
            sup' = [sup EXCEPT ![i] = [s EXCEPT !.kids = s.kids - 1,
                                                !.found = (s.found \/ left) /\ s.at # "down"]]
      BY <1>13 DEF KidExits
  <2> DEFINE found == (s.found \/ left) /\ s.at # "down"
             t == [s EXCEPT !.kids = s.kids - 1, !.found = found]
  <2>2. s.kids > 0
      BY <1>13 DEF KidExits
  <2>3. found \in BOOLEAN /\ s.kids - 1 \in 0..MaxKids
      BY <1>3, <2>2
  <2>4. t \in Supervisor
    <3> HIDE DEF found
    <3> QED
        BY <1>1, <2>3 DEF Supervisor
  <2>5. Follows(s, t)
    <3> HIDE DEF found
    <3> QED
        BY <1>1, <1>2, <1>3, <2>2 DEF Follows, SupWell, Running, Busy, Contained, Supervisor
  <2> QED
      BY <2>1, <2>4, <2>5
<1>14. CASE \E how \in RunnerEnds : RunnerExits(i, how)
  <2>1. PICK how \in RunnerEnds : RunnerExits(i, how)
      BY <1>14
  <2> DEFINE t == [s EXCEPT !.runner = how]
  <2>2. sup' = [sup EXCEPT ![i] = t] /\ s.runner = "alive" /\ how # "alive"
      BY <2>1 DEF RunnerExits, RunnerEnds
  <2>3. t \in Supervisor
      BY <1>1 DEF Supervisor
  <2>4. Follows(s, t)
      BY <1>1, <1>2, <1>3, <2>2 DEF Follows, SupWell, Running, Busy, Contained, Supervisor
  <2> QED
      BY <2>2, <2>3, <2>4
<1> QED
    BY <1>4, <1>6, <1>7, <1>8, <1>9, <1>10, <1>11, <1>12, <1>13, <1>14
       DEF SupStep, SupLoop, RunnerStep

-----------------------------------------------------------------------------
(* Type correctness. *)

LEMMA IdleRecord ==
    /\ Idle \in Supervisor
    /\ Idle.at = "off" /\ Idle.runner = "none" /\ Idle.kids = 0 /\ Idle.status = "none"
    /\ ~Idle.watched /\ ~Idle.touched
BY SupervisorAssumption DEF Idle, Supervisor, Statuses

(* Starting a phase and reading its status. *)
LEMMA SupStarted ==
    ASSUME SupTypeOK, NEW i \in Runs, NEW w \in BOOLEAN, SupStart(i, w)
    PROVE  \E t \in Supervisor :
              /\ sup' = [sup EXCEPT ![i] = t]
              /\ SupWell(t) /\ Running(t) /\ ~t.touched /\ t.at = "setup"
<1> DEFINE t == [Idle EXCEPT !.at = "setup", !.watched = w]
<1>1. sup' = [sup EXCEPT ![i] = t]
    BY DEF SupStart
<1>2. t \in Supervisor
    BY IdleRecord DEF Supervisor
<1>3. /\ t.at = "setup" /\ t.runner = "none" /\ t.kids = 0
      /\ ~t.touched /\ t.status = "none"
    BY IdleRecord DEF Supervisor
<1> HIDE DEF t
<1>4. SupWell(t) /\ Running(t)
    BY <1>3 DEF SupWell, Running, Busy, Contained
<1> QED
    BY <1>1, <1>2, <1>3, <1>4

LEMMA SupIsRead ==
    ASSUME SupTypeOK, NEW i \in Runs, SupRead(i)
    PROVE  \E t \in Supervisor :
              /\ sup' = [sup EXCEPT ![i] = t]
              /\ SupWell(t) /\ t.at = "off" /\ ~t.watched /\ t.touched = sup[i].touched
              /\ Running(t) <=> Live(i)
<1> DEFINE s == sup[i]
           runner == IF s.runner = "alive" THEN "alive" ELSE "none"
           t == [Idle EXCEPT !.kids = s.kids, !.touched = s.touched, !.runner = runner]
<1>1. sup' = [sup EXCEPT ![i] = t]
    BY DEF SupRead
<1>2. /\ s.kids \in 0..MaxKids /\ s.touched \in BOOLEAN
      /\ runner \in RunnerEnds \cup {"none", "alive"}
      /\ runner = "alive" <=> s.runner = "alive"
    BY Fields DEF SupTypeOK
<1>3. t \in Supervisor
  <2> HIDE DEF runner
  <2> QED
      BY <1>2, IdleRecord DEF Supervisor
<1>4. /\ t.at = "off" /\ t.runner = runner /\ t.kids = s.kids /\ ~t.watched
      /\ t.touched = s.touched /\ t.status = "none"
  <2> HIDE DEF runner
  <2> QED
      BY <1>2, IdleRecord DEF Supervisor
<1> HIDE DEF t, runner
<1>5. SupWell(t) /\ (Running(t) <=> Live(i))
    BY <1>2, <1>4 DEF SupWell, Contained, Running, Busy, Live
<1> QED
    BY <1>1, <1>3, <1>4, <1>5

LEMMA TypeStep ==
    ASSUME IInv, [Next]_vars
    PROVE  TypeOK'
<1>1. TypeOK
    BY DEF IInv
<1>4. ASSUME NEW i \in Runs, NEW p \in Points, Go(i, p)
      PROVE  at' \in [Runs -> Points]
    BY <1>1, <1>4 DEF TypeOK, Go
<1>5. ASSUME NEW i \in Runs, NEW r \in Results \cup {"none"}, Judge(i, r)
      PROVE  result' \in [Runs -> Results \cup {"none"}]
    BY <1>1, <1>5 DEF TypeOK, Judge
<1>6. ASSUME NEW i \in Runs, NEW thing \in Things, Gains(i, thing)
      PROVE  has' \in [Runs -> SUBSET Things]
    BY <1>1, <1>6 DEF TypeOK, Gains
<1>7. ASSUME NEW i \in Runs, NEW r \in Results, Throw(i, r)
      PROVE  at' \in [Runs -> Points] /\ result' \in [Runs -> Results \cup {"none"}]
    BY <1>4, <1>5, <1>7 DEF Throw, Points
<1>8. ASSUME NEW p \in Places, NEW r \in Runs \cup {NoRun}, NEW b \in BOOLEAN
      PROVE  /\ [checkout EXCEPT ![p] = r] \in [Places -> Runs \cup {NoRun}]
             /\ [dirty EXCEPT ![p] = b] \in [Places -> BOOLEAN]
    BY <1>1 DEF TypeOK
<1>9. ASSUME NEW i \in Runs, NEW b \in BOOLEAN
      PROVE  /\ [safe EXCEPT ![i] = b] \in [Runs -> BOOLEAN]
             /\ [cleaned EXCEPT ![i] = b] \in [Runs -> BOOLEAN]
    BY <1>1 DEF TypeOK
<1> USE <1>4, <1>5, <1>6, <1>7, <1>8, <1>9 DEF TypeOK, At, Verdicts, Results, Things, Points
<1>2. CASE UNCHANGED vars
    BY <1>1, <1>2 DEF vars, local, shared, SupTypeOK
<1>3. CASE Next
  <2>1. PICK i \in Runs : \/ AdmissionStep(i) \/ PhaseStep(i) \/ CloseStep(i) \/ OtherStep(i)
                          \/ (SupStep(i) \/ RunnerStep(i)) /\ UNCHANGED <<local, shared>>
      BY <1>3 DEF Next
  <2>2. Place(i) \in Places
      BY <1>1 DEF Place, Places
  <2>3. CASE AdmissionStep(i)
    <3> USE <1>1, <2>2 DEF shared, SupTypeOK
    <3>1. CASE CheckFree(i) \/ Recheck(i) \/ Refused(i)
        BY <3>1 DEF CheckFree, Recheck, Refused
    <3>2. CASE ReserveKernel(i) \/ ReserveSummary(i) \/ ReserveNative(i) \/ MakeRuntime(i)
        BY <3>2 DEF ReserveKernel, ReserveSummary, ReserveNative, MakeRuntime
    <3>3. CASE AddWorktree(i) \/ CloneSnapshot(i)
      <4>1. /\ checkout' = [checkout EXCEPT ![Place(i)] = i]
            /\ dirty' = [dirty EXCEPT ![Place(i)] = FALSE]
          BY <3>3 DEF AddWorktree, CloneSnapshot, Isolate
      <4>2. checkout' \in [Places -> Runs \cup {NoRun}] /\ dirty' \in [Places -> BOOLEAN]
          BY <4>1
      <4> QED
          BY <3>3, <4>2 DEF AddWorktree, CloneSnapshot, Isolate
    <3>4. CASE AdmitWorktree(i) \/ AdmitSnapshot(i)
        BY <3>4 DEF AdmitWorktree, AdmitSnapshot, Admit
    <3>5. ASSUME NEW phase \in {"plan", "run"}, StartPhase(i, phase)
          PROVE  TypeOK'
      <4>1. SupTypeOK'
        <5>1. Owned(i) \in BOOLEAN /\ SupStart(i, Owned(i))
            BY <3>5 DEF StartPhase, Owned
        <5> QED
            BY <5>1, SupStarted
      <4> QED
          BY <3>5, <4>1 DEF StartPhase
    <3> QED
        BY <2>3, <3>1, <3>2, <3>3, <3>4, <3>5 DEF AdmissionStep
  <2>4. CASE PhaseStep(i)
    <3> USE <1>1, <2>2 DEF shared
    <3>1. SupRead(i) => SupTypeOK'
        BY SupIsRead DEF SupTypeOK
    <3>2. CASE PhaseBreaks(i)
        BY <3>1, <3>2 DEF PhaseBreaks, Owned, Uncontained
    <3>3. CASE PlanFails(i)
        BY <3>1, <3>3 DEF PlanFails
    <3>6. CASE PlanPasses(i)
      <4>1. safe' = safe \/ safe' = [safe EXCEPT ![i] = FALSE]
          BY <3>6 DEF PlanPasses
      <4>2. safe' \in [Runs -> BOOLEAN]
          BY <4>1
      <4>3. at' \in [Runs -> Points] /\ result' \in [Runs -> Results \cup {"none"}]
          BY <3>6 DEF PlanPasses
      <4> QED
          BY <3>1, <3>6, <4>2, <4>3 DEF PlanPasses
    <3>7. CASE SnapshotPlanPasses(i)
        BY <3>1, <3>7 DEF SnapshotPlanPasses
    <3>4. CASE RunJudged(i)
      <4>1. safe' = safe \/ safe' = [safe EXCEPT ![i] = FALSE]
          BY <3>4 DEF RunJudged
      <4>2. safe' \in [Runs -> BOOLEAN]
          BY <4>1
      <4>3. at' \in [Runs -> Points] /\ result' \in [Runs -> Results \cup {"none"}]
          BY <3>4 DEF RunJudged
      <4> QED
          BY <3>1, <3>4, <4>2, <4>3 DEF RunJudged
    <3>5. CASE RunCollected(i)
        BY <3>1, <3>5 DEF RunCollected, EvidenceAgrees
    <3> QED
        BY <2>4, <3>2, <3>3, <3>4, <3>5, <3>6, <3>7 DEF PhaseStep
  <2>5. CASE CloseStep(i)
    <3> USE <1>1, <2>2 DEF shared, SupTypeOK
    <3>1. CASE ReleaseNative(i) \/ ReleaseKernel(i) \/ ReleaseNativeFails(i) \/ ReleaseKernelFails(i)
        BY <3>1 DEF ReleaseNative, ReleaseKernel, ReleaseNativeFails, ReleaseKernelFails
    <3>2. CASE RemoveCheckout(i)
        BY <3>2 DEF RemoveCheckout
    <3>4. CASE KeepCheckout(i)
        BY <3>4 DEF KeepCheckout
    <3>3. CASE Report(i)
        BY <3>3 DEF Report, Told, Written, Writes
    <3> QED
        BY <2>5, <3>1, <3>2, <3>3, <3>4 DEF CloseStep
  <2>6. CASE OtherStep(i)
    <3> USE <1>1, <2>2 DEF shared
    <3>1. CASE RemoteMoved(i) \/ AnchorLost(i) \/ NotAdmissible(i) \/ OwnerChanged(i)
        BY <3>1 DEF RemoteMoved, AnchorLost, NotAdmissible, OwnerChanged, Stops, SupTypeOK
    <3>2. CASE PinsChanged(i)
        BY <3>2 DEF PinsChanged, Stops, SupTypeOK, Owned
    <3>3. CASE LateFailure(i)
        BY <3>3 DEF LateFailure, SupTypeOK
    <3>4. CASE Exit(i) \/ Crash(i)
      <4>1. Gone(i, "exited") \/ Gone(i, "crashed")
          BY <3>4 DEF Exit, Crash
      <4>2. dirty' \in [Places -> BOOLEAN]
        <5>1. \A q \in Places : (dirty[q] /\ checkout[q] # i) \in BOOLEAN
            OBVIOUS
        <5> QED
          <6> DEFINE d(q) == dirty[q] /\ checkout[q] # i
          <6>1. dirty' = [q \in Places |-> d(q)]
              BY <4>1 DEF Gone
          <6>2. \A q \in Places : d(q) \in BOOLEAN
              BY <5>1
          <6> HIDE DEF d
          <6> QED
              BY <6>1, <6>2
      <4>3. result' \in [Runs -> Results \cup {"none"}]
          BY <3>4 DEF Exit, Crash
      <4>4. has' \in [Runs -> SUBSET Things] /\ SupTypeOK'
          BY <4>1, ZenonT(60) DEF Gone, SupTypeOK
      <4> QED
        <5>1. /\ safe' \in [Runs -> BOOLEAN] /\ cleaned' \in [Runs -> BOOLEAN]
              /\ at' \in [Runs -> Points]
            BY <4>1 DEF Gone
        <5>2. /\ mode' = mode /\ target' = target /\ native' = native
              /\ summary' = summary /\ checkout' = checkout
              /\ {kernel', reservation', runtime', evidence'} \subseteq Runs \cup {NoRun}
            BY <4>1 DEF Gone
        <5> QED
            BY <4>2, <4>3, <4>4, <5>1, <5>2
    <3>5. CASE Disturb(i)
      <4>1. SupTypeOK'
        <5> DEFINE t == [sup[i] EXCEPT !.touched = TRUE]
        <5>1. sup' = [sup EXCEPT ![i] = t] \/ sup' = sup
            BY <3>5 DEF Disturb
        <5>2. t \in Supervisor
          <6>1. sup[i] \in Supervisor
              BY DEF SupTypeOK
          <6> QED
              BY <6>1 DEF Supervisor
        <5> QED
          <6> HIDE DEF t
          <6> QED
              BY <5>1, <5>2, SMTT(30) DEF SupTypeOK
      <4> QED
          BY <3>5, <4>1 DEF Disturb, local
    <3>6. CASE \E verdict \in Verdicts : RunnerWrites(i, verdict)
        BY <3>6, SMTT(30) DEF RunnerWrites, local, SupTypeOK
    <3> QED
        BY <2>6, <3>1, <3>2, <3>3, <3>4, <3>5, <3>6 DEF OtherStep
  <2>7. CASE (SupStep(i) \/ RunnerStep(i)) /\ UNCHANGED <<local, shared>>
    <3>1. SupWell(sup[i])
        BY DEF IInv, RunWell
    <3>2. SupTypeOK'
        BY <1>1, <2>7, <3>1, SupStepFollows, SMTT(30) DEF SupTypeOK
    <3> QED
        BY <1>1, <2>7, <3>2 DEF local, shared
  <2> QED
      BY <2>1, <2>3, <2>4, <2>5, <2>6, <2>7
<1> QED
    BY <1>2, <1>3

-----------------------------------------------------------------------------
(* The other runs. *)

held == <<kernel, reservation, runtime, summary, checkout>>

(* A step leaves the private state of run i alone. *)
Private(i) ==
    /\ mode'[i] = mode[i] /\ target'[i] = target[i]
    /\ at'[i] = at[i] /\ result'[i] = result[i] /\ has'[i] = has[i]
    /\ safe'[i] = safe[i] /\ cleaned'[i] = cleaned[i] /\ sup'[i] = sup[i]

(* It takes nothing from run i, and gives it nothing. *)
Spares(i) ==
    /\ kernel' = i <=> kernel = i
    /\ reservation' = i <=> reservation = i
    /\ runtime = i => runtime' = i
    /\ checkout'[Place(i)] = i <=> checkout[Place(i)] = i
    /\ summary.by = i => summary' = summary
    /\ summary'.by = i => summary.by = i

LEMMA Spared ==
    ASSUME NEW i \in Runs, RunWell(i), Private(i), Spares(i)
    PROVE  RunWell(i)'
<1> USE DEF Private, Spares, Place, Owned
<1>1. SupWell(sup[i])'
    BY DEF RunWell, SupWell
<1>2. PhaseOwns(i)'
    BY DEF RunWell, PhaseOwns, Running
<1>3. Holding(i)'
    BY DEF RunWell, Holding
<1>4. Earned(i)'
    BY DEF RunWell, Earned, Working
<1>5. Passing(i)'
    BY DEF RunWell, Passing
<1> QED
    BY <1>1, <1>2, <1>3, <1>4, <1>5 DEF RunWell

LEMMA Whole ==
    ASSUME IInv, TypeOK', NEW j \in Runs, RunWell(j)',
           summary'.by = NoRun => summary'.result = "none",
           \A i \in Runs \ {j} : Private(i) /\ Spares(i)
    PROVE  IInv'
<1>1. ASSUME NEW i \in Runs \ {j}
      PROVE  RunWell(i)'
    BY Spared DEF IInv
<1> QED
    BY <1>1 DEF IInv

LEMMA Alone ==
    ASSUME IInv, TypeOK', NEW j \in Runs, RunWell(j)',
           \A i \in Runs \ {j} : Private(i), UNCHANGED held
    PROVE  IInv'
<1>1. ASSUME NEW i \in Runs \ {j}
      PROVE  Spares(i)
    BY DEF Spares, held, Place, Private
<1> QED
    BY <1>1, Whole DEF IInv, held

(* What the helpers say of each run. *)
LEMMA Went ==
    ASSUME TypeOK, NEW j \in Runs, NEW p, Go(j, p)
    PROVE  at'[j] = p /\ \A i \in Runs \ {j} : at'[i] = at[i]
BY DEF TypeOK, Go

LEMMA Judged ==
    ASSUME TypeOK, NEW j \in Runs, NEW r, Judge(j, r)
    PROVE  result'[j] = r /\ \A i \in Runs \ {j} : result'[i] = result[i]
BY DEF TypeOK, Judge

LEMMA Gained ==
    ASSUME TypeOK, NEW j \in Runs, NEW thing, Gains(j, thing)
    PROVE  has'[j] = has[j] \cup {thing} /\ \A i \in Runs \ {j} : has'[i] = has[i]
BY DEF TypeOK, Gains

-----------------------------------------------------------------------------
(* Admission. *)

LEMMA ReserveKernelKeeps ==
    ASSUME IInv, TypeOK', NEW j \in Runs, ReserveKernel(j)
    PROVE  IInv'
<1>1. /\ at[j] = "reserve" /\ at'[j] = "identity"
      /\ has'[j] = has[j] \cup {"kernel"} /\ kernel = NoRun /\ kernel' = j
      /\ \A i \in Runs \ {j} : at'[i] = at[i] /\ has'[i] = has[i]
    BY Went, Gained DEF IInv, ReserveKernel, At
<1>2. UNCHANGED <<sup, mode, target, result, safe, cleaned, reservation, runtime, summary, checkout>>
    BY DEF ReserveKernel
<1>3. RunWell(j)'
  <2> USE <1>1, <1>2 DEF IInv, RunWell, Place, Owned
  <2>1. SupWell(sup[j])'
      BY DEF SupWell
  <2>2. PhaseOwns(j)'
      BY DEF PhaseOwns, Closing, Running
  <2>3. Holding(j)'
      BY DEF Holding
  <2>4. Earned(j)'
      BY DEF Earned, Working
  <2>5. Passing(j)'
      BY DEF Passing, Closing, Verdicts
  <2> QED
      BY <2>1, <2>2, <2>3, <2>4, <2>5
<1>4. \A i \in Runs \ {j} : Private(i) /\ Spares(i)
    BY <1>1, <1>2, AssessmentAssumption DEF Private, Spares, Place
<1> QED
    BY <1>2, <1>3, <1>4, Whole DEF IInv

(* The reservations of a repository-owned run: each was free. *)
LEMMA ReserveSummaryKeeps ==
    ASSUME IInv, TypeOK', NEW j \in Runs, ReserveSummary(j)
    PROVE  IInv'
<1>1. /\ at[j] = "identity" /\ at'[j] = "native"
      /\ has'[j] = has[j] \cup {"summary"}
      /\ summary.by = NoRun /\ summary' = [by |-> j, result |-> "none"]
      /\ \A i \in Runs \ {j} : at'[i] = at[i] /\ has'[i] = has[i]
    BY Went, Gained DEF IInv, ReserveSummary, At
<1>2. UNCHANGED <<sup, mode, target, result, safe, cleaned, kernel, reservation, runtime, checkout>>
    BY DEF ReserveSummary
<1>3. RunWell(j)'
  <2> USE <1>1, <1>2 DEF IInv, RunWell, Place, Owned
  <2>1. SupWell(sup[j])'
      BY DEF SupWell
  <2>2. PhaseOwns(j)'
      BY DEF PhaseOwns, Closing, Running
  <2>3. Holding(j)'
      BY DEF Holding, Earned
  <2>4. Earned(j)'
      BY DEF Earned, Working
  <2>5. Passing(j)'
      BY DEF Passing, Closing, Verdicts
  <2> QED
      BY <2>1, <2>2, <2>3, <2>4, <2>5
<1>4. \A i \in Runs \ {j} : Private(i) /\ Spares(i)
    BY <1>1, <1>2, AssessmentAssumption DEF Private, Spares, Place
<1>5. summary'.by = NoRun => summary'.result = "none"
    BY <1>1
<1> QED
    BY <1>3, <1>4, <1>5, Whole

LEMMA ReserveNativeKeeps ==
    ASSUME IInv, TypeOK', NEW j \in Runs, ReserveNative(j)
    PROVE  IInv'
<1>1. /\ at[j] = "native" /\ at'[j] = "runtime"
      /\ has'[j] = has[j] \cup {"native"} /\ reservation = NoRun /\ reservation' = j
      /\ \A i \in Runs \ {j} : at'[i] = at[i] /\ has'[i] = has[i]
    BY Went, Gained DEF IInv, ReserveNative, At
<1>2. UNCHANGED <<sup, mode, target, result, safe, cleaned, kernel, runtime, summary, checkout>>
    BY DEF ReserveNative
<1>3. RunWell(j)'
  <2> USE <1>1, <1>2 DEF IInv, RunWell, Place, Owned
  <2>1. SupWell(sup[j])'
      BY DEF SupWell
  <2>2. PhaseOwns(j)'
      BY DEF PhaseOwns, Closing, Running
  <2>3. Holding(j)'
      BY DEF Holding
  <2>4. Earned(j)'
      BY DEF Earned, Working
  <2>5. Passing(j)'
      BY DEF Passing, Closing, Verdicts
  <2> QED
      BY <2>1, <2>2, <2>3, <2>4, <2>5
<1>4. \A i \in Runs \ {j} : Private(i) /\ Spares(i)
    BY <1>1, <1>2, AssessmentAssumption DEF Private, Spares, Place
<1> QED
    BY <1>2, <1>3, <1>4, Whole DEF IInv

LEMMA MakeRuntimeKeeps ==
    ASSUME IInv, TypeOK', NEW j \in Runs, MakeRuntime(j)
    PROVE  IInv'
<1>1. /\ at[j] = "runtime" /\ at'[j] = "isolate" /\ runtime = NoRun /\ runtime' = j
      /\ \A i \in Runs \ {j} : at'[i] = at[i]
    BY Went DEF IInv, MakeRuntime, At
<1>2. UNCHANGED <<sup, mode, target, result, has, safe, cleaned, kernel, reservation, summary, checkout>>
    BY DEF MakeRuntime
<1>3. RunWell(j)'
  <2> USE <1>1, <1>2 DEF IInv, RunWell, Place, Owned
  <2>1. SupWell(sup[j])'
      BY DEF SupWell
  <2>2. PhaseOwns(j)'
      BY DEF PhaseOwns, Closing, Running
  <2>3. Holding(j)'
      BY DEF Holding
  <2>4. Earned(j)'
      BY DEF Earned, Working
  <2>5. Passing(j)'
      BY DEF Passing, Closing, Verdicts
  <2> QED
      BY <2>1, <2>2, <2>3, <2>4, <2>5
<1>4. \A i \in Runs \ {j} : Private(i) /\ Spares(i)
    BY <1>1, <1>2, AssessmentAssumption DEF Private, Spares, Place
<1> QED
    BY <1>2, <1>3, <1>4, Whole DEF IInv

(* The points before the run closes, and those at which nothing runs. *)
Opening == {"new", "reserve", "identity", "native", "runtime", "recheck", "isolate", "admit",
            "ready", "planned"}

LEMMA Calm ==
    ASSUME IInv, NEW j \in Runs, at[j] \in Opening
    PROVE  SupWell(sup[j]) /\ sup[j].at = "off" /\ ~Running(sup[j])
BY DEF IInv, RunWell, PhaseOwns, Opening, Closing

(* An error, a failed exit code or a refused admission, of a run whose     *)
(* state is kept if a process of the phase may be left.                    *)
LEMMA Fails ==
    ASSUME IInv, TypeOK', NEW j \in Runs, NEW r, r # "PASS", Throw(j, r),
           r = "error" \/ at[j] \in {"plan", "run"},
           at[j] \in Opening \cup {"plan", "run"},
           UNCHANGED <<mode, target, cleaned, held>>,
           has' = has \/ Gains(j, "anchor"),
           \A i \in Runs \ {j} : sup'[i] = sup[i] /\ safe'[i] = safe[i],
           SupWell(sup'[j]), sup'[j].at = "off",
           Running(sup'[j]) => Running(sup[j]) /\ ~safe'[j]
    PROVE  IInv'
<1>1. /\ at'[j] = "close" /\ result'[j] = r
      /\ \A i \in Runs \ {j} : at'[i] = at[i] /\ result'[i] = result[i]
    BY Went, Judged DEF IInv, Throw
<1>2. /\ has'[j] = has[j] \/ has'[j] = has[j] \cup {"anchor"}
      /\ \A i \in Runs \ {j} : has'[i] = has[i]
    BY Gained DEF IInv
<1>3. UNCHANGED <<mode, target, cleaned, kernel, reservation, runtime, summary, checkout>>
    BY DEF held
<1>4. RunWell(j)'
  <2> USE <1>1, <1>2, <1>3 DEF IInv, RunWell, Place, Owned, Opening
  <2>1. SupWell(sup[j])'
      OBVIOUS
  <2>2. PhaseOwns(j)'
      BY DEF PhaseOwns, Closing
  <2>3. Holding(j)'
      BY DEF Holding
  <2>4. Earned(j)'
      BY DEF Earned, Working, Verdicts
  <2>5. Passing(j)'
      BY ZenonT(60) DEF Passing, Closing, Verdicts
  <2> QED
      BY <2>1, <2>2, <2>3, <2>4, <2>5
<1>5. \A i \in Runs \ {j} : Private(i)
    BY <1>1, <1>2, <1>3 DEF Private
<1> QED
    BY <1>4, <1>5, Alone

(* The same before anything was started. *)
LEMMA CalmFails ==
    ASSUME IInv, TypeOK', NEW j \in Runs, Throw(j, "error"), at[j] \in Opening,
           UNCHANGED <<sup, mode, target, cleaned, held>>,
           has' = has \/ Gains(j, "anchor"),
           \A i \in Runs \ {j} : safe'[i] = safe[i]
    PROVE  IInv'
<1>1. SupWell(sup'[j]) /\ sup'[j].at = "off" /\ ~Running(sup'[j])
    BY Calm
<1>2. \A i \in Runs \ {j} : sup'[i] = sup[i] /\ safe'[i] = safe[i]
    OBVIOUS
<1> QED
    BY <1>1, <1>2, Fails

LEMMA CheckFreeKeeps ==
    ASSUME IInv, TypeOK', NEW j \in Runs, CheckFree(j)
    PROVE  IInv'
<1>1. /\ at[j] = "new" /\ UNCHANGED <<sup, mode, target, has, safe, cleaned, held>>
      /\ UNCHANGED <<kernel, reservation, runtime, summary, checkout>>
    BY DEF CheckFree, At, shared, held
<1>2. CASE Throw(j, "error")
    BY <1>1, <1>2, CalmFails DEF Opening
<1>3. CASE Go(j, IF Owned(j) THEN "reserve" ELSE "recheck") /\ UNCHANGED result
  <2>1. /\ at'[j] = IF Owned(j) THEN "reserve" ELSE "recheck"
        /\ \A i \in Runs \ {j} : at'[i] = at[i]
      BY <1>3, Went DEF IInv
  <2>2. RunWell(j)'
    <3> USE <1>1, <1>3, <2>1 DEF IInv, RunWell, Place, Owned
    <3>1. SupWell(sup[j])'
        BY DEF SupWell
    <3>2. PhaseOwns(j)'
        BY DEF PhaseOwns, Closing, Running
    <3>3. Holding(j)'
        BY DEF Holding
    <3>4. Earned(j)'
        BY DEF Earned, Working
    <3>5. Passing(j)'
        BY DEF Passing, Closing, Verdicts
    <3> QED
        BY <3>1, <3>2, <3>3, <3>4, <3>5
  <2>3. \A i \in Runs \ {j} : Private(i)
      BY <1>1, <1>3, <2>1 DEF Private
  <2> QED
      BY <1>1, <2>2, <2>3, Alone
<1> QED
    BY <1>2, <1>3 DEF CheckFree

LEMMA RecheckKeeps ==
    ASSUME IInv, TypeOK', NEW j \in Runs, Recheck(j)
    PROVE  IInv'
<1>1. /\ at[j] = "recheck" /\ UNCHANGED <<sup, mode, target, safe, cleaned, held>>
      /\ UNCHANGED <<kernel, reservation, runtime, summary, checkout>>
      /\ Gains(j, "anchor")
    BY DEF Recheck, At, shared, held
<1>2. CASE Throw(j, "error")
    BY <1>1, <1>2, CalmFails DEF Opening
<1>3. CASE Go(j, "isolate") /\ UNCHANGED result
  <2>1. /\ at'[j] = "isolate" /\ has'[j] = has[j] \cup {"anchor"}
        /\ \A i \in Runs \ {j} : at'[i] = at[i] /\ has'[i] = has[i]
      BY <1>1, <1>3, Went, Gained DEF IInv
  <2>2. RunWell(j)'
    <3> USE <1>1, <1>3, <2>1 DEF IInv, RunWell, Place, Owned
    <3>1. SupWell(sup[j])'
        BY DEF SupWell
    <3>2. PhaseOwns(j)'
        BY DEF PhaseOwns, Closing, Running
    <3>3. Holding(j)'
        BY DEF Holding
    <3>4. Earned(j)'
        BY DEF Earned, Working
    <3>5. Passing(j)'
        BY DEF Passing, Closing, Verdicts
    <3> QED
        BY <3>1, <3>2, <3>3, <3>4, <3>5
  <2>3. \A i \in Runs \ {j} : Private(i)
      BY <1>1, <1>3, <2>1 DEF Private
  <2> QED
      BY <1>1, <2>2, <2>3, Alone
<1> QED
    BY <1>2, <1>3 DEF Recheck

LEMMA IsolateKeeps ==
    ASSUME IInv, TypeOK', NEW j \in Runs, Isolate(j)
    PROVE  IInv'
<1>1. /\ at[j] = "isolate" /\ at'[j] = "admit" /\ has'[j] = has[j] \cup {"checkout"}
      /\ checkout[Place(j)] = NoRun /\ checkout' = [checkout EXCEPT ![Place(j)] = j]
      /\ \A i \in Runs \ {j} : at'[i] = at[i] /\ has'[i] = has[i]
    BY Went, Gained DEF IInv, Isolate, At
<1>2. UNCHANGED <<sup, mode, target, result, safe, cleaned, kernel, reservation, runtime, summary>>
    BY DEF Isolate
<1>3. /\ checkout'[Place(j)] = j
      /\ \A i \in Runs \ {j} : checkout'[Place(i)] = i <=> checkout[Place(i)] = i
  <2>1. Place(j) \in Places /\ checkout \in [Places -> Runs \cup {NoRun}]
        /\ \A i \in Runs : Place(i) \in Places
      BY DEF IInv, TypeOK, Place, Places
  <2> QED
      BY <1>1, <2>1, AssessmentAssumption
<1>4. RunWell(j)'
  <2> USE <1>1, <1>2, <1>3 DEF IInv, RunWell, Place, Owned
  <2>1. SupWell(sup[j])'
      BY DEF SupWell
  <2>2. PhaseOwns(j)'
      BY DEF PhaseOwns, Closing, Running
  <2>3. Holding(j)'
      BY DEF Holding
  <2>4. Earned(j)'
      BY DEF Earned, Working
  <2>5. Passing(j)'
      BY DEF Passing, Closing, Verdicts
  <2> QED
      BY <2>1, <2>2, <2>3, <2>4, <2>5
<1>5. \A i \in Runs \ {j} : Private(i) /\ Spares(i)
    BY <1>1, <1>2, <1>3 DEF Private, Spares
<1> QED
    BY <1>2, <1>4, <1>5, Whole DEF IInv

LEMMA AdmitKeeps ==
    ASSUME IInv, TypeOK', NEW j \in Runs, Admit(j)
    PROVE  IInv'
<1>1. /\ at[j] = "admit" /\ at'[j] = "ready" /\ has'[j] = has[j] \cup {"admitted"}
      /\ \A i \in Runs \ {j} : at'[i] = at[i] /\ has'[i] = has[i]
    BY Went, Gained DEF IInv, Admit, At
<1>2. /\ UNCHANGED <<sup, mode, target, result, safe, cleaned, held>>
      /\ UNCHANGED <<kernel, reservation, runtime, summary, checkout>>
    BY DEF Admit, shared, held
<1>3. RunWell(j)'
  <2> USE <1>1, <1>2 DEF IInv, RunWell, Place, Owned
  <2>1. SupWell(sup[j])'
      BY DEF SupWell
  <2>2. PhaseOwns(j)'
      BY DEF PhaseOwns, Closing, Running
  <2>3. Holding(j)'
      BY DEF Holding
  <2>4. Earned(j)'
      BY DEF Earned, Working
  <2>5. Passing(j)'
      BY DEF Passing, Closing, Verdicts
  <2> QED
      BY <2>1, <2>2, <2>3, <2>4, <2>5
<1>4. \A i \in Runs \ {j} : Private(i)
    BY <1>1, <1>2 DEF Private
<1> QED
    BY <1>2, <1>3, <1>4, Alone

LEMMA StartPhaseKeeps ==
    ASSUME IInv, TypeOK', NEW j \in Runs, NEW phase \in {"plan", "run"}, StartPhase(j, phase)
    PROVE  IInv'
<1>1. /\ at[j] \in {"ready", "planned"} /\ at'[j] = phase
      /\ \A i \in Runs \ {j} : at'[i] = at[i]
    BY Went DEF IInv, StartPhase, At
<1>2. /\ UNCHANGED <<mode, target, result, has, safe, cleaned, held>>
      /\ UNCHANGED <<kernel, reservation, runtime, summary, checkout>>
    BY DEF StartPhase, shared, held
<1>3. PICK t \in Supervisor :
          /\ sup' = [sup EXCEPT ![j] = t]
          /\ SupWell(t) /\ Running(t) /\ ~t.touched /\ t.at = "setup"
  <2>1. Owned(j) \in BOOLEAN /\ SupStart(j, Owned(j)) /\ SupTypeOK
      BY DEF StartPhase, Owned, IInv, TypeOK
  <2> QED
      BY <2>1, SupStarted
<1>4. sup'[j] = t /\ \A i \in Runs \ {j} : sup'[i] = sup[i]
    BY <1>3 DEF IInv, TypeOK, SupTypeOK
<1>5. RunWell(j)'
  <2> USE <1>1, <1>2, <1>4 DEF IInv, RunWell, Place, Owned
  <2>1. SupWell(sup[j])'
      BY <1>3
  <2>2. /\ checkout[Place(j)] = j
        /\ Owned(j) => reservation = j /\ runtime = j
      BY DEF Holding, Earned, Working
  <2>7. result[j] \notin Verdicts /\ result[j] # "PASS"
      BY DEF Passing, Closing, Verdicts
  <2>3. PhaseOwns(j)'
      BY <2>2 DEF PhaseOwns
  <2>4. Holding(j)'
      BY DEF Holding
  <2>5. Earned(j)'
      BY <2>2 DEF Earned, Working
  <2>6. Passing(j)'
      BY <2>7 DEF Passing, Closing
  <2> QED
      BY <2>1, <2>3, <2>4, <2>5, <2>6
<1>6. \A i \in Runs \ {j} : Private(i)
    BY <1>1, <1>2, <1>4 DEF Private
<1> QED
    BY <1>2, <1>5, <1>6, Alone

-----------------------------------------------------------------------------
(* The phases. *)

(* The status has been read: the supervisor is off, and only a process it  *)
(* did not contain is left.                                                *)
LEMMA Read ==
    ASSUME IInv, NEW j \in Runs, SupRead(j), sup[j].at = "down"
    PROVE  /\ SupWell(sup'[j]) /\ sup'[j].at = "off" /\ ~sup'[j].watched
           /\ sup'[j].touched = sup[j].touched
           /\ Running(sup'[j]) => Running(sup[j]) /\ sup[j].status \notin Contained
           /\ \A i \in Runs \ {j} : sup'[i] = sup[i]
<1>1. SupTypeOK /\ SupWell(sup[j])
    BY DEF IInv, TypeOK, RunWell
<1>2. PICK t \in Supervisor :
          /\ sup' = [sup EXCEPT ![j] = t]
          /\ SupWell(t) /\ t.at = "off" /\ ~t.watched /\ t.touched = sup[j].touched
          /\ Running(t) <=> Live(j)
    BY <1>1, SupIsRead
<1>3. sup'[j] = t /\ \A i \in Runs \ {j} : sup'[i] = sup[i]
    BY <1>1, <1>2 DEF SupTypeOK
<1>4. Live(j) => Running(sup[j]) /\ sup[j].status \notin Contained
  <2>1. sup[j].kids \in Nat
      BY <1>1, Fields DEF SupTypeOK
  <2> QED
      BY <1>1, <2>1 DEF Live, Running, SupWell
<1> QED
    BY <1>2, <1>3, <1>4

LEMMA PhaseBreaksKeeps ==
    ASSUME IInv, TypeOK', NEW j \in Runs, PhaseBreaks(j)
    PROVE  IInv'
<1>1. /\ at[j] \in {"plan", "run"} /\ sup[j].at = "down" /\ Throw(j, "error") /\ SupRead(j)
      /\ UNCHANGED <<mode, target, has, cleaned, held>>
      /\ safe' = [safe EXCEPT ![j] = Owned(j) /\ ~Uncontained(sup[j])]
    BY DEF PhaseBreaks, shared, held
<1>2. \A i \in Runs \ {j} : safe'[i] = safe[i]
    BY <1>1 DEF IInv, TypeOK
<1>3. sup[j].status \notin Contained => ~safe'[j]
  <2>1. sup[j].status \in Statuses
      BY Fields DEF IInv, TypeOK, SupTypeOK
  <2>2. sup[j].status \notin Contained => Uncontained(sup[j])
      BY <2>1 DEF Statuses, Uncontained
  <2> QED
      BY <1>1, <2>2 DEF IInv, TypeOK
<1> QED
    BY <1>1, <1>2, <1>3, Read, Fails

(* A phase of which the supervisor reports that nothing is left.           *)
LEMMA ReportedFails ==
    ASSUME IInv, TypeOK', NEW j \in Runs, NEW phase \in {"plan", "run"}, PhaseReported(j, phase),
           NEW r, r # "PASS", Throw(j, r), SupRead(j),
           UNCHANGED <<mode, target, has, cleaned, held>>,
           \A i \in Runs \ {j} : safe'[i] = safe[i]
    PROVE  IInv'
<1>1. at[j] \in {"plan", "run"} /\ sup[j].at = "down" /\ sup[j].status \in Contained
    BY DEF PhaseReported, At, Contained
<1> QED
    BY <1>1, Read, Fails

(* A plan that passes: nothing runs between the phases.                    *)
LEMMA PlannedKeeps ==
    ASSUME IInv, TypeOK', NEW j \in Runs, PhaseReported(j, "plan"), Go(j, "planned"), SupRead(j),
           UNCHANGED <<mode, target, result, has, safe, cleaned, held>>
    PROVE  IInv'
<1>1. /\ at[j] = "plan" /\ sup[j].at = "down" /\ sup[j].status \in Contained
      /\ at'[j] = "planned" /\ \A i \in Runs \ {j} : at'[i] = at[i]
      /\ UNCHANGED <<kernel, reservation, runtime, summary, checkout>>
    BY Went DEF PhaseReported, At, Contained, IInv, held
<1>2. /\ SupWell(sup'[j]) /\ sup'[j].at = "off" /\ ~Running(sup'[j])
      /\ \A i \in Runs \ {j} : sup'[i] = sup[i]
    BY <1>1, Read
<1>3. RunWell(j)'
  <2> USE <1>1, <1>2 DEF IInv, RunWell, Place, Owned
  <2>1. SupWell(sup[j])'
      OBVIOUS
  <2>2. PhaseOwns(j)'
      BY DEF PhaseOwns
  <2>3. Holding(j)'
      BY DEF Holding
  <2>4. Earned(j)'
      BY DEF Earned, Working
  <2>5. Passing(j)'
      BY DEF Passing, Closing, Verdicts
  <2> QED
      BY <2>1, <2>2, <2>3, <2>4, <2>5
<1>4. \A i \in Runs \ {j} : Private(i)
    BY <1>1, <1>2 DEF Private
<1> QED
    BY <1>1, <1>3, <1>4, Alone

(* A run phase that passes, and of a repository-owned run was not touched. *)
LEMMA PassKeeps ==
    ASSUME IInv, TypeOK', NEW j \in Runs, PhaseReported(j, "run"), Throw(j, "PASS"), SupRead(j),
           Owned(j) => sup[j].status = "runner",
           UNCHANGED <<mode, target, has, safe, cleaned, held>>
    PROVE  IInv'
<1>1. /\ at[j] = "run" /\ sup[j].at = "down" /\ sup[j].status \in Contained
      /\ at'[j] = "close" /\ result'[j] = "PASS"
      /\ \A i \in Runs \ {j} : at'[i] = at[i] /\ result'[i] = result[i]
      /\ UNCHANGED <<kernel, reservation, runtime, summary, checkout>>
    BY Went, Judged DEF PhaseReported, At, Contained, IInv, held, Throw
<1>2. /\ SupWell(sup'[j]) /\ sup'[j].at = "off" /\ ~sup'[j].watched /\ ~Running(sup'[j])
      /\ sup'[j].touched = sup[j].touched
      /\ \A i \in Runs \ {j} : sup'[i] = sup[i]
    BY <1>1, Read
<1>3. Owned(j) => ~sup[j].touched
    BY DEF IInv, RunWell, SupWell
<1>4. RunWell(j)'
  <2> USE <1>1, <1>2, <1>3 DEF IInv, RunWell, Place, Owned
  <2>1. SupWell(sup[j])'
      OBVIOUS
  <2>2. PhaseOwns(j)'
      BY DEF PhaseOwns
  <2>3. Holding(j)'
      BY DEF Holding
  <2>4. Earned(j)'
      BY DEF Earned, Working
  <2>5. Passing(j)'
      BY DEF Passing, Closing, Verdicts
  <2> QED
      BY <2>1, <2>2, <2>3, <2>4, <2>5
<1>5. \A i \in Runs \ {j} : Private(i)
    BY <1>1, <1>2 DEF Private
<1> QED
    BY <1>1, <1>4, <1>5, Alone

LEMMA PhaseStepKeeps ==
    ASSUME IInv, TypeOK', NEW j \in Runs, PhaseStep(j)
    PROVE  IInv'
<1> USE DEF shared, held
<1>1. CASE PhaseBreaks(j)
    BY <1>1, PhaseBreaksKeeps
<1>2. CASE PlanFails(j)
  <2>1. PICK r \in {"error", "FAIL"} : Throw(j, r)
      BY <1>2 DEF PlanFails
  <2> QED
      BY <1>2, <2>1, ReportedFails DEF PlanFails
<1>3. CASE PlanPasses(j)
  <2>1. \A i \in Runs \ {j} : safe'[i] = safe[i]
      BY <1>3 DEF PlanPasses, IInv, TypeOK
  <2>2. CASE Throw(j, "error")
      BY <1>3, <2>1, <2>2, ReportedFails DEF PlanPasses
  <2>3. CASE Go(j, "planned") /\ UNCHANGED <<result, safe>>
      BY <1>3, <2>3, PlannedKeeps DEF PlanPasses
  <2> QED
      BY <1>3, <2>2, <2>3 DEF PlanPasses
<1>4. CASE SnapshotPlanPasses(j)
  <2>1. CASE Throw(j, "error")
      BY <1>4, <2>1, ReportedFails DEF SnapshotPlanPasses
  <2>2. CASE Go(j, "planned") /\ UNCHANGED result
      BY <1>4, <2>2, PlannedKeeps DEF SnapshotPlanPasses
  <2> QED
      BY <1>4, <2>1, <2>2 DEF SnapshotPlanPasses
<1>5. CASE RunJudged(j)
  <2>1. \A i \in Runs \ {j} : safe'[i] = safe[i]
      BY <1>5 DEF RunJudged, IInv, TypeOK
  <2>2. ASSUME NEW r \in {"error", "FAIL"}, Throw(j, r)
        PROVE  IInv'
      BY <1>5, <2>1, <2>2, ReportedFails DEF RunJudged
  <2>3. CASE Throw(j, "PASS") /\ UNCHANGED safe
      BY <1>5, <2>3, PassKeeps DEF RunJudged
  <2> QED
      BY <1>5, <2>2, <2>3 DEF RunJudged
<1>6. CASE RunCollected(j)
  <2>1. CASE Throw(j, "error")
      BY <1>6, <2>1, ReportedFails DEF RunCollected
  <2>2. CASE Throw(j, native[j]) /\ sup[j].status # "runner-signal" /\ EvidenceAgrees(j)
    <3>1. native[j] \in {"PASS", "FAIL"} /\ sup[j].status = "runner"
        BY <1>6, <2>2 DEF RunCollected, EvidenceAgrees, PhaseReported
    <3>2. CASE native[j] = "FAIL"
        BY <1>6, <2>2, <3>2, ReportedFails DEF RunCollected
    <3>3. CASE native[j] = "PASS"
        BY <1>6, <2>2, <3>1, <3>3, PassKeeps DEF RunCollected
    <3> QED
        BY <3>1, <3>2, <3>3
  <2> QED
      BY <1>6, <2>1, <2>2 DEF RunCollected
<1> QED
    BY <1>1, <1>2, <1>3, <1>4, <1>5, <1>6 DEF PhaseStep

-----------------------------------------------------------------------------
(* The finally block. *)

(* A close step that gives nothing back: only where it is, and its result, *)
(* which may turn to an error, change.                                     *)
LEMMA CloseKeeps ==
    ASSUME IInv, TypeOK', NEW j \in Runs,
           NEW p \in {"close", "release", "remove", "report"}, Go(j, p),
           \/ at[j] = "close" /\ p \in {"close", "release"}
           \/ at[j] = "release" /\ p = "remove"
           \/ at[j] = "remove" /\ p = "report",
           Judge(j, "error") \/ UNCHANGED result,
           result'[j] # "PASS" \/ ~safe[j] \/ ~Owned(j),
           UNCHANGED <<sup, mode, target, has, safe, cleaned, held>>
    PROVE  IInv'
<1>1. /\ at'[j] = p /\ (result'[j] = "error" \/ result'[j] = result[j])
      /\ \A i \in Runs \ {j} : at'[i] = at[i] /\ result'[i] = result[i]
      /\ UNCHANGED <<kernel, reservation, runtime, summary, checkout>>
    BY Went, Judged DEF IInv, held
<1>2. RunWell(j)'
  <2> USE <1>1 DEF IInv, RunWell, Place, Owned
  <2>1. SupWell(sup[j])'
      BY DEF SupWell
  <2>2. PhaseOwns(j)'
      BY DEF PhaseOwns, Closing, Running
  <2>3. Holding(j)'
      BY DEF Holding
  <2>4. Earned(j)'
      BY DEF Earned, Working, Verdicts
  <2>5. Passing(j)'
      BY DEF Passing, Closing, Verdicts
  <2> QED
      BY <2>1, <2>2, <2>3, <2>4, <2>5
<1>3. \A i \in Runs \ {j} : Private(i)
    BY <1>1 DEF Private
<1> QED
    BY <1>2, <1>3, Alone

LEMMA ReleaseNativeKeeps ==
    ASSUME IInv, TypeOK', NEW j \in Runs, ReleaseNative(j)
    PROVE  IInv'
<1>1. /\ at[j] = "close" /\ at'[j] = "release"
      /\ reservation' = IF "native" \in has[j] /\ safe[j] THEN NoRun ELSE reservation
      /\ \A i \in Runs \ {j} : at'[i] = at[i]
    BY Went DEF IInv, ReleaseNative, At
<1>2. UNCHANGED <<sup, mode, target, result, has, safe, cleaned, kernel, runtime, summary, checkout>>
    BY DEF ReleaseNative
<1>3. "native" \in has[j] => reservation = j
    BY <1>1 DEF IInv, RunWell, Holding
<1>4. RunWell(j)'
  <2> USE <1>1, <1>2, AssessmentAssumption DEF IInv, RunWell, Place, Owned
  <2>1. SupWell(sup[j])'
      BY DEF SupWell
  <2>2. PhaseOwns(j)'
      BY DEF PhaseOwns, Closing, Running
  <2>3. Holding(j)'
      BY DEF Holding
  <2>4. Earned(j)'
      BY DEF Earned, Working
  <2>5. Passing(j)'
      BY DEF Passing, Closing, Earned, Working, Verdicts
  <2> QED
      BY <2>1, <2>2, <2>3, <2>4, <2>5
<1>5. \A i \in Runs \ {j} : Private(i) /\ Spares(i)
    BY <1>1, <1>2, <1>3, AssessmentAssumption DEF Private, Spares, Place
<1> QED
    BY <1>2, <1>4, <1>5, Whole DEF IInv

LEMMA ReleaseKernelKeeps ==
    ASSUME IInv, TypeOK', NEW j \in Runs, ReleaseKernel(j)
    PROVE  IInv'
<1>1. /\ at[j] = "release" /\ at'[j] = "remove"
      /\ kernel' = IF "kernel" \in has[j] /\ safe[j] THEN NoRun ELSE kernel
      /\ \A i \in Runs \ {j} : at'[i] = at[i]
    BY Went DEF IInv, ReleaseKernel, At
<1>2. UNCHANGED <<sup, mode, target, result, has, safe, cleaned, reservation, runtime, summary, checkout>>
    BY DEF ReleaseKernel
<1>3. "kernel" \in has[j] => kernel = j
    BY <1>1 DEF IInv, RunWell, Holding
<1>4. RunWell(j)'
  <2> USE <1>1, <1>2, AssessmentAssumption DEF IInv, RunWell, Place, Owned
  <2>1. SupWell(sup[j])'
      BY DEF SupWell
  <2>2. PhaseOwns(j)'
      BY DEF PhaseOwns, Closing, Running
  <2>3. Holding(j)'
      BY DEF Holding
  <2>4. Earned(j)'
      BY DEF Earned, Working
  <2>5. Passing(j)'
      BY DEF Passing, Closing, Earned, Working, Verdicts
  <2> QED
      BY <2>1, <2>2, <2>3, <2>4, <2>5
<1>5. \A i \in Runs \ {j} : Private(i) /\ Spares(i)
    BY <1>1, <1>2, <1>3, AssessmentAssumption DEF Private, Spares, Place
<1> QED
    BY <1>2, <1>4, <1>5, Whole DEF IInv

LEMMA RemoveCheckoutKeeps ==
    ASSUME IInv, TypeOK', NEW j \in Runs, RemoveCheckout(j)
    PROVE  IInv'
<1>1. /\ at[j] = "remove" /\ at'[j] = "report" /\ "checkout" \in has[j] /\ safe[j]
      /\ checkout' = [checkout EXCEPT ![Place(j)] = NoRun]
      /\ \A i \in Runs \ {j} : at'[i] = at[i]
    BY Went DEF IInv, RemoveCheckout, Removable, At
<1>2. /\ UNCHANGED <<sup, mode, target, result, has, safe, kernel, reservation, runtime, summary>>
      /\ \A i \in Runs \ {j} : cleaned'[i] = cleaned[i]
    BY DEF RemoveCheckout, IInv, TypeOK
<1>3. checkout[Place(j)] = j
    BY <1>1 DEF IInv, RunWell, Holding
<1>4. /\ checkout'[Place(j)] = NoRun
      /\ \A i \in Runs \ {j} : checkout'[Place(i)] = i <=> checkout[Place(i)] = i
  <2>1. Place(j) \in Places /\ checkout \in [Places -> Runs \cup {NoRun}]
        /\ \A i \in Runs : Place(i) \in Places
      BY DEF IInv, TypeOK, Place, Places
  <2> QED
      BY <1>1, <1>3, <2>1, AssessmentAssumption
<1>5. RunWell(j)'
  <2> USE <1>1, <1>2, <1>4, AssessmentAssumption DEF IInv, RunWell, Place, Owned
  <2>1. SupWell(sup[j])'
      BY DEF SupWell
  <2>2. PhaseOwns(j)'
      BY DEF PhaseOwns, Closing, Running
  <2>3. Holding(j)'
      BY DEF Holding
  <2>4. Earned(j)'
      BY DEF Earned, Working
  <2>5. Passing(j)'
      BY DEF Passing, Closing, Verdicts
  <2> QED
      BY <2>1, <2>2, <2>3, <2>4, <2>5
<1>6. \A i \in Runs \ {j} : Private(i) /\ Spares(i)
    BY <1>1, <1>2, <1>4 DEF Private, Spares
<1> QED
    BY <1>2, <1>5, <1>6, Whole DEF IInv

(* A checkout that is kept is not cleaned up, which the report needs. *)
LEMMA KeepCheckoutKeeps ==
    ASSUME IInv, TypeOK', NEW j \in Runs, KeepCheckout(j)
    PROVE  IInv'
<1>1. /\ at[j] = "remove" /\ at'[j] = "report"
      /\ result'[j] = "error" \/ result'[j] = result[j]
      /\ \A i \in Runs \ {j} : at'[i] = at[i] /\ result'[i] = result[i]
    BY Went, Judged DEF IInv, KeepCheckout, At
<1>2. /\ UNCHANGED <<sup, mode, target, has, safe, cleaned, held>>
      /\ UNCHANGED <<kernel, reservation, runtime, summary, checkout>>
    BY DEF KeepCheckout, shared, held
<1>3. RunWell(j)'
  <2> USE <1>1, <1>2 DEF IInv, RunWell, Place, Owned
  <2>1. SupWell(sup[j])'
      BY DEF SupWell
  <2>2. PhaseOwns(j)'
      BY DEF PhaseOwns, Closing, Running
  <2>3. Holding(j)'
      BY DEF Holding
  <2>4. Earned(j)'
      BY DEF Earned, Working, Verdicts
  <2>5. Passing(j)'
      BY DEF Passing, Closing, Verdicts
  <2> QED
      BY <2>1, <2>2, <2>3, <2>4, <2>5
<1>4. \A i \in Runs \ {j} : Private(i)
    BY <1>1, <1>2 DEF Private
<1> QED
    BY <1>2, <1>3, <1>4, Alone

(* The summary of another run is not written over: a repository-owned run  *)
(* writes into the file it reserved, a gateway-owned one creates its own.  *)
LEMMA ReportKeeps ==
    ASSUME IInv, TypeOK', NEW j \in Runs, Report(j)
    PROVE  IInv'
<1>1. PICK kept \in BOOLEAN, write \in Writes :
          /\ write # "none" => Mine(j)
          /\ summary' = Written(j, write, Told(j, kept))
          /\ Judge(j, IF Due(j) /\ write # "done" THEN "error" ELSE Told(j, kept))
    BY DEF Report
<1>2. /\ at[j] = "report" /\ at'[j] = "end"
      /\ result'[j] = IF Due(j) /\ write # "done" THEN "error" ELSE Told(j, kept)
      /\ \A i \in Runs \ {j} : at'[i] = at[i] /\ result'[i] = result[i]
    BY <1>1, Went, Judged DEF IInv, Report, At
<1>3. UNCHANGED <<sup, mode, target, has, safe, cleaned, kernel, reservation, runtime, checkout>>
    BY DEF Report
<1>4. /\ write \in {"none", "part", "whole", "done"}
      /\ write = "none" => summary' = summary
      /\ write # "none" => summary'.by = j
      /\ write = "part" => summary'.result = "none"
      /\ write \in {"whole", "done"} => summary'.result = Told(j, kept)
    BY <1>1 DEF Written, Writes
<1>5. write # "none" => summary.by \in {NoRun, j}
    BY <1>1 DEF Mine, IInv, RunWell, Holding
<1>6. /\ Told(j, kept) \in Verdicts => result[j] = Told(j, kept)
      /\ Told(j, kept) = "PASS" => result[j] = "PASS" /\ cleaned[j]
    BY DEF Told, Verdicts
<1>7. result[j] \in Verdicts => Due(j)
    BY <1>2 DEF Due, IInv, RunWell, Earned, Working
<1>10. RunWell(j)'
  <2> USE <1>2, <1>3 DEF IInv, RunWell, Place, Owned
  <2>1. SupWell(sup[j])'
      BY DEF SupWell
  <2>2. PhaseOwns(j)'
      BY DEF PhaseOwns, Closing, Running
  <2>3. Holding(j)'
      BY <1>4 DEF Holding
  <2>4. Earned(j)'
      BY DEF Earned, Working
  <2>5. ASSUME summary'.by = j, summary'.result = "PASS"
        PROVE  /\ checkout[Place(j)] # j
               /\ Owned(j) => ~sup[j].touched /\ ~sup[j].watched /\ kernel # j /\ reservation # j
    <3>1. write \in {"whole", "done"} /\ Told(j, kept) = "PASS"
      <4>1. ~(summary.by = j /\ summary.result = "PASS")
          BY DEF Passing
      <4> QED
          BY <1>4, <2>5, <4>1
    <3>2. result[j] = "PASS" /\ cleaned[j]
        BY <1>6, <3>1
    <3> QED
        BY <3>2 DEF Passing
  <2>6. ASSUME result'[j] \in Verdicts
        PROVE  summary'.by = j /\ summary'.result = result'[j]
    <3>1. result'[j] = Told(j, kept) /\ result[j] \in Verdicts /\ write = "done"
        BY <1>6, <1>7, <2>6 DEF Verdicts
    <3> QED
        BY <1>4, <3>1
  <2>7. result'[j] = "PASS" => result[j] = "PASS"
      BY <1>6
  <2>8. Passing(j)'
      BY <2>5, <2>6, <2>7 DEF Passing, Closing, Verdicts
  <2> QED
      BY <2>1, <2>2, <2>3, <2>4, <2>8
<1>8. \A i \in Runs \ {j} : Private(i) /\ Spares(i)
    BY <1>2, <1>3, <1>4, <1>5, AssessmentAssumption DEF Private, Spares, Place
<1>9. summary'.by = NoRun => summary'.result = "none"
    BY <1>4, AssessmentAssumption DEF IInv
<1> QED
    BY <1>8, <1>9, <1>10, Whole

LEMMA CloseStepKeeps ==
    ASSUME IInv, TypeOK', NEW j \in Runs, CloseStep(j)
    PROVE  IInv'
<1>1. CASE ReleaseNativeFails(j)
  <2>1. result'[j] = "error"
      BY <1>1, Judged DEF ReleaseNativeFails, IInv
  <2> QED
      BY <1>1, <2>1, CloseKeeps DEF ReleaseNativeFails, At, shared, held
<1>2. CASE ReleaseKernelFails(j)
  <2>1. result'[j] = "error"
      BY <1>2, Judged DEF ReleaseKernelFails, IInv
  <2> QED
      BY <1>2, <2>1, CloseKeeps DEF ReleaseKernelFails, At, shared, held
<1> QED
    BY <1>1, <1>2, ReleaseNativeKeeps, ReleaseKernelKeeps, RemoveCheckoutKeeps,
       KeepCheckoutKeeps, ReportKeeps DEF CloseStep

-----------------------------------------------------------------------------
(* The rest. *)

(* The process goes: what it holds in memory and its socket go with it,    *)
(* what it left on disk stays.                                             *)
LEMMA GoneKeeps ==
    ASSUME IInv, TypeOK', NEW j \in Runs, NEW p \in {"exited", "crashed"}, Gone(j, p),
           p = "exited" => at[j] = "end" /\ UNCHANGED result,
           p = "crashed" => at[j] # "exited" /\ Judge(j, "none")
    PROVE  IInv'
<1>1. /\ at'[j] = p /\ has'[j] = {} /\ safe'[j] = TRUE /\ cleaned'[j] = FALSE
      /\ kernel' = IF kernel = j THEN NoRun ELSE kernel
      /\ \A i \in Runs \ {j} : /\ at'[i] = at[i] /\ has'[i] = has[i]
                               /\ safe'[i] = safe[i] /\ cleaned'[i] = cleaned[i]
    BY Went DEF IInv, Gone, TypeOK
<1>2. UNCHANGED <<sup, mode, target, reservation, runtime, summary, checkout>>
    BY DEF Gone
<1>3. /\ p = "exited" => at[j] = "end" /\ result'[j] = result[j]
      /\ p = "crashed" => at[j] # "exited" /\ result'[j] = "none"
      /\ \A i \in Runs \ {j} : result'[i] = result[i]
    BY Judged DEF IInv
<1>4. RunWell(j)'
  <2> USE <1>1, <1>2, <1>3, AssessmentAssumption DEF IInv, RunWell, Place, Owned
  <2>1. SupWell(sup[j])'
      BY DEF SupWell
  <2>2. PhaseOwns(j)'
      BY DEF PhaseOwns, Closing, Running
  <2>3. Holding(j)'
      BY DEF Holding
  <2>4. Earned(j)'
      BY DEF Earned, Working
  <2>5. Passing(j)'
      BY DEF Passing, Closing, Verdicts
  <2> QED
      BY <2>1, <2>2, <2>3, <2>4, <2>5
<1>5. \A i \in Runs \ {j} : Private(i) /\ Spares(i)
    BY <1>1, <1>2, <1>3, AssessmentAssumption DEF Private, Spares, Place
<1> QED
    BY <1>2, <1>4, <1>5, Whole DEF IInv

(* The supervisor and the runner go on by themselves, with or without a    *)
(* gateway; so does who touches a watched checkout.                        *)
LEMMA SupervisorKeeps ==
    ASSUME IInv, TypeOK', NEW j \in Runs, UNCHANGED <<local, held>>,
           NEW t, sup' = [sup EXCEPT ![j] = t], SupWell(t),
           t.at # "off" => sup[j].at # "off",
           Running(t) => Running(sup[j]),
           t.watched => sup[j].watched,
           t.touched = sup[j].touched \/ sup[j].watched
    PROVE  IInv'
<1>1. sup'[j] = t /\ \A i \in Runs \ {j} : sup'[i] = sup[i]
    BY DEF IInv, TypeOK, SupTypeOK
<1>2. UNCHANGED <<mode, target, at, result, has, safe, cleaned>>
    BY DEF local
<1>3. UNCHANGED <<kernel, reservation, runtime, summary, checkout>>
    BY DEF held
<1>4. RunWell(j)'
  <2> USE <1>1, <1>2, <1>3 DEF IInv, RunWell, Place, Owned
  <2>1. SupWell(sup[j])'
      OBVIOUS
  <2>2. PhaseOwns(j)'
      BY DEF PhaseOwns
  <2>3. Holding(j)'
      BY DEF Holding
  <2>4. Earned(j)'
      BY DEF Earned, Working
  <2>5. Passing(j)'
      BY DEF Passing
  <2> QED
      BY <2>1, <2>2, <2>3, <2>4, <2>5
<1>5. \A i \in Runs \ {j} : Private(i)
    BY <1>1, <1>2 DEF Private
<1> QED
    BY <1>4, <1>5, Alone

LEMMA DisturbKeeps ==
    ASSUME IInv, TypeOK', NEW j \in Runs, Disturb(j)
    PROVE  IInv'
<1>1. UNCHANGED <<local, held>>
    BY DEF Disturb, held
<1>2. sup[j] \in Supervisor /\ SupWell(sup[j])
    BY DEF IInv, TypeOK, SupTypeOK, RunWell
<1>3. CASE sup[j].watched
  <2> DEFINE t == [sup[j] EXCEPT !.touched = TRUE]
  <2>1. sup' = [sup EXCEPT ![j] = t]
      BY <1>3 DEF Disturb
  <2>2. /\ t.at = sup[j].at /\ t.status = sup[j].status /\ t.runner = sup[j].runner
        /\ t.kids = sup[j].kids /\ t.watched = sup[j].watched
      BY <1>2 DEF Supervisor
  <2> HIDE DEF t
  <2>3. SupWell(t) /\ (Running(t) => Running(sup[j]))
      BY <1>2, <1>3, <2>2 DEF SupWell, Running, Busy
  <2> QED
      BY <1>1, <1>3, <2>1, <2>2, <2>3, SupervisorKeeps
<1>4. CASE ~sup[j].watched
  <2>1. sup' = [sup EXCEPT ![j] = sup[j]]
      BY <1>4 DEF Disturb, IInv, TypeOK, SupTypeOK
  <2> QED
      BY <1>1, <1>2, <2>1, SupervisorKeeps
<1> QED
    BY <1>3, <1>4

LEMMA OtherStepKeeps ==
    ASSUME IInv, TypeOK', NEW j \in Runs, OtherStep(j)
    PROVE  IInv'
<1>1. CASE RemoteMoved(j) \/ AnchorLost(j) \/ NotAdmissible(j) \/ OwnerChanged(j)
  <2>1. at[j] \in Opening
      BY <1>1 DEF RemoteMoved, AnchorLost, NotAdmissible, OwnerChanged, Opening, At
  <2>2. Stops(j) /\ UNCHANGED safe
      BY <1>1 DEF RemoteMoved, AnchorLost, NotAdmissible, OwnerChanged
  <2> QED
      BY <2>1, <2>2, CalmFails DEF Stops, shared, held
<1>2. CASE PinsChanged(j)
  <2>1. at[j] \in Opening /\ Stops(j) /\ \A i \in Runs \ {j} : safe'[i] = safe[i]
      BY <1>2 DEF PinsChanged, Opening, IInv, TypeOK
  <2> QED
      BY <2>1, CalmFails DEF Stops, shared, held
<1>3. CASE LateFailure(j)
  <2>1. result'[j] = "error"
      BY <1>3, Judged DEF LateFailure, IInv
  <2> QED
      BY <1>3, <2>1, CloseKeeps DEF LateFailure, At, shared, held
<1>4. CASE Exit(j)
    BY <1>4, GoneKeeps DEF Exit, At
<1>5. CASE Crash(j)
    BY <1>5, GoneKeeps DEF Crash
<1>6. CASE Disturb(j)
    BY <1>6, DisturbKeeps
<1>7. CASE \E verdict \in Verdicts : RunnerWrites(j, verdict)
  <2>1. UNCHANGED <<local, held>> /\ UNCHANGED sup
      BY <1>7 DEF RunnerWrites, held
  <2>2. sup' = [sup EXCEPT ![j] = sup[j]] /\ SupWell(sup[j])
      BY <2>1 DEF IInv, TypeOK, SupTypeOK, RunWell
  <2> QED
      BY <2>1, <2>2, SupervisorKeeps
<1> QED
    BY <1>1, <1>2, <1>3, <1>4, <1>5, <1>6, <1>7 DEF OtherStep

LEMMA RefusedKeeps ==
    ASSUME IInv, TypeOK', NEW j \in Runs, Refused(j)
    PROVE  IInv'
<1>1. at[j] \in Opening
    BY DEF Refused, At, Opening
<1> QED
    BY <1>1, CalmFails DEF Refused, shared, held

-----------------------------------------------------------------------------
(* The invariant, and what it says. *)

LEMMA Initially == Init => IInv
<1> SUFFICES ASSUME Init
             PROVE  IInv
    OBVIOUS
<1>1. TypeOK
  <2>1. SupTypeOK
      BY IdleRecord DEF Init, SupInit, SupTypeOK
  <2> QED
      BY <2>1 DEF Init, TypeOK, Verdicts, Results, Things, Points
<1>2. ASSUME NEW i \in Runs
      PROVE  RunWell(i)
  <2>1. /\ at[i] = "new" /\ result[i] = "none" /\ has[i] = {} /\ ~cleaned[i] /\ sup[i] = Idle
        /\ summary.result = "none"
      BY DEF Init, SupInit
  <2>2. SupWell(sup[i]) /\ sup[i].at = "off" /\ ~Running(sup[i])
      BY <2>1, IdleRecord DEF SupWell, Running, Busy, Contained
  <2> QED
      BY <2>1, <2>2 DEF RunWell, PhaseOwns, Holding, Earned, Passing, Working, Verdicts
<1> QED
    BY <1>1, <1>2 DEF IInv, Init

LEMMA Inductive == IInv /\ [Next]_vars => IInv'
<1> SUFFICES ASSUME IInv, [Next]_vars
             PROVE  IInv'
    OBVIOUS
<1>1. TypeOK'
    BY TypeStep
<1>2. CASE UNCHANGED vars
  <2>1. UNCHANGED <<sup, mode, target, at, result, has, safe, cleaned,
                    kernel, reservation, runtime, summary, checkout>>
      BY <1>2 DEF vars, local, shared
  <2>2. ASSUME NEW i \in Runs
        PROVE  RunWell(i)'
      BY <2>1, Spared DEF IInv, Private, Spares, Place
  <2> QED
      BY <1>1, <2>1, <2>2 DEF IInv
<1>3. ASSUME NEW j \in Runs, AdmissionStep(j)
      PROVE  IInv'
    BY <1>1, <1>3, CheckFreeKeeps, ReserveKernelKeeps, ReserveSummaryKeeps, ReserveNativeKeeps,
       MakeRuntimeKeeps, RefusedKeeps, RecheckKeeps, IsolateKeeps, AdmitKeeps, StartPhaseKeeps
       DEF AdmissionStep, AddWorktree, CloneSnapshot, AdmitWorktree, AdmitSnapshot
<1>4. ASSUME NEW j \in Runs, SupStep(j) \/ RunnerStep(j), UNCHANGED <<local, shared>>
      PROVE  IInv'
  <2>1. SupTypeOK /\ SupWell(sup[j])
      BY DEF IInv, TypeOK, RunWell
  <2>2. PICK t \in Supervisor : sup' = [sup EXCEPT ![j] = t] /\ Follows(sup[j], t)
      BY <1>4, <2>1, SupStepFollows
  <2>3. UNCHANGED <<local, held>>
      BY <1>4 DEF shared, held
  <2> QED
      BY <1>1, <2>2, <2>3, SupervisorKeeps DEF Follows
<1> QED
    BY <1>1, <1>2, <1>3, <1>4, PhaseStepKeeps, CloseStepKeeps, OtherStepKeeps DEF Next

LEMMA Invariant == Spec => []IInv
BY Initially, Inductive, PTL DEF Spec

(* Every variable keeps its type. *)
THEOREM TypeCorrect == Spec => []TypeOK
<1>1. IInv => TypeOK
    BY DEF IInv
<1> QED
    BY <1>1, Invariant, PTL

(* contain_descendants runs before every typed status but reap-error: when *)
(* one is there, no process of the phase is left, with any number of       *)
(* descendants and whenever the supervisor is killed.                      *)
THEOREM StatusIsContained == Spec => []StatusMeansContained
<1>1. IInv => StatusMeansContained
  <2> SUFFICES ASSUME IInv, NEW i \in Runs, sup[i].status \in Contained
               PROVE  ~Live(i)
      BY DEF StatusMeansContained
  <2>1. sup[i].runner # "alive" /\ sup[i].kids = 0
      BY DEF IInv, RunWell, SupWell
  <2> QED
      BY <2>1 DEF Live
<1> QED
    BY <1>1, Invariant, PTL

(* As long as a process of a runner lives, its checkout and its            *)
(* reservation are its own, whatever became of its gateway and whatever    *)
(* other runs of the same id do.                                           *)
THEOREM RunnersAreHoused == Spec => []LiveRunnersOwnTheirState
<1>1. IInv => LiveRunnersOwnTheirState
  <2> SUFFICES ASSUME IInv, NEW i \in Runs, Live(i)
               PROVE  /\ checkout[Place(i)] = i
                      /\ Owned(i) => reservation = i /\ runtime = i
      BY DEF LiveRunnersOwnTheirState
  <2>1. Running(sup[i])
      BY DEF Live, Running
  <2> QED
      BY <2>1 DEF IInv, RunWell, PhaseOwns
<1> QED
    BY <1>1, Invariant, PTL

(* A run whose PASS was returned, or is on disk whatever was returned, has *)
(* left nothing running and nothing behind.                                *)
THEOREM PassesAreClean == Spec => []PassIsClean
<1>1. IInv => PassIsClean
  <2> SUFFICES ASSUME IInv, NEW i \in Runs, Passed(i)
               PROVE  /\ ~Live(i) /\ checkout[Place(i)] # i
                      /\ Owned(i) => ~sup[i].touched /\ {kernel, reservation} \cap {i} = {}
      BY DEF PassIsClean
  <2>1. Passing(i)
      BY DEF IInv, RunWell
  <2>2. summary.by = i /\ summary.result = "PASS"
      BY <2>1 DEF Passed, Passing, Verdicts
  <2>3. /\ checkout[Place(i)] # i
        /\ Owned(i) => ~sup[i].touched /\ kernel # i /\ reservation # i
      BY <2>1, <2>2 DEF Passing
  <2>4. ~Running(sup[i])
      BY <2>3 DEF IInv, RunWell, PhaseOwns
  <2>5. ~Live(i)
      BY <2>4 DEF Live, Running
  <2> QED
      BY <2>3, <2>5
<1> QED
    BY <1>1, Invariant, PTL

(* A verdict that was returned is on disk, and stays there whatever other  *)
(* run of the id comes.                                                    *)
THEOREM ReturnsAreOnDisk == Spec => []ReturnIsOnDisk
<1>1. IInv => ReturnIsOnDisk
  <2> SUFFICES ASSUME IInv, NEW i \in Runs, at[i] \in {"end", "exited"}, result[i] \in Verdicts
               PROVE  summary = [by |-> i, result |-> result[i]]
      BY DEF ReturnIsOnDisk
  <2>1. summary.by = i /\ summary.result = result[i]
      BY DEF IInv, RunWell, Passing
  <2> QED
      BY <2>1 DEF IInv, TypeOK
<1> QED
    BY <1>1, Invariant, PTL
=============================================================================
