---------------------------- MODULE ActionsEvidence ----------------------------
(***************************************************************************)
(* The trusted Actions verification: one dispatched run of ghdev-verify.yml *)
(* with its re-run attempts, from the controller's preflight through the   *)
(* executor and its commands to the receipt and the commit status, while   *)
(* the pull request and the main branch move on the remote.                *)
(*                                                                         *)
(* Every read of the remote is a step of its own.  What identifies the     *)
(* dispatch, the profile and the tool chain is compared for equality and   *)
(* cannot change within a run: those refusals are Lose.                    *)
(***************************************************************************)
EXTENDS Naturals, Sequences

CONSTANTS Bases, Heads, Mains,
          Dispatches,   \* expected_base_sha, expected_head_sha, expected_controller_sha
          Controlled,   \* pairs base, head whose trees differ in a trusted control path
          NCommands,    \* commands of the profile
          Collector,    \* the command that collects test totals; 0 for none
          MaxMoves,     \* bound on the moves of the remote
          MaxAttempts   \* bound on run attempts

ASSUME ActionsAssumption ==
    /\ Dispatches \subseteq [base : Bases, head : Heads, main : Mains]
    /\ Controlled \subseteq Bases \X Heads
    /\ NCommands \in 1..16 /\ Collector \in 0..NCommands
    /\ MaxMoves \in Nat /\ MaxAttempts \in Nat \ {0}

VARIABLES
    dispatch,  \* the inputs of the run
    pr,        \* the pull request
    main,      \* the head of main
    moves,     \* moves of the remote so far
    at,        \* the step the run is at
    attempt,   \* its attempt
    seen,      \* the pull request as the step before read it
    record,    \* execution.json
    receipt,   \* receipt.json of this attempt
    effective, \* the result the status will tell
    checkout,  \* the candidate checkout
    artifact,  \* the receipt this attempt uploaded
    posted,    \* the status that stands on the dispatched head, and the attempt that set it
    unclear,   \* a command whose exit evidence was inconsistent was counted
    exact      \* what was as dispatched, since the last phase began

remote == <<dispatch, pr, main, moves>>
local == <<seen, record, receipt, effective, checkout, unclear>>
published == <<artifact, posted>>
vars == <<remote, local, published, at, attempt, exact>>

PullRequests == [base : Bases, head : Heads, open : BOOLEAN]
Unread == [base |-> dispatch.base, head |-> dispatch.head, open |-> TRUE]
Results == {"PASS", "FAIL", "BLOCKED"}

Controlling == {"preflight", "resolve", "census"}
Executing == {"recheck", "reresolve", "setup", "commands",
              "source", "runner", "cleanup", "handoff"}
Publishing == {"build", "receipt", "upload", "status", "effective", "post"}
Ended == {"controller failed", "executor failed", "publisher failed",
          "rejected", "refused", "reported", "passed"}

NoRecord == [known |-> FALSE, moved |-> FALSE, runner |-> FALSE, attempt |-> 0, isolated |-> FALSE,
             exits |-> <<>>, totals |-> "none", clean |-> FALSE, steady |-> FALSE,
             removed |-> FALSE, result |-> "BLOCKED", reason |-> "other"]
Exits == {"zero", "nonzero", "signal"}
Records ==
    [known : BOOLEAN, moved : BOOLEAN, runner : BOOLEAN, attempt : 0..MaxAttempts, isolated : BOOLEAN,
     exits : UNION {[1..n -> Exits] : n \in 0..NCommands},
     totals : {"none", "good", "odd"}, clean : BOOLEAN, steady : BOOLEAN,
     removed : BOOLEAN, result : Results,
     reason : {"null", "signal", "other"}] \* the rules single out one block reason
NoReceipt == [attempt |-> 0, result |-> "BLOCKED"]
Receipts == [attempt : 0..MaxAttempts, result : Results \cup {"STALE"}]
NoArtifact == [receipt |-> NoReceipt, proven |-> FALSE]
NoStatus == [attempt |-> 0, state |-> "none"]

TypeOK ==
    /\ pr \in PullRequests /\ main \in Mains /\ moves \in 0..MaxMoves
    /\ at \in Controlling \cup Executing \cup Publishing \cup Ended
    /\ attempt \in 1..MaxAttempts /\ seen \in PullRequests
    /\ record \in Records /\ receipt \in Receipts
    /\ checkout \in {"none", "exact", "dirty", "moved"}
    /\ effective \in Results \cup {"STALE", "none"} /\ dispatch \in Dispatches
    /\ artifact \in [receipt : Receipts, proven : BOOLEAN]
    /\ posted \in [attempt : 0..MaxAttempts, state : {"none", "success", "failure", "error"}]
    /\ unclear \in BOOLEAN /\ exact \in [pr : BOOLEAN, main : BOOLEAN]

Exact(p) == p.open /\ p.base = dispatch.base /\ p.head = dispatch.head
Moved(p) == p.base # dispatch.base \/ p.head # dispatch.head
Since(p, m) == [pr |-> Exact(p), main |-> m = dispatch.main]
Never == [pr |-> FALSE, main |-> FALSE]

(* The run is of the head of main, or it refuses at once. *)
Init ==
    /\ dispatch \in Dispatches /\ pr \in PullRequests /\ main = dispatch.main /\ moves = 0
    /\ at = "preflight" /\ attempt = 1 /\ seen = Unread
    /\ record = NoRecord /\ receipt = NoReceipt /\ checkout = "none"
    /\ effective = "none"
    /\ artifact = NoArtifact /\ posted = NoStatus /\ unclear = FALSE
    /\ exact = Never

-----------------------------------------------------------------------------
(* Moments are watched for from the recheck to the first command, and from *)
(* the upload of the receipt to its status.                                *)
Watched == {"recheck", "reresolve", "setup", "status", "effective", "post"}

(* The remote: pushes, rebases, closing and reopening, merges into main. *)
Remote ==
    /\ at \notin Ended \/ attempt < MaxAttempts
    /\ moves < MaxMoves /\ moves' = moves + 1
    /\ \/ pr' \in PullRequests \ {pr} /\ main' = main
       \/ main' \in Mains \ {main} /\ pr' = pr
    /\ exact' = IF at \notin Watched THEN exact
                ELSE [pr |-> exact.pr \/ Exact(pr'), main |-> exact.main \/ main' = dispatch.main]
    /\ UNCHANGED <<dispatch, local, published, at, attempt>>

Enter(step) == at' = step /\ exact' = Since(pr, main)
Go(step) == at' = step /\ exact' = IF step \in Watched THEN exact ELSE Never

(* A job that ends before its step does: a time limit, a failing request,  *)
(* a runner that disappears, a record that could not be written.           *)
JobOf(step) == IF step \in Controlling THEN "controller failed"
               ELSE IF step \in Executing THEN "executor failed" ELSE "publisher failed"
Lose ==
    /\ at \notin Ended /\ Go(JobOf(at)) /\ seen' = Unread /\ effective' = "none"
    /\ receipt' = NoReceipt /\ checkout' = "none"
    /\ IF at \in Publishing THEN UNCHANGED <<record, unclear>>
       ELSE record' = NoRecord /\ unclear' = FALSE
    /\ UNCHANGED <<remote, published, attempt>>

-----------------------------------------------------------------------------
\* Mutant: the census is taken of what the pull request holds now.
SelfCertifyingNow == <<pr.base, pr.head>> \in Controlled

(* ghdev-actions-controller.mjs: main, then the pull request, then the     *)
(* immutable trees of the dispatched commits.                              *)
SelfCertifying == <<dispatch.base, dispatch.head>> \in Controlled

EvaluatePrIdentity(p) ==
    IF ~p.open THEN "BLOCKED" ELSE IF Moved(p) THEN "STALE" ELSE "PASS"

ReadController(here, next) ==
    /\ at = here
    /\ IF main = dispatch.main THEN Go(next) ELSE Go(JobOf(here))
    /\ UNCHANGED <<remote, local, published, attempt>>

ReadPullRequest(here, next) ==
    /\ at = here
    /\ IF EvaluatePrIdentity(pr) = "PASS" THEN Go(next) ELSE Go(JobOf(here))
    /\ UNCHANGED <<remote, local, published, attempt>>

Census ==
    /\ at = "census"
    /\ IF SelfCertifying THEN Go("controller failed") ELSE Enter("recheck")
    /\ UNCHANGED <<remote, local, published, attempt>>

Preflight ==
    \/ ReadController("preflight", "resolve")
    \/ ReadPullRequest("resolve", "census")
    \/ Census

Recheck ==
    \/ ReadController("recheck", "reresolve")
    \/ ReadPullRequest("reresolve", "setup")

-----------------------------------------------------------------------------
(* ghdev-actions-executor.mjs.  After the recheck the workflow checks out  *)
(* the dispatched head; the executor proves HEAD, the tools, the image     *)
(* marker and the live runner, and blocks where it cannot.                 *)
StartRecord == [NoRecord EXCEPT !.attempt = attempt]

Setup ==
    /\ at = "setup" /\ checkout' = "exact" /\ unclear' = FALSE
    /\ \/ record' = [StartRecord EXCEPT !.known = TRUE, !.runner = TRUE] /\ Go("commands")
       \/ \E known \in BOOLEAN : record' = [StartRecord EXCEPT !.known = known] /\ Go("source")
    /\ UNCHANGED <<remote, effective, seen, receipt, published, attempt>>

(* Something outside the sandbox touches the candidate checkout; only what *)
(* the final proof finds is ever read.                                     *)
Disturb ==
    /\ at = "source" /\ checkout = "exact"
    /\ checkout' \in {"dirty", "moved"}
    /\ UNCHANGED <<remote, effective, seen, record, receipt, unclear, published, at, attempt, exact>>

Block(rec, reason) == [rec EXCEPT !.result = "BLOCKED", !.reason = reason]
Counted(rec, exit) == [rec EXCEPT !.isolated = TRUE, !.exits = Append(@, exit)]
Command == Len(record.exits) + 1

(* No child: a spawn error, a malformed status channel, or bubblewrap      *)
(* failed before it started the command, or an end without exit or signal. *)
NotStarted ==
    /\ record' \in {Block(record, "other"), Block([record EXCEPT !.isolated = TRUE], "other")}
    /\ Go("source") /\ UNCHANGED unclear

\* Mutant: the loop is not left when the evidence disagrees.
InconsistentGoesOn ==
    /\ \E exit \in Exits : record' = Block(Counted(record, exit), "other")
    /\ unclear' = TRUE /\ Go(IF Command = NCommands THEN "source" ELSE "commands")

(* What bubblewrap reported disagrees with the process status. *)
Inconsistent ==
    /\ \E exit \in Exits : record' = Block(Counted(record, exit), "other")
    /\ unclear' = TRUE /\ Go("source")

TotalsAfter(rec) == IF Command = Collector THEN {"none", "good", "odd"} ELSE {rec.totals}

Killed ==
    /\ \E totals \in TotalsAfter(record) :
          record' = Block([Counted(record, "signal") EXCEPT !.totals = totals], "signal")
    /\ Go("source") /\ UNCHANGED unclear

Failed ==
    /\ \E totals \in TotalsAfter(record) :
          record' = [Counted(record, "nonzero") EXCEPT !.totals = totals,
                                                       !.result = "FAIL", !.reason = "null"]
    /\ Go("source") /\ UNCHANGED unclear

Succeeded ==
    /\ \E totals \in TotalsAfter(record) :
          record' = [Counted(record, "zero") EXCEPT !.totals = totals]
    /\ Go(IF Command = NCommands THEN "source" ELSE "commands") /\ UNCHANGED unclear

RunCommand ==
    /\ at = "commands"
    /\ NotStarted \/ Inconsistent \/ Killed \/ Failed \/ Succeeded
    /\ UNCHANGED <<remote, effective, seen, receipt, checkout, published, attempt>>

AllZero(rec) == Len(rec.exits) = NCommands /\ \A i \in DOMAIN rec.exits : rec.exits[i] = "zero"

(* After the loop: every command ran and ended with zero. *)
Concluded(rec) ==
    IF ~AllZero(rec) THEN rec
    ELSE IF Collector # 0 /\ rec.totals = "none" THEN Block(rec, "other")
    ELSE [rec EXCEPT !.result = "PASS", !.reason = "null"]

\* Mutant: a checkout that is not clean is noted and no more.
SourceNoted(rec, tree) ==
    IF ~rec.known THEN rec
    ELSE [rec EXCEPT !.moved = tree = "moved", !.clean = tree = "exact"]

(* HEAD and git status of the checkout, where HEAD was known at the start. *)
SourceProof(rec, tree) ==
    IF ~rec.known THEN rec
    ELSE LET proved == [rec EXCEPT !.moved = tree = "moved", !.clean = tree = "exact"]
         IN IF proved.clean THEN proved ELSE Block(proved, "other")

FinalSource ==
    /\ at = "source" /\ Go("runner")
    /\ \/ record' = SourceProof(Concluded(record), checkout)
       \/ /\ record.known
          /\ \E moved \in {FALSE, checkout = "moved"} :
                record' = Block([record EXCEPT !.moved = moved], "other")
    /\ UNCHANGED <<remote, effective, seen, receipt, checkout, unclear, published, attempt>>

FinalRunner ==
    /\ at = "runner" /\ Go("cleanup")
    /\ \/ record' = IF record.runner THEN [record EXCEPT !.steady = TRUE] ELSE record
       \/ record.runner /\ record' = Block(record, "other")
    /\ UNCHANGED <<remote, effective, seen, receipt, checkout, unclear, published, attempt>>

(* The removal may fail, or leave something at the path without an error.  *)
Cleanup ==
    /\ at = "cleanup" /\ Go("handoff")
    /\ \/ record' = [record EXCEPT !.removed = TRUE] /\ checkout' = "none"
       \/ record' = Block(record, "other") /\ UNCHANGED checkout
       \/ record' = record /\ UNCHANGED checkout
    /\ UNCHANGED <<remote, effective, seen, receipt, unclear, published, attempt>>

(* execution.json is uploaded and the workspace of the job is removed. *)
Handoff ==
    /\ at = "handoff" /\ Enter("build") /\ checkout' = "none"
    /\ UNCHANGED <<remote, effective, seen, record, receipt, unclear, published, attempt>>

-----------------------------------------------------------------------------
(* lib/actions-evidence.mjs *)
ValidExecution(rec) ==
    /\ (rec.exits # <<>> \/ rec.result # "BLOCKED") =>
          rec.known /\ ~rec.moved /\ rec.runner /\ rec.isolated
    /\ rec.result = "FAIL" =>
          /\ rec.exits # <<>> /\ rec.exits[Len(rec.exits)] = "nonzero"
          /\ \A i \in 1..(Len(rec.exits) - 1) : rec.exits[i] = "zero"
    /\ rec.reason = "signal" => rec.result = "BLOCKED" /\ rec.exits[Len(rec.exits)] = "signal"
    /\ (rec.result = "BLOCKED") <=> (rec.reason # "null")
    /\ rec.result = "PASS" =>
          /\ AllZero(rec) /\ rec.clean /\ rec.removed /\ rec.steady
          /\ Collector # 0 => rec.totals = "good"

(* publicationIdentity: a move outweighs a closed pull request. *)
PublicationIdentity(p) ==
    IF main # dispatch.main \/ Moved(p) THEN "STALE"
    ELSE IF EvaluatePrIdentity(p) = "PASS" THEN "PASS" ELSE "BLOCKED"

BuildReceipt(rec, final) ==
    [attempt |-> attempt, result |-> IF final = "PASS" THEN rec.result ELSE final]

ResolvePullRequest(here, next) ==
    /\ at = here /\ seen' = pr /\ Go(next)
    /\ UNCHANGED <<remote, effective, record, receipt, checkout, unclear, published, attempt>>

(* build: the head of main is the last read, then the receipt is written. *)
Build ==
    /\ at = "receipt" /\ seen' = Unread
    /\ IF ValidExecution(record)
       THEN receipt' = BuildReceipt(record, PublicationIdentity(seen)) /\ Go("upload")
       ELSE receipt' = receipt /\ Go("rejected")
    /\ UNCHANGED <<remote, effective, record, checkout, unclear, published, attempt>>

(* What a success is to rest on; kept beside the receipt it was built from. *)
Proven == AllZero(record) /\ ~unclear /\ record.clean /\ record.removed /\ record.steady

Upload ==
    /\ at = "upload" /\ artifact' = [receipt |-> receipt, proven |-> Proven]
    /\ Enter("status")
    /\ UNCHANGED <<remote, local, posted, attempt>>

(* status: the receipt must be of this attempt, then the identity again.   *)
Accept ==
    /\ at = "status"
    /\ IF receipt.attempt = attempt THEN seen' = pr /\ Go("effective")
       ELSE seen' = seen /\ Go("refused")
    /\ UNCHANGED <<remote, effective, record, receipt, checkout, unclear, published, attempt>>

\* Mutant: the status repeats the receipt.
ReceiptResult(p) == receipt.result

EffectiveResult(p) ==
    IF PublicationIdentity(p) = "PASS" THEN receipt.result ELSE PublicationIdentity(p)

Resolve ==
    /\ at = "effective" /\ seen' = Unread /\ Go("post")
    /\ effective' = EffectiveResult(seen)
    /\ UNCHANGED <<remote, record, receipt, checkout, unclear, published, attempt>>

StatusForResult(result) ==
    IF result = "PASS" THEN "success" ELSE IF result = "FAIL" THEN "failure" ELSE "error"

(* The request may take effect and its answer be lost. *)
Post ==
    /\ at = "post"
    /\ posted' = [attempt |-> attempt, state |-> StatusForResult(effective)]
    /\ \/ Go(IF effective = "PASS" THEN "passed" ELSE "reported")
       \/ Go("publisher failed")
    /\ effective' = "none"
    /\ UNCHANGED <<remote, seen, record, receipt, checkout, unclear, artifact, attempt>>

-----------------------------------------------------------------------------
(* Re-run of the failed jobs, which keeps the outputs of the jobs that     *)
(* succeeded, or of all jobs.                                              *)
RerunFailed ==
    /\ at \in Ended \ {"passed"} /\ attempt < MaxAttempts /\ attempt' = attempt + 1
    /\ receipt' = NoReceipt /\ artifact' = NoArtifact
    /\ \/ at = "controller failed" /\ Enter("preflight") /\ UNCHANGED record
       \/ at = "executor failed" /\ Enter("recheck") /\ record' = NoRecord
       \/ at \notin {"controller failed", "executor failed"} /\ Enter("build") /\ UNCHANGED record
    /\ UNCHANGED <<remote, effective, seen, checkout, unclear, posted>>

RerunAll ==
    /\ at \in Ended /\ attempt < MaxAttempts /\ attempt' = attempt + 1
    /\ Enter("preflight") /\ record' = NoRecord /\ receipt' = NoReceipt /\ artifact' = NoArtifact
    /\ unclear' = FALSE /\ checkout' = "none"
    /\ UNCHANGED <<remote, effective, seen, posted>>

Controller == Preflight
Executor == Recheck \/ Setup \/ RunCommand \/ FinalSource \/ FinalRunner \/ Cleanup \/ Handoff
Publisher ==
    \/ ResolvePullRequest("build", "receipt") \/ Build \/ Upload
    \/ Accept \/ Resolve \/ Post

Next ==
    \/ Controller \/ Executor \/ Publisher
    \/ Remote \/ Disturb \/ Lose \/ RerunFailed \/ RerunAll

Spec == Init /\ [][Next]_vars

-----------------------------------------------------------------------------
(***************************************************************************)
(* Properties.                                                             *)
(***************************************************************************)
\* Neither a command of the candidate nor a success acts on an identity that
\* had gone: since the executor job began, or since the receipt was uploaded,
\* there was a moment the pull request was open at the dispatched base and head
\* and a moment main was at the dispatched controller, whatever moved, closed or
\* was re-run meanwhile.
ActsOnExactIdentity ==
    [][/\ at # "commands" /\ at' = "commands" => exact.pr /\ exact.main
       /\ at = "post" /\ posted' # posted /\ effective = "PASS" => exact.pr /\ exact.main]_vars

\* A success rests on a receipt uploaded before it in the same attempt: PASS,
\* every command of the profile ended with zero and undisputed, on a checkout
\* that was clean and has been removed, on the runner that began.
\* It needs a profile whose last command collects the totals, as the
\* repository's does: see README.
SuccessIsBacked ==
    posted.state = "success" /\ posted.attempt = attempt =>
        /\ artifact.proven
        /\ artifact.receipt.attempt = attempt /\ artifact.receipt.result = "PASS"

\* A head whose diff against the dispatched base touches the trusted control
\* files is never given a success, nor are its commands run, although the pull
\* request may show something else whenever the controller looks.
NoSelfCertification ==
    <<dispatch.base, dispatch.head>> \in Controlled =>
        at \notin Executing \cup Publishing /\ posted = NoStatus

\* The publisher accepts what the executor hands over, so that a run that ended
\* gets its receipt.  Three records it cannot accept, and no other, can be handed
\* over: one of commands run whose HEAD was found moved, a PASS whose test totals
\* contradict the zero exits, and a PASS whose checkout is still there after a
\* removal that reported no error (validateExecutionRecord).  A failed run with
\* failing totals, or a blocked one that could not be cleaned up, is accepted.
HandoffIsAccepted ==
    at \in {"build", "receipt"} =>
        \/ ValidExecution(record)
        \/ record.moved /\ record.exits # <<>>
        \/ record.result = "PASS" /\ (record.totals = "odd" \/ ~record.removed)
=============================================================================
