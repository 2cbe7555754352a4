---------------------------- MODULE MCChildPlanner ----------------------------
(***************************************************************************)
(* An instance of ChildPlanner for TLC: three paths of which one is a      *)
(* document, small and large targets, one request per case of the planner, *)
(* two calls at once.                                                       *)
(***************************************************************************)
EXTENDS ChildPlanner, TLC

Small == [file |-> 1000, patch |-> 500, hunks |-> 1]
Large == [file |-> 60000, patch |-> 24000, hunks |-> 32]
Unread == [file |-> 1000, patch |-> FailedPatch, hunks |-> 0]

Untracked == [file |-> 13000, patch |-> 0, hunks |-> 0]

TwoSizes == {Small, Large}

SomeDisks ==
    {<<Small, Untracked, Small>>, <<Small, Small, Unread>>}

Request(role, targets, context) ==
    [role |-> role, targets |-> targets, questions |-> 1, fixed |-> 1,
     context |-> context, lossless |-> TRUE, finite |-> TRUE,
     discovery |-> FALSE, receipt |-> FALSE]

\* Two requests for review that differ in their questions, the second of which
\* is broad only once a target has grown; a request too long for one prompt; one
\* that a receipt answers, and one that names a target twice.
Broad == Request("fresh-review", <<3, 2, 1>>, 0)
Growing == [Request("fresh-review", <<3, 1>>, 0) EXCEPT !.questions = 2]
Lengthy == Request("explore", <<1, 2, 3>>, 2)
Final == [Request("verify", <<1>>, 0) EXCEPT !.receipt = TRUE]
Twice == Request("explore", <<1, 1>>, 0)

SomeWorkloads == {{Broad, Growing, Final}, {Lengthy, Final, Twice}}

SomeReports ==
    {[healthy |-> TRUE, formed |-> TRUE, success |-> TRUE, inspected |-> n,
      required |-> n] : n \in 1..2}

Targets == [role \in Roles |-> IF role = "explore" THEN 3 ELSE 2]
FiveLines == [role \in Roles |-> 5]

CallSymmetry == Permutations(Calls)
=============================================================================
