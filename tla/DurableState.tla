---------------------------- MODULE DurableState ----------------------------
(***************************************************************************)
(* What a hook may rely on when it awaits safetyStore.save(): an atomic    *)
(* file behind a queue that is first in, first out.  The file only ever    *)
(* changes to the oldest submission, as a whole, and the edit that waits   *)
(* for the submission is acknowledged by that very step.  A submission may *)
(* also be lost, with every other outstanding one (a crash or a failed     *)
(* write), and is then never acknowledged.                                 *)
(***************************************************************************)
EXTENDS Integers, SequencesExt

CONSTANT NoFile

VARIABLES
    durable,      \* content of the file, or NoFile
    submitted,    \* records with the snapshot to write and the edit it admits
    acknowledged  \* the latest edit whose submission is durable

Init ==
    /\ durable = NoFile
    /\ submitted = <<>>
    /\ acknowledged = 0

Submit ==
    /\ submitted' # <<>>
    /\ submitted = Front(submitted')
    /\ UNCHANGED <<durable, acknowledged>>

Persist ==
    /\ submitted # <<>>
    /\ durable' = Head(submitted).snapshot
    /\ submitted' = Tail(submitted)
    /\ acknowledged' = IF Head(submitted).edit > acknowledged
                       THEN Head(submitted).edit
                       ELSE acknowledged

Lose ==
    /\ submitted' = <<>>
    /\ UNCHANGED <<durable, acknowledged>>

Spec == Init /\ [][Submit \/ Persist \/ Lose]_<<durable, submitted, acknowledged>>
=============================================================================
