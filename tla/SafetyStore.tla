----------------------------- MODULE SafetyStore -----------------------------
(***************************************************************************)
(* createSafetyStore of lib/operation-guard-core.mjs: the load that a      *)
(* process performs once, the promise chain behind save(), the atomic      *)
(* replacement of the state file, and the hooks that wait for them.        *)
(*                                                                         *)
(* Of the safety object only the edit and Verify generations matter here;  *)
(* every edit counts as high-risk and review as central-owned, so the      *)
(* publication gate is closed while verifiedGeneration < editGeneration.   *)
(* Hooks are reduced to one that closes the gate (an edit), one that opens *)
(* it (a passing Verify), one that reads it (a push) and one that saves    *)
(* without touching it.  OpenCode sends chat.message first in a session    *)
(* and waits for it, so a session is open once that hook has returned.     *)
(***************************************************************************)
EXTENDS Integers, Sequences

CONSTANTS
    Sessions,   \* sessions served by the process
    Calls,      \* tool calls that can wait for a save at the same time
    NoSession,  \* no session
    NoFile,     \* the state file does not exist
    NotRead,    \* readFile has not returned
    Unreadable, \* reading or parsing the file failed
    MaxEdits    \* bound: edits attempted

Snapshot == [editGeneration : Nat, verifiedGeneration : Nat]

ASSUME StoreAssumption ==
    /\ MaxEdits \in Nat
    /\ NoSession \notin Sessions
    /\ {NoFile, NotRead, Unreadable} \cap Snapshot = {}
    /\ NoFile # NotRead /\ NoFile # Unreadable /\ NotRead # Unreadable

VARIABLES
    safety,     \* the in-memory safety object
    loaded,     \* the flag of load()
    reader,     \* the session whose chat.message awaits readFile, or NoSession
    sample,     \* what readFile returned to it
    opened,     \* sessions whose chat.message has returned
    saves,      \* the promise chain: snapshots not yet written, oldest first
    writing,    \* the oldest snapshot is complete in its temporary file
    broken,     \* the chain has rejected
    persistenceWarning,
    file,       \* the state file
    edits,      \* edits attempted so far
    admitted,   \* the latest edit whose before-hook let it run
    covered,    \* the latest edit attempted before the last passing Verify
    published,  \* the latest edit admitted before the last push let through
    loadRaced   \* some session was opened while another was still loading

storeVars == <<safety, loaded, reader, sample, opened, saves, writing, broken,
               persistenceWarning, file, edits, admitted, covered, published,
               loadRaced>>

process == <<loaded, reader, sample, opened>>
queue == <<saves, writing, broken>>
world == <<edits, admitted, covered, published, loadRaced>>

-----------------------------------------------------------------------------
emptySafetyState == [editGeneration |-> 0, verifiedGeneration |-> 0]

GateClosed(s) == s.verifiedGeneration < s.editGeneration

Waiting == {saves[i].call : i \in DOMAIN saves}

\* Mutant: the fallback forgets to raise the edit generation.
failClosedForgetsEdit(s) == [s EXCEPT !.verifiedGeneration = 0]

\* What the catch block of load() makes of a state it could not read.
failClosed(s) ==
    [editGeneration |-> IF s.editGeneration > 1 THEN s.editGeneration ELSE 1,
     verifiedGeneration |-> 0]

\* hydrateSafetyState assigns every field from the file, whatever the object
\* holds by now; a missing file changes nothing.
hydrated(s, read) == CASE read = NoFile -> s
                       [] read = Unreadable -> failClosed(s)
                       [] OTHER -> read

StoreInit ==
    /\ safety = emptySafetyState
    /\ loaded = FALSE /\ reader = NoSession /\ sample = NotRead /\ opened = {}
    /\ saves = <<>> /\ writing = FALSE /\ broken = FALSE
    /\ persistenceWarning = FALSE
    /\ file = NoFile
    /\ edits = 0 /\ admitted = 0 /\ covered = 0 /\ published = 0
    /\ loadRaced = FALSE

-----------------------------------------------------------------------------
(***************************************************************************)
(* load(), as chat.message calls it.                                       *)
(***************************************************************************)

\* The first caller raises the flag and then awaits the file.
LoadBegins(s) ==
    /\ ~loaded
    /\ loaded' = TRUE
    /\ reader' = s
    /\ UNCHANGED <<safety, sample, opened, queue, persistenceWarning, file, world>>

\* Every later caller finds the flag raised and goes on at once.
LoadSkipped(s) ==
    /\ loaded
    /\ s \notin opened /\ s # reader
    /\ opened' = opened \cup {s}
    /\ loadRaced' = (loadRaced \/ reader # NoSession)
    /\ UNCHANGED <<safety, loaded, reader, sample, queue, persistenceWarning,
                   file, edits, admitted, covered, published>>

FileRead ==
    /\ reader # NoSession
    /\ sample = NotRead
    /\ sample' \in {file, Unreadable}
    /\ UNCHANGED <<safety, loaded, reader, opened, queue, persistenceWarning,
                   file, world>>

LoadEnds ==
    /\ sample # NotRead
    /\ safety' = hydrated(safety, sample)
    /\ persistenceWarning' = (persistenceWarning \/ sample = Unreadable)
    /\ opened' = opened \cup {reader}
    /\ reader' = NoSession
    /\ sample' = NotRead
    /\ UNCHANGED <<loaded, queue, file, world>>

-----------------------------------------------------------------------------
(***************************************************************************)
(* save(): the snapshot is taken at the call and appended to the chain.  A *)
(* chain that has rejected rejects the new link too, and the hook throws.  *)
(***************************************************************************)
Save(c, edit) ==
    saves' = IF broken THEN saves
             ELSE Append(saves, [call |-> c, snapshot |-> safety', edit |-> edit])

\* Mutant: the hook does not wait for the save before it lets the edit run.
EditWithoutAwait(c) ==
    /\ edits < MaxEdits
    /\ edits' = edits + 1
    /\ safety' = [safety EXCEPT !.editGeneration = @ + 1]
    /\ Save(c, edits + 1)
    /\ admitted' = edits + 1
    /\ UNCHANGED <<process, writing, broken, persistenceWarning, file,
                   covered, published, loadRaced>>

\* The before-hook of an edit: the generation rises, and the edit runs only
\* if the save resolves.
Edit(c) ==
    /\ edits < MaxEdits
    /\ edits' = edits + 1
    /\ safety' = [safety EXCEPT !.editGeneration = @ + 1]
    /\ Save(c, edits + 1)
    /\ UNCHANGED <<process, writing, broken, persistenceWarning, file,
                   admitted, covered, published, loadRaced>>

\* The after-hook of a passing Verify launched at the present generation.
VerifyPasses(c) ==
    /\ safety' = [safety EXCEPT !.verifiedGeneration = safety.editGeneration]
    /\ covered' = edits
    /\ Save(c, 0)
    /\ UNCHANGED <<process, writing, broken, persistenceWarning, file,
                   edits, admitted, published, loadRaced>>

\* Any hook that saves and leaves the generations alone, as the ones that
\* record or forget the proved HEAD.
OtherSave(c) ==
    /\ UNCHANGED safety
    /\ Save(c, 0)
    /\ UNCHANGED <<process, writing, broken, persistenceWarning, file, world>>

\* The before-hook of git push reads the gate in memory.
Push ==
    /\ ~GateClosed(safety)
    /\ published' = admitted
    /\ UNCHANGED <<safety, process, queue, persistenceWarning, file,
                   edits, admitted, covered, loadRaced>>

-----------------------------------------------------------------------------
(***************************************************************************)
(* The chain.  mkdir, open, writeFile and sync fill a temporary file; the  *)
(* rename replaces the state file and resolves the save.  A crash between  *)
(* the two leaves a file that is newer than what was admitted, as a crash  *)
(* after the rename does, so they are one step.                            *)
(***************************************************************************)
TemporaryWritten ==
    /\ saves # <<>>
    /\ ~writing /\ ~broken
    /\ writing' = TRUE
    /\ UNCHANGED <<safety, process, saves, broken, persistenceWarning, file, world>>

\* Mutant: the object is serialized when its turn comes, not at the call.
RenamedLateSnapshot ==
    /\ writing
    /\ file' = safety
    /\ admitted' = IF Head(saves).edit > admitted THEN Head(saves).edit ELSE admitted
    /\ saves' = Tail(saves)
    /\ writing' = FALSE
    /\ persistenceWarning' = FALSE
    /\ UNCHANGED <<safety, process, broken, edits, covered, published, loadRaced>>

Renamed ==
    /\ writing
    /\ file' = Head(saves).snapshot
    /\ admitted' = IF Head(saves).edit > admitted THEN Head(saves).edit ELSE admitted
    /\ saves' = Tail(saves)
    /\ writing' = FALSE
    /\ persistenceWarning' = FALSE
    /\ UNCHANGED <<safety, process, broken, edits, covered, published, loadRaced>>

\* Mutant: only the failing save rejects; its followers are left waiting.
WriteFailsAlone ==
    /\ saves # <<>> /\ ~broken
    /\ saves' = Tail(saves)
    /\ writing' = FALSE
    /\ broken' = TRUE
    /\ UNCHANGED <<safety, process, persistenceWarning, file, world>>

\* Any step of the write fails: the temporary file is removed, and the
\* rejection reaches every save chained behind it.
WriteFails ==
    /\ saves # <<>> /\ ~broken
    /\ saves' = <<>>
    /\ writing' = FALSE
    /\ broken' = TRUE
    /\ UNCHANGED <<safety, process, persistenceWarning, file, world>>

\* The process ends at any moment and another one takes over the file.
Restart ==
    /\ safety' = emptySafetyState
    /\ loaded' = FALSE /\ reader' = NoSession /\ sample' = NotRead /\ opened' = {}
    /\ saves' = <<>> /\ writing' = FALSE /\ broken' = FALSE
    /\ persistenceWarning' = FALSE
    /\ UNCHANGED <<file, world>>

-----------------------------------------------------------------------------
Hook(c) == Edit(c) \/ VerifyPasses(c) \/ OtherSave(c)

StoreNext ==
    \/ \E s \in Sessions : LoadBegins(s) \/ LoadSkipped(s)
    \/ FileRead
    \/ LoadEnds
    \/ opened # {} /\ \E c \in Calls \ Waiting : Hook(c)
    \/ opened # {} /\ Push
    \/ TemporaryWritten
    \/ Renamed
    \/ WriteFails
    \/ Restart

StoreSpec == StoreInit /\ [][StoreNext]_storeVars

\* File-system promises settle, and the event loop runs what waits for them.
Fairness ==
    /\ WF_storeVars(FileRead) /\ WF_storeVars(LoadEnds)
    /\ WF_storeVars(TemporaryWritten) /\ WF_storeVars(Renamed \/ WriteFails)

FairSpec == StoreSpec /\ Fairness

-----------------------------------------------------------------------------
(***************************************************************************)
(* Properties.                                                             *)
(***************************************************************************)

\* The variables keep their types; an admitted or covered edit was attempted.
StoreTypeOK ==
    /\ safety \in Snapshot
    /\ loadRaced \in BOOLEAN
    /\ loaded \in BOOLEAN /\ writing \in BOOLEAN /\ broken \in BOOLEAN
    /\ persistenceWarning \in BOOLEAN
    /\ reader \in Sessions \cup {NoSession}
    /\ sample \in Snapshot \cup {NoFile, NotRead, Unreadable}
    /\ opened \subseteq Sessions
    /\ saves \in Seq([call : Calls, snapshot : Snapshot, edit : 0 .. MaxEdits])
    /\ file \in Snapshot \cup {NoFile}
    /\ edits \in 0 .. MaxEdits /\ published \in 0 .. MaxEdits
    /\ admitted \in 0 .. edits /\ covered \in 0 .. edits

\* Across restarts, failed writes and failed reads, no push is let through
\* while an edit that was allowed to run has seen no passing Verify since
\* (the gate of tool.execute.before over what load() and save() provide).
PublishedWorkIsCovered == published <= covered

\* The same for every workspace where no hook has run beside a load: that race
\* is the only way past the gate.
PublishedWorkIsCoveredUnlessRaced == loadRaced \/ PublishedWorkIsCovered

\* An edit that was allowed to run and is not verified keeps the gate closed
\* in the file, so that no crash can open it: the hook awaits save() first,
\* and no later snapshot overtakes or undoes the one it waited for.
FileKeepsGateClosed ==
    admitted > covered => loadRaced \/ (file # NoFile /\ GateClosed(file))

\* The store is an atomic file behind a first-in first-out queue, and an edit
\* is admitted by the very step that makes its snapshot durable.
Durable == INSTANCE DurableState WITH
              durable <- file, submitted <- saves, acknowledged <- admitted
ImplementsDurableState == Durable!Spec

\* No hook waits for ever: a load returns, and a save resolves or rejects,
\* also when the write ahead of it in the chain failed.
EveryHookReturns ==
    /\ \A s \in Sessions : reader = s ~> reader # s
    /\ \A c \in Calls : c \in Waiting ~> c \notin Waiting
=============================================================================
