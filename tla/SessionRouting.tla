---------------------------- MODULE SessionRouting ----------------------------
(***************************************************************************)
(* Which guard serves a session: index.mjs keeps one operation guard per   *)
(* governed directory and routes every hook of a session to the guard of   *)
(* the directory the session is in.  The hooks are asynchronous: a lookup  *)
(* of the session's directory, a move to another guard and the guard's own *)
(* work all await, so hooks overlap and see each other's routes.           *)
(*                                                                         *)
(* One session is modelled; sessions share no entry of the router's maps.  *)
(* Of a guard only its session-local state is kept: that it has one.       *)
(***************************************************************************)
EXTENDS FiniteSets, Naturals, Sequences

CONSTANTS
    Dirs,          \* governed directories
    Fallback,      \* the directory the plugin was constructed with
    ToolCalls,     \* tool calls of the session
    Hooks,         \* bound: hooks under way at once
    MaxMoves,      \* bound: changes of the session's directory
    NoDir, NoHook, NoRoute   \* null values

VARIABLES
    session,       \* what OpenCode knows: the directory, and whether it exists
    moves,         \* changes of the directory so far
    bus,           \* events of the session not yet delivered
    program,       \* call |-> how far OpenCode is with it
    route,         \* sessionRoutes
    notice,        \* directoryNotices: the directory the notice names
    callRoutes,    \* call |-> the directory its before-hook was served by
    local,         \* directories whose guard holds state of the session
    hooks,         \* the hooks under way
    servedBy,      \* history: call |-> directory of its before-hook
    shown,         \* history: the directory the model was last told
    late           \* history: guards entered while, or after, the session left

routerVars == <<session, moves, bus, program, route, notice, callRoutes, local, hooks,
                servedBy, shown, late>>
opencode == <<session, moves, bus, program>>
history == <<servedBy, shown, late>>

Sources == {"session", "fallback"}
Routes == [dir : Dirs, source : Sources]
EventKinds == {"updated", "deleted", "other"}
Kinds == EventKinds \cup {"chat", "transform", "before", "after"}

\* A hook: its kind, the call it is for, the route it saw at its start, the
\* directory it has been answered or is served by, and where it is moving to.
Hook(kind, call) ==
    [kind |-> kind, call |-> call, phase |-> "start", seen |-> NoRoute,
     dir |-> NoDir, from |-> NoDir, source |-> "fallback"]

NoCall == NoDir

HookRecords ==
    [kind : Kinds, call : ToolCalls \cup {NoCall},
     phase : {"start", "lookup", "answered", "moving", "serve", "record", "forget"},
     seen : Routes \cup {NoRoute}, dir : Dirs \cup {NoDir}, from : Dirs \cup {NoDir},
     source : Sources]

ASSUME RouterAssumption ==
    /\ Fallback \in Dirs /\ NoDir \notin Dirs /\ MaxMoves \in Nat
    /\ NoHook \notin Hooks \cup HookRecords /\ NoRoute \notin Routes

Idle(h) == hooks[h] = NoHook

-----------------------------------------------------------------------------
RouterTypeOK ==
    /\ session \in [dir : Dirs, alive : BOOLEAN] /\ moves \in 0 .. MaxMoves
    /\ bus \in Seq([kind : {"updated", "deleted"}, dir : Dirs])
    /\ program \in [ToolCalls -> {"new", "asked", "refused", "admitted", "ran", "over"}]
    /\ route \in Routes \cup {NoRoute} /\ notice \in Dirs \cup {NoDir}
    /\ {callRoutes, servedBy} \subseteq [ToolCalls -> Dirs \cup {NoDir}]
    /\ local \subseteq Dirs /\ hooks \in [Hooks -> HookRecords \cup {NoHook}]
    /\ shown \in Dirs \cup {NoDir} /\ late \subseteq Dirs

RouterInit ==
    /\ session \in [dir : Dirs, alive : {TRUE}]
    /\ moves = 0 /\ bus = <<>>
    /\ program = [c \in ToolCalls |-> "new"]
    /\ route = NoRoute /\ notice = NoDir
    /\ callRoutes = [c \in ToolCalls |-> NoDir]
    /\ local = {}
    /\ hooks = [h \in Hooks |-> NoHook]
    /\ servedBy = [c \in ToolCalls |-> NoDir]
    /\ shown = NoDir /\ late = {}

(***************************************************************************)
(* OpenCode: the session moves and ends, and its calls run.                *)
(***************************************************************************)
SessionMoves(dir) ==
    /\ session.alive /\ dir # session.dir /\ moves < MaxMoves
    /\ session' = [session EXCEPT !.dir = dir]
    /\ moves' = moves + 1
    /\ bus' = Append(bus, [kind |-> "updated", dir |-> dir])
    /\ UNCHANGED <<program, route, notice, callRoutes, local, hooks, history>>

SessionEnds ==
    /\ session.alive
    /\ session' = [session EXCEPT !.alive = FALSE]
    /\ bus' = Append(bus, [kind |-> "deleted", dir |-> session.dir])
    /\ UNCHANGED <<moves, program, route, notice, callRoutes, local, hooks, history>>

ToolRuns(c) ==
    /\ program[c] = "admitted"
    /\ program' = [program EXCEPT ![c] = "ran"]
    /\ UNCHANGED <<session, moves, bus, route, notice, callRoutes, local, hooks, history>>

(***************************************************************************)
(* transitionSessionRoute.  "k" is the hook's record, "target" where it    *)
(* takes the session.                                                      *)
(***************************************************************************)
Serve(h, k, dir) ==
    hooks' = [hooks EXCEPT ![h] = [Hook(k.kind, k.call) EXCEPT !.phase = "serve", !.dir = dir]]

\* The guard another hook took the session to meanwhile is not told, and one
\* that another hook has begun to leave will not be told again.
Overtaken(k) == IF route = NoRoute THEN {} ELSE {route.dir} \ {k.from}
BeingLeft(h) == {hooks[g].from : g \in {g \in Hooks \ {h} : ~Idle(g) /\ hooks[g].phase = "moving"}}

StaysThere(h, k, target, source) ==
    /\ route # NoRoute /\ route.dir = target
    /\ route' = IF source = "session" THEN [route EXCEPT !.source = "session"] ELSE route
    /\ Serve(h, k, target)
    /\ UNCHANGED <<notice, callRoutes, local, history>>

EntersFirst(h, k, target, source) ==
    /\ route = NoRoute
    /\ route' = [dir |-> target, source |-> source]
    /\ Serve(h, k, target)
    /\ shown' = target /\ late' = (late \ {target}) \cup BeingLeft(h)
    /\ UNCHANGED <<notice, callRoutes, local, servedBy>>

\* Mutant: the guard that is left is not told.
LeavesSilently(h, k, target, source) ==
    /\ route # NoRoute /\ route.dir # target
    /\ hooks' = [hooks EXCEPT ![h] = [Hook(k.kind, k.call) EXCEPT
                  !.phase = "moving", !.dir = target, !.from = route.dir, !.source = source]]
    /\ UNCHANGED <<local, route, notice, callRoutes, history>>

\* The guard that is left drops its state of the session, and is awaited.
StartsToLeave(h, k, target, source) ==
    /\ route # NoRoute /\ route.dir # target
    /\ local' = local \ {route.dir}
    /\ hooks' = [hooks EXCEPT ![h] = [Hook(k.kind, k.call) EXCEPT
                  !.phase = "moving", !.dir = target, !.from = route.dir, !.source = source]]
    /\ UNCHANGED <<route, notice, callRoutes, history>>

transitionSessionRoute(h, k, target, source) ==
    \/ StaysThere(h, k, target, source)
    \/ EntersFirst(h, k, target, source)
    \/ StartsToLeave(h, k, target, source)

\* Mutant: a move back from the fallback directory needs no notice.
MoveEndsQuietly(h) ==
    LET k == hooks[h] IN
    /\ k # NoHook /\ k.phase = "moving"
    /\ notice' = IF k.from = Fallback THEN notice ELSE k.dir
    /\ route' = [dir |-> k.dir, source |-> k.source]
    /\ Serve(h, k, k.dir)
    /\ late' = ((late \cup Overtaken(k)) \ {k.dir}) \cup BeingLeft(h)
    /\ UNCHANGED <<opencode, callRoutes, local, servedBy, shown>>

MoveEnds(h) ==
    LET k == hooks[h] IN
    /\ k # NoHook /\ k.phase = "moving"
    /\ notice' = k.dir
    /\ route' = [dir |-> k.dir, source |-> k.source]
    /\ Serve(h, k, k.dir)
    /\ late' = ((late \cup Overtaken(k)) \ {k.dir}) \cup BeingLeft(h)
    /\ UNCHANGED <<opencode, callRoutes, local, servedBy, shown>>

(***************************************************************************)
(* routeForSession.                                                        *)
(***************************************************************************)
\* chat.message, and session.updated without a directory, look it up anew.
Refreshes(k) == k.kind \in {"chat", "updated"}

\* The route is one that OpenCode itself named.
Known == route \in [dir : Dirs, source : {"session"}]

\* The first synchronous stretch of a hook.
routeForSession(h, k, hint) ==
    \/ hint # NoDir /\ transitionSessionRoute(h, k, hint, "session")
    \/ /\ hint = NoDir
       /\ Refreshes(k) \/ ~Known
       /\ hooks' = [hooks EXCEPT ![h] = [k EXCEPT !.phase = "lookup", !.seen = route]]
       /\ UNCHANGED <<route, notice, callRoutes, local, history>>
    \/ /\ hint = NoDir /\ ~Refreshes(k) /\ Known
       /\ Serve(h, k, route.dir)
       /\ UNCHANGED <<route, notice, callRoutes, local, history>>

\* client.session.get, twice at most: the directory, or nothing.
LookupAnswered(h) ==
    /\ ~Idle(h) /\ hooks[h].phase = "lookup"
    /\ \E answer \in {NoDir} \cup (IF session.alive THEN {session.dir} ELSE {}) :
          hooks' = [hooks EXCEPT ![h].phase = "answered", ![h].dir = answer]
    /\ UNCHANGED <<opencode, route, notice, callRoutes, local, history>>

LookupReturns(h) ==
    LET k == hooks[h] IN
    /\ k # NoHook /\ k.phase = "answered"
    /\ \/ k.dir # NoDir /\ transitionSessionRoute(h, k, k.dir, "session")
       \/ /\ k.dir = NoDir /\ k.seen # NoRoute
          /\ Serve(h, k, k.seen.dir)
          /\ UNCHANGED <<route, notice, callRoutes, local, history>>
       \/ /\ k.dir = NoDir /\ k.seen = NoRoute
          /\ transitionSessionRoute(h, k, Fallback, "fallback")
    /\ UNCHANGED opencode

(***************************************************************************)
(* The hooks.                                                              *)
(***************************************************************************)
\* chat.message, the system transform and events that carry no directory may
\* come at any time while the session exists.
BeginPlain(h, kind) ==
    /\ Idle(h) /\ session.alive /\ kind \in {"chat", "transform", "other"}
    /\ routeForSession(h, Hook(kind, NoCall), NoDir)
    /\ UNCHANGED opencode

BeginBefore(h, c) ==
    /\ Idle(h) /\ session.alive /\ program[c] = "new"
    /\ program' = [program EXCEPT ![c] = "asked"]
    /\ routeForSession(h, Hook("before", c), NoDir)
    /\ UNCHANGED <<session, moves, bus>>

\* Mutant: the after-hook is routed like every other hook.
BeginAfterAnywhere(h, c) ==
    /\ Idle(h) /\ program[c] = "ran"
    /\ program' = [program EXCEPT ![c] = "over"]
    /\ routeForSession(h, Hook("after", c), NoDir)
    /\ UNCHANGED <<session, moves, bus>>

\* The after-hook takes the route its before-hook left in callRoutes.
BeginAfter(h, c) ==
    /\ Idle(h) /\ program[c] = "ran"
    /\ program' = [program EXCEPT ![c] = "over"]
    /\ \/ /\ callRoutes[c] # NoDir
          /\ Serve(h, Hook("after", c), callRoutes[c])
          /\ UNCHANGED <<route, notice, callRoutes, local, history>>
       \/ callRoutes[c] = NoDir /\ routeForSession(h, Hook("after", c), NoDir)
    /\ UNCHANGED <<session, moves, bus>>

\* session.updated and session.deleted carry the directory in their info, or
\* do not, by the version of OpenCode.
BeginEvent(h) ==
    /\ Idle(h) /\ bus # <<>>
    /\ bus' = Tail(bus)
    /\ \E hint \in {NoDir, Head(bus).dir} :
          routeForSession(h, Hook(Head(bus).kind, NoCall), hint)
    /\ UNCHANGED <<session, moves, program>>

\* Entering a guard creates its state of the session.  "late" records that the
\* session had left that guard, or was leaving it.
Leaving(dir) ==
    \/ route = NoRoute \/ route.dir # dir
    \/ dir \in BeingLeft(NoHook)
    \/ \E g \in Hooks : ~Idle(g) /\ hooks[g].phase = "forget" /\ hooks[g].dir = dir

EntersGuard(k) ==
    /\ local' = local \cup {k.dir}
    /\ late' = IF Leaving(k.dir) THEN late \cup {k.dir} ELSE late

Serving(h, kind) == ~Idle(h) /\ hooks[h].phase = "serve" /\ hooks[h].kind = kind

HookEnds(h) == hooks' = [hooks EXCEPT ![h] = NoHook]

ServeBefore(h) ==
    /\ Serving(h, "before") /\ EntersGuard(hooks[h])
    /\ servedBy' = [servedBy EXCEPT ![hooks[h].call] = hooks[h].dir]
    /\ \/ hooks' = [hooks EXCEPT ![h].phase = "record"] /\ UNCHANGED program
       \/ HookEnds(h) /\ program' = [program EXCEPT ![hooks[h].call] = "refused"]
    /\ UNCHANGED <<session, moves, bus, route, notice, callRoutes, shown>>

RecordBefore(h) ==
    LET k == hooks[h] IN
    /\ k # NoHook /\ k.phase = "record"
    /\ callRoutes' = [callRoutes EXCEPT ![k.call] = k.dir]
    /\ program' = [program EXCEPT ![k.call] = "admitted"]
    /\ HookEnds(h)
    /\ UNCHANGED <<session, moves, bus, route, notice, local, history>>

ServeAfter(h) ==
    /\ Serving(h, "after") /\ EntersGuard(hooks[h])
    /\ callRoutes' = [callRoutes EXCEPT ![hooks[h].call] = NoDir]
    /\ servedBy' = [servedBy EXCEPT ![hooks[h].call] = NoDir]
    /\ HookEnds(h)
    /\ UNCHANGED <<opencode, route, notice, shown>>

ServePlain(h) ==
    /\ Serving(h, "chat") \/ Serving(h, "other")
    /\ EntersGuard(hooks[h]) /\ HookEnds(h)
    /\ UNCHANGED <<opencode, route, notice, callRoutes, servedBy, shown>>

\* The notice is pushed to the system prompt where there is one, then deleted.
ServeTransform(h) ==
    /\ Serving(h, "transform")
    /\ \/ /\ notice # NoDir
          /\ shown' = notice /\ notice' = NoDir
       \/ UNCHANGED <<shown, notice>>
    /\ HookEnds(h)
    /\ UNCHANGED <<opencode, route, callRoutes, local, servedBy, late>>

ServeUpdated(h) ==
    /\ Serving(h, "updated") /\ HookEnds(h)
    /\ UNCHANGED <<opencode, route, notice, callRoutes, local, history>>

\* session.deleted: the guard drops its state; the router forgets the session
\* after the await.
ServeDeleted(h) ==
    /\ Serving(h, "deleted")
    /\ local' = local \ {hooks[h].dir}
    /\ hooks' = [hooks EXCEPT ![h].phase = "forget"]
    /\ UNCHANGED <<opencode, route, notice, callRoutes, history>>

Forget(h) ==
    /\ ~Idle(h) /\ hooks[h].phase = "forget"
    /\ route' = NoRoute /\ notice' = NoDir /\ shown' = NoDir
    /\ callRoutes' = [c \in ToolCalls |-> NoDir]
    /\ HookEnds(h)
    /\ UNCHANGED <<opencode, local, servedBy, late>>

-----------------------------------------------------------------------------
RouterNext ==
    \/ \E dir \in Dirs : SessionMoves(dir)
    \/ SessionEnds
    \/ \E c \in ToolCalls : ToolRuns(c)
    \/ \E h \in Hooks :
          \/ \E kind \in Kinds : BeginPlain(h, kind)
          \/ \E c \in ToolCalls : BeginBefore(h, c)
          \/ \E c \in ToolCalls : BeginAfter(h, c)
          \/ BeginEvent(h)
          \/ LookupAnswered(h)
          \/ LookupReturns(h)
          \/ MoveEnds(h)
          \/ ServeBefore(h)
          \/ RecordBefore(h)
          \/ ServeAfter(h)
          \/ ServePlain(h)
          \/ ServeTransform(h)
          \/ ServeUpdated(h)
          \/ ServeDeleted(h)
          \/ Forget(h)

RouterSpec == RouterInit /\ [][RouterNext]_routerVars

-----------------------------------------------------------------------------
(***************************************************************************)
(* Properties.                                                             *)
(***************************************************************************)
\* What a before-hook noted in its guard (pending Tasks, proof and assessment
\* admissions) is met by the after-hook of the same call, wherever the session
\* has gone in between: while the session exists the after-hook is served by
\* the guard that served the before-hook (callRoutes).
AfterMeetsItsBefore ==
    [][\A h \in Hooks :
          Serving(h, "after") /\ Idle(h)' /\ route # NoRoute /\ session.alive
             => hooks[h].dir = servedBy[hooks[h].call]]_routerVars

\* A session is never governed by another directory than the one the model was
\* told without a notice waiting that names it (transitionSessionRoute and the
\* system transform).
MovesAreAnnounced ==
    route # NoRoute /\ shown # NoDir /\ route.dir # shown => notice = route.dir

\* When an existing session comes to a guard, the guard holds no state of an earlier
\* visit, unless a hook of the session was still served there while the session
\* was leaving or after it had left, or two moves of the session overlapped
\* (transitionSessionRoute).
NoStateOfAnEarlierVisit ==
    [][/\ session.alive /\ route' # NoRoute /\ (route = NoRoute \/ route.dir # route'.dir)
       /\ route'.dir \in local'
       => route'.dir \in late]_routerVars
=============================================================================
