-------------------------- MODULE EventLoopProofs --------------------------
(***************************************************************************)
(* The two programs that share one event loop with whoever calls them.     *)
(*                                                                         *)
(* For any number of tasks, calls and cancellations, an AsyncService runs  *)
(* one hook at a time and loses no wake-up, and a WebsocketsServer has one *)
(* server at most, which lives while the service does.                     *)
(*                                                                         *)
(* For any number of connections, messages and places for tasks, the       *)
(* metrics of the SecureMessageHandler add up and the places are enough.   *)
(***************************************************************************)
EXTENDS AsyncService, SecureMessageHandler, FiniteSetTheorems, TLAPS

States == {"NEW", "STARTING", "RUNNING", "STOPPING", "STOPPED"}
Paths == {Stay, To("STARTING"), To("RUNNING"), To("STOPPING"), To("STOPPED"),
          <<"START_FAILED", "STOPPING">>, <<"STOPPED", "STARTING">>}
StateAfter(path) == IF path[2] = "same" THEN state ELSE path[2]

Hooks == {"_start", "_stop"}

\* What the invariants need beside themselves: nobody takes an abandoned service
\* any further, and there is nothing of servers that are still to come.
Abandoned == abandoned => state = "STARTING"
WokenWaits == \A t \in Tasks : call[t].woken => call[t].at \in {"await_running", "await_stopped"}
Numbered ==
  /\ signalled \subseteq 0 .. starts
  /\ \A n \in 1 .. MaxCalls : n > starts => server[n] = "none"

\* The states a task may set, given where it comes from and goes to.
Legal(t, path, at) ==
  /\ at = "await_running" => StateAfter(path) # "RUNNING"
  /\ at = "await_stopped" => StateAfter(path) # "STOPPED"
  /\ path[2] \in {"STARTING", "STOPPED"} => state # "RUNNING"
  /\ path[2] \in {"RUNNING", "STOPPING"} => state # "STOPPED"
  /\ path # Stay => state \in {"NEW", "RUNNING", "STOPPED"} \/ call[t].at \in Hooks
  /\ path # Stay => (at = "_start" <=> path[2] = "STARTING") /\ (at = "_stop" <=> path[2] = "STOPPING")
  /\ path = Stay => (at \in Hooks \/ call[t].at \in Hooks => at = call[t].at)

\* Nothing of a server is left behind.
Closed(path) ==
  /\ path[2] # "RUNNING"
  /\ path[2] \in {"STARTING", "STOPPED"} => state \in {"NEW", "STOPPED"} \/ ServerEnded

Inv ==
  /\ AsyncTypeOK /\ OneHookAtATime /\ NoLostWakeup /\ ServerFollowsState
  /\ Abandoned /\ WokenWaits /\ Numbered

-----------------------------------------------------------------------------
\* A task that awaits one event is woken, and stays where it is.
LEMMA WakesStays ==
  ASSUME NEW c \in [at : Awaits, next : Nexts, woken : BOOLEAN], NEW path
  PROVE  /\ Wakes(c, path) \in [at : Awaits, next : Nexts, woken : BOOLEAN]
         /\ Wakes(c, path).at = c.at /\ Wakes(c, path).next = c.next
         /\ ~Wakes(c, path).woken => ~c.woken
  BY DEF Wakes

LEMMA WakesTheWaiting ==
  ASSUME NEW c \in [at : Awaits, next : Nexts, woken : BOOLEAN], NEW path, ~Wakes(c, path).woken
  PROVE  /\ c.at = "await_running" => "RUNNING" \notin {path[1], path[2]}
         /\ c.at = "await_stopped" => "STOPPED" \notin {path[1], path[2]}
  BY DEF Wakes, Awaited

\* What one step of a task does to the state, the events and the other tasks.
LEMMA GoesSets ==
  ASSUME AsyncTypeOK, NEW t \in Tasks, NEW path \in Paths, NEW at \in Awaits, NEW next \in Nexts,
         Goes(t, path, at, next)
  PROVE  /\ state' = StateAfter(path)
         /\ state' \in States
         /\ running' \in BOOLEAN /\ stopped' \in BOOLEAN
         /\ call' \in [Tasks -> [at : Awaits, next : Nexts, woken : BOOLEAN]]
         /\ call'[t].at = at
         /\ \A u \in Tasks \ {t} : call'[u].at = call[u].at
         /\ signalled' = IF path[2] = "STOPPING" THEN signalled \cup {starts} ELSE signalled
<1>1. \A u \in Tasks : call[u] \in [at : Awaits, next : Nexts, woken : BOOLEAN]
  BY DEF AsyncTypeOK
<1>2. state' = StateAfter(path) /\ state' \in States
  BY DEF Goes, set_state, StateAfter, Paths, Stay, To, AsyncTypeOK, States
<1>3. running' \in BOOLEAN /\ stopped' \in BOOLEAN
  BY DEF Goes, set_state, Runs, Stops, AsyncTypeOK
<1>4. call' = [u \in Tasks |-> IF u = t THEN [at |-> at, next |-> next, woken |-> FALSE]
                               ELSE Wakes(call[u], path)]
  BY DEF Goes
<1>5. \A u \in Tasks \ {t} : call'[u] = Wakes(call[u], path)
  BY <1>4
<1>6. call'[t] = [at |-> at, next |-> next, woken |-> FALSE]
  BY <1>4
<1>7. \A u \in Tasks : call'[u] \in [at : Awaits, next : Nexts, woken : BOOLEAN]
  <2> TAKE u \in Tasks
  <2>1. CASE u = t
    <3>1. [at |-> at, next |-> next, woken |-> FALSE] \in [at : Awaits, next : Nexts, woken : BOOLEAN]
      OBVIOUS
    <3> QED  BY <1>6, <2>1, <3>1
  <2>2. CASE u # t
    BY <1>5, <1>1, WakesStays, <2>2
  <2> QED  BY <2>1, <2>2
<1>8. call' \in [Tasks -> [at : Awaits, next : Nexts, woken : BOOLEAN]]
  BY <1>4, <1>7
<1>9. \A u \in Tasks \ {t} : call'[u].at = call[u].at
  BY <1>5, <1>1, WakesStays
<1>10. signalled' = IF path[2] = "STOPPING" THEN signalled \cup {starts} ELSE signalled
  BY DEF Goes
<1> QED  BY <1>2, <1>3, <1>6, <1>8, <1>9, <1>10

\* No step of a task loses a wake-up, if the task itself goes to await an event
\* only in a state in which it is not set, and the states follow each other so
\* that every event is cleared in time.
LEMMA GoesWakes ==
  ASSUME AsyncTypeOK, NoLostWakeup, NEW t \in Tasks, NEW path \in Paths, NEW at \in Awaits,
         NEW next \in Nexts, Goes(t, path, at, next),
         Legal(t, path, at)
  PROVE  NoLostWakeup'
<1> USE DEF Legal
<1>1. state' = StateAfter(path) /\ call'[t].at = at
  BY GoesSets
<1>2. state \in States /\ running \in BOOLEAN /\ stopped \in BOOLEAN
  BY DEF AsyncTypeOK, States
<1>3. (running <=> state = "RUNNING") /\ (stopped <=> state = "STOPPED")
  BY DEF NoLostWakeup
<1>6. running' <=> state' = "RUNNING"
  <2>1. CASE path[2] = "same"
    <3>1. path[1] = "same" /\ state' = state
      BY <2>1, <1>1 DEF Paths, Stay, To, StateAfter
    <3>2. running' <=> running
      BY <2>1, <3>1, Zenon DEF Goes, set_state, Runs
    <3> QED  BY <1>3, <3>1, <3>2
  <2>2. CASE path[2] = "RUNNING"
    <3>1. running' <=> TRUE
      BY <2>2, Zenon DEF Goes, set_state, Runs
    <3> QED  BY <1>1, <2>2, <3>1 DEF StateAfter
  <2>3. CASE path[2] = "STOPPING"
    <3>1. running' <=> FALSE
      BY <2>3, Zenon DEF Goes, set_state, Runs
    <3> QED  BY <1>1, <2>3, <3>1 DEF StateAfter
  <2>4. CASE path[2] \in {"STARTING", "STOPPED"}
    \* the event is left as it was: the service was not running
    <3>1. path[1] \in {"same", "STOPPED"} /\ state' # "RUNNING"
      BY <2>4, <1>1 DEF Paths, Stay, To, StateAfter
    <3>2. running' <=> running
      BY <2>4, <3>1, Zenon DEF Goes, set_state, Runs
    <3> QED  BY <1>3, <3>1, <3>2, <2>4
  <2> QED  BY <2>1, <2>2, <2>3, <2>4 DEF Paths, Stay, To
<1>7. stopped' <=> state' = "STOPPED"
  <2>1. CASE path[2] = "same"
    <3>1. path[1] = "same" /\ state' = state
      BY <2>1, <1>1 DEF Paths, Stay, To, StateAfter
    <3>2. stopped' <=> stopped
      BY <2>1, <3>1, Zenon DEF Goes, set_state, Stops
    <3> QED  BY <1>3, <3>1, <3>2
  <2>2. CASE path[2] = "STOPPED"
    <3>1. stopped' <=> TRUE
      BY <2>2, Zenon DEF Goes, set_state, Stops
    <3> QED  BY <1>1, <2>2, <3>1 DEF StateAfter
  <2>3. CASE path[2] = "STARTING"
    <3>1. stopped' <=> FALSE
      BY <2>3, Zenon DEF Goes, set_state, Stops
    <3> QED  BY <1>1, <2>3, <3>1 DEF StateAfter
  <2>4. CASE path[2] \in {"RUNNING", "STOPPING"}
    <3>1. path[1] \in {"same", "START_FAILED"} /\ state' # "STOPPED"
      BY <2>4, <1>1 DEF Paths, Stay, To, StateAfter
    <3>2. stopped' <=> stopped
      BY <2>4, <3>1, Zenon DEF Goes, set_state, Stops
    <3> QED  BY <1>3, <3>1, <3>2, <2>4
  <2> QED  BY <2>1, <2>2, <2>3, <2>4 DEF Paths, Stay, To
<1>8. ASSUME NEW u \in Tasks, ~call'[u].woken
      PROVE  /\ call'[u].at = "await_running" => state' # "RUNNING"
             /\ call'[u].at = "await_stopped" => state' # "STOPPED"
  <2>1. CASE u = t
    BY <1>1, <2>1
  <2>2. CASE u # t
    <3>1. call[u] \in [at : Awaits, next : Nexts, woken : BOOLEAN]
      BY DEF AsyncTypeOK
    <3>2. call'[u] = Wakes(call[u], path)
      BY <2>2 DEF Goes
    <3>3. ~call[u].woken /\ call'[u].at = call[u].at
      BY <3>1, <3>2, <1>8, WakesStays
    <3>4. /\ call[u].at = "await_running" => state # "RUNNING" /\ path[2] # "RUNNING"
          /\ call[u].at = "await_stopped" => state # "STOPPED" /\ path[2] # "STOPPED"
      BY <3>1, <3>2, <3>3, <1>8, WakesTheWaiting DEF NoLostWakeup
    <3> QED  BY <1>1, <3>3, <3>4 DEF StateAfter
  <2> QED  BY <2>1, <2>2
<1> QED  BY <1>6, <1>7, <1>8 DEF NoLostWakeup

\* Nor does it make two hooks overlap, or leave a service between two states.
LEMMA GoesHooks ==
  ASSUME AsyncTypeOK, OneHookAtATime, Abandoned, NEW t \in Tasks, NEW path \in Paths,
         NEW at \in Awaits, NEW next \in Nexts, Goes(t, path, at, next),
         Legal(t, path, at), abandoned' = abandoned
  PROVE  OneHookAtATime' /\ Abandoned'
<1>1. /\ state' = StateAfter(path) /\ call'[t].at = at
      /\ \A u \in Tasks \ {t} : call'[u].at = call[u].at
  BY GoesSets
<1>2. CASE path = Stay
  <2>1. state' = state
    BY <1>1, <1>2 DEF Stay, StateAfter
  <2>2. \A u \in Tasks : call'[u].at \in Hooks \/ call[u].at \in Hooks => call'[u].at = call[u].at
    BY <1>1, <1>2 DEF Legal
  <2> QED  BY <2>1, <2>2 DEF OneHookAtATime, Abandoned, Hooks
<1>3. CASE path # Stay
  <2>1. \A u \in Tasks \ {t} : call[u].at \notin Hooks
    BY <1>3 DEF OneHookAtATime, Legal, Hooks
  <2>2. ~abandoned
    BY <1>3 DEF OneHookAtATime, Abandoned, Legal, Hooks
  <2>3. state' = path[2]
    BY <1>1, <1>3 DEF Paths, Stay, To, StateAfter
  <2>4. (at = "_start" <=> state' = "STARTING") /\ (at = "_stop" <=> state' = "STOPPING")
    BY <1>3, <2>3 DEF Legal
  <2>5. ~abandoned'
    BY <2>2
  <2> QED  BY <1>1, <2>1, <2>4, <2>5 DEF OneHookAtATime, Abandoned, Hooks
<1> QED  BY <1>2, <1>3

\* Nor does it leave a server behind, or stop one of a service that is running.
LEMMA GoesServer ==
  ASSUME AsyncTypeOK, Numbered, ServerFollowsState, NEW t \in Tasks, NEW path \in Paths,
         NEW at \in Awaits, NEW next \in Nexts, Goes(t, path, at, next),
         Closed(path), UNCHANGED <<starts, server>>
  PROVE  Numbered' /\ ServerFollowsState' /\ signalled' \subseteq 0 .. MaxCalls
<1> USE AsyncAssumption DEF AsyncAssumption
<1>1. /\ state' = StateAfter(path)
      /\ signalled' = IF path[2] = "STOPPING" THEN signalled \cup {starts} ELSE signalled
  BY GoesSets
<1>2. starts \in 0 .. MaxCalls /\ signalled \subseteq 0 .. starts
  BY DEF AsyncTypeOK, Numbered
<1>3. signalled' \subseteq 0 .. starts
  BY <1>1, <1>2
<1>4. ASSUME NEW n \in 1 .. MaxCalls, server[n] \in {"opening", "listening"}
      PROVE  n = starts /\ state' \in {"RUNNING", "STOPPING"}
  <2>1. n = starts /\ state \in {"RUNNING", "STOPPING"}
    BY <1>4 DEF ServerFollowsState
  <2>2. ~ServerEnded
    BY <1>4, <2>1 DEF ServerEnded
  <2>3. path[2] \in {"same", "STOPPING"}
    BY <2>1, <2>2 DEF Closed, Paths, Stay, To
  <2> QED  BY <1>1, <2>1, <2>3 DEF StateAfter
<1>5. state' = "RUNNING" => state = "RUNNING" /\ signalled' = signalled
  BY <1>1 DEF Closed, StateAfter, Paths, Stay, To
<1> QED  BY <1>2, <1>3, <1>4, <1>5 DEF Numbered, ServerFollowsState

\* Only a task that awaits an event is woken.
LEMMA GoesWaits ==
  ASSUME AsyncTypeOK, WokenWaits, NEW t \in Tasks, NEW path, NEW at, NEW next,
         Goes(t, path, at, next)
  PROVE  WokenWaits'
<1> SUFFICES ASSUME NEW u \in Tasks, call'[u].woken
             PROVE  call'[u].at \in {"await_running", "await_stopped"}
  BY DEF WokenWaits
<1>1. call[u] \in [at : Awaits, next : Nexts, woken : BOOLEAN]
  BY DEF AsyncTypeOK
<1>2. u # t /\ call'[u] = Wakes(call[u], path)
  BY DEF Goes
<1> QED  BY <1>1, <1>2 DEF Wakes, Awaited, WokenWaits

\* The five parts together: a task moves on, and starts or stops no server itself.
LEMMA TaskMoves ==
  ASSUME Inv, NEW t \in Tasks, NEW path \in Paths, NEW at \in Awaits, NEW next \in Nexts,
         Goes(t, path, at, next), Legal(t, path, at), Closed(path),
         UNCHANGED <<starts, server, abandoned>>,
         calls' \in 0 .. MaxCalls, cancels' \in 0 .. MaxCancels
  PROVE  Inv'
<1>1. AsyncTypeOK /\ OneHookAtATime /\ NoLostWakeup /\ Abandoned /\ Numbered /\ ServerFollowsState
  BY DEF Inv
<1>2. OneHookAtATime' /\ Abandoned'
  <2>1. abandoned' = abandoned
    OBVIOUS
  <2> QED  BY <1>1, <2>1, GoesHooks
<1>3. NoLostWakeup'
  BY <1>1, GoesWakes
<1>4. Numbered' /\ ServerFollowsState' /\ signalled' \subseteq 0 .. MaxCalls
  BY <1>1, GoesServer
<1>5. AsyncTypeOK'
  <2>1. /\ state' \in States /\ running' \in BOOLEAN /\ stopped' \in BOOLEAN
        /\ call' \in [Tasks -> [at : Awaits, next : Nexts, woken : BOOLEAN]]
    BY <1>1, GoesSets
  <2>2. abandoned' \in BOOLEAN
    BY <1>1 DEF AsyncTypeOK
  <2> QED  BY <1>1, <1>4, <2>1, <2>2 DEF AsyncTypeOK, States
<1>6. WokenWaits'
  BY <1>1, GoesWaits DEF Inv
<1> QED  BY <1>2, <1>3, <1>4, <1>5, <1>6 DEF Inv

-----------------------------------------------------------------------------
(***************************************************************************)
(* What the guards of the calls and of the hooks are good for.             *)
(***************************************************************************)
LEMMA MayStart ==
  ASSUME NEW t \in Tasks, state \in {"NEW", "STOPPED"}
  PROVE  Legal(t, To("STARTING"), "_start") /\ Closed(To("STARTING"))
  BY DEF Legal, Closed, To, Stay, StateAfter

LEMMA MayStop ==
  ASSUME NEW t \in Tasks, state = "RUNNING"
  PROVE  Legal(t, To("STOPPING"), "_stop") /\ Closed(To("STOPPING"))
  BY DEF Legal, Closed, To, Stay, StateAfter

LEMMA NewMayStop ==
  ASSUME NEW t \in Tasks, state = "NEW"
  PROVE  Legal(t, To("STOPPED"), "idle") /\ Closed(To("STOPPED"))
  BY DEF Legal, Closed, To, Stay, StateAfter

LEMMA MayWait ==
  ASSUME NEW t \in Tasks, NEW at \in Awaits \ Hooks, call[t].at \notin Hooks,
         at = "await_running" => state # "RUNNING", at = "await_stopped" => state # "STOPPED"
  PROVE  Legal(t, Stay, at) /\ Closed(Stay)
  BY DEF Legal, Closed, Stay, StateAfter

LEMMA MayFail ==
  ASSUME Inv, NEW t \in Tasks, call[t].at = "_start"
  PROVE  /\ Legal(t, <<"START_FAILED", "STOPPING">>, "_stop")
         /\ Closed(<<"START_FAILED", "STOPPING">>)
  BY DEF Inv, OneHookAtATime, Legal, Closed, Stay, StateAfter, Hooks

LEMMA MayEnd ==
  ASSUME Inv, NEW t \in Tasks, call[t].at = "_stop", ServerEnded
  PROVE  /\ Legal(t, To("STOPPED"), "idle") /\ Closed(To("STOPPED"))
         /\ Legal(t, <<"STOPPED", "STARTING">>, "_start") /\ Closed(<<"STOPPED", "STARTING">>)
  BY DEF Inv, OneHookAtATime, Legal, Closed, Stay, To, StateAfter, Hooks

LEMMA InPaths ==
  /\ {Stay, To("STARTING"), To("RUNNING"), To("STOPPING"), To("STOPPED")} \subseteq Paths
  /\ <<"START_FAILED", "STOPPING">> \in Paths /\ <<"STOPPED", "STARTING">> \in Paths
  /\ Awaits = {"idle", "_start", "_stop", "await_running", "await_stopped", "sleep", "body"}
  /\ Nexts = {"return", "start", "serve", "restart"}
  BY DEF Paths, Awaits, Nexts

-----------------------------------------------------------------------------
(***************************************************************************)
(* Each action.                                                            *)
(***************************************************************************)
LEMMA CallsStep ==
  ASSUME Inv, NEW t \in Tasks,
         Start(t) \/ Stop(t) \/ Restart(t) \/ StartServer(t) \/ Await(t)
  PROVE  Inv'
<1> USE AsyncAssumption DEF AsyncAssumption
<1>1. Calls(t)
  BY DEF Start, Stop, Restart, StartServer, Await
<1>2. /\ call[t].at = "idle" /\ call[t].at \notin Hooks
      /\ UNCHANGED <<starts, server, abandoned>>
      /\ calls' \in 0 .. MaxCalls /\ cancels' \in 0 .. MaxCancels
  BY <1>1 DEF Calls, Inv, AsyncTypeOK, Hooks
<1>3. /\ running <=> state = "RUNNING"
      /\ stopped <=> state = "STOPPED"
  BY DEF Inv, NoLostWakeup
<1>4. CASE state \in {"NEW", "STOPPED"} /\ \E next \in Nexts : Goes(t, To("STARTING"), "_start", next)
  BY <1>2, <1>4, MayStart, InPaths, TaskMoves
<1>5. CASE state = "RUNNING" /\ \E next \in Nexts : Goes(t, To("STOPPING"), "_stop", next)
  BY <1>2, <1>5, MayStop, InPaths, TaskMoves
<1>6. CASE state = "NEW" /\ Goes(t, To("STOPPED"), "idle", "return")
  BY <1>2, <1>6, NewMayStop, InPaths, TaskMoves
<1>7. CASE \E at \in {"await_running", "await_stopped", "sleep"}, next \in Nexts :
             /\ Goes(t, Stay, at, next)
             /\ at = "await_running" => state # "RUNNING"
             /\ at = "await_stopped" => state # "STOPPED"
  <2>1. PICK at \in {"await_running", "await_stopped", "sleep"}, next \in Nexts :
             /\ Goes(t, Stay, at, next)
             /\ at = "await_running" => state # "RUNNING"
             /\ at = "await_stopped" => state # "STOPPED"
    BY <1>7
  <2>2. at \in Awaits \ Hooks
    BY InPaths DEF Hooks
  <2>3. Legal(t, Stay, at) /\ Closed(Stay)
    BY <1>2, <2>1, <2>2, MayWait
  <2> QED  BY <1>2, <2>1, <2>2, <2>3, InPaths, TaskMoves
<1>8. CASE Start(t)
  BY <1>8, <1>4, InPaths DEF Start
<1>9. CASE Stop(t)
  BY <1>9, <1>5, <1>6, InPaths DEF Stop, Returns
<1>10. CASE Restart(t)
  BY <1>10, <1>4, <1>5, <1>7, InPaths DEF Restart, Restarts
<1>11. CASE StartServer(t)
  BY <1>11, <1>4, <1>7, InPaths DEF StartServer
<1>12. CASE Await(t)
  BY <1>12, <1>3, <1>7, InPaths DEF Await
<1> QED  BY <1>8, <1>9, <1>10, <1>11, <1>12

\* A step that only takes a task from one await to another.
LEMMA MovesOn ==
  ASSUME Inv, NEW t \in Tasks, call[t].at \notin Hooks, NEW at \in Awaits \ Hooks, NEW next \in Nexts,
         Goes(t, Stay, at, next),
         at = "await_running" => state # "RUNNING", at = "await_stopped" => state # "STOPPED",
         UNCHANGED <<starts, server, abandoned>>,
         calls' \in 0 .. MaxCalls, cancels' \in 0 .. MaxCancels
  PROVE  Inv'
<1>1. Legal(t, Stay, at) /\ Closed(Stay)
  BY MayWait
<1> QED  BY <1>1, InPaths, TaskMoves

LEMMA TaskStepKeeps ==
  ASSUME Inv, NEW t \in Tasks, TaskStep(t) \/ LeaveBody(t) \/ TimesOut(t), ~StartReturns(t)
  PROVE  Inv'
<1> USE AsyncAssumption DEF AsyncAssumption
<1>1. /\ UNCHANGED <<starts, server, abandoned>>
      /\ calls' \in 0 .. MaxCalls /\ cancels' \in 0 .. MaxCancels
  <2>1. UNCHANGED <<starts, server, abandoned, calls, cancels>>
    BY DEF TaskStep, StartRaises, StopEnds, WaitEnds, RestartGoesOn, RestartEnds, ServeGoesOn,
           Resumes, EnterBody, LeaveBody, TimesOut
  <2> QED  BY <2>1 DEF Inv, AsyncTypeOK
<1>2. CASE StartRaises(t)
  BY <1>1, <1>2, MayFail, InPaths, TaskMoves DEF StartRaises
<1>3. ASSUME NEW raises \in BOOLEAN, StopEnds(t, raises)  PROVE Inv'
  <2>1. call[t].at = "_stop" /\ ServerEnded
    BY <1>3 DEF StopEnds
  <2>2. CASE Goes(t, <<"STOPPED", "STARTING">>, "_start", "return")
    BY <1>1, <2>1, <2>2, MayEnd, InPaths, TaskMoves
  <2>3. CASE Goes(t, To("STOPPED"), "idle", "return")
    BY <1>1, <2>1, <2>3, MayEnd, InPaths, TaskMoves
  <2> QED  BY <1>3, <2>2, <2>3 DEF StopEnds, Returns
<1>4. CASE WaitEnds(t) \/ RestartGoesOn(t) \/ RestartEnds(t) \/ ServeGoesOn(t)
  <2>1. call[t].at \notin Hooks
    BY <1>4 DEF WaitEnds, RestartGoesOn, RestartEnds, ServeGoesOn, Resumes, Inv, WokenWaits, Hooks
  <2>2. CASE state \in {"NEW", "STOPPED"} /\ Goes(t, To("STARTING"), "_start", "return")
    BY <1>1, <2>2, MayStart, InPaths, TaskMoves
  <2>3. CASE state = "RUNNING" /\ Goes(t, To("STOPPING"), "_stop", "start")
    BY <1>1, <2>3, MayStop, InPaths, TaskMoves
  <2>4. CASE state \in {"STARTING", "STOPPING"} /\ Goes(t, Stay, "await_stopped", "start")
    BY <1>1, <2>1, <2>4, MovesOn, InPaths DEF Hooks
  <2>5. CASE Goes(t, Stay, "idle", "return")
    BY <1>1, <2>1, <2>5, MovesOn, InPaths DEF Hooks
  <2>6. CASE Goes(t, Stay, "sleep", "serve")
    BY <1>1, <2>1, <2>6, MovesOn, InPaths DEF Hooks
  <2> QED  BY <1>4, <2>2, <2>3, <2>4, <2>5, <2>6
           DEF WaitEnds, RestartGoesOn, Restarts, RestartEnds, ServeGoesOn, Returns
<1>5. CASE EnterBody(t)
  BY <1>1, <1>5, MovesOn, InPaths DEF EnterBody, Hooks
<1>6. CASE LeaveBody(t)
  <2>1. call[t].at \notin Hooks
    BY <1>6 DEF LeaveBody, Hooks
  <2>2. CASE state = "RUNNING" /\ Goes(t, To("STOPPING"), "_stop", "return")
    BY <1>1, <2>2, MayStop, InPaths, TaskMoves
  <2>3. CASE state = "STOPPING" /\ Goes(t, Stay, "await_stopped", "return")
    BY <1>1, <2>1, <2>3, MovesOn, InPaths DEF Hooks
  <2>4. CASE Goes(t, Stay, "idle", "return")
    BY <1>1, <2>1, <2>4, MovesOn, InPaths DEF Hooks
  <2> QED  BY <1>6, <2>2, <2>3, <2>4 DEF LeaveBody, Returns
<1>7. CASE TimesOut(t)
  BY <1>1, <1>7, MovesOn, InPaths DEF TimesOut, Returns, Hooks
<1> QED  BY <1>2, <1>3, <1>4, <1>5, <1>6, <1>7 DEF TaskStep

\* A start ends: the server it has created is a new one, and the only one.
LEMMA StartReturnsKeeps ==
  ASSUME Inv, NEW t \in Tasks, StartReturns(t)
  PROVE  Inv'
<1> USE AsyncAssumption DEF AsyncAssumption
<1>1. PICK at \in {"idle", "sleep"}, next \in {"return", "serve"} : Goes(t, To("RUNNING"), at, next)
  BY DEF StartReturns, Returns
<1>2. /\ call[t].at = "_start" /\ starts < MaxCalls /\ starts' = starts + 1
      /\ server' = [server EXCEPT ![starts + 1] = "opening"]
      /\ abandoned' = abandoned /\ calls' = calls /\ cancels' = cancels
  BY DEF StartReturns
<1>3. AsyncTypeOK /\ OneHookAtATime /\ NoLostWakeup /\ Abandoned /\ WokenWaits /\ Numbered
      /\ ServerFollowsState
  BY DEF Inv
<1>4. state = "STARTING"
  BY <1>2, <1>3 DEF OneHookAtATime
<1>5. at \in Awaits /\ next \in Nexts /\ To("RUNNING") \in Paths
  BY InPaths
<1>6. Legal(t, To("RUNNING"), at)
  BY <1>1, <1>2, <1>4 DEF Legal, To, Stay, StateAfter, Hooks
<1>7. OneHookAtATime' /\ Abandoned'
  BY <1>1, <1>2, <1>3, <1>5, <1>6, GoesHooks
<1>8. NoLostWakeup'
  BY <1>1, <1>3, <1>5, <1>6, GoesWakes
<1>9. WokenWaits'
  BY <1>1, <1>3, GoesWaits
<1>10. /\ state' \in States /\ running' \in BOOLEAN /\ stopped' \in BOOLEAN
       /\ call' \in [Tasks -> [at : Awaits, next : Nexts, woken : BOOLEAN]]
       /\ signalled' = signalled
       /\ state' = "RUNNING"
  BY <1>1, <1>3, <1>5, GoesSets DEF To, StateAfter
<1>11. /\ starts' \in 1 .. MaxCalls
       /\ server' \in [1 .. MaxCalls -> {"none", "opening", "listening", "failed", "closed"}]
       /\ server'[starts'] = "opening"
       /\ \A n \in 1 .. MaxCalls : n # starts' => server'[n] = server[n]
  BY <1>2, <1>3 DEF AsyncTypeOK
<1>12. AsyncTypeOK'
  <2>1. abandoned' \in BOOLEAN
    BY <1>2, <1>3 DEF AsyncTypeOK
  <2> QED  BY <1>2, <1>3, <1>10, <1>11, <2>1 DEF AsyncTypeOK, States
<1>13. Numbered'
  BY <1>2, <1>3, <1>10, <1>11 DEF Numbered, AsyncTypeOK
<1>14. ServerFollowsState'
  <2>1. \A n \in 1 .. MaxCalls : server[n] \notin {"opening", "listening"}
    BY <1>3, <1>4 DEF ServerFollowsState
  <2>2. starts' \notin signalled'
    BY <1>2, <1>3, <1>10 DEF Numbered, AsyncTypeOK
  <2> QED  BY <1>10, <1>11, <2>1, <2>2 DEF ServerFollowsState
<1> QED  BY <1>7, <1>8, <1>9, <1>12, <1>13, <1>14 DEF Inv

\* A cancelled start leaves its state to nobody; a cancelled stop still waits for
\* its server, whose task has been cancelled too.
LEMMA CancelKeeps ==
  ASSUME Inv, NEW t \in Tasks, Cancel(t)
  PROVE  Inv'
<1> USE AsyncAssumption DEF AsyncAssumption
<1>1. UNCHANGED <<starts, calls>> /\ calls' \in 0 .. MaxCalls /\ cancels' \in 0 .. MaxCancels
  BY DEF Cancel, Inv, AsyncTypeOK
<1>2. AsyncTypeOK /\ OneHookAtATime /\ NoLostWakeup /\ Abandoned /\ WokenWaits /\ Numbered
      /\ ServerFollowsState
  BY DEF Inv
<1>3. CASE CancelWait(t)
  <2>1. UNCHANGED <<starts, server, abandoned>> /\ call[t].at \notin Hooks
    BY <1>1, <1>3 DEF CancelWait, Hooks
  <2> QED  BY <1>1, <1>3, <2>1, MovesOn, InPaths DEF CancelWait, Returns, Hooks
<1>4. CASE CancelStart(t)
  <2>1. call[t].at = "_start" /\ Goes(t, Stay, "idle", "return") /\ abandoned' = TRUE /\ server' = server
    BY <1>4 DEF CancelStart, Returns
  <2>2. /\ state' = "STARTING" /\ state = "STARTING" /\ call'[t].at = "idle"
        /\ \A u \in Tasks \ {t} : call'[u].at = call[u].at
        /\ \A u \in Tasks : call'[u].at \notin Hooks
    BY <1>2, <2>1, InPaths, GoesSets DEF OneHookAtATime, Stay, StateAfter, Hooks
  <2>3. OneHookAtATime' /\ Abandoned'
    BY <2>1, <2>2 DEF OneHookAtATime, Abandoned, Hooks
  <2>4. \A n \in 1 .. MaxCalls : server[n] \notin {"opening", "listening"}
    BY <1>2, <2>2 DEF ServerFollowsState
  <2>5. signalled' = signalled
    BY <2>1 DEF Goes, Stay
  <2>6. Numbered' /\ ServerFollowsState'
    BY <1>1, <1>2, <2>1, <2>2, <2>4, <2>5 DEF Numbered, ServerFollowsState
  <2>7. NoLostWakeup'
    <3>1. \A u \in Tasks : ~call'[u].woken =>
            /\ call'[u].at = "await_running" => state' # "RUNNING"
            /\ call'[u].at = "await_stopped" => state' # "STOPPED"
      BY <2>2
    <3>2. (running' <=> running) /\ (stopped' <=> stopped)
      BY <2>1, Zenon DEF Goes, set_state, Stay, Runs, Stops
    <3>3. ~running /\ ~stopped
      BY <1>2, <2>2 DEF NoLostWakeup
    <3> QED  BY <2>2, <3>1, <3>2, <3>3 DEF NoLostWakeup
  <2>8. WokenWaits'
    BY <1>2, <2>1, GoesWaits
  <2>9. AsyncTypeOK'
    <3>1. /\ state' \in States /\ running' \in BOOLEAN /\ stopped' \in BOOLEAN
          /\ call' \in [Tasks -> [at : Awaits, next : Nexts, woken : BOOLEAN]]
      BY <1>2, <2>1, InPaths, GoesSets
    <3>2. abandoned' \in BOOLEAN
      BY <2>1
    <3> QED  BY <1>1, <1>2, <2>1, <2>5, <3>1, <3>2 DEF AsyncTypeOK, States
  <2> QED  BY <2>3, <2>6, <2>7, <2>8, <2>9 DEF Inv
<1>5. CASE CancelStop(t)
  <2>1. call[t].at = "_stop" /\ Goes(t, Stay, "_stop", "return") /\ abandoned' = abandoned
    BY <1>5 DEF CancelStop
  <2>2. server' = IF starts > 0 /\ server[starts] = "opening"
                  THEN [server EXCEPT ![starts] = "closed"] ELSE server
    BY <1>5 DEF CancelStop
  <2>3. Legal(t, Stay, "_stop")
    BY <2>1 DEF Legal, Stay, StateAfter, Hooks
  <2>4. OneHookAtATime' /\ Abandoned' /\ NoLostWakeup' /\ WokenWaits'
    <3>1. OneHookAtATime' /\ Abandoned'
      BY <1>2, <2>1, <2>3, InPaths, GoesHooks
    <3>2. NoLostWakeup'
      BY <1>2, <2>1, <2>3, InPaths, GoesWakes
    <3>3. WokenWaits'
      BY <1>2, <2>1, GoesWaits
    <3> QED  BY <3>1, <3>2, <3>3
  <2>5. /\ state' = state /\ state = "STOPPING" /\ running' \in BOOLEAN /\ stopped' \in BOOLEAN
        /\ call' \in [Tasks -> [at : Awaits, next : Nexts, woken : BOOLEAN]]
        /\ signalled' = signalled
    BY <1>2, <2>1, InPaths, GoesSets DEF Stay, StateAfter, OneHookAtATime
  <2>6. /\ server' \in [1 .. MaxCalls -> {"none", "opening", "listening", "failed", "closed"}]
        /\ \A n \in 1 .. MaxCalls : server'[n] = server[n] \/ (server'[n] = "closed" /\ n = starts)
    BY <1>2, <2>2 DEF AsyncTypeOK
  <2>7. AsyncTypeOK'
    <3>1. abandoned' \in BOOLEAN
      BY <1>2, <2>1 DEF AsyncTypeOK
    <3> QED  BY <1>1, <1>2, <2>5, <2>6, <3>1 DEF AsyncTypeOK
  <2>8. Numbered' /\ ServerFollowsState'
    BY <1>1, <1>2, <2>5, <2>6 DEF Numbered, ServerFollowsState, AsyncTypeOK
  <2> QED  BY <2>4, <2>7, <2>8 DEF Inv
<1> QED  BY <1>3, <1>4, <1>5 DEF Cancel

LEMMA ServerKeeps ==
  ASSUME Inv, NEW n \in 1 .. MaxCalls, ServerTask(n)
  PROVE  Inv'
<1> USE AsyncAssumption DEF AsyncAssumption
<1>1. PICK phase \in {"listening", "failed", "closed"} :
        /\ ServerStep(n, phase)
        /\ server[n] \in {"opening", "listening"}
        /\ phase = "closed" => n \in signalled
  BY DEF ServerTask, Listens, BindFails, Closes
<1>2. /\ server' = [server EXCEPT ![n] = phase]
      /\ UNCHANGED <<state, running, stopped, call, starts, signalled, abandoned, calls, cancels>>
  BY <1>1 DEF ServerStep
<1>3. AsyncTypeOK' /\ Numbered' /\ ServerFollowsState'
  <2>1. AsyncTypeOK /\ Numbered /\ ServerFollowsState
    BY DEF Inv
  <2>2. n = starts /\ state \in {"RUNNING", "STOPPING"}
    BY <1>1, <2>1 DEF ServerFollowsState
  <2>3. /\ server' \in [1 .. MaxCalls -> {"none", "opening", "listening", "failed", "closed"}]
        /\ server'[n] = phase
        /\ \A k \in 1 .. MaxCalls : k # n => server'[k] = server[k]
    BY <1>2, <2>1 DEF AsyncTypeOK
  <2>4. AsyncTypeOK'
    BY <1>2, <2>1, <2>3 DEF AsyncTypeOK
  <2>5. Numbered'
    BY <1>2, <2>1, <2>2, <2>3 DEF Numbered, AsyncTypeOK
  <2>6. ServerFollowsState'
    BY <1>1, <1>2, <2>1, <2>2, <2>3 DEF ServerFollowsState, AsyncTypeOK
  <2> QED  BY <2>4, <2>5, <2>6
<1>4. OneHookAtATime'
  BY <1>2 DEF Inv, OneHookAtATime
<1>5. NoLostWakeup'
  BY <1>2 DEF Inv, NoLostWakeup
<1>6. Abandoned' /\ WokenWaits'
  BY <1>2 DEF Inv, Abandoned, WokenWaits
<1> QED  BY <1>3, <1>4, <1>5, <1>6 DEF Inv

-----------------------------------------------------------------------------
LEMMA InvInit == Init => Inv
<1> SUFFICES ASSUME Init PROVE Inv
  OBVIOUS
<1> USE AsyncAssumption DEF AsyncAssumption, Init, Idle
<1>1. AsyncTypeOK
  <2>1. [at |-> "idle", next |-> "return", woken |-> FALSE] \in [at : Awaits, next : Nexts, woken : BOOLEAN]
    BY InPaths
  <2>2. call \in [Tasks -> [at : Awaits, next : Nexts, woken : BOOLEAN]]
    BY <2>1
  <2>3. running \in BOOLEAN /\ stopped \in BOOLEAN /\ abandoned \in BOOLEAN
    OBVIOUS
  <2>4. /\ calls \in 0 .. MaxCalls /\ cancels \in 0 .. MaxCancels /\ starts \in 0 .. MaxCalls
        /\ server \in [1 .. MaxCalls -> {"none", "opening", "listening", "failed", "closed"}]
        /\ signalled \subseteq 0 .. MaxCalls
    OBVIOUS
  <2> QED  BY <2>2, <2>3, <2>4 DEF AsyncTypeOK
<1>2. OneHookAtATime
  BY DEF OneHookAtATime
<1>3. NoLostWakeup
  BY DEF NoLostWakeup
<1>4. Abandoned /\ WokenWaits /\ Numbered
  BY DEF Abandoned, WokenWaits, Numbered
<1>5. ServerFollowsState
  BY DEF ServerFollowsState
<1> QED  BY <1>1, <1>2, <1>3, <1>4, <1>5 DEF Inv

LEMMA InvNext == Inv /\ [Next]_vars => Inv'
<1> SUFFICES ASSUME Inv, [Next]_vars PROVE Inv'
  OBVIOUS
<1>1. CASE UNCHANGED vars
  <2>1. AsyncTypeOK' /\ Numbered' /\ ServerFollowsState'
    BY <1>1 DEF Inv, vars, serverVars, AsyncTypeOK, Numbered, ServerFollowsState
  <2>2. OneHookAtATime' /\ Abandoned' /\ WokenWaits'
    BY <1>1 DEF Inv, vars, OneHookAtATime, Abandoned, WokenWaits
  <2>3. NoLostWakeup'
    BY <1>1 DEF Inv, vars, NoLostWakeup
  <2> QED  BY <2>1, <2>2, <2>3 DEF Inv
<1>2. CASE Quiet
  BY <1>1, <1>2 DEF Quiet
<1>3. ASSUME NEW t \in Tasks,
             Start(t) \/ Stop(t) \/ Restart(t) \/ StartServer(t) \/ Await(t)
      PROVE  Inv'
  BY <1>3, CallsStep
<1>4. ASSUME NEW t \in Tasks, TaskStep(t) \/ LeaveBody(t) \/ TimesOut(t)
      PROVE  Inv'
  BY <1>4, TaskStepKeeps, StartReturnsKeeps
<1>5. ASSUME NEW t \in Tasks, Cancel(t)
      PROVE  Inv'
  BY <1>5, CancelKeeps
<1>6. ASSUME NEW n \in 1 .. MaxCalls, ServerTask(n)
      PROVE  Inv'
  BY <1>6, ServerKeeps
<1> QED  BY <1>1, <1>2, <1>3, <1>4, <1>5, <1>6 DEF Next

LEMMA InvHolds == Spec => []Inv
  BY InvInit, InvNext, PTL DEF Spec

-----------------------------------------------------------------------------
\* Every variable keeps its type, and the servers stay within their bound.
THEOREM AsyncTypes == Spec => []AsyncTypeOK
<1>1. Inv => AsyncTypeOK
  BY DEF Inv
<1> QED  BY <1>1, InvHolds, PTL

\* However many tasks start, stop, restart and serve, and are cancelled in it, one
\* hook runs at a time, and only a cancelled start abandons a service (start,
\* stop and restart of AsyncService).
THEOREM HooksAlternate == Spec => []OneHookAtATime
<1>1. Inv => OneHookAtATime
  BY DEF Inv
<1> QED  BY <1>1, InvHolds, PTL

\* No task sleeps on an event that is set (__set_state and its asyncio Events).
THEOREM NoWakeupIsLost == Spec => []NoLostWakeup
<1>1. Inv => NoLostWakeup
  BY DEF Inv
<1> QED  BY <1>1, InvHolds, PTL

\* A WebsocketsServer has one server task at most, while it is RUNNING or STOPPING.
THEOREM OneServerAtATime == Spec => []ServerFollowsState
<1>1. Inv => ServerFollowsState
  BY DEF Inv
<1> QED  BY <1>1, InvHolds, PTL

-----------------------------------------------------------------------------
(***************************************************************************)
(* SecureMessageHandler.                                                   *)
(***************************************************************************)
\* How a message is handled and where it is go together.
Placed(m) ==
  /\ m.stage = "unread" <=> m.mode = "none"
  /\ m.mode = "reader" => m.stage \in {"rejecting", "settled"}
  /\ m.stage = "rejecting" => m.mode = "reader"
  /\ m.stage \in {"returned", "raised", "closed"} => m.mode = "task"

\* The coroutine of connection c is held up by message n.
Holds(n, c) ==
  msg[n].conn = c /\ msg[n].mode \in {"reader", "inline"} /\ msg[n].stage # "settled"

\* What CountedOnce needs: a coroutine is held up by one message at most, and the done
\* callbacks only find messages that were handled by a task.
MessagingInv ==
  /\ MessagingTypeOK
  /\ \A n \in Msgs : Placed(msg[n])
  /\ \A c \in Conns : inbox[c] <= sent
  /\ \A m, n \in Msgs, c \in Conns : Holds(m, c) /\ Holds(n, c) => m = n
  /\ Cardinality(TaskSet) <= MaxTasks
  /\ CountedOnce

-----------------------------------------------------------------------------
(***************************************************************************)
(* One message changes and the others stay.                                *)
(***************************************************************************)
Others(n) == \A k \in Msgs : k # n => msg'[k] = msg[k]

LEMMA MsgsAreFinite == IsFiniteSet(Msgs) /\ MaxMsgs \in Nat /\ MaxTasks \in Nat
<1>1. MaxMsgs \in Nat /\ MaxTasks \in Nat
  BY MessagingAssumption DEF MessagingAssumption
<1>2. QED
  BY <1>1, FS_Interval DEF Msgs

LEMMA FiniteSetsOfMessages ==
  /\ IsFiniteSet(Uncounted) /\ IsFiniteSet(Texts) /\ IsFiniteSet(TaskSet)
  /\ Cardinality(Uncounted) \in Nat /\ Cardinality(Texts) \in Nat /\ Cardinality(TaskSet) \in Nat
<1>1. Uncounted \in SUBSET Msgs /\ Texts \in SUBSET Msgs /\ TaskSet \in SUBSET Msgs
  BY DEF Uncounted, Texts, TaskSet, InStage, Read
<1>2. IsFiniteSet(Uncounted) /\ IsFiniteSet(Texts) /\ IsFiniteSet(TaskSet)
  BY <1>1, MsgsAreFinite, FS_Subset
<1>3. QED
  BY <1>2, FS_CardinalityType

LEMMA FiniteSetsOfMessagesNext ==
  /\ IsFiniteSet(Uncounted') /\ IsFiniteSet(Texts') /\ IsFiniteSet(TaskSet')
  /\ Cardinality(Uncounted') \in Nat /\ Cardinality(Texts') \in Nat /\ Cardinality(TaskSet') \in Nat
<1>1. Uncounted' \in SUBSET Msgs /\ Texts' \in SUBSET Msgs /\ TaskSet' \in SUBSET Msgs
  BY DEF Uncounted, Texts, TaskSet, InStage, Read
<1>2. IsFiniteSet(Uncounted') /\ IsFiniteSet(Texts') /\ IsFiniteSet(TaskSet')
  BY <1>1, MsgsAreFinite, FS_Subset
<1>3. QED
  BY <1>2, FS_CardinalityType

\* Two finite sets that differ in one element at most.
LEMMA OneElement ==
  ASSUME NEW S, NEW T, IsFiniteSet(S), IsFiniteSet(T), NEW n, S \ {n} = T \ {n}
  PROVE  /\ (n \in S <=> n \in T) => Cardinality(T) = Cardinality(S)
         /\ n \notin S /\ n \in T => Cardinality(T) = Cardinality(S) + 1
         /\ n \in S /\ n \notin T => Cardinality(T) = Cardinality(S) - 1
<1>1. CASE n \in S <=> n \in T
  <2>1. S = T
    BY <1>1
  <2>2. QED
    BY <1>1, <2>1
<1>2. CASE n \notin S /\ n \in T
  <2>1. T = S \cup {n}
    BY <1>2
  <2>2. QED
    BY <1>2, <2>1, FS_AddElement
<1>3. CASE n \in S /\ n \notin T
  <2>1. T = S \ {n}
    BY <1>3
  <2>2. QED
    BY <1>3, <2>1, FS_RemoveElement
<1>4. QED
  BY <1>1, <1>2, <1>3

LEMMA OneMessage ==
  ASSUME NEW n \in Msgs, Others(n)
  PROVE  /\ Uncounted \ {n} = Uncounted' \ {n} /\ Texts \ {n} = Texts' \ {n}
         /\ TaskSet \ {n} = TaskSet' \ {n}
<1>1. \A k \in Msgs : k # n => msg'[k] = msg[k]
  BY DEF Others
<1>2. Uncounted \ {n} = Uncounted' \ {n}
  BY <1>1 DEF Uncounted, InStage
<1>3. Texts \ {n} = Texts' \ {n}
  BY <1>1 DEF Texts, Read
<1>4. TaskSet \ {n} = TaskSet' \ {n}
  BY <1>1 DEF TaskSet
<1>5. QED
  BY <1>2, <1>3, <1>4

\* Still to be counted.
Pending(m) ==
  \/ m.stage \in {"rejecting", "handling", "refusing", "returned", "raised"}
  \/ m.stage = "closing" /\ m.mode = "inline"

LEMMA WhereMessagesAre ==
  ASSUME NEW n \in Msgs
  PROVE  /\ n \in Uncounted <=> Pending(msg[n])
         /\ n \in Uncounted' <=> Pending(msg'[n])
         /\ n \in Texts <=> msg[n].stage # "unread" /\ msg[n].kind = "text"
         /\ n \in Texts' <=> msg'[n].stage # "unread" /\ msg'[n].kind = "text"
         /\ n \in TaskSet <=> msg[n].mode = "task" /\ msg[n].stage # "settled"
         /\ n \in TaskSet' <=> msg'[n].mode = "task" /\ msg'[n].stage # "settled"
  BY DEF Uncounted, Pending, InStage, Texts, Read, TaskSet

\* The metrics add up again if the message is counted as the sets of messages say.
LEMMA CountsOne ==
  ASSUME CountedOnce, metrics \in Metrics, metrics' \in Metrics, NEW n \in Msgs, Others(n),
         \/ /\ Pending(msg[n]) /\ ~Pending(msg'[n])
            /\ n \in Texts <=> n \in Texts'
            /\ metrics'.received = metrics.received
            /\ metrics'.success + metrics'.failure = metrics.success + metrics.failure + 1
         \/ /\ Pending(msg[n]) <=> Pending(msg'[n])
            /\ n \in Texts <=> n \in Texts'
            /\ metrics'.received = metrics.received
            /\ metrics'.success + metrics'.failure = metrics.success + metrics.failure
         \/ /\ ~Pending(msg[n]) /\ Pending(msg'[n]) /\ n \notin Texts
            /\ metrics'.success + metrics'.failure = metrics.success + metrics.failure
            /\ metrics'.received = IF n \in Texts' THEN metrics.received ELSE metrics.received + 1
  PROVE  CountedOnce'
<1>1. PICK u, v, t, w : /\ u = Cardinality(Uncounted) /\ v = Cardinality(Uncounted')
                        /\ t = Cardinality(Texts) /\ w = Cardinality(Texts')
  OBVIOUS
<1>2. u \in Nat /\ v \in Nat /\ t \in Nat /\ w \in Nat
  BY <1>1, FiniteSetsOfMessages, FiniteSetsOfMessagesNext
<1>3. /\ metrics.success \in Nat /\ metrics.failure \in Nat /\ metrics.received \in Nat
      /\ metrics'.success \in Nat /\ metrics'.failure \in Nat /\ metrics'.received \in Nat
  BY DEF Metrics
<1>4. metrics.success + metrics.failure + u = metrics.received + t
  BY <1>1 DEF CountedOnce
<1>5. /\ (Pending(msg[n]) <=> Pending(msg'[n])) => v = u
      /\ ~Pending(msg[n]) /\ Pending(msg'[n]) => v = u + 1
      /\ Pending(msg[n]) /\ ~Pending(msg'[n]) => v = u - 1
  BY <1>1, OneMessage, OneElement, WhereMessagesAre, FiniteSetsOfMessages, FiniteSetsOfMessagesNext
<1>6. /\ (n \in Texts <=> n \in Texts') => w = t
      /\ n \notin Texts /\ n \in Texts' => w = t + 1
  BY <1>1, OneMessage, OneElement, FiniteSetsOfMessages, FiniteSetsOfMessagesNext
<1>7. metrics'.success + metrics'.failure + v = metrics'.received + w
  <2>1. CASE /\ Pending(msg[n]) /\ ~Pending(msg'[n])
             /\ n \in Texts <=> n \in Texts'
             /\ metrics'.received = metrics.received
             /\ metrics'.success + metrics'.failure = metrics.success + metrics.failure + 1
    <3>1. v = u - 1 /\ w = t
      BY <1>5, <1>6, <2>1
    <3>2. QED
      BY <1>2, <1>3, <1>4, <2>1, <3>1
  <2>2. CASE /\ Pending(msg[n]) <=> Pending(msg'[n])
             /\ n \in Texts <=> n \in Texts'
             /\ metrics'.received = metrics.received
             /\ metrics'.success + metrics'.failure = metrics.success + metrics.failure
    <3>1. v = u /\ w = t
      BY <1>5, <1>6, <2>2
    <3>2. QED
      BY <1>2, <1>3, <1>4, <2>2, <3>1
  <2>3. CASE /\ ~Pending(msg[n]) /\ Pending(msg'[n]) /\ n \notin Texts
             /\ metrics'.success + metrics'.failure = metrics.success + metrics.failure
             /\ metrics'.received = IF n \in Texts' THEN metrics.received ELSE metrics.received + 1
    <3>1. v = u + 1 /\ w = IF n \in Texts' THEN t + 1 ELSE t
      BY <1>5, <1>6, <2>3
    <3>2. CASE n \in Texts'
      <4>1. w = t + 1 /\ metrics'.received = metrics.received
        BY <2>3, <3>1, <3>2
      <4>2. QED
        BY <1>2, <1>3, <1>4, <2>3, <3>1, <4>1
    <3>3. CASE n \notin Texts'
      <4>1. w = t /\ metrics'.received = metrics.received + 1
        BY <2>3, <3>1, <3>3
      <4>2. QED
        BY <1>2, <1>3, <1>4, <2>3, <3>1, <4>1
    <3>4. QED
      BY <3>2, <3>3
  <2>4. QED
    BY <2>1, <2>2, <2>3
<1>8. QED
  BY <1>1, <1>7 DEF CountedOnce

\* A failure or a success more.
LEMMA CountedIs ==
  ASSUME metrics \in Metrics, NEW outcome \in {"success", "failure"}, metrics' = Counted(outcome)
  PROVE  /\ metrics' \in Metrics /\ metrics'.received = metrics.received
         /\ metrics'.success + metrics'.failure = metrics.success + metrics.failure + 1
<1>1. /\ metrics.success \in Nat /\ metrics.failure \in Nat /\ metrics.received \in Nat
      /\ metrics.throttled \in Nat
  BY DEF Metrics
<1>2. CASE outcome = "success"
  <2>1. metrics' = [metrics EXCEPT !.success = metrics.success + 1]
    BY <1>2 DEF Counted
  <2>2. QED
    BY <1>1, <2>1 DEF Metrics
<1>3. CASE outcome = "failure"
  <2>1. metrics' = [metrics EXCEPT !.failure = metrics.failure + 1]
    BY <1>3 DEF Counted
  <2>2. QED
    BY <1>1, <2>1 DEF Metrics
<1>4. QED
  BY <1>2, <1>3

LEMMA MovedIs ==
  ASSUME msg \in [Msgs -> MsgType], NEW n \in Msgs, NEW stage \in Stages, msg' = Moved(n, stage)
  PROVE  /\ msg' \in [Msgs -> MsgType] /\ Others(n)
         /\ msg'[n].conn = msg[n].conn /\ msg'[n].kind = msg[n].kind
         /\ msg'[n].mode = msg[n].mode /\ msg'[n].stage = stage
<1>1. msg[n] \in MsgType
  OBVIOUS
<1>2. PICK m : m = [msg[n] EXCEPT !.stage = stage]
  OBVIOUS
<1>3. /\ m \in MsgType /\ m.conn = msg[n].conn /\ m.kind = msg[n].kind /\ m.mode = msg[n].mode
      /\ m.stage = stage
  BY <1>1, <1>2 DEF MsgType
<1>4. msg' = [msg EXCEPT ![n] = m]
  BY <1>2 DEF Moved
<1>5. QED
  BY <1>3, <1>4 DEF Others

-----------------------------------------------------------------------------
(***************************************************************************)
(* What holds of messages and coroutines after a step.                     *)
(***************************************************************************)
Busy(c) == (reader[c] = "busy") <=> \E n \in Msgs : Holds(n, c)

Coroutines ==
  /\ reader \in [Conns -> {"reading", "busy", "ended"}]
  /\ msg \in [Msgs -> MsgType]
  /\ \A n \in Msgs : Placed(msg[n])
  /\ \A c \in Conns : Busy(c)
  /\ \A m, n \in Msgs, c \in Conns : Holds(m, c) /\ Holds(n, c) => m = n

Counters ==
  /\ open \in [Conns -> BOOLEAN]
  /\ inbox \in [Conns -> 0 .. MaxMsgs] /\ sent \in 0 .. MaxMsgs
  /\ \A c \in Conns : inbox[c] <= sent
  /\ metrics \in Metrics

LEMMA InvIsSplit ==
  MessagingInv <=> Coroutines /\ Counters /\ Cardinality(TaskSet) <= MaxTasks /\ CountedOnce
<1>1. \A c \in Conns :
        Busy(c) <=> ((reader[c] = "busy") <=>
          \E n \in Msgs : /\ msg[n].conn = c /\ msg[n].mode \in {"reader", "inline"}
                          /\ msg[n].stage # "settled")
  BY DEF Busy, Holds
<1>2. (\A n \in Msgs : Placed(msg[n])) =>
        \A n \in Msgs : msg[n].mode = "reader" => msg[n].stage \in {"rejecting", "settled"}
  BY DEF Placed
<1>3. QED
  BY <1>1, <1>2 DEF MessagingInv, MessagingTypeOK, Coroutines, Counters

LEMMA InvIsSplitNext ==
  ASSUME Coroutines', Counters', Cardinality(TaskSet') <= MaxTasks, CountedOnce'
  PROVE  MessagingInv'
<1>1. (\A c \in Conns : (reader[c] = "busy") <=>
          \E n \in Msgs : /\ msg[n].conn = c /\ msg[n].mode \in {"reader", "inline"}
                          /\ msg[n].stage # "settled")'
  BY DEF Coroutines, Busy, Holds
<1>2. (\A n \in Msgs : msg[n].mode = "reader" => msg[n].stage \in {"rejecting", "settled"})'
  BY DEF Coroutines, Placed
<1>3. (\A m, n \in Msgs, c \in Conns : Holds(m, c) /\ Holds(n, c) => m = n)'
  BY DEF Coroutines
<1>4. MessagingTypeOK'
  BY <1>1, <1>2 DEF MessagingTypeOK, Coroutines, Counters
<1>5. (\A n \in Msgs : Placed(msg[n]))' /\ (\A c \in Conns : inbox[c] <= sent)'
  BY DEF Coroutines, Counters
<1>6. QED
  BY <1>3, <1>4, <1>5 DEF MessagingInv

LEMMA HoldsNext ==
  ASSUME NEW n \in Msgs, Others(n)
  PROVE  \A k \in Msgs, c \in Conns : k # n => (Holds(k, c)' <=> Holds(k, c))
  BY DEF Others, Holds

\* A message moves on and its coroutine, if it holds one up, stays held up.
LEMMA StageMovesOn ==
  ASSUME Coroutines, NEW n \in Msgs, NEW stage \in Stages, msg' = Moved(n, stage), reader' = reader,
         msg[n].stage \notin {"unread", "settled"}, stage # "unread",
         stage = "settled" => msg[n].mode = "task", Placed(msg'[n])
  PROVE  Coroutines'
<1>1. msg \in [Msgs -> MsgType] /\ msg[n] \in MsgType
  BY DEF Coroutines
<1>2. /\ msg' \in [Msgs -> MsgType] /\ Others(n) /\ msg'[n].conn = msg[n].conn
      /\ msg'[n].mode = msg[n].mode /\ msg'[n].stage = stage
  BY <1>1, MovedIs
<1>3. \A c \in Conns : Holds(n, c)' <=> Holds(n, c)
  BY <1>2 DEF Holds
<1>4. \A k \in Msgs, c \in Conns : Holds(k, c)' <=> Holds(k, c)
  BY <1>2, <1>3, HoldsNext
<1>5. \A k \in Msgs : Placed(msg'[k])
  BY <1>2 DEF Coroutines, Others
<1>6. \A c \in Conns : Busy(c)'
  BY <1>4 DEF Busy, Coroutines
<1>7. \A k, m \in Msgs, c \in Conns : Holds(k, c)' /\ Holds(m, c)' => k = m
  BY <1>4 DEF Coroutines
<1>8. reader' \in [Conns -> {"reading", "busy", "ended"}]
  BY DEF Coroutines
<1>9. QED
  BY <1>2, <1>5, <1>6, <1>7, <1>8 DEF Coroutines

\* A message is settled by the coroutine it holds up.
LEMMA LetsGo ==
  ASSUME Coroutines, NEW n \in Msgs, msg' = Moved(n, "settled"),
         msg[n].mode \in {"reader", "inline"}, msg[n].stage # "settled",
         NEW now \in {"reading", "ended"}, reader' = [reader EXCEPT ![msg[n].conn] = now]
  PROVE  Coroutines'
<1>1. msg \in [Msgs -> MsgType] /\ msg[n] \in MsgType /\ "settled" \in Stages
  BY DEF Coroutines, Stages
<1>2. /\ msg' \in [Msgs -> MsgType] /\ Others(n) /\ msg'[n].conn = msg[n].conn
      /\ msg'[n].mode = msg[n].mode /\ msg'[n].stage = "settled"
  BY <1>1, MovedIs
<1>3. PICK c0 \in Conns : c0 = msg[n].conn
  BY <1>1 DEF MsgType
<1>4. /\ reader' \in [Conns -> {"reading", "busy", "ended"}] /\ reader'[c0] # "busy"
      /\ \A c \in Conns : c # c0 => reader'[c] = reader[c]
  BY <1>3 DEF Coroutines
<1>5. Holds(n, c0) /\ \A c \in Conns : ~Holds(n, c)' /\ (c # c0 => ~Holds(n, c))
  BY <1>2, <1>3 DEF Holds
<1>6. \A k \in Msgs, c \in Conns : k # n => (Holds(k, c)' <=> Holds(k, c))
  BY <1>2, HoldsNext
<1>7. \A k \in Msgs : Placed(msg'[k])
  <2>1. Placed(msg'[n])
    BY <1>2 DEF Placed
  <2>2. QED
    BY <1>2, <2>1 DEF Coroutines, Others
<1>8. ASSUME NEW c \in Conns
      PROVE  Busy(c)'
  <2>1. CASE c = c0
    <3>1. \A k \in Msgs : ~Holds(k, c)'
      BY <1>5, <1>6, <2>1 DEF Coroutines
    <3>2. QED
      BY <1>4, <2>1, <3>1 DEF Busy
  <2>2. CASE c # c0
    <3>1. \A k \in Msgs : Holds(k, c)' <=> Holds(k, c)
      BY <1>5, <1>6, <2>2
    <3>2. QED
      BY <1>4, <2>2, <3>1 DEF Busy, Coroutines
  <2>3. QED
    BY <2>1, <2>2
<1>9. \A k, m \in Msgs, c \in Conns : Holds(k, c)' /\ Holds(m, c)' => k = m
  BY <1>5, <1>6 DEF Coroutines
<1>10. QED
  BY <1>2, <1>4, <1>7, <1>8, <1>9 DEF Coroutines

\* The coroutine of a connection takes a message: it waits for it unless a task does.
LEMMA Takes ==
  ASSUME Coroutines, Counters, NEW c \in Conns, NEW n \in Msgs, NEW kind \in Kinds,
         NEW mode \in {"reader", "inline", "task"}, NEW stage \in {"rejecting", "handling"},
         stage = "rejecting" <=> mode = "reader", Reads(c, n, kind, mode, stage)
  PROVE  /\ Coroutines' /\ Others(n) /\ ~Pending(msg[n]) /\ Pending(msg'[n])
         /\ n \notin Texts /\ (n \in Texts' <=> kind = "text")
         /\ n \notin TaskSet /\ (n \in TaskSet' <=> mode = "task")
         /\ inbox' \in [Conns -> 0 .. MaxMsgs] /\ sent' = sent
         /\ \A d \in Conns : inbox'[d] <= sent'
<1>1. /\ reader[c] = "reading" /\ inbox[c] > 0 /\ msg[n].stage = "unread"
      /\ inbox' = [inbox EXCEPT ![c] = inbox[c] - 1]
      /\ msg' = [msg EXCEPT ![n] = [conn |-> c, kind |-> kind, mode |-> mode, stage |-> stage]]
      /\ reader' = IF mode = "task" THEN reader ELSE [reader EXCEPT ![c] = "busy"]
      /\ sent' = sent
  BY DEF Reads, Read
<1>2. PICK m : m = [conn |-> c, kind |-> kind, mode |-> mode, stage |-> stage]
  OBVIOUS
<1>3. /\ m \in MsgType /\ m.conn = c /\ m.kind = kind /\ m.mode = mode /\ m.stage = stage
  BY <1>2 DEF MsgType, Modes, Stages
<1>4. msg' = [msg EXCEPT ![n] = m] /\ msg \in [Msgs -> MsgType]
  BY <1>1, <1>2 DEF Coroutines
<1>5. msg' \in [Msgs -> MsgType] /\ Others(n) /\ msg'[n] = m
  BY <1>3, <1>4 DEF Others
<1>6. msg[n].mode = "none" /\ ~Pending(msg[n]) /\ Pending(m)
  BY <1>1, <1>3 DEF Coroutines, Placed, Pending
<1>7. \A d \in Conns : ~Holds(n, d) /\ (Holds(n, d)' <=> d = c /\ mode # "task")
  BY <1>3, <1>5, <1>6 DEF Holds
<1>8. \A k \in Msgs, d \in Conns : k # n => (Holds(k, d)' <=> Holds(k, d))
  BY <1>5, HoldsNext
<1>9. \A k \in Msgs : ~Holds(k, c)
  BY <1>1 DEF Coroutines, Busy
<1>10. \A k \in Msgs : Placed(msg'[k])
  <2>1. Placed(m)
    BY <1>3 DEF Placed
  <2>2. QED
    BY <1>5, <2>1 DEF Coroutines, Others
<1>11. /\ reader' \in [Conns -> {"reading", "busy", "ended"}]
       /\ \A d \in Conns : d # c => reader'[d] = reader[d]
       /\ reader'[c] = "busy" <=> mode # "task"
  BY <1>1 DEF Coroutines
<1>12. ASSUME NEW d \in Conns
       PROVE  Busy(d)'
  <2>1. CASE d = c
    BY <1>7, <1>8, <1>9, <1>11, <2>1 DEF Busy
  <2>2. CASE d # c
    <3>1. \A k \in Msgs : Holds(k, d)' <=> Holds(k, d)
      BY <1>7, <1>8, <2>2
    <3>2. QED
      BY <1>11, <2>2, <3>1 DEF Busy, Coroutines
  <2>3. QED
    BY <2>1, <2>2
<1>13. \A k, l \in Msgs, d \in Conns : Holds(k, d)' /\ Holds(l, d)' => k = l
  BY <1>7, <1>8, <1>9 DEF Coroutines
<1>14. Coroutines'
  BY <1>5, <1>10, <1>11, <1>12, <1>13 DEF Coroutines
<1>15. /\ n \notin Texts /\ (n \in Texts' <=> kind = "text")
       /\ n \notin TaskSet /\ (n \in TaskSet' <=> mode = "task")
  BY <1>1, <1>3, <1>5, <1>6, WhereMessagesAre
<1>16. /\ inbox' \in [Conns -> 0 .. MaxMsgs] /\ \A d \in Conns : inbox'[d] <= sent'
  <2>1. inbox \in [Conns -> 0 .. MaxMsgs] /\ sent \in Nat /\ MaxMsgs \in Nat
    BY MsgsAreFinite DEF Counters
  <2>2. inbox[c] - 1 \in 0 .. MaxMsgs /\ inbox[c] - 1 <= sent
    BY <1>1, <2>1 DEF Counters
  <2>3. QED
    BY <1>1, <2>1, <2>2 DEF Counters
<1>17. QED
  BY <1>1, <1>5, <1>6, <1>14, <1>15, <1>16

\* The set of tasks grows only where there is room.
LEMMA TasksStep ==
  ASSUME Cardinality(TaskSet) <= MaxTasks, NEW n \in Msgs, Others(n),
         n \in TaskSet' => n \in TaskSet \/ HasRoom
  PROVE  Cardinality(TaskSet') <= MaxTasks
<1>1. PICK u, v : u = Cardinality(TaskSet) /\ v = Cardinality(TaskSet')
  OBVIOUS
<1>2. u \in Nat /\ v \in Nat /\ MaxTasks \in Nat
  BY <1>1, FiniteSetsOfMessages, FiniteSetsOfMessagesNext, MsgsAreFinite
<1>3. /\ (n \in TaskSet <=> n \in TaskSet') => v = u
      /\ n \notin TaskSet /\ n \in TaskSet' => v = u + 1
      /\ n \in TaskSet /\ n \notin TaskSet' => v = u - 1
  BY <1>1, OneMessage, OneElement, FiniteSetsOfMessages, FiniteSetsOfMessagesNext
<1>4. n \notin TaskSet /\ n \in TaskSet' => u < MaxTasks
  BY <1>1 DEF HasRoom
<1>5. QED
  BY <1>1, <1>2, <1>3, <1>4

-----------------------------------------------------------------------------
(***************************************************************************)
(* The steps.                                                              *)
(***************************************************************************)
LEMMA InitMessagingInv == MessagingInit => MessagingInv
<1> SUFFICES ASSUME MessagingInit PROVE MessagingInv
  OBVIOUS
<1>1. PICK c0 \in Conns : c0 = CHOOSE c \in Conns : TRUE
  BY MessagingAssumption DEF MessagingAssumption
<1>2. msg = [n \in Msgs |-> [conn |-> c0, kind |-> "text", mode |-> "none", stage |-> "unread"]]
  BY <1>1 DEF MessagingInit
<1>3. msg \in [Msgs -> MsgType]
  BY <1>2 DEF MsgType, Kinds, Modes, Stages
<1>4. \A n \in Msgs : msg[n].mode = "none" /\ msg[n].stage = "unread" /\ Placed(msg[n])
  BY <1>2 DEF Placed
<1>5. Coroutines
  BY <1>3, <1>4 DEF MessagingInit, Coroutines, Busy, Holds
<1>6. Counters
  BY MsgsAreFinite DEF MessagingInit, Counters, Metrics
<1>7. Uncounted = {} /\ Texts = {} /\ TaskSet = {}
  BY <1>4 DEF Uncounted, Texts, TaskSet, InStage, Read
<1>8. Cardinality(TaskSet) <= MaxTasks /\ CountedOnce
  BY <1>7, FS_EmptySet, MsgsAreFinite DEF MessagingInit, CountedOnce
<1>9. QED
  BY <1>5, <1>6, <1>8, InvIsSplit

\* The parts of the invariant that only the messages read matter for.
LEMMA OtherCounters ==
  ASSUME Counters, NEW c \in Conns, open' = open \/ open' = [open EXCEPT ![c] = FALSE],
         inbox' = inbox, sent' = sent, metrics' \in Metrics
  PROVE  Counters'
  BY DEF Counters

LEMMA ServeStep ==
  ASSUME MessagingInv, NEW c \in Conns, Serve(c)
  PROVE  MessagingInv'
<1>1. /\ Coroutines /\ Counters /\ Cardinality(TaskSet) <= MaxTasks /\ CountedOnce
      /\ metrics \in Metrics
  BY InvIsSplit DEF Counters
<1>2. /\ metrics.success \in Nat /\ metrics.failure \in Nat /\ metrics.received \in Nat
      /\ metrics.throttled \in Nat
  BY <1>1 DEF Metrics
<1>3. ASSUME NEW n \in Msgs, NEW kind \in Kinds, NEW mode \in {"reader", "inline", "task"},
             NEW stage \in {"rejecting", "handling"}, stage = "rejecting" <=> mode = "reader",
             Reads(c, n, kind, mode, stage), mode = "task" => HasRoom,
             open' = open \/ open' = [open EXCEPT ![c] = FALSE], metrics' \in Metrics,
             metrics'.success = metrics.success, metrics'.failure = metrics.failure,
             metrics'.received = IF kind = "text" THEN metrics.received ELSE metrics.received + 1
      PROVE  MessagingInv'
  <2>1. /\ Coroutines' /\ Others(n) /\ ~Pending(msg[n]) /\ Pending(msg'[n])
        /\ n \notin Texts /\ (n \in Texts' <=> kind = "text")
        /\ n \notin TaskSet /\ (n \in TaskSet' <=> mode = "task")
        /\ inbox' \in [Conns -> 0 .. MaxMsgs] /\ sent' = sent
        /\ \A d \in Conns : inbox'[d] <= sent'
    BY <1>1, <1>3, Takes
  <2>2. metrics'.received = IF n \in Texts' THEN metrics.received ELSE metrics.received + 1
    BY <1>3, <2>1
  <2>3. metrics'.success + metrics'.failure = metrics.success + metrics.failure
    BY <1>3
  <2>4. CountedOnce'
    BY <1>1, <1>3, <2>1, <2>2, <2>3, CountsOne
  <2>5. Cardinality(TaskSet') <= MaxTasks
    BY <1>1, <1>3, <2>1, TasksStep
  <2>6. Counters'
    BY <1>1, <1>3, <2>1 DEF Counters
  <2>7. QED
    BY <2>1, <2>4, <2>5, <2>6, InvIsSplitNext
<1>4. CASE ReadText(c)
  <2>1. PICK n \in Msgs : Reads(c, n, "text", "reader", "rejecting")
    BY <1>4 DEF ReadText
  <2>2. open' = [open EXCEPT ![c] = FALSE] /\ metrics' = metrics
    BY <1>4 DEF ReadText
  <2>3. QED
    BY <1>1, <1>3, <2>1, <2>2 DEF Kinds
<1>5. CASE ReadGarbled(c)
  <2>1. PICK n \in Msgs : Reads(c, n, "garbled", "reader", "rejecting")
    BY <1>5 DEF ReadGarbled
  <2>2. open' = [open EXCEPT ![c] = FALSE] /\ metrics' = [metrics EXCEPT !.received = metrics.received + 1]
    BY <1>5 DEF ReadGarbled
  <2>3. /\ metrics' \in Metrics /\ metrics'.success = metrics.success
        /\ metrics'.failure = metrics.failure /\ metrics'.received = metrics.received + 1
    BY <1>1, <1>2, <2>2 DEF Metrics
  <2>4. QED
    BY <1>3, <2>1, <2>2, <2>3 DEF Kinds
<1>6. CASE EndReading(c)
  <2>1. /\ reader[c] = "reading" /\ reader' = [reader EXCEPT ![c] = "ended"]
        /\ UNCHANGED <<open, inbox, sent, msg, metrics>>
    BY <1>6 DEF EndReading
  <2>2. Counters'
    BY <1>1, <2>1 DEF Counters
  <2>3. CountedOnce' /\ TaskSet' = TaskSet
    BY <1>1, <2>1 DEF CountedOnce, TaskSet, Uncounted, Texts, InStage, Read
  <2>4. /\ reader' \in [Conns -> {"reading", "busy", "ended"}]
        /\ \A d \in Conns : reader'[d] = "busy" <=> reader[d] = "busy"
    BY <1>1, <2>1 DEF Coroutines
  <2>5. \A k \in Msgs, d \in Conns : Holds(k, d)' <=> Holds(k, d)
    BY <2>1 DEF Holds
  <2>6. \A d \in Conns : Busy(d)'
    BY <1>1, <2>4, <2>5 DEF Coroutines, Busy
  <2>7. Coroutines'
    BY <1>1, <2>1, <2>4, <2>5, <2>6 DEF Coroutines
  <2>8. QED
    BY <1>1, <2>2, <2>3, <2>7, InvIsSplitNext
<1>7. ASSUME NEW kind \in Kinds, ReadSecure(c, kind)
      PROVE  MessagingInv'
  <2>1. PICK n \in Msgs : Reads(c, n, kind, IF HasRoom THEN "task" ELSE "inline", "handling")
    BY <1>7 DEF ReadSecure
  <2>2. PICK mode \in {"inline", "task"} : mode = IF HasRoom THEN "task" ELSE "inline"
    OBVIOUS
  <2>3. /\ Reads(c, n, kind, mode, "handling") /\ (mode = "task" => HasRoom) /\ kind # "text"
        /\ open' = open
    BY <1>7, <2>1, <2>2 DEF ReadSecure
  <2>4. PICK t \in Nat : metrics' = [metrics EXCEPT !.received = metrics.received + 1, !.throttled = t]
    <3>1. CASE HasRoom
      BY <1>2, <1>7, <3>1 DEF ReadSecure
    <3>2. CASE ~HasRoom
      <4>1. metrics.throttled + 1 \in Nat
        BY <1>2
      <4>2. QED
        BY <1>7, <3>2, <4>1 DEF ReadSecure
    <3>3. QED
      BY <3>1, <3>2
  <2>5. /\ metrics' \in Metrics /\ metrics'.success = metrics.success
        /\ metrics'.failure = metrics.failure /\ metrics'.received = metrics.received + 1
    <3>1. metrics.received + 1 \in Nat
      BY <1>2
    <3>2. metrics' \in Metrics
      BY <1>1, <2>4, <3>1 DEF Metrics
    <3>3. QED
      BY <1>1, <2>4, <3>2 DEF Metrics
  <2>6. QED
    BY <1>3, <2>3, <2>5
<1>8. QED
  BY <1>4, <1>5, <1>6, <1>7 DEF Serve

\* A handler, a callback or a close task moves its message on.
LEMMA HandleStep ==
  ASSUME MessagingInv, NEW n \in Msgs, Handle(n)
  PROVE  MessagingInv'
<1>1. /\ Coroutines /\ Counters /\ Cardinality(TaskSet) <= MaxTasks /\ CountedOnce
      /\ metrics \in Metrics /\ msg \in [Msgs -> MsgType]
  BY InvIsSplit DEF Counters, Coroutines
<1>2. /\ msg[n] \in MsgType /\ Placed(msg[n]) /\ msg[n].conn \in Conns
      /\ msg[n].stage \in Stages /\ msg[n].mode \in Modes
  BY <1>1 DEF Coroutines, MsgType
<1>3. ASSUME NEW stage \in Stages, msg' = Moved(n, stage), Coroutines',
             msg[n].stage # "unread", stage # "unread", msg[n].stage # "settled",
             open' = open \/ open' = [open EXCEPT ![msg[n].conn] = FALSE],
             inbox' = inbox, sent' = sent,
             \/ /\ metrics' = metrics
                /\ Pending(msg[n]) <=> Pending([msg[n] EXCEPT !.stage = stage])
             \/ /\ \E outcome \in {"success", "failure"} : metrics' = Counted(outcome)
                /\ Pending(msg[n]) /\ ~Pending([msg[n] EXCEPT !.stage = stage])
      PROVE  MessagingInv'
  <2>1. /\ msg' \in [Msgs -> MsgType] /\ Others(n) /\ msg'[n].kind = msg[n].kind
        /\ msg'[n].mode = msg[n].mode /\ msg'[n].stage = stage
    BY <1>1, <1>3, MovedIs
  <2>2. msg'[n] = [msg[n] EXCEPT !.stage = stage]
    BY <1>1, <1>3 DEF Moved
  <2>3. n \in Texts <=> n \in Texts'
    BY <1>3, <2>1, WhereMessagesAre
  <2>4. n \in TaskSet' => n \in TaskSet
    BY <1>3, <2>1, WhereMessagesAre
  <2>5. Cardinality(TaskSet') <= MaxTasks
    BY <1>1, <2>1, <2>4, TasksStep
  <2>6. CASE /\ metrics' = metrics
             /\ Pending(msg[n]) <=> Pending([msg[n] EXCEPT !.stage = stage])
    <3>1. Pending(msg[n]) <=> Pending(msg'[n])
      BY <2>2, <2>6
    <3>2. CountedOnce'
      BY <1>1, <2>1, <2>3, <2>6, <3>1, CountsOne
    <3>3. Counters'
      BY <1>1, <1>2, <1>3, <2>6, OtherCounters
    <3>4. QED
      BY <1>3, <2>5, <3>2, <3>3, InvIsSplitNext
  <2>7. CASE /\ \E outcome \in {"success", "failure"} : metrics' = Counted(outcome)
             /\ Pending(msg[n]) /\ ~Pending([msg[n] EXCEPT !.stage = stage])
    <3>1. ~Pending(msg'[n])
      BY <2>2, <2>7
    <3>2. /\ metrics' \in Metrics /\ metrics'.received = metrics.received
          /\ metrics'.success + metrics'.failure = metrics.success + metrics.failure + 1
      BY <1>1, <2>7, CountedIs
    <3>3. CountedOnce'
      BY <1>1, <2>1, <2>3, <2>7, <3>1, <3>2, CountsOne
    <3>4. Counters'
      BY <1>1, <1>2, <1>3, <3>2, OtherCounters
    <3>5. QED
      BY <1>3, <2>5, <3>3, <3>4, InvIsSplitNext
  <2>8. QED
    BY <1>3, <2>6, <2>7
<1>4. ASSUME NEW stage \in Stages
      PROVE  /\ Pending([msg[n] EXCEPT !.stage = stage]) <=>
                  \/ stage \in {"rejecting", "handling", "refusing", "returned", "raised"}
                  \/ stage = "closing" /\ msg[n].mode = "inline"
             /\ Placed([msg[n] EXCEPT !.stage = stage]) <=>
                  /\ stage = "unread" <=> msg[n].mode = "none"
                  /\ msg[n].mode = "reader" => stage \in {"rejecting", "settled"}
                  /\ stage = "rejecting" => msg[n].mode = "reader"
                  /\ stage \in {"returned", "raised", "closed"} => msg[n].mode = "task"
  <2>1. /\ [msg[n] EXCEPT !.stage = stage].stage = stage
        /\ [msg[n] EXCEPT !.stage = stage].mode = msg[n].mode
    BY <1>2 DEF MsgType
  <2>2. QED
    BY <2>1 DEF Pending, Placed
<1>5. ASSUME NEW stage \in Stages, msg' = Moved(n, stage), reader' = reader,
             msg[n].stage \notin {"unread", "settled"}, stage # "unread",
             stage = "settled" => msg[n].mode = "task", Placed([msg[n] EXCEPT !.stage = stage])
      PROVE  Coroutines'
  <2>1. msg'[n] = [msg[n] EXCEPT !.stage = stage]
    BY <1>1, <1>5 DEF Moved
  <2>2. QED
    BY <1>1, <1>5, <2>1, StageMovesOn
<1>6. CASE Rejected(n)
  <2>1. /\ msg[n].stage = "rejecting" /\ msg' = Moved(n, "settled") /\ metrics' = Counted("failure")
        /\ reader' = [reader EXCEPT ![msg[n].conn] = "ended"] /\ UNCHANGED <<open, inbox, sent>>
    BY <1>6 DEF Rejected
  <2>2. Coroutines' /\ "settled" \in Stages
    BY <1>1, <1>2, <2>1, LetsGo DEF Placed, Stages
  <2>3. Pending(msg[n]) /\ ~Pending([msg[n] EXCEPT !.stage = "settled"])
    BY <1>4, <2>1, <2>2 DEF Pending
  <2>4. QED
    BY <1>3, <2>1, <2>2, <2>3
<1>7. CASE Refuse(n)
  <2>1. /\ msg[n].stage = "handling" /\ msg' = Moved(n, "refusing") /\ reader' = reader
        /\ open' = [open EXCEPT ![msg[n].conn] = FALSE] /\ UNCHANGED <<inbox, sent, metrics>>
    BY <1>7 DEF Refuse
  <2>2. "refusing" \in Stages /\ Placed([msg[n] EXCEPT !.stage = "refusing"])
    BY <1>2, <1>4, <2>1 DEF Placed, Stages
  <2>3. Coroutines'
    BY <1>5, <2>1, <2>2
  <2>4. Pending(msg[n]) /\ Pending([msg[n] EXCEPT !.stage = "refusing"])
    BY <1>4, <2>1, <2>2 DEF Pending
  <2>5. QED
    BY <1>3, <2>1, <2>2, <2>3, <2>4
<1>8. CASE TaskReturns(n) \/ TaskRaises(n)
  <2>1. PICK stage \in {"returned", "raised"} :
          /\ msg[n].mode = "task" /\ msg[n].stage \in {"refusing", "handling"}
          /\ msg' = Moved(n, stage) /\ UNCHANGED <<open, inbox, sent, reader, metrics>>
    BY <1>8 DEF TaskReturns, TaskRaises, Finished
  <2>2. stage \in Stages /\ Placed([msg[n] EXCEPT !.stage = stage])
    BY <1>2, <1>4, <2>1 DEF Placed, Stages
  <2>3. Coroutines'
    BY <1>5, <2>1, <2>2
  <2>4. Pending(msg[n]) /\ Pending([msg[n] EXCEPT !.stage = stage])
    BY <1>4, <2>1, <2>2 DEF Pending
  <2>5. QED
    BY <1>3, <2>1, <2>2, <2>3, <2>4
<1>9. CASE InlineReturns(n)
  <2>1. /\ msg[n].mode = "inline" /\ msg[n].stage \in {"refusing", "handling"}
        /\ msg' = Moved(n, "settled") /\ metrics' = Counted("success")
        /\ reader' = [reader EXCEPT ![msg[n].conn] = "reading"] /\ UNCHANGED <<open, inbox, sent>>
    BY <1>9 DEF InlineReturns, Finished
  <2>2. Coroutines' /\ "settled" \in Stages
    BY <1>1, <2>1, LetsGo DEF Stages
  <2>3. Pending(msg[n]) /\ ~Pending([msg[n] EXCEPT !.stage = "settled"])
    BY <1>4, <2>1, <2>2 DEF Pending
  <2>4. QED
    BY <1>3, <2>1, <2>2, <2>3
<1>10. CASE InlineRaises(n)
  <2>1. /\ msg[n].mode = "inline" /\ msg[n].stage = "handling" /\ msg' = Moved(n, "closing")
        /\ reader' = reader
        /\ open' = [open EXCEPT ![msg[n].conn] = FALSE] /\ UNCHANGED <<inbox, sent, metrics>>
    BY <1>10 DEF InlineRaises
  <2>2. "closing" \in Stages /\ Placed([msg[n] EXCEPT !.stage = "closing"])
    BY <1>2, <1>4, <2>1 DEF Placed, Stages
  <2>3. Coroutines'
    BY <1>5, <2>1, <2>2
  <2>4. Pending(msg[n]) /\ Pending([msg[n] EXCEPT !.stage = "closing"])
    BY <1>4, <2>1, <2>2 DEF Pending
  <2>5. QED
    BY <1>3, <2>1, <2>2, <2>3, <2>4
<1>11. CASE InlineFailed(n)
  <2>1. /\ msg[n].mode = "inline" /\ msg[n].stage = "closing"
        /\ msg' = Moved(n, "settled") /\ metrics' = Counted("failure")
        /\ reader' = [reader EXCEPT ![msg[n].conn] = "ended"] /\ UNCHANGED <<open, inbox, sent>>
    BY <1>11 DEF InlineFailed
  <2>2. Coroutines' /\ "settled" \in Stages
    BY <1>1, <2>1, LetsGo DEF Stages
  <2>3. Pending(msg[n]) /\ ~Pending([msg[n] EXCEPT !.stage = "settled"])
    BY <1>4, <2>1, <2>2 DEF Pending
  <2>4. QED
    BY <1>3, <2>1, <2>2, <2>3
<1>12. CASE OnSuccess(n) \/ OnFailure(n)
  <2>1. PICK outcome \in {"success", "failure"}, stage \in {"settled", "closing"} :
          /\ msg[n].stage \in {"returned", "raised"} /\ msg' = Moved(n, stage)
          /\ metrics' = Counted(outcome) /\ UNCHANGED <<open, inbox, sent, reader>>
    BY <1>12 DEF OnSuccess, OnFailure
  <2>2. stage \in Stages /\ msg[n].mode = "task" /\ Placed([msg[n] EXCEPT !.stage = stage])
    BY <1>2, <1>4, <2>1 DEF Placed, Stages
  <2>3. Coroutines'
    BY <1>5, <2>1, <2>2
  <2>4. Pending(msg[n]) /\ ~Pending([msg[n] EXCEPT !.stage = stage])
    BY <1>4, <2>1, <2>2 DEF Pending
  <2>5. QED
    BY <1>3, <2>1, <2>2, <2>3, <2>4
<1>13. CASE CloseWebsocket(n) \/ CloseDone(n)
  <2>1. PICK stage \in {"closed", "settled"} :
          /\ msg[n].stage \in {"closing", "closed"}
          /\ msg[n].stage = "closing" => msg[n].mode = "task"
          /\ msg' = Moved(n, stage)
          /\ open' = open \/ open' = [open EXCEPT ![msg[n].conn] = FALSE]
          /\ UNCHANGED <<inbox, sent, reader, metrics>>
    BY <1>13 DEF CloseWebsocket, CloseDone
  <2>2. stage \in Stages /\ msg[n].mode = "task" /\ Placed([msg[n] EXCEPT !.stage = stage])
    BY <1>2, <1>4, <2>1 DEF Placed, Stages
  <2>3. Coroutines'
    BY <1>5, <2>1, <2>2
  <2>4. ~Pending(msg[n]) /\ ~Pending([msg[n] EXCEPT !.stage = stage])
    BY <1>4, <2>1, <2>2 DEF Pending
  <2>5. QED
    BY <1>3, <2>1, <2>2, <2>3, <2>4
<1>14. QED
  BY <1>6, <1>7, <1>8, <1>9, <1>10, <1>11, <1>12, <1>13 DEF Handle

LEMMA NextMessagingInv ==
  ASSUME MessagingInv, [MessagingNext]_messagingVars
  PROVE  MessagingInv'
<1>1. Coroutines /\ Counters /\ Cardinality(TaskSet) <= MaxTasks /\ CountedOnce
  BY InvIsSplit
<1>2. ASSUME reader' = reader, msg' = msg, Counters', metrics' = metrics
      PROVE  MessagingInv'
  <2>1. \A k \in Msgs, d \in Conns : Holds(k, d)' <=> Holds(k, d)
    BY <1>2 DEF Holds
  <2>2. Coroutines'
    BY <1>1, <1>2, <2>1 DEF Coroutines, Busy
  <2>3. CountedOnce' /\ TaskSet' = TaskSet
    BY <1>1, <1>2 DEF CountedOnce, TaskSet, Uncounted, Texts, InStage, Read
  <2>4. QED
    BY <1>1, <1>2, <2>2, <2>3, InvIsSplitNext
<1>3. ASSUME NEW c \in Conns, Send(c)
      PROVE  MessagingInv'
  <2>1. /\ sent < MaxMsgs /\ sent' = sent + 1 /\ inbox' = [inbox EXCEPT ![c] = inbox[c] + 1]
        /\ UNCHANGED <<open, reader, msg, metrics>>
    BY <1>3 DEF Send
  <2>2. Counters'
    <3>1. sent \in Nat /\ MaxMsgs \in Nat /\ inbox \in [Conns -> 0 .. MaxMsgs]
      BY <1>1, MsgsAreFinite DEF Counters
    <3>2. \A d \in Conns : inbox[d] \in Nat /\ inbox[d] <= sent
      BY <1>1, <3>1 DEF Counters
    <3>3. sent' \in 0 .. MaxMsgs /\ inbox[c] + 1 \in 0 .. MaxMsgs /\ inbox[c] + 1 <= sent'
      BY <2>1, <3>1, <3>2
    <3>4. inbox' \in [Conns -> 0 .. MaxMsgs]
      BY <2>1, <3>1, <3>3
    <3>5. \A d \in Conns : inbox'[d] <= sent'
      BY <2>1, <3>1, <3>2, <3>3
    <3>6. QED
      BY <1>1, <2>1, <3>3, <3>4, <3>5 DEF Counters
  <2>3. QED
    BY <1>2, <2>1, <2>2
<1>4. ASSUME NEW c \in Conns, Disconnect(c)
      PROVE  MessagingInv'
  BY <1>1, <1>2, <1>4 DEF Disconnect, Counters
<1>5. CASE UNCHANGED messagingVars
  BY <1>1, <1>2, <1>5 DEF messagingVars, Counters
<1>6. QED
  BY <1>3, <1>4, <1>5, ServeStep, HandleStep DEF MessagingNext, AllEnded

THEOREM SpecMessagingInv == MessagingSpec => []MessagingInv
<1>1. MessagingInv /\ [MessagingNext]_messagingVars => MessagingInv'
  BY NextMessagingInv
<1>2. QED
  BY <1>1, InitMessagingInv, PTL DEF MessagingSpec

\* Every variable has its type, and the coroutine of a connection is busy exactly while
\* it has a message to reject or to handle itself (SecureMessageWebsocketHandler).
THEOREM MessagingTypes == MessagingSpec => []MessagingTypeOK
<1>1. MessagingInv => MessagingTypeOK
  BY DEF MessagingInv
<1> QED  BY <1>1, SpecMessagingInv, PTL

\* Each message read is counted once, as a success or a failure, by the coroutine, the
\* inline handler or the done callback that it ends in, on however many connections.
THEOREM MetricsAddUp == MessagingSpec => []CountedOnce
<1>1. MessagingInv => CountedOnce
  BY DEF MessagingInv
<1> QED  BY <1>1, SpecMessagingInv, PTL

\* The tasks of all connections, those that only close a websocket and those whose
\* callback has not run included, are never more than max_concurrent_requests.
THEOREM NoMoreTasksThanPlaces == MessagingSpec => [](Cardinality(TaskSet) <= MaxTasks)
<1>1. MessagingInv => Cardinality(TaskSet) <= MaxTasks
  BY DEF MessagingInv
<1> QED  BY <1>1, SpecMessagingInv, PTL
=============================================================================
