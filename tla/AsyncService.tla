---------------------------- MODULE AsyncService ----------------------------
(***************************************************************************)
(* core/async_service.py, with the hooks and the context manager of        *)
(* services/asyncio/websockets_server.py.                                  *)
(*                                                                         *)
(* The tasks run on one event loop: a step takes a task from one await to  *)
(* the next, so a step may set several states in a row, and every other    *)
(* task sees only the last of them.  A task that awaits an event is woken  *)
(* when the event is set, and runs in a later step, whatever has become of *)
(* the event.  A hook may suspend, raise, or be cancelled with its task; a *)
(* hook that does not suspend is one during which nobody else steps.       *)
(***************************************************************************)
EXTENDS Integers

CONSTANTS
  Tasks,       \* asyncio tasks that use the service
  MaxCalls,    \* bound: number of calls they make
  MaxCancels   \* bound: number of times a task is cancelled

ASSUME AsyncAssumption == MaxCalls \in Nat /\ MaxCancels \in Nat

VARIABLES
  state, running, stopped,  \* the lifecycle state and the two asyncio Events
  call,       \* call[t]: the await at which task t is, and what follows it
  starts,     \* number of servers started: the current one, and its stop signal
  server,     \* server[n]: the phase of the task that runs the n-th server
  signalled,  \* the servers whose stop signal is set
  abandoned,  \* history: a start was cancelled
  calls, cancels

serverVars == <<starts, server, signalled>>
vars == <<state, running, stopped, call, serverVars, abandoned, calls, cancels>>

Awaits == {"idle", "_start", "_stop", "await_running", "await_stopped", "sleep", "body"}
Nexts == {"return", "start", "serve", "restart"}
Idle == [at |-> "idle", next |-> "return", woken |-> FALSE]

AsyncTypeOK ==
  /\ state \in {"NEW", "STARTING", "RUNNING", "STOPPING", "STOPPED"}
  /\ running \in BOOLEAN /\ stopped \in BOOLEAN /\ abandoned \in BOOLEAN
  /\ call \in [Tasks -> [at : Awaits, next : Nexts, woken : BOOLEAN]]
  /\ calls \in 0 .. MaxCalls /\ cancels \in 0 .. MaxCancels
  /\ starts \in 0 .. MaxCalls
  /\ server \in [1 .. MaxCalls -> {"none", "opening", "listening", "failed", "closed"}]
  /\ signalled \subseteq 0 .. MaxCalls

Init ==
  /\ state = "NEW" /\ running = FALSE /\ stopped = FALSE
  /\ call = [t \in Tasks |-> Idle]
  /\ starts = 0 /\ server = [n \in 1 .. MaxCalls |-> "none"] /\ signalled = {}
  /\ abandoned = FALSE /\ calls = 0 /\ cancels = 0

-----------------------------------------------------------------------------
(***************************************************************************)
(* __set_state, for the two states at most that one step sets one after    *)
(* the other, and the wake-ups its events make.                            *)
(***************************************************************************)
Stay == <<"same", "same">>
To(s) == <<"same", s>>

Runs(event, s) == IF s = "RUNNING" THEN TRUE ELSE event /\ s # "STOPPING"
StaysSet(event, s) == event \/ s = "STOPPED"

Stops(event, s) == IF s = "STOPPED" THEN TRUE ELSE event /\ s # "STARTING"

Awaited == [await_running |-> "RUNNING", await_stopped |-> "STOPPED"]

Wakes(c, path) ==
  IF c.at \in DOMAIN Awaited /\ Awaited[c.at] \in {path[1], path[2]}
  THEN [c EXCEPT !.woken = TRUE] ELSE c

set_state(path) ==
  /\ state' = IF path[2] = "same" THEN state ELSE path[2]
  /\ running' = Runs(Runs(running, path[1]), path[2])
  /\ stopped' = Stops(Stops(stopped, path[1]), path[2])

\* Task t sets the states of path and runs on to await "at".  The first thing
\* the _stop hook does is to set the stop signal of the current server.
Goes(t, path, at, next) ==
  /\ set_state(path)
  /\ call' = [u \in Tasks |->
                IF u = t THEN [at |-> at, next |-> next, woken |-> FALSE]
                ELSE Wakes(call[u], path)]
  /\ signalled' = IF path[2] = "STOPPING" THEN signalled \cup {starts} ELSE signalled

Returns(t, path) == Goes(t, path, "idle", "return")

-----------------------------------------------------------------------------
(***************************************************************************)
(* The calls, from a task that is in none.  One that returns or raises at  *)
(* once changes nothing, and is no step.                                   *)
(***************************************************************************)
Calls(t) ==
  /\ call[t].at = "idle"
  /\ calls < MaxCalls
  /\ calls' = calls + 1
  /\ UNCHANGED <<starts, server, abandoned, cancels>>

Start(t) ==
  /\ Calls(t)
  /\ state \in {"NEW", "STOPPED"}
  /\ Goes(t, To("STARTING"), "_start", "return")

StopsWhileStarting(t) ==
  /\ Calls(t)
  /\ \/ /\ state \in {"RUNNING", "STARTING"}
        /\ Goes(t, To("STOPPING"), "_stop", "return")
     \/ /\ state = "NEW"
        /\ Returns(t, To("STOPPED"))

Stop(t) ==
  /\ Calls(t)
  /\ \/ /\ state = "RUNNING"
        /\ Goes(t, To("STOPPING"), "_stop", "return")
     \/ /\ state = "NEW"
        /\ Returns(t, To("STOPPED"))

\* restart(), once it does not find the service starting, or has waited for it.
Restarts(t) ==
  \/ /\ state = "RUNNING"
     /\ Goes(t, To("STOPPING"), "_stop", "start")
  \/ /\ state \in {"NEW", "STOPPED"}
     /\ Goes(t, To("STARTING"), "_start", "return")
  \/ /\ state \in {"STARTING", "STOPPING"}
     /\ Goes(t, Stay, "await_stopped", "start")

Restart(t) ==
  /\ Calls(t)
  /\ IF state = "STARTING" THEN Goes(t, Stay, "await_running", "restart") ELSE Restarts(t)

\* start_server(): start(), await_running(), sleep(0), then the body.
StartServer(t) ==
  /\ Calls(t)
  /\ \/ /\ state \in {"NEW", "STOPPED"}
        /\ Goes(t, To("STARTING"), "_start", "serve")
     \/ /\ state = "STARTING"
        /\ Goes(t, Stay, "await_running", "serve")
     \/ /\ state = "RUNNING"
        /\ Goes(t, Stay, "sleep", "serve")

Await(t) ==
  /\ Calls(t)
  /\ \/ /\ ~running
        /\ Goes(t, Stay, "await_running", "return")
     \/ /\ ~stopped
        /\ Goes(t, Stay, "await_stopped", "return")

-----------------------------------------------------------------------------
(***************************************************************************)
(* The hooks.                                                              *)
(***************************************************************************)

\* _start ends: there is a server task and a new stop signal.
StartReturns(t) ==
  /\ call[t].at = "_start"
  /\ starts < MaxCalls    \* it is: a call starts one server at most
  /\ starts' = starts + 1
  /\ server' = [server EXCEPT ![starts + 1] = "opening"]
  /\ IF call[t].next = "serve" THEN Goes(t, To("RUNNING"), "sleep", "serve")
                               ELSE Returns(t, To("RUNNING"))
  /\ UNCHANGED <<abandoned, calls, cancels>>

\* _start raises: START_FAILED, and stop() is called in the same step.
StartRaises(t) ==
  /\ call[t].at = "_start"
  /\ Goes(t, <<"START_FAILED", "STOPPING">>, "_stop", "return")
  /\ UNCHANGED <<starts, server, abandoned, calls, cancels>>

IgnoresTheServer == TRUE

OnlyIfItClosed == starts > 0 => server[starts] = "closed"

\* _stop awaits the task of the current server, if there has been one.
ServerEnded == starts > 0 => server[starts] \in {"failed", "closed"}

\* The service is STOPPED even if _stop raises, as it does if the server has
\* failed; what stop() was called for follows only if it does not.
StopEnds(t, raises) ==
  /\ call[t].at = "_stop"
  /\ ServerEnded
  /\ starts > 0 /\ server[starts] = "failed" => raises
  /\ IF call[t].next = "start" /\ ~raises
     THEN Goes(t, <<"STOPPED", "STARTING">>, "_start", "return")
     ELSE Returns(t, To("STOPPED"))
  /\ UNCHANGED <<starts, server, abandoned, calls, cancels>>

-----------------------------------------------------------------------------
(***************************************************************************)
(* The other awaits.                                                       *)
(***************************************************************************)
Resumes(t) ==
  /\ call[t].woken
  /\ UNCHANGED <<starts, server, abandoned, calls, cancels>>

WaitEnds(t) ==
  /\ Resumes(t)
  /\ call[t].next = "return"
  /\ Returns(t, Stay)

\* restart() has waited for the service to run.
RestartGoesOn(t) ==
  /\ Resumes(t)
  /\ call[t].next = "restart"
  /\ Restarts(t)

\* restart() has waited for the service to stop; somebody else may have started
\* it since (start() then returns) or be stopping it again (start() raises).
RestartEnds(t) ==
  /\ Resumes(t)
  /\ call[t].next = "start"
  /\ IF state \in {"NEW", "STOPPED"} THEN Goes(t, To("STARTING"), "_start", "return")
                                     ELSE Returns(t, Stay)

ServeGoesOn(t) ==
  /\ Resumes(t)
  /\ call[t].next = "serve"
  /\ Goes(t, Stay, "sleep", "serve")

EnterBody(t) ==
  /\ call[t].at = "sleep"
  /\ Goes(t, Stay, "body", "serve")
  /\ UNCHANGED <<starts, server, abandoned, calls, cancels>>

\* The body is left, whichever way: stop(), await_stopped().
LeaveBody(t) ==
  /\ call[t].at = "body"
  /\ \/ /\ state = "RUNNING"
        /\ Goes(t, To("STOPPING"), "_stop", "return")
     \/ /\ state = "STOPPING"
        /\ Goes(t, Stay, "await_stopped", "return")
     \/ /\ state \in {"STOPPED", "STARTING"}
        /\ Returns(t, Stay)
  /\ UNCHANGED <<starts, server, abandoned, calls, cancels>>

\* A wait with a timeout gives up.
TimesOut(t) ==
  /\ call[t].at \in {"await_running", "await_stopped"}
  /\ call[t].next = "return"
  /\ Returns(t, Stay)
  /\ UNCHANGED <<starts, server, abandoned, calls, cancels>>

-----------------------------------------------------------------------------
(***************************************************************************)
(* Task t is cancelled.  start() catches only Exception: a start that is   *)
(* cancelled leaves the service STARTING.  In _stop the server task, which *)
(* is awaited, is cancelled first; the service is STOPPED when it has      *)
(* ended.  Leaving the body is LeaveBody.                                  *)
(***************************************************************************)
CancelStart(t) ==
  /\ call[t].at = "_start"
  /\ abandoned' = TRUE
  /\ Returns(t, Stay)
  /\ UNCHANGED server

CancelStop(t) ==
  /\ call[t].at = "_stop"
  /\ Goes(t, Stay, "_stop", "return")
  /\ server' = IF starts > 0 /\ server[starts] = "opening"
               THEN [server EXCEPT ![starts] = "closed"] ELSE server
  /\ UNCHANGED abandoned

CancelWait(t) ==
  /\ call[t].at \in {"await_running", "await_stopped", "sleep"}
  /\ Returns(t, Stay)
  /\ UNCHANGED <<server, abandoned>>

Cancel(t) ==
  /\ cancels < MaxCancels
  /\ cancels' = cancels + 1
  /\ CancelStart(t) \/ CancelStop(t) \/ CancelWait(t)
  /\ UNCHANGED <<starts, calls>>

-----------------------------------------------------------------------------
(***************************************************************************)
(* The task of a server: it binds the port, which can fail, waits for the  *)
(* stop signal, and closes.                                                *)
(***************************************************************************)
ServerStep(n, phase) ==
  /\ server' = [server EXCEPT ![n] = phase]
  /\ UNCHANGED <<state, running, stopped, call, starts, signalled, abandoned, calls, cancels>>

Listens(n) == server[n] = "opening" /\ ServerStep(n, "listening")
BindFails(n) == server[n] = "opening" /\ ServerStep(n, "failed")
Closes(n) == server[n] = "listening" /\ n \in signalled /\ ServerStep(n, "closed")

-----------------------------------------------------------------------------
\* Nobody is at work on what task t waits for.
Unattended(t) ==
  /\ ~call[t].woken
  /\ \/ call[t].at = "await_running" /\ (state \in {"NEW", "STOPPED"} \/ abandoned)
     \/ call[t].at = "await_stopped" /\ (state \in {"NEW", "RUNNING"} \/ abandoned)

Quiet ==
  /\ calls = MaxCalls
  /\ \A t \in Tasks : call[t].at = "idle" \/ Unattended(t)
  /\ UNCHANGED vars

TaskStep(t) ==
  \/ StartReturns(t) \/ StartRaises(t)
  \/ \E raises \in BOOLEAN : StopEnds(t, raises)
  \/ WaitEnds(t) \/ RestartGoesOn(t) \/ RestartEnds(t) \/ ServeGoesOn(t) \/ EnterBody(t)

ServerTask(n) == Listens(n) \/ BindFails(n) \/ Closes(n)

Next ==
  \/ Quiet
  \/ \E t \in Tasks :
       \/ Start(t) \/ Stop(t) \/ Restart(t) \/ StartServer(t) \/ Await(t)
       \/ TaskStep(t) \/ LeaveBody(t) \/ TimesOut(t) \/ Cancel(t)
  \/ \E n \in 1 .. MaxCalls : ServerTask(n)

\* The loop runs every ready task, and hooks and the binding of a port end.
Spec ==
  /\ Init /\ [][Next]_vars
  /\ \A t \in Tasks : WF_vars(TaskStep(t))
  /\ \A n \in 1 .. MaxCalls : WF_vars(ServerTask(n))

-----------------------------------------------------------------------------
(***************************************************************************)
(* Properties.                                                             *)
(***************************************************************************)

\* However the calls of the tasks overlap, one hook runs at a time, in the state
\* that is its own; a service is only ever left between two states, with nobody
\* to take it further, by a start that was cancelled.
OneHookAtATime ==
  /\ \A t, u \in Tasks :
       {call[t].at, call[u].at} \subseteq {"_start", "_stop"} => t = u
  /\ \A t \in Tasks :
       /\ call[t].at = "_start" => state = "STARTING" /\ ~abandoned
       /\ call[t].at = "_stop" => state = "STOPPING"
  /\ state = "STARTING" /\ ~abandoned => \E t \in Tasks : call[t].at = "_start"
  /\ state = "STOPPING" => \E t \in Tasks : call[t].at = "_stop"

\* A server task lives only while its service is RUNNING or STOPPING, so that
\* two never compete for the port, and no server of a RUNNING service has been
\* told to stop, by a stop of an earlier start for instance.
ServerFollowsState ==
  /\ \A n \in 1 .. MaxCalls :
       server[n] \in {"opening", "listening"} => n = starts /\ state \in {"RUNNING", "STOPPING"}
  /\ state = "RUNNING" => starts \notin signalled /\ server[starts] # "closed"

\* The events tell the state, and no wake-up is lost: a task that still sleeps
\* on an event sleeps in a state in which the event is not set.
NoLostWakeup ==
  /\ running <=> state = "RUNNING"
  /\ stopped <=> state = "STOPPED"
  /\ \A t \in Tasks : ~call[t].woken =>
       /\ call[t].at = "await_running" => state # "RUNNING"
       /\ call[t].at = "await_stopped" => state # "STOPPED"

\* Every call returns, restart() and start_server() with all that they await,
\* unless it comes to wait for an event that no task is about to set.
CallsReturn ==
  \A t \in Tasks :
    call[t].at \notin {"idle", "body"} ~> call[t].at \in {"idle", "body"} \/ Unattended(t)
=============================================================================
