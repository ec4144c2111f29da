-------------------------- MODULE ServiceLifecycle --------------------------
(***************************************************************************)
(* core/service.py: the lifecycle of a Service, called by several threads, *)
(* with the health-check timers it schedules and the worker thread that    *)
(* AuctionImportService and AuctionManagerWatcherService start.            *)
(*                                                                         *)
(* No lock protects a Service, so a call is a sequence of steps: each test *)
(* of _state, each _set_state, each hook and each use of the timer field   *)
(* is a step of its own, and the steps of different threads interleave.    *)
(* _set_state is one step: its writes to _state and to the events are only *)
(* told apart by a thread that would have looked just before them.         *)
(***************************************************************************)
EXTENDS Integers, FiniteSets

CONSTANTS
  Callers,        \* threads that call start(), stop() and restart()
  Checks,         \* number of health checks of the service
  Timers,         \* bound: the Timer objects alive at the same time
  NoTimer,        \* _healthcheck_timer = None
  HasWorker,      \* whether _start() starts a worker thread
  MaxCalls        \* bound: number of calls

ASSUME LifecycleAssumption ==
  /\ Checks \in Nat /\ MaxCalls \in Nat /\ HasWorker \in BOOLEAN
  /\ NoTimer \notin Timers

VARIABLES
  state, runningEvent, stoppedEvent,
  faulted,     \* the lifecycle stream has been ended by on_error
  call,        \* call[c]: where thread c is, and what its call remembers
  calls,       \* number of calls made
  overlapped,  \* (history) a thread has called while another's call was under way
  timer,       \* the field _healthcheck_timer
  timers,      \* timers[t]: the health check and the phase of Timer t
  started,     \* number of workers started
  workers      \* the workers, by number, whose thread is alive

lifecycleVars == <<state, runningEvent, stoppedEvent, faulted>>
timerVars == <<timer, timers>>
workerVars == <<started, workers>>
vars == <<lifecycleVars, call, calls, overlapped, timerVars, workerVars>>

ServiceLifecycleState ==
  {"NEW", "STARTING", "START_FAILED", "RUNNING", "STOPPING", "STOPPED"}
Operations == {"start", "stop", "restart"}
Steps == Operations \cup
  {"idle", "start.state", "starting", "start.hook", "running", "schedule",
   "schedule.start", "start.failed", "stop.state", "stop.new", "stopping", "stop.hook",
   "stop.cancel", "restart.state", "restart.await", "raised"}
TimerPhases == {"none", "created", "armed", "cancelled", "executing", "rescheduling"}
\* what a call does when the stop() it has called returns
Continuations == {"return", "restart.state", "raised"}

TypeOK ==
  /\ state \in ServiceLifecycleState
  /\ runningEvent \in BOOLEAN /\ stoppedEvent \in BOOLEAN /\ faulted \in BOOLEAN
  /\ call \in [Callers -> [pc : Steps, then : Continuations, startFailed : BOOLEAN,
                           check : Nat]]
  /\ calls \in 0 .. MaxCalls /\ overlapped \in BOOLEAN
  /\ timer \in Timers \cup {NoTimer}
  /\ timers \in [Timers -> [check : Nat, phase : TimerPhases]]
  /\ started \in Nat
  /\ workers \subseteq 1 .. started

Dead == [check |-> 0, phase |-> "none"]

Init ==
  /\ state = "NEW"
  /\ runningEvent = FALSE /\ stoppedEvent = FALSE /\ faulted = FALSE
  /\ call = [c \in Callers |-> [pc |-> "idle", then |-> "return", startFailed |-> FALSE, check |-> 1]]
  /\ calls = 0 /\ overlapped = FALSE
  /\ timer = NoTimer
  /\ timers = [t \in Timers |-> Dead]
  /\ started = 0
  /\ workers = {}

-----------------------------------------------------------------------------
\* Definitions that no action uses are slips the code could have made, each
\* before the definition it would replace.

At(c, step) == call[c].pc = step
Overlaps(c) == overlapped' = (overlapped \/ \E d \in Callers \ {c} : ~At(d, "idle"))
Goto(c, step) == call' = [call EXCEPT ![c].pc = step]
\* stop() returns to the thread, to restart() or to the except branch of start().
StopReturns(c) ==
  call' = [call EXCEPT ![c].pc = IF call[c].then = "return" THEN "idle" ELSE call[c].then]

KeepsStoppedEvent(s) == IF s = "STOPPED" THEN TRUE ELSE stoppedEvent

NeverSetsStoppedEvent(s) == IF s = "STARTING" THEN FALSE ELSE stoppedEvent

StoppedEventAfter(s) ==
  IF s = "STOPPED" THEN TRUE ELSE IF s = "STARTING" THEN FALSE ELSE stoppedEvent

RunningEventAfter(s) ==
  IF s = "RUNNING" THEN TRUE ELSE IF s = "STOPPING" THEN FALSE ELSE runningEvent

SetState(s) ==
  /\ state' = s
  /\ stoppedEvent' = StoppedEventAfter(s)
  /\ runningEvent' = RunningEventAfter(s)

-----------------------------------------------------------------------------
(***************************************************************************)
(* start()                                                                 *)
(***************************************************************************)

Start(c) ==
  /\ At(c, "start")
  /\ IF state \in {"RUNNING", "STARTING"} THEN Goto(c, "idle") ELSE Goto(c, "start.state")
  /\ UNCHANGED <<lifecycleVars, calls, overlapped, timerVars, workerVars>>

StartChecksState(c) ==
  /\ At(c, "start.state")
  /\ \/ state \in {"NEW", "STOPPED"} /\ Goto(c, "starting") /\ UNCHANGED faulted
     \/ state \notin {"NEW", "STOPPED"} /\ Goto(c, "raised") /\ faulted' = TRUE
  /\ UNCHANGED <<state, runningEvent, stoppedEvent, calls, overlapped, timerVars, workerVars>>

Starting(c) ==
  /\ At(c, "starting")
  /\ SetState("STARTING")
  /\ Goto(c, "start.hook")
  /\ UNCHANGED <<faulted, calls, overlapped, timerVars, workerVars>>

\* _start() launches the worker, if the service has one, or raises.
StartHook(c) ==
  /\ At(c, "start.hook")
  /\ \/ /\ HasWorker
        /\ started' = started + 1
        /\ workers' = workers \cup {started'}
        /\ Goto(c, "running")
     \/ ~HasWorker /\ Goto(c, "running") /\ UNCHANGED workerVars
     \/ Goto(c, "start.failed") /\ UNCHANGED workerVars
  /\ UNCHANGED <<lifecycleVars, calls, overlapped, timerVars>>

Running(c) ==
  /\ At(c, "running")
  /\ SetState("RUNNING")
  /\ call' = [call EXCEPT ![c] = [@ EXCEPT !.pc = "schedule", !.check = 1]]
  /\ UNCHANGED <<faulted, calls, overlapped, timerVars, workerVars>>

\* self._healthcheck_timer = Timer(...), given the timers ts: a Timer that was
\* never started is lost when the field lets go of it.
NewTimer(h, ts) ==
  LET free == {t \in Timers \ {timer} : ts[t] = Dead}
      t == CHOOSE f \in free : TRUE IN
    /\ free # {}
    /\ timer' = t
    /\ timers' = [u \in Timers |->
         IF u = t THEN [check |-> h, phase |-> "created"]
         ELSE IF u = timer /\ ts[u].phase \in {"created", "cancelled"} THEN Dead
         ELSE ts[u]]

\* self._healthcheck_timer.start(), on whatever Timer the field holds by now: a
\* Thread starts once, and a Timer that was cancelled before ends at once.
CanStartTimer == timers[timer].phase \in {"created", "cancelled"}
TimersAfterStart ==
  IF ~CanStartTimer THEN timers
  ELSE [timers EXCEPT ![timer] = IF @.phase = "created" THEN [@ EXCEPT !.phase = "armed"] ELSE Dead]

Schedule(c) ==
  /\ At(c, "schedule")
  /\ IF call[c].check > Checks
     THEN Goto(c, "idle") /\ UNCHANGED timerVars
     ELSE Goto(c, "schedule.start") /\ NewTimer(call[c].check, timers)
  /\ UNCHANGED <<lifecycleVars, calls, overlapped, workerVars>>

ScheduleStarts(c) ==
  /\ At(c, "schedule.start")
  /\ timers' = TimersAfterStart
  /\ \/ CanStartTimer /\ call' = [call EXCEPT ![c] = [@ EXCEPT !.pc = "schedule", !.check = call[c].check + 1]]
     \/ ~CanStartTimer /\ Goto(c, "start.failed")
  /\ UNCHANGED <<lifecycleVars, calls, overlapped, timer, workerVars>>

\* The except branch: START_FAILED, stop(), and the error is raised.
StartFailed(c) ==
  /\ At(c, "start.failed")
  /\ SetState("START_FAILED")
  /\ call' = [call EXCEPT ![c] = [@ EXCEPT !.pc = "stop", !.then = "raised"]]
  /\ UNCHANGED <<faulted, calls, overlapped, timerVars, workerVars>>

-----------------------------------------------------------------------------
(***************************************************************************)
(* stop()                                                                  *)
(***************************************************************************)

Stop(c) ==
  /\ At(c, "stop")
  /\ IF state \in {"STOPPED", "STOPPING"} THEN StopReturns(c) ELSE Goto(c, "stop.state")
  /\ UNCHANGED <<lifecycleVars, calls, overlapped, timerVars, workerVars>>

OnlyRunning == {"RUNNING"}

AlsoNew == {"RUNNING", "START_FAILED", "NEW"}

\* The states in which stop() shuts the service down.
Stoppable == {"RUNNING", "START_FAILED"}

StopChecksState(c) ==
  /\ At(c, "stop.state")
  /\ \/ /\ state \in Stoppable
        /\ call' = [call EXCEPT ![c] = [@ EXCEPT !.pc = "stopping", !.startFailed = (state = "START_FAILED")]]
        /\ UNCHANGED faulted
     \/ /\ state = "NEW"
        /\ Goto(c, "stop.new")
        /\ UNCHANGED faulted
     \/ /\ state = "STARTING"
        /\ Goto(c, "raised")
        /\ faulted' = TRUE
     \/ /\ state \notin Stoppable \cup {"NEW", "STARTING"}
        /\ StopReturns(c)
        /\ UNCHANGED faulted
  /\ UNCHANGED <<state, runningEvent, stoppedEvent, calls, overlapped, timerVars, workerVars>>

StopNew(c) ==
  /\ At(c, "stop.new")
  /\ SetState("STOPPED")
  /\ StopReturns(c)
  /\ UNCHANGED <<faulted, calls, overlapped, timerVars, workerVars>>

Stopping(c) ==
  /\ At(c, "stopping")
  /\ SetState("STOPPING")
  /\ Goto(c, "stop.hook")
  /\ UNCHANGED <<faulted, calls, overlapped, timerVars, workerVars>>

\* Failed starts and failed stops end the lifecycle stream.
FaultsAfterStop(c, raises) == faulted \/ raises \/ call[c].startFailed

\* _stop() succeeds or raises; the service is STOPPED either way.
StopHook(c) ==
  /\ At(c, "stop.hook")
  /\ SetState("STOPPED")
  /\ \E raises \in BOOLEAN :
       /\ faulted' = FaultsAfterStop(c, raises)
       /\ call' = [call EXCEPT ![c] = [@ EXCEPT !.pc = "stop.cancel", !.then = IF raises THEN "raised" ELSE call[c].then]]
  /\ UNCHANGED <<calls, overlapped, timerVars, workerVars>>

\* finally: the timer in the field, and only that one, is cancelled.
CancelTimer(c) ==
  /\ At(c, "stop.cancel")
  /\ timers' = IF timer = NoTimer THEN timers
               ELSE [timers EXCEPT ![timer] =
                       IF @.phase = "created" THEN [@ EXCEPT !.phase = "cancelled"]
                       ELSE IF @.phase = "armed" THEN Dead ELSE @]
  /\ StopReturns(c)
  /\ UNCHANGED <<lifecycleVars, calls, overlapped, timer, workerVars>>

-----------------------------------------------------------------------------
(***************************************************************************)
(* restart()                                                               *)
(***************************************************************************)

Restart(c) ==
  /\ At(c, "restart")
  /\ call' = IF state = "RUNNING"
             THEN [call EXCEPT ![c] = [@ EXCEPT !.pc = "stop", !.then = "restart.state"]]
             ELSE [call EXCEPT ![c].pc = "restart.state"]
  /\ UNCHANGED <<lifecycleVars, calls, overlapped, timerVars, workerVars>>

RestartChecksState(c) ==
  /\ At(c, "restart.state")
  /\ Goto(c, IF state \in {"STOPPED", "NEW"} THEN "start" ELSE "restart.await")
  /\ UNCHANGED <<lifecycleVars, calls, overlapped, timerVars, workerVars>>

RestartAwaitsStopped(c) ==
  /\ At(c, "restart.await")
  /\ stoppedEvent
  /\ Goto(c, "start")
  /\ UNCHANGED <<lifecycleVars, calls, overlapped, timerVars, workerVars>>

-----------------------------------------------------------------------------
(***************************************************************************)
(* Threads of the service: the timers' callbacks and the workers.          *)
(***************************************************************************)

\* A Timer's interval is over: its thread executes the health check.
TimerFires(t) ==
  /\ timers[t].phase = "armed"
  /\ timers' = [timers EXCEPT ![t].phase = "executing"]
  /\ UNCHANGED <<lifecycleVars, call, calls, overlapped, timer, workerVars>>

\* The result is published; a new Timer for the same health check is created ...
TimerReschedules(t) ==
  /\ timers[t].phase = "executing"
  /\ NewTimer(timers[t].check, [timers EXCEPT ![t].phase = "rescheduling"])
  /\ UNCHANGED <<lifecycleVars, call, calls, overlapped, workerVars>>

\* ... and started; if it cannot be, the thread of the callback ends in an error.
TimerStartsNext(t) ==
  /\ timers[t].phase = "rescheduling"
  /\ timers' = [TimersAfterStart EXCEPT ![t] = Dead]
  /\ UNCHANGED <<lifecycleVars, call, calls, overlapped, timer, workerVars>>

\* The worker leaves its loop if it finds _stopped_event set, or goes on.
WorkerPolls(w) ==
  /\ w \in workers
  /\ workers' = IF stoppedEvent THEN workers \ {w} ELSE workers
  /\ UNCHANGED <<lifecycleVars, call, calls, overlapped, timerVars, started>>

-----------------------------------------------------------------------------
Call(c) ==
  /\ At(c, "idle")
  /\ calls < MaxCalls
  /\ calls' = calls + 1
  /\ Overlaps(c)
  /\ \E op \in Operations :
       call' = [call EXCEPT ![c] = [pc |-> op, then |-> "return", startFailed |-> FALSE, check |-> 1]]
  /\ UNCHANGED <<lifecycleVars, timerVars, workerVars>>

\* The caller catches the error.
Catch(c) ==
  /\ At(c, "raised")
  /\ Goto(c, "idle")
  /\ UNCHANGED <<lifecycleVars, calls, overlapped, timerVars, workerVars>>

Step(c) ==
  \/ Start(c) \/ StartChecksState(c) \/ Starting(c) \/ StartHook(c) \/ Running(c)
  \/ Schedule(c) \/ ScheduleStarts(c) \/ StartFailed(c)
  \/ Stop(c) \/ StopChecksState(c) \/ StopNew(c) \/ Stopping(c) \/ StopHook(c) \/ CancelTimer(c)
  \/ Restart(c) \/ RestartChecksState(c) \/ RestartAwaitsStopped(c)

Background ==
  \/ \E t \in Timers : TimerFires(t) \/ TimerReschedules(t) \/ TimerStartsNext(t)
  \/ \E w \in 1 .. MaxCalls : WorkerPolls(w)

\* No call is under way but those of restart() that wait for another thread to
\* stop the service: it may be left alone for ever.
Quiescent ==
  /\ \A c \in Callers : At(c, "idle") \/ At(c, "restart.await")
  /\ UNCHANGED vars

Next ==
  \/ \E c \in Callers : Call(c) \/ Step(c) \/ Catch(c)
  \/ Background
  \/ Quiescent

Spec == Init /\ [][Next]_vars

-----------------------------------------------------------------------------
(***************************************************************************)
(* Properties.                                                             *)
(***************************************************************************)
Idle == \A c \in Callers : At(c, "idle")

\* The documented lifecycle: NEW -> STARTING -> RUNNING -> STOPPING -> STOPPED,
\* a stopped service can be started again, a start that fails stops the service.
Lifecycle ==
  {<<"NEW", "STARTING">>, <<"STARTING", "RUNNING">>, <<"RUNNING", "STOPPING">>,
   <<"STOPPING", "STOPPED">>, <<"STOPPED", "STARTING">>, <<"NEW", "STOPPED">>,
   <<"STARTING", "START_FAILED">>, <<"RUNNING", "START_FAILED">>, <<"START_FAILED", "STOPPING">>}

\* As long as one call is over before the next begins, no step takes the service along
\* a path the documentation does not show; in particular one that is STARTING or
\* RUNNING is never started a second time.
FollowsLifecycle ==
  [][~overlapped => state' = state \/ <<state, state'>> \in Lifecycle]_vars

\* Whatever the interleaving of the calls, the service does not stay in a state
\* that only a call under way would leave: once the calls are over (or wait for
\* stopped) it can be started or stopped again.
SettlesDown ==
  (\A c \in Callers : At(c, "idle") \/ At(c, "restart.await"))
    => state \in {"NEW", "RUNNING", "STOPPED"}

\* When no call is under way, what await_running and await_stopped wait for
\* agrees with the state, whichever calls failed before, unless calls have overlapped.
EventsTellTheState ==
  Idle /\ ~overlapped => (runningEvent <=> state = "RUNNING") /\ (stoppedEvent <=> state = "STOPPED")

\* A running service has the worker of its latest start: the worker does not
\* take the stop of an earlier run for its own, unless calls have overlapped.
RunningHasWorker == HasWorker /\ ~overlapped /\ state = "RUNNING" => started \in workers

-----------------------------------------------------------------------------
Fairness ==
  /\ \A c \in Callers : WF_vars(Step(c)) /\ WF_vars(Catch(c))
  /\ \A w \in 1 .. MaxCalls : WF_vars(WorkerPolls(w))

FairSpec == Spec /\ Fairness

\* A service that stays stopped ends up without worker threads.
StoppedServiceIsQuiet == <>[](state = "STOPPED") => <>[](workers = {})

=============================================================================
