----------------------- MODULE ServiceLifecycleProofs -----------------------
(***************************************************************************)
(* For any number of callers, health checks, timers and calls: the types   *)
(* of ServiceLifecycle, SettlesDown, and what holds while calls do not     *)
(* overlap: FollowsLifecycle, EventsTellTheState and RunningHasWorker.     *)
(*                                                                         *)
(* SettlesDown speaks of the moments when no call is under way; what holds *)
(* at every moment is that each passing state has a thread which is about  *)
(* to take the service out of it, whatever the other threads do.  The      *)
(* other three need to know where a call that is alone finds the service.  *)
(***************************************************************************)
EXTENDS ServiceLifecycle, TLAPS

Passing == {"STARTING", "START_FAILED", "STOPPING"}

\* Where a thread is that is about to take the service out of a passing state.
Leavers(s) ==
  IF s = "STARTING" THEN {"start.hook", "running", "start.failed"}
  ELSE IF s = "START_FAILED" THEN {"stop", "stop.state", "stopping"}
  ELSE {"stop.hook"}

SomebodyLeaves ==
  state \in Passing => \E c \in Callers : call[c].pc \in Leavers(state)

IInv == TypeOK /\ SomebodyLeaves

-----------------------------------------------------------------------------
\* Types.

LEMMA InitTypes == Init => TypeOK
<1> SUFFICES ASSUME Init PROVE TypeOK
  OBVIOUS
<1>1. call \in [Callers -> [pc : Steps, then : Continuations, startFailed : BOOLEAN, check : Nat]]
  BY DEF Init, Steps, Operations, Continuations
<1>2. timers \in [Timers -> [check : Nat, phase : TimerPhases]]
  BY DEF Init, TimerPhases, Dead
<1>3. runningEvent \in BOOLEAN /\ stoppedEvent \in BOOLEAN /\ faulted \in BOOLEAN
      /\ overlapped \in BOOLEAN
  BY Zenon DEF Init
<1>4. state \in ServiceLifecycleState /\ calls \in 0 .. MaxCalls /\ timer \in Timers \cup {NoTimer}
      /\ started \in Nat /\ workers \subseteq 1 .. started
  BY LifecycleAssumption DEF LifecycleAssumption, Init, ServiceLifecycleState
<1>5. QED
  BY <1>1, <1>2, <1>3, <1>4 DEF TypeOK

CallType == [pc : Steps, then : Continuations, startFailed : BOOLEAN, check : Nat]
TimerType == [check : Nat, phase : TimerPhases]

LEMMA NewTimerTypes ==
  ASSUME TypeOK, NEW h \in Nat, NEW ts \in [Timers -> TimerType], NewTimer(h, ts)
  PROVE  timer' \in Timers \cup {NoTimer} /\ timers' \in [Timers -> TimerType]
BY DEF NewTimer, TypeOK, TimerType, TimerPhases, Dead

LEMMA StartedTimerTypes ==
  ASSUME TypeOK
  PROVE  TimersAfterStart \in [Timers -> TimerType]
BY DEF TimersAfterStart, CanStartTimer, TypeOK, TimerType, TimerPhases, Dead

\* What a thread remembers may be replaced by anything of the same type.
LEMMA CallUpdate ==
  ASSUME call \in [Callers -> CallType], NEW c \in Callers, NEW r \in CallType,
         call' = [call EXCEPT ![c] = r]
  PROVE  call' \in [Callers -> CallType]
OBVIOUS

LEMMA CallThen ==
  ASSUME TypeOK, NEW c \in Callers, NEW p \in Steps, NEW t \in Continuations
  PROVE  [call[c] EXCEPT !.pc = p, !.then = t] \in CallType
BY DEF TypeOK, CallType

LEMMA CallFails ==
  ASSUME TypeOK, NEW c \in Callers, NEW p \in Steps, NEW f \in BOOLEAN
  PROVE  [call[c] EXCEPT !.pc = p, !.startFailed = f] \in CallType
BY DEF TypeOK, CallType

\* What thread c remembers stays in its type ...
LEMMA StepCallTypes ==
  ASSUME TypeOK, NEW c \in Callers, Step(c)
  PROVE  call' \in [Callers -> CallType]
<1> USE DEF Steps, Operations, Continuations, At, Goto, StopReturns
<1>0. call \in [Callers -> CallType]
  BY DEF TypeOK, CallType
<1>1. CASE Start(c)
  BY <1>0, <1>1 DEF Start, CallType
<1>2. CASE StartChecksState(c)
  BY <1>0, <1>2 DEF StartChecksState, CallType
<1>3. CASE Starting(c)
  BY <1>0, <1>3 DEF Starting, CallType
<1>4. CASE StartHook(c)
  BY <1>0, <1>4 DEF StartHook, CallType
<1>5. CASE Running(c)
  BY <1>0, <1>5 DEF Running, CallType
<1>6. CASE Schedule(c)
  BY <1>0, <1>6 DEF Schedule, CallType
<1>7. CASE ScheduleStarts(c)
  <2>1. CASE CanStartTimer
    <3>1. [call[c] EXCEPT !.pc = "schedule", !.check = call[c].check + 1] \in CallType
      <4>1. call[c] \in CallType
        BY <1>0
      <4>2. call[c].check + 1 \in Nat
        BY <4>1 DEF CallType
      <4>3. QED
        BY <4>1, <4>2 DEF CallType
    <3>2. call' = [call EXCEPT ![c] = [call[c] EXCEPT !.pc = "schedule", !.check = call[c].check + 1]]
      BY <1>7, <2>1, Zenon DEF ScheduleStarts
    <3>3. QED
      BY <3>1, <3>2, <1>0, CallUpdate
  <2>2. CASE ~CanStartTimer
    BY <1>7, <2>2, <1>0 DEF ScheduleStarts, CallType
  <2>3. QED
    BY <2>1, <2>2
<1>8. CASE StartFailed(c)
  BY <1>0, <1>8 DEF StartFailed, CallType
<1>9. CASE Stop(c)
  BY <1>0, <1>9 DEF Stop, CallType
<1>10. CASE StopChecksState(c)
  <2>1. CASE state \in Stoppable
    <3>1. (state = "START_FAILED") \in BOOLEAN
      BY Zenon
    <3>2. [call[c] EXCEPT !.pc = "stopping", !.startFailed = (state = "START_FAILED")] \in CallType
      BY <3>1, CallFails
    <3>3. \/ call' = [call EXCEPT ![c] = [call[c] EXCEPT !.pc = "stopping",
                                                    !.startFailed = (state = "START_FAILED")]]
          \/ call' = [call EXCEPT ![c].pc = "stop.new"]
          \/ call' = [call EXCEPT ![c].pc = "raised"]
      BY <1>10, <2>1, Zenon DEF StopChecksState, Stoppable
    <3>4. CASE call' = [call EXCEPT ![c] = [call[c] EXCEPT !.pc = "stopping",
                                                    !.startFailed = (state = "START_FAILED")]]
      BY <3>2, <3>4, <1>0, CallUpdate
    <3>5. CASE \/ call' = [call EXCEPT ![c].pc = "stop.new"]
               \/ call' = [call EXCEPT ![c].pc = "raised"]
      BY <3>5, <1>0 DEF CallType
    <3>6. QED
      BY <3>3, <3>4, <3>5
  <2>2. CASE state \notin Stoppable
    BY <1>10, <2>2, <1>0 DEF StopChecksState, CallType
  <2>3. QED
    BY <2>1, <2>2
<1>11. CASE StopNew(c)
  BY <1>0, <1>11 DEF StopNew, CallType
<1>12. CASE Stopping(c)
  BY <1>0, <1>12 DEF Stopping, CallType
<1>13. CASE StopHook(c)
  <2>1. PICK raises \in BOOLEAN :
          call' = [call EXCEPT ![c] = [call[c] EXCEPT !.pc = "stop.cancel",
                                        !.then = IF raises THEN "raised" ELSE call[c].then]]
    BY <1>13 DEF StopHook
  <2>2. (IF raises THEN "raised" ELSE call[c].then) \in Continuations
    BY <1>0 DEF CallType
  <2>3. QED
    BY <1>0, <2>1, <2>2, CallThen, CallUpdate
<1>14. CASE CancelTimer(c)
  BY <1>0, <1>14 DEF CancelTimer, CallType
<1>15. CASE Restart(c)
  <2>1. CASE state = "RUNNING"
    BY <1>15, <2>1, <1>0, CallThen, CallUpdate DEF Restart
  <2>2. CASE state # "RUNNING"
    BY <1>15, <2>2, <1>0 DEF Restart, CallType
  <2>3. QED
    BY <2>1, <2>2
<1>16. CASE RestartChecksState(c)
  BY <1>0, <1>16 DEF RestartChecksState, CallType
<1>17. CASE RestartAwaitsStopped(c)
  BY <1>0, <1>17 DEF RestartAwaitsStopped, CallType
<1>18. QED
  BY <1>1, <1>2, <1>3, <1>4, <1>5, <1>6, <1>7, <1>8, <1>9, <1>10, <1>11, <1>12, <1>13, <1>14, <1>15, <1>16, <1>17 DEF Step

\* ... and so does the rest of the state.
LEMMA StepTypes ==
  ASSUME TypeOK, NEW c \in Callers, Step(c)
  PROVE  TypeOK'
<1> USE DEF lifecycleVars, timerVars, workerVars
<1>0. call' \in [Callers -> CallType]
  BY StepCallTypes
<1>1. CASE Start(c)
  BY <1>0, <1>1 DEF Start, CallType, TypeOK
<1>2. CASE StartChecksState(c)
  <2>1. faulted' \in BOOLEAN
    BY <1>2, Zenon DEF StartChecksState, TypeOK
  <2>2. QED
    BY <1>0, <1>2, <2>1 DEF StartChecksState, CallType, TypeOK
<1>3. CASE Starting(c)
  BY <1>0, <1>3 DEF Starting, CallType, TypeOK, SetState, StoppedEventAfter, RunningEventAfter, ServiceLifecycleState
<1>4. CASE StartHook(c)
  <2>1. started' \in Nat /\ workers' \subseteq 1 .. started'
    <3>1. \/ started' = started + 1 /\ workers' = workers \cup {started + 1}
          \/ started' = started /\ workers' = workers
      BY <1>4, Zenon DEF StartHook
    <3>2. started \in Nat /\ workers \subseteq 1 .. started
      BY DEF TypeOK
    <3>3. started + 1 \in Nat /\ 1 .. started \subseteq 1 .. started + 1
      BY <3>2
    <3>4. started + 1 \in 1 .. started + 1
      BY <3>2
    <3>5. CASE started' = started + 1 /\ workers' = workers \cup {started + 1}
      <4>1. workers' \subseteq 1 .. started + 1
        BY <3>2, <3>3, <3>4, <3>5
      <4>2. QED
        BY <3>3, <3>5, <4>1
    <3>6. CASE started' = started /\ workers' = workers
      BY <3>2, <3>6
    <3>7. QED
      BY <3>1, <3>5, <3>6
  <2>2. QED
    BY <1>0, <1>4, <2>1 DEF StartHook, CallType, TypeOK
<1>5. CASE Running(c)
  BY <1>0, <1>5 DEF Running, CallType, TypeOK, SetState, StoppedEventAfter, RunningEventAfter, ServiceLifecycleState
<1>6. CASE Schedule(c)
  <2>1. call[c].check \in Nat /\ timers \in [Timers -> TimerType]
    BY DEF TypeOK, TimerType
  <2>2. timer' \in Timers \cup {NoTimer} /\ timers' \in [Timers -> TimerType]
    <3>1. CASE call[c].check > Checks
      BY <1>6, <2>1, <3>1 DEF Schedule, TypeOK
    <3>2. CASE ~(call[c].check > Checks)
      BY <1>6, <2>1, <3>2, NewTimerTypes DEF Schedule
    <3>3. QED
      BY <3>1, <3>2
  <2>3. QED
    BY <1>0, <1>6, <2>2 DEF Schedule, CallType, TimerType, TypeOK
<1>7. CASE ScheduleStarts(c)
  <2>1. timers' \in [Timers -> TimerType]
    BY <1>7, StartedTimerTypes DEF ScheduleStarts
  <2>2. QED
    BY <1>0, <1>7, <2>1 DEF ScheduleStarts, CallType, TimerType, TypeOK
<1>8. CASE StartFailed(c)
  BY <1>0, <1>8 DEF StartFailed, CallType, TypeOK, SetState, StoppedEventAfter, RunningEventAfter, ServiceLifecycleState
<1>9. CASE Stop(c)
  BY <1>0, <1>9 DEF Stop, CallType, TypeOK
<1>10. CASE StopChecksState(c)
  <2>1. faulted' \in BOOLEAN
    BY <1>10, Zenon DEF StopChecksState, TypeOK
  <2>2. QED
    BY <1>0, <1>10, <2>1 DEF StopChecksState, CallType, TypeOK
<1>11. CASE StopNew(c)
  BY <1>0, <1>11 DEF StopNew, CallType, TypeOK, SetState, StoppedEventAfter, RunningEventAfter, ServiceLifecycleState
<1>12. CASE Stopping(c)
  BY <1>0, <1>12 DEF Stopping, CallType, TypeOK, SetState, StoppedEventAfter, RunningEventAfter, ServiceLifecycleState
<1>13. CASE StopHook(c)
  <2>1. faulted' \in BOOLEAN
    BY <1>13, Zenon DEF StopHook, TypeOK, FaultsAfterStop
  <2>2. QED
    BY <1>0, <1>13, <2>1 DEF StopHook, CallType, TypeOK, SetState, StoppedEventAfter, RunningEventAfter, ServiceLifecycleState
<1>14. CASE CancelTimer(c)
  BY <1>0, <1>14 DEF CancelTimer, CallType, TypeOK, TimerPhases, Dead
<1>15. CASE Restart(c)
  BY <1>0, <1>15 DEF Restart, CallType, TypeOK
<1>16. CASE RestartChecksState(c)
  BY <1>0, <1>16 DEF RestartChecksState, CallType, TypeOK
<1>17. CASE RestartAwaitsStopped(c)
  BY <1>0, <1>17 DEF RestartAwaitsStopped, CallType, TypeOK
<1>18. QED
  BY <1>1, <1>2, <1>3, <1>4, <1>5, <1>6, <1>7, <1>8, <1>9, <1>10, <1>11, <1>12, <1>13, <1>14, <1>15, <1>16, <1>17 DEF Step

-----------------------------------------------------------------------------
\* A thread's step changes what that thread remembers only.
LEMMA StepIsLocal ==
  ASSUME TypeOK, NEW c \in Callers, Step(c)
  PROVE  \A d \in Callers \ {c} : call'[d] = call[d]
BY DEF TypeOK, Step, Start, StartChecksState, Starting, StartHook, Running, Schedule, ScheduleStarts, StartFailed, Stop, StopChecksState, StopNew, Stopping, StopHook, CancelTimer, Restart, RestartChecksState, RestartAwaitsStopped, Goto, StopReturns

\* A step that does not change the state leaves somebody to leave it, unless the
\* thread that takes it was the one and gives up.
LEMMA StillLeft ==
  ASSUME SomebodyLeaves, NEW c \in Callers, UNCHANGED state,
         \A d \in Callers \ {c} : call'[d] = call[d],
         call[c].pc \in Leavers(state) /\ state \in Passing => call'[c].pc \in Leavers(state)
  PROVE  SomebodyLeaves'
BY DEF SomebodyLeaves, Leavers

\* A step that changes the state leaves its own thread to leave it.
LEMMA NewlyLeft ==
  ASSUME NEW c \in Callers, state' \in Passing => call'[c].pc \in Leavers(state')
  PROVE  SomebodyLeaves'
BY DEF SomebodyLeaves, Leavers

LEMMA StepLeaves ==
  ASSUME TypeOK, SomebodyLeaves, NEW c \in Callers, Step(c)
  PROVE  SomebodyLeaves'
<1>0. /\ call \in [Callers -> CallType]
      /\ \A d \in Callers \ {c} : call'[d] = call[d]
  BY StepIsLocal DEF TypeOK, CallType
<1>1. CASE Start(c)
  <2>1. UNCHANGED state
    BY <1>1 DEF Start, lifecycleVars
  <2>2. call[c].pc \in Leavers(state) /\ state \in Passing => call'[c].pc \in Leavers(state)
    BY <1>0, <1>1 DEF Start, At, Goto, Passing, Leavers, CallType
  <2>3. QED
    BY <1>0, <2>1, <2>2, StillLeft
<1>2. CASE StartChecksState(c)
  <2>1. UNCHANGED state
    BY <1>2 DEF StartChecksState, lifecycleVars
  <2>2. call[c].pc \in Leavers(state) /\ state \in Passing => call'[c].pc \in Leavers(state)
    BY <1>0, <1>2 DEF StartChecksState, At, Goto, Passing, Leavers, CallType
  <2>3. QED
    BY <1>0, <2>1, <2>2, StillLeft
<1>3. CASE Starting(c)
  <2>1. state' \in Passing => call'[c].pc \in Leavers(state')
    BY <1>0, <1>3 DEF Starting, Goto, SetState, Passing, Leavers, CallType
  <2>2. QED
    BY <2>1, NewlyLeft
<1>4. CASE StartHook(c)
  <2>1. UNCHANGED state
    BY <1>4 DEF StartHook, lifecycleVars
  <2>2. call[c].pc \in Leavers(state) /\ state \in Passing => call'[c].pc \in Leavers(state)
    BY <1>0, <1>4 DEF StartHook, At, Goto, Passing, Leavers, CallType
  <2>3. QED
    BY <1>0, <2>1, <2>2, StillLeft
<1>5. CASE Running(c)
  <2>1. state' \in Passing => call'[c].pc \in Leavers(state')
    BY <1>0, <1>5 DEF Running, Goto, SetState, Passing, Leavers, CallType
  <2>2. QED
    BY <2>1, NewlyLeft
<1>6. CASE Schedule(c)
  <2>1. UNCHANGED state
    BY <1>6 DEF Schedule, lifecycleVars
  <2>2. call[c].pc \in Leavers(state) /\ state \in Passing => call'[c].pc \in Leavers(state)
    BY <1>0, <1>6 DEF Schedule, At, Goto, Passing, Leavers, CallType
  <2>3. QED
    BY <1>0, <2>1, <2>2, StillLeft
<1>7. CASE ScheduleStarts(c)
  <2>1. UNCHANGED state
    BY <1>7 DEF ScheduleStarts, lifecycleVars
  <2>2. call[c].pc \in Leavers(state) /\ state \in Passing => call'[c].pc \in Leavers(state)
    BY <1>0, <1>7 DEF ScheduleStarts, At, Goto, Passing, Leavers, CallType
  <2>3. QED
    BY <1>0, <2>1, <2>2, StillLeft
<1>8. CASE StartFailed(c)
  <2>1. state' \in Passing => call'[c].pc \in Leavers(state')
    BY <1>0, <1>8 DEF StartFailed, Goto, SetState, Passing, Leavers, CallType
  <2>2. QED
    BY <2>1, NewlyLeft
<1>9. CASE Stop(c)
  <2>1. UNCHANGED state
    BY <1>9 DEF Stop, lifecycleVars
  <2>2. call[c].pc \in Leavers(state) /\ state \in Passing => call'[c].pc \in Leavers(state)
    BY <1>0, <1>9 DEF Stop, At, Goto, Passing, Leavers, CallType, Stoppable, StopReturns
  <2>3. QED
    BY <1>0, <2>1, <2>2, StillLeft
<1>10. CASE StopChecksState(c)
  <2>1. UNCHANGED state
    BY <1>10 DEF StopChecksState, lifecycleVars
  <2>2. call[c].pc \in Leavers(state) /\ state \in Passing => call'[c].pc \in Leavers(state)
    BY <1>0, <1>10 DEF StopChecksState, At, Goto, Passing, Leavers, CallType, Stoppable, StopReturns
  <2>3. QED
    BY <1>0, <2>1, <2>2, StillLeft
<1>11. CASE StopNew(c)
  <2>1. state' \in Passing => call'[c].pc \in Leavers(state')
    BY <1>0, <1>11 DEF StopNew, Goto, SetState, Passing, Leavers, CallType
  <2>2. QED
    BY <2>1, NewlyLeft
<1>12. CASE Stopping(c)
  <2>1. state' \in Passing => call'[c].pc \in Leavers(state')
    BY <1>0, <1>12 DEF Stopping, Goto, SetState, Passing, Leavers, CallType
  <2>2. QED
    BY <2>1, NewlyLeft
<1>13. CASE StopHook(c)
  <2>1. state' \in Passing => call'[c].pc \in Leavers(state')
    BY <1>0, <1>13 DEF StopHook, Goto, SetState, Passing, Leavers, CallType
  <2>2. QED
    BY <2>1, NewlyLeft
<1>14. CASE CancelTimer(c)
  <2>1. UNCHANGED state
    BY <1>14 DEF CancelTimer, lifecycleVars
  <2>2. call[c].pc \in Leavers(state) /\ state \in Passing => call'[c].pc \in Leavers(state)
    BY <1>0, <1>14 DEF CancelTimer, At, Goto, Passing, Leavers, CallType
  <2>3. QED
    BY <1>0, <2>1, <2>2, StillLeft
<1>15. CASE Restart(c)
  <2>1. UNCHANGED state
    BY <1>15 DEF Restart, lifecycleVars
  <2>2. call[c].pc \in Leavers(state) /\ state \in Passing => call'[c].pc \in Leavers(state)
    BY <1>0, <1>15 DEF Restart, At, Goto, Passing, Leavers, CallType
  <2>3. QED
    BY <1>0, <2>1, <2>2, StillLeft
<1>16. CASE RestartChecksState(c)
  <2>1. UNCHANGED state
    BY <1>16 DEF RestartChecksState, lifecycleVars
  <2>2. call[c].pc \in Leavers(state) /\ state \in Passing => call'[c].pc \in Leavers(state)
    BY <1>0, <1>16 DEF RestartChecksState, At, Goto, Passing, Leavers, CallType
  <2>3. QED
    BY <1>0, <2>1, <2>2, StillLeft
<1>17. CASE RestartAwaitsStopped(c)
  <2>1. UNCHANGED state
    BY <1>17 DEF RestartAwaitsStopped, lifecycleVars
  <2>2. call[c].pc \in Leavers(state) /\ state \in Passing => call'[c].pc \in Leavers(state)
    BY <1>0, <1>17 DEF RestartAwaitsStopped, At, Goto, Passing, Leavers, CallType
  <2>3. QED
    BY <1>0, <2>1, <2>2, StillLeft
<1>18. QED
  BY <1>1, <1>2, <1>3, <1>4, <1>5, <1>6, <1>7, <1>8, <1>9, <1>10, <1>11, <1>12, <1>13, <1>14, <1>15, <1>16, <1>17 DEF Step

-----------------------------------------------------------------------------
\* The other actions: new calls, caught errors, callbacks and workers.
LEMMA OthersTypes ==
  ASSUME TypeOK, [Next]_vars, ~(\E c \in Callers : Step(c))
  PROVE  TypeOK' /\ UNCHANGED state
<1> USE DEF lifecycleVars, timerVars, workerVars
<1>0. call \in [Callers -> CallType] /\ timers \in [Timers -> TimerType]
  BY DEF TypeOK, CallType, TimerType
<1>1. ASSUME NEW c \in Callers, Call(c) PROVE TypeOK' /\ UNCHANGED state
  <2>1. calls' \in 0 .. MaxCalls
    <3>1. MaxCalls \in Nat /\ calls \in 0 .. MaxCalls /\ calls < MaxCalls /\ calls' = calls + 1
      BY <1>1, LifecycleAssumption DEF LifecycleAssumption, Call, TypeOK
    <3>2. QED
      BY <3>1
  <2>2. PICK op \in Operations :
          call' = [call EXCEPT ![c] = [pc |-> op, then |-> "return", startFailed |-> FALSE, check |-> 1]]
    BY <1>1 DEF Call
  <2>3. [pc |-> op, then |-> "return", startFailed |-> FALSE, check |-> 1] \in CallType
    BY DEF CallType, Steps, Continuations
  <2>4. call' \in [Callers -> CallType]
    BY <1>0, <2>2, <2>3, CallUpdate
  <2>5. overlapped' \in BOOLEAN
    BY <1>1, Zenon DEF Call, Overlaps
  <2>6. QED
    BY <1>1, <2>1, <2>4, <2>5 DEF Call, TypeOK, CallType
<1>2. ASSUME NEW c \in Callers, Catch(c) PROVE TypeOK' /\ UNCHANGED state
  BY <1>2 DEF Catch, Goto, TypeOK, Steps
<1>3. ASSUME NEW t \in Timers, TimerFires(t) PROVE TypeOK' /\ UNCHANGED state
  BY <1>3 DEF TimerFires, TypeOK, TimerPhases
<1>4. ASSUME NEW t \in Timers, TimerReschedules(t) PROVE TypeOK' /\ UNCHANGED state
  <2>1. timers[t].check \in Nat /\ [timers EXCEPT ![t].phase = "rescheduling"] \in [Timers -> TimerType]
    BY <1>0 DEF TimerType, TimerPhases
  <2>2. timer' \in Timers \cup {NoTimer} /\ timers' \in [Timers -> TimerType]
    BY <1>4, <2>1, NewTimerTypes DEF TimerReschedules
  <2>3. QED
    BY <1>4, <2>2 DEF TimerReschedules, TypeOK, TimerType
<1>5. ASSUME NEW t \in Timers, TimerStartsNext(t) PROVE TypeOK' /\ UNCHANGED state
  <2>1. timers' \in [Timers -> TimerType]
    BY <1>5, StartedTimerTypes DEF TimerStartsNext, TimerType, TimerPhases, Dead
  <2>2. QED
    BY <1>5, <2>1 DEF TimerStartsNext, TypeOK, TimerType
<1>6. ASSUME NEW w, WorkerPolls(w) PROVE TypeOK' /\ UNCHANGED state
  BY <1>6 DEF WorkerPolls, TypeOK
<1>7. CASE UNCHANGED vars
  BY <1>7 DEF vars, TypeOK
<1>8. QED
  BY <1>1, <1>2, <1>3, <1>4, <1>5, <1>6, <1>7 DEF Next, Background, Quiescent

LEMMA OthersLeave ==
  ASSUME TypeOK, SomebodyLeaves, [Next]_vars, ~(\E c \in Callers : Step(c))
  PROVE  SomebodyLeaves'
<1>0. UNCHANGED state
  BY OthersTypes
<1>1. ASSUME NEW c \in Callers, Call(c) \/ Catch(c) PROVE SomebodyLeaves'
  <2>1. /\ \A d \in Callers \ {c} : call'[d] = call[d]
        /\ call[c].pc \in {"idle", "raised"}
    BY <1>1 DEF Call, Catch, Goto, At, TypeOK
  <2>2. QED
    BY <1>0, <2>1, StillLeft DEF Leavers
<1>2. CASE UNCHANGED call
  BY <1>0, <1>2 DEF SomebodyLeaves
<1>3. QED
  BY <1>1, <1>2 DEF Next, Background, Quiescent, TimerFires, TimerReschedules, TimerStartsNext,
                    WorkerPolls, vars

-----------------------------------------------------------------------------
THEOREM SpecIInv == Spec => []IInv
<1>1. Init => IInv
  BY InitTypes DEF Init, IInv, SomebodyLeaves, Passing
<1>2. IInv /\ [Next]_vars => IInv'
  <2> SUFFICES ASSUME IInv, [Next]_vars PROVE IInv'
    OBVIOUS
  <2>1. CASE \E c \in Callers : Step(c)
    BY <2>1, StepTypes, StepLeaves DEF IInv
  <2>2. CASE ~(\E c \in Callers : Step(c))
    BY <2>2, OthersTypes, OthersLeave DEF IInv
  <2>3. QED
    BY <2>1, <2>2
<1>3. QED
  BY <1>1, <1>2, PTL DEF Spec

\* The types of the service, its calls, its timers and its workers.
THEOREM ServiceTypes == Spec => []TypeOK
<1>1. IInv => TypeOK
  BY DEF IInv
<1>2. QED
  BY <1>1, SpecIInv, PTL

\* However many threads call start(), stop() and restart() without a lock, the
\* service never stays STARTING, START_FAILED or STOPPING after they are gone.
THEOREM ServiceSettlesDown == Spec => []SettlesDown
<1>1. IInv => SettlesDown
  BY DEF IInv, TypeOK, ServiceLifecycleState, SomebodyLeaves, Passing, Leavers, SettlesDown, At
<1>2. QED
  BY <1>1, SpecIInv, PTL

-----------------------------------------------------------------------------
(***************************************************************************)
(* Calls one at a time.  As long as calls have not overlapped, the call    *)
(* that is under way finds the service in a state that its own steps have  *)
(* left it in.  Health checks go on meanwhile and may take the timer field *)
(* away from it, so a start can still fail after the service was RUNNING.  *)
(***************************************************************************)
Stable == {"NEW", "RUNNING", "STOPPED"}

\* The states in which the steps of a call that is alone find the service.
InPlace(c) ==
  /\ call[c].pc \in {"idle", "start", "restart"} => state \in Stable
  /\ call[c].pc \in {"start.state", "starting", "restart.state"} => state \in {"NEW", "STOPPED"}
  /\ call[c].pc \in {"start.hook", "running"} => state = "STARTING"
  /\ call[c].pc \in {"schedule", "schedule.start"} => state = "RUNNING"
  /\ call[c].pc = "start.failed" => state \in {"STARTING", "RUNNING"}
  /\ call[c].pc = "stop" => state \in Stable \cup {"START_FAILED"}
  /\ call[c].pc = "stop.state" => state \in {"NEW", "RUNNING", "START_FAILED"}
  /\ call[c].pc = "stop.new" => state = "NEW"
  /\ call[c].pc = "stopping" => state \in {"RUNNING", "START_FAILED"}
  /\ call[c].pc = "stop.hook" => state = "STOPPING"
  /\ call[c].pc \in {"stop.cancel", "raised"} => state = "STOPPED"
  /\ call[c].pc # "restart.await"

OneCall ==
  /\ \A c, d \in Callers : c # d => At(c, "idle") \/ At(d, "idle")
  /\ \A c \in Callers : ~At(c, "idle") => InPlace(c)
  /\ Idle => state \in Stable

EventsAgree ==
  /\ stoppedEvent <=> state = "STOPPED"
  /\ state = "RUNNING" => runningEvent
  /\ runningEvent => state \in {"RUNNING", "START_FAILED"}

WorkerLives ==
  HasWorker /\ (state = "RUNNING" \/ \E c \in Callers : At(c, "running")) => started \in workers

Alone == OneCall /\ EventsAgree /\ WorkerLives

AloneInv == ~overlapped => Alone

-----------------------------------------------------------------------------
LEMMA MoveFails ==
  ASSUME TypeOK, NEW c \in Callers, NEW p, NEW f,
         call' = [call EXCEPT ![c] = [call[c] EXCEPT !.pc = p, !.startFailed = f]]
  PROVE  call'[c].pc = p
BY DEF TypeOK

LEMMA MoveGoes ==
  ASSUME TypeOK, NEW c \in Callers, NEW p, call' = [call EXCEPT ![c].pc = p]
  PROVE  call'[c].pc = p
BY DEF TypeOK

LEMMA MoveChecks ==
  ASSUME TypeOK, NEW c \in Callers, NEW p, NEW h,
         call' = [call EXCEPT ![c] = [call[c] EXCEPT !.pc = p, !.check = h]]
  PROVE  call'[c].pc = p
BY DEF TypeOK

\* The steps of a call that is alone keep to the documented lifecycle.
LEMMA StepInPlace ==
  ASSUME TypeOK, NEW c \in Callers, Step(c), InPlace(c)
  PROVE  InPlace(c)' /\ (state' = state \/ <<state, state'>> \in Lifecycle)
<1> USE DEF At, lifecycleVars
<1>0. call \in [Callers -> CallType]
  BY DEF TypeOK, CallType
<1>1. CASE Start(c)
  BY <1>0, <1>1 DEF InPlace, Stable, Start, Goto, CallType
<1>2. CASE StartChecksState(c)
  BY <1>0, <1>2 DEF InPlace, Stable, StartChecksState, Goto, CallType
<1>3. CASE Starting(c)
  BY <1>0, <1>3 DEF InPlace, Stable, Starting, Goto, SetState, CallType, Lifecycle
<1>4. CASE StartHook(c)
  BY <1>0, <1>4 DEF InPlace, Stable, StartHook, Goto, CallType
<1>5. CASE Running(c)
  BY <1>0, <1>5 DEF InPlace, Stable, Running, Goto, SetState, CallType, Lifecycle
<1>6. CASE Schedule(c)
  BY <1>0, <1>6 DEF InPlace, Stable, Schedule, Goto, CallType
<1>7. CASE ScheduleStarts(c)
  <2>1. CASE CanStartTimer
    <3>1. call' = [call EXCEPT ![c] = [call[c] EXCEPT !.pc = "schedule", !.check = call[c].check + 1]]
      BY <1>7, <2>1, Zenon DEF ScheduleStarts
    <3>2. call'[c].pc = "schedule"
      BY <3>1, MoveChecks
    <3> QED BY <1>7, <3>2 DEF InPlace, ScheduleStarts
  <2>2. CASE ~CanStartTimer
    BY <1>0, <1>7, <2>2 DEF InPlace, ScheduleStarts, Goto, CallType
  <2> QED BY <2>1, <2>2
<1>8. CASE StartFailed(c)
  BY <1>0, <1>8 DEF InPlace, Stable, StartFailed, SetState, CallType, Lifecycle
<1>9. CASE Stop(c)
  BY <1>0, <1>9 DEF InPlace, Stable, Stop, Goto, StopReturns, CallType, Continuations
<1>10. CASE StopChecksState(c)
  <2>1. CASE state \in Stoppable
    <3>1. \/ \E f : call' = [call EXCEPT ![c] = [call[c] EXCEPT !.pc = "stopping", !.startFailed = f]]
          \/ call' = [call EXCEPT ![c].pc = "stop.new"] /\ state = "NEW"
          \/ call' = [call EXCEPT ![c].pc = "raised"] /\ state = "STARTING"
      BY <1>10, <2>1, Zenon DEF StopChecksState, Goto
    <3>2. call'[c].pc = "stopping"
      <4>1. state # "NEW" /\ state # "STARTING"
        BY <2>1 DEF Stoppable
      <4> QED BY <3>1, <4>1, MoveFails, Zenon
    <3> QED BY <1>10, <2>1, <3>2 DEF InPlace, StopChecksState, Stoppable
  <2>2. CASE state \notin Stoppable
    BY <1>0, <1>10, <2>2 DEF InPlace, Stable, StopChecksState, Stoppable, Goto, StopReturns, CallType, Continuations
  <2> QED BY <2>1, <2>2
<1>11. CASE StopNew(c)
  BY <1>0, <1>11 DEF InPlace, Stable, StopNew, SetState, StopReturns, CallType, Continuations, Lifecycle
<1>12. CASE Stopping(c)
  BY <1>0, <1>12 DEF InPlace, Stable, Stopping, Goto, SetState, CallType, Lifecycle
<1>13. CASE StopHook(c)
  BY <1>0, <1>13 DEF InPlace, Stable, StopHook, SetState, CallType, Lifecycle
<1>14. CASE CancelTimer(c)
  BY <1>0, <1>14 DEF InPlace, Stable, CancelTimer, StopReturns, CallType, Continuations
<1>15. CASE Restart(c)
  BY <1>0, <1>15 DEF InPlace, Stable, Restart, CallType
<1>16. CASE RestartChecksState(c)
  BY <1>0, <1>16 DEF InPlace, Stable, RestartChecksState, Goto, CallType
<1>17. CASE RestartAwaitsStopped(c)
  BY <1>0, <1>17 DEF InPlace, Stable, RestartAwaitsStopped, Goto, CallType
<1>18. QED
  BY <1>1, <1>2, <1>3, <1>4, <1>5, <1>6, <1>7, <1>8, <1>9, <1>10, <1>11, <1>12, <1>13, <1>14, <1>15, <1>16, <1>17 DEF Step

\* What a step does to the state and the events is one _set_state or nothing.
LEMMA StepSetsState ==
  ASSUME NEW c \in Callers, Step(c)
  PROVE  \/ UNCHANGED <<state, stoppedEvent, runningEvent>>
         \/ SetState("STARTING") /\ At(c, "starting")
         \/ SetState("RUNNING") /\ At(c, "running")
         \/ SetState("START_FAILED") /\ At(c, "start.failed")
         \/ SetState("STOPPED") /\ (At(c, "stop.new") \/ At(c, "stop.hook"))
         \/ SetState("STOPPING") /\ At(c, "stopping")
<1> USE DEF lifecycleVars
<1>1. CASE Start(c) \/ StartChecksState(c) \/ StartHook(c) \/ Schedule(c) \/ ScheduleStarts(c)
  BY <1>1 DEF Start, StartChecksState, StartHook, Schedule, ScheduleStarts
<1>2. CASE Stop(c) \/ StopChecksState(c) \/ CancelTimer(c) \/ Restart(c) \/ RestartChecksState(c) \/ RestartAwaitsStopped(c)
  BY <1>2 DEF Stop, StopChecksState, CancelTimer, Restart, RestartChecksState, RestartAwaitsStopped
<1>3. CASE Starting(c) \/ Running(c) \/ StartFailed(c) \/ StopNew(c) \/ Stopping(c) \/ StopHook(c)
  BY <1>3 DEF Starting, Running, StartFailed, StopNew, Stopping, StopHook
<1> QED BY <1>1, <1>2, <1>3 DEF Step

LEMMA StepEvents ==
  ASSUME TypeOK, EventsAgree, NEW c \in Callers, Step(c), InPlace(c)
  PROVE  EventsAgree'
<1>1. CASE UNCHANGED <<state, stoppedEvent, runningEvent>>
  BY <1>1 DEF EventsAgree
<1>2. CASE SetState("STARTING") /\ At(c, "starting")
  BY <1>2 DEF EventsAgree, InPlace, At, SetState, StoppedEventAfter, RunningEventAfter
<1>3. CASE SetState("RUNNING") /\ At(c, "running")
  BY <1>3 DEF EventsAgree, InPlace, At, SetState, StoppedEventAfter, RunningEventAfter
<1>4. CASE SetState("START_FAILED") /\ At(c, "start.failed")
  BY <1>4 DEF EventsAgree, InPlace, At, SetState, StoppedEventAfter, RunningEventAfter
<1>5. CASE SetState("STOPPED") /\ (At(c, "stop.new") \/ At(c, "stop.hook"))
  BY <1>5 DEF EventsAgree, InPlace, At, SetState, StoppedEventAfter, RunningEventAfter
<1>6. CASE SetState("STOPPING") /\ At(c, "stopping")
  BY <1>6 DEF EventsAgree, InPlace, At, SetState, StoppedEventAfter, RunningEventAfter
<1> QED BY <1>1, <1>2, <1>3, <1>4, <1>5, <1>6, StepSetsState

\* Only the start of a worker touches the workers.
LEMMA StepWorkers ==
  ASSUME TypeOK, NEW c \in Callers, Step(c)
  PROVE  \/ UNCHANGED <<started, workers>>
         \/ started' \in workers'
<1>1. CASE StartHook(c)
  BY <1>1 DEF StartHook, workerVars
<1>2. CASE ~StartHook(c)
  BY <1>2 DEF Step, Start, StartChecksState, Starting, Running, Schedule, ScheduleStarts, StartFailed, Stop, StopChecksState, StopNew, Stopping, StopHook, CancelTimer, Restart, RestartChecksState, RestartAwaitsStopped, workerVars
<1> QED BY <1>1, <1>2

\* A call comes to set RUNNING only by _start(), which has just started the worker.
LEMMA StepToRunning ==
  ASSUME TypeOK, NEW c \in Callers, Step(c), HasWorker
  PROVE  /\ call'[c].pc = "running" => started' \in workers'
         /\ state' = "RUNNING" => state = "RUNNING" \/ call[c].pc = "running"
<1>0. call \in [Callers -> CallType]
  BY DEF TypeOK, CallType
<1>1. state' = "RUNNING" => state = "RUNNING" \/ call[c].pc = "running"
  BY StepSetsState DEF SetState, At
<1>2. CASE StartHook(c)
  BY <1>0, <1>1, <1>2 DEF StartHook, Goto, CallType
<1>3. CASE ~StartHook(c)
  <2>1. CASE ScheduleStarts(c)
    <3>1. \/ call' = [call EXCEPT ![c] = [call[c] EXCEPT !.pc = "schedule", !.check = call[c].check + 1]]
          \/ call' = [call EXCEPT ![c].pc = "start.failed"]
      BY <2>1, Zenon DEF ScheduleStarts, Goto
    <3>2. call'[c].pc # "running"
      <4>1. call'[c].pc \in {"schedule", "start.failed"}
        BY <3>1, MoveChecks, MoveGoes, Zenon
      <4> QED BY <4>1
    <3> QED BY <1>1, <3>2
  <2>2. CASE StopChecksState(c)
    <3>1. \/ \E f : call' = [call EXCEPT ![c] = [call[c] EXCEPT !.pc = "stopping", !.startFailed = f]]
          \/ call' = [call EXCEPT ![c].pc = "stop.new"]
          \/ call' = [call EXCEPT ![c].pc = "raised"]
          \/ StopReturns(c)
      BY <2>2, Zenon DEF StopChecksState, Goto
    <3>2. CASE StopReturns(c)
      BY <1>0, <1>1, <3>2 DEF StopReturns, CallType, Continuations
    <3>3. CASE ~StopReturns(c)
      <4>1. call'[c].pc \in {"stopping", "stop.new", "raised"}
        BY <3>1, <3>3, MoveFails, MoveGoes, Zenon
      <4> QED BY <1>1, <4>1
    <3> QED BY <3>2, <3>3
  <2>3. CASE Start(c) \/ StartChecksState(c) \/ Starting(c) \/ Schedule(c)
    BY <1>0, <1>1, <2>3 DEF Start, StartChecksState, Starting, Schedule, Goto, CallType
  <2>4. CASE Running(c) \/ StartFailed(c) \/ Stopping(c) \/ StopHook(c)
    BY <1>0, <1>1, <2>4 DEF Running, StartFailed, Stopping, StopHook, Goto, CallType
  <2>5. CASE Stop(c) \/ StopNew(c) \/ CancelTimer(c)
    BY <1>0, <1>1, <2>5 DEF Stop, StopNew, CancelTimer, Goto, StopReturns, Continuations, CallType
  <2>6. CASE Restart(c) \/ RestartChecksState(c) \/ RestartAwaitsStopped(c)
    BY <1>0, <1>1, <2>6 DEF Restart, RestartChecksState, RestartAwaitsStopped, Goto, CallType
  <2> QED BY <1>3, <2>1, <2>2, <2>3, <2>4, <2>5, <2>6 DEF Step
<1> QED BY <1>2, <1>3

LEMMA StepNotIdle ==
  ASSUME NEW c \in Callers, Step(c)
  PROVE  ~At(c, "idle") /\ UNCHANGED overlapped
BY DEF At, Step, Start, StartChecksState, Starting, StartHook, Running, Schedule, ScheduleStarts, StartFailed, Stop, StopChecksState, StopNew, Stopping, StopHook, CancelTimer, Restart, RestartChecksState, RestartAwaitsStopped

LEMMA StepAlone ==
  ASSUME TypeOK, AloneInv, NEW c \in Callers, Step(c)
  PROVE  AloneInv' /\ (~overlapped => state' = state \/ <<state, state'>> \in Lifecycle)
<1> SUFFICES ASSUME ~overlapped
             PROVE  Alone' /\ (state' = state \/ <<state, state'>> \in Lifecycle)
  BY StepNotIdle DEF AloneInv
<1>1. Alone
  BY DEF AloneInv
<1>2. ~At(c, "idle") /\ InPlace(c) /\ \A d \in Callers \ {c} : At(d, "idle")
  BY <1>1, StepNotIdle DEF Alone, OneCall
<1>3. \A d \in Callers \ {c} : At(d, "idle")'
  BY <1>2, StepIsLocal DEF At
<1>4. InPlace(c)' /\ (state' = state \/ <<state, state'>> \in Lifecycle)
  BY <1>2, StepInPlace
<1>5. OneCall'
  <2>1. Idle' => state' \in Stable
    BY <1>4 DEF Idle, InPlace, At
  <2>2. \A d \in Callers : ~At(d, "idle")' => InPlace(d)'
    BY <1>3, <1>4
  <2>3. \A b, d \in Callers : b # d => At(b, "idle")' \/ At(d, "idle")'
    BY <1>3
  <2> QED BY <2>1, <2>2, <2>3 DEF OneCall
<1>6. EventsAgree'
  BY <1>1, <1>2, StepEvents DEF Alone
<1>7. WorkerLives'
  <2> SUFFICES ASSUME HasWorker, state' = "RUNNING" \/ \E d \in Callers : At(d, "running")'
               PROVE  started' \in workers'
    BY DEF WorkerLives
  <2>1. state' = "RUNNING" \/ At(c, "running")'
    BY <1>3 DEF At
  <2>2. CASE At(c, "running")'
    BY <2>2, StepToRunning DEF At
  <2>3. CASE state' = "RUNNING"
    <3>1. started \in workers
      BY <1>1, <2>3, StepToRunning DEF Alone, WorkerLives, At
    <3> QED BY <3>1, StepWorkers
  <2> QED BY <2>1, <2>2, <2>3
<1> QED BY <1>4, <1>5, <1>6, <1>7 DEF Alone

-----------------------------------------------------------------------------
\* A call that does not overlap another one finds the service at rest.
LEMMA CallAlone ==
  ASSUME TypeOK, AloneInv, NEW c \in Callers, Call(c)
  PROVE  AloneInv'
<1>1. PICK op \in Operations :
        call' = [call EXCEPT ![c] = [pc |-> op, then |-> "return", startFailed |-> FALSE, check |-> 1]]
  BY DEF Call
<1>2. /\ At(c, "idle") /\ Overlaps(c)
      /\ UNCHANGED <<state, runningEvent, stoppedEvent, started, workers>>
  BY DEF Call, lifecycleVars, workerVars
<1> SUFFICES ASSUME ~overlapped' PROVE Alone'
  BY DEF AloneInv
<1>3. ~overlapped /\ Idle
  BY <1>2 DEF Overlaps, Idle
<1>4. Alone /\ state \in Stable
  BY <1>3 DEF AloneInv, Alone, OneCall
<1>5. call'[c].pc = op /\ \A d \in Callers \ {c} : call'[d] = call[d]
  BY <1>1 DEF TypeOK
<1>6. \A d \in Callers \ {c} : At(d, "idle")'
  BY <1>3, <1>5 DEF At, Idle
<1>7. InPlace(c)'
  BY <1>2, <1>4, <1>5 DEF InPlace, Operations, Stable
<1>8. OneCall'
  <2>1. Idle' => state' \in Stable
    BY <1>2, <1>4
  <2>2. \A d \in Callers : ~At(d, "idle")' => InPlace(d)'
    BY <1>6, <1>7
  <2>3. \A b, d \in Callers : b # d => At(b, "idle")' \/ At(d, "idle")'
    BY <1>6
  <2> QED BY <2>1, <2>2, <2>3 DEF OneCall
<1>9. EventsAgree'
  BY <1>2, <1>4 DEF Alone, EventsAgree
<1>10. WorkerLives'
  <2>1. ~At(c, "running")'
    BY <1>5 DEF At, Operations
  <2>2. \A d \in Callers : ~At(d, "running")'
    BY <1>6, <2>1 DEF At
  <2> QED BY <1>2, <1>4, <2>2 DEF Alone, WorkerLives
<1> QED BY <1>8, <1>9, <1>10 DEF Alone

\* A caught error, a callback or a worker that goes on leaves the service as it is; a
\* worker leaves its loop only when the stopped event is set, in no state that needs it.
LEMMA OthersAlone ==
  ASSUME TypeOK, AloneInv, [Next]_vars, ~(\E c \in Callers : Step(c) \/ Call(c))
  PROVE  AloneInv'
<1>1. ASSUME NEW c \in Callers, Catch(c) PROVE AloneInv'
  <2>1. /\ At(c, "raised")
        /\ UNCHANGED <<state, runningEvent, stoppedEvent, overlapped, started, workers>>
        /\ call'[c].pc = "idle" /\ \A d \in Callers \ {c} : call'[d] = call[d]
    BY <1>1 DEF Catch, Goto, TypeOK, lifecycleVars, workerVars
  <2> SUFFICES ASSUME ~overlapped PROVE Alone'
    BY <2>1 DEF AloneInv
  <2>2. Alone
    BY DEF AloneInv
  <2>3. ~At(c, "idle")
    BY <2>1 DEF At
  <2>4. state = "STOPPED"
    BY <2>1, <2>2, <2>3 DEF Alone, OneCall, InPlace, At
  <2>5. \A d \in Callers : At(d, "idle")'
    BY <2>1, <2>2, <2>3 DEF Alone, OneCall, At
  <2>6. OneCall'
    BY <2>1, <2>4, <2>5 DEF OneCall, Stable
  <2>7. EventsAgree'
    BY <2>1, <2>2 DEF Alone, EventsAgree
  <2>8. WorkerLives'
    BY <2>1, <2>4, <2>5 DEF WorkerLives, At
  <2> QED BY <2>6, <2>7, <2>8 DEF Alone
<1>2. ASSUME NEW w, WorkerPolls(w) PROVE AloneInv'
  <2>1. /\ UNCHANGED <<state, runningEvent, stoppedEvent, overlapped, started, call>>
        /\ workers' = workers \/ stoppedEvent
    BY <1>2 DEF WorkerPolls, lifecycleVars
  <2> SUFFICES ASSUME ~overlapped PROVE Alone'
    BY <2>1 DEF AloneInv
  <2>2. Alone
    BY DEF AloneInv
  <2>3. OneCall'
    BY <2>1, <2>2 DEF Alone, OneCall, InPlace, Idle, At
  <2>4. EventsAgree'
    BY <2>1, <2>2 DEF Alone, EventsAgree
  <2>5. WorkerLives'
    <3>1. CASE workers' = workers
      BY <2>1, <2>2, <3>1 DEF Alone, WorkerLives, At
    <3>2. CASE stoppedEvent
      <4>1. state = "STOPPED"
        BY <2>2, <3>2 DEF Alone, EventsAgree
      <4>2. \A c \in Callers : ~At(c, "running")
        BY <2>2, <4>1 DEF Alone, OneCall, InPlace, At
      <4> QED BY <2>1, <4>1, <4>2 DEF WorkerLives, At
    <3> QED BY <2>1, <3>1, <3>2
  <2> QED BY <2>3, <2>4, <2>5 DEF Alone
<1>3. CASE UNCHANGED <<lifecycleVars, call, overlapped, workerVars>>
  BY <1>3 DEF AloneInv, Alone, OneCall, InPlace, Idle, EventsAgree, WorkerLives, At,
              lifecycleVars, workerVars
<1> QED
  BY <1>1, <1>2, <1>3 DEF Next, Background, Quiescent, TimerFires, TimerReschedules,
                          TimerStartsNext, vars

LEMMA InitAlone == Init => AloneInv
<1> SUFFICES ASSUME Init PROVE Alone
  BY DEF AloneInv
<1>1. OneCall
  BY DEF Init, OneCall, At, Stable
<1>2. EventsAgree
  BY DEF Init, EventsAgree
<1>3. WorkerLives
  BY DEF Init, WorkerLives, At
<1> QED BY <1>1, <1>2, <1>3 DEF Alone

LEMMA NextAlone ==
  ASSUME TypeOK, AloneInv, [Next]_vars
  PROVE  AloneInv' /\ (~overlapped => state' = state \/ <<state, state'>> \in Lifecycle)
<1>1. CASE \E c \in Callers : Step(c)
  BY <1>1, StepAlone
<1>2. CASE ~\E c \in Callers : Step(c)
  <2>1. UNCHANGED state
    BY <1>2, OthersTypes
  <2>2. CASE \E c \in Callers : Call(c)
    BY <2>1, <2>2, CallAlone
  <2>3. CASE ~\E c \in Callers : Call(c)
    BY <1>2, <2>1, <2>3, OthersAlone
  <2> QED BY <2>2, <2>3
<1> QED BY <1>1, <1>2

-----------------------------------------------------------------------------
\* As long as calls do not overlap, each finds the service where its own steps left it,
\* the events agree with the state, and the worker of the latest start lives.
THEOREM SpecAloneInv == Spec => []AloneInv
  BY InitAlone, NextAlone, ServiceTypes, PTL DEF Spec

\* Called from one thread at a time the service keeps to the documented lifecycle,
\* whatever fails and whatever the health checks do to the timer meanwhile.
THEOREM LifecycleIsFollowed == Spec => FollowsLifecycle
<1>1. TypeOK /\ AloneInv /\ [Next]_vars
        => [~overlapped => state' = state \/ <<state, state'>> \in Lifecycle]_vars
  BY NextAlone
<1> QED BY <1>1, ServiceTypes, SpecAloneInv, PTL DEF Spec, FollowsLifecycle

\* await_running and await_stopped wait for events that agree with the state.
THEOREM EventsAreTrue == Spec => []EventsTellTheState
<1>1. AloneInv => EventsTellTheState
  <2> SUFFICES ASSUME AloneInv, Idle, ~overlapped
               PROVE  (runningEvent <=> state = "RUNNING") /\ (stoppedEvent <=> state = "STOPPED")
    BY DEF EventsTellTheState
  <2>1. EventsAgree /\ state \in Stable
    BY DEF AloneInv, Alone, OneCall
  <2> QED BY <2>1 DEF EventsAgree, Stable
<1> QED BY <1>1, SpecAloneInv, PTL

\* A running service has its worker: none takes the stop of an earlier run for its own.
THEOREM WorkerOutlivesRestarts == Spec => []RunningHasWorker
<1>1. AloneInv => RunningHasWorker
  BY DEF AloneInv, Alone, WorkerLives, RunningHasWorker
<1> QED BY <1>1, SpecAloneInv, PTL

=============================================================================
