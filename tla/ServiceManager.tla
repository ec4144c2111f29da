--------------------------- MODULE ServiceManager ---------------------------
(***************************************************************************)
(* core/service_manager.py: a ServiceManager drives a Service through      *)
(* commands.  Each start() of the manager subscribes the service once more *)
(* to the command stream; observe_on gives every subscription a queue of   *)
(* its own, which a thread of the pool works off one command at a time.    *)
(* The subscriptions are therefore the callers of ServiceLifecycle.        *)
(*                                                                         *)
(* The services of a manager do not share state: one of them is modelled,  *)
(* without health checks and worker, which never start or stop a service.  *)
(***************************************************************************)
EXTENDS ServiceLifecycle, Sequences

CONSTANTS
  MaxCommands     \* bound: number of start() and stop() calls on the manager

ASSUME ManagerAssumption == MaxCommands \in Nat /\ Checks = 0 /\ ~HasWorker

VARIABLES
  subscribed,  \* the subscriptions made so far
  dead,        \* subscriptions whose handler raised: they take no more commands
  queue,       \* queue[c]: commands waiting at subscription c
  commands,    \* number of commands sent
  lastCommand

managerVars == <<subscribed, dead, queue, commands, lastCommand>>
allVars == <<vars, managerVars>>

ManagerTypeOK ==
  /\ TypeOK
  /\ subscribed \subseteq Callers /\ dead \subseteq subscribed
  /\ queue \in [Callers -> Seq({"start", "stop"})]
  /\ commands \in 0 .. MaxCommands
  /\ lastCommand \in {"none", "start", "stop"}

ManagerInit ==
  /\ Init
  /\ subscribed = {} /\ dead = {}
  /\ queue = [c \in Callers |-> <<>>]
  /\ commands = 0
  /\ lastCommand = "none"

\* Every subscription that has not failed receives the command.
Publish(command, subscriptions) ==
  /\ commands < MaxCommands
  /\ commands' = commands + 1
  /\ lastCommand' = command
  /\ queue' = [c \in Callers |->
       IF c \in subscriptions \ dead THEN Append(queue[c], command) ELSE queue[c]]

ManagerStart(c) ==
  /\ c \in Callers \ subscribed
  /\ subscribed' = subscribed \cup {c}
  /\ Publish("start", subscribed')
  /\ UNCHANGED <<vars, dead>>

ManagerStop ==
  /\ Publish("stop", subscribed)
  /\ UNCHANGED <<vars, subscribed, dead>>

\* on_command
TakeCommand(c) ==
  /\ At(c, "idle")
  /\ queue[c] # <<>>
  /\ call' = [call EXCEPT ![c] = [pc |-> Head(queue[c]), then |-> "return",
                                  startFailed |-> FALSE, check |-> 1]]
  /\ Overlaps(c)
  /\ queue' = [queue EXCEPT ![c] = Tail(@)]
  /\ UNCHANGED <<lifecycleVars, calls, timerVars, workerVars, subscribed, dead, commands, lastCommand>>

\* An error raised by start() or stop() ends the subscription that called it.
SubscriptionFails(c) ==
  /\ At(c, "raised")
  /\ Goto(c, "idle")
  /\ dead' = dead \cup {c}
  /\ queue' = [queue EXCEPT ![c] = <<>>]
  /\ UNCHANGED <<lifecycleVars, calls, overlapped, timerVars, workerVars, subscribed, commands, lastCommand>>

\* Nothing is under way: the manager may be left alone for ever.
ManagerQuiescent ==
  /\ \A c \in Callers : At(c, "idle") /\ queue[c] = <<>>
  /\ UNCHANGED allVars

ManagerNext ==
  \/ \E c \in Callers : ManagerStart(c) \/ TakeCommand(c) \/ SubscriptionFails(c)
  \/ \E c \in Callers : Step(c) /\ UNCHANGED managerVars
  \/ ManagerStop
  \/ ManagerQuiescent

ManagerSpec == ManagerInit /\ [][ManagerNext]_allVars

ManagerFairness ==
  /\ \A c \in Callers : WF_allVars(TakeCommand(c)) /\ WF_allVars(SubscriptionFails(c))
  /\ \A c \in Callers : WF_allVars(Step(c) /\ UNCHANGED managerVars)

FairManagerSpec == ManagerSpec /\ ManagerFairness

-----------------------------------------------------------------------------
\* stop() on the manager is obeyed: however many subscriptions race to execute
\* the commands, and whichever of them have failed, the service is STOPPED in
\* the end, unless the manager starts it again.
StopIsObeyed ==
  lastCommand = "stop" /\ subscribed # {}
    ~> state = "STOPPED" \/ lastCommand = "start"

=============================================================================
