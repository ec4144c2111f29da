------------------------ MODULE SecureMessageHandler ------------------------
(***************************************************************************)
(* algorand/messaging/secure_message_handler.py: the websocket handler of  *)
(* the server.  One coroutine per connection reads messages; each secure   *)
(* message is handled by a task of its own, or by the reading coroutine    *)
(* itself while the set of tasks, which all connections share, is full.    *)
(*                                                                         *)
(* Everything runs on one event loop, so what the code does between two    *)
(* awaits is one step.  A finished task stays in the set until the loop    *)
(* runs its done callback, which is a step of its own.                     *)
(***************************************************************************)
EXTENDS Integers, FiniteSets

CONSTANTS
  Conns,        \* the connections
  MaxTasks,     \* max_concurrent_requests
  MaxMsgs       \* bound: number of messages sent on all connections

ASSUME MessagingAssumption ==
  IsFiniteSet(Conns) /\ Conns # {} /\ MaxTasks \in Nat /\ MaxMsgs \in Nat

\* Messages are numbered in the order in which they are read.
Msgs == 1 .. MaxMsgs

\* What a message turns out to be: a text frame, bytes that do not unpack, a
\* message whose signature, encryption or content is bad, one that no handler
\* supports, or one that is passed to a MessageHandler.
Kinds == {"text", "garbled", "invalid", "unsupported", "request"}
Modes == {"none", "reader", "inline", "task"}

\* Where a message is.  A task is in the set of tasks from "handling" until it is
\* "settled"; after a failure the close task takes the place of the handler's.
Stages == {"unread", "rejecting", "handling", "refusing", "returned", "raised",
           "closing", "closed", "settled"}

VARIABLES
  open,      \* open[c]: the websocket has not been closed by either side
  inbox,     \* inbox[c]: messages received and not yet read by the coroutine
  sent,      \* number of messages sent so far
  reader,    \* reader[c]: "reading", "busy" with a message, or "ended"
  msg,       \* msg[n]: connection, kind, mode and stage of the n-th message read
  metrics    \* SecureMessageWebsocketHandlerMetrics

messagingVars == <<open, inbox, sent, reader, msg, metrics>>

MsgType == [conn : Conns, kind : Kinds, mode : Modes, stage : Stages]
Metrics == [received : Nat, success : Nat, failure : Nat, throttled : Nat]

MessagingTypeOK ==
  /\ open \in [Conns -> BOOLEAN]
  /\ inbox \in [Conns -> 0 .. MaxMsgs] /\ sent \in 0 .. MaxMsgs
  /\ reader \in [Conns -> {"reading", "busy", "ended"}]
  /\ msg \in [Msgs -> MsgType]
  /\ metrics \in Metrics
  /\ \A n \in Msgs : msg[n].mode = "reader" => msg[n].stage \in {"rejecting", "settled"}
  /\ \A c \in Conns : (reader[c] = "busy") <=>
       \E n \in Msgs : /\ msg[n].conn = c /\ msg[n].mode \in {"reader", "inline"}
                        /\ msg[n].stage # "settled"

MessagingInit ==
  /\ open = [c \in Conns |-> TRUE]
  /\ inbox = [c \in Conns |-> 0] /\ sent = 0
  /\ reader = [c \in Conns |-> "reading"]
  /\ msg = [n \in Msgs |-> [conn |-> CHOOSE c \in Conns : TRUE, kind |-> "text",
                            mode |-> "none", stage |-> "unread"]]
  /\ metrics = [received |-> 0, success |-> 0, failure |-> 0, throttled |-> 0]

-----------------------------------------------------------------------------
Read == {n \in Msgs : msg[n].stage # "unread"}
InStage(S) == {n \in Msgs : msg[n].stage \in S}

\* The set of tasks: handlers at work, finished ones whose callback has not run,
\* and close tasks.
TaskSet == {n \in Msgs : msg[n].mode = "task" /\ msg[n].stage # "settled"}

\* Definitions that no action uses are slips the code could have made, each before
\* the definition it would replace.
CountsSuccessOnly(outcome) == [metrics EXCEPT !.success = IF outcome = "success" THEN @ + 1 ELSE @]

Counted(outcome) == [metrics EXCEPT ![outcome] = @ + 1]

Moved(n, stage) == [msg EXCEPT ![n].stage = stage]

-----------------------------------------------------------------------------
(***************************************************************************)
(* The other side of a connection.                                         *)
(***************************************************************************)
Send(c) ==
  /\ open[c] /\ sent < MaxMsgs
  /\ sent' = sent + 1
  /\ inbox' = [inbox EXCEPT ![c] = @ + 1]
  /\ UNCHANGED <<open, reader, msg, metrics>>

Disconnect(c) ==
  /\ open[c]
  /\ open' = [open EXCEPT ![c] = FALSE]
  /\ UNCHANGED <<inbox, sent, reader, msg, metrics>>

-----------------------------------------------------------------------------
(***************************************************************************)
(* The coroutine of a connection.                                          *)
(***************************************************************************)

\* async for: messages that are already there are read even after the websocket is
\* closed.  The n-th message is taken off the inbox and handled in the given mode.
ReadsOn(c, n, kind, mode, stage) ==
  /\ reader[c] = "reading" /\ inbox[c] > 0
  /\ n \notin Read /\ \A k \in 1 .. n - 1 : k \in Read
  /\ inbox' = [inbox EXCEPT ![c] = @ - 1]
  /\ msg' = [msg EXCEPT ![n] = [conn |-> c, kind |-> kind, mode |-> mode, stage |-> stage]]
  /\ reader' = IF mode = "reader" THEN [reader EXCEPT ![c] = "busy"] ELSE reader
  /\ UNCHANGED sent

Reads(c, n, kind, mode, stage) ==
  /\ reader[c] = "reading" /\ inbox[c] > 0
  /\ n \notin Read /\ \A k \in 1 .. n - 1 : k \in Read
  /\ inbox' = [inbox EXCEPT ![c] = @ - 1]
  /\ msg' = [msg EXCEPT ![n] = [conn |-> c, kind |-> kind, mode |-> mode, stage |-> stage]]
  /\ reader' = IF mode = "task" THEN reader ELSE [reader EXCEPT ![c] = "busy"]
  /\ UNCHANGED sent

\* A text message is not counted as received, and the websocket is closed.
ReadText(c) ==
  /\ \E n \in Msgs : Reads(c, n, "text", "reader", "rejecting")
  /\ open' = [open EXCEPT ![c] = FALSE]
  /\ UNCHANGED metrics

ReadGarbled(c) ==
  /\ \E n \in Msgs : Reads(c, n, "garbled", "reader", "rejecting")
  /\ open' = [open EXCEPT ![c] = FALSE]
  /\ metrics' = [metrics EXCEPT !.received = @ + 1]

\* The close handshake is over: the failure is counted and the coroutine returns.
Rejected(n) ==
  /\ msg[n].stage = "rejecting"
  /\ msg' = Moved(n, "settled")
  /\ metrics' = Counted("failure")
  /\ reader' = [reader EXCEPT ![msg[n].conn] = "ended"]
  /\ UNCHANGED <<open, inbox, sent>>

HasRoom == Cardinality(TaskSet) < MaxTasks

ReadSecure(c, kind) ==
  /\ kind \in {"invalid", "unsupported", "request"}
  /\ \E n \in Msgs : Reads(c, n, kind, IF HasRoom THEN "task" ELSE "inline", "handling")
  /\ metrics' = [metrics EXCEPT !.received = @ + 1, !.throttled = IF HasRoom THEN @ ELSE @ + 1]
  /\ UNCHANGED open

\* The websocket is closed and there is nothing left to read.
EndReading(c) ==
  /\ reader[c] = "reading" /\ inbox[c] = 0 /\ ~open[c]
  /\ reader' = [reader EXCEPT ![c] = "ended"]
  /\ UNCHANGED <<open, inbox, sent, msg, metrics>>

-----------------------------------------------------------------------------
(***************************************************************************)
(* SecureMessageHandler.__call__, in a task or inline.                     *)
(***************************************************************************)

\* A bad or unsupported message: the websocket is closed, the call returns normally.
Refuse(n) ==
  /\ msg[n].stage = "handling" /\ msg[n].kind \in {"invalid", "unsupported"}
  /\ msg' = Moved(n, "refusing")
  /\ open' = [open EXCEPT ![msg[n].conn] = FALSE]
  /\ UNCHANGED <<inbox, sent, reader, metrics>>

Finished(n) == msg[n].stage = "refusing" \/ (msg[n].stage = "handling" /\ msg[n].kind = "request")

TaskReturns(n) ==
  /\ msg[n].mode = "task" /\ Finished(n)
  /\ msg' = Moved(n, "returned")
  /\ UNCHANGED <<open, inbox, sent, reader, metrics>>

InlineReturns(n) ==
  /\ msg[n].mode = "inline" /\ Finished(n)
  /\ msg' = Moved(n, "settled")
  /\ metrics' = Counted("success")
  /\ reader' = [reader EXCEPT ![msg[n].conn] = "reading"]
  /\ UNCHANGED <<open, inbox, sent>>

\* A MessageHandler may raise.
TaskRaises(n) ==
  /\ msg[n].mode = "task" /\ msg[n].stage = "handling" /\ msg[n].kind = "request"
  /\ msg' = Moved(n, "raised")
  /\ UNCHANGED <<open, inbox, sent, reader, metrics>>

InlineRaises(n) ==
  /\ msg[n].mode = "inline" /\ msg[n].stage = "handling" /\ msg[n].kind = "request"
  /\ msg' = Moved(n, "closing")
  /\ open' = [open EXCEPT ![msg[n].conn] = FALSE]
  /\ UNCHANGED <<inbox, sent, reader, metrics>>

InlineFailed(n) ==
  /\ msg[n].mode = "inline" /\ msg[n].stage = "closing"
  /\ msg' = Moved(n, "settled")
  /\ metrics' = Counted("failure")
  /\ reader' = [reader EXCEPT ![msg[n].conn] = "ended"]
  /\ UNCHANGED <<open, inbox, sent>>

-----------------------------------------------------------------------------
(***************************************************************************)
(* The done callback of a task, and the close task it may create.          *)
(***************************************************************************)
OnSuccess(n) ==
  /\ msg[n].stage = "returned"
  /\ msg' = Moved(n, "settled")
  /\ metrics' = Counted("success")
  /\ UNCHANGED <<open, inbox, sent, reader>>

CountsFailureOnly(n) ==
  /\ msg[n].stage = "raised"
  /\ msg' = Moved(n, "settled")
  /\ metrics' = Counted("failure")
  /\ UNCHANGED <<open, inbox, sent, reader>>

OnFailure(n) ==
  /\ msg[n].stage = "raised"
  /\ msg' = Moved(n, "closing")
  /\ metrics' = Counted("failure")
  /\ UNCHANGED <<open, inbox, sent, reader>>

CloseWebsocket(n) ==
  /\ msg[n].mode = "task" /\ msg[n].stage = "closing"
  /\ msg' = Moved(n, "closed")
  /\ open' = [open EXCEPT ![msg[n].conn] = FALSE]
  /\ UNCHANGED <<inbox, sent, reader, metrics>>

StaysInTheSet(n) ==
  /\ msg[n].stage = "closed"
  /\ UNCHANGED messagingVars

CloseDone(n) ==
  /\ msg[n].stage = "closed"
  /\ msg' = Moved(n, "settled")
  /\ UNCHANGED <<open, inbox, sent, reader, metrics>>

-----------------------------------------------------------------------------
AllSettled == InStage(Stages \ {"unread", "settled"}) = {}

\* Every websocket is closed and every message read has been dealt with.
AllEnded == AllSettled /\ (\A c \in Conns : reader[c] = "ended") /\ UNCHANGED messagingVars

Serve(c) ==
  \/ ReadText(c) \/ ReadGarbled(c) \/ EndReading(c)
  \/ \E kind \in Kinds : ReadSecure(c, kind)

Handle(n) ==
  \/ Rejected(n) \/ Refuse(n) \/ TaskReturns(n) \/ InlineReturns(n)
  \/ TaskRaises(n) \/ InlineRaises(n) \/ InlineFailed(n)
  \/ OnSuccess(n) \/ OnFailure(n) \/ CloseWebsocket(n) \/ CloseDone(n)

MessagingNext ==
  \/ \E c \in Conns : Send(c) \/ Disconnect(c) \/ Serve(c)
  \/ \E n \in Msgs : Handle(n)
  \/ AllEnded

\* The event loop runs every coroutine and callback that is ready, closing handshakes
\* are bounded by the websocket's close timeout, and message handlers are assumed to
\* come to an end.  Nothing is assumed of the other side of a connection.
MessagingFairness ==
  /\ \A c \in Conns : WF_messagingVars(Serve(c))
  /\ \A n \in Msgs : WF_messagingVars(Handle(n))

MessagingSpec == MessagingInit /\ [][MessagingNext]_messagingVars
FairMessaging == MessagingSpec /\ MessagingFairness

-----------------------------------------------------------------------------
(***************************************************************************)
(* Properties.                                                             *)
(***************************************************************************)

Texts == {n \in Read : msg[n].kind = "text"}
Processing == InStage({"handling", "refusing"})
Uncounted ==
  InStage({"rejecting", "handling", "refusing", "returned", "raised"})
    \cup {n \in InStage({"closing"}) : msg[n].mode = "inline"}

\* The metrics add up: each message read is counted once, as a success or as a
\* failure, or its outcome is still to come.  The coroutines of all connections, the
\* done callbacks and the inline handlers count into the same metrics, and a text
\* message is the only one that fails without having been counted as received.
CountedOnce ==
  metrics.success + metrics.failure + Cardinality(Uncounted)
    = metrics.received + Cardinality(Texts)

\* "Any exception that is raised while processing a message will result in the
\* websocket connection to be closed": also for the failure of a task, of which the
\* coroutine of the connection hears nothing, and for a message that cannot be
\* unpacked, of which no task or handler ever hears: a coroutine that has ended leaves
\* no websocket open.
FailureCloses ==
  \A n \in Msgs, c \in Conns :
    (msg[n].stage = "raised" /\ msg[n].conn = c) \/ reader[c] = "ended"
      ~> ~open[c]

\* Every message that is read is settled and gives its place in the set of tasks back.
EveryMessageIsSettled ==
  \A n \in Msgs : (msg[n].stage # "unread") ~> (msg[n].stage = "settled")
=============================================================================
