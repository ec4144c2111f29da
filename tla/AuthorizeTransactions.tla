----------------------- MODULE AuthorizeTransactions -----------------------
(***************************************************************************)
(* apps/wallet_connect/message_handlers/authorize_transactions.py: an app  *)
(* asks, over its websocket, that an account signs a group of transactions.*)
(*                                                                         *)
(* The handler unpacks the request, asks the WalletConnectService whether  *)
(* it may be accepted (four checks that run concurrently), acknowledges    *)
(* it, has the user authorize it, has it signed and submitted, and replies.*)
(* Whatever goes wrong on the way is replied by a background task.         *)
(*                                                                         *)
(* Requests and replies are unpacked and packed by an executor that all    *)
(* requests share.  With a ProcessPoolExecutor an AuthorizeTransactionsError*)
(* cannot travel back: it is built with keyword arguments only, so it does *)
(* not unpickle, and that breaks the executor for good.                    *)
(*                                                                         *)
(* The chain, the user and the websocket change while the handler waits.   *)
(***************************************************************************)
EXTENDS Integers, Sequences, FiniteSets

CONSTANTS
  Requests,      \* the requests sent by one app for one account
  MaxChanges     \* bound: number of changes of the facts

ASSUME AuthorizeAssumption ==
  IsFiniteSet(Requests) /\ MaxChanges \in Nat

\* What the service answers for the app, the account and their transactions.
Facts == {"app registered", "app enabled", "keys registered", "account registered",
          "subscription valid", "wallet connected", "activity known", "activity valid"}

\* The checks, each a sequence of questions to the service.  Definitions that no
\* action uses are slips the code could have made, each before the definition it
\* would replace.
AllButEnabled == [app |-> <<{"app registered"}, {"keys registered"}>>,
                  subscription |-> <<{"account registered", "subscription valid"}>>,
                  connection |-> <<{"wallet connected"}>>,
                  transactions |-> <<{"activity known"}, {"activity valid"}>>]

Questions == [app |-> <<{"app registered", "app enabled"}, {"keys registered"}>>,
              subscription |-> <<{"account registered", "subscription valid"}>>,
              connection |-> <<{"wallet connected"}>>,
              transactions |-> <<{"activity known"}, {"activity valid"}>>]

Checks == {"app", "subscription", "connection", "transactions"}

\* AuthorizeTransactionsErrCode, as far as the handler uses it.
CodeIfMissing ==
  [fact \in Facts |->
     CASE fact = "app registered" -> "AppNotRegistered"
       [] fact = "app enabled" -> "AppDisabled"
       [] fact = "keys registered" -> "UnauthorizedMessage"
       [] fact = "account registered" -> "AccountNotRegistered"
       [] fact = "subscription valid" -> "AccountSubscriptionExpired"
       [] fact = "wallet connected" -> "WalletConnectAppDisconnected"
       [] fact = "activity known" -> "InvalidAppActivityId"
       [] fact = "activity valid" -> "InvalidAppActivity"]
Codes == {CodeIfMissing[fact] : fact \in Facts} \cup {"InvalidMessage", "Rejected", "Failure"}

\* What comes first of two answers of one question.
Prerequisite == [fact \in Facts |-> CASE fact = "app enabled" -> {"app registered"}
                                      [] fact = "subscription valid" -> {"account registered"}
                                      [] OTHER -> {}]

\* How the bytes of a request unpack: to a request, to one that __post_init__ or the
\* transactions' decoding refuses, or not at all.
Kinds == {"well-formed", "malformed", "garbled"}

Phases == {"new", "unpack", "check", "pack accepted", "send accepted", "authorize", "sign",
           "pack success", "send success", "pack failure", "send failure", "done"}

VARIABLES
  facts,      \* the facts that hold now
  changes,    \* number of changes so far
  executor,   \* a pool of "threads" or of "processes", or "broken"
  open,       \* the websocket
  phase,      \* phase[r]: the await at which the handler, or its background task, is
  kind,       \* kind[r]
  asked,      \* asked[r][check]: number of questions answered
  code,       \* code[r]: of the failure to be replied
  answer,     \* answer[r]: the user's, "none" before it is given
  signed,     \* signed[r]: the transactions have been signed
  heard,      \* heard[r]: the replies that reached the app, in order
  held, lacked  \* the facts that held, or did not, at some time since r was received

requestVars == <<phase, kind, asked, code, answer, signed, heard>>
history == <<held, lacked>>
vars == <<facts, changes, executor, open, requestVars, history>>

\* What is sent to the app; that it is never "none" is not a matter of type.
Heard == {"accepted", "success", "none"} \cup Codes

AuthorizeTypeOK ==
  /\ facts \subseteq Facts
  /\ phase \in [Requests -> Phases]
  /\ asked \in [Requests -> [Checks -> 0 .. 2]]
  /\ code \in [Requests -> Codes \cup {"none"}]
  /\ answer \in [Requests -> {"none", "approved", "rejected"}]
  /\ signed \in [Requests -> BOOLEAN]
  /\ heard \in [Requests -> Seq(Heard)]
  /\ held \in [Requests -> SUBSET Facts]

Init ==
  /\ facts = Facts
  /\ changes = 0 /\ executor \in {"threads", "processes"} /\ open = TRUE
  /\ phase = [r \in Requests |-> "new"]
  /\ kind = [r \in Requests |-> "well-formed"]
  /\ asked = [r \in Requests |-> [check \in Checks |-> 0]]
  /\ code = [r \in Requests |-> "none"]
  /\ answer = [r \in Requests |-> "none"]
  /\ signed = [r \in Requests |-> FALSE]
  /\ heard = [r \in Requests |-> <<>>]
  /\ held = [r \in Requests |-> {}] /\ lacked = held

-----------------------------------------------------------------------------
(***************************************************************************)
(* What happens around the handler.                                        *)
(***************************************************************************)
Change(fact) ==
  /\ changes < MaxChanges
  /\ changes' = changes + 1
  /\ facts' = IF fact \in facts THEN facts \ {fact} ELSE facts \cup {fact}
  /\ held' = [r \in Requests |-> IF phase[r] = "new" THEN {} ELSE held[r] \cup facts']
  /\ lacked' = [r \in Requests |-> IF phase[r] = "new" THEN {} ELSE lacked[r] \cup (Facts \ facts')]
  /\ UNCHANGED <<executor, open, requestVars>>

\* Closed by the app, or by the handler of any other message of the connection.
CloseWebsocket ==
  /\ open /\ open' = FALSE
  /\ UNCHANGED <<facts, changes, executor, requestVars, history>>

\* A malformed request of somebody else.
BreakExecutor ==
  /\ executor = "processes" /\ executor' = "broken"
  /\ UNCHANGED <<facts, changes, open, requestVars, history>>

around == <<facts, changes, open, history>>

-----------------------------------------------------------------------------
(***************************************************************************)
(* Steps of the handler.                                                   *)
(***************************************************************************)
Goes(r, to) == phase' = [phase EXCEPT ![r] = to]

\* An exception: a background task is created that replies the failure, and the
\* handler returns.
ForgetsTheReply(r, why) ==
  /\ Goes(r, "done")
  /\ code' = [code EXCEPT ![r] = why]

Fails(r, why) ==
  /\ Goes(r, "pack failure")
  /\ code' = [code EXCEPT ![r] = why]

Receive(r) ==
  /\ phase[r] = "new"
  /\ Goes(r, "unpack")
  /\ kind' \in {[kind EXCEPT ![r] = k] : k \in Kinds}
  /\ held' = [held EXCEPT ![r] = facts]
  /\ lacked' = [lacked EXCEPT ![r] = Facts \ facts]
  /\ UNCHANGED <<facts, changes, open, executor, asked, code, answer, signed, heard>>

Unpacked(r) ==
  /\ phase[r] = "unpack" /\ executor # "broken" /\ kind[r] = "well-formed"
  /\ Goes(r, "check")
  /\ UNCHANGED <<around, executor, kind, asked, code, answer, signed, heard>>

BreaksOnError == IF executor = "processes" THEN "broken" ELSE executor

\* Every error but AuthorizeTransactionsError is replied as "server error".
UnpackFails(r) ==
  /\ phase[r] = "unpack" /\ (executor = "broken" \/ kind[r] # "well-formed")
  /\ Fails(r, IF kind[r] = "malformed" /\ executor = "threads" THEN "InvalidMessage" ELSE "Failure")
  /\ executor' = IF kind[r] = "malformed" THEN BreaksOnError ELSE executor
  /\ UNCHANGED <<around, kind, asked, answer, signed, heard>>

Question(r, check) == Questions[check][asked[r][check] + 1]
Asking(r, check) == phase[r] = "check" /\ asked[r][check] < Len(Questions[check])

CheckGoesOn(r, check) ==
  /\ Asking(r, check) /\ Question(r, check) \subseteq facts
  /\ asked' = [asked EXCEPT ![r][check] = @ + 1]
  /\ UNCHANGED <<around, executor, phase, kind, code, answer, signed, heard>>

\* The first check that raises has the others cancelled, and its error is raised.
OneTestForBoth(r, check) ==
  {fact \in Question(r, check) : /\ ~(Question(r, check) \subseteq facts)
                                 /\ \A other \in Question(r, check) : fact \notin Prerequisite[other]}

FirstMissing(r, check) == {fact \in Question(r, check) \ facts : Prerequisite[fact] \subseteq facts}

CheckFails(r, check) ==
  /\ Asking(r, check)
  /\ \E fact \in FirstMissing(r, check) : Fails(r, CodeIfMissing[fact])
  /\ UNCHANGED <<around, executor, kind, asked, answer, signed, heard>>

ChecksPassed(r) ==
  /\ phase[r] = "check" /\ \A check \in Checks : ~Asking(r, check)
  /\ Goes(r, "pack accepted")
  /\ UNCHANGED <<around, executor, kind, asked, code, answer, signed, heard>>

\* The service fails to answer.
ServiceFails(r) ==
  /\ \/ \E check \in Checks : Asking(r, check)
     \/ phase[r] = "authorize"
  /\ Fails(r, "Failure")
  /\ UNCHANGED <<around, executor, kind, asked, answer, signed, heard>>

RepliesBeforeSigning(r) ==
  /\ phase[r] = "authorize"
  /\ answer' = [answer EXCEPT ![r] = "approved"]
  /\ Goes(r, "pack success")
  /\ UNCHANGED <<around, executor, kind, asked, code, signed, heard>>

Authorize(r) ==
  /\ phase[r] = "authorize"
  /\ answer' = [answer EXCEPT ![r] = "approved"]
  /\ Goes(r, "sign")
  /\ UNCHANGED <<around, executor, kind, asked, code, signed, heard>>

Reject(r) ==
  /\ phase[r] = "authorize"
  /\ answer' = [answer EXCEPT ![r] = "rejected"]
  /\ Fails(r, "Rejected")
  /\ UNCHANGED <<around, executor, kind, asked, signed, heard>>

Sign(r) ==
  /\ phase[r] = "sign"
  /\ signed' = [signed EXCEPT ![r] = TRUE]
  /\ Goes(r, "pack success")
  /\ UNCHANGED <<around, executor, kind, asked, code, answer, heard>>

\* Signing fails, or what is signed cannot be submitted.
SignFails(r) ==
  /\ phase[r] = "sign"
  /\ \E done \in BOOLEAN : signed' = [signed EXCEPT ![r] = done]
  /\ Fails(r, "Failure")
  /\ UNCHANGED <<around, executor, kind, asked, answer, heard>>

-----------------------------------------------------------------------------
(***************************************************************************)
(* Replies: packed by the executor, then sent on the websocket.            *)
(***************************************************************************)
AfterPacking == [p \in {"pack accepted", "pack success", "pack failure"} |->
                   CASE p = "pack accepted" -> "send accepted"
                     [] p = "pack success" -> "send success"
                     [] p = "pack failure" -> "send failure"]

Pack(r) ==
  /\ phase[r] \in DOMAIN AfterPacking /\ executor # "broken"
  /\ Goes(r, AfterPacking[phase[r]])
  /\ UNCHANGED <<around, executor, kind, asked, code, answer, signed, heard>>

Hears(r, reply) == heard' = [heard EXCEPT ![r] = Append(@, reply)]

SendAccepted(r) ==
  /\ phase[r] = "send accepted" /\ open
  /\ Hears(r, "accepted")
  /\ Goes(r, "authorize")
  /\ UNCHANGED <<around, executor, kind, asked, code, answer, signed>>

SendSuccess(r) ==
  /\ phase[r] = "send success" /\ open
  /\ Hears(r, "success")
  /\ Goes(r, "done")
  /\ UNCHANGED <<around, executor, kind, asked, code, answer, signed>>

\* An acknowledgement or a success that does not get out is an error like any other,
\* also when the transactions have been signed.
CannotReply(r) ==
  /\ \/ phase[r] \in {"pack accepted", "pack success"} /\ executor = "broken"
     \/ phase[r] \in {"send accepted", "send success"} /\ ~open
  /\ Fails(r, "Failure")
  /\ UNCHANGED <<around, executor, kind, asked, answer, signed, heard>>

SendFailure(r) ==
  /\ phase[r] = "send failure" /\ open
  /\ Hears(r, code[r])
  /\ Goes(r, "done")
  /\ UNCHANGED <<around, executor, kind, asked, code, answer, signed>>

\* A background task that fails only writes to the log.
GivesUp(r) ==
  /\ \/ phase[r] = "pack failure" /\ executor = "broken"
     \/ phase[r] = "send failure" /\ ~open
  /\ Goes(r, "done")
  /\ UNCHANGED <<around, executor, kind, asked, code, answer, signed, heard>>

-----------------------------------------------------------------------------
Handles(r) ==
  \/ Receive(r) \/ Unpacked(r) \/ UnpackFails(r)
  \/ \E check \in Checks : CheckGoesOn(r, check) \/ CheckFails(r, check)
  \/ ChecksPassed(r) \/ ServiceFails(r)
  \/ Authorize(r) \/ Reject(r) \/ Sign(r) \/ SignFails(r)
  \/ Pack(r) \/ SendAccepted(r) \/ SendSuccess(r) \/ CannotReply(r)
  \/ SendFailure(r) \/ GivesUp(r)

AllDone == (\A r \in Requests : phase[r] = "done") /\ UNCHANGED vars

Next ==
  \/ \E fact \in Facts : Change(fact)
  \/ CloseWebsocket \/ BreakExecutor
  \/ \E r \in Requests : Handles(r)
  \/ AllDone

Spec == Init /\ [][Next]_vars

\* The event loop goes on with a handler whose await is over.  That an await is over
\* at some time is assumed of the service, the executor, the websocket and the user;
\* the code sets no timeout of its own.
FairSpec == Spec /\ \A r \in Requests : WF_vars(Handles(r))

-----------------------------------------------------------------------------
(***************************************************************************)
(* Properties.                                                             *)
(***************************************************************************)
Replies(r) == {heard[r][i] : i \in DOMAIN heard[r]}

\* Transactions are signed only after the user has approved them and the app has been
\* told that they were accepted, and only if every fact the service is asked for held
\* at some time since the request came in.  Nothing is asked again before signing, so
\* that they all held at one time, or hold when it is signed, is not the case.
SignedAsAuthorized ==
  \A r \in Requests : signed[r] =>
    answer[r] = "approved" /\ "accepted" \in Replies(r) /\ held[r] = Facts

\* A failure with a reason gives the true reason: what it says is missing was missing
\* at some time while the request was handled, also when several checks fail.
FailuresAreTrue ==
  \A r \in Requests :
    /\ \A fact \in Facts : CodeIfMissing[fact] \in Replies(r) => fact \in lacked[r]
    /\ "Rejected" \in Replies(r) => answer[r] = "rejected"
    /\ "InvalidMessage" \in Replies(r) => kind[r] = "malformed"

\* The app hears at most one acknowledgement and then one outcome; a success is heard
\* only of signed transactions, and a failure of signed ones gives no reason: it is
\* the "server error" that does not tell whether they were signed.
OneOutcome ==
  \A r \in Requests :
    /\ Len(heard[r]) <= 2 /\ ("accepted" \in Replies(r) => heard[r][1] = "accepted")
    /\ Cardinality(Replies(r) \ {"accepted"}) <= 1
    /\ (Len(heard[r]) = 2 => "accepted" \in Replies(r))
    /\ "success" \in Replies(r) => signed[r]
    /\ signed[r] => Replies(r) \subseteq {"accepted", "success", "Failure"}

\* Every request that is received is answered with its outcome, unless the websocket
\* closes or the executor breaks: then it may never be, and nothing but the log tells.
EveryRequestIsAnswered ==
  \A r \in Requests :
    (phase[r] = "unpack") ~> (Replies(r) \ {"accepted"} # {} \/ ~open \/ executor = "broken")
=============================================================================
