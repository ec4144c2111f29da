--------------------------- MODULE AuthorizeProofs ---------------------------
(***************************************************************************)
(* Proofs about AuthorizeTransactions, for any number of requests and of   *)
(* changes: transactions are signed only as authorized.                    *)
(*                                                                         *)
(* SignedAsAuthorized is not inductive: it says nothing of the phases that *)
(* lead to signing.  AuthorizedSoFar adds what each phase may rely on: the *)
(* questions a check has got answered were answered by facts that held, so *)
(* all facts have held when the checks are over, the acknowledgement has   *)
(* been heard from "authorize" on, and the user has approved from "sign"   *)
(* on.                                                                     *)
(***************************************************************************)
EXTENDS AuthorizeTransactions, TLAPS, FiniteSetTheorems, SequenceTheorems

Acknowledged(r) == \E i \in DOMAIN heard[r] : heard[r][i] = "accepted"

AfterChecks == {"pack accepted", "send accepted", "authorize", "sign", "pack success", "send success"}
AfterAccepted == {"authorize", "sign", "pack success", "send success"}
AfterApproval == {"sign", "pack success", "send success"}

\* What the questions answered so far tell about the facts that have held.
AskedOfHeld(r) ==
  \A check \in Checks :
    /\ asked[r][check] <= Len(Questions[check])
    /\ \A i \in 1 .. asked[r][check] : Questions[check][i] \subseteq held[r]

AuthorizedSoFar(r) ==
  /\ phase[r] = "new" => ~signed[r] /\ \A check \in Checks : asked[r][check] = 0
  /\ phase[r] # "new" => facts \subseteq held[r]
  /\ AskedOfHeld(r)
  /\ phase[r] \in AfterChecks => held[r] = Facts
  /\ phase[r] \in AfterAccepted => Acknowledged(r)
  /\ phase[r] \in AfterApproval => answer[r] = "approved"
  /\ signed[r] => answer[r] = "approved" /\ Acknowledged(r) /\ held[r] = Facts
  /\ signed[r] => phase[r] \in {"pack success", "send success", "pack failure", "send failure", "done"}

AuthorizeInv == AuthorizeTypeOK /\ \A r \in Requests : AuthorizedSoFar(r)

-----------------------------------------------------------------------------
LEMMA QuestionsAreShort ==
  /\ Len(Questions["app"]) = 2 /\ Len(Questions["subscription"]) = 1
  /\ Len(Questions["connection"]) = 1 /\ Len(Questions["transactions"]) = 2
  BY DEF Questions

LEMMA LengthsOfQuestions == \A check \in Checks : Len(Questions[check]) \in 1 .. 2
  BY QuestionsAreShort DEF Checks

\* The four checks ask for all the facts.
LEMMA QuestionsCoverFacts ==
  ASSUME NEW S, \A check \in Checks : \A i \in 1 .. Len(Questions[check]) : Questions[check][i] \subseteq S
  PROVE  Facts \subseteq S
<1>1. Questions["app"][1] \subseteq S /\ Questions["app"][2] \subseteq S
  BY QuestionsAreShort DEF Checks
<1>2. Questions["subscription"][1] \subseteq S
  BY QuestionsAreShort DEF Checks
<1>3. Questions["connection"][1] \subseteq S
  BY QuestionsAreShort DEF Checks
<1>4. Questions["transactions"][1] \subseteq S /\ Questions["transactions"][2] \subseteq S
  BY QuestionsAreShort DEF Checks
<1>5. {"app registered", "app enabled", "keys registered"} \subseteq S
  BY <1>1 DEF Questions
<1>6. {"account registered", "subscription valid", "wallet connected"} \subseteq S
  BY <1>2, <1>3 DEF Questions
<1>7. {"activity known", "activity valid"} \subseteq S
  BY <1>4 DEF Questions
<1> QED
  BY <1>5, <1>6, <1>7 DEF Facts

LEMMA CodesOfFacts == \A fact \in Facts : CodeIfMissing[fact] \in Codes
  BY DEF Codes

-----------------------------------------------------------------------------
LEMMA InitAuthorized == Init => AuthorizeInv
<1> SUFFICES ASSUME Init PROVE AuthorizeInv
  OBVIOUS
<1>1. AuthorizeTypeOK
  BY DEF Init, AuthorizeTypeOK, Phases, Heard
<1>2. \A check \in Checks : Len(Questions[check]) >= 0
  BY LengthsOfQuestions
<1>3. \A r \in Requests : AskedOfHeld(r)
  BY <1>2 DEF Init, AskedOfHeld
<1>4. \A r \in Requests : AuthorizedSoFar(r)
  BY <1>3 DEF Init, AuthorizedSoFar, AfterChecks, AfterAccepted, AfterApproval
<1> QED
  BY <1>1, <1>4 DEF AuthorizeInv

-----------------------------------------------------------------------------
\* What a step of one request leaves as it is for another request.
Untouched(q) ==
  /\ phase'[q] = phase[q] /\ asked'[q] = asked[q] /\ answer'[q] = answer[q]
  /\ signed'[q] = signed[q] /\ heard'[q] = heard[q] /\ held'[q] = held[q]

LEMMA UntouchedKeeps ==
  ASSUME NEW q \in Requests, AuthorizedSoFar(q), Untouched(q), UNCHANGED facts
  PROVE  AuthorizedSoFar(q)'
  BY DEF AuthorizedSoFar, AskedOfHeld, Acknowledged, Untouched

\* A step that only moves a request on to a phase it is prepared for.
LEMMA MovesOn ==
  ASSUME NEW r \in Requests, NEW to \in Phases, AuthorizeInv, Goes(r, to),
         phase[r] # "new", to # "new",
         to \in AfterChecks => held[r] = Facts,
         to \in AfterAccepted => Acknowledged(r),
         to \in AfterApproval => answer[r] = "approved",
         signed[r] => to \in {"pack success", "send success", "pack failure", "send failure", "done"},
         UNCHANGED <<facts, asked, answer, signed, heard, held>>
  PROVE  phase' \in [Requests -> Phases] /\ \A q \in Requests : AuthorizedSoFar(q)'
<1>1. phase' \in [Requests -> Phases] /\ phase'[r] = to /\ \A q \in Requests \ {r} : phase'[q] = phase[q]
  BY DEF Goes, AuthorizeInv, AuthorizeTypeOK
<1>2. \A q \in Requests \ {r} : AuthorizedSoFar(q)'
  BY <1>1, UntouchedKeeps DEF Untouched, AuthorizeInv
<1>3. AuthorizedSoFar(r)'
  BY <1>1 DEF AuthorizedSoFar, AskedOfHeld, Acknowledged, AuthorizeInv
<1> QED
  BY <1>1, <1>2, <1>3

\* The same for an error, which also leaves a code behind.
LEMMA FailsKeeps ==
  ASSUME NEW r \in Requests, NEW why \in Codes, AuthorizeInv, Fails(r, why), phase[r] # "new",
         UNCHANGED <<facts, asked, answer, signed, heard, held>>
  PROVE  AuthorizeInv'
<1>1. phase' \in [Requests -> Phases] /\ \A q \in Requests : AuthorizedSoFar(q)'
  BY MovesOn DEF Fails, AfterChecks, AfterAccepted, AfterApproval, Phases
<1>2. code' \in [Requests -> Codes \cup {"none"}]
  BY DEF Fails, AuthorizeInv, AuthorizeTypeOK
<1> QED
  BY <1>1, <1>2 DEF AuthorizeInv, AuthorizeTypeOK

-----------------------------------------------------------------------------
\* A step that leaves the requests alone.
LEMMA AroundKeeps ==
  ASSUME AuthorizeInv, UNCHANGED <<facts, requestVars, history>>
  PROVE  AuthorizeInv'
<1>1. \A q \in Requests : AuthorizedSoFar(q)'
  BY UntouchedKeeps DEF Untouched, AuthorizeInv, requestVars, history
<1> QED
  BY <1>1 DEF AuthorizeInv, AuthorizeTypeOK, requestVars, history

LEMMA NothingAskedYet ==
  ASSUME AuthorizeInv, NEW r \in Requests, phase[r] = "new", NEW check \in Checks
  PROVE  asked[r][check] = 0 /\ asked[r][check] <= Len(Questions[check]) /\ 1 .. asked[r][check] = {}
<1>1. asked[r][check] = 0
  BY DEF AuthorizeInv, AuthorizedSoFar
<1>2. Len(Questions[check]) \in 1 .. 2
  BY LengthsOfQuestions
<1> QED
  BY <1>1, <1>2

LEMMA ChangeKeeps ==
  ASSUME AuthorizeInv, NEW fact \in Facts, Change(fact)
  PROVE  AuthorizeInv'
<1>1. facts' \subseteq Facts
  BY DEF Change, AuthorizeInv, AuthorizeTypeOK
<1>2. /\ held' = [q \in Requests |-> IF phase[q] = "new" THEN {} ELSE held[q] \cup facts']
      /\ UNCHANGED requestVars
  BY DEF Change
<1>3. AuthorizeTypeOK'
  BY <1>1, <1>2 DEF AuthorizeInv, AuthorizeTypeOK, requestVars
<1>4. ASSUME NEW q \in Requests PROVE AuthorizedSoFar(q)'
  <2>1. CASE phase[q] = "new"
    <3>1. AskedOfHeld(q)'
      BY <1>2, <2>1, NothingAskedYet DEF AskedOfHeld, requestVars
    <3> QED
      BY <1>2, <2>1, <3>1
         DEF AuthorizeInv, AuthorizedSoFar, requestVars, AfterChecks, AfterAccepted, AfterApproval
  <2>2. CASE phase[q] # "new"
    <3>1. held'[q] = held[q] \cup facts' /\ held[q] \subseteq Facts
      BY <1>2, <2>2 DEF AuthorizeInv, AuthorizeTypeOK
    <3>2. AskedOfHeld(q)'
      BY <1>2, <3>1 DEF AuthorizeInv, AuthorizedSoFar, AskedOfHeld, requestVars
    <3>3. (held[q] = Facts => held'[q] = Facts) /\ facts' \subseteq held'[q]
      BY <1>1, <3>1
    <3>4. AuthorizedSoFar(q)
      BY DEF AuthorizeInv
    <3>5. Acknowledged(q) => Acknowledged(q)'
      BY <1>2 DEF Acknowledged, requestVars
    <3>6. phase'[q] = phase[q] /\ signed'[q] = signed[q] /\ answer'[q] = answer[q] /\ asked'[q] = asked[q]
      BY <1>2 DEF requestVars
    <3> QED
      BY <2>2, <3>2, <3>3, <3>4, <3>5, <3>6 DEF AuthorizedSoFar
  <2> QED
    BY <2>1, <2>2
<1> QED
  BY <1>3, <1>4 DEF AuthorizeInv

LEMMA ReceiveKeeps ==
  ASSUME AuthorizeInv, NEW r \in Requests, Receive(r)
  PROVE  AuthorizeInv'
<1>1. /\ phase' = [phase EXCEPT ![r] = "unpack"] /\ held' = [held EXCEPT ![r] = facts]
      /\ phase[r] = "new" /\ UNCHANGED <<facts, asked, code, answer, signed, heard>>
  BY DEF Receive, Goes
<1>2. AuthorizeTypeOK'
  BY <1>1 DEF AuthorizeInv, AuthorizeTypeOK, Phases
<1>3. \A q \in Requests \ {r} : AuthorizedSoFar(q)'
  BY <1>1, UntouchedKeeps DEF Untouched, AuthorizeInv, AuthorizeTypeOK
<1>4. phase'[r] = "unpack" /\ held'[r] = facts
  BY <1>1 DEF AuthorizeInv, AuthorizeTypeOK
<1>5. AskedOfHeld(r)'
  BY <1>1, NothingAskedYet DEF AskedOfHeld
<1>6. AuthorizedSoFar(r)'
  BY <1>1, <1>4, <1>5 DEF AuthorizedSoFar, AuthorizeInv, AfterChecks, AfterAccepted, AfterApproval
<1> QED
  BY <1>2, <1>3, <1>6 DEF AuthorizeInv

\* A question is answered: what it asks for holds now, and so has held.
LEMMA CheckGoesOnKeeps ==
  ASSUME AuthorizeInv, NEW r \in Requests, NEW check \in Checks, CheckGoesOn(r, check)
  PROVE  AuthorizeInv'
<1>1. /\ phase[r] = "check" /\ asked[r][check] < Len(Questions[check])
      /\ Questions[check][asked[r][check] + 1] \subseteq facts
      /\ asked' = [asked EXCEPT ![r][check] = @ + 1]
      /\ UNCHANGED <<facts, phase, code, answer, signed, heard, held>>
  BY DEF CheckGoesOn, Asking, Question, around, history
<1>2. asked[r] \in [Checks -> 0 .. 2] /\ asked[r][check] \in 0 .. 2 /\ Len(Questions[check]) \in 1 .. 2
  BY LengthsOfQuestions DEF AuthorizeInv, AuthorizeTypeOK
<1>3. asked[r][check] + 1 \in 0 .. 2
  <2>1. \A m, n \in 0 .. 2 : n < m => n + 1 \in 0 .. 2
    OBVIOUS
  <2>2. asked[r][check] < Len(Questions[check]) /\ Len(Questions[check]) \in 0 .. 2
    BY <1>1, <1>2
  <2> QED
    BY <1>2, <2>1, <2>2
<1>4. AuthorizeTypeOK'
  BY <1>1, <1>3 DEF AuthorizeInv, AuthorizeTypeOK
<1>5. \A q \in Requests \ {r} : AuthorizedSoFar(q)'
  BY <1>1, UntouchedKeeps DEF Untouched, AuthorizeInv, AuthorizeTypeOK
<1>6. /\ asked'[r][check] = asked[r][check] + 1
      /\ \A other \in Checks \ {check} : asked'[r][other] = asked[r][other]
  BY <1>1 DEF AuthorizeInv, AuthorizeTypeOK
<1>7. Questions[check][asked[r][check] + 1] \subseteq held[r]
  BY <1>1 DEF AuthorizeInv, AuthorizedSoFar
<1>8. ASSUME NEW other \in Checks
      PROVE  /\ asked'[r][other] <= Len(Questions[other])
             /\ \A i \in 1 .. asked'[r][other] : Questions[other][i] \subseteq held[r]
  <2>1. CASE other = check
    <3>1. \A i \in 1 .. asked[r][check] + 1 : i \in 1 .. asked[r][check] \/ i = asked[r][check] + 1
      BY <1>2
    <3>2. \A i \in 1 .. asked[r][check] : Questions[check][i] \subseteq held[r]
      BY DEF AuthorizeInv, AuthorizedSoFar, AskedOfHeld
    <3> QED
      BY <2>1, <1>1, <1>2, <1>6, <1>7, <3>1, <3>2
  <2>2. CASE other # check
    BY <2>2, <1>6 DEF AuthorizeInv, AuthorizedSoFar, AskedOfHeld
  <2> QED
    BY <2>1, <2>2
<1>9. AskedOfHeld(r)'
  BY <1>1, <1>8 DEF AskedOfHeld
<1>10. AuthorizedSoFar(r)'
  BY <1>1, <1>9 DEF AuthorizeInv, AuthorizedSoFar, Acknowledged
<1> QED
  BY <1>4, <1>5, <1>10 DEF AuthorizeInv

-----------------------------------------------------------------------------
\* The checks are over: every question was answered by facts that held.
LEMMA ChecksPassedKeeps ==
  ASSUME AuthorizeInv, NEW r \in Requests, ChecksPassed(r)
  PROVE  AuthorizeInv'
<1>1. /\ phase[r] = "check" /\ Goes(r, "pack accepted")
      /\ UNCHANGED <<facts, asked, code, answer, signed, heard, held>>
  BY DEF ChecksPassed, around, history
<1>2. \A check \in Checks : ~(asked[r][check] < Len(Questions[check]))
  BY <1>1 DEF ChecksPassed, Asking
<1>3. ASSUME NEW check \in Checks
      PROVE  asked[r][check] = Len(Questions[check])
  <2>1. asked[r][check] \in 0 .. 2 /\ Len(Questions[check]) \in 1 .. 2
    BY LengthsOfQuestions DEF AuthorizeInv, AuthorizeTypeOK
  <2>2. asked[r][check] <= Len(Questions[check])
    BY DEF AuthorizeInv, AuthorizedSoFar, AskedOfHeld
  <2> QED
    BY <1>2, <2>1, <2>2
<1>4. \A check \in Checks : \A i \in 1 .. Len(Questions[check]) : Questions[check][i] \subseteq held[r]
  BY <1>3 DEF AuthorizeInv, AuthorizedSoFar, AskedOfHeld
<1>5. held[r] = Facts
  BY <1>4, QuestionsCoverFacts DEF AuthorizeInv, AuthorizeTypeOK
<1>6. ~signed[r]
  BY <1>1 DEF AuthorizeInv, AuthorizedSoFar
<1>7. phase' \in [Requests -> Phases] /\ \A q \in Requests : AuthorizedSoFar(q)'
  BY <1>1, <1>5, <1>6, MovesOn DEF Phases, AfterChecks, AfterAccepted, AfterApproval
<1> QED
  BY <1>1, <1>7 DEF AuthorizeInv, AuthorizeTypeOK

LEMMA UnpackedKeeps ==
  ASSUME AuthorizeInv, NEW r \in Requests, Unpacked(r)
  PROVE  AuthorizeInv'
<1>1. /\ phase[r] = "unpack" /\ Goes(r, "check")
      /\ UNCHANGED <<facts, asked, code, answer, signed, heard, held>>
  BY DEF Unpacked, around, history
<1>2. ~signed[r]
  BY <1>1 DEF AuthorizeInv, AuthorizedSoFar
<1>3. phase' \in [Requests -> Phases] /\ \A q \in Requests : AuthorizedSoFar(q)'
  BY <1>1, <1>2, MovesOn DEF Phases, AfterChecks, AfterAccepted, AfterApproval
<1> QED
  BY <1>1, <1>3 DEF AuthorizeInv, AuthorizeTypeOK

LEMMA PackKeeps ==
  ASSUME AuthorizeInv, NEW r \in Requests, Pack(r)
  PROVE  AuthorizeInv'
<1>1. /\ phase[r] \in {"pack accepted", "pack success", "pack failure"}
      /\ Goes(r, AfterPacking[phase[r]])
      /\ UNCHANGED <<facts, asked, code, answer, signed, heard, held>>
  BY DEF Pack, AfterPacking, around, history
<1>2. \/ phase[r] = "pack accepted" /\ AfterPacking[phase[r]] = "send accepted"
      \/ phase[r] = "pack success" /\ AfterPacking[phase[r]] = "send success"
      \/ phase[r] = "pack failure" /\ AfterPacking[phase[r]] = "send failure"
  BY <1>1 DEF AfterPacking
<1>3. phase' \in [Requests -> Phases] /\ \A q \in Requests : AuthorizedSoFar(q)'
  <2> DEFINE to == AfterPacking[phase[r]]
  <2>1. to \in Phases /\ to # "new" /\ phase[r] # "new"
    BY <1>2 DEF Phases
  <2>2. /\ to \in AfterChecks => phase[r] \in AfterChecks
        /\ to \in AfterAccepted => phase[r] \in AfterAccepted
        /\ to \in AfterApproval => phase[r] \in AfterApproval
    BY <1>2 DEF AfterChecks, AfterAccepted, AfterApproval
  <2>3. signed[r] => to \in {"pack success", "send success", "pack failure", "send failure", "done"}
    BY <1>2 DEF AuthorizeInv, AuthorizedSoFar
  <2>4. /\ to \in AfterChecks => held[r] = Facts
        /\ to \in AfterAccepted => Acknowledged(r)
        /\ to \in AfterApproval => answer[r] = "approved"
    BY <2>2 DEF AuthorizeInv, AuthorizedSoFar
  <2> HIDE DEF to
  <2>5. Goes(r, to)
    BY <1>1 DEF to
  <2> QED
    BY <1>1, <2>1, <2>3, <2>4, <2>5, MovesOn
<1> QED
  BY <1>1, <1>3 DEF AuthorizeInv, AuthorizeTypeOK

\* A question that is still to be asked is about facts.
LEMMA QuestionsAskFacts ==
  ASSUME AuthorizeInv, NEW r \in Requests, NEW check \in Checks, Asking(r, check)
  PROVE  Question(r, check) \subseteq Facts
<1>1. asked[r][check] \in 0 .. 2 /\ Len(Questions[check]) \in 1 .. 2
  BY LengthsOfQuestions DEF AuthorizeInv, AuthorizeTypeOK
<1>2. \A c \in Checks : \A i \in 1 .. Len(Questions[c]) : Questions[c][i] \subseteq Facts
  <2>1. \A i \in 1 .. 2 : i = 1 \/ i = 2
    OBVIOUS
  <2>2. Questions["app"][1] \subseteq Facts /\ Questions["app"][2] \subseteq Facts
    BY DEF Questions, Facts
  <2>3. Questions["subscription"][1] \subseteq Facts /\ Questions["connection"][1] \subseteq Facts
    BY DEF Questions, Facts
  <2>4. Questions["transactions"][1] \subseteq Facts /\ Questions["transactions"][2] \subseteq Facts
    BY DEF Questions, Facts
  <2> QED
    BY <2>1, <2>2, <2>3, <2>4, QuestionsAreShort DEF Checks
<1>3. asked[r][check] < Len(Questions[check])
  BY DEF Asking
<1>4. asked[r][check] + 1 \in 1 .. Len(Questions[check])
  BY <1>1, <1>3
<1> QED
  BY <1>2, <1>4 DEF Question

\* Every way to an error.
LEMMA ErrorsKeep ==
  ASSUME AuthorizeInv, NEW r \in Requests,
         \/ UnpackFails(r) \/ (\E check \in Checks : CheckFails(r, check))
         \/ ServiceFails(r) \/ CannotReply(r)
  PROVE  AuthorizeInv'
<1>1. "Failure" \in Codes /\ "InvalidMessage" \in Codes
  BY DEF Codes
<1>2. CASE UnpackFails(r)
  <2>1. PICK why \in Codes : Fails(r, why)
    BY <1>1, <1>2 DEF UnpackFails
  <2> QED
    BY <1>2, <2>1, FailsKeeps DEF UnpackFails, around, history
<1>3. CASE \E check \in Checks : CheckFails(r, check)
  <2>1. PICK check \in Checks : CheckFails(r, check)
    BY <1>3
  <2>2. PICK fact \in FirstMissing(r, check) : Fails(r, CodeIfMissing[fact])
    BY <2>1 DEF CheckFails
  <2>3. Question(r, check) \subseteq Facts
    BY <2>1, QuestionsAskFacts DEF CheckFails
  <2>4. CodeIfMissing[fact] \in Codes
    BY <2>3, CodesOfFacts DEF FirstMissing
  <2> QED
    BY <2>1, <2>2, <2>4, FailsKeeps DEF CheckFails, Asking, around, history
<1>4. CASE ServiceFails(r)
  BY <1>1, <1>4, FailsKeeps DEF ServiceFails, Asking, around, history
<1>5. CASE CannotReply(r)
  BY <1>1, <1>5, FailsKeeps DEF CannotReply, around, history
<1> QED
  BY <1>2, <1>3, <1>4, <1>5

-----------------------------------------------------------------------------
\* The user answers, and the transactions are signed.
LEMMA AuthorizeKeeps ==
  ASSUME AuthorizeInv, NEW r \in Requests, Authorize(r)
  PROVE  AuthorizeInv'
<1>1. /\ phase[r] = "authorize" /\ phase' = [phase EXCEPT ![r] = "sign"]
      /\ answer' = [answer EXCEPT ![r] = "approved"]
      /\ UNCHANGED <<facts, asked, code, signed, heard, held>>
  BY DEF Authorize, Goes, around, history
<1>2. AuthorizeTypeOK'
  BY <1>1 DEF AuthorizeInv, AuthorizeTypeOK, Phases
<1>3. \A q \in Requests \ {r} : AuthorizedSoFar(q)'
  BY <1>1, UntouchedKeeps DEF Untouched, AuthorizeInv, AuthorizeTypeOK
<1>4. phase'[r] = "sign" /\ answer'[r] = "approved"
  BY <1>1 DEF AuthorizeInv, AuthorizeTypeOK
<1>5. ~signed[r] /\ held[r] = Facts /\ Acknowledged(r) /\ facts \subseteq held[r] /\ AskedOfHeld(r)
  BY <1>1 DEF AuthorizeInv, AuthorizedSoFar, AfterChecks, AfterAccepted
<1>6. Acknowledged(r)' /\ AskedOfHeld(r)'
  BY <1>1, <1>5 DEF Acknowledged, AskedOfHeld
<1>7. AuthorizedSoFar(r)'
  BY <1>1, <1>4, <1>5, <1>6 DEF AuthorizedSoFar
<1> QED
  BY <1>2, <1>3, <1>7 DEF AuthorizeInv

LEMMA RejectKeeps ==
  ASSUME AuthorizeInv, NEW r \in Requests, Reject(r)
  PROVE  AuthorizeInv'
<1>1. /\ phase[r] = "authorize" /\ phase' = [phase EXCEPT ![r] = "pack failure"]
      /\ code' = [code EXCEPT ![r] = "Rejected"]
      /\ answer' = [answer EXCEPT ![r] = "rejected"]
      /\ UNCHANGED <<facts, asked, signed, heard, held>>
  BY DEF Reject, Fails, Goes, around, history
<1>2. AuthorizeTypeOK'
  BY <1>1 DEF AuthorizeInv, AuthorizeTypeOK, Phases, Codes
<1>3. \A q \in Requests \ {r} : AuthorizedSoFar(q)'
  BY <1>1, UntouchedKeeps DEF Untouched, AuthorizeInv, AuthorizeTypeOK
<1>4. phase'[r] = "pack failure"
  BY <1>1 DEF AuthorizeInv, AuthorizeTypeOK
<1>5. ~signed[r] /\ facts \subseteq held[r] /\ AskedOfHeld(r)
  BY <1>1 DEF AuthorizeInv, AuthorizedSoFar
<1>6. AskedOfHeld(r)'
  BY <1>1, <1>5 DEF AskedOfHeld
<1>7. AuthorizedSoFar(r)'
  BY <1>1, <1>4, <1>5, <1>6 DEF AuthorizedSoFar, AfterChecks, AfterAccepted, AfterApproval
<1> QED
  BY <1>2, <1>3, <1>7 DEF AuthorizeInv

\* Signing, whether the call then returns or raises.
LEMMA SignKeeps ==
  ASSUME AuthorizeInv, NEW r \in Requests, Sign(r) \/ SignFails(r)
  PROVE  AuthorizeInv'
<1>1. PICK done \in BOOLEAN, to \in {"pack success", "pack failure"} :
        signed' = [signed EXCEPT ![r] = done] /\ phase' = [phase EXCEPT ![r] = to]
  BY DEF Sign, SignFails, Goes, Fails
<1>2. phase[r] = "sign" /\ UNCHANGED <<facts, asked, answer, heard, held>>
  BY DEF Sign, SignFails, around, history
<1>3. code' \in [Requests -> Codes \cup {"none"}]
  BY DEF Sign, SignFails, Fails, AuthorizeInv, AuthorizeTypeOK, Codes
<1>4. AuthorizeTypeOK'
  BY <1>1, <1>2, <1>3 DEF AuthorizeInv, AuthorizeTypeOK, Phases
<1>5. \A q \in Requests \ {r} : AuthorizedSoFar(q)'
  BY <1>1, <1>2, UntouchedKeeps DEF Untouched, AuthorizeInv, AuthorizeTypeOK
<1>6. phase'[r] = to
  BY <1>1 DEF AuthorizeInv, AuthorizeTypeOK
<1>7. /\ answer[r] = "approved" /\ held[r] = Facts /\ Acknowledged(r)
      /\ facts \subseteq held[r] /\ AskedOfHeld(r)
  BY <1>2 DEF AuthorizeInv, AuthorizedSoFar, AfterChecks, AfterAccepted, AfterApproval
<1>8. Acknowledged(r)' /\ AskedOfHeld(r)'
  BY <1>2, <1>7 DEF Acknowledged, AskedOfHeld
<1>9. AuthorizedSoFar(r)'
  BY <1>1, <1>2, <1>6, <1>7, <1>8 DEF AuthorizedSoFar
<1> QED
  BY <1>4, <1>5, <1>9 DEF AuthorizeInv

-----------------------------------------------------------------------------
\* A reply that is heard is added to those heard before.
LEMMA HearsKeeps ==
  ASSUME AuthorizeInv, NEW r \in Requests, NEW reply \in Heard, Hears(r, reply)
  PROVE  /\ heard' \in [Requests -> Seq(Heard)]
         /\ \A q \in Requests : Acknowledged(q) => Acknowledged(q)'
         /\ \A q \in Requests \ {r} : heard'[q] = heard[q]
         /\ reply = "accepted" => Acknowledged(r)'
<1>1. heard[r] \in Seq(Heard) /\ heard' = [heard EXCEPT ![r] = Append(heard[r], reply)]
  BY DEF Hears, AuthorizeInv, AuthorizeTypeOK
<1>2. /\ Append(heard[r], reply) \in Seq(Heard)
      /\ Len(Append(heard[r], reply)) = Len(heard[r]) + 1
      /\ Append(heard[r], reply)[Len(heard[r]) + 1] = reply
      /\ \A i \in 1 .. Len(heard[r]) : Append(heard[r], reply)[i] = heard[r][i]
  BY <1>1
<1>3. heard'[r] = Append(heard[r], reply) /\ \A q \in Requests \ {r} : heard'[q] = heard[q]
  BY <1>1 DEF AuthorizeInv, AuthorizeTypeOK
<1>4. /\ DOMAIN heard[r] = 1 .. Len(heard[r]) /\ Len(heard[r]) \in Nat
      /\ DOMAIN heard'[r] = 1 .. Len(heard[r]) + 1
  BY <1>1, <1>2, <1>3
<1>5. Acknowledged(r) => Acknowledged(r)'
  <2> SUFFICES ASSUME Acknowledged(r) PROVE Acknowledged(r)'
    OBVIOUS
  <2>1. PICK i \in 1 .. Len(heard[r]) : heard[r][i] = "accepted"
    BY <1>4 DEF Acknowledged
  <2>2. i \in DOMAIN heard'[r] /\ heard'[r][i] = "accepted"
    BY <2>1, <1>2, <1>3, <1>4
  <2> QED
    BY <2>2 DEF Acknowledged
<1>6. reply = "accepted" => Acknowledged(r)'
  <2>1. Len(heard[r]) + 1 \in DOMAIN heard'[r] /\ heard'[r][Len(heard[r]) + 1] = reply
    BY <1>2, <1>3, <1>4
  <2> QED
    BY <2>1 DEF Acknowledged
<1>7. heard' \in [Requests -> Seq(Heard)]
  BY <1>1, <1>2 DEF AuthorizeInv, AuthorizeTypeOK
<1>8. \A q \in Requests \ {r} : Acknowledged(q) => Acknowledged(q)'
  BY <1>3 DEF Acknowledged
<1> QED
  BY <1>3, <1>5, <1>6, <1>7, <1>8

LEMMA SendKeeps ==
  ASSUME AuthorizeInv, NEW r \in Requests, SendAccepted(r) \/ SendSuccess(r) \/ SendFailure(r)
  PROVE  AuthorizeInv'
<1>1. UNCHANGED <<facts, asked, code, answer, signed, held>>
  BY DEF SendAccepted, SendSuccess, SendFailure, around, history
<1>2. PICK reply \in Heard, to \in {"authorize", "done"} :
        /\ Hears(r, reply) /\ phase' = [phase EXCEPT ![r] = to]
        /\ to = "authorize" => reply = "accepted" /\ phase[r] = "send accepted"
        /\ phase[r] # "new"
  <2>1. CASE SendAccepted(r)
    BY <2>1 DEF SendAccepted, Goes, Heard
  <2>2. CASE SendSuccess(r)
    BY <2>2 DEF SendSuccess, Goes, Heard
  <2>3. CASE SendFailure(r)
    <3>1. code[r] \in Heard
      BY DEF AuthorizeInv, AuthorizeTypeOK, Heard
    <3> QED
      BY <2>3, <3>1 DEF SendFailure, Goes
  <2> QED
    BY <2>1, <2>2, <2>3
<1>3. /\ heard' \in [Requests -> Seq(Heard)]
      /\ \A q \in Requests : Acknowledged(q) => Acknowledged(q)'
      /\ \A q \in Requests \ {r} : heard'[q] = heard[q]
      /\ reply = "accepted" => Acknowledged(r)'
  BY <1>2, HearsKeeps
<1>4. phase' \in [Requests -> Phases] /\ phase'[r] = to /\ \A q \in Requests \ {r} : phase'[q] = phase[q]
  BY <1>2 DEF AuthorizeInv, AuthorizeTypeOK, Phases
<1>5. AuthorizeTypeOK'
  BY <1>1, <1>3, <1>4 DEF AuthorizeInv, AuthorizeTypeOK
<1>6. \A q \in Requests \ {r} : AuthorizedSoFar(q)'
  BY <1>1, <1>3, <1>4, UntouchedKeeps DEF Untouched, AuthorizeInv
<1>7. AuthorizedSoFar(r) /\ AskedOfHeld(r)
  BY DEF AuthorizeInv, AuthorizedSoFar
<1>8. AskedOfHeld(r)'
  BY <1>1, <1>7 DEF AskedOfHeld
<1>9. Acknowledged(r) => Acknowledged(r)'
  BY <1>3
<1>10. ASSUME to = "authorize" PROVE AuthorizedSoFar(r)'
  <2>1. held[r] = Facts /\ ~signed[r] /\ facts \subseteq held[r] /\ Acknowledged(r)'
    BY <1>2, <1>3, <1>7, <1>10 DEF AuthorizedSoFar, AfterChecks
  <2>2. /\ phase'[r] = "authorize" /\ ~signed'[r] /\ held'[r] = Facts
        /\ facts' \subseteq held'[r]
    BY <1>1, <1>4, <1>10, <2>1
  <2> QED
    BY <1>8, <2>1, <2>2 DEF AuthorizedSoFar, AfterChecks, AfterAccepted, AfterApproval
<1>11. ASSUME to = "done" PROVE AuthorizedSoFar(r)'
  <2>1. facts \subseteq held[r]
    BY <1>2, <1>7 DEF AuthorizedSoFar
  <2>2. signed[r] => answer[r] = "approved" /\ Acknowledged(r)' /\ held[r] = Facts
    BY <1>7, <1>9 DEF AuthorizedSoFar
  <2>3. /\ phase'[r] = "done" /\ facts' \subseteq held'[r]
        /\ signed'[r] => answer'[r] = "approved" /\ Acknowledged(r)' /\ held'[r] = Facts
    BY <1>1, <1>4, <1>11, <2>1, <2>2
  <2> QED
    BY <1>8, <2>3 DEF AuthorizedSoFar, AfterChecks, AfterAccepted, AfterApproval
<1>12. AuthorizedSoFar(r)'
  BY <1>10, <1>11
<1> QED
  BY <1>5, <1>6, <1>12 DEF AuthorizeInv

LEMMA GivesUpKeeps ==
  ASSUME AuthorizeInv, NEW r \in Requests, GivesUp(r)
  PROVE  AuthorizeInv'
<1>1. /\ phase[r] \in {"pack failure", "send failure"} /\ Goes(r, "done")
      /\ UNCHANGED <<facts, asked, code, answer, signed, heard, held>>
  BY DEF GivesUp, around, history
<1>2. phase' \in [Requests -> Phases] /\ \A q \in Requests : AuthorizedSoFar(q)'
  BY <1>1, MovesOn DEF Phases, AfterChecks, AfterAccepted, AfterApproval
<1> QED
  BY <1>1, <1>2 DEF AuthorizeInv, AuthorizeTypeOK

-----------------------------------------------------------------------------
LEMMA HandlesKeeps ==
  ASSUME AuthorizeInv, NEW r \in Requests, Handles(r)
  PROVE  AuthorizeInv'
<1>1. CASE Receive(r) \/ Unpacked(r) \/ ChecksPassed(r) \/ Pack(r)
  BY <1>1, ReceiveKeeps, UnpackedKeeps, ChecksPassedKeeps, PackKeeps
<1>2. CASE \E check \in Checks : CheckGoesOn(r, check)
  BY <1>2, CheckGoesOnKeeps
<1>3. CASE UnpackFails(r) \/ (\E check \in Checks : CheckFails(r, check)) \/ ServiceFails(r) \/ CannotReply(r)
  BY <1>3, ErrorsKeep
<1>4. CASE Authorize(r) \/ Reject(r) \/ Sign(r) \/ SignFails(r)
  BY <1>4, AuthorizeKeeps, RejectKeeps, SignKeeps
<1>5. CASE SendAccepted(r) \/ SendSuccess(r) \/ SendFailure(r) \/ GivesUp(r)
  BY <1>5, SendKeeps, GivesUpKeeps
<1> QED
  BY <1>1, <1>2, <1>3, <1>4, <1>5 DEF Handles

\* Every step keeps the invariant.
LEMMA StepKeeps ==
  ASSUME AuthorizeInv, [Next]_vars
  PROVE  AuthorizeInv'
<1>1. CASE \E fact \in Facts : Change(fact)
  BY <1>1, ChangeKeeps
<1>2. CASE CloseWebsocket \/ BreakExecutor \/ AllDone \/ UNCHANGED vars
  BY <1>2, AroundKeeps DEF CloseWebsocket, BreakExecutor, AllDone, vars
<1>3. CASE \E r \in Requests : Handles(r)
  BY <1>3, HandlesKeeps
<1> QED
  BY <1>1, <1>2, <1>3 DEF Next

\* The inductive invariant holds throughout: what each phase of the handler relies on
\* has been established by the phases before it.
THEOREM SpecAuthorizeInv == Spec => []AuthorizeInv
<1>1. Init => AuthorizeInv
  BY InitAuthorized
<1>2. AuthorizeInv /\ [Next]_vars => AuthorizeInv'
  BY StepKeeps
<1> QED
  BY <1>1, <1>2, PTL DEF Spec

\* The variables of the handlers keep their types.
THEOREM AuthorizeTypes == Spec => []AuthorizeTypeOK
<1>1. AuthorizeInv => AuthorizeTypeOK
  BY DEF AuthorizeInv
<1> QED
  BY <1>1, SpecAuthorizeInv, PTL

\* Transactions are signed only after the user has approved them, the app has been
\* told that they were accepted, and every fact that is checked has held since the
\* request came in, however many requests are handled and facts change meanwhile.
THEOREM OnlyAuthorizedIsSigned == Spec => []SignedAsAuthorized
<1>1. AuthorizeInv => SignedAsAuthorized
  BY DEF AuthorizeInv, AuthorizedSoFar, SignedAsAuthorized, Acknowledged, Replies
<1> QED
  BY <1>1, SpecAuthorizeInv, PTL

-----------------------------------------------------------------------------
(***************************************************************************)
(* What the app hears.  FailuresAreTrue and OneOutcome speak of replies;   *)
(* a reply is decided long before it is heard, packed and sent by steps of *)
(* its own, while facts go on to change.  HeardSoFar therefore gives, for  *)
(* each phase, all the app can have heard so far, and asks of the code     *)
(* that waits to be replied what is asked of a reply.                      *)
(***************************************************************************)
BeforeAccepted == {"new", "unpack", "check", "pack accepted", "send accepted"}

\* What has to be true of a request for o to be its outcome.
Outcome(r, o) ==
  /\ o \in Codes \cup {"success"}
  /\ \A fact \in Facts : o = CodeIfMissing[fact] => fact \in lacked[r]
  /\ o = "Rejected" => answer[r] = "rejected"
  /\ o = "InvalidMessage" => kind[r] = "malformed"
  /\ o = "success" => signed[r]
  /\ signed[r] => o \in {"success", "Failure"}

HeardSoFar(r) ==
  /\ phase[r] # "new" => Facts \ facts \subseteq lacked[r]
  /\ phase[r] \in {"pack success", "send success"} => signed[r]
  /\ phase[r] \in BeforeAccepted => heard[r] = <<>>
  /\ phase[r] \in AfterAccepted => heard[r] = <<"accepted">>
  /\ phase[r] \in {"pack failure", "send failure"} =>
       heard[r] \in {<<>>, <<"accepted">>} /\ Outcome(r, code[r])
  /\ phase[r] = "done" =>
       \/ heard[r] \in {<<>>, <<"accepted">>}
       \/ \E o \in Codes \cup {"success"} : Outcome(r, o) /\ heard[r] \in {<<o>>, <<"accepted", o>>}

ReplyInv ==
  /\ lacked \in [Requests -> SUBSET Facts]
  /\ kind \in [Requests -> Kinds]
  /\ \A r \in Requests : HeardSoFar(r)

-----------------------------------------------------------------------------
\* Every fact has a code of its own, and none of those has another meaning.
LEMMA CodesAreDistinct ==
  /\ \A fact, other \in Facts : CodeIfMissing[fact] = CodeIfMissing[other] => fact = other
  /\ \A fact \in Facts :
       CodeIfMissing[fact] \notin {"InvalidMessage", "Rejected", "Failure", "success", "accepted"}
  BY DEF CodeIfMissing, Facts

LEMMA CodesAreNoAcknowledgement ==
  /\ "accepted" \notin Codes /\ "success" \notin Codes
  /\ {"InvalidMessage", "Rejected", "Failure"} \subseteq Codes
  BY CodesAreDistinct DEF Codes

LEMMA FailureIsAnOutcome ==
  ASSUME NEW r
  PROVE  Outcome(r, "Failure")
  BY CodesAreDistinct, CodesAreNoAcknowledgement DEF Outcome

\* What made an outcome true stays.
LEMMA OutcomeStays ==
  ASSUME NEW r, NEW o, Outcome(r, o), lacked[r] \subseteq lacked'[r],
         kind'[r] = kind[r], answer'[r] = answer[r], signed'[r] = signed[r]
  PROVE  Outcome(r, o)'
  BY DEF Outcome

LEMMA InitReplies == Init => ReplyInv
  BY DEF Init, ReplyInv, HeardSoFar, BeforeAccepted, AfterAccepted, Kinds

\* What a step of one request leaves as it is for the replies of another.
SameReplies(q) ==
  /\ phase'[q] = phase[q] /\ heard'[q] = heard[q] /\ code'[q] = code[q] /\ answer'[q] = answer[q]
  /\ signed'[q] = signed[q] /\ kind'[q] = kind[q] /\ lacked'[q] = lacked[q]

LEMMA SameRepliesKeep ==
  ASSUME NEW q \in Requests, HeardSoFar(q), SameReplies(q), UNCHANGED facts
  PROVE  HeardSoFar(q)'
  BY DEF HeardSoFar, SameReplies, Outcome

\* A step of the handler of r: it is enough to look at r.
LEMMA OneRequest ==
  ASSUME AuthorizeInv, ReplyInv, NEW r \in Requests,
         \E to : Goes(r, to),
         UNCHANGED <<facts, lacked, kind>>,
         heard' = heard \/ \E x : heard' = [heard EXCEPT ![r] = x],
         code' = code \/ \E x : code' = [code EXCEPT ![r] = x],
         answer' = answer \/ \E x : answer' = [answer EXCEPT ![r] = x],
         signed' = signed \/ \E x : signed' = [signed EXCEPT ![r] = x],
         HeardSoFar(r)'
  PROVE  ReplyInv'
<1>1. ASSUME NEW q \in Requests, q # r PROVE SameReplies(q)
  BY <1>1 DEF SameReplies, Goes, AuthorizeInv, AuthorizeTypeOK
<1>2. \A q \in Requests : q # r => HeardSoFar(q)'
  BY <1>1, SameRepliesKeep DEF ReplyInv
<1> QED BY <1>2 DEF ReplyInv

LEMMA GoesTo ==
  ASSUME AuthorizeInv, NEW r \in Requests, NEW to, Goes(r, to)
  PROVE  phase'[r] = to
  BY DEF Goes, AuthorizeInv, AuthorizeTypeOK

\* An error leads to a reply that is true.
LEMMA FailsReplies ==
  ASSUME AuthorizeInv, ReplyInv, NEW r \in Requests, NEW why, Fails(r, why), Outcome(r, why)',
         phase[r] \in BeforeAccepted \cup AfterAccepted, phase[r] # "new",
         UNCHANGED <<facts, lacked, kind, heard>>,
         answer' = answer \/ \E x : answer' = [answer EXCEPT ![r] = x],
         signed' = signed \/ \E x : signed' = [signed EXCEPT ![r] = x]
  PROVE  ReplyInv'
<1>1. phase'[r] = "pack failure" /\ code'[r] = why /\ \E to : Goes(r, to)
  BY GoesTo DEF Fails, AuthorizeInv, AuthorizeTypeOK
<1>2. heard[r] \in {<<>>, <<"accepted">>} /\ Facts \ facts \subseteq lacked[r]
  BY DEF ReplyInv, HeardSoFar
<1>3. HeardSoFar(r)'
  BY <1>1, <1>2 DEF HeardSoFar, BeforeAccepted, AfterAccepted
<1> QED BY <1>1, <1>3, OneRequest DEF Fails

-----------------------------------------------------------------------------
\* Facts change, and what was missing stays in the record.
LEMMA ChangeReplies ==
  ASSUME AuthorizeInv, ReplyInv, NEW fact \in Facts, Change(fact)
  PROVE  ReplyInv'
<1>1. /\ lacked' = [q \in Requests |-> IF phase[q] = "new" THEN {} ELSE lacked[q] \cup (Facts \ facts')]
      /\ UNCHANGED requestVars
  BY DEF Change
<1>2. ASSUME NEW q \in Requests PROVE HeardSoFar(q)'
  <2>1. CASE phase[q] = "new"
    BY <1>1, <2>1 DEF ReplyInv, HeardSoFar, requestVars, BeforeAccepted, AfterAccepted
  <2>2. CASE phase[q] # "new"
    <3>1. lacked'[q] = lacked[q] \cup (Facts \ facts')
      BY <1>1, <2>2
    <3>2. \A o : Outcome(q, o) => Outcome(q, o)'
      BY <1>1, <3>1, OutcomeStays DEF requestVars
    <3>3. /\ phase'[q] = phase[q] /\ heard'[q] = heard[q] /\ code'[q] = code[q]
          /\ signed'[q] = signed[q]
      BY <1>1 DEF requestVars
    <3>4. HeardSoFar(q)
      BY DEF ReplyInv
    <3>5. Outcome(q, code[q]) => Outcome(q, code[q])'
      BY <3>2, <3>3 DEF Outcome
    <3> QED BY <2>2, <3>1, <3>2, <3>3, <3>4, <3>5 DEF HeardSoFar
  <2> QED BY <2>1, <2>2
<1>3. lacked' \in [Requests -> SUBSET Facts] /\ kind' \in [Requests -> Kinds]
  BY <1>1 DEF ReplyInv, requestVars
<1> QED BY <1>2, <1>3 DEF ReplyInv

LEMMA ReceiveReplies ==
  ASSUME AuthorizeInv, ReplyInv, NEW r \in Requests, Receive(r)
  PROVE  ReplyInv'
<1>1. /\ phase[r] = "new" /\ Goes(r, "unpack")
      /\ lacked' = [lacked EXCEPT ![r] = Facts \ facts]
      /\ UNCHANGED <<facts, code, answer, signed, heard>>
  BY DEF Receive
<1>2. PICK k \in Kinds : kind' = [kind EXCEPT ![r] = k]
  BY DEF Receive
<1>3. ASSUME NEW q \in Requests, q # r PROVE SameReplies(q)
  BY <1>1, <1>2, <1>3 DEF SameReplies, Goes, AuthorizeInv, AuthorizeTypeOK, ReplyInv
<1>4. \A q \in Requests : q # r => HeardSoFar(q)'
  BY <1>1, <1>3, SameRepliesKeep DEF ReplyInv
<1>5. phase'[r] = "unpack" /\ lacked'[r] = Facts \ facts /\ heard'[r] = <<>>
  BY <1>1, GoesTo DEF ReplyInv, HeardSoFar, BeforeAccepted
<1>6. HeardSoFar(r)'
  BY <1>1, <1>5 DEF HeardSoFar, BeforeAccepted, AfterAccepted
<1>7. lacked' \in [Requests -> SUBSET Facts] /\ kind' \in [Requests -> Kinds]
  BY <1>1, <1>2 DEF ReplyInv
<1> QED BY <1>4, <1>6, <1>7 DEF ReplyInv

LEMMA AroundReplies ==
  ASSUME ReplyInv, UNCHANGED <<facts, requestVars, history>>
  PROVE  ReplyInv'
<1>1. \A q \in Requests : HeardSoFar(q)'
  BY SameRepliesKeep DEF SameReplies, ReplyInv, requestVars, history
<1> QED BY <1>1 DEF ReplyInv, requestVars, history

\* Steps that decide and reply nothing.
LEMMA QuietSteps ==
  ASSUME AuthorizeInv, ReplyInv, NEW r \in Requests,
         \/ Unpacked(r) \/ ChecksPassed(r) \/ Pack(r) \/ GivesUp(r) \/ Authorize(r) \/ Sign(r)
         \/ \E check \in Checks : CheckGoesOn(r, check)
  PROVE  ReplyInv'
<1>1. HeardSoFar(r)
  BY DEF ReplyInv
<1>2. CASE \E check \in Checks : CheckGoesOn(r, check)
  <2>1. \A q \in Requests : SameReplies(q)
    BY <1>2 DEF CheckGoesOn, SameReplies, around, history
  <2> QED BY <1>2, <2>1, SameRepliesKeep DEF ReplyInv, CheckGoesOn, around, history
<1>3. CASE Unpacked(r) \/ ChecksPassed(r)
  <2>1. phase'[r] \in {"check", "pack accepted"} /\ phase[r] \in {"unpack", "check"}
    BY <1>3, GoesTo DEF Unpacked, ChecksPassed
  <2>2. UNCHANGED <<facts, lacked, kind, code, answer, signed, heard>> /\ \E to : Goes(r, to)
    BY <1>3 DEF Unpacked, ChecksPassed, around, history
  <2>3. HeardSoFar(r)'
    BY <1>1, <2>1, <2>2 DEF HeardSoFar, BeforeAccepted, AfterAccepted
  <2> QED BY <2>2, <2>3, OneRequest
<1>4. CASE Pack(r)
  <2>1. \/ phase[r] = "pack accepted" /\ phase'[r] = "send accepted"
        \/ phase[r] = "pack success" /\ phase'[r] = "send success"
        \/ phase[r] = "pack failure" /\ phase'[r] = "send failure"
    BY <1>4, GoesTo DEF Pack, AfterPacking
  <2>2. UNCHANGED <<facts, lacked, kind, code, answer, signed, heard>> /\ \E to : Goes(r, to)
    BY <1>4 DEF Pack, around, history
  <2>3. HeardSoFar(r)'
    BY <1>1, <2>1, <2>2 DEF HeardSoFar, Outcome, BeforeAccepted, AfterAccepted
  <2> QED BY <2>2, <2>3, OneRequest
<1>5. CASE GivesUp(r)
  <2>1. phase[r] \in {"pack failure", "send failure"} /\ phase'[r] = "done"
    BY <1>5, GoesTo DEF GivesUp
  <2>2. UNCHANGED <<facts, lacked, kind, code, answer, signed, heard>> /\ \E to : Goes(r, to)
    BY <1>5 DEF GivesUp, around, history
  <2>3. HeardSoFar(r)'
    BY <1>1, <2>1, <2>2 DEF HeardSoFar, BeforeAccepted, AfterAccepted
  <2> QED BY <2>2, <2>3, OneRequest
<1>6. CASE Authorize(r)
  <2>1. phase[r] = "authorize" /\ phase'[r] = "sign"
    BY <1>6, GoesTo DEF Authorize
  <2>2. /\ UNCHANGED <<facts, lacked, kind, code, signed, heard>> /\ \E to : Goes(r, to)
        /\ answer' = [answer EXCEPT ![r] = "approved"]
    BY <1>6 DEF Authorize, around, history
  <2>3. HeardSoFar(r)'
    BY <1>1, <2>1, <2>2 DEF HeardSoFar, BeforeAccepted, AfterAccepted
  <2> QED BY <2>2, <2>3, OneRequest
<1>7. CASE Sign(r)
  <2>1. phase[r] = "sign" /\ phase'[r] = "pack success"
    BY <1>7, GoesTo DEF Sign
  <2>2. /\ UNCHANGED <<facts, lacked, kind, code, answer, heard>> /\ \E to : Goes(r, to)
        /\ signed' = [signed EXCEPT ![r] = TRUE]
    BY <1>7 DEF Sign, around, history
  <2>3. signed'[r]
    BY <2>2 DEF AuthorizeInv, AuthorizeTypeOK
  <2>4. HeardSoFar(r)'
    BY <1>1, <2>1, <2>2, <2>3 DEF HeardSoFar, BeforeAccepted, AfterAccepted
  <2> QED BY <2>2, <2>4, OneRequest
<1> QED BY <1>2, <1>3, <1>4, <1>5, <1>6, <1>7

-----------------------------------------------------------------------------
\* Nothing is signed before "sign" is over.
LEMMA SignedLate ==
  ASSUME AuthorizeInv, NEW r \in Requests, phase[r] \in BeforeAccepted \cup {"authorize"}
  PROVE  ~signed[r]
  BY DEF AuthorizeInv, AuthorizedSoFar, BeforeAccepted

LEMMA ErrorReplies ==
  ASSUME AuthorizeInv, ReplyInv, NEW r \in Requests,
         \/ UnpackFails(r) \/ (\E check \in Checks : CheckFails(r, check))
         \/ ServiceFails(r) \/ CannotReply(r) \/ Reject(r) \/ SignFails(r)
  PROVE  ReplyInv'
<1>1. Outcome(r, "Failure")'
  BY CodesAreDistinct, CodesAreNoAcknowledgement DEF Outcome
<1>2. CASE UnpackFails(r)
  <2>1. PICK why \in {"InvalidMessage", "Failure"} :
          Fails(r, why) /\ (why = "InvalidMessage" => kind[r] = "malformed")
    BY <1>2 DEF UnpackFails
  <2>2. phase[r] = "unpack" /\ UNCHANGED <<facts, lacked, kind, answer, signed, heard>>
    BY <1>2 DEF UnpackFails, around, history
  <2>3. ~signed[r]
    BY <2>2, SignedLate DEF BeforeAccepted
  <2>4. Outcome(r, why)'
    BY <2>1, <2>2, <2>3, CodesAreDistinct, CodesAreNoAcknowledgement DEF Outcome
  <2> QED BY <2>1, <2>2, <2>4, FailsReplies DEF BeforeAccepted
<1>3. ASSUME NEW check \in Checks, CheckFails(r, check) PROVE ReplyInv'
  <2>1. PICK fact \in FirstMissing(r, check) : Fails(r, CodeIfMissing[fact])
    BY <1>3 DEF CheckFails
  <2>2. phase[r] = "check" /\ UNCHANGED <<facts, lacked, kind, answer, signed, heard>>
    BY <1>3 DEF CheckFails, Asking, around, history
  <2>3. fact \in Facts /\ fact \notin facts
    <3>1. fact \in Question(r, check) \ facts
      BY DEF FirstMissing
    <3>2. Question(r, check) \subseteq Facts
      BY <1>3, QuestionsAskFacts DEF CheckFails
    <3> QED BY <3>1, <3>2
  <2>4. fact \in lacked[r] /\ ~signed[r]
    BY <2>2, <2>3, SignedLate DEF ReplyInv, HeardSoFar, BeforeAccepted
  <2>5. Outcome(r, CodeIfMissing[fact])'
    BY <2>2, <2>3, <2>4, CodesAreDistinct, CodesOfFacts DEF Outcome
  <2> QED BY <2>1, <2>2, <2>5, FailsReplies DEF BeforeAccepted
<1>4. CASE ServiceFails(r)
  <2>1. phase[r] \in {"check", "authorize"} /\ UNCHANGED <<facts, lacked, kind, answer, signed, heard>>
    BY <1>4 DEF ServiceFails, Asking, around, history
  <2> QED BY <1>1, <1>4, <2>1, FailsReplies DEF ServiceFails, BeforeAccepted, AfterAccepted
<1>5. CASE CannotReply(r)
  <2>1. /\ phase[r] \in {"pack accepted", "pack success", "send accepted", "send success"}
        /\ UNCHANGED <<facts, lacked, kind, answer, signed, heard>>
    BY <1>5 DEF CannotReply, around, history
  <2> QED BY <1>1, <1>5, <2>1, FailsReplies DEF CannotReply, BeforeAccepted, AfterAccepted
<1>6. CASE Reject(r)
  <2>1. /\ phase[r] = "authorize" /\ answer' = [answer EXCEPT ![r] = "rejected"]
        /\ UNCHANGED <<facts, lacked, kind, signed, heard>> /\ Fails(r, "Rejected")
    BY <1>6 DEF Reject, around, history
  <2>2. answer'[r] = "rejected" /\ ~signed'[r]
    BY <2>1, SignedLate DEF AuthorizeInv, AuthorizeTypeOK
  <2>3. Outcome(r, "Rejected")'
    BY <2>2, CodesAreDistinct, CodesAreNoAcknowledgement DEF Outcome
  <2> QED BY <2>1, <2>3, FailsReplies DEF AfterAccepted
<1>7. CASE SignFails(r)
  <2>1. /\ phase[r] = "sign" /\ \E done : signed' = [signed EXCEPT ![r] = done]
        /\ UNCHANGED <<facts, lacked, kind, answer, heard>> /\ Fails(r, "Failure")
    BY <1>7 DEF SignFails, around, history
  <2> QED BY <1>1, <2>1, FailsReplies DEF AfterAccepted
<1> QED BY <1>2, <1>3, <1>4, <1>5, <1>6, <1>7

LEMMA Appended ==
  ASSUME NEW x, NEW y
  PROVE  Append(<<>>, y) = <<y>> /\ Append(<<x>>, y) = <<x, y>>
<1> DEFINE S == {x, y}
<1>1. <<>> \in Seq(S) /\ <<x>> \in Seq(S) /\ <<y>> \in Seq(S) /\ <<x, y>> \in Seq(S) /\ y \in S
  OBVIOUS
<1>2. Append(<<>>, y) = <<y>>
  <2> DEFINE s == Append(<<>>, y)
  <2>1. s \in Seq(S) /\ Len(s) = 1 /\ s[1] = y
    BY <1>1, AppendProperties
  <2> HIDE DEF s
  <2> QED BY <2>1
<1>3. Append(<<x>>, y) = <<x, y>>
  <2> DEFINE s == Append(<<x>>, y)
             pair == <<x, y>>
  <2>1. s \in Seq(S) /\ Len(s) = 2 /\ s[1] = x /\ s[2] = y
    BY <1>1, AppendProperties
  <2>2. pair \in Seq(S) /\ Len(pair) = 2 /\ pair[1] = x /\ pair[2] = y
    BY <1>1
  <2> HIDE DEF s, pair, S
  <2>3. \A i \in 1 .. Len(s) : s[i] = pair[i]
    BY <2>1, <2>2
  <2>4. Len(s) = Len(pair)
    BY <2>1, <2>2
  <2>5. s = pair
    BY <2>1, <2>2, <2>3, <2>4, SeqEqual
  <2> QED BY <2>5 DEF s, pair
<1> QED BY <1>2, <1>3

LEMMA SendReplies ==
  ASSUME AuthorizeInv, ReplyInv, NEW r \in Requests, SendAccepted(r) \/ SendSuccess(r) \/ SendFailure(r)
  PROVE  ReplyInv'
<1>1. UNCHANGED <<facts, lacked, kind, code, answer, signed>> /\ \E to : Goes(r, to)
  BY DEF SendAccepted, SendSuccess, SendFailure, around, history
<1>2. HeardSoFar(r)
  BY DEF ReplyInv
<1>3. \A o : Outcome(r, o) => Outcome(r, o)'
  BY <1>1 DEF Outcome
<1>4. CASE SendAccepted(r)
  <2>1. phase[r] = "send accepted" /\ phase'[r] = "authorize" /\ heard[r] = <<>>
    BY <1>2, <1>4, GoesTo DEF SendAccepted, HeardSoFar, BeforeAccepted
  <2>2. heard' = [heard EXCEPT ![r] = Append(<<>>, "accepted")]
    BY <1>4, <2>1 DEF SendAccepted, Hears
  <2>3. heard'[r] = <<"accepted">>
    BY <2>2 DEF AuthorizeInv, AuthorizeTypeOK
  <2>4. HeardSoFar(r)'
    BY <1>1, <1>2, <2>1, <2>3 DEF HeardSoFar, BeforeAccepted, AfterAccepted
  <2> QED BY <1>1, <2>2, <2>4, OneRequest
<1>5. CASE SendSuccess(r)
  <2>1. phase[r] = "send success" /\ phase'[r] = "done" /\ heard[r] = <<"accepted">>
    BY <1>2, <1>5, GoesTo DEF SendSuccess, HeardSoFar, AfterAccepted
  <2>2. heard' = [heard EXCEPT ![r] = <<"accepted", "success">>]
    BY <1>5, <2>1, Appended DEF SendSuccess, Hears
  <2>3. heard'[r] = <<"accepted", "success">>
    BY <2>2 DEF AuthorizeInv, AuthorizeTypeOK
  <2>4. Outcome(r, "success")'
    BY <1>1, <1>2, <2>1, CodesAreDistinct DEF HeardSoFar, Outcome
  <2>5. HeardSoFar(r)'
    BY <1>1, <1>2, <2>1, <2>3, <2>4 DEF HeardSoFar, BeforeAccepted, AfterAccepted
  <2> QED BY <1>1, <2>2, <2>5, OneRequest
<1>6. CASE SendFailure(r)
  <2>0. PICK o : o = code[r]
    OBVIOUS
  <2>1. /\ phase[r] = "send failure" /\ phase'[r] = "done"
        /\ heard[r] \in {<<>>, <<"accepted">>} /\ Outcome(r, o)
    BY <1>2, <1>6, <2>0, GoesTo DEF SendFailure, HeardSoFar
  <2>2. o \in Codes \cup {"success"} /\ Outcome(r, o)'
    BY <1>1, <2>1 DEF Outcome
  <2>3. heard' = [heard EXCEPT ![r] = Append(heard[r], o)]
    BY <1>6, <2>0 DEF SendFailure, Hears
  <2>4. heard'[r] \in {<<o>>, <<"accepted", o>>}
    BY <2>1, <2>3, Appended DEF AuthorizeInv, AuthorizeTypeOK
  <2>5. HeardSoFar(r)'
    BY <1>1, <1>2, <2>1, <2>2, <2>4 DEF HeardSoFar, BeforeAccepted, AfterAccepted
  <2> QED BY <1>1, <2>3, <2>5, OneRequest
<1> QED BY <1>4, <1>5, <1>6

LEMMA StepReplies ==
  ASSUME AuthorizeInv, ReplyInv, [Next]_vars
  PROVE  ReplyInv'
<1>1. CASE \E fact \in Facts : Change(fact)
  BY <1>1, ChangeReplies
<1>2. CASE CloseWebsocket \/ BreakExecutor \/ AllDone \/ UNCHANGED vars
  BY <1>2, AroundReplies DEF CloseWebsocket, BreakExecutor, AllDone, vars
<1>3. ASSUME NEW r \in Requests, Handles(r) PROVE ReplyInv'
  BY <1>3, ReceiveReplies, QuietSteps, ErrorReplies, SendReplies DEF Handles
<1> QED BY <1>1, <1>2, <1>3 DEF Next

THEOREM SpecReplyInv == Spec => []ReplyInv
  BY InitReplies, StepReplies, SpecAuthorizeInv, PTL DEF Spec

\* All that a request can have heard, as the set of its replies.
LEMMA RepliesAre ==
  ASSUME AuthorizeInv, ReplyInv, NEW r \in Requests
  PROVE  \/ heard[r] \in {<<>>, <<"accepted">>}
         \/ \E o \in Codes \cup {"success"} : Outcome(r, o) /\ heard[r] \in {<<o>>, <<"accepted", o>>}
<1>1. phase[r] \in Phases /\ HeardSoFar(r)
  BY DEF AuthorizeInv, AuthorizeTypeOK, ReplyInv
<1> QED BY <1>1 DEF HeardSoFar, Phases, BeforeAccepted, AfterAccepted

\* A failure that gives a reason gives a true one: what it says is missing was missing
\* at some time while the request was handled, whichever of the concurrent checks fail
\* and however many facts change meanwhile.
THEOREM ReasonsAreTrue == Spec => []FailuresAreTrue
<1>1. ASSUME AuthorizeInv, ReplyInv, NEW r \in Requests
      PROVE  /\ \A fact \in Facts : CodeIfMissing[fact] \in Replies(r) => fact \in lacked[r]
             /\ "Rejected" \in Replies(r) => answer[r] = "rejected"
             /\ "InvalidMessage" \in Replies(r) => kind[r] = "malformed"
  <2>1. CASE heard[r] \in {<<>>, <<"accepted">>}
    <3>1. Replies(r) \subseteq {"accepted"}
      BY <2>1 DEF Replies
    <3> QED BY <3>1, CodesAreDistinct
  <2>2. ASSUME NEW o \in Codes \cup {"success"}, Outcome(r, o), heard[r] \in {<<o>>, <<"accepted", o>>}
        PROVE  /\ \A fact \in Facts : CodeIfMissing[fact] \in Replies(r) => fact \in lacked[r]
               /\ "Rejected" \in Replies(r) => answer[r] = "rejected"
               /\ "InvalidMessage" \in Replies(r) => kind[r] = "malformed"
    <3>1. Replies(r) \subseteq {"accepted", o}
      BY <2>2 DEF Replies
    <3> QED BY <2>2, <3>1, CodesAreDistinct DEF Outcome
  <2> QED BY <1>1, <2>1, <2>2, RepliesAre
<1>2. AuthorizeInv /\ ReplyInv => FailuresAreTrue
  BY <1>1 DEF FailuresAreTrue
<1> QED BY <1>2, SpecAuthorizeInv, SpecReplyInv, PTL

\* The app hears one acknowledgement at most and then one outcome, a success only of
\* signed transactions, and of signed ones no reason but the "server error".
THEOREM OneOutcomeIsHeard == Spec => []OneOutcome
<1> DEFINE Counted(r) == /\ Len(heard[r]) <= 2
                         /\ ("accepted" \in Replies(r) => heard[r][1] = "accepted")
                         /\ Cardinality(Replies(r) \ {"accepted"}) <= 1
                         /\ (Len(heard[r]) = 2 => "accepted" \in Replies(r))
           Deserved(r) == /\ "success" \in Replies(r) => signed[r]
                          /\ signed[r] => Replies(r) \subseteq {"accepted", "success", "Failure"}
<1>1. ASSUME AuthorizeInv, ReplyInv, NEW r \in Requests PROVE Counted(r) /\ Deserved(r)
  <2>1. CASE heard[r] = <<>>
    <3>1. Replies(r) = {} /\ Len(heard[r]) = 0
      BY <2>1 DEF Replies
    <3>2. Cardinality(Replies(r) \ {"accepted"}) = 0
      BY <3>1, FS_EmptySet
    <3>3. Counted(r)
      BY <3>1, <3>2
    <3>4. Deserved(r)
      BY <3>1
    <3> QED BY <3>3, <3>4
  <2>2. CASE heard[r] = <<"accepted">>
    <3>1. Replies(r) = {"accepted"} /\ Len(heard[r]) = 1 /\ heard[r][1] = "accepted"
      BY <2>2 DEF Replies
    <3>2. Replies(r) \ {"accepted"} = {}
      BY <3>1
    <3>3. Cardinality(Replies(r) \ {"accepted"}) = 0
      BY <3>2, FS_EmptySet
    <3>4. Counted(r)
      BY <3>1, <3>3
    <3>5. Deserved(r)
      BY <3>1
    <3> QED BY <3>4, <3>5
  <2>3. ASSUME NEW o \in Codes \cup {"success"}, Outcome(r, o), heard[r] \in {<<o>>, <<"accepted", o>>}
        PROVE  Counted(r) /\ Deserved(r)
    <3>1. o # "accepted"
      BY <2>3, CodesAreNoAcknowledgement
    <3>2. o = "success" => signed[r]
      BY <2>3 DEF Outcome
    <3>3. signed[r] => o \in {"success", "Failure"}
      BY <2>3 DEF Outcome
    <3>4. Replies(r) = {o} \/ Replies(r) = {"accepted", o}
      <4>1. heard[r] = <<o>> => Replies(r) = {o}
        BY DEF Replies
      <4>2. heard[r] = <<"accepted", o>> => Replies(r) = {"accepted", o}
        BY DEF Replies
      <4> QED BY <2>3, <4>1, <4>2
    <3>5. heard[r] = <<"accepted", o>> =>
            "accepted" \in Replies(r) /\ heard[r][1] = "accepted" /\ Len(heard[r]) = 2
      BY DEF Replies
    <3>6. heard[r] = <<o>> => "accepted" \notin Replies(r) /\ Len(heard[r]) = 1
      BY <3>1 DEF Replies
    <3>7. Replies(r) \ {"accepted"} = {o}
      BY <3>1, <3>4
    <3>8. Cardinality({o}) = 1
      BY FS_Singleton
    <3>9. Cardinality(Replies(r) \ {"accepted"}) <= 1
      BY <3>7, <3>8
    <3>10. Len(heard[r]) = 1 \/ Len(heard[r]) = 2
      BY <2>3, <3>5, <3>6
    <3>11. "accepted" \in Replies(r) => heard[r][1] = "accepted"
      BY <2>3, <3>5, <3>6
    <3>12. Len(heard[r]) = 2 => "accepted" \in Replies(r)
      BY <2>3, <3>5, <3>6
    <3>13. Len(heard[r]) <= 2
      <4>1. \A n : n = 1 \/ n = 2 => n <= 2
        OBVIOUS
      <4> QED BY <3>10, <4>1, Zenon
    <3>14. Deserved(r)
      BY <3>2, <3>3, <3>4, Zenon
    <3> QED BY <3>9, <3>11, <3>12, <3>13, <3>14, Zenon
  <2> QED BY <1>1, <2>1, <2>2, <2>3, RepliesAre
<1>2. AuthorizeInv /\ ReplyInv => OneOutcome
  BY <1>1 DEF OneOutcome
<1> QED BY <1>2, SpecAuthorizeInv, SpecReplyInv, PTL
=============================================================================
