------------------------- MODULE WebhookSenderProofs -------------------------
(***************************************************************************)
(* The sender of webhooks keeps the promise of module Mailbox, and its     *)
(* receiver can tell what it has been sent twice, for any number of events *)
(* and of attempts.                                                        *)
(***************************************************************************)
EXTENDS WebhookSender, FiniteSetTheorems, TLAPS

\* The event being sent is not settled, nor is any later one; the one before is.
OneAtATime ==
    /\ pc # "idle" => current \in 1..Events /\ outcome[current] = "none"
    /\ pc = "idle" /\ current > 0 => outcome[current] # "none"
    /\ \A e \in 1..Events : e > current => outcome[e] = "none"

\* A request is on its way only of an attempt that has been made.
AttemptMade == pc \in {"send", "answer", "retry"} => attempt >= 1

\* Whoever relies on an answer relies on a request that has been taken or redirected.
AnsweredIsTaken ==
    /\ pc = "answer" /\ answer = "ok" => current \in Got \cup away
    /\ \A e \in 1..Events : outcome[e] = "success" => e \in Got \cup away

\* The timestamps of what has been sent: that of the current event is the newest.
Stamped ==
    /\ current > 0 => stamp < clock
    /\ \A r \in wire \cup taken :
          /\ r.event <= current /\ r.timestamp <= stamp
          /\ r.event = current => r.timestamp = stamp
          /\ r.event < current => r.timestamp < stamp

\* Requests of the same event carry the same timestamp, and later events later ones.
Ordered ==
    \A r, s \in wire \cup taken :
        /\ r.event = s.event => r.timestamp = s.timestamp
        /\ r.event < s.event => r.timestamp < s.timestamp

IInv == TypeOK /\ OneAtATime /\ AttemptMade /\ AnsweredIsTaken /\ Stamped /\ Ordered

-----------------------------------------------------------------------------
LEMMA InitOK ==
    ASSUME Init PROVE IInv
<1> USE SenderAssumption
<1>1. TypeOK
  <2>1. 0 \in 0..Events /\ 0 \in 0..MaxRetries
    OBVIOUS
  <2>2. outcome \in [1..Events -> {"none", "success", "failed"}]
    BY DEF Init
  <2>3. wire \subseteq Request /\ taken \subseteq Request
    BY DEF Init
  <2>4. QED
    BY <2>1, <2>2, <2>3 DEF Init, TypeOK
<1>2. OneAtATime /\ AttemptMade
  BY DEF Init, OneAtATime, AttemptMade
<1>3. AnsweredIsTaken /\ Stamped /\ Ordered
  BY DEF Init, AnsweredIsTaken, Stamped, Ordered
<1>4. QED
  BY <1>1, <1>2, <1>3 DEF IInv

\* What has been sent stays as it is, and so does its order, when nothing is added.
LEMMA OrderKept ==
    ASSUME Ordered, wire' \cup taken' \subseteq wire \cup taken
    PROVE  Ordered'
BY DEF Ordered

LEMMA StampedKept ==
    ASSUME Stamped, wire' \cup taken' \subseteq wire \cup taken,
           UNCHANGED <<current, stamp, clock>>
    PROVE  Stamped'
BY DEF Stamped

LEMMA EmitOK ==
    ASSUME IInv, Emit PROVE IInv'
<1> USE SenderAssumption
<1>1. TypeOK'
  BY DEF IInv, TypeOK, Emit, network
<1>2. OneAtATime'
  BY DEF IInv, TypeOK, OneAtATime, Emit, network
<1>3. AttemptMade' /\ AnsweredIsTaken'
  BY DEF IInv, AttemptMade, AnsweredIsTaken, Emit, Got, network
<1>4. Stamped'
  <2>1. stamp' = clock /\ clock' = clock + 1 /\ current' = current + 1 /\ clock \in Nat
    BY DEF IInv, TypeOK, Emit
  <2>2. ASSUME NEW r \in wire \cup taken
        PROVE  r.event \in 1..Events /\ r.timestamp \in Nat /\ r.event <= current
                   /\ r.timestamp < clock
    BY <2>2 DEF IInv, TypeOK, Stamped, Request
  <2>3. wire' = wire /\ taken' = taken /\ current \in Nat
    BY DEF IInv, TypeOK, Emit, network
  <2>4. QED
    BY <2>1, <2>2, <2>3 DEF Stamped
<1>5. Ordered'
  BY OrderKept DEF IInv, Emit, network
<1>6. QED
  BY <1>1, <1>2, <1>3, <1>4, <1>5 DEF IInv

LEMMA ValidateOK ==
    ASSUME IInv, Validate PROVE IInv'
<1> USE SenderAssumption
<1>1. TypeOK'
  BY DEF IInv, TypeOK, OneAtATime, Validate, Settle, network
<1>2. OneAtATime' /\ AttemptMade'
  BY DEF IInv, TypeOK, OneAtATime, AttemptMade, Validate, Settle, network
<1>3. AnsweredIsTaken'
  BY DEF IInv, TypeOK, OneAtATime, AnsweredIsTaken, Validate, Settle, Got, network
<1>4. Stamped' /\ Ordered'
  BY OrderKept, StampedKept DEF IInv, Validate, network
<1>5. QED
  BY <1>1, <1>2, <1>3, <1>4 DEF IInv

LEMMA SendOnceOK ==
    ASSUME IInv, SendOnce PROVE IInv'
<1> DEFINE r == [event |-> current, attempt |-> attempt, timestamp |-> stamp]
<1>1. r \in Request /\ wire' \subseteq wire \cup {r} /\ taken' = taken
  BY DEF IInv, TypeOK, OneAtATime, AttemptMade, SendOnce, Request, Timestamp, network
<1>2. TypeOK'
  BY <1>1 DEF IInv, TypeOK, SendOnce
<1>3. OneAtATime' /\ AttemptMade' /\ AnsweredIsTaken'
  BY <1>1 DEF IInv, TypeOK, OneAtATime, AttemptMade, AnsweredIsTaken, SendOnce, Got
<1>4. Stamped'
  BY <1>1 DEF IInv, TypeOK, Stamped, SendOnce
<1>5. Ordered'
  <2>1. ASSUME NEW s \in wire \cup taken
        PROVE  /\ s.event \in Nat /\ s.timestamp \in Nat
               /\ s.event <= r.event
               /\ s.event = r.event => s.timestamp = r.timestamp
               /\ s.event < r.event => s.timestamp < r.timestamp
    BY <2>1 DEF IInv, TypeOK, Stamped, Request
  <2>2. r.event \in Nat /\ r.timestamp \in Nat
    BY DEF IInv, TypeOK
  <2>3. QED
    BY <1>1, <2>1, <2>2 DEF IInv, Ordered
<1>6. QED
  BY <1>2, <1>3, <1>4, <1>5 DEF IInv

\* Succeed, AttemptFails, Retry: nothing leaves the sender.
LEMMA WaitingOK ==
    ASSUME IInv, Succeed \/ AttemptFails \/ Retry PROVE IInv'
<1> USE SenderAssumption
<1>1. TypeOK'
  <2>1. CASE Succeed
    BY <2>1 DEF IInv, TypeOK, OneAtATime, Succeed, Settle, network
  <2>2. CASE AttemptFails
    BY <2>2 DEF IInv, TypeOK, AttemptFails, network
  <2>3. CASE Retry
    BY <2>3 DEF IInv, TypeOK, OneAtATime, Retry, Settle, network
  <2>4. QED
    BY <2>1, <2>2, <2>3
<1>2. OneAtATime'
  BY DEF IInv, TypeOK, OneAtATime, Succeed, AttemptFails, Retry, Settle, network
<1>3. AttemptMade'
  BY DEF IInv, TypeOK, AttemptMade, Succeed, AttemptFails, Retry, Settle
<1>4. AnsweredIsTaken'
  BY DEF IInv, TypeOK, OneAtATime, AnsweredIsTaken, Succeed, AttemptFails, Retry, Settle,
         Got, network
<1>5. Stamped' /\ Ordered'
  BY OrderKept, StampedKept DEF IInv, Succeed, AttemptFails, Retry, network
<1>6. QED
  BY <1>1, <1>2, <1>3, <1>4, <1>5 DEF IInv

LEMMA CancelOK ==
    ASSUME IInv, Cancel PROVE IInv'
BY DEF IInv, TypeOK, OneAtATime, AttemptMade, AnsweredIsTaken, Stamped, Ordered, Cancel,
       Got, network

LEMMA ArriveOK ==
    ASSUME IInv, NEW r \in wire, Arrive(r) PROVE IInv'
<1>1. /\ wire' \subseteq wire /\ taken \subseteq taken' /\ taken' \subseteq taken \cup {r}
      /\ away \subseteq away' /\ away' \subseteq away \cup {r.event}
      /\ UNCHANGED <<pc, current, stamp, attempt, cancelled, outcome, clock>>
  BY DEF Arrive, Take, Redirect
<1>2. TypeOK'
  <2>1. r.event \in 1..Events /\ r \in Request
    BY DEF IInv, TypeOK, Request
  <2>2. answer' \in {"none", "ok", "refused"}
    BY DEF IInv, TypeOK, Arrive, Take, Redirect, Answered
  <2>3. QED
    BY <1>1, <2>1, <2>2 DEF IInv, TypeOK
<1>3. OneAtATime' /\ AttemptMade'
  BY <1>1 DEF IInv, OneAtATime, AttemptMade
<1>4. Got \subseteq Got'
  BY <1>1 DEF Got
<1>5. answer' = "ok" => answer = "ok" \/ current \in Got' \cup away' \/ pc # "answer"
  BY <1>1 DEF Arrive, Take, Redirect, Answered, Awaited, Got
<1>6. AnsweredIsTaken'
  BY <1>1, <1>4, <1>5 DEF IInv, AnsweredIsTaken
<1>7. Stamped' /\ Ordered'
  BY <1>1, OrderKept, StampedKept DEF IInv
<1>8. QED
  BY <1>2, <1>3, <1>6, <1>7 DEF IInv

THEOREM Invariance == Spec => []IInv
<1>1. IInv /\ [Next]_vars => IInv'
  <2>1. ASSUME IInv, UNCHANGED vars PROVE IInv'
    BY <2>1 DEF IInv, TypeOK, OneAtATime, AttemptMade, AnsweredIsTaken, Stamped, Ordered,
                Got, vars
  <2>2. QED
    BY <2>1, EmitOK, ValidateOK, SendOnceOK, WaitingOK, CancelOK, ArriveOK
       DEF Next, SenderStep
<1>2. QED
  BY <1>1, InitOK, PTL DEF Spec

\* Every variable stays in its range.
THEOREM TypeCorrect == Spec => []TypeOK
BY Invariance, PTL DEF IInv

\* A receiver that gets requests late, or again after a timeout, tells by their
\* timestamps which are of one event, and in which order the events happened.
THEOREM TimestampsAlwaysTell == Spec => []TimestampsTell
<1>1. IInv => TimestampsTell
  BY DEF IInv, Ordered, TimestampsTell
<1>2. QED
  BY <1>1, Invariance, PTL

-----------------------------------------------------------------------------
\* No event is sent more often than there are attempts.
LEMMA BoundOK ==
    ASSUME IInv PROVE AttemptsBounded
<1> USE SenderAssumption
<1>1. SUFFICES ASSUME NEW e \in 1..Events
               PROVE  Cardinality({r \in wire \cup taken : r.event = e}) <= MaxRetries
  BY DEF AttemptsBounded
<1> DEFINE S == {r \in wire \cup taken : r.event = e}
<1>2. IsFiniteSet(1..MaxRetries) /\ Cardinality(1..MaxRetries) = MaxRetries
  BY FS_Interval
<1>3. CASE S = {}
  BY <1>3, FS_EmptySet
<1>4. ASSUME NEW s \in S PROVE Cardinality(S) <= MaxRetries
  <2> DEFINE request == [a \in 1..MaxRetries |->
                            [event |-> e, attempt |-> a, timestamp |-> s.timestamp]]
             T == {request[a] : a \in 1..MaxRetries}
  <2>1. IsFiniteSet(T) /\ Cardinality(T) <= Cardinality(1..MaxRetries)
    <3>1. request \in Surjection(1..MaxRetries, T)
      BY DEF Surjection
    <3>2. QED
      BY <1>2, <3>1, FS_Surjection
  <2>2. ASSUME NEW r \in S PROVE r \in T
    <3>1. r \in Request /\ r.timestamp = s.timestamp /\ r.event = e
      BY <1>4, <2>2 DEF IInv, TypeOK, Ordered
    <3>2. r = request[r.attempt] /\ r.attempt \in 1..MaxRetries
      BY <3>1 DEF Request
    <3>3. QED
      BY <3>2
  <2>3. S \in SUBSET T
    BY <2>2
  <2> HIDE DEF S, T
  <2>4. IsFiniteSet(S) /\ Cardinality(S) <= Cardinality(T)
    BY <2>1, <2>3, FS_Subset
  <2>5. Cardinality(S) \in Nat /\ Cardinality(T) \in Nat
    BY <2>1, <2>4, FS_CardinalityType
  <2>6. QED
    BY <1>2, <2>1, <2>4, <2>5
<1>5. QED
  BY <1>3, <1>4

\* No event reaches the receiver more often than the sender has attempts.
THEOREM AttemptsAlwaysBounded == Spec => []AttemptsBounded
BY BoundOK, Invariance, PTL

\* An event is only given up after its last attempt, when the sender is stopped, or when
\* the host of the webhook could not be resolved.
THEOREM GivenUpAtLast == Spec => GivenUpLast
<1>1. ASSUME IInv, [Next]_vars, NEW e \in 1..Events,
             outcome[e] = "none", outcome'[e] = "failed"
      PROVE  cancelled \/ attempt = MaxRetries \/ pc = "validate"
  BY <1>1 DEF IInv, TypeOK, OneAtATime, Next, vars, SenderStep, Emit, Validate, SendOnce,
              Succeed, AttemptFails, Retry, Settle, Cancel, Arrive
<1>2. IInv /\ [Next]_vars =>
         [\A e \in 1..Events :
             outcome[e] = "none" /\ outcome'[e] = "failed" =>
                 cancelled \/ attempt = MaxRetries \/ pc = "validate"]_vars
  BY <1>1
<1>3. QED
  BY <1>2, Invariance, PTL DEF Spec, GivenUpLast

-----------------------------------------------------------------------------
\* The steps of the sender and of the network, as steps of the promise.

LEMMA EmitPromised ==
    ASSUME IInv, Emit PROVE Promise!Emit
BY DEF IInv, TypeOK, OneAtATime, Emit, network, Got, Promise!Emit

LEMMA SenderPromised ==
    ASSUME IInv, SenderStep PROVE [Promise!Next]_Promise!vars
<1>1. UNCHANGED <<current, Got, away>>
  BY DEF SenderStep, Validate, SendOnce, Succeed, AttemptFails, Retry, network, Got
<1>2. ASSUME Settle("failed"), pc # "idle" PROVE Promise!Fail
  BY <1>1, <1>2 DEF IInv, OneAtATime, TypeOK, Settle, Promise!Fail
<1>3. CASE Succeed
  <2>1. current \in Got \cup away /\ pc # "idle"
    BY <1>3 DEF IInv, AnsweredIsTaken, Succeed
  <2>2. Promise!Succeed
    BY <1>1, <1>3, <2>1 DEF IInv, OneAtATime, Succeed, Settle, Promise!Succeed
  <2>3. QED
    BY <2>2 DEF Promise!Next
<1>4. CASE UNCHANGED outcome
  BY <1>1, <1>4 DEF Promise!vars
<1>5. QED
  BY <1>2, <1>3, <1>4
     DEF SenderStep, Validate, SendOnce, AttemptFails, Retry, Promise!Next

LEMMA ArrivePromised ==
    ASSUME IInv, NEW r \in wire, Arrive(r) PROVE [Promise!Next]_Promise!vars
<1>1. UNCHANGED <<current, outcome>>
  BY DEF Arrive
<1>2. r.event \in 1..Events /\ r.event <= current
  BY DEF IInv, TypeOK, Stamped, Request
<1>3. CASE Redirect(r)
  <2>1. r.event = current /\ pc = "answer" /\ away' = away \cup {current} /\ Got' = Got
    BY <1>3 DEF Redirect, Awaited, Got
  <2>2. current > 0 /\ outcome[current] = "none"
    BY <2>1 DEF IInv, TypeOK, OneAtATime
  <2>3. Promise!SendAway
    BY <1>1, <2>1, <2>2 DEF Promise!SendAway
  <2>4. QED
    BY <2>3 DEF Promise!Next
<1>4. CASE ~Redirect(r)
  <2>1. away' = away
    BY <1>4 DEF Arrive, Take
  <2>2. Got' = Got \/ Got' = Got \cup {r.event}
    BY <1>4 DEF Arrive, Take, Got
  <2>3. CASE Got' = Got
    BY <1>1, <2>1, <2>3 DEF Promise!vars
  <2>4. CASE Got' = Got \cup {r.event} /\ r.event \notin Got
    <3>1. outcome[r.event] = "success" => r.event \in away
      BY <1>2, <2>4 DEF IInv, AnsweredIsTaken
    <3>2. Promise!Get(r.event)
      BY <1>1, <1>2, <2>1, <2>4, <3>1 DEF Promise!Get
    <3>3. QED
      BY <1>2, <3>2 DEF Promise!Next
  <2>5. QED
    BY <2>2, <2>3, <2>4
<1>5. QED
  BY <1>3, <1>4

\* What is sent with success the receiver has, before any event that is sent later, or it
\* has redirected a request with it: the sender implements the promise.
THEOREM PromiseKept == Spec => KeepsPromise
<1>1. Init => Promise!Init
  BY DEF Init, Got, Promise!Init
<1>2. IInv /\ [Next]_vars => [Promise!Next]_Promise!vars
  <2>1. ASSUME UNCHANGED vars PROVE UNCHANGED Promise!vars
    BY <2>1 DEF vars, Got, Promise!vars
  <2>2. ASSUME Cancel PROVE UNCHANGED Promise!vars
    BY <2>2 DEF Cancel, network, Got, Promise!vars
  <2>3. QED
    BY <2>1, <2>2, EmitPromised, SenderPromised, ArrivePromised DEF Next, Promise!Next
<1>3. QED
  BY <1>1, <1>2, Invariance, PTL DEF Spec, KeepsPromise, Promise!Spec
=============================================================================
