---------------------------- MODULE WebhookSender ----------------------------
(***************************************************************************)
(* One goroutine that sends webhooks one after the other, with the sender  *)
(* of internal/webhook/webhook.go: the main goroutine of a worker, or one  *)
(* of the gateway that reports a failed monitor.  Between it and the       *)
(* receiver lies a network in which a request may be lost, and one the     *)
(* sender has given up may still arrive.                                   *)
(***************************************************************************)
EXTENDS Naturals, FiniteSets

CONSTANTS
    Events,     \* bound: how many are sent
    MaxRetries  \* attempts at an event, the first included

ASSUME SenderAssumption == Events \in Nat /\ MaxRetries \in Nat \ {0}

VARIABLES
    pc,        \* "idle", "validate", "send", "answer", "retry"
    current,   \* the event
    stamp,     \* payload.Timestamp
    attempt,
    cancelled, \* the context
    wire,      \* requests on their way
    answer,    \* to this attempt: "none", "ok", or "refused", not a 2xx
    taken,     \* requests the receiver has answered with a 2xx
    away,      \* events the receiver has redirected
    outcome,   \* SendResult.Success of every event, "none" while there is none
    clock

vars == <<pc, current, stamp, attempt, cancelled, wire, answer, taken, away,
          outcome, clock>>

Request == [event : 1..Events, attempt : 1..MaxRetries, timestamp : Nat]
Got == {r.event : r \in taken}

TypeOK ==
    /\ pc \in {"idle", "validate", "send", "answer", "retry"}
    /\ current \in 0..Events /\ attempt \in 0..MaxRetries
    /\ stamp \in Nat /\ clock \in Nat
    /\ cancelled \in BOOLEAN
    /\ wire \subseteq Request /\ taken \subseteq Request /\ away \subseteq 1..Events
    /\ answer \in {"none", "ok", "refused"}
    /\ outcome \in [1..Events -> {"none", "success", "failed"}]

Init ==
    /\ pc = "idle" /\ current = 0 /\ stamp = 0 /\ attempt = 0
    /\ cancelled = FALSE
    /\ wire = {} /\ answer = "none" /\ taken = {} /\ away = {}
    /\ outcome = [e \in 1..Events |-> "none"]
    /\ clock = 1

network == <<wire, taken, away>>

-----------------------------------------------------------------------------
\* The sender.

\* sendWebhook makes the payload, whatever has become of the one before.
Emit ==
    /\ pc = "idle" /\ current < Events
    /\ pc' = "validate" /\ current' = current + 1 /\ attempt' = 0
    /\ stamp' = clock /\ clock' = clock + 1
    /\ UNCHANGED <<cancelled, network, answer, outcome>>

Settle(result) ==
    /\ pc' = "idle" /\ outcome' = [outcome EXCEPT ![current] = result]

\* ValidateOutboundURL looks the host up, and is asked once.
Validate ==
    /\ pc = "validate"
    /\ \/ pc' = "send" /\ attempt' = 1 /\ UNCHANGED outcome
       \/ Settle("failed") /\ UNCHANGED attempt
    /\ UNCHANGED <<current, stamp, cancelled, network, answer, clock>>

TimestampRenewed == clock  \* mutant: every attempt has a time of its own
Timestamp == stamp

\* sendOnce.  With a cancelled context nothing leaves the sender.
SendOnce ==
    /\ pc = "send"
    /\ answer' = "none" /\ clock' = clock + 1
    /\ \/ ~cancelled /\ pc' = "answer"
          /\ wire' = wire \cup
                 {[event |-> current, attempt |-> attempt, timestamp |-> Timestamp]}
       \/ cancelled /\ pc' = "retry" /\ UNCHANGED wire
    /\ UNCHANGED <<current, stamp, attempt, cancelled, taken, away, outcome>>

SucceedUnread ==  \* mutant: any answer will do
    /\ pc = "answer" /\ answer # "none"
    /\ Settle("success")
    /\ UNCHANGED <<current, stamp, attempt, cancelled, network, answer, clock>>

Succeed ==
    /\ pc = "answer" /\ answer = "ok"
    /\ Settle("success")
    /\ UNCHANGED <<current, stamp, attempt, cancelled, network, answer, clock>>

\* Another status, an error of the connection, the timeout of ten seconds, which an
\* answer may come too late for, or the end of the context.
AttemptFails ==
    /\ pc = "answer"
    /\ pc' = "retry"
    /\ UNCHANGED <<current, stamp, attempt, cancelled, network, answer, outcome, clock>>

RetryTimeoutsOnly ==  \* mutant: what the receiver refuses is not sent again
    /\ pc = "retry"
    /\ \/ /\ attempt < MaxRetries /\ answer # "refused"
          /\ pc' = "send" /\ attempt' = attempt + 1 /\ UNCHANGED outcome
       \/ attempt = MaxRetries /\ Settle("failed") /\ UNCHANGED attempt
       \/ (cancelled \/ answer = "refused") /\ Settle("failed") /\ UNCHANGED attempt
    /\ UNCHANGED <<current, stamp, cancelled, network, answer, clock>>

\* The wait before the next attempt: the timer, or the end of the context.
Retry ==
    /\ pc = "retry"
    /\ \/ attempt < MaxRetries /\ pc' = "send" /\ attempt' = attempt + 1 /\ UNCHANGED outcome
       \/ attempt = MaxRetries /\ Settle("failed") /\ UNCHANGED attempt
       \/ cancelled /\ Settle("failed") /\ UNCHANGED attempt
    /\ UNCHANGED <<current, stamp, cancelled, network, answer, clock>>

Cancel ==
    /\ ~cancelled /\ cancelled' = TRUE
    /\ UNCHANGED <<pc, current, stamp, attempt, network, answer, outcome, clock>>

-----------------------------------------------------------------------------
\* The network, and the receiver.

\* The sender waits for the answer to this very request.
Awaited(r) == pc = "answer" /\ r.event = current /\ r.attempt = attempt

Answered(r, with) == answer' = IF Awaited(r) THEN with ELSE answer

Take(r) ==
    /\ taken' = taken \cup {r} /\ UNCHANGED away
    /\ Answered(r, "ok")

\* The client of NewSender follows up to five redirections.  After a 301, 302 or 303 it
\* asks the next URL with a GET, which has no body, and the answer to that is the answer
\* to the attempt: a 2xx is a success although nobody has been given the event.  A 307
\* or 308 repeats the request elsewhere, which is a request on its way.
Redirect(r) ==
    /\ Awaited(r)
    /\ away' = away \cup {r.event} /\ UNCHANGED taken
    /\ Answered(r, "ok") \/ Answered(r, "refused")

Arrive(r) ==
    /\ wire' = wire \ {r}
    /\ \/ Take(r)
       \/ Redirect(r)
       \/ Answered(r, "refused") /\ UNCHANGED <<taken, away>>
       \/ UNCHANGED <<taken, away, answer>>  \* it is lost
    /\ UNCHANGED <<pc, current, stamp, attempt, cancelled, outcome, clock>>

SenderStep ==
    \/ Validate \/ SendOnce \/ Succeed \/ AttemptFails \/ Retry

Next ==
    \/ Emit \/ SenderStep \/ Cancel
    \/ \E r \in wire : Arrive(r)

Spec == Init /\ [][Next]_vars

-----------------------------------------------------------------------------
\* The sender keeps what Mailbox promises: what was sent with success the receiver has,
\* before anything that is sent later, unless it has redirected a request with it; and
\* an event is not sent before the one before it is settled.
Promise == INSTANCE Mailbox WITH got <- Got

KeepsPromise == Promise!Spec

\* Whatever requests arrive, late ones and repeated ones included, their timestamps tell
\* which are of the same event, and the order of the events (docs/requirements.md:1274).
TimestampsTell ==
    \A r, s \in taken :
        /\ r.event = s.event => r.timestamp = s.timestamp
        /\ r.event < s.event => r.timestamp < s.timestamp

\* No event reaches the receiver more than MaxRetries times.
AttemptsBounded ==
    \A e \in 1..Events : Cardinality({r \in wire \cup taken : r.event = e}) <= MaxRetries

\* Only after the last attempt, or when the sender is being stopped, is an event given
\* up: but for a webhook URL that cannot be resolved, which is not asked for again.
GivenUpLast ==
    [][\A e \in 1..Events :
          outcome[e] = "none" /\ outcome'[e] = "failed" =>
              cancelled \/ attempt = MaxRetries \/ pc = "validate"]_vars
=============================================================================
