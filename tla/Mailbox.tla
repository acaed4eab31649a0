------------------------------- MODULE Mailbox -------------------------------
(***************************************************************************)
(* What a sender of webhooks promises its caller, of events in the order   *)
(* they are sent: one at a time, and of an event it calls a success the    *)
(* receiver either has it or has answered it with a redirection, which     *)
(* leads elsewhere and leaves the event behind.  Of a failure nothing      *)
(* follows: the receiver may have the event, never get it, or get it later.*)
(***************************************************************************)
EXTENDS Naturals

CONSTANT Events  \* how many events are sent

VARIABLES
    current,  \* the event being sent, or the last one; 0 before the first
    outcome,  \* of every event: "none" as long as it is not settled
    got,      \* the events the receiver has
    away      \* the events it has redirected

vars == <<current, outcome, got, away>>

Init ==
    /\ current = 0
    /\ outcome = [e \in 1..Events |-> "none"]
    /\ got = {} /\ away = {}

Emit ==
    /\ current < Events
    /\ current > 0 => outcome[current] # "none"
    /\ current' = current + 1
    /\ UNCHANGED <<outcome, got, away>>

\* The receiver gets an event for the first time.
Get(e) ==
    /\ e \notin got /\ e <= current
    /\ outcome[e] = "success" => e \in away
    /\ got' = got \cup {e}
    /\ UNCHANGED <<current, outcome, away>>

\* The receiver redirects the event being sent, which only counts while it is.
SendAway ==
    /\ current > 0 /\ outcome[current] = "none"
    /\ away' = away \cup {current}
    /\ UNCHANGED <<current, outcome, got>>

Succeed ==
    /\ current > 0 /\ outcome[current] = "none" /\ current \in got \cup away
    /\ outcome' = [outcome EXCEPT ![current] = "success"]
    /\ UNCHANGED <<current, got, away>>

Fail ==
    /\ current > 0 /\ outcome[current] = "none"
    /\ outcome' = [outcome EXCEPT ![current] = "failed"]
    /\ UNCHANGED <<current, got, away>>

Next == Emit \/ (\E e \in 1..Events : Get(e)) \/ SendAway \/ Succeed \/ Fail

Spec == Init /\ [][Next]_vars
=============================================================================
