--------------------------- MODULE MonitorContract ---------------------------
(***************************************************************************)
(* What the gateway promises the caller about a monitor, without objects,  *)
(* versions, caches, pods or processes: a monitor is opened once, it is    *)
(* closed either because its worker says so or because the gateway finds   *)
(* it failed, the gateway owes the caller one monitor.error for each time  *)
(* it has closed the monitor as failed, and a removed monitor never comes  *)
(* back.  A crash of the gateway cancels what it owes.                     *)
(***************************************************************************)
EXTENDS Naturals, TLAPS

CONSTANT Monitors

VARIABLES
    state,     \* "new", "open", "closed" or "gone"
    owed,      \* owed[m]: failures found and not reported yet
    sent,      \* sent[m]: monitor.error webhooks sent
    revivals   \* revivals[m]: times a closed monitor was opened again

contractVars == <<state, owed, sent, revivals>>

Init ==
    /\ state = [m \in Monitors |-> "new"]
    /\ owed = [m \in Monitors |-> 0]
    /\ sent = [m \in Monitors |-> 0]
    /\ revivals = [m \in Monitors |-> 0]

Becomes(m, s) == state' = [state EXCEPT ![m] = s]

Open(m) ==
    /\ state[m] = "new"
    /\ Becomes(m, "open")
    /\ UNCHANGED <<owed, sent, revivals>>

\* The worker reports the end, or its pod could not be started.
Close(m) ==
    /\ state[m] = "open"
    /\ Becomes(m, "closed")
    /\ UNCHANGED <<owed, sent, revivals>>

\* The gateway finds that the monitor has failed.
Fail(m) ==
    /\ state[m] = "open"
    /\ Becomes(m, "closed")
    /\ owed' = [owed EXCEPT ![m] = @ + 1]
    /\ UNCHANGED <<sent, revivals>>

\* A late report of the worker.
Revive(m) ==
    /\ state[m] = "closed"
    /\ Becomes(m, "open")
    /\ revivals' = [revivals EXCEPT ![m] = @ + 1]
    /\ UNCHANGED <<owed, sent>>

Notify(m) ==
    /\ owed[m] > 0
    /\ owed' = [owed EXCEPT ![m] = @ - 1]
    /\ sent' = [sent EXCEPT ![m] = @ + 1]
    /\ UNCHANGED <<state, revivals>>

\* The monitor is deleted, or its creation is given up.
Remove(m) ==
    /\ state[m] # "gone"
    /\ Becomes(m, "gone")
    /\ UNCHANGED <<owed, sent, revivals>>

\* Requests that had not created anything yet die with the gateway.
Crash ==
    /\ owed' = [m \in Monitors |-> 0]
    /\ \E S \in SUBSET {m \in Monitors : state[m] = "new"} :
          state' = [m \in Monitors |-> IF m \in S THEN "gone" ELSE state[m]]
    /\ UNCHANGED <<sent, revivals>>

Next ==
    \/ Crash
    \/ \E m \in Monitors :
          Open(m) \/ Close(m) \/ Fail(m) \/ Revive(m) \/ Notify(m) \/ Remove(m)

Spec == Init /\ [][Next]_contractVars

\* Every monitor.error sent or owed answers a failure of its own: the first, or
\* one that followed a revival.
Balanced ==
    \A m \in Monitors :
        sent[m] + owed[m] <=
            revivals[m] + (IF state[m] \in {"closed", "gone"} THEN 1 ELSE 0)

ContractTypeOK ==
    /\ state \in [Monitors -> {"new", "open", "closed", "gone"}]
    /\ owed \in [Monitors -> Nat]
    /\ sent \in [Monitors -> Nat]
    /\ revivals \in [Monitors -> Nat]

-----------------------------------------------------------------------------
LEMMA StepKeepsBalance ==
    ContractTypeOK /\ Balanced /\ [Next]_contractVars => ContractTypeOK' /\ Balanced'
<1> SUFFICES ASSUME ContractTypeOK, Balanced, [Next]_contractVars
             PROVE  ContractTypeOK' /\ Balanced'
  OBVIOUS
<1> USE DEF ContractTypeOK, Balanced, Becomes
<1>1. CASE Crash
  <2>1. \A m \in Monitors : owed'[m] = 0 /\ sent'[m] = sent[m] /\ revivals'[m] = revivals[m]
    BY <1>1 DEF Crash
  <2>2. state' \in [Monitors -> {"new", "open", "closed", "gone"}]
    BY <1>1 DEF Crash
  <2>3. \A m \in Monitors : state[m] \in {"closed", "gone"} => state'[m] \in {"closed", "gone"}
    BY <1>1 DEF Crash
  <2>4. ContractTypeOK'
    BY <1>1, <2>2 DEF Crash
  <2>5. QED
    BY <2>1, <2>3, <2>4
<1>2. ASSUME NEW m \in Monitors,
             Open(m) \/ Close(m) \/ Fail(m) \/ Revive(m) \/ Notify(m) \/ Remove(m)
      PROVE  ContractTypeOK' /\ Balanced'
  <2>1. CASE Open(m)
    BY <2>1 DEF Open
  <2>2. CASE Close(m)
    BY <2>2 DEF Close
  <2>3. CASE Fail(m)
    BY <2>3 DEF Fail
  <2>4. CASE Revive(m)
    BY <2>4 DEF Revive
  <2>5. CASE Notify(m)
    BY <2>5 DEF Notify
  <2>6. CASE Remove(m)
    BY <2>6 DEF Remove
  <2>7. QED
    BY <1>2, <2>1, <2>2, <2>3, <2>4, <2>5, <2>6
<1>3. CASE UNCHANGED contractVars
  BY <1>3 DEF contractVars
<1>4. QED
  BY <1>1, <1>2, <1>3 DEF Next

\* The contract allows one monitor.error for each time a monitor has been closed,
\* counting the ones still owed, and so never one without a failure.
THEOREM Balance == Spec => []Balanced
<1>1. Init => ContractTypeOK /\ Balanced
  BY DEF Init, ContractTypeOK, Balanced
<1>2. QED
  BY <1>1, StepKeepsBalance, PTL DEF Spec
=============================================================================
