----------------------------- MODULE AtomicWrites -----------------------------
(***************************************************************************)
(* What a caller may take PATCH and the report of a worker for: a write of *)
(* the object in one step, or none at all.  The step is conditional on     *)
(* what the object is when it is taken, but what it writes may be made of  *)
(* any version the object has ever had.  ObjectWrites, with its loops,     *)
(* implements it, and Cluster takes its writes for it.                     *)
(***************************************************************************)
EXTENDS Naturals, Sequences

CONSTANTS Patches, Settings, Request, WithConfig, MaxReports

Fields  == Settings \cup {"url"}
Reports == 1..MaxReports

VARIABLES
    versions, \* of the object: its specification, whether it is active, its statistics
    patch,    \* patch[p]: "new", "begun", "over" or "failed"
    config,   \* config[p]: the configuration p has merged
    made,     \* black-outs counted by the reports so far
    report,   \* report[k]: "sent", "read", "begun", "over" or "failed"
    laid      \* laid[k]: the statistics k is to write

patches == <<patch, config>>
reports == <<made, report, laid>>
writeVars == <<versions, patches, reports>>

NoConfig == [f \in Settings |-> 0]
Nothing  == <<0, 0>>

Init ==
    /\ versions = <<[spec |-> [f \in Fields |-> 0], active |-> TRUE, stats |-> Nothing]>>
    /\ patch = [p \in Patches |-> "new"] /\ config = [p \in Patches |-> NoConfig]
    /\ made = <<>>
    /\ report = [k \in Reports |-> "sent"] /\ laid = [k \in Reports |-> Nothing]

Object == versions[Len(versions)]

\* A write that changes nothing need not make a version.
Becomes(object) ==
    versions' = Append(versions, object) \/ (object = Object /\ UNCHANGED versions)

Finish ==
    /\ Object.active
    /\ Becomes([Object EXCEPT !.active = FALSE])
    /\ UNCHANGED <<patches, reports>>

\* The settings a request names are the request's, the others those of an old version.
Begin(p) ==
    /\ patch[p] = "new"
    /\ patch' = [patch EXCEPT ![p] = "begun"]
    /\ \E v \in 1..Len(versions) :
          config' = [config EXCEPT ![p] =
              [f \in Settings |-> IF f \in DOMAIN Request[p] THEN Request[p][f] ELSE versions[v].spec[f]]]
    /\ UNCHANGED <<versions, reports>>

Ends(p, how) ==
    /\ patch[p] = "begun"
    /\ patch' = [patch EXCEPT ![p] = how] /\ config' = [config EXCEPT ![p] = NoConfig]
    /\ UNCHANGED reports

\* Of an active object only.
Apply(p) ==
    /\ Ends(p, "over")
    /\ Object.active
    /\ Becomes([Object EXCEPT !.spec = [f \in Fields |->
          IF f = "url" THEN IF f \in DOMAIN Request[p] THEN Request[p][f] ELSE Object.spec[f]
          ELSE IF p \in WithConfig THEN config[p][f] ELSE Object.spec[f]]])

Refuse(p) == Ends(p, "over") /\ ~Object.active /\ UNCHANGED versions

GiveUp(p) == Ends(p, "failed") /\ UNCHANGED versions

Make ==
    /\ Len(made') = Len(made) + 1 /\ \A k \in DOMAIN made : made'[k] = made[k]
    /\ UNCHANGED <<versions, patches, report, laid>>

Moves(k, from, to) == report[k] = from /\ report' = [report EXCEPT ![k] = to]

\* A report reopens the monitor, then reads the statistics of an old version, then
\* writes its own over those of the newest.
Reopen(k) ==
    /\ k \in DOMAIN made /\ Moves(k, "sent", "read")
    /\ Becomes([Object EXCEPT !.active = TRUE])
    /\ UNCHANGED <<patches, made, laid>>

Lay(k) ==
    /\ Moves(k, "read", "begun")
    /\ \E v \in 1..Len(versions) :
          laid' = [laid EXCEPT ![k] = <<k, IF made[k] > 0 THEN made[k] ELSE versions[v].stats[2]>>]
    /\ UNCHANGED <<versions, patches, made>>

Put(k) ==
    /\ Moves(k, "begun", "over")
    /\ Becomes([Object EXCEPT !.stats = laid[k]])
    /\ laid' = [laid EXCEPT ![k] = Nothing]
    /\ UNCHANGED <<patches, made>>

Abandon(k) ==
    /\ Moves(k, "begun", "failed")
    /\ laid' = [laid EXCEPT ![k] = Nothing]
    /\ UNCHANGED <<versions, patches, made>>

Next ==
    \/ Finish \/ Make
    \/ \E p \in Patches : Begin(p) \/ Apply(p) \/ Refuse(p) \/ GiveUp(p)
    \/ \E k \in Reports : Reopen(k) \/ Lay(k) \/ Put(k) \/ Abandon(k)

Spec == Init /\ [][Next]_writeVars
===============================================================================
