-------------------------- MODULE ObjectWritesProofs --------------------------
(***************************************************************************)
(* What two handlers that write the same object can do to each other, for  *)
(* any number of PATCH requests over any fields, any number of reports,    *)
(* and any number of attempts at a conflict.                               *)
(***************************************************************************)
EXTENDS ObjectWrites, TLAPS

\* A PATCH at work has merged its configuration into the version "base", and has read a
\* version in which the monitor was active.  It has lost against another write each
\* time it has tried.
PatchOK(p) ==
    /\ patch[p].pc \in {"get", "put"} =>
          /\ merge[p].base >= 1 /\ Len(versions) > patch[p].tries
          /\ \A f \in Settings \ Named(p) :
                merge[p].config[f] = versions[merge[p].base].spec[f]
    /\ patch[p].pc = "put" =>
          patch[p].live > patch[p].tries /\ versions[patch[p].live].active
    /\ patch[p].pc = "failed" => Len(versions) > MaxTries

\* The black-outs the newest report that is written has counted.
Count == IF newest = 0 THEN 0 ELSE made[newest]

\* A report at work has its own count, or, where there is none, one that was written.
ReportOK(k) ==
    /\ report[k].pc # "sent" => k <= Len(made)
    /\ report[k].pc \in {"get", "put"} =>
          /\ Len(versions) > report[k].tries
          /\ laid[k][1] = k
          /\ IF made[k] > 0 THEN laid[k][2] = made[k] ELSE laid[k][2] <= Count
    /\ report[k].pc = "put" => report[k].live > report[k].tries
    /\ report[k].pc = "failed" => Len(versions) > MaxTries

\* What is written of the statistics is no newer than the newest report.
StatsOK ==
    /\ newest <= Len(made)
    /\ \A j, k \in 1..Len(made) : j <= k => made[j] <= made[k]
    /\ \A v \in 1..Len(versions) :
          versions[v].stats[1] <= newest /\ versions[v].stats[2] <= Count

\* A setting that is not what it was has been changed since.
ChangesShow ==
    \A b \in 1..Len(versions), f \in Settings :
        ChangedSince(f, b) \/ Object.spec[f] = versions[b].spec[f]

IInv ==
    /\ TypeOK /\ StatsOK /\ ChangesShow
    /\ \A p \in Patches : PatchOK(p)
    /\ \A k \in Reports : ReportOK(k)

-----------------------------------------------------------------------------
\* What a step does to the versions: nothing, or one more is written.
Grows == versions' = versions \/ \E o \in Version : versions' = Append(versions, o)

LEMMA Kept ==
    ASSUME versions \in Seq(Version), Grows
    PROVE  /\ versions' \in Seq(Version) /\ Len(versions) \in Nat
           /\ Len(versions') \in {Len(versions), Len(versions) + 1}
           /\ \A v \in 1..Len(versions) : versions'[v] = versions[v]
<1>1. CASE versions' = versions
  BY <1>1
<1>2. ASSUME NEW o \in Version, versions' = Append(versions, o)
      PROVE  /\ versions' \in Seq(Version) /\ Len(versions) \in Nat
             /\ Len(versions') \in {Len(versions), Len(versions) + 1}
             /\ \A v \in 1..Len(versions) : versions'[v] = versions[v]
  BY <1>2
<1>3. QED
  BY <1>1, <1>2 DEF Grows

LEMMA ObjectIsVersion ==
    ASSUME TypeOK
    PROVE  /\ Len(versions) \in Nat \ {0} /\ Object \in Version
           /\ versions[cached] \in Version /\ cached \in Nat
<1>1. versions \in Seq(Version) /\ cached \in 1..Len(versions) /\ Len(versions) \in Nat
  BY DEF TypeOK
<1>2. QED
  BY <1>1 DEF Object

LEMMA HistoryKept ==
    ASSUME TypeOK, ChangesShow, Grows PROVE ChangesShow'
<1>1. /\ versions' \in Seq(Version) /\ Len(versions) \in Nat \ {0}
      /\ Len(versions') \in {Len(versions), Len(versions) + 1}
      /\ \A v \in 1..Len(versions) : versions'[v] = versions[v]
  BY Kept, ObjectIsVersion DEF TypeOK
<1>2. SUFFICES ASSUME NEW b \in 1..Len(versions'), NEW f \in Settings,
                      ~ChangedSince(f, b)'
               PROVE  Object'.spec[f] = versions'[b].spec[f]
  BY DEF ChangesShow
<1>3. \A v \in b + 1..Len(versions') : versions'[v].spec[f] = versions'[v - 1].spec[f]
  BY <1>2 DEF ChangedSince
<1>4. CASE b = Len(versions')
  BY <1>4 DEF Object
<1>5. CASE b <= Len(versions)
  <2>1. b \in 1..Len(versions)
    BY <1>1, <1>5
  <2>2. \A v \in b + 1..Len(versions) : versions[v].spec[f] = versions[v - 1].spec[f]
    <3>1. SUFFICES ASSUME NEW v \in b + 1..Len(versions)
                   PROVE  versions[v].spec[f] = versions[v - 1].spec[f]
      OBVIOUS
    <3>2. v \in b + 1..Len(versions') /\ v \in 1..Len(versions) /\ v - 1 \in 1..Len(versions)
      BY <1>1, <2>1
    <3>3. QED
      BY <1>1, <1>3, <3>2
  <2>3. versions[Len(versions)].spec[f] = versions[b].spec[f]
    BY <2>1, <2>2 DEF ChangesShow, ChangedSince, Object
  <2>4. versions'[Len(versions)].spec[f] = versions'[b].spec[f]
    BY <1>1, <2>1, <2>3
  <2>5. CASE Len(versions') = Len(versions)
    BY <2>4, <2>5 DEF Object
  <2>6. CASE Len(versions') = Len(versions) + 1
    <3>1. Len(versions') \in b + 1..Len(versions')
      BY <1>1, <2>1, <2>6
    <3>2. versions'[Len(versions')].spec[f] = versions'[Len(versions')- 1].spec[f]
      BY <1>3, <3>1
    <3>3. Len(versions') - 1 = Len(versions)
      BY <1>1, <2>6
    <3>4. QED
      BY <2>4, <3>2, <3>3 DEF Object
  <2>7. QED
    BY <1>1, <2>5, <2>6
<1>6. QED
  BY <1>1, <1>4, <1>5

\* A PATCH that does not take this step knows what it knew.
LEMMA PatchKept ==
    ASSUME IInv, Grows, NEW p \in Patches, patch'[p] = patch[p], merge'[p] = merge[p]
    PROVE  PatchOK(p)'
<1>1. /\ Len(versions) \in Nat /\ Len(versions') \in {Len(versions), Len(versions) + 1}
      /\ \A v \in 1..Len(versions) : versions'[v] = versions[v]
  BY Kept DEF IInv, TypeOK
<1>2. /\ patch[p] \in Calls({"new", "get", "put", "over", "failed"})
      /\ merge[p] \in [base : Nat, config : [Settings -> Nat]]
      /\ merge[p].base <= Len(versions) /\ patch[p].live <= Len(versions)
      /\ PatchOK(p)
  BY DEF IInv, TypeOK
<1>3. /\ merge[p].base \in Nat /\ patch[p].live \in Nat /\ patch[p].tries \in Nat
      /\ MaxTries \in Nat
  BY <1>2, WritesAssumption DEF Calls
<1>4. /\ merge[p].base >= 1 => versions'[merge[p].base] = versions[merge[p].base]
      /\ patch[p].live >= 1 => versions'[patch[p].live] = versions[patch[p].live]
  BY <1>1, <1>2, <1>3
<1>5. QED
  BY <1>1, <1>2, <1>3, <1>4 DEF PatchOK, Named

LEMMA CountTyped ==
    ASSUME TypeOK, newest <= Len(made) PROVE Count \in Nat /\ newest \in Nat
<1>1. newest \in Nat /\ made \in Seq(Nat)
  BY WritesAssumption DEF TypeOK
<1>2. CASE newest = 0
  BY <1>2 DEF Count
<1>3. CASE newest # 0
  BY <1>1, <1>3 DEF Count
<1>4. QED
  BY <1>1, <1>2, <1>3

\* A report that does not take this step knows what it knew, whatever is written.
LEMMA ReportKept ==
    ASSUME IInv, Grows, NEW k \in Reports, report'[k] = report[k], laid'[k] = laid[k],
           Len(made') \in Nat, Len(made) <= Len(made'),
           \A j \in 1..Len(made) : made'[j] = made[j],
           Count' \in Nat, Count <= Count'
    PROVE  ReportOK(k)'
<1>1. /\ Len(versions) \in Nat /\ Len(versions') \in {Len(versions), Len(versions) + 1}
      /\ Len(made) \in Nat /\ Count \in Nat
  BY Kept, CountTyped DEF IInv, TypeOK, StatsOK
<1>2. /\ report[k] \in Calls({"sent", "read", "get", "put", "over", "failed"})
      /\ report[k].live <= Len(versions) /\ ReportOK(k) /\ k \in Nat \ {0}
      /\ laid[k] \in Nat \X Nat
  BY WritesAssumption DEF IInv, TypeOK, Reports
<1>3. /\ report[k].live \in Nat /\ report[k].tries \in Nat /\ MaxTries \in Nat
      /\ laid[k][2] \in Nat
  BY <1>2, WritesAssumption DEF Calls
<1>4. k <= Len(made) => made'[k] = made[k]
  BY <1>1, <1>2
<1>5. QED
  BY <1>1, <1>2, <1>3, <1>4 DEF ReportOK

LEMMA StatsKept ==
    ASSUME IInv, Grows, UNCHANGED <<made, newest>>,
           versions' = versions \/ Object'.stats = Object.stats
    PROVE  StatsOK'
<1>1. /\ Len(versions) \in Nat \ {0} /\ Len(versions') \in {Len(versions), Len(versions) + 1}
      /\ \A v \in 1..Len(versions) : versions'[v] = versions[v]
  BY Kept, ObjectIsVersion DEF IInv, TypeOK
<1>2. ASSUME NEW v \in 1..Len(versions')
      PROVE  versions'[v].stats[1] <= newest /\ versions'[v].stats[2] <= Count
  <2>1. CASE v \in 1..Len(versions)
    BY <1>1, <2>1 DEF IInv, StatsOK
  <2>2. CASE v = Len(versions) + 1
    <3>1. versions'[v] = Object' /\ Object'.stats = Object.stats
      BY <1>1, <2>2 DEF Object
    <3>2. Object.stats[1] <= newest /\ Object.stats[2] <= Count
      BY <1>1 DEF IInv, StatsOK, Object
    <3>3. QED
      BY <3>1, <3>2
  <2>3. QED
    BY <1>1, <2>1, <2>2
<1>3. Count' = Count
  BY DEF Count
<1>4. QED
  BY <1>2, <1>3 DEF IInv, StatsOK

-----------------------------------------------------------------------------
\* What the frame of every step shows of the types.
LEMMA BoundsKept ==
    ASSUME IInv, Grows
    PROVE  /\ \A p \in Patches :
                 patch[p].live <= Len(versions') /\ merge[p].base <= Len(versions')
           /\ \A k \in Reports : report[k].live <= Len(versions')
           /\ versions' \in Seq(Version) /\ cached \in 1..Len(versions')
           /\ Len(versions') \in Nat /\ Len(versions) <= Len(versions')
<1>1. /\ versions' \in Seq(Version) /\ Len(versions) \in Nat
      /\ Len(versions') \in {Len(versions), Len(versions) + 1}
  BY Kept DEF IInv, TypeOK
<1>2. /\ \A p \in Patches : patch[p].live \in Nat /\ merge[p].base \in Nat
      /\ \A k \in Reports : report[k].live \in Nat
  BY DEF IInv, TypeOK, Calls
<1>3. cached \in 1..Len(versions')
  <2>1. cached \in 1..Len(versions)
    BY DEF IInv, TypeOK
  <2>2. QED
    BY <1>1, <2>1
<1>4. QED
  BY <1>1, <1>2, <1>3 DEF IInv, TypeOK

\* Steps of neither handler.
LEMMA OthersOK ==
    ASSUME IInv, InformerApplies \/ Finish \/ UNCHANGED vars PROVE IInv'
<1>1. Grows /\ (versions' = versions \/ Object'.stats = Object.stats)
  <2>1. CASE Finish
    <3>1. versions' = Append(versions, [Object EXCEPT !.active = FALSE])
      BY <2>1 DEF Finish, Write
    <3>2. [Object EXCEPT !.active = FALSE] \in Version
      BY ObjectIsVersion DEF IInv, Version
    <3>3. Object' = [Object EXCEPT !.active = FALSE]
      BY <3>1, <3>2, ObjectIsVersion DEF IInv, TypeOK, Object
    <3>4. QED
      BY <3>1, <3>2, <3>3, ObjectIsVersion DEF Grows, IInv, Version
  <2>2. QED
    BY <2>1 DEF InformerApplies, vars, Grows
<1>2. UNCHANGED <<patch, merge, made, report, laid, newest>>
  BY DEF InformerApplies, Finish, vars, patches, reports
<1>3. TypeOK'
  <2>1. cached' \in 1..Len(versions')
    <3>1. cached \in 1..Len(versions) /\ Len(versions) \in Nat
      BY ObjectIsVersion DEF IInv, TypeOK
    <3>2. CASE InformerApplies
      BY <3>1, <3>2 DEF InformerApplies
    <3>3. CASE Finish \/ UNCHANGED vars
      BY <1>1, <3>3, BoundsKept DEF Finish, vars
    <3>4. QED
      BY <3>2, <3>3
  <2>2. QED
    BY <1>1, <1>2, <2>1, BoundsKept DEF IInv, TypeOK
<1>4. StatsOK' /\ ChangesShow'
  BY <1>1, <1>2, StatsKept, HistoryKept DEF IInv
<1>5. \A p \in Patches : PatchOK(p)'
  BY <1>1, <1>2, PatchKept
<1>6. \A k \in Reports : ReportOK(k)'
  <2>1. Count' = Count /\ Count \in Nat /\ Len(made) \in Nat
    BY <1>2, CountTyped DEF IInv, TypeOK, StatsOK, Count
  <2>2. QED
    BY <1>1, <1>2, <2>1, ReportKept
<1>7. QED
  BY <1>3, <1>4, <1>5, <1>6 DEF IInv

\* The handler of a PATCH takes a step: what is to be shown of the others is the same
\* for each of its steps.
LEMMA PatchFrame ==
    ASSUME IInv, Grows, NEW p \in Patches,
           NEW call \in Calls({"new", "get", "put", "over", "failed"}),
           NEW merged \in [base : Nat, config : [Settings -> Nat]],
           patch' = [patch EXCEPT ![p] = call], merge' = [merge EXCEPT ![p] = merged],
           call.live <= Len(versions'), merged.base <= Len(versions'),
           UNCHANGED <<cached, made, report, laid, newest>>,
           versions' = versions \/ Object'.stats = Object.stats,
           PatchOK(p)'
    PROVE  IInv'
<1>1. /\ patch \in [Patches -> Calls({"new", "get", "put", "over", "failed"})]
      /\ merge \in [Patches -> [base : Nat, config : [Settings -> Nat]]]
  BY DEF IInv, TypeOK
<1>2. \A q \in Patches : q # p => patch'[q] = patch[q] /\ merge'[q] = merge[q]
  BY <1>1
<1>3. TypeOK'
  <2>1. /\ patch' \in [Patches -> Calls({"new", "get", "put", "over", "failed"})]
        /\ merge' \in [Patches -> [base : Nat, config : [Settings -> Nat]]]
        /\ patch'[p] = call /\ merge'[p] = merged
    BY <1>1
  <2>2. \A q \in Patches :
           patch'[q].live <= Len(versions') /\ merge'[q].base <= Len(versions')
    BY <1>2, <2>1, BoundsKept
  <2>3. QED
    BY <2>1, <2>2, BoundsKept DEF IInv, TypeOK
<1>4. StatsOK' /\ ChangesShow'
  BY StatsKept, HistoryKept DEF IInv
<1>5. \A q \in Patches : PatchOK(q)'
  BY <1>2, PatchKept
<1>6. \A k \in Reports : ReportOK(k)'
  <2>1. Count' = Count /\ Count \in Nat /\ Len(made) \in Nat
    BY CountTyped DEF IInv, TypeOK, StatsOK, Count
  <2>2. QED
    BY <2>1, ReportKept
<1>7. QED
  BY <1>3, <1>4, <1>5, <1>6 DEF IInv

LEMMA CallTyped ==
    ASSUME NEW pc, NEW live \in Nat, NEW tries \in 0..(MaxTries - 1)
    PROVE  /\ \A pcs : pc \in pcs => Call(pc, live, tries) \in Calls(pcs)
           /\ Call(pc, live, tries).pc = pc /\ Call(pc, live, tries).live = live
           /\ Call(pc, live, tries).tries = tries
  BY DEF Call, Calls

LEMMA FirstTry == 0 \in 0..(MaxTries - 1)
  BY WritesAssumption

LEMMA NoMergeTyped ==
    NoMerge \in [base : Nat, config : [Settings -> Nat]] /\ NoMerge.base = 0
  BY DEF NoMerge

\* A lost call has one more write against it.
LEMMA SettlesOK ==
    ASSUME NEW pcs, {"get", "over", "failed"} \subseteq pcs, NEW call \in Calls(pcs),
           Len(versions) \in Nat, call.live <= Len(versions), call.live > call.tries
    PROVE  /\ Settles(call) \in Calls(pcs)
           /\ Settles(call).live = 0
           /\ Settles(call).pc \in {"get", "over", "failed"}
           /\ Settles(call).pc = "over" <=> call.live = Len(versions)
           /\ Settles(call).pc = "get" => Len(versions) > Settles(call).tries
           /\ Settles(call).pc = "failed" => Len(versions) > MaxTries
<1>1. /\ call.tries \in 0..(MaxTries - 1) /\ call.live \in Nat
      /\ MaxTries \in Nat \ {0} /\ call.tries \in Nat
  BY WritesAssumption DEF Calls
<1>2. CASE call.live = Len(versions)
  <2>1. Settles(call) = Call("over", 0, 0)
    BY <1>2 DEF Settles
  <2>2. QED
    BY <1>2, <2>1, FirstTry, CallTyped
<1>3. CASE call.live # Len(versions) /\ call.tries + 1 = MaxTries
  <2>1. Settles(call) = Call("failed", 0, 0)
    BY <1>3 DEF Settles, Lost
  <2>2. Len(versions) > MaxTries
    BY <1>1, <1>3
  <2>3. QED
    BY <1>3, <2>1, <2>2, FirstTry, CallTyped
<1>4. CASE call.live # Len(versions) /\ call.tries + 1 # MaxTries
  <2>1. Settles(call) = Call("get", 0, call.tries + 1)
    BY <1>4 DEF Settles, Lost
  <2>2. Len(versions) > call.tries + 1 /\ call.tries + 1 \in 0..(MaxTries - 1)
    BY <1>1, <1>4
  <2>3. QED
    BY <1>4, <2>1, <2>2, CallTyped
<1>5. QED
  BY <1>2, <1>3, <1>4

-----------------------------------------------------------------------------
LEMMA ReadTyped ==
    ASSUME NEW pcs, "put" \in pcs, NEW call \in Calls(pcs), Len(versions) \in Nat
    PROVE  /\ Read(call) \in Calls(pcs) /\ Read(call).pc = "put"
           /\ Read(call).live = Len(versions) /\ Read(call).tries = call.tries
<1>1. call.tries \in 0..(MaxTries - 1)
  BY DEF Calls
<1>2. QED
  BY <1>1, CallTyped DEF Read

\* What is known of one PATCH before its step.
LEMMA PatchFacts ==
    ASSUME IInv, NEW p \in Patches
    PROVE  /\ patch \in [Patches -> Calls({"new", "get", "put", "over", "failed"})]
           /\ merge \in [Patches -> [base : Nat, config : [Settings -> Nat]]]
           /\ patch[p] \in Calls({"new", "get", "put", "over", "failed"})
           /\ merge[p] \in [base : Nat, config : [Settings -> Nat]]
           /\ patch[p].live <= Len(versions) /\ merge[p].base <= Len(versions)
           /\ Len(versions) \in Nat \ {0} /\ Object \in Version
           /\ patch[p].tries \in Nat /\ patch[p].live \in Nat /\ PatchOK(p)
<1>1. patch[p] \in Calls({"new", "get", "put", "over", "failed"})
  BY DEF IInv, TypeOK
<1>2. patch[p].tries \in Nat /\ patch[p].live \in Nat
  BY <1>1, WritesAssumption DEF Calls
<1>3. QED
  BY <1>1, <1>2, ObjectIsVersion DEF IInv, TypeOK

LEMMA PatchBeginsOK ==
    ASSUME IInv, NEW p \in Patches, PatchBegins(p) PROVE IInv'
<1> DEFINE merged == [base |-> cached, config |-> Merged(p)]
<1>1. /\ patch' = [patch EXCEPT ![p] = Call("get", 0, 0)]
      /\ merge' = [merge EXCEPT ![p] = merged]
      /\ UNCHANGED <<versions, cached, made, report, laid, newest>>
  BY DEF PatchBegins, reports
<1>2. cached \in 1..Len(versions) /\ versions[cached] \in Version /\ cached \in Nat
  BY ObjectIsVersion DEF IInv, TypeOK
<1>3. Merged(p) \in [Settings -> Nat]
  BY <1>2, WritesAssumption DEF Merged, Named, Version, Fields
<1>4. merged \in [base : Nat, config : [Settings -> Nat]] /\ merged.base <= Len(versions)
  BY <1>2, <1>3, PatchFacts
<1>5. /\ Call("get", 0, 0) \in Calls({"new", "get", "put", "over", "failed"})
      /\ Call("get", 0, 0).pc = "get" /\ Call("get", 0, 0).tries = 0
      /\ Call("get", 0, 0).live = 0
  BY FirstTry, CallTyped
<1>6. PatchOK(p)'
  <2>1. patch'[p] = Call("get", 0, 0) /\ merge'[p] = merged
    BY <1>1, PatchFacts
  <2>2. \A f \in Settings \ Named(p) : Merged(p)[f] = versions[cached].spec[f]
    BY DEF Merged
  <2>3. merged.base = cached /\ merged.config = Merged(p)
    OBVIOUS
  <2> HIDE DEF merged
  <2>4. QED
    BY <1>1, <1>2, <1>5, <2>1, <2>2, <2>3, PatchFacts DEF PatchOK, Named
<1> HIDE DEF merged
<1>7. 0 <= Len(versions) /\ Grows
  BY <1>1, PatchFacts DEF Grows
<1>8. QED
  BY <1>1, <1>4, <1>5, <1>6, <1>7, PatchFrame

LEMMA PatchGetsOK ==
    ASSUME IInv, NEW p \in Patches, PatchGets(p) PROVE IInv'
<1>1. /\ patch[p].pc = "get" /\ UNCHANGED <<versions, cached, made, report, laid, newest>>
      /\ Grows
  BY DEF PatchGets, reports, Grows
<1>2. CASE /\ Object.active
           /\ patch' = [patch EXCEPT ![p] = Read(patch[p])]
           /\ UNCHANGED merge
  <2>1. merge' = [merge EXCEPT ![p] = merge[p]]
    BY <1>2, PatchFacts
  <2>2. /\ Read(patch[p]) \in Calls({"new", "get", "put", "over", "failed"})
        /\ Read(patch[p]).pc = "put" /\ Read(patch[p]).live = Len(versions)
        /\ Read(patch[p]).tries = patch[p].tries
    BY ReadTyped, PatchFacts
  <2>3. PatchOK(p)'
    <3>1. patch'[p] = Read(patch[p])
      BY <1>2, PatchFacts
    <3>2. QED
      BY <1>1, <1>2, <2>2, <3>1, PatchFacts DEF PatchOK, Named, Object
  <2>4. Len(versions) <= Len(versions') /\ merge[p].base <= Len(versions')
    BY <1>1, PatchFacts
  <2>5. QED
    BY <1>1, <1>2, <2>1, <2>2, <2>3, <2>4, PatchFacts, PatchFrame
<1>3. CASE /\ patch' = [patch EXCEPT ![p] = Call("over", 0, 0)]
           /\ merge' = [merge EXCEPT ![p] = NoMerge]
  <2>1. /\ Call("over", 0, 0) \in Calls({"new", "get", "put", "over", "failed"})
        /\ Call("over", 0, 0).pc = "over" /\ Call("over", 0, 0).live = 0
    BY FirstTry, CallTyped
  <2>2. PatchOK(p)'
    <3>1. patch'[p] = Call("over", 0, 0)
      BY <1>3, PatchFacts
    <3>2. QED
      BY <2>1, <3>1 DEF PatchOK
  <2>3. 0 <= Len(versions')
    BY <1>1, PatchFacts
  <2>4. QED
    BY <1>1, <1>3, <2>1, <2>2, <2>3, NoMergeTyped, PatchFrame
<1>4. QED
  BY <1>2, <1>3 DEF PatchGets

\* A PATCH writes what it has merged, if it has read the last version, and nothing
\* otherwise.
LEMMA PatchPutsOK ==
    ASSUME IInv, NEW p \in Patches, PatchPuts(p) PROVE IInv'
<1> DEFINE call == Settles(patch[p])
           merged == IF call.pc = "get" THEN merge[p] ELSE NoMerge
<1>1. /\ patch[p].pc = "put" /\ patch' = [patch EXCEPT ![p] = call]
      /\ UNCHANGED <<cached, made, report, laid, newest>>
  BY DEF PatchPuts, reports
<1>2. /\ call \in Calls({"new", "get", "put", "over", "failed"}) /\ call.live = 0
      /\ call.pc \in {"get", "over", "failed"}
      /\ call.pc = "over" <=> patch[p].live = Len(versions)
      /\ call.pc = "get" => Len(versions) > call.tries
      /\ call.pc = "failed" => Len(versions) > MaxTries
  BY <1>1, PatchFacts, SettlesOK DEF PatchOK
<1> HIDE DEF call
<1>3. patch'[p] = call
  BY <1>1, PatchFacts
<1>4. merge' = [merge EXCEPT ![p] = merged]
  BY <1>3, PatchFacts DEF PatchPuts
<1>5. /\ merged \in [base : Nat, config : [Settings -> Nat]]
      /\ merged.base <= Len(versions) /\ merge'[p] = merged
  BY <1>4, PatchFacts, NoMergeTyped
<1>6. Grows /\ (versions' = versions \/ Object'.stats = Object.stats)
  <2>1. CASE versions' = versions
    BY <2>1 DEF Grows
  <2>2. CASE versions' = Append(versions, [Object EXCEPT !.spec = Patched(p)])
    <3>1. Patched(p) \in [Fields -> Nat]
      BY PatchFacts, WritesAssumption DEF Patched, Fields, Named, Version
    <3>2. [Object EXCEPT !.spec = Patched(p)] \in Version
      BY <3>1, PatchFacts DEF Version
    <3>3. Object' = [Object EXCEPT !.spec = Patched(p)]
      BY <2>2, <3>2 DEF Object, IInv, TypeOK
    <3>4. QED
      BY <2>2, <3>2, <3>3, PatchFacts DEF Grows, Version
  <2>3. QED
    BY <2>1, <2>2 DEF PatchPuts, Write
<1>7. merged.base <= Len(versions') /\ 0 <= Len(versions')
  <2>1. Len(versions') \in Nat /\ Len(versions) <= Len(versions')
    BY <1>6, BoundsKept
  <2>2. merged.base \in Nat
    BY <1>5
  <2>3. QED
    BY <1>5, <2>1, <2>2, PatchFacts
<1>8. PatchOK(p)'
  <2>1. CASE call.pc = "over"
    BY <1>3, <2>1 DEF PatchOK
  <2>2. CASE call.pc # "over"
    <3>1. versions' = versions
      BY <1>2, <2>2 DEF PatchPuts
    <3>2. CASE call.pc = "get"
      <4>1. merge'[p] = merge[p]
        BY <1>5, <3>2
      <4>2. QED
        BY <1>1, <1>2, <1>3, <3>1, <3>2, <4>1, PatchFacts DEF PatchOK, Named
    <3>3. CASE call.pc = "failed"
      BY <1>2, <1>3, <3>1, <3>3 DEF PatchOK
    <3>4. QED
      BY <1>2, <2>2, <3>2, <3>3
  <2>3. QED
    BY <2>1, <2>2
<1> HIDE DEF merged
<1>9. QED
  BY <1>1, <1>2, <1>4, <1>5, <1>6, <1>7, <1>8, PatchFrame

-----------------------------------------------------------------------------
\* What is known of one report before its step.
LEMMA ReportFacts ==
    ASSUME IInv, NEW k \in Reports
    PROVE  /\ report \in [Reports -> Calls({"sent", "read", "get", "put", "over", "failed"})]
           /\ laid \in [Reports -> Nat \X Nat]
           /\ report[k] \in Calls({"sent", "read", "get", "put", "over", "failed"})
           /\ laid[k] \in Nat \X Nat /\ report[k].live <= Len(versions)
           /\ Len(versions) \in Nat \ {0} /\ Object \in Version
           /\ report[k].tries \in Nat /\ report[k].live \in Nat /\ ReportOK(k)
           /\ k \in Nat \ {0} /\ k <= MaxReports /\ MaxReports \in Nat
           /\ made \in Seq(Nat) /\ Len(made) \in Nat /\ Count \in Nat
           /\ newest \in Nat /\ newest <= Len(made) /\ newest <= MaxReports
<1>1. report[k] \in Calls({"sent", "read", "get", "put", "over", "failed"})
  BY DEF IInv, TypeOK
<1>2. report[k].tries \in Nat /\ report[k].live \in Nat
  BY <1>1, WritesAssumption DEF Calls
<1>3. made \in Seq(Nat) /\ Len(made) \in Nat
  BY DEF IInv, TypeOK
<1>4. k \in Nat \ {0} /\ k <= MaxReports /\ MaxReports \in Nat
  BY WritesAssumption DEF Reports
<1>5. TypeOK /\ newest <= Len(made) /\ ReportOK(k)
  BY DEF IInv, StatsOK
<1>6. Len(versions) \in Nat \ {0} /\ Object \in Version /\ Count \in Nat /\ newest \in Nat
  BY <1>5, ObjectIsVersion, CountTyped
<1>7. /\ report \in [Reports -> Calls({"sent", "read", "get", "put", "over", "failed"})]
      /\ laid \in [Reports -> Nat \X Nat] /\ laid[k] \in Nat \X Nat
      /\ report[k].live <= Len(versions) /\ newest <= MaxReports
  BY <1>4, <1>5, <1>6 DEF TypeOK
<1>8. QED
  BY <1>1, <1>2, <1>3, <1>4, <1>5, <1>6, <1>7

\* The handler of a report takes a step.
LEMMA ReportFrame ==
    ASSUME IInv, Grows, NEW k \in Reports,
           NEW call \in Calls({"sent", "read", "get", "put", "over", "failed"}),
           NEW stats \in Nat \X Nat,
           report' = [report EXCEPT ![k] = call], laid' = [laid EXCEPT ![k] = stats],
           call.live <= Len(versions'),
           UNCHANGED <<cached, patch, merge, made>>,
           newest' \in 0..MaxReports, Count' \in Nat, Count <= Count',
           StatsOK', ReportOK(k)'
    PROVE  IInv'
<1>1. /\ report \in [Reports -> Calls({"sent", "read", "get", "put", "over", "failed"})]
      /\ laid \in [Reports -> Nat \X Nat] /\ Len(made) \in Nat
  <2>1. made \in Seq(Nat)
    BY DEF IInv, TypeOK
  <2>2. QED
    BY <2>1 DEF IInv, TypeOK
<1>2. \A j \in Reports : j # k => report'[j] = report[j] /\ laid'[j] = laid[j]
  BY <1>1
<1>3. TypeOK'
  <2>1. /\ report' \in [Reports -> Calls({"sent", "read", "get", "put", "over", "failed"})]
        /\ laid' \in [Reports -> Nat \X Nat] /\ report'[k] = call
    BY <1>1
  <2>2. \A j \in Reports : report'[j].live <= Len(versions')
    BY <1>2, <2>1, BoundsKept
  <2>3. QED
    BY <2>1, <2>2, BoundsKept DEF IInv, TypeOK
<1>4. ChangesShow'
  BY HistoryKept DEF IInv
<1>5. \A p \in Patches : PatchOK(p)'
  BY PatchKept
<1>6. \A j \in Reports : ReportOK(j)'
  <2>1. Len(made') \in Nat /\ Len(made) <= Len(made') /\ made' = made
    BY <1>1
  <2>2. \A j \in Reports : j # k => ReportOK(j)'
    BY <1>2, <2>1, ReportKept
  <2>3. QED
    BY <2>2
<1>7. QED
  BY <1>3, <1>4, <1>5, <1>6 DEF IInv

LEMMA MakeReportOK ==
    ASSUME IInv, MakeReport PROVE IInv'
<1> DEFINE so_far == IF made = <<>> THEN 0 ELSE made[Len(made)]
<1>1. /\ Len(made) < MaxReports /\ made' \in {Append(made, so_far), Append(made, so_far + 1)}
      /\ UNCHANGED <<versions, cached, patch, merge, report, laid, newest>> /\ Grows
  BY DEF MakeReport, patches, Grows
<1>2. made \in Seq(Nat) /\ Len(made) \in Nat /\ MaxReports \in Nat /\ so_far \in Nat
  BY WritesAssumption DEF IInv, TypeOK
<1>3. \A j \in 1..Len(made) : made[j] <= so_far
  BY <1>2 DEF IInv, StatsOK
<1> HIDE DEF so_far
<1>4. /\ made' \in Seq(Nat) /\ Len(made') = Len(made) + 1
      /\ \A j \in 1..Len(made) : made'[j] = made[j]
      /\ made'[Len(made) + 1] >= so_far /\ made'[Len(made) + 1] \in Nat
  <2>1. PICK n \in {so_far, so_far + 1} : made' = Append(made, n)
    BY <1>1
  <2>2. n \in Nat /\ n >= so_far
    BY <1>2
  <2>3. QED
    BY <1>2, <2>1, <2>2
<1>5. TypeOK'
  BY <1>1, <1>2, <1>4 DEF IInv, TypeOK
<1>6. Count' = Count /\ newest \in Nat /\ newest <= Len(made) /\ Count \in Nat
  <2>1. newest \in Nat /\ newest <= Len(made) /\ Count \in Nat
    BY CountTyped DEF IInv, StatsOK
  <2>2. QED
    BY <1>1, <1>2, <1>4, <2>1 DEF Count
<1>7. StatsOK'
  <2>1. newest' <= Len(made')
    BY <1>1, <1>2, <1>4, <1>6
  <2>2. ASSUME NEW i \in 1..Len(made'), NEW j \in 1..Len(made'), i <= j
        PROVE  made'[i] <= made'[j]
    <3>1. CASE j \in 1..Len(made)
      <4>1. i \in 1..Len(made)
        BY <1>2, <2>2, <3>1
      <4>2. QED
        BY <1>4, <2>2, <3>1, <4>1 DEF IInv, StatsOK
    <3>2. CASE j = Len(made) + 1 /\ i \in 1..Len(made)
      <4>1. made'[i] <= so_far /\ made'[i] \in Nat
        BY <1>2, <1>3, <1>4, <3>2
      <4>2. QED
        BY <1>2, <1>4, <3>2, <4>1
    <3>3. CASE i = Len(made) + 1 /\ j = Len(made) + 1
      BY <1>4, <3>3
    <3>4. QED
      BY <1>2, <1>4, <2>2, <3>1, <3>2, <3>3
  <2>3. QED
    BY <1>1, <1>6, <2>1, <2>2 DEF IInv, StatsOK
<1>8. ChangesShow' /\ (\A p \in Patches : PatchOK(p)')
  BY <1>1, HistoryKept, PatchKept DEF IInv
<1>9. \A k \in Reports : ReportOK(k)'
  BY <1>1, <1>2, <1>4, <1>6, ReportKept
<1>10. QED
  BY <1>5, <1>7, <1>8, <1>9 DEF IInv

LEMMA ReportPhaseOK ==
    ASSUME IInv, NEW k \in Reports, ReportPhase(k) PROVE IInv'
<1>1. /\ k <= Len(made) /\ report' = [report EXCEPT ![k] = Call("read", 0, 0)]
      /\ UNCHANGED <<cached, patch, merge, made, laid, newest>>
  BY DEF ReportPhase, patches
<1>2. Grows /\ (versions' = versions \/ Object'.stats = Object.stats)
  <2>1. CASE versions' = versions
    BY <2>1 DEF Grows
  <2>2. CASE versions' = Append(versions, [Object EXCEPT !.active = TRUE])
    <3>1. [Object EXCEPT !.active = TRUE] \in Version
      BY ReportFacts DEF Version
    <3>2. Object' = [Object EXCEPT !.active = TRUE]
      BY <2>2, <3>1 DEF Object, IInv, TypeOK
    <3>3. QED
      BY <2>2, <3>1, <3>2, ReportFacts DEF Grows, Version
  <2>3. QED
    BY <2>1, <2>2 DEF ReportPhase, Write
<1>3. /\ Call("read", 0, 0) \in Calls({"sent", "read", "get", "put", "over", "failed"})
      /\ Call("read", 0, 0).pc = "read" /\ Call("read", 0, 0).live = 0
  BY FirstTry, CallTyped
<1>4. StatsOK' /\ Count' = Count
  BY <1>1, <1>2, StatsKept DEF Count
<1>5. ReportOK(k)'
  <2>1. report'[k] = Call("read", 0, 0)
    BY <1>1, ReportFacts
  <2>2. QED
    BY <1>1, <1>3, <2>1 DEF ReportOK
<1>6. laid' = [laid EXCEPT ![k] = laid[k]] /\ 0 <= Len(versions')
  <2>1. Len(versions') \in Nat
    BY <1>2, BoundsKept
  <2>2. QED
    BY <1>1, <2>1, ReportFacts
<1>7. newest' \in 0..MaxReports /\ Count' \in Nat /\ Count <= Count'
  BY <1>1, <1>4, ReportFacts
<1>8. QED
  BY <1>1, <1>2, <1>3, <1>4, <1>5, <1>6, <1>7, ReportFacts, ReportFrame

LEMMA ReportReadsOK ==
    ASSUME IInv, NEW k \in Reports, ReportReads(k) PROVE IInv'
<1> DEFINE old   == versions[cached].stats[2]
           stats == <<k, IF made[k] > 0 THEN made[k] ELSE old>>
<1>1. /\ report[k].pc = "read" /\ report' = [report EXCEPT ![k] = Call("get", 0, 0)]
      /\ laid' = [laid EXCEPT ![k] = stats]
      /\ UNCHANGED <<versions, cached, patch, merge, made, newest>> /\ Grows
  BY DEF ReportReads, Counted, patches, Grows
<1>2. k <= Len(made) /\ made[k] \in Nat /\ old \in Nat /\ old <= Count
  <2>1. k <= Len(made) /\ made[k] \in Nat
    BY <1>1, ReportFacts DEF ReportOK
  <2>2. versions[cached] \in Version /\ cached \in 1..Len(versions)
    BY ObjectIsVersion DEF IInv, TypeOK
  <2>3. QED
    BY <2>1, <2>2 DEF IInv, StatsOK, Version
<1>3. stats \in Nat \X Nat /\ stats[1] = k
      /\ IF made[k] > 0 THEN stats[2] = made[k] ELSE stats[2] <= Count
  BY <1>2, ReportFacts
<1> HIDE DEF stats
<1>4. /\ Call("get", 0, 0) \in Calls({"sent", "read", "get", "put", "over", "failed"})
      /\ Call("get", 0, 0).pc = "get" /\ Call("get", 0, 0).live = 0
      /\ Call("get", 0, 0).tries = 0
  BY FirstTry, CallTyped
<1>5. StatsOK' /\ Count' = Count
  BY <1>1, StatsKept DEF Count
<1>6. ReportOK(k)'
  <2>1. report'[k] = Call("get", 0, 0) /\ laid'[k] = stats
    BY <1>1, ReportFacts
  <2>2. QED
    BY <1>1, <1>2, <1>3, <1>4, <1>5, <2>1, ReportFacts DEF ReportOK
<1>7. 0 <= Len(versions') /\ newest' \in 0..MaxReports /\ Count' \in Nat /\ Count <= Count'
  BY <1>1, <1>5, ReportFacts
<1>8. QED
  BY <1>1, <1>3, <1>4, <1>5, <1>6, <1>7, ReportFrame

LEMMA ReportGetsOK ==
    ASSUME IInv, NEW k \in Reports, ReportGets(k) PROVE IInv'
<1>1. /\ report[k].pc = "get" /\ report' = [report EXCEPT ![k] = Read(report[k])]
      /\ UNCHANGED <<versions, cached, patch, merge, made, laid, newest>> /\ Grows
  BY DEF ReportGets, patches, Grows
<1>2. /\ Read(report[k]) \in Calls({"sent", "read", "get", "put", "over", "failed"})
      /\ Read(report[k]).pc = "put" /\ Read(report[k]).live = Len(versions)
      /\ Read(report[k]).tries = report[k].tries
  BY ReadTyped, ReportFacts
<1>3. StatsOK' /\ Count' = Count
  BY <1>1, StatsKept DEF Count
<1>4. ReportOK(k)'
  <2>1. report'[k] = Read(report[k])
    BY <1>1, ReportFacts
  <2>2. QED
    BY <1>1, <1>2, <1>3, <2>1, ReportFacts DEF ReportOK
<1>5. laid' = [laid EXCEPT ![k] = laid[k]] /\ Len(versions) <= Len(versions')
  BY <1>1, ReportFacts
<1>6. newest' \in 0..MaxReports /\ Count' \in Nat /\ Count <= Count'
  BY <1>1, <1>3, ReportFacts
<1>7. QED
  BY <1>1, <1>2, <1>3, <1>4, <1>5, <1>6, ReportFacts, ReportFrame

\* What a report writes is no newer than the newest report.
LEMMA ReportPutsOK ==
    ASSUME IInv, NEW k \in Reports, ReportPuts(k) PROVE IInv'
<1> DEFINE call  == Settles(report[k])
           stats == IF call.pc = "get" THEN laid[k] ELSE Nothing
<1>1. /\ report[k].pc = "put" /\ report' = [report EXCEPT ![k] = call]
      /\ UNCHANGED <<cached, patch, merge, made>>
  BY DEF ReportPuts, patches
<1>2. /\ call \in Calls({"sent", "read", "get", "put", "over", "failed"}) /\ call.live = 0
      /\ call.pc \in {"get", "over", "failed"}
      /\ call.pc = "over" <=> report[k].live = Len(versions)
      /\ call.pc = "get" => Len(versions) > call.tries
      /\ call.pc = "failed" => Len(versions) > MaxTries
  BY <1>1, ReportFacts, SettlesOK DEF ReportOK
<1> HIDE DEF call
<1>3. report'[k] = call
  BY <1>1, ReportFacts
<1>4. laid' = [laid EXCEPT ![k] = stats]
  BY <1>3, ReportFacts DEF ReportPuts
<1>5. stats \in Nat \X Nat /\ laid'[k] = stats
  BY <1>4, ReportFacts DEF Nothing
<1>6. /\ k <= Len(made) /\ made[k] \in Nat /\ laid[k][1] = k
      /\ IF made[k] > 0 THEN laid[k][2] = made[k] ELSE laid[k][2] <= Count
  BY <1>1, ReportFacts DEF ReportOK
<1>7. CASE report[k].live = Len(versions)
  <2>1. /\ versions' = Append(versions, [Object EXCEPT !.stats = laid[k]])
        /\ newest' = IF k > newest THEN k ELSE newest
    BY <1>7 DEF ReportPuts, Write
  <2>2. [Object EXCEPT !.stats = laid[k]] \in Version
    BY ReportFacts DEF Version
  <2>3. Grows
    BY <2>1, <2>2 DEF Grows
  <2>4. Object'.stats = laid[k] /\ Len(versions') = Len(versions) + 1
    <3>1. Object' = [Object EXCEPT !.stats = laid[k]] /\ Len(versions') = Len(versions) + 1
      BY <2>1, <2>2 DEF Object, IInv, TypeOK
    <3>2. QED
      BY <3>1, ReportFacts DEF Version
  <2>5. newest' \in 0..MaxReports /\ newest <= newest' /\ k <= newest' /\ newest' <= Len(made)
    BY <1>6, <2>1, ReportFacts
  <2>6. Count' \in Nat /\ Count <= Count' /\ made[k] <= Count'
    <3>1. \A i, j \in 1..Len(made) : i <= j => made[i] <= made[j]
      BY DEF IInv, StatsOK
    <3>2. newest' \in 1..Len(made) /\ k \in 1..Len(made) /\ Count' = made[newest']
      BY <1>1, <1>6, <2>5, ReportFacts DEF Count
    <3>3. made[newest'] \in Nat /\ made[k] <= made[newest']
      BY <2>5, <3>1, <3>2, ReportFacts
    <3>4. Count <= made[newest']
      <4>1. CASE newest = 0
        BY <3>3, <4>1 DEF Count
      <4>2. CASE newest # 0
        <5>1. newest \in 1..Len(made) /\ Count = made[newest]
          BY <4>2, ReportFacts DEF Count
        <5>2. QED
          BY <2>5, <3>1, <3>2, <5>1
      <4>3. QED
        BY <4>1, <4>2
    <3>5. QED
      BY <3>2, <3>3, <3>4
  <2>7. laid[k][1] <= newest' /\ laid[k][2] <= Count'
    <3>1. laid[k][2] \in Nat
      BY ReportFacts
    <3>2. QED
      BY <1>6, <2>5, <2>6, <3>1, ReportFacts
  <2>8. StatsOK'
    <3>1. ASSUME NEW v \in 1..Len(versions')
          PROVE  versions'[v].stats[1] <= newest' /\ versions'[v].stats[2] <= Count'
      <4>1. CASE v \in 1..Len(versions)
        <5>1. versions'[v] = versions[v] /\ versions[v] \in Version
          BY <2>3, <4>1, Kept DEF IInv, TypeOK
        <5>2. versions[v].stats[1] \in Nat /\ versions[v].stats[2] \in Nat
          BY <5>1 DEF Version
        <5>3. versions[v].stats[1] <= newest /\ versions[v].stats[2] <= Count
          BY <4>1 DEF IInv, StatsOK
        <5>4. newest \in Nat /\ newest' \in Nat /\ Count \in Nat
          BY <2>5, ReportFacts
        <5>5. versions[v].stats[1] <= newest' /\ versions[v].stats[2] <= Count'
          BY <2>5, <2>6, <5>2, <5>3, <5>4
        <5>6. QED
          BY <5>1, <5>5
      <4>2. CASE v = Len(versions) + 1
        <5>1. versions'[v].stats = laid[k]
          BY <2>4, <4>2 DEF Object
        <5>2. QED
          BY <2>7, <5>1
      <4>3. QED
        BY <2>4, <4>1, <4>2, ReportFacts
    <3>2. QED
      BY <1>1, <2>5, <3>1 DEF IInv, StatsOK
  <2>9. ReportOK(k)' /\ 0 <= Len(versions')
    <3>1. call.pc = "over" /\ Len(versions') \in Nat
      BY <1>2, <1>7, <2>3, BoundsKept
    <3>2. QED
      BY <1>1, <1>3, <1>6, <3>1 DEF ReportOK
  <2> HIDE DEF stats
  <2>10. QED
    BY <1>1, <1>2, <1>4, <1>5, <2>3, <2>5, <2>6, <2>8, <2>9, ReportFrame
<1>8. CASE report[k].live # Len(versions)
  <2>1. versions' = versions /\ newest' = newest /\ Grows
    BY <1>8 DEF ReportPuts, Grows
  <2>2. StatsOK' /\ Count' = Count
    BY <1>1, <2>1, StatsKept DEF Count
  <2>3. ReportOK(k)'
    <3>1. call.pc = "get" => laid'[k] = laid[k]
      BY <1>5
    <3>2. CASE call.pc = "get"
      BY <1>1, <1>2, <1>3, <1>6, <2>1, <2>2, <3>1, <3>2 DEF ReportOK
    <3>3. CASE call.pc = "failed"
      BY <1>1, <1>2, <1>3, <1>6, <2>1, <3>3 DEF ReportOK
    <3>4. QED
      BY <1>2, <1>8, <3>2, <3>3
  <2>4. newest' \in 0..MaxReports /\ Count' \in Nat /\ Count <= Count' /\ 0 <= Len(versions')
    BY <2>1, <2>2, ReportFacts
  <2> HIDE DEF stats
  <2>5. QED
    BY <1>1, <1>2, <1>4, <1>5, <2>1, <2>2, <2>3, <2>4, ReportFrame
<1>9. QED
  BY <1>7, <1>8

-----------------------------------------------------------------------------
LEMMA InitOK ==
    ASSUME Init PROVE IInv
<1>1. /\ Len(versions) = 1 /\ versions \in Seq(Version) /\ cached = 1
      /\ versions[1].stats = Nothing /\ newest = 0
  BY DEF Init, Version, Nothing
<1>2. TypeOK
  <2>1. /\ \A pcs : "new" \in pcs => Call("new", 0, 0) \in Calls(pcs)
        /\ \A pcs : "sent" \in pcs => Call("sent", 0, 0) \in Calls(pcs)
        /\ Call("new", 0, 0).live = 0 /\ Call("sent", 0, 0).live = 0
    BY FirstTry, CallTyped
  <2>2. cached \in 1..Len(versions) /\ made \in Seq(Nat) /\ Len(made) = 0
    BY <1>1 DEF Init
  <2>3. laid \in [Reports -> Nat \X Nat]
    BY DEF Init, Nothing
  <2>4. MaxReports \in Nat
    BY WritesAssumption
  <2>5. QED
    BY <1>1, <2>1, <2>2, <2>3, <2>4, NoMergeTyped DEF Init, TypeOK
<1>3. Count = 0 /\ Len(made) = 0
  BY <1>1 DEF Init, Count
<1>4. StatsOK
  BY <1>1, <1>3 DEF StatsOK, Nothing
<1>5. ChangesShow
  BY <1>1 DEF ChangesShow, Object
<1>6. /\ \A p \in Patches : PatchOK(p)
      /\ \A k \in Reports : ReportOK(k)
  BY DEF Init, Call, PatchOK, ReportOK
<1>7. QED
  BY <1>2, <1>4, <1>5, <1>6 DEF IInv

THEOREM Invariance == Spec => []IInv
<1>1. IInv /\ [Next]_vars => IInv'
  BY OthersOK, MakeReportOK, PatchBeginsOK, PatchGetsOK, PatchPutsOK, ReportPhaseOK,
     ReportReadsOK, ReportGetsOK, ReportPutsOK DEF Next
<1>2. QED
  BY <1>1, InitOK, PTL DEF Spec

\* The variables always have their types.
THEOREM TypeCorrect == Spec => []TypeOK
<1>1. IInv => TypeOK
  BY DEF IInv
<1>2. QED
  BY <1>1, Invariance, PTL

\* A call only fails by conflicts after as many other writes as it has tried
\* (RetryOnConflict in store.go).
THEOREM ConflictsAlwaysNeedWriters == Spec => []ConflictsNeedWriters
<1>1. IInv => ConflictsNeedWriters
  BY DEF IInv, PatchOK, ReportOK, ConflictsNeedWriters
<1>2. QED
  BY <1>1, Invariance, PTL

\* PATCH writes nothing into a monitor that has ended, however many attempts it takes
\* (store.go:591-600).
THEOREM EndedIsSpared == Spec => PatchSparesEnded
<1>1. ASSUME IInv, Next, versions'[Len(versions')].spec # Object.spec PROVE Object.active
  <2>1. ASSUME NEW p \in Patches, PatchPuts(p) PROVE Object.active
    <3>1. patch[p].live = Len(versions) /\ patch[p].pc = "put"
      BY <1>1, <2>1 DEF PatchPuts, Object
    <3>2. QED
      BY <1>1, <3>1 DEF IInv, PatchOK, Object
  <2>2. ASSUME NEW object, versions' = Append(versions, object), object.spec = Object.spec
        PROVE  FALSE
    <3>1. Len(versions') = Len(versions) + 1 /\ versions'[Len(versions) + 1] = object
      BY <1>1, <2>2 DEF IInv, TypeOK
    <3>2. QED
      BY <1>1, <2>2, <3>1
  <2>3. versions' # versions
    BY <1>1 DEF Object
  <2>4. Object \in Version
    BY <1>1, ObjectIsVersion DEF IInv
  <2>5. ~Finish
    <3>1. [Object EXCEPT !.active = FALSE].spec = Object.spec
      BY <2>4 DEF Version
    <3>2. QED
      BY <2>2, <3>1 DEF Finish, Write
  <2>6. \A k \in Reports : ~ReportPhase(k)
    <3>1. [Object EXCEPT !.active = TRUE].spec = Object.spec
      BY <2>4 DEF Version
    <3>2. QED
      BY <2>2, <2>3, <3>1 DEF ReportPhase, Write
  <2>7. \A k \in Reports : ~ReportPuts(k)
    <3>1. \A k \in Reports : [Object EXCEPT !.stats = laid[k]].spec = Object.spec
      BY <2>4 DEF Version
    <3>2. QED
      BY <2>2, <2>3, <3>1 DEF ReportPuts, Write
  <2>8. QED
    BY <1>1, <2>1, <2>3, <2>5, <2>6, <2>7
       DEF Next, InformerApplies, MakeReport, PatchBegins, PatchGets, ReportReads, ReportGets
<1>2. QED
  BY <1>1, Invariance, PTL DEF Spec, PatchSparesEnded

\* A PATCH takes back what it does not name only if that has been changed since the
\* version it was merged into, and the callback URL never (handlers.go:640-660).
THEOREM UpdatesLostByLag == Spec => LostUpdateNeedsLag
<1>1. ASSUME IInv, NEW p \in Patches, NEW f \in Fields, PatchPuts(p), f \notin Named(p),
             versions'[Len(versions')].spec[f] # Object.spec[f]
      PROVE  f # "url" /\ ChangedSince(f, merge[p].base)
  <2>1. versions' = Append(versions, [Object EXCEPT !.spec = Patched(p)])
    BY <1>1 DEF PatchPuts, Write, Object
  <2>2. /\ Object \in Version /\ PatchOK(p) /\ patch[p].pc = "put"
        /\ merge[p].base <= Len(versions) /\ merge[p].base \in Nat
        /\ Len(versions) \in Nat
    <3>1. patch[p].pc = "put"
      BY <1>1 DEF PatchPuts
    <3>2. QED
      BY <1>1, <3>1, PatchFacts
  <2>3. versions'[Len(versions')] = [Object EXCEPT !.spec = Patched(p)]
    <3>1. /\ Len(versions') = Len(versions) + 1
          /\ versions'[Len(versions) + 1] = [Object EXCEPT !.spec = Patched(p)]
      BY <1>1, <2>1 DEF IInv, TypeOK
    <3>2. QED
      BY <3>1
  <2>4. versions'[Len(versions')].spec = Patched(p)
    BY <2>2, <2>3 DEF Version
  <2>5. Patched(p)[f] # Object.spec[f]
    BY <1>1, <2>4
  <2>6. f # "url" /\ Patched(p)[f] = merge[p].config[f]
    BY <1>1, <2>5 DEF Patched
  <2>7. f \in Settings \ Named(p)
    BY <1>1, <2>6 DEF Fields
  <2>8. merge[p].base >= 1 /\ merge[p].config[f] = versions[merge[p].base].spec[f]
    BY <2>2, <2>7 DEF PatchOK
  <2>9. merge[p].base \in 1..Len(versions)
    BY <2>2, <2>8
  <2>10. QED
    BY <1>1, <2>5, <2>6, <2>7, <2>8, <2>9 DEF IInv, ChangesShow
<1>2. IInv /\ [Next]_vars => [\A p \in Patches, f \in Fields :
          PatchPuts(p) /\ f \notin Named(p) /\ versions'[Len(versions')].spec[f] # Object.spec[f] =>
              f # "url" /\ ChangedSince(f, merge[p].base)]_vars
  BY <1>1
<1>3. QED
  BY <1>2, Invariance, PTL DEF Spec, LostUpdateNeedsLag

\* Statistics only go back when a report is written after a later one, whatever copy
\* they are laid over (handlers.go:482-520).
THEOREM StatsBackByOvertaking == Spec => StatsBackNeedsOvertaking
<1>1. ASSUME IInv, NEW k \in Reports, ReportPuts(k), newest < k
      PROVE  /\ versions'[Len(versions')].stats[1] >= Object.stats[1]
             /\ versions'[Len(versions')].stats[2] >= Object.stats[2]
  <2>1. /\ Object.stats[1] \in Nat /\ Object.stats[2] \in Nat /\ Len(versions) \in Nat \ {0}
        /\ Object \in Version
    BY <1>1, ReportFacts DEF Version
  <2>2. CASE versions' = versions
    BY <2>1, <2>2 DEF Object
  <2>3. CASE versions' = Append(versions, [Object EXCEPT !.stats = laid[k]])
    <3>1. versions'[Len(versions')] = [Object EXCEPT !.stats = laid[k]]
      <4>1. /\ Len(versions') = Len(versions) + 1
            /\ versions'[Len(versions) + 1] = [Object EXCEPT !.stats = laid[k]]
        BY <1>1, <2>3 DEF IInv, TypeOK
      <4>2. QED
        BY <4>1
    <3>2. versions'[Len(versions')].stats = laid[k]
      BY <2>1, <3>1 DEF Version
    <3>3. Object.stats[1] <= newest /\ Object.stats[2] <= Count
      BY <1>1, <2>1 DEF IInv, StatsOK, Object
    <3>4. /\ k <= Len(made) /\ made[k] \in Nat /\ laid[k][1] = k /\ laid[k][2] \in Nat
          /\ made[k] > 0 => laid[k][2] = made[k]
      BY <1>1, ReportFacts DEF ReportPuts, ReportOK
    <3>5. Count <= made[k] /\ Count \in Nat /\ newest \in Nat /\ k \in Nat
      <4>1. CASE newest = 0
        BY <1>1, <3>4, <4>1, ReportFacts DEF Count
      <4>2. CASE newest # 0
        <5>1. newest \in 1..Len(made) /\ k \in 1..Len(made) /\ newest <= k
          BY <1>1, <3>4, <4>2, ReportFacts
        <5>2. QED
          BY <1>1, <4>2, <5>1, ReportFacts DEF IInv, StatsOK, Count
      <4>3. QED
        BY <4>1, <4>2
    <3>6. laid[k][1] >= Object.stats[1]
      BY <1>1, <2>1, <3>3, <3>4, <3>5
    <3>7. laid[k][2] >= Object.stats[2]
      BY <2>1, <3>3, <3>4, <3>5
    <3>8. QED
      BY <3>2, <3>6, <3>7
  <2>4. QED
    BY <1>1, <2>2, <2>3 DEF ReportPuts, Write
<1>2. IInv /\ [Next]_vars => [\A k \in Reports :
          ReportPuts(k) /\ newest < k =>
              LET stats == versions'[Len(versions')].stats IN
              stats[1] >= Object.stats[1] /\ stats[2] >= Object.stats[2]]_vars
  BY <1>1
<1>3. QED
  BY <1>2, Invariance, PTL DEF Spec, StatsBackNeedsOvertaking

-----------------------------------------------------------------------------
(***************************************************************************)
(* The loops implement writes in one step.                                 *)
(***************************************************************************)

\* A variable that stays shows the same.
LEMMA SameShows ==
    /\ patch' = patch => PatchStage' = PatchStage
    /\ merge' = merge => PatchConfig' = PatchConfig
    /\ report' = report => ReportStage' = ReportStage
BY DEF PatchStage, PatchConfig, ReportStage

\* A step of a loop that does not end it is not seen.
LEMMA PatchUnseen ==
    ASSUME IInv, NEW p \in Patches, NEW call, patch' = [patch EXCEPT ![p] = call],
           Trying(call) = Trying(patch[p]), merge' = merge
    PROVE  PatchStage' = PatchStage /\ PatchConfig' = PatchConfig
<1>1. merge' = [merge EXCEPT ![p] = merge[p]]
  BY PatchFacts
<1>2. PatchStage' = [PatchStage EXCEPT ![p] = Trying(patch[p])]
  BY PatchFacts DEF PatchStage
<1>3. QED
  BY <1>1, <1>2, SameShows DEF PatchStage

LEMMA ReportUnseen ==
    ASSUME IInv, NEW k \in Reports, NEW call, report' = [report EXCEPT ![k] = call],
           Trying(call) = Trying(report[k])
    PROVE  ReportStage' = ReportStage
<1>1. ReportStage' = [ReportStage EXCEPT ![k] = Trying(report[k])]
  BY ReportFacts DEF ReportStage
<1>2. QED
  BY <1>1 DEF ReportStage

LEMMA OthersShow ==
    ASSUME IInv, InformerApplies \/ Finish \/ MakeReport \/ UNCHANGED vars
    PROVE  [Writes!Next]_Writes!writeVars
<1> USE SameShows DEF Writes!writeVars, Writes!patches, Writes!reports
<1>1. CASE InformerApplies \/ UNCHANGED vars
  BY <1>1 DEF InformerApplies, vars, patches, reports
<1>2. CASE Finish
  <2>1. Writes!Finish
    BY <1>2 DEF Finish, Write, patches, reports, Object, Writes!Finish, Writes!Becomes,
           Writes!Object
  <2>2. QED
    BY <2>1 DEF Writes!Next
<1>3. CASE MakeReport
  <2>1. PICK n : made' = Append(made, n)
    BY <1>3 DEF MakeReport
  <2>2. made \in Seq(Nat)
    BY DEF IInv, TypeOK
  <2>3. Len(made') = Len(made) + 1 /\ \A k \in DOMAIN made : made'[k] = made[k]
    BY <2>1, <2>2
  <2>4. Writes!Make
    BY <1>3, <2>3 DEF MakeReport, patches, Writes!Make
  <2>5. QED
    BY <2>4 DEF Writes!Next
<1>4. QED
  BY <1>1, <1>2, <1>3

LEMMA PatchBeginsShows ==
    ASSUME IInv, NEW p \in Patches, PatchBegins(p) PROVE Writes!Begin(p)
<1> DEFINE merged == [base |-> cached, config |-> Merged(p)]
<1>1. /\ patch[p].pc = "new" /\ patch' = [patch EXCEPT ![p] = Call("get", 0, 0)]
      /\ merge' = [merge EXCEPT ![p] = merged] /\ versions' = versions /\ UNCHANGED reports
  BY DEF PatchBegins
<1>2. Call("get", 0, 0).pc = "get" /\ merged.config = Merged(p)
  BY DEF Call
<1> HIDE DEF merged
<1>3. /\ PatchStage' = [PatchStage EXCEPT ![p] = "begun"] /\ PatchStage[p] = "new"
      /\ PatchConfig' = [PatchConfig EXCEPT ![p] = Merged(p)]
  BY <1>1, <1>2, PatchFacts DEF PatchStage, PatchConfig, Trying
<1>4. Merged(p) = [f \in Settings |->
          IF f \in DOMAIN Request[p] THEN Request[p][f] ELSE versions[cached].spec[f]]
  BY DEF Merged, Named
<1>5. cached \in 1..Len(versions) /\ ReportStage' = ReportStage
  BY <1>1, SameShows DEF IInv, TypeOK, reports
<1>6. QED
  BY <1>1, <1>3, <1>4, <1>5 DEF reports, Writes!Begin, Writes!reports

LEMMA PatchGetsShows ==
    ASSUME IInv, NEW p \in Patches, PatchGets(p)
    PROVE  Writes!Refuse(p) \/ UNCHANGED Writes!writeVars
<1>1. patch[p].pc = "get" /\ versions' = versions /\ UNCHANGED reports
  BY DEF PatchGets
<1>2. ReportStage' = ReportStage
  BY <1>1, SameShows DEF reports
<1>3. CASE Object.active
  <2>1. patch' = [patch EXCEPT ![p] = Read(patch[p])] /\ merge' = merge
    BY <1>3, PatchFacts DEF PatchGets
  <2>2. Trying(Read(patch[p])) = Trying(patch[p])
    BY <1>1 DEF Read, Call, Trying
  <2>3. PatchStage' = PatchStage /\ PatchConfig' = PatchConfig
    BY <2>1, <2>2, PatchUnseen
  <2>4. QED
    BY <1>1, <1>2, <2>3 DEF reports, Writes!writeVars, Writes!patches, Writes!reports
<1>4. CASE ~Object.active
  <2>1. /\ patch' = [patch EXCEPT ![p] = Call("over", 0, 0)]
        /\ merge' = [merge EXCEPT ![p] = NoMerge]
    BY <1>4 DEF PatchGets
  <2>2. Call("over", 0, 0).pc = "over" /\ NoMerge.config = [f \in Settings |-> 0]
    BY DEF Call, NoMerge
  <2>3. /\ PatchStage' = [PatchStage EXCEPT ![p] = "over"] /\ PatchStage[p] = "begun"
        /\ PatchConfig' = [PatchConfig EXCEPT ![p] = [f \in Settings |-> 0]]
    BY <1>1, <2>1, <2>2, PatchFacts DEF PatchStage, PatchConfig, Trying
  <2>4. QED
    BY <1>1, <1>2, <1>4, <2>3 DEF reports, Object, Writes!Refuse, Writes!Ends,
       Writes!NoConfig, Writes!Object, Writes!reports
<1>5. QED
  BY <1>3, <1>4

LEMMA PatchPutsShows ==
    ASSUME IInv, NEW p \in Patches, PatchPuts(p)
    PROVE  Writes!Apply(p) \/ Writes!GiveUp(p) \/ UNCHANGED Writes!writeVars
<1> DEFINE call == Settles(patch[p])
<1>1. /\ patch[p].pc = "put" /\ patch' = [patch EXCEPT ![p] = call] /\ patch'[p] = call
      /\ UNCHANGED reports /\ merge' = IF call.pc = "get" THEN merge
                                       ELSE [merge EXCEPT ![p] = NoMerge]
  BY PatchFacts DEF PatchPuts
<1>2. call.pc \in {"get", "over", "failed"} /\ (call.pc = "over" <=> patch[p].live = Len(versions))
  BY <1>1, PatchFacts, SettlesOK DEF PatchOK
<1>3. ReportStage' = ReportStage
  BY <1>1, SameShows DEF reports
<1> HIDE DEF call
<1>4. ASSUME call.pc # "get"
      PROVE  /\ PatchStage' = [PatchStage EXCEPT ![p] = call.pc] /\ PatchStage[p] = "begun"
             /\ PatchConfig' = [PatchConfig EXCEPT ![p] = [f \in Settings |-> 0]]
             /\ PatchConfig[p] = merge[p].config
  <2>1. merge' = [merge EXCEPT ![p] = NoMerge] /\ NoMerge.config = [f \in Settings |-> 0]
    BY <1>1, <1>4 DEF NoMerge
  <2>2. Trying(call) = call.pc /\ Trying(patch[p]) = "begun"
    BY <1>1, <1>2, <1>4 DEF Trying
  <2>3. QED
    BY <1>1, <2>1, <2>2, PatchFacts DEF PatchStage, PatchConfig
<1>5. CASE call.pc = "get"
  <2>1. versions' = versions /\ merge' = merge /\ Trying(call) = Trying(patch[p])
    BY <1>1, <1>2, <1>5 DEF PatchPuts, Trying
  <2>2. PatchStage' = PatchStage /\ PatchConfig' = PatchConfig
    BY <1>1, <2>1, PatchUnseen
  <2>3. QED
    BY <1>1, <1>3, <2>1, <2>2 DEF reports, Writes!writeVars, Writes!patches, Writes!reports
<1>6. CASE call.pc = "failed"
  <2>1. versions' = versions
    BY <1>2, <1>6 DEF PatchPuts
  <2>2. QED
    BY <1>1, <1>3, <1>4, <1>6, <2>1 DEF reports, Writes!GiveUp, Writes!Ends, Writes!NoConfig,
       Writes!reports
<1>7. CASE call.pc = "over"
  <2> DEFINE spec == [f \in Fields |->
          IF f = "url" THEN IF f \in DOMAIN Request[p] THEN Request[p][f] ELSE Object.spec[f]
          ELSE IF p \in WithConfig THEN PatchConfig[p][f]
               ELSE Object.spec[f]]
  <2>1. Patched(p) = spec
    BY <1>4, <1>7 DEF Patched, Named
  <2>2. Object.active
    BY <1>1, <1>2, <1>7, PatchFacts DEF PatchOK, Object
  <2>3. \/ versions' = Append(versions, [Object EXCEPT !.spec = Patched(p)])
        \/ versions' = versions /\ Patched(p) = Object.spec
    BY <1>2, <1>7 DEF PatchPuts, Write
  <2>4. Patched(p) = Object.spec => [Object EXCEPT !.spec = Patched(p)] = Object
    BY PatchFacts DEF Version
  <2>5. Writes!Becomes([Object EXCEPT !.spec = spec])
    <3> HIDE DEF spec
    <3>1. QED
      BY <2>1, <2>3, <2>4 DEF Writes!Becomes, Writes!Object, Object
  <2>6. QED
    BY <1>1, <1>3, <1>4, <1>7, <2>2, <2>5 DEF reports, Object, Fields, Writes!Apply,
       Writes!Ends, Writes!NoConfig, Writes!Object, Writes!Fields, Writes!reports
<1>8. QED
  BY <1>2, <1>5, <1>6, <1>7

LEMMA ReportPhaseShows ==
    ASSUME IInv, NEW k \in Reports, ReportPhase(k) PROVE Writes!Reopen(k)
<1>1. /\ k <= Len(made) /\ report[k].pc = "sent"
      /\ report' = [report EXCEPT ![k] = Call("read", 0, 0)]
      /\ UNCHANGED <<patch, merge, made, laid>>
  BY DEF ReportPhase, patches
<1>2. Call("read", 0, 0).pc = "read"
  BY DEF Call
<1>3. ReportStage' = [ReportStage EXCEPT ![k] = "read"] /\ ReportStage[k] = "sent"
  BY <1>1, <1>2, ReportFacts DEF ReportStage, Trying
<1>4. k \in DOMAIN made
  BY <1>1, ReportFacts
<1>5. \/ versions' = Append(versions, [Object EXCEPT !.active = TRUE])
      \/ versions' = versions /\ Object.active
  BY DEF ReportPhase, Write
<1>6. Object.active => [Object EXCEPT !.active = TRUE] = Object
  BY ReportFacts DEF Version
<1>7. Writes!Becomes([Object EXCEPT !.active = TRUE])
  BY <1>5, <1>6 DEF Writes!Becomes, Writes!Object, Object
<1>8. QED
  BY <1>1, <1>3, <1>4, <1>7, SameShows DEF Object, Writes!Reopen, Writes!Moves, Writes!Object,
     Writes!patches

LEMMA ReportReadsShows ==
    ASSUME IInv, NEW k \in Reports, ReportReads(k) PROVE Writes!Lay(k)
<1>1. /\ report[k].pc = "read" /\ report' = [report EXCEPT ![k] = Call("get", 0, 0)]
      /\ laid' = [laid EXCEPT ![k] =
                    <<k, IF made[k] > 0 THEN made[k] ELSE versions[cached].stats[2]>>]
      /\ UNCHANGED <<versions, patch, merge, made>>
  BY DEF ReportReads, patches, Counted
<1>2. Call("get", 0, 0).pc = "get"
  BY DEF Call
<1>3. ReportStage' = [ReportStage EXCEPT ![k] = "begun"] /\ ReportStage[k] = "read"
  BY <1>1, <1>2, ReportFacts DEF ReportStage, Trying
<1>4. cached \in 1..Len(versions)
  BY DEF IInv, TypeOK
<1>5. QED
  BY <1>1, <1>3, <1>4, SameShows DEF Writes!Lay, Writes!Moves, Writes!patches

LEMMA ReportGetsShows ==
    ASSUME IInv, NEW k \in Reports, ReportGets(k) PROVE UNCHANGED Writes!writeVars
<1>1. /\ report[k].pc = "get" /\ report' = [report EXCEPT ![k] = Read(report[k])]
      /\ UNCHANGED <<versions, patch, merge, made, laid>>
  BY ReportFacts DEF ReportGets, patches
<1>2. Trying(Read(report[k])) = Trying(report[k])
  BY <1>1 DEF Read, Call, Trying
<1>3. ReportStage' = ReportStage
  BY <1>1, <1>2, ReportUnseen
<1>4. QED
  BY <1>1, <1>3, SameShows DEF Writes!writeVars, Writes!patches, Writes!reports

LEMMA ReportPutsShows ==
    ASSUME IInv, NEW k \in Reports, ReportPuts(k)
    PROVE  Writes!Put(k) \/ Writes!Abandon(k) \/ UNCHANGED Writes!writeVars
<1> DEFINE call == Settles(report[k])
<1>1. /\ report[k].pc = "put" /\ report' = [report EXCEPT ![k] = call] /\ report'[k] = call
      /\ UNCHANGED <<patch, merge, made>>
      /\ laid' = IF call.pc = "get" THEN laid ELSE [laid EXCEPT ![k] = Nothing]
  BY ReportFacts DEF ReportPuts, patches
<1>2. call.pc \in {"get", "over", "failed"} /\ (call.pc = "over" <=> report[k].live = Len(versions))
  BY <1>1, ReportFacts, SettlesOK DEF ReportOK
<1> HIDE DEF call
<1>3. ASSUME call.pc # "get"
      PROVE  ReportStage' = [ReportStage EXCEPT ![k] = call.pc] /\ ReportStage[k] = "begun"
  <2>1. Trying(call) = call.pc /\ Trying(report[k]) = "begun"
    BY <1>1, <1>2, <1>3 DEF Trying
  <2>2. QED
    BY <1>1, <2>1, ReportFacts DEF ReportStage
<1>4. CASE call.pc = "get"
  <2>1. versions' = versions /\ laid' = laid /\ Trying(call) = Trying(report[k])
    BY <1>1, <1>2, <1>4 DEF ReportPuts, Trying
  <2>2. ReportStage' = ReportStage
    BY <1>1, <2>1, ReportUnseen
  <2>3. QED
    BY <1>1, <2>1, <2>2, SameShows DEF Writes!writeVars, Writes!patches, Writes!reports
<1>5. CASE call.pc = "failed"
  <2>1. versions' = versions
    BY <1>2, <1>5 DEF ReportPuts
  <2>2. QED
    BY <1>1, <1>3, <1>5, <2>1, SameShows DEF Nothing, Writes!Abandon, Writes!Moves,
       Writes!Nothing, Writes!patches
<1>6. CASE call.pc = "over"
  <2>1. versions' = Append(versions, [Object EXCEPT !.stats = laid[k]])
    BY <1>2, <1>6 DEF ReportPuts, Write
  <2>2. QED
    BY <1>1, <1>3, <1>6, <2>1, SameShows DEF Object, Nothing, Writes!Put, Writes!Moves,
       Writes!Becomes, Writes!Object, Writes!Nothing, Writes!patches
<1>7. QED
  BY <1>2, <1>4, <1>5, <1>6

\* PATCH and reports are writes in one step: an attempt that conflicts leaves nothing
\* behind, and the one that succeeds finds what the handler has read still true.
THEOREM LoopsAreOneStep == Spec => OneStepOrNone
<1>1. Init => Writes!Init
  <2>1. SUFFICES ASSUME Init PROVE Writes!Init
    OBVIOUS
  <2>2. /\ \A p \in Patches : patch[p].pc = "new" /\ merge[p] = NoMerge
        /\ \A k \in Reports : report[k].pc = "sent"
    BY <2>1 DEF Init, Call
  <2>3. PatchStage = [p \in Patches |-> "new"] /\ ReportStage = [k \in Reports |-> "sent"]
    BY <2>2 DEF PatchStage, ReportStage, Trying
  <2>4. PatchConfig = [p \in Patches |-> [f \in Settings |-> 0]]
    BY <2>2 DEF PatchConfig, NoMerge
  <2>5. QED
    BY <2>1, <2>3, <2>4 DEF Init, Fields, Nothing, Reports, Writes!Init, Writes!Fields,
       Writes!NoConfig, Writes!Nothing, Writes!Reports
<1>2. IInv /\ [Next]_vars => [Writes!Next]_Writes!writeVars
  <2>1. SUFFICES ASSUME IInv, [Next]_vars PROVE [Writes!Next]_Writes!writeVars
    OBVIOUS
  <2>2. Reports = Writes!Reports
    BY DEF Reports, Writes!Reports
  <2>3. CASE InformerApplies \/ Finish \/ MakeReport \/ UNCHANGED vars
    BY <2>1, <2>3, OthersShow
  <2>4. ASSUME NEW p \in Patches, PatchBegins(p) \/ PatchGets(p) \/ PatchPuts(p)
        PROVE  [Writes!Next]_Writes!writeVars
    BY <2>1, <2>4, PatchBeginsShows, PatchGetsShows, PatchPutsShows DEF Writes!Next
  <2>5. ASSUME NEW k \in Reports,
               ReportPhase(k) \/ ReportReads(k) \/ ReportGets(k) \/ ReportPuts(k)
        PROVE  [Writes!Next]_Writes!writeVars
    BY <2>1, <2>2, <2>5, ReportPhaseShows, ReportReadsShows, ReportGetsShows,
       ReportPutsShows DEF Writes!Next
  <2>6. QED
    BY <2>1, <2>3, <2>4, <2>5 DEF Next
<1>3. QED
  BY <1>1, <1>2, Invariance, PTL DEF Spec, OneStepOrNone, Writes!Spec
=============================================================================
