---------------------------- MODULE RateLimiter ----------------------------
(***************************************************************************)
(* The rate limiter of the external API, internal/httpapi/middleware.go:   *)
(* one token bucket for every client, in a table that never holds more     *)
(* than MaxVisitors of them.  A client whose bucket is not in the table    *)
(* has a full one when it comes back, so that what the table forgets, and  *)
(* when, decides how much a client is admitted.                            *)
(*                                                                         *)
(* The registry keeps one limiter for every pair of a limit and a window:  *)
(* creating and patching monitors share one, the two kinds of queries      *)
(* another.  This module is one of them.                                   *)
(*                                                                         *)
(* Levels are counted in ticks: a token is worth the Interval in which it  *)
(* grows back.  The bucket itself is golang.org/x/time/rate.               *)
(***************************************************************************)
EXTENDS Integers, FiniteSets

CONSTANTS
    Clients,      \* API keys, or the addresses of those that use a bearer token
    Watched,      \* the client the record is kept of: any of them
    Requests,     \* the requests the server handles at the same time
    Cells,        \* memory for the buckets
    Limit,        \* requests in a window
    Window,       \* in ticks
    MaxVisitors,
    MaxTime,      \* bound: the clock stops there
    None

ASSUME LimiterAssumption ==
    /\ Limit \in Nat \ {0} /\ Window \in Nat /\ Window >= Limit
    /\ MaxVisitors \in Nat \ {0} /\ MaxTime \in Nat
    /\ None \notin Cells \cup Clients /\ Watched \in Clients
    /\ IsFiniteSet(Requests)

VARIABLES
    now,
    visitors,  \* the cell of every client in the table
    lastSeen,  \* the heap: when every client in the table was looked up
    bucket,    \* the tokens in every cell
    held       \* the client of every request, and the bucket it is about to ask

VARIABLES  \* what has happened to Watched
    balance,  \* what it may still be admitted for: a bucket that nothing forgets,
              \* and a full one more for every eviction
    crowd,    \* the others that have come since it came last, or at that very time
    rested    \* the time since it was admitted last, up to an interval

table  == <<visitors, lastSeen, bucket>>
record == <<balance, crowd, rested>>
vars   == <<now, table, held, record>>

\* newRateLimiter: a token every Interval, and at most Limit of them.
Interval == Window \div Limit
Burst    == Limit * Interval
AtMost(max, level) == IF level < max THEN level ELSE max
\* One bucket in the table, and one for every request that still holds an older one.
MaxBalance == Burst * (1 + Cardinality(Requests))
Idle     == [client |-> None, cell |-> None]

TypeOK ==
    /\ now \in 0..MaxTime
    /\ visitors \in [Clients -> Cells \cup {None}]
    /\ lastSeen \in [Clients -> 0..now]
    /\ bucket \in [Cells -> 0..Burst]
    /\ held \in [Requests -> [client : Clients \cup {None}, cell : Cells \cup {None}]]
    /\ balance \in Int /\ crowd \subseteq Clients /\ rested \in 0..Interval

Init ==
    /\ now = 0
    /\ visitors = [c \in Clients |-> None]
    /\ lastSeen = [c \in Clients |-> 0]
    /\ bucket = [b \in Cells |-> Burst]
    /\ held = [r \in Requests |-> Idle]
    /\ balance = Burst /\ crowd = {} /\ rested = Interval

-----------------------------------------------------------------------------
\* Looking up a bucket, under the lock.

Visitors == {c \in Clients : visitors[c] # None}

\* A cell nobody refers to: a bucket taken out of the table lives as long as a
\* request holds it.
Free(b) ==
    /\ \A c \in Clients : visitors[c] # b
    /\ \A r \in Requests : held[r].cell # b

\* What heap.Pop may return: the order of equal times is not determined.
Oldest == {d \in Visitors : \A e \in Visitors : lastSeen[d] <= lastSeen[e]}

LookUpUnfixed(r, c) ==  \* mutant: heap.Fix is not reached by a client that is known
    /\ visitors[c] # None
    /\ held' = [held EXCEPT ![r] = [client |-> c, cell |-> visitors[c]]]
    /\ UNCHANGED <<table, balance>>

LookUp(r, c) ==
    /\ visitors[c] # None
    /\ held' = [held EXCEPT ![r] = [client |-> c, cell |-> visitors[c]]]
    /\ lastSeen' = [lastSeen EXCEPT ![c] = now]
    /\ UNCHANGED <<visitors, bucket, balance>>

EnterReused(r, c, others) ==  \* mutant: the memory of an evicted bucket is not renewed
    \E b \in Cells :
        /\ Free(b)
        /\ held' = [held EXCEPT ![r] = [client |-> c, cell |-> b]]
        /\ visitors' = [others EXCEPT ![c] = b]
        /\ lastSeen' = [lastSeen EXCEPT ![c] = now]
        /\ UNCHANGED bucket

\* A client that is not in the table gets a full bucket.
Enter(r, c, others) ==
    \E b \in Cells :
        /\ Free(b)
        /\ held' = [held EXCEPT ![r] = [client |-> c, cell |-> b]]
        /\ bucket' = [bucket EXCEPT ![b] = Burst]
        /\ visitors' = [others EXCEPT ![c] = b]
        /\ lastSeen' = [lastSeen EXCEPT ![c] = now]

InsertPast(r, c) ==  \* mutant: the table is full one client too late
    /\ visitors[c] = None
    /\ Cardinality(Visitors) <= MaxVisitors
    /\ Enter(r, c, visitors)
    /\ UNCHANGED balance

Insert(r, c) ==
    /\ visitors[c] = None
    /\ Cardinality(Visitors) < MaxVisitors
    /\ Enter(r, c, visitors)
    /\ UNCHANGED balance

\* At its capacity the table forgets the client that has not been seen for longest.
Evict(r, c) ==
    /\ visitors[c] = None
    /\ Cardinality(Visitors) >= MaxVisitors
    /\ \E d \in Oldest :
          /\ Enter(r, c, [visitors EXCEPT ![d] = None])
          /\ balance' = IF d = Watched THEN AtMost(MaxBalance, balance + Burst) ELSE balance

GetLimiter(r) ==
    /\ held[r] = Idle
    /\ \E c \in Clients :
          /\ LookUp(r, c) \/ Insert(r, c) \/ Evict(r, c)
          /\ crowd' = IF c = Watched THEN {d \in Visitors \ {c} : lastSeen[d] = now}
                      ELSE crowd \cup {c}
    /\ UNCHANGED <<now, rested>>

-----------------------------------------------------------------------------
\* Asking the bucket, after the unlock.

Admitted(r) ==
    IF held[r].client = Watched
    THEN balance' = balance - Interval /\ rested' = 0
    ELSE UNCHANGED <<balance, rested>>

Allow(r) ==
    /\ held[r] # Idle
    /\ held' = [held EXCEPT ![r] = Idle]
    /\ \/ /\ bucket[held[r].cell] >= Interval
          /\ bucket' = [bucket EXCEPT ![held[r].cell] = @ - Interval]
          /\ Admitted(r)
       \/ /\ bucket[held[r].cell] < Interval
          /\ UNCHANGED <<bucket, balance, rested>>
    /\ UNCHANGED <<now, visitors, lastSeen, crowd>>

GrowthTwice(level) == AtMost(Burst, level + 2)  \* mutant: twice the rate

\* x/time/rate: tokens grow at the rate, up to the burst.
Growth(level) == AtMost(Burst, level + 1)

\* Time passes, and every bucket grows.  Looking up a bucket and asking it are two
\* statements in a row, which the model gives no time (assumption).
Tick ==
    /\ now < MaxTime
    /\ \A r \in Requests : held[r] = Idle
    /\ now' = now + 1
    /\ bucket' = [b \in Cells |-> Growth(bucket[b])]
    /\ balance' = AtMost(Burst, balance + 1)
    /\ rested' = AtMost(Interval, rested + 1)
    /\ UNCHANGED <<visitors, lastSeen, held, crowd>>

ExpiredEarly(c) == visitors[c] # None /\ now >= Interval + lastSeen[c]  \* mutant: the
                                                   \* interval in place of the window

\* cleanup, once a minute: buckets nobody has looked up for a whole window.
Expired(c) == visitors[c] # None /\ now > Window + lastSeen[c]

Cleanup ==
    /\ \E c \in Clients : Expired(c)
    /\ visitors' = [c \in Clients |-> IF Expired(c) THEN None ELSE visitors[c]]
    /\ UNCHANGED <<now, lastSeen, bucket, held, record>>

Next ==
    \/ \E r \in Requests : GetLimiter(r) \/ Allow(r)
    \/ Tick \/ Cleanup

Spec == Init /\ [][Next]_vars

-----------------------------------------------------------------------------
\* No two clients share a bucket, whatever has been evicted and reused, a request is
\* never charged to another client's, and the table stays within its bound (the
\* invariant middleware.go:174 states).
TableOK ==
    /\ \A c, d \in Visitors : visitors[c] = visitors[d] => c = d
    /\ \A r \in Requests, c \in Visitors :
          held[r].cell = visitors[c] => held[r].client = c
    /\ Cardinality(Visitors) <= MaxVisitors

\* A client is admitted for what one bucket holds and what grows back in it, and once
\* more for a full one only when it has been evicted.
AdmissionBound == balance >= 0

\* Cleaning up gives nobody anything: the buckets it forgets are full, and no request
\* is about to ask them.
CleanupHarmless ==
    [][\A c \in Visitors : Cleanup /\ visitors'[c] = None =>
          /\ bucket[visitors[c]] = Burst
          /\ \A r \in Requests : held[r].cell # visitors[c]]_vars

\* A client is only evicted, and its bucket refilled early, for a crowd: as many
\* others as the table holds have come since it came last.
EvictionNeedsCrowd ==
    [][visitors[Watched] # None /\ visitors'[Watched] = None /\ ~Cleanup =>
          Cardinality(crowd') >= MaxVisitors]_vars

\* Nobody is refused for what others do: whoever is refused was admitted less than
\* an interval ago.
RefusalNeedsUse ==
    [][\A r \in Requests :
          held[r].client = Watched /\ held'[r] = Idle /\ bucket' = bucket =>
              rested < Interval]_vars
=============================================================================
