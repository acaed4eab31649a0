-------------------------- MODULE RateLimiterProofs --------------------------
(***************************************************************************)
(* What the rate limiter guarantees for any limit, window and size of its  *)
(* table, and any number of clients: buckets are never shared, the table   *)
(* stays within its bound, cleaning it up forgets full buckets only, an    *)
(* eviction takes a crowd, nobody is refused for what others do, and a     *)
(* client is admitted for its bucket, its growth and its evictions only.   *)
(***************************************************************************)
EXTENDS RateLimiter, FiniteSetTheorems, TLAPS

\* A cell that is held belongs to one client, the table included.
CellsOwned ==
    /\ \A c, d \in Visitors : visitors[c] = visitors[d] => c = d
    /\ \A r \in Requests, c \in Visitors :
          held[r].cell = visitors[c] => held[r].client = c
    /\ \A r, s \in Requests :
          held[r].cell = held[s].cell => held[r].client = held[s].client
    /\ \A r \in Requests : held[r] = Idle \/ (held[r].cell \in Cells /\ held[r].client \in Clients)

TableBounded ==
    IsFiniteSet(Visitors) /\ Cardinality(Visitors) <= MaxVisitors

\* The lower bound of a bucket in the table: what has grown since it was looked up,
\* because only who has just looked it up can take from it.
Grown ==
    /\ \A r \in Requests, c \in Visitors :
          held[r].cell = visitors[c] => lastSeen[c] = now
    /\ \A c \in Visitors : bucket[visitors[c]] >= AtMost(Burst, now - lastSeen[c])

\* The buckets of Watched: the one in the table, and older ones that are still held.
WatchedRested ==
    /\ Watched \in Visitors => bucket[visitors[Watched]] >= rested
    /\ \A r \in Requests : held[r].client = Watched => bucket[held[r].cell] >= rested

\* Whoever was looked up after Watched is in the crowd.
CrowdKnown ==
    /\ IsFiniteSet(crowd)
    /\ Watched \in Visitors =>
          \A d \in Visitors \ {Watched} : lastSeen[d] >= lastSeen[Watched] => d \in crowd

IInv == TypeOK /\ CellsOwned /\ TableBounded /\ Grown /\ WatchedRested /\ CrowdKnown

-----------------------------------------------------------------------------
\* The arithmetic of the bucket.

LEMMA Product ==
    ASSUME NEW a \in Nat \ {0}, NEW b \in Nat PROVE a * b \in Nat /\ a * b >= b
OBVIOUS

LEMMA Quotient ==
    ASSUME NEW a \in Nat, NEW b \in Nat \ {0}, a >= b
    PROVE  a \div b \in Nat \ {0} /\ b * (a \div b) <= a
OBVIOUS

LEMMA Sizes ==
    /\ Interval \in Nat \ {0} /\ Burst \in Nat /\ Interval <= Burst /\ Burst <= Window
    /\ MaxBalance \in Nat
<1>1. Limit \in Nat \ {0} /\ Window \in Nat /\ Window >= Limit
  BY LimiterAssumption
<1>2. Interval \in Nat \ {0} /\ Limit * Interval <= Window
  BY <1>1, Quotient DEF Interval
<1>3. Limit * Interval \in Nat /\ Limit * Interval >= Interval
  BY <1>1, <1>2, Product
<1>4. Burst \in Nat /\ Interval <= Burst /\ Burst <= Window
  BY <1>1, <1>2, <1>3 DEF Burst
<1>5. Cardinality(Requests) \in Nat
  BY LimiterAssumption, FS_CardinalityType
<1>6. 1 + Cardinality(Requests) \in Nat \ {0}
  BY <1>5
<1>7. MaxBalance \in Nat
  <2>1. (1 + Cardinality(Requests)) * Burst \in Nat
    BY <1>4, <1>6, Product
  <2>2. Burst * (1 + Cardinality(Requests)) = (1 + Cardinality(Requests)) * Burst
    BY <1>4, <1>5
  <2>3. QED
    BY <2>1, <2>2 DEF MaxBalance
<1>8. QED
  BY <1>2, <1>4, <1>7

-----------------------------------------------------------------------------
LEMMA InitOK ==
    ASSUME Init PROVE IInv
<1> USE LimiterAssumption, Sizes
<1>1. Visitors = {}
  BY DEF Init, Visitors
<1>2. TypeOK
  <2>1. 0 \in 0..MaxTime /\ 0 \in 0..0 /\ Burst \in 0..Burst /\ Interval \in 0..Interval
    OBVIOUS
  <2>2. held \in [Requests -> [client : Clients \cup {None}, cell : Cells \cup {None}]]
    BY DEF Init, Idle
  <2>3. QED
    BY <2>1, <2>2 DEF Init, TypeOK
<1>3. CellsOwned
  BY <1>1 DEF Init, CellsOwned, Idle
<1>4. TableBounded
  BY <1>1, FS_EmptySet DEF TableBounded
<1>5. Grown /\ WatchedRested
  BY <1>1 DEF Init, Grown, WatchedRested, Idle
<1>6. CrowdKnown
  BY <1>1, FS_EmptySet DEF Init, CrowdKnown
<1>7. QED
  BY <1>2, <1>3, <1>4, <1>5, <1>6 DEF IInv

-----------------------------------------------------------------------------
\* A client that is known.

LEMMA LookUpOK ==
    ASSUME IInv, NEW r \in Requests, NEW c \in Clients, LookUp(r, c), held[r] = Idle,
           crowd' = IF c = Watched THEN {d \in Visitors \ {c} : lastSeen[d] = now}
                    ELSE crowd \cup {c},
           UNCHANGED <<now, rested>>
    PROVE  IInv'
<1> USE LimiterAssumption
<1>1. /\ c \in Visitors /\ visitors' = visitors /\ Visitors' = Visitors /\ bucket' = bucket
      /\ held' = [held EXCEPT ![r] = [client |-> c, cell |-> visitors[c]]]
      /\ lastSeen' = [lastSeen EXCEPT ![c] = now]
      /\ visitors[c] \in Cells
  BY DEF IInv, TypeOK, LookUp, Visitors
<1>2. TypeOK'
  BY <1>1 DEF IInv, TypeOK, LookUp, Visitors
<1>3. CellsOwned'
  BY <1>1 DEF IInv, TypeOK, CellsOwned, Visitors, Idle
<1>4. TableBounded'
  BY <1>1 DEF IInv, TableBounded
<1>5. Grown'
  <2>1. ASSUME NEW s \in Requests, NEW d \in Visitors, held'[s].cell = visitors[d]
        PROVE  lastSeen'[d] = now
    BY <1>1, <2>1 DEF IInv, TypeOK, CellsOwned, Grown, Visitors
  <2>2. ASSUME NEW d \in Visitors
        PROVE  bucket[visitors[d]] >= AtMost(Burst, now - lastSeen'[d])
    BY <1>1, Sizes DEF IInv, TypeOK, Grown, AtMost, Visitors
  <2>3. QED
    BY <1>1, <2>1, <2>2 DEF Grown
<1>6. WatchedRested'
  BY <1>1 DEF IInv, TypeOK, WatchedRested, Visitors
<1>7. CrowdKnown'
  <2>1. IsFiniteSet(crowd')
    <3>1. IsFiniteSet({d \in Visitors \ {c} : lastSeen[d] = now})
      BY FS_Subset DEF IInv, TableBounded
    <3>2. IsFiniteSet(crowd \cup {c})
      BY FS_AddElement DEF IInv, CrowdKnown
    <3>3. QED
      BY <3>1, <3>2
  <2>2. ASSUME Watched \in Visitors, NEW d \in Visitors \ {Watched},
               lastSeen'[d] >= lastSeen'[Watched]
        PROVE  d \in crowd'
    <3>1. /\ d \in Clients /\ lastSeen[d] \in 0..now /\ lastSeen[Watched] \in 0..now
          /\ lastSeen'[c] = now /\ \A e \in Clients \ {c} : lastSeen'[e] = lastSeen[e]
      BY <1>1, <2>2 DEF IInv, TypeOK, Visitors
    <3>2. CASE c = Watched
      <4>1. d \in Visitors \ {c} /\ lastSeen[d] >= now /\ now \in Nat
        BY <1>1, <2>2, <3>1, <3>2 DEF IInv, TypeOK
      <4>2. lastSeen[d] = now
        BY <3>1, <4>1
      <4>3. QED
        BY <3>2, <4>1, <4>2
    <3>3. CASE c # Watched
      BY <2>2, <3>1, <3>3, <1>1 DEF IInv, CrowdKnown
    <3>4. QED
      BY <3>2, <3>3
  <2>3. QED
    BY <1>1, <2>1, <2>2 DEF CrowdKnown
<1>8. QED
  BY <1>2, <1>3, <1>4, <1>5, <1>6, <1>7 DEF IInv

-----------------------------------------------------------------------------
\* A client that is not, when the table is full and when it is not: others is what
\* stays in the table.

LEMMA EnterOK ==
    ASSUME IInv, NEW r \in Requests, NEW c \in Clients, held[r] = Idle, visitors[c] = None,
           NEW others \in [Clients -> Cells \cup {None}], Enter(r, c, others),
           \A d \in Clients : others[d] \in {visitors[d], None},
           IsFiniteSet(Visitors'), Cardinality(Visitors') <= MaxVisitors,
           balance' \in Int,
           crowd' = IF c = Watched THEN {d \in Visitors \ {c} : lastSeen[d] = now}
                    ELSE crowd \cup {c},
           UNCHANGED <<now, rested>>
    PROVE  IInv'
<1> USE LimiterAssumption
<1>1. PICK b \in Cells :
        /\ Free(b)
        /\ held' = [held EXCEPT ![r] = [client |-> c, cell |-> b]]
        /\ bucket' = [bucket EXCEPT ![b] = Burst]
        /\ visitors' = [others EXCEPT ![c] = b]
        /\ lastSeen' = [lastSeen EXCEPT ![c] = now]
  BY DEF Enter
<1>2. /\ c \in Visitors' /\ c \notin Visitors /\ visitors'[c] = b
      /\ \A d \in Visitors' \ {c} :
            d \in Visitors /\ visitors'[d] = visitors[d] /\ visitors[d] # b
                /\ visitors[d] \in Cells
  BY <1>1 DEF IInv, TypeOK, Visitors, Free
<1>3. /\ held'[r] = [client |-> c, cell |-> b]
      /\ \A s \in Requests \ {r} : held'[s] = held[s] /\ held[s].cell # b
  BY <1>1 DEF IInv, TypeOK, Free
<1>4. /\ bucket'[b] = Burst
      /\ \A a \in Cells \ {b} : bucket'[a] = bucket[a]
  BY <1>1 DEF IInv, TypeOK
<1>5. /\ lastSeen'[c] = now
      /\ \A d \in Clients \ {c} : lastSeen'[d] = lastSeen[d]
  BY <1>1 DEF IInv, TypeOK
<1>6. Visitors \subseteq Clients /\ Visitors' \subseteq Clients
  BY DEF Visitors
<1>7. TypeOK'
  <2>1. Burst \in 0..Burst /\ now \in 0..now
    BY Sizes DEF IInv, TypeOK
  <2>2. crowd' \subseteq Clients
    BY <1>6 DEF IInv, TypeOK
  <2>3. QED
    BY <1>1, <2>1, <2>2 DEF IInv, TypeOK
<1>8. CellsOwned'
  <2>1. \A d, e \in Visitors' : visitors'[d] = visitors'[e] => d = e
    BY <1>2 DEF IInv, CellsOwned
  <2>2. ASSUME NEW s \in Requests, NEW d \in Visitors', held'[s].cell = visitors'[d]
        PROVE  held'[s].client = d
    <3>1. CASE s = r
      BY <1>2, <1>3, <2>2, <3>1
    <3>2. CASE s # r
      BY <1>2, <1>3, <2>2, <3>2 DEF IInv, CellsOwned
    <3>3. QED
      BY <3>1, <3>2
  <2>3. ASSUME NEW s \in Requests, NEW t \in Requests, held'[s].cell = held'[t].cell
        PROVE  held'[s].client = held'[t].client
    BY <1>3, <2>3 DEF IInv, CellsOwned
  <2>4. ASSUME NEW s \in Requests
        PROVE  held'[s] = Idle \/ (held'[s].cell \in Cells /\ held'[s].client \in Clients)
    BY <1>3 DEF IInv, CellsOwned
  <2>5. QED
    BY <2>1, <2>2, <2>3, <2>4 DEF CellsOwned, Idle
<1>9. TableBounded'
  BY DEF TableBounded
<1>10. Grown'
  <2>1. ASSUME NEW s \in Requests, NEW d \in Visitors', held'[s].cell = visitors'[d]
        PROVE  lastSeen'[d] = now
    <3>1. CASE d = c
      BY <1>5, <3>1
    <3>2. CASE d # c
      BY <1>2, <1>3, <1>5, <1>6, <2>1, <3>2 DEF IInv, Grown
    <3>3. QED
      BY <3>1, <3>2
  <2>2. ASSUME NEW d \in Visitors'
        PROVE  bucket'[visitors'[d]] >= AtMost(Burst, now - lastSeen'[d])
    <3>1. CASE d = c
      BY <1>2, <1>4, <1>5, <3>1, Sizes DEF AtMost, IInv, TypeOK
    <3>2. CASE d # c
      BY <1>2, <1>4, <1>5, <1>6, <3>2 DEF IInv, Grown
    <3>3. QED
      BY <3>1, <3>2
  <2>3. QED
    BY <2>1, <2>2 DEF Grown
<1>11. WatchedRested'
  <2>1. Burst >= rested /\ rested' = rested
    BY Sizes DEF IInv, TypeOK
  <2>2. Watched \in Visitors' => bucket'[visitors'[Watched]] >= rested
    BY <1>2, <1>4, <2>1 DEF IInv, WatchedRested
  <2>3. ASSUME NEW s \in Requests, held'[s].client = Watched
        PROVE  bucket'[held'[s].cell] >= rested
    <3>1. CASE s = r
      BY <1>3, <1>4, <2>1, <3>1
    <3>2. CASE s # r
      <4>1. held[s].client = Watched /\ held[s].cell \in Cells \ {b}
        BY <1>3, <2>3, <3>2 DEF IInv, CellsOwned, Idle
      <4>2. QED
        BY <1>3, <1>4, <3>2, <4>1 DEF IInv, WatchedRested
    <3>3. QED
      BY <3>1, <3>2
  <2>4. QED
    BY <2>1, <2>2, <2>3 DEF WatchedRested
<1>12. CrowdKnown'
  <2>1. IsFiniteSet(crowd')
    <3>1. IsFiniteSet({d \in Visitors \ {c} : lastSeen[d] = now})
      BY FS_Subset DEF IInv, TableBounded
    <3>2. IsFiniteSet(crowd \cup {c})
      BY FS_AddElement DEF IInv, CrowdKnown
    <3>3. QED
      BY <3>1, <3>2
  <2>2. ASSUME Watched \in Visitors', NEW d \in Visitors' \ {Watched},
               lastSeen'[d] >= lastSeen'[Watched]
        PROVE  d \in crowd'
    <3>1. CASE c = Watched
      <4>1. d \in Visitors \ {c} /\ lastSeen[d] >= now /\ lastSeen[d] \in 0..now
        BY <1>2, <1>5, <1>6, <2>2, <3>1 DEF IInv, TypeOK
      <4>2. QED
        BY <3>1, <4>1 DEF IInv, TypeOK
    <3>2. CASE c # Watched
      BY <1>2, <1>5, <1>6, <2>2, <3>2 DEF IInv, CrowdKnown
    <3>3. QED
      BY <3>1, <3>2
  <2>3. QED
    BY <2>1, <2>2 DEF CrowdKnown
<1>13. QED
  BY <1>7, <1>8, <1>9, <1>10, <1>11, <1>12 DEF IInv

LEMMA InsertOK ==
    ASSUME IInv, NEW r \in Requests, NEW c \in Clients, Insert(r, c), held[r] = Idle,
           crowd' = IF c = Watched THEN {d \in Visitors \ {c} : lastSeen[d] = now}
                    ELSE crowd \cup {c},
           UNCHANGED <<now, rested>>
    PROVE  IInv'
<1> USE LimiterAssumption
<1>1. /\ visitors \in [Clients -> Cells \cup {None}] /\ visitors[c] = None
      /\ Enter(r, c, visitors) /\ balance' \in Int
      /\ Cardinality(Visitors) < MaxVisitors /\ IsFiniteSet(Visitors)
  BY DEF IInv, TypeOK, TableBounded, Insert
<1>2. Visitors' = Visitors \cup {c} /\ c \notin Visitors
  BY <1>1 DEF Enter, Visitors
<1>3. IsFiniteSet(Visitors') /\ Cardinality(Visitors') = Cardinality(Visitors) + 1
  BY <1>1, <1>2, FS_AddElement
<1>4. Cardinality(Visitors') <= MaxVisitors
  BY <1>1, <1>3, FS_CardinalityType
<1>5. QED
  BY <1>1, <1>3, <1>4, EnterOK

LEMMA EvictOK ==
    ASSUME IInv, NEW r \in Requests, NEW c \in Clients, Evict(r, c), held[r] = Idle,
           crowd' = IF c = Watched THEN {d \in Visitors \ {c} : lastSeen[d] = now}
                    ELSE crowd \cup {c},
           UNCHANGED <<now, rested>>
    PROVE  IInv'
<1> USE LimiterAssumption
<1>1. PICK d \in Oldest :
        /\ Enter(r, c, [visitors EXCEPT ![d] = None])
        /\ balance' = IF d = Watched THEN AtMost(MaxBalance, balance + Burst) ELSE balance
  BY DEF Evict
<1> DEFINE others == [visitors EXCEPT ![d] = None]
<1>2. /\ visitors \in [Clients -> Cells \cup {None}] /\ visitors[c] = None
      /\ d \in Visitors /\ d \in Clients /\ balance' \in Int
      /\ others \in [Clients -> Cells \cup {None}]
      /\ \A e \in Clients : others[e] \in {visitors[e], None}
      /\ IsFiniteSet(Visitors) /\ Cardinality(Visitors) <= MaxVisitors
  BY <1>1, Sizes DEF IInv, TypeOK, TableBounded, Evict, Oldest, AtMost, Visitors
<1>3. Visitors' = (Visitors \ {d}) \cup {c} /\ c \notin Visitors \ {d}
  BY <1>1, <1>2 DEF Enter, Visitors
<1>4. IsFiniteSet(Visitors \ {d}) /\ Cardinality(Visitors \ {d}) = Cardinality(Visitors) - 1
  BY <1>2, FS_RemoveElement
<1>5. IsFiniteSet(Visitors') /\ Cardinality(Visitors') = Cardinality(Visitors \ {d}) + 1
  BY <1>3, <1>4, FS_AddElement
<1>6. Cardinality(Visitors') <= MaxVisitors
  BY <1>2, <1>4, <1>5, FS_CardinalityType
<1>7. QED
  BY <1>1, <1>2, <1>5, <1>6, EnterOK

-----------------------------------------------------------------------------
\* A request asks its bucket.

LEMMA AllowOK ==
    ASSUME IInv, NEW r \in Requests, Allow(r)
    PROVE  IInv'
<1> USE LimiterAssumption
<1> DEFINE b == held[r].cell
<1>1. b \in Cells /\ held[r].client \in Clients /\ held[r] # Idle
  BY DEF IInv, CellsOwned, Allow
<1>2. /\ held' = [held EXCEPT ![r] = Idle]
      /\ UNCHANGED <<now, visitors, lastSeen, crowd>> /\ Visitors' = Visitors
      /\ \/ /\ bucket[b] >= Interval /\ bucket' = [bucket EXCEPT ![b] = @ - Interval]
            /\ Admitted(r)
         \/ UNCHANGED <<bucket, balance, rested>>
  BY DEF Allow, Visitors
<1>3. /\ held'[r] = Idle
      /\ \A s \in Requests \ {r} : held'[s] = held[s]
  BY <1>2 DEF IInv, TypeOK
<1>4. /\ bucket'[b] \in 0..Burst /\ bucket' \in [Cells -> 0..Burst]
      /\ \A a \in Cells \ {b} : bucket'[a] = bucket[a]
      /\ bucket'[b] = bucket[b] \/ Admitted(r)
  BY <1>1, <1>2, Sizes DEF IInv, TypeOK
<1>5. /\ balance' \in Int /\ rested' \in 0..Interval /\ rested' <= rested
      /\ held[r].client # Watched => rested' = rested
      /\ held[r].client = Watched => rested' = 0 \/ (rested' = rested /\ bucket' = bucket)
  BY <1>2, Sizes DEF IInv, TypeOK, Admitted
<1>6. TypeOK'
  <2>1. held' \in [Requests -> [client : Clients \cup {None}, cell : Cells \cup {None}]]
    BY <1>2 DEF IInv, TypeOK, Idle
  <2>2. QED
    BY <1>2, <1>4, <1>5, <2>1 DEF IInv, TypeOK
<1>7. CellsOwned'
  <2>1. \A c \in Visitors : visitors[c] # None
    BY DEF Visitors
  <2>2. \A s \in Requests : held[s] = Idle \/ (held[s].cell \in Cells)
    BY DEF IInv, CellsOwned
  <2>3. QED
    BY <1>2, <1>3, <2>1, <2>2 DEF IInv, CellsOwned, Idle
<1>8. TableBounded' /\ CrowdKnown'
  BY <1>2 DEF IInv, TableBounded, CrowdKnown
<1>9. Grown'
  <2>1. ASSUME NEW s \in Requests, NEW c \in Visitors, held'[s].cell = visitors[c]
        PROVE  lastSeen[c] = now
    <3>1. s # r
      BY <1>3, <2>1 DEF Idle, Visitors
    <3>2. QED
      BY <1>3, <2>1, <3>1 DEF IInv, Grown
  <2>2. ASSUME NEW c \in Visitors
        PROVE  bucket'[visitors[c]] >= AtMost(Burst, now - lastSeen[c])
    <3>1. visitors[c] \in Cells /\ lastSeen[c] \in 0..now /\ now \in Nat
      BY DEF IInv, TypeOK, Visitors
    <3>2. CASE visitors[c] = b
      <4>1. lastSeen[c] = now
        BY <3>2 DEF IInv, Grown
      <4>2. QED
        BY <1>4, <3>1, <3>2, <4>1, Sizes DEF AtMost
    <3>3. CASE visitors[c] # b
      BY <1>4, <3>1, <3>3 DEF IInv, Grown
    <3>4. QED
      BY <3>2, <3>3
  <2>3. QED
    BY <1>2, <2>1, <2>2 DEF Grown
<1>10. WatchedRested'
  <2>1. ASSUME NEW a \in Cells, bucket[a] >= rested, a = b => held[r].client = Watched
        PROVE  bucket'[a] >= rested'
    <3>1. CASE a = b
      BY <1>4, <1>5, <2>1, <3>1, Sizes DEF IInv, TypeOK
    <3>2. CASE a # b
      BY <1>4, <1>5, <2>1, <3>2 DEF IInv, TypeOK
    <3>3. QED
      BY <3>1, <3>2
  <2>2. Watched \in Visitors => bucket'[visitors[Watched]] >= rested'
    BY <2>1 DEF IInv, TypeOK, WatchedRested, CellsOwned, Visitors
  <2>3. ASSUME NEW s \in Requests, held'[s].client = Watched
        PROVE  bucket'[held'[s].cell] >= rested'
    <3>1. s # r /\ held'[s] = held[s]
      BY <1>3, <2>3 DEF Idle
    <3>2. held[s].client = Watched /\ held[s].cell \in Cells
      BY <2>3, <3>1 DEF IInv, CellsOwned, Idle
    <3>3. bucket[held[s].cell] >= rested /\ (held[s].cell = b => held[r].client = Watched)
      BY <3>2 DEF IInv, WatchedRested, CellsOwned
    <3>4. QED
      BY <2>1, <3>1, <3>2, <3>3
  <2>4. QED
    BY <1>2, <2>2, <2>3 DEF WatchedRested
<1>11. QED
  BY <1>6, <1>7, <1>8, <1>9, <1>10 DEF IInv

LEMMA TickOK ==
    ASSUME IInv, Tick PROVE IInv'
<1> USE LimiterAssumption
<1>1. /\ now' = now + 1 /\ now < MaxTime /\ Visitors' = Visitors
      /\ UNCHANGED <<visitors, lastSeen, held, crowd>>
      /\ \A r \in Requests : held[r] = Idle
  BY DEF Tick, Visitors
<1>2. /\ bucket' \in [Cells -> 0..Burst]
      /\ \A b \in Cells : bucket'[b] = AtMost(Burst, bucket[b] + 1)
  BY Sizes DEF IInv, TypeOK, Tick, Growth, AtMost
<1>3. balance' \in Int /\ rested' \in 0..Interval /\ rested' <= rested + 1
  BY Sizes DEF IInv, TypeOK, Tick, AtMost
<1>4. TypeOK'
  <2>1. \A c \in Clients : lastSeen[c] \in 0..now'
    BY <1>1 DEF IInv, TypeOK
  <2>2. QED
    BY <1>1, <1>2, <1>3, <2>1 DEF IInv, TypeOK
<1>5. CellsOwned' /\ TableBounded' /\ CrowdKnown'
  BY <1>1 DEF IInv, CellsOwned, TableBounded, CrowdKnown, Idle
<1>6. Grown'
  <2>1. \A r \in Requests, c \in Visitors : held[r].cell # visitors[c]
    BY <1>1 DEF Idle, Visitors
  <2>2. ASSUME NEW c \in Visitors
        PROVE  bucket'[visitors[c]] >= AtMost(Burst, now' - lastSeen[c])
    <3>1. visitors[c] \in Cells /\ lastSeen[c] \in Nat /\ now \in Nat
          /\ bucket[visitors[c]] \in 0..Burst
      BY DEF IInv, TypeOK, Visitors
    <3>2. bucket[visitors[c]] >= AtMost(Burst, now - lastSeen[c])
      BY DEF IInv, Grown
    <3>3. QED
      BY <1>1, <1>2, <3>1, <3>2, Sizes DEF AtMost
  <2>3. QED
    BY <1>1, <2>1, <2>2 DEF Grown
<1>7. WatchedRested'
  <2>1. ASSUME NEW b \in Cells, bucket[b] >= rested PROVE bucket'[b] >= rested'
    BY <1>2, <1>3, <2>1, Sizes DEF AtMost, IInv, TypeOK
  <2>2. \A r \in Requests : held[r].client # Watched
    BY <1>1 DEF Idle
  <2>3. Watched \in Visitors => visitors[Watched] \in Cells
    BY DEF IInv, TypeOK, Visitors
  <2>4. QED
    BY <1>1, <2>1, <2>2, <2>3 DEF IInv, WatchedRested
<1>8. QED
  BY <1>4, <1>5, <1>6, <1>7 DEF IInv

LEMMA CleanupOK ==
    ASSUME IInv, Cleanup PROVE IInv'
<1> USE LimiterAssumption
<1>1. /\ UNCHANGED <<now, lastSeen, bucket, held, balance, crowd, rested>>
      /\ \A c \in Clients : visitors'[c] \in {visitors[c], None}
      /\ visitors' \in [Clients -> Cells \cup {None}]
  BY DEF IInv, TypeOK, Cleanup, record
<1>2. Visitors' \subseteq Visitors /\ \A c \in Visitors' : visitors'[c] = visitors[c]
  BY <1>1 DEF Visitors
<1>3. TypeOK'
  BY <1>1 DEF IInv, TypeOK
<1>4. CellsOwned' /\ Grown' /\ WatchedRested' /\ CrowdKnown'
  BY <1>1, <1>2 DEF IInv, CellsOwned, Grown, WatchedRested, CrowdKnown, Idle
<1>5. TableBounded'
  <2>1. IsFiniteSet(Visitors) /\ Cardinality(Visitors) <= MaxVisitors
    BY DEF IInv, TableBounded
  <2>2. IsFiniteSet(Visitors') /\ Cardinality(Visitors') <= Cardinality(Visitors)
    BY <1>2, <2>1, FS_Subset
  <2>3. Cardinality(Visitors) \in Nat /\ Cardinality(Visitors') \in Nat
    BY <2>1, <2>2, FS_CardinalityType
  <2>4. QED
    BY <2>1, <2>2, <2>3 DEF TableBounded
<1>6. QED
  BY <1>3, <1>4, <1>5 DEF IInv

THEOREM Invariance == Spec => []IInv
<1>1. ASSUME IInv, NEW r \in Requests, GetLimiter(r) PROVE IInv'
  BY <1>1, LookUpOK, InsertOK, EvictOK DEF GetLimiter
<1>2. ASSUME IInv, UNCHANGED vars PROVE IInv'
  BY <1>2 DEF vars, table, record, IInv, TypeOK, CellsOwned, TableBounded, Grown,
              WatchedRested, CrowdKnown, Visitors, Idle
<1>3. IInv /\ [Next]_vars => IInv'
  BY <1>1, <1>2, AllowOK, TickOK, CleanupOK DEF Next
<1>4. QED
  BY <1>3, InitOK, PTL DEF Spec

-----------------------------------------------------------------------------
(***************************************************************************)
(* What a client is admitted for.  Its requests may hold several buckets,  *)
(* the one in the table and those it has been evicted from, and the        *)
(* balance has to cover them all: their levels are added up by counting    *)
(* the tokens in them.                                                     *)
(***************************************************************************)

WatchedCells ==
    {b \in Cells : \/ visitors[Watched] = b
                   \/ \E r \in Requests : held[r] = [client |-> Watched, cell |-> b]}

Tokens == {p \in Cells \X (1..Burst) : p[1] \in WatchedCells /\ p[2] <= bucket[p[1]]}

\* The balance covers what the buckets hold, and the full one that a client who is not
\* in the table gets when it comes back.
Covered ==
    /\ IsFiniteSet(Tokens)
    /\ balance >= Cardinality(Tokens) + (IF visitors[Watched] = None THEN Burst ELSE 0)

LEMMA CellTokens ==
    ASSUME NEW b, NEW m \in Nat, NEW n \in Nat, m <= n
    PROVE  /\ IsFiniteSet({b} \X ((m + 1)..n))
           /\ Cardinality({b} \X ((m + 1)..n)) = n - m
<1>1. IsFiniteSet({b}) /\ Cardinality({b}) = 1
  BY FS_Singleton
<1>2. IsFiniteSet((m + 1)..n) /\ Cardinality((m + 1)..n) = n - m
  <2>1. m + 1 \in Int /\ n \in Int /\ (IF m + 1 > n THEN 0 ELSE n - (m + 1) + 1) = n - m
    OBVIOUS
  <2>2. QED
    BY <2>1, FS_Interval
<1>3. QED
  BY <1>1, <1>2, FS_Product

LEMMA FullCell ==
    ASSUME NEW b
    PROVE  IsFiniteSet({b} \X (1..Burst)) /\ Cardinality({b} \X (1..Burst)) = Burst
<1>1. IsFiniteSet({b}) /\ Cardinality({b}) = 1
  BY FS_Singleton
<1>2. IsFiniteSet(1..Burst) /\ Cardinality(1..Burst) = Burst
  <2>1. 1 \in Int /\ Burst \in Int /\ (IF 1 > Burst THEN 0 ELSE Burst - 1 + 1) = Burst
    BY Sizes
  <2>2. QED
    BY <2>1, FS_Interval
<1>3. IsFiniteSet({b} \X (1..Burst)) /\ Cardinality({b} \X (1..Burst)) = 1 * Burst
  <2>1. /\ IsFiniteSet({b} \X (1..Burst))
        /\ Cardinality({b} \X (1..Burst)) = Cardinality({b}) * Cardinality(1..Burst)
    BY <1>1, <1>2, FS_Product
  <2>2. QED
    BY <1>1, <1>2, <2>1
<1>4. QED
  BY <1>3, Sizes

LEMMA FewerTokens ==
    ASSUME NEW S, NEW T \in SUBSET S, IsFiniteSet(S)
    PROVE  /\ IsFiniteSet(T) /\ Cardinality(T) \in Nat /\ Cardinality(S) \in Nat
           /\ Cardinality(T) <= Cardinality(S)
BY FS_Subset, FS_CardinalityType

LEMMA MoreTokens ==
    ASSUME NEW S, NEW T, NEW U \in SUBSET (S \cup T), IsFiniteSet(S), IsFiniteSet(T)
    PROVE  /\ IsFiniteSet(U) /\ Cardinality(U) \in Nat
           /\ Cardinality(U) <= Cardinality(S) + Cardinality(T)
<1>1. /\ IsFiniteSet(S \cup T) /\ IsFiniteSet(S \cap T)
      /\ Cardinality(S \cup T) = Cardinality(S) + Cardinality(T) - Cardinality(S \cap T)
  BY FS_Union, FS_Intersection
<1>2. /\ Cardinality(S) \in Nat /\ Cardinality(T) \in Nat
      /\ Cardinality(S \cap T) \in Nat
  BY <1>1, FS_CardinalityType
<1>3. IsFiniteSet(U) /\ Cardinality(U) \in Nat /\ Cardinality(U) <= Cardinality(S \cup T)
  BY <1>1, FewerTokens
<1>4. QED
  BY <1>1, <1>2, <1>3

LEMMA TokensGone ==
    ASSUME NEW S, NEW R \in SUBSET S, NEW T \in SUBSET (S \ R), IsFiniteSet(S)
    PROVE  /\ IsFiniteSet(T) /\ Cardinality(T) \in Nat
           /\ Cardinality(T) <= Cardinality(S) - Cardinality(R)
<1>1. S \cap R = R
  OBVIOUS
<1>2. IsFiniteSet(S \ R) /\ Cardinality(S \ R) = Cardinality(S) - Cardinality(R)
  BY <1>1, FS_Difference
<1>3. QED
  BY <1>2, FewerTokens

\* As many buckets as there are requests, at most, are held.
LEMMA HeldCells ==
    ASSUME NEW h
    PROVE  /\ IsFiniteSet({h[r].cell : r \in Requests})
           /\ Cardinality({h[r].cell : r \in Requests}) <= Cardinality(Requests)
<1> DEFINE T == {h[r].cell : r \in Requests}
           f == [r \in Requests |-> h[r].cell]
<1>1. f \in Surjection(Requests, T)
  BY DEF Surjection
<1>2. QED
  BY <1>1, FS_Surjection, LimiterAssumption

LEMMA LookUpCovered ==
    ASSUME IInv, Covered, NEW r \in Requests, NEW c \in Clients, LookUp(r, c), held[r] = Idle
    PROVE  Covered'
<1>1. /\ visitors' = visitors /\ bucket' = bucket /\ balance' = balance
      /\ held'[r] = [client |-> c, cell |-> visitors[c]]
      /\ \A s \in Requests \ {r} : held'[s] = held[s]
  BY DEF LookUp, table, IInv, TypeOK
<1>2. WatchedCells' = WatchedCells
  <2>1. ASSUME NEW b \in Cells, NEW s \in Requests,
               held'[s] = [client |-> Watched, cell |-> b]
        PROVE  b \in WatchedCells
    BY <1>1, <2>1 DEF WatchedCells
  <2>2. ASSUME NEW b \in Cells, NEW s \in Requests,
               held[s] = [client |-> Watched, cell |-> b]
        PROVE  held'[s] = [client |-> Watched, cell |-> b]
    BY <1>1, <2>2, LimiterAssumption DEF Idle
  <2>3. QED
    BY <1>1, <2>1, <2>2 DEF WatchedCells
<1>3. Tokens' = Tokens
  BY <1>1, <1>2 DEF Tokens
<1>4. QED
  BY <1>1, <1>3 DEF Covered

\* Only a bucket that a client gets adds to its tokens.
LEMMA EnterTokens ==
    ASSUME IInv, NEW r \in Requests, NEW c \in Clients, held[r] = Idle, visitors[c] = None,
           NEW others \in [Clients -> Cells \cup {None}], Enter(r, c, others),
           \A d \in Clients : others[d] \in {visitors[d], None}
    PROVE  /\ \A s \in Requests, b \in Cells :
                 /\ c # Watched
                 /\ held'[s] = [client |-> Watched, cell |-> b]
                 => held[s] = [client |-> Watched, cell |-> b]
           /\ c # Watched => visitors'[Watched] = others[Watched] /\ Tokens' \subseteq Tokens
           /\ c = Watched =>
                 /\ visitors'[Watched] \in Cells
                 /\ \E b \in Cells : Tokens' \subseteq Tokens \cup ({b} \X (1..Burst))
<1>1. PICK b \in Cells :
        /\ Free(b)
        /\ held' = [held EXCEPT ![r] = [client |-> c, cell |-> b]]
        /\ bucket' = [bucket EXCEPT ![b] = Burst]
        /\ visitors' = [others EXCEPT ![c] = b]
  BY DEF Enter
<1>2. /\ held'[r] = [client |-> c, cell |-> b]
      /\ \A s \in Requests \ {r} : held'[s] = held[s]
      /\ \A a \in Cells \ {b} : bucket'[a] = bucket[a]
      /\ visitors'[c] = b /\ \A d \in Clients \ {c} : visitors'[d] = others[d]
  BY <1>1 DEF IInv, TypeOK
<1>3. Watched \in Clients /\ None \notin Cells
  BY LimiterAssumption
<1>4. ASSUME NEW s \in Requests, NEW a \in Cells, a # b \/ c # Watched,
             held'[s] = [client |-> Watched, cell |-> a]
      PROVE  held[s] = [client |-> Watched, cell |-> a]
  BY <1>2, <1>4
<1>5. \A a \in WatchedCells' : a \in WatchedCells \/ (a = b /\ c = Watched)
  <2>1. ASSUME NEW a \in Cells, visitors'[Watched] = a, ~(a = b /\ c = Watched)
        PROVE  visitors[Watched] = a
    BY <1>2, <1>3, <2>1
  <2>2. QED
    BY <1>4, <2>1 DEF WatchedCells
<1>6. b \notin WatchedCells
  <2>1. visitors[Watched] # b /\ \A s \in Requests : held[s].cell # b
    BY <1>1, <1>3 DEF Free
  <2>2. QED
    BY <2>1 DEF WatchedCells
<1>7. \A p \in Tokens' : p \in Tokens \/ (p[1] = b /\ c = Watched)
  <2>1. SUFFICES ASSUME NEW p \in Tokens', ~(p[1] = b /\ c = Watched) PROVE p \in Tokens
    OBVIOUS
  <2>2. /\ p \in Cells \X (1..Burst) /\ p[1] \in WatchedCells' /\ p[2] <= bucket'[p[1]]
    BY DEF Tokens
  <2>3. p[1] \in WatchedCells /\ p[1] # b /\ p[1] \in Cells
    BY <1>5, <1>6, <2>1, <2>2
  <2>4. QED
    BY <1>2, <2>2, <2>3 DEF Tokens
<1>8. c = Watched => Tokens' \subseteq Tokens \cup ({b} \X (1..Burst))
  <2>1. ASSUME NEW p \in Tokens', p[1] = b PROVE p \in {b} \X (1..Burst)
    BY <2>1, Sizes DEF Tokens
  <2>2. QED
    BY <1>7, <2>1
<1>9. QED
  BY <1>2, <1>3, <1>4, <1>7, <1>8

LEMMA InsertCovered ==
    ASSUME IInv, Covered, NEW r \in Requests, NEW c \in Clients, Insert(r, c), held[r] = Idle
    PROVE  Covered'
<1>1. /\ visitors \in [Clients -> Cells \cup {None}] /\ visitors[c] = None
      /\ Enter(r, c, visitors) /\ balance' = balance /\ balance \in Int
  BY DEF IInv, TypeOK, Insert
<1>2. IsFiniteSet(Tokens) /\ Cardinality(Tokens) \in Nat
  BY FS_CardinalityType DEF Covered
<1>3. CASE c = Watched
  <2>1. PICK b \in Cells : Tokens' \subseteq Tokens \cup ({b} \X (1..Burst))
    BY <1>1, <1>3, EnterTokens
  <2>2. /\ IsFiniteSet({b} \X (1..Burst))
        /\ Cardinality({b} \X (1..Burst)) = Burst
    BY FullCell
  <2>3. /\ IsFiniteSet(Tokens') /\ Cardinality(Tokens') \in Nat
        /\ Cardinality(Tokens') <= Cardinality(Tokens) + Burst
    BY <1>2, <2>1, <2>2, MoreTokens, Sizes
  <2>4. visitors'[Watched] # None
    BY <1>1, <1>3, EnterTokens, LimiterAssumption
  <2>5. QED
    BY <1>1, <1>2, <1>3, <2>3, <2>4, Sizes DEF Covered
<1>4. CASE c # Watched
  <2>1. Tokens' \subseteq Tokens /\ visitors'[Watched] = visitors[Watched]
    BY <1>1, <1>4, EnterTokens
  <2>2. IsFiniteSet(Tokens') /\ Cardinality(Tokens') <= Cardinality(Tokens)
        /\ Cardinality(Tokens') \in Nat
    BY <1>2, <2>1, FewerTokens
  <2>3. QED
    BY <1>1, <1>2, <2>1, <2>2, Sizes DEF Covered
<1>5. QED
  BY <1>3, <1>4

\* Whatever an evicted client still holds, its requests hold.
LEMMA HeldTokens ==
    ASSUME IInv', visitors'[Watched] = None
    PROVE  /\ IsFiniteSet(Tokens') /\ Cardinality(Tokens') \in Nat
           /\ Cardinality(Tokens') <= Burst * Cardinality(Requests)
<1> DEFINE H == {held'[r].cell : r \in Requests}
<1>1. IsFiniteSet(H) /\ Cardinality(H) <= Cardinality(Requests)
  BY HeldCells
<1>2. IsFiniteSet(1..Burst) /\ Cardinality(1..Burst) = Burst
  <2>1. 1 \in Int /\ Burst \in Int /\ (IF 1 > Burst THEN 0 ELSE Burst - 1 + 1) = Burst
    BY Sizes
  <2>2. QED
    BY <2>1, FS_Interval
<1>3. IsFiniteSet(H \X (1..Burst)) /\ Cardinality(H \X (1..Burst)) = Cardinality(H) * Burst
  BY <1>1, <1>2, FS_Product
<1>4. Tokens' \subseteq H \X (1..Burst)
  <2>1. SUFFICES ASSUME NEW p \in Tokens' PROVE p[1] \in H
    BY DEF Tokens
  <2>2. p[1] \in WatchedCells' /\ p[1] \in Cells
    BY DEF Tokens
  <2>3. PICK r \in Requests : held'[r] = [client |-> Watched, cell |-> p[1]]
    BY <2>2, LimiterAssumption DEF WatchedCells
  <2>4. held'[r].cell = p[1]
    BY <2>3
  <2>5. QED
    BY <2>4
<1>5. IsFiniteSet(Tokens') /\ Cardinality(Tokens') \in Nat
      /\ Cardinality(Tokens') <= Cardinality(H) * Burst
  BY <1>3, <1>4, FewerTokens
<1>6. Cardinality(H) * Burst <= Burst * Cardinality(Requests)
  <2>1. Cardinality(H) \in Nat /\ Cardinality(Requests) \in Nat /\ Burst \in Nat
    BY <1>1, FS_CardinalityType, LimiterAssumption, Sizes
  <2>2. Cardinality(Requests) - Cardinality(H) \in Nat
    BY <1>1, <2>1
  <2>3. (Cardinality(Requests) - Cardinality(H)) * Burst \in Nat
    BY <2>1, <2>2
  <2>4. QED
    BY <2>1, <2>3
<1>7. QED
  <2>1. Cardinality(H) * Burst \in Int /\ Burst * Cardinality(Requests) \in Int
    BY <1>1, FS_CardinalityType, LimiterAssumption, Sizes
  <2>2. QED
    BY <1>5, <1>6, <2>1

\* An evicted client gains a full bucket, and the balance with it.  The limit of the
\* balance is no limit: it covers every bucket the client can have.
LEMMA EvictCovered ==
    ASSUME IInv, Covered, NEW r \in Requests, NEW c \in Clients, Evict(r, c), held[r] = Idle,
           IInv'
    PROVE  Covered'
<1>1. PICK d \in Oldest :
        /\ Enter(r, c, [visitors EXCEPT ![d] = None])
        /\ balance' = IF d = Watched THEN AtMost(MaxBalance, balance + Burst) ELSE balance
  BY DEF Evict
<1> DEFINE others == [visitors EXCEPT ![d] = None]
<1>2. /\ visitors \in [Clients -> Cells \cup {None}] /\ visitors[c] = None
      /\ d \in Clients /\ visitors[d] # None /\ balance \in Int
      /\ others \in [Clients -> Cells \cup {None}]
      /\ \A e \in Clients : others[e] = IF e = d THEN None ELSE visitors[e]
      /\ Enter(r, c, others)
  BY <1>1 DEF IInv, TypeOK, Evict, Oldest, Visitors
<1> HIDE DEF others
<1>3. IsFiniteSet(Tokens) /\ Cardinality(Tokens) \in Nat
  BY FS_CardinalityType DEF Covered
<1>4. CASE c = Watched
  <2>1. PICK b \in Cells : Tokens' \subseteq Tokens \cup ({b} \X (1..Burst))
    BY <1>1, <1>2, <1>4, EnterTokens
  <2>2. /\ IsFiniteSet({b} \X (1..Burst))
        /\ Cardinality({b} \X (1..Burst)) = Burst
    BY FullCell
  <2>3. /\ IsFiniteSet(Tokens') /\ Cardinality(Tokens') \in Nat
        /\ Cardinality(Tokens') <= Cardinality(Tokens) + Burst
    BY <1>3, <2>1, <2>2, MoreTokens, Sizes
  <2>4. visitors'[Watched] # None /\ d # Watched
    BY <1>1, <1>2, <1>4, EnterTokens, LimiterAssumption
  <2>5. QED
    BY <1>1, <1>2, <1>3, <1>4, <2>3, <2>4, Sizes DEF Covered
<1>5. CASE c # Watched /\ d # Watched
  <2>1. Tokens' \subseteq Tokens /\ visitors'[Watched] = visitors[Watched]
    BY <1>2, <1>5, EnterTokens, LimiterAssumption
  <2>2. IsFiniteSet(Tokens') /\ Cardinality(Tokens') <= Cardinality(Tokens)
        /\ Cardinality(Tokens') \in Nat
    BY <1>3, <2>1, FewerTokens
  <2>3. QED
    BY <1>1, <1>2, <1>3, <1>5, <2>1, <2>2, Sizes DEF Covered
<1>6. CASE d = Watched
  <2>1. c # Watched
    BY <1>2, <1>6
  <2>2. Tokens' \subseteq Tokens /\ visitors'[Watched] = None
    BY <1>2, <1>6, <2>1, EnterTokens, LimiterAssumption
  <2>3. IsFiniteSet(Tokens') /\ Cardinality(Tokens') \in Nat
        /\ Cardinality(Tokens') <= Cardinality(Tokens)
    BY <1>3, <2>2, FewerTokens
  <2>4. Cardinality(Tokens') <= Burst * Cardinality(Requests)
    BY <2>2, HeldTokens
  <2>5. MaxBalance = Burst + Burst * Cardinality(Requests)
        /\ Burst * Cardinality(Requests) \in Int
    BY FS_CardinalityType, LimiterAssumption, Sizes DEF MaxBalance
  <2>6. balance >= Cardinality(Tokens)
    BY <1>2, <1>3, <1>6 DEF Covered
  <2>7. balance' >= Cardinality(Tokens') + Burst
    BY <1>1, <1>2, <1>3, <1>6, <2>3, <2>4, <2>5, <2>6, Sizes DEF AtMost
  <2>8. QED
    BY <2>2, <2>3, <2>7 DEF Covered
<1>7. QED
  BY <1>4, <1>5, <1>6

\* A request that is admitted takes an interval's tokens, from the balance as well.
LEMMA AllowCovered ==
    ASSUME IInv, Covered, NEW r \in Requests, Allow(r)
    PROVE  Covered'
<1> DEFINE b == held[r].cell
<1>1. /\ b \in Cells /\ held[r].client \in Clients
      /\ visitors' = visitors /\ balance \in Int
      /\ held'[r] = Idle /\ \A s \in Requests \ {r} : held'[s] = held[s]
  BY DEF IInv, TypeOK, CellsOwned, Allow
<1>2. IsFiniteSet(Tokens) /\ Cardinality(Tokens) \in Nat
  BY FS_CardinalityType DEF Covered
<1>3. WatchedCells' \subseteq WatchedCells
  <2>1. ASSUME NEW s \in Requests, NEW a \in Cells,
               held'[s] = [client |-> Watched, cell |-> a]
        PROVE  held[s] = [client |-> Watched, cell |-> a]
    BY <1>1, <2>1, LimiterAssumption DEF Idle
  <2>2. QED
    BY <1>1, <2>1 DEF WatchedCells
<1>4. CASE bucket' = bucket /\ balance' = balance
  <2>1. Tokens' \subseteq Tokens
    BY <1>3, <1>4 DEF Tokens
  <2>2. IsFiniteSet(Tokens') /\ Cardinality(Tokens') <= Cardinality(Tokens)
        /\ Cardinality(Tokens') \in Nat
    BY <1>2, <2>1, FewerTokens
  <2>3. QED
    BY <1>1, <1>2, <1>4, <2>2, Sizes DEF Covered
<1>5. CASE /\ bucket[b] >= Interval
           /\ bucket' = [bucket EXCEPT ![b] = @ - Interval]
           /\ Admitted(r)
  <2>1. /\ bucket[b] \in 0..Burst /\ bucket'[b] = bucket[b] - Interval
        /\ \A a \in Cells \ {b} : bucket'[a] = bucket[a]
        /\ \A a \in Cells : bucket[a] \in 0..Burst
    BY <1>1, <1>5 DEF IInv, TypeOK
  <2>2. Tokens' \subseteq Tokens
    <3>1. SUFFICES ASSUME NEW p \in Tokens' PROVE p \in Tokens
      OBVIOUS
    <3>2. p \in Cells \X (1..Burst) /\ p[1] \in WatchedCells /\ p[2] <= bucket'[p[1]]
      BY <1>3 DEF Tokens
    <3>3. bucket'[p[1]] <= bucket[p[1]] /\ bucket[p[1]] \in Int /\ bucket'[p[1]] \in Int
      BY <2>1, <3>2, Sizes
    <3>4. p[2] <= bucket[p[1]]
      BY <3>2, <3>3
    <3>5. QED
      BY <3>2, <3>4 DEF Tokens
  <2>3. CASE held[r].client # Watched
    <3>1. balance' = balance
      BY <1>5, <2>3 DEF Admitted
    <3>2. IsFiniteSet(Tokens') /\ Cardinality(Tokens') <= Cardinality(Tokens)
          /\ Cardinality(Tokens') \in Nat
      BY <1>2, <2>2, FewerTokens
    <3>3. QED
      BY <1>1, <1>2, <3>1, <3>2, Sizes DEF Covered
  <2>4. CASE held[r].client = Watched
    <3>1. PICK low \in Nat : low = bucket[b] - Interval /\ low <= bucket[b]
      BY <1>5, <2>1, Sizes
    <3> DEFINE R == {b} \X ((low + 1)..bucket[b])
    <3>2. Cardinality(R) = Interval
      <4>1. bucket[b] \in Nat /\ bucket[b] - low = Interval
        BY <2>1, <3>1, Sizes
      <4>2. Cardinality(R) = bucket[b] - low
        BY <3>1, <4>1, CellTokens
      <4>3. QED
        BY <4>1, <4>2
    <3>3. b \in WatchedCells
      <4>1. held[r] = [client |-> Watched, cell |-> b]
        BY <2>4 DEF IInv, TypeOK
      <4>2. QED
        BY <1>1, <4>1 DEF WatchedCells
    <3>4. R \subseteq Tokens
      <4>1. SUFFICES ASSUME NEW p \in R PROVE p \in Tokens
        OBVIOUS
      <4>2. p[1] = b /\ p[2] \in 1..Burst /\ p[2] <= bucket[b] /\ p = <<p[1], p[2]>>
        BY <2>1, <3>1, Sizes
      <4>3. QED
        BY <1>1, <3>3, <4>2 DEF Tokens
    <3>5. Tokens' \subseteq Tokens \ R
      <4>1. SUFFICES ASSUME NEW p \in Tokens', p \in R PROVE FALSE
        BY <2>2
      <4>2. p[1] = b /\ p[2] > low /\ p[2] \in Int
        BY <2>1, <3>1, <4>1
      <4>3. p[2] <= bucket'[b]
        BY <4>2 DEF Tokens
      <4>4. QED
        BY <2>1, <3>1, <4>2, <4>3
    <3>6. IsFiniteSet(Tokens') /\ Cardinality(Tokens') \in Nat
          /\ Cardinality(Tokens') <= Cardinality(Tokens) - Interval
      BY <1>2, <3>2, <3>4, <3>5, TokensGone
    <3>7. balance' = balance - Interval
      BY <1>5, <2>4 DEF Admitted
    <3>8. QED
      BY <1>1, <1>2, <3>6, <3>7, Sizes DEF Covered
  <2>5. QED
    BY <2>3, <2>4
<1>6. QED
  BY <1>4, <1>5 DEF Allow

\* Time passes only while nobody holds a bucket, so that the one in the table is all.
LEMMA TickCovered ==
    ASSUME IInv, Covered, Tick PROVE Covered'
<1>1. /\ visitors' = visitors /\ held' = held /\ \A r \in Requests : held[r] = Idle
      /\ balance \in Int /\ balance' = AtMost(Burst, balance + 1)
  BY DEF Tick, IInv, TypeOK
<1>2. IsFiniteSet(Tokens) /\ Cardinality(Tokens) \in Nat
  BY FS_CardinalityType DEF Covered
<1>3. /\ \A b \in WatchedCells : b = visitors[Watched] /\ b # None
      /\ WatchedCells' = WatchedCells
  BY <1>1, LimiterAssumption DEF WatchedCells, Idle
<1>4. CASE visitors[Watched] = None
  <2>1. Tokens' = {}
    BY <1>3, <1>4 DEF Tokens
  <2>2. IsFiniteSet(Tokens') /\ Cardinality(Tokens') = 0
    BY <2>1, FS_EmptySet
  <2>3. QED
    BY <1>1, <1>2, <1>4, <2>2, Sizes DEF Covered, AtMost
<1>5. CASE visitors[Watched] # None
  <2> DEFINE b == visitors[Watched]
  <2>1. b \in Cells /\ bucket[b] \in 0..Burst
    BY <1>5, LimiterAssumption DEF IInv, TypeOK
  <2>2. PICK level \in Nat : level = bucket'[b] /\ level = AtMost(Burst, bucket[b] + 1)
    BY <2>1, Sizes DEF Tick, Growth, AtMost
  <2>3. Tokens' \subseteq {b} \X ((0 + 1)..level)
    <3>1. SUFFICES ASSUME NEW p \in Tokens' PROVE p \in {b} \X ((0 + 1)..level)
      OBVIOUS
    <3>2. p \in Cells \X (1..Burst) /\ p[1] = b /\ p[2] <= bucket'[b]
      BY <1>3 DEF Tokens
    <3>3. QED
      BY <2>2, <3>2, Sizes
  <2>4. {b} \X ((0 + 1)..bucket[b]) \subseteq Tokens
    <3>1. SUFFICES ASSUME NEW p \in {b} \X ((0 + 1)..bucket[b]) PROVE p \in Tokens
      OBVIOUS
    <3>2. p \in Cells \X (1..Burst) /\ p[1] = b /\ p[2] <= bucket[b]
      BY <2>1, Sizes
    <3>3. QED
      BY <2>1, <3>2 DEF Tokens, WatchedCells
  <2>5. Cardinality({b} \X ((0 + 1)..bucket[b])) = bucket[b]
    <3>1. PICK m \in Nat : m = 0
      OBVIOUS
    <3>2. m <= bucket[b] /\ bucket[b] \in Nat
      BY <2>1, <3>1, Sizes
    <3>3. Cardinality({b} \X ((m + 1)..bucket[b])) = bucket[b] - m
      BY <3>2, CellTokens
    <3>4. QED
      BY <2>1, <3>1, <3>3
  <2>6. /\ IsFiniteSet({b} \X ((0 + 1)..level))
        /\ Cardinality({b} \X ((0 + 1)..level)) = level
    <3>1. PICK m \in Nat : m = 0 /\ m <= level
      OBVIOUS
    <3>2. /\ IsFiniteSet({b} \X ((m + 1)..level))
          /\ Cardinality({b} \X ((m + 1)..level)) = level - m
      BY <3>1, CellTokens
    <3>3. QED
      BY <3>1, <3>2
  <2>7. balance >= bucket[b]
    <3>1. Cardinality({b} \X ((0 + 1)..bucket[b])) <= Cardinality(Tokens)
      BY <1>2, <2>4, FewerTokens
    <3>2. balance >= Cardinality(Tokens)
      BY <1>1, <1>2, <1>5 DEF Covered
    <3>3. QED
      BY <1>1, <1>2, <2>1, <2>5, <3>1, <3>2, Sizes
  <2>8. /\ IsFiniteSet(Tokens') /\ Cardinality(Tokens') \in Nat
        /\ Cardinality(Tokens') <= level
    BY <2>3, <2>6, FewerTokens
  <2>9. balance' >= level
    BY <1>1, <2>1, <2>2, <2>7, Sizes DEF AtMost
  <2>10. QED
    <3>1. balance' \in Int
      BY <1>1, Sizes DEF AtMost
    <3>2. QED
      BY <1>1, <1>5, <2>2, <2>8, <2>9, <3>1 DEF Covered
<1>6. QED
  BY <1>4, <1>5

\* A bucket that is cleaned up is as good as the new one.
LEMMA CleanupCovered ==
    ASSUME IInv, Covered, Cleanup PROVE Covered'
<1>1. /\ bucket' = bucket /\ held' = held /\ balance' = balance /\ balance \in Int
      /\ visitors'[Watched] \in {visitors[Watched], None}
      /\ visitors'[Watched] # visitors[Watched] => Expired(Watched)
  BY LimiterAssumption DEF Cleanup, record, IInv, TypeOK
<1>2. IsFiniteSet(Tokens) /\ Cardinality(Tokens) \in Nat
  BY FS_CardinalityType DEF Covered
<1>3. Tokens' \subseteq Tokens
  BY <1>1, LimiterAssumption DEF Tokens, WatchedCells
<1>4. CASE visitors'[Watched] = visitors[Watched]
  <2>1. IsFiniteSet(Tokens') /\ Cardinality(Tokens') \in Nat
        /\ Cardinality(Tokens') <= Cardinality(Tokens)
    BY <1>2, <1>3, FewerTokens
  <2>2. QED
    BY <1>1, <1>2, <1>4, <2>1, Sizes DEF Covered
<1>5. CASE visitors'[Watched] # visitors[Watched]
  <2> DEFINE b == visitors[Watched]
  <2>1. Expired(Watched) /\ visitors'[Watched] = None /\ Watched \in Visitors
        /\ b \in Cells /\ bucket[b] \in 0..Burst
        /\ now \in Nat /\ lastSeen[Watched] \in 0..now
    BY <1>1, <1>5, LimiterAssumption DEF Expired, Visitors, IInv, TypeOK
  <2>2. now - lastSeen[Watched] >= Burst /\ lastSeen[Watched] # now
    BY <2>1, Sizes, LimiterAssumption DEF Expired
  <2>3. bucket[b] = Burst
    BY <2>1, <2>2, Sizes DEF IInv, Grown, AtMost
  <2>4. \A r \in Requests : held[r].cell # b
    BY <2>1, <2>2 DEF IInv, Grown
  <2>5. {b} \X (1..Burst) \subseteq Tokens
    BY <2>1, <2>3 DEF Tokens, WatchedCells
  <2>6. \A p \in Tokens' : p[1] # b
    <3>1. b \notin WatchedCells'
      <4>1. visitors'[Watched] # b
        BY <1>5
      <4>2. \A r \in Requests : held'[r] # [client |-> Watched, cell |-> b]
        BY <1>1, <2>4
      <4>3. QED
        BY <4>1, <4>2 DEF WatchedCells
    <3>2. QED
      BY <3>1 DEF Tokens
  <2>7. Tokens' \subseteq Tokens \ ({b} \X (1..Burst))
    BY <1>3, <2>6
  <2>8. IsFiniteSet(Tokens') /\ Cardinality(Tokens') \in Nat
        /\ Cardinality(Tokens') <= Cardinality(Tokens) - Burst
    <3>1. Cardinality({b} \X (1..Burst)) = Burst
      BY FullCell
    <3>2. QED
      BY <1>2, <2>5, <2>7, <3>1, TokensGone
  <2>9. balance >= Cardinality(Tokens)
    BY <1>1, <1>2, <2>1 DEF Covered, Expired
  <2>10. QED
    BY <1>1, <1>2, <2>1, <2>8, <2>9, Sizes DEF Covered
<1>6. QED
  BY <1>4, <1>5

THEOREM BalanceCovers == Spec => []Covered
<1>1. Init => Covered
  <2>1. SUFFICES ASSUME Init PROVE Covered
    OBVIOUS
  <2>2. Tokens = {}
    BY <2>1, LimiterAssumption DEF Init, Tokens, WatchedCells, Idle
  <2>3. QED
    BY <2>1, <2>2, FS_EmptySet, Sizes DEF Init, Covered
<1>2. ASSUME IInv, IInv', Covered, [Next]_vars PROVE Covered'
  <2>1. ASSUME NEW r \in Requests, GetLimiter(r) PROVE Covered'
    BY <1>2, <2>1, LookUpCovered, InsertCovered, EvictCovered DEF GetLimiter
  <2>2. CASE UNCHANGED vars
    BY <1>2, <2>2 DEF vars, table, record, Covered, Tokens, WatchedCells
  <2>3. QED
    BY <1>2, <2>1, <2>2, AllowCovered, TickCovered, CleanupCovered DEF Next
<1>3. QED
  BY <1>1, <1>2, Invariance, PTL DEF Spec

-----------------------------------------------------------------------------
\* Every variable stays in its range: no bucket is overdrawn, or holds more than a burst.
THEOREM TypeCorrect == Spec => []TypeOK
BY Invariance, PTL DEF IInv

\* No bucket is shared, none of another client is charged, and the table never grows
\* past its bound, which is what keeps the memory of the gateway bounded.
THEOREM TableAlwaysOK == Spec => []TableOK
<1>1. IInv => TableOK
  BY DEF IInv, CellsOwned, TableBounded, TableOK
<1>2. QED
  BY <1>1, Invariance, PTL

\* A client is never admitted for more than one bucket holds, what grows back in it, and
\* a full one for every time it has been evicted, whatever requests are under way with
\* buckets that the table has forgotten.
THEOREM AdmissionsBounded == Spec => []AdmissionBound
<1>1. IInv /\ Covered => AdmissionBound
  BY FS_CardinalityType, Sizes DEF IInv, TypeOK, Covered, AdmissionBound
<1>2. QED
  BY <1>1, Invariance, BalanceCovers, PTL

\* The cleanup forgets only buckets that are full and that nobody is about to ask.
THEOREM CleanupIsHarmless == Spec => CleanupHarmless
<1> DEFINE A == \A c \in Visitors : Cleanup /\ visitors'[c] = None =>
                   /\ bucket[visitors[c]] = Burst
                   /\ \A r \in Requests : held[r].cell # visitors[c]
<1>1. ASSUME IInv PROVE A
  <2>1. SUFFICES ASSUME NEW c \in Visitors, Cleanup, visitors'[c] = None
                 PROVE  /\ bucket[visitors[c]] = Burst
                        /\ \A r \in Requests : held[r].cell # visitors[c]
    OBVIOUS
  <2>2. /\ c \in Clients /\ visitors[c] \in Cells /\ lastSeen[c] \in 0..now /\ now \in Nat
        /\ bucket[visitors[c]] \in 0..Burst
    BY <1>1, LimiterAssumption DEF IInv, TypeOK, Visitors
  <2>3. now > Window + lastSeen[c]
    BY <2>1, <2>2, LimiterAssumption DEF Cleanup, Expired
  <2>4. now - lastSeen[c] >= Burst /\ lastSeen[c] # now
    BY <2>2, <2>3, Sizes, LimiterAssumption
  <2>5. bucket[visitors[c]] >= Burst
    BY <1>1, <2>2, <2>4, Sizes DEF IInv, Grown, AtMost
  <2>6. QED
    BY <1>1, <2>2, <2>4, <2>5, Sizes DEF IInv, Grown
<1>2. IInv => [A]_vars
  BY <1>1
<1>3. QED
  BY <1>2, Invariance, PTL DEF CleanupHarmless

\* Whoever is evicted has been overtaken by as many others as the table holds: a client
\* cannot be made to lose its bucket, or get a new one, by fewer.
THEOREM EvictionTakesCrowd == Spec => EvictionNeedsCrowd
<1> USE LimiterAssumption
<1>1. ASSUME IInv, [Next]_vars, visitors[Watched] # None, visitors'[Watched] = None, ~Cleanup
      PROVE  Cardinality(crowd') >= MaxVisitors
  <2>1. PICK r \in Requests : GetLimiter(r)
    BY <1>1 DEF Next, vars, table, Allow, Tick
  <2>2. PICK c \in Clients :
          /\ LookUp(r, c) \/ Insert(r, c) \/ Evict(r, c)
          /\ crowd' = IF c = Watched THEN {d \in Visitors \ {c} : lastSeen[d] = now}
                      ELSE crowd \cup {c}
    BY <2>1 DEF GetLimiter
  <2>3. Evict(r, c)
    BY <1>1, <2>2 DEF IInv, TypeOK, LookUp, Insert, Enter
  <2>4. PICK d \in Oldest : Enter(r, c, [visitors EXCEPT ![d] = None])
    BY <2>3 DEF Evict
  <2>5. c # Watched /\ c \notin Visitors /\ Cardinality(Visitors) >= MaxVisitors
    BY <1>1, <2>3 DEF Evict, Visitors
  <2>6. d = Watched
    BY <1>1, <2>4, <2>5 DEF IInv, TypeOK, Enter
  <2>7. Watched \in Visitors /\ \A e \in Visitors : lastSeen[Watched] <= lastSeen[e]
    BY <2>4, <2>6 DEF Oldest
  <2>8. Visitors \ {Watched} \subseteq crowd
    BY <1>1, <2>7 DEF IInv, TypeOK, CrowdKnown, Visitors
  <2>9. /\ IsFiniteSet(Visitors) /\ IsFiniteSet(crowd')
        /\ (Visitors \ {Watched}) \cup {c} \subseteq crowd'
    BY <1>1, <2>2, <2>5, <2>8, FS_AddElement DEF IInv, TableBounded, CrowdKnown
  <2>10. /\ IsFiniteSet(Visitors \ {Watched})
         /\ Cardinality(Visitors \ {Watched}) = Cardinality(Visitors) - 1
    BY <2>7, <2>9, FS_RemoveElement
  <2>11. /\ IsFiniteSet((Visitors \ {Watched}) \cup {c})
         /\ Cardinality((Visitors \ {Watched}) \cup {c}) = Cardinality(Visitors)
    <3>1. c \notin Visitors \ {Watched} /\ Cardinality(Visitors) \in Nat
      BY <2>5, <2>9, FS_CardinalityType
    <3>2. /\ IsFiniteSet((Visitors \ {Watched}) \cup {c})
          /\ Cardinality((Visitors \ {Watched}) \cup {c}) =
                Cardinality(Visitors \ {Watched}) + 1
      BY <2>10, <3>1, FS_AddElement
    <3>3. QED
      BY <2>10, <3>1, <3>2
  <2>12. Cardinality((Visitors \ {Watched}) \cup {c}) <= Cardinality(crowd')
    BY <2>9, FS_Subset
  <2>13. Cardinality(Visitors) \in Nat /\ Cardinality(crowd') \in Nat
    BY <2>9, FS_CardinalityType
  <2>14. QED
    BY <2>5, <2>11, <2>12, <2>13
<1>2. IInv /\ [Next]_vars =>
        [visitors[Watched] # None /\ visitors'[Watched] = None /\ ~Cleanup =>
            Cardinality(crowd') >= MaxVisitors]_vars
  BY <1>1
<1>3. QED
  BY <1>2, Invariance, PTL DEF Spec, EvictionNeedsCrowd

\* Who is refused has been admitted less than an interval ago: no client can use up what
\* another one has.
THEOREM RefusalTakesUse == Spec => RefusalNeedsUse
<1> USE LimiterAssumption
<1>1. ASSUME IInv, [Next]_vars, NEW r \in Requests,
             held[r].client = Watched, held'[r] = Idle, bucket' = bucket
      PROVE  rested < Interval
  <2>1. held[r] # Idle /\ held[r].cell \in Cells /\ held'[r] # held[r]
    BY <1>1 DEF IInv, CellsOwned, Idle
  <2>2. Allow(r)
    <3>1. ASSUME NEW s \in Requests, GetLimiter(s) PROVE held'[r] = held[r] \/ r = s
      BY <1>1, <3>1 DEF GetLimiter, LookUp, Insert, Evict, Enter, IInv, TypeOK
    <3>2. ASSUME NEW s \in Requests, Allow(s), r # s PROVE held'[r] = held[r]
      BY <1>1, <3>2 DEF Allow, IInv, TypeOK
    <3>3. ~GetLimiter(r)
      BY <2>1 DEF GetLimiter
    <3>4. QED
      BY <1>1, <2>1, <3>1, <3>2, <3>3 DEF Next, vars, Tick, Cleanup
  <2>3. bucket[held[r].cell] < Interval
    BY <1>1, <2>1, <2>2, Sizes DEF Allow, IInv, TypeOK
  <2>4. bucket[held[r].cell] >= rested
    BY <1>1 DEF IInv, WatchedRested
  <2>5. QED
    BY <1>1, <2>1, <2>3, <2>4, Sizes DEF IInv, TypeOK
<1>2. IInv /\ [Next]_vars =>
        [\A r \in Requests :
            held[r].client = Watched /\ held'[r] = Idle /\ bucket' = bucket =>
                rested < Interval]_vars
  BY <1>1
<1>3. QED
  BY <1>2, Invariance, PTL DEF Spec, RefusalNeedsUse
=============================================================================
