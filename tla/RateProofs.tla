------------------------------ MODULE RateProofs ------------------------------
(***************************************************************************)
(* Three promises of the rate limiter, for any number of clients,          *)
(* processes and requests in flight, any limit and any window: that of its *)
(* Retry-After header, as long as no fault separates an INCR from its      *)
(* EXPIRE, and the bounds on what Redis, and Redis and the memory of all   *)
(* processes together, let through, whatever fails but Redis itself.       *)
(***************************************************************************)
EXTENDS RateLimiter, Counting, TLAPS

Lists == {h \in SUBSET Stamps : IsFiniteSet(h)}

\* Pruning, ageing and appending turn lists of stamps into lists of stamps.
LEMMA ListOperations ==
  ASSUME RateAssumption, NEW h \in Lists
  PROVE  /\ Prune(h) \in Lists /\ Stamped(h) \in Lists /\ Older(h) \in Lists
         /\ \A t \in h : t[1] \in 0..Window
<1>1. h \in SUBSET Stamps /\ IsFiniteSet(h)
  BY DEF Lists
<1>2. \A t \in Stamps : t[1] \in 0..Window /\ t[2] \in Nat \ {0}
  BY DEF Stamps
<1>3. Window \in Nat \ {0}
  BY DEF RateAssumption
<1>4. Prune(h) \in Lists
  BY <1>1, FS_Subset DEF Prune, Lists
<1>5. Stamped(h) \in Lists
  <2> DEFINE now == {t \in h : t[1] = 0}
             new == <<0, Cardinality(now) + 1>>
  <2>1. IsFiniteSet(now)
    BY <1>1, FS_Subset
  <2>2. Cardinality(now) \in Nat
    BY <2>1, FS_CardinalityType
  <2>3. 0 \in 0..Window /\ Cardinality(now) + 1 \in Nat \ {0}
    BY <1>3, <2>2
  <2>4. new \in Stamps
    BY <2>3 DEF Stamps
  <2>5. IsFiniteSet(h \cup {new})
    BY <1>1, FS_AddElement
  <2>6. Stamped(h) = h \cup {new}
    BY DEF Stamped
  <2> QED
    BY <1>1, <2>4, <2>5, <2>6 DEF Lists
<1>6. Older(h) \in Lists
  <2> DEFINE older(t) == <<IF t[1] < Window THEN t[1] + 1 ELSE Window, t[2]>>
  <2>1. \A t \in h : older(t) \in Stamps
    BY <1>1, <1>2, <1>3 DEF Stamps
  <2>2. Older(h) = {older(t) : t \in h}
    BY DEF Older
  <2>3. IsFiniteSet({older(t) : t \in h})
    <3> DEFINE f == [t \in h |-> older(t)]
               R == {older(t) : t \in h}
    <3>1. f \in Surjection(h, R)
      BY DEF Surjection
    <3> HIDE DEF f, R
    <3>2. IsFiniteSet(R)
      BY <1>1, <3>1, FS_Surjection
    <3> QED
      BY <3>2 DEF R
  <2> QED
    BY <2>1, <2>2, <2>3 DEF Lists
<1> QED
  BY <1>1, <1>2, <1>4, <1>5, <1>6

\* The two typing conjuncts on lists say that every list is in Lists.
LEMMA ListTypes ==
  ASSUME TypeOK, FiniteLists
  PROVE  /\ \A c \in Clients : granted[c] \in Lists
         /\ \A a \in Apis : \A c \in Clients : hits[a][c] \in Lists
         /\ \A l \in Lives : \A c \in Clients : letin[l][c] \in Lists
BY DEF TypeOK, FiniteLists, Lists

\* A check of the in-memory limiter changes the list of its client only.
LEMMA CheckMemoryStep ==
  ASSUME RateAssumption, TypeOK, FiniteLists,
         NEW a \in Apis, NEW c \in Clients, CheckMemory(a, c)
  PROVE  /\ hits' \in [Apis -> [Clients -> SUBSET Stamps]]
         /\ \A b \in Apis : \A d \in Clients : hits'[b][d] \in Lists
         /\ \A b \in Apis : \A d \in Clients : d # c => hits'[b][d] = hits[b][d]
         /\ life' = life /\ letin' \in [Lives -> [Clients -> SUBSET Stamps]]
         /\ \A l \in Lives : \A d \in Clients : letin'[l][d] \in Lists
<1> DEFINE h == Prune(hits[a][c])
           new == IF Full(h) THEN h ELSE Stamped(h)
<1>1. hits' = [hits EXCEPT ![a][c] = new]
  BY DEF CheckMemory
<1>2. h \in Lists
  BY ListTypes, ListOperations
<1>3. new \in Lists
  BY <1>2, ListOperations
<1>4. hits \in [Apis -> [Clients -> SUBSET Stamps]]
  BY DEF TypeOK
<1>5. new \in SUBSET Stamps
  BY <1>3 DEF Lists
<1> HIDE DEF new
<1>6. hits' \in [Apis -> [Clients -> SUBSET Stamps]]
  BY <1>1, <1>4, <1>5
<1>7. \A b \in Apis : \A d \in Clients :
        hits'[b][d] = IF b = a /\ d = c THEN new ELSE hits[b][d]
  BY <1>1, <1>4
<1>8. /\ life' = life /\ letin' \in [Lives -> [Clients -> SUBSET Stamps]]
      /\ \A l \in Lives : \A d \in Clients : letin'[l][d] \in Lists
  <2>1. CASE letin' = letin
    BY <2>1, ListTypes DEF CheckMemory, TypeOK
  <2>2. CASE letin' # letin
    <3> DEFINE m == <<a, life[a]>>
               more == Stamped(letin[m][c])
    <3>1. m \in Lives /\ letin \in [Lives -> [Clients -> SUBSET Stamps]]
      BY DEF TypeOK, Lives
    <3>2. letin' = [letin EXCEPT ![m][c] = more] /\ life' = life
      BY <2>2 DEF CheckMemory
    <3> HIDE DEF m
    <3>3. more \in Lists /\ more \in SUBSET Stamps
      BY <3>1, ListTypes, ListOperations DEF Lists
    <3> HIDE DEF more
    <3>4. \A l \in Lives : \A d \in Clients :
            letin'[l][d] = IF l = m /\ d = c THEN more ELSE letin[l][d]
      BY <3>1, <3>2
    <3>5. letin' \in [Lives -> [Clients -> SUBSET Stamps]]
      BY <3>1, <3>2, <3>3
    <3> QED
      BY <3>2, <3>3, <3>4, <3>5, ListTypes
  <2> QED
    BY <2>1, <2>2
<1> QED
  BY <1>3, <1>6, <1>7, <1>8, ListTypes

\* What a step does to the lists of the processes keeps their types.
ListsKept ==
  /\ hits' \in [Apis -> [Clients -> SUBSET Stamps]]
  /\ \A b \in Apis : \A d \in Clients : hits'[b][d] \in Lists
  /\ life' = life /\ letin' \in [Lives -> [Clients -> SUBSET Stamps]]
  /\ \A l \in Lives : \A d \in Clients : letin'[l][d] \in Lists

-----------------------------------------------------------------------------
\* Types, finite lists and keys, under every fault.

\* A fault is one of FaultKinds and takes one from the budget.
LEMMA FaultStep ==
  ASSUME RateAssumption, TypeOK, NEW f, Fault(f)
  PROVE  /\ budget' \in 0..MaxFaults /\ struck' \in SUBSET FaultKinds
         /\ f \in struck' /\ struck \subseteq struck'
BY DEF TypeOK, RateAssumption, Fault

LEMMA BaseArrive ==
  ASSUME RateAssumption, RateBase, NEW k \in Connections,
         ArriveRedis(k) \/ ArriveMemory(k)
  PROVE  RateBase'
<1> DEFINE c == ClientOf(k)
           a == ApiOf(k)
<1>1. c \in Clients /\ a \in Apis
  BY DEF Connections, ClientOf, ApiOf
<1> HIDE DEF c, a
<1>2. TypeOK /\ FiniteLists /\ KeyHasValue
  BY DEF RateBase
<1>3. /\ quiet' = [quiet EXCEPT ![c] = 0]
      /\ UNCHANGED <<redis, counter, ttl, faults, granted>>
      /\ \/ at' = [at EXCEPT ![k] = "incr"] /\ UNCHANGED <<hits, lives>>
         \/ at' = at /\ CheckMemory(a, c)
  BY DEF ArriveRedis, ArriveMemory, c, a
<1>4. ListsKept
  BY <1>1, <1>2, <1>3, CheckMemoryStep, ListTypes DEF ListsKept, TypeOK, lives
<1>5. quiet' \in [Clients -> 0..Window]
  BY <1>1, <1>2, <1>3 DEF TypeOK, RateAssumption
<1>6. TypeOK'
  BY <1>2, <1>3, <1>4, <1>5 DEF TypeOK, faults, ListsKept
<1>7. FiniteLists' /\ KeyHasValue'
  BY <1>2, <1>3, <1>4 DEF FiniteLists, Lists, KeyHasValue, ListsKept
<1> QED
  BY <1>6, <1>7 DEF RateBase

\* What INCR does to the key and to the grants of its client.
LEMMA IncrStep ==
  ASSUME RateAssumption, TypeOK, NEW c \in Clients
  PROVE  /\ Increment(counter[c]) \in 1..Limit + 1
         /\ Increment(counter[c]) = 1 <=> counter[c] = 0
         /\ Increment(counter[c]) = IF counter[c] > Limit THEN counter[c]
                                    ELSE counter[c] + 1
<1>1. counter[c] \in 0..Limit + 1
  BY DEF TypeOK
<1> QED
  BY <1>1 DEF Increment, RateAssumption

LEMMA BaseIncr ==
  ASSUME RateAssumption, RateBase, NEW k \in Connections, Incr(k)
  PROVE  RateBase'
<1> DEFINE c == ClientOf(k)
           current == Increment(counter[c])
<1>1. c \in Clients
  BY DEF Connections, ClientOf
<1>2. TypeOK /\ FiniteLists /\ KeyHasValue
  BY DEF RateBase
<1>3. /\ counter' = [counter EXCEPT ![c] = current]
      /\ granted' = IF WithinLimit(current)
                    THEN [granted EXCEPT ![c] = Stamped(@)] ELSE granted
      /\ \E s \in {"expire", "idle"} : at' = [at EXCEPT ![k] = s]
      /\ UNCHANGED <<redis, ttl, hits, faults, lives, quiet>>
  BY DEF Incr
<1>4. current \in 1..Limit + 1
  BY <1>1, <1>2, IncrStep
<1> HIDE DEF c, current
<1>5. Stamped(granted[c]) \in Lists
  BY <1>1, <1>2, ListTypes, ListOperations
<1>6. /\ granted' \in [Clients -> SUBSET Stamps]
      /\ \A d \in Clients : granted'[d] \in Lists
  BY <1>1, <1>2, <1>3, <1>5, ListTypes DEF TypeOK, Lists
<1>7. counter' \in [Clients -> 0..Limit + 1]
  BY <1>1, <1>2, <1>3, <1>4 DEF TypeOK, RateAssumption
<1>8. at' \in [Connections -> {"idle", "incr", "expire"}]
  BY <1>2, <1>3 DEF TypeOK
<1>9. TypeOK'
  BY <1>2, <1>3, <1>6, <1>7, <1>8 DEF TypeOK, faults, lives
<1>10. FiniteLists'
  BY <1>2, <1>3, <1>6 DEF FiniteLists, Lists, lives
<1>11. KeyHasValue'
  BY <1>2, <1>3, <1>4 DEF KeyHasValue, TypeOK
<1> QED
  BY <1>9, <1>10, <1>11 DEF RateBase

LEMMA BaseIncrFails ==
  ASSUME RateAssumption, RateBase, NEW k \in Connections, IncrFails(k)
  PROVE  RateBase'
<1> DEFINE c == ClientOf(k)
           a == ApiOf(k)
           current == Increment(counter[c])
<1>1. c \in Clients /\ a \in Apis
  BY DEF Connections, ClientOf, ApiOf
<1>2. TypeOK /\ FiniteLists /\ KeyHasValue
  BY DEF RateBase
<1>3. /\ CheckMemory(a, c)
      /\ counter' = counter \/ counter' = [counter EXCEPT ![c] = current]
      /\ at' = [at EXCEPT ![k] = "idle"]
      /\ \E f \in FaultKinds : Fault(f)
      /\ UNCHANGED <<redis, ttl, granted, quiet>>
  BY DEF IncrFails, Fault
<1>4. current \in 1..Limit + 1
  BY <1>1, <1>2, IncrStep
<1> HIDE DEF c, a, current
<1>5. ListsKept
  BY <1>1, <1>2, <1>3, CheckMemoryStep DEF ListsKept
<1>6. counter' \in [Clients -> 0..Limit + 1]
  BY <1>1, <1>2, <1>3, <1>4 DEF TypeOK, RateAssumption
<1>7. budget' \in 0..MaxFaults /\ struck' \in SUBSET FaultKinds
  BY <1>2, <1>3, FaultStep
<1>8. TypeOK'
  BY <1>2, <1>3, <1>5, <1>6, <1>7 DEF TypeOK, ListsKept
<1>9. FiniteLists'
  BY <1>2, <1>3, <1>5 DEF FiniteLists, Lists, ListsKept
<1>10. KeyHasValue'
  BY <1>2, <1>3, <1>4 DEF KeyHasValue, TypeOK
<1> QED
  BY <1>8, <1>9, <1>10 DEF RateBase

LEMMA SetTTLStep ==
  ASSUME RateAssumption, TypeOK, NEW c \in Clients, SetTTL(c)
  PROVE  /\ ttl' \in [Clients -> 0..Window]
         /\ \A d \in Clients : ttl'[d] = IF d # c THEN ttl[d]
                                         ELSE IF counter[c] > 0 THEN Window ELSE NoTTL
BY DEF TypeOK, RateAssumption, SetTTL, NoTTL

LEMMA BaseExpire ==
  ASSUME RateAssumption, RateBase, NEW k \in Connections,
         Expire(k) \/ ExpireFails(k)
  PROVE  RateBase'
<1> DEFINE c == ClientOf(k)
           a == ApiOf(k)
<1>1. c \in Clients /\ a \in Apis
  BY DEF Connections, ClientOf, ApiOf
<1>2. TypeOK /\ FiniteLists /\ KeyHasValue
  BY DEF RateBase
<1>3. /\ \/ UNCHANGED <<hits, lives, faults>>
         \/ CheckMemory(a, c) /\ \E f \in FaultKinds : Fault(f)
      /\ at' = [at EXCEPT ![k] = "idle"]
      /\ ttl' = ttl \/ SetTTL(c)
      /\ UNCHANGED <<redis, counter, granted, quiet>>
  BY DEF Expire, ExpireFails, Fault
<1> HIDE DEF c, a
<1>4. ListsKept
  BY <1>1, <1>2, <1>3, CheckMemoryStep, ListTypes DEF TypeOK, ListsKept, lives
<1>5. budget' \in 0..MaxFaults /\ struck' \in SUBSET FaultKinds
  BY <1>2, <1>3, FaultStep DEF TypeOK, faults
<1>6. ttl' \in [Clients -> 0..Window]
  BY <1>1, <1>2, <1>3, SetTTLStep DEF TypeOK
<1>7. KeyHasValue'
  <2>1. CASE ttl' = ttl
    BY <2>1, <1>2, <1>3 DEF KeyHasValue
  <2>2. CASE SetTTL(c)
    <3>1. \A d \in Clients : counter[d] \in 0..Limit + 1
      BY <1>2 DEF TypeOK
    <3> QED
      BY <2>2, <3>1, <1>1, <1>2, <1>3, SetTTLStep DEF KeyHasValue
  <2> QED
    BY <2>1, <2>2, <1>3
<1>8. TypeOK'
  BY <1>2, <1>3, <1>4, <1>5, <1>6 DEF TypeOK, ListsKept
<1>9. FiniteLists'
  BY <1>2, <1>3, <1>4 DEF FiniteLists, Lists, ListsKept
<1> QED
  BY <1>7, <1>8, <1>9 DEF RateBase

LEMMA BaseTick ==
  ASSUME RateAssumption, RateBase, Tick
  PROVE  RateBase'
<1>1. TypeOK /\ FiniteLists /\ KeyHasValue
  BY DEF RateBase
<1>2. \A c \in Clients : /\ counter[c] \in 0..Limit + 1
                         /\ ttl[c] \in 0..Window
                         /\ quiet[c] \in 0..Window
  BY <1>1 DEF TypeOK
<1>3. Window \in Nat \ {0} /\ Limit \in Nat \ {0}
  BY DEF RateAssumption
<1>4. \A c \in Clients : {t \in Older(granted[c]) : t[1] < Window} \in Lists
  <2>1. \A c \in Clients : Older(granted[c]) \in Lists
    BY <1>1, ListTypes, ListOperations
  <2> QED
    BY <2>1, ListOperations DEF Prune
<1>5. \A a \in Apis : \A c \in Clients : Older(hits[a][c]) \in Lists
  BY <1>1, ListTypes, ListOperations
<1>6. /\ granted' \in [Clients -> SUBSET Stamps]
      /\ \A c \in Clients : IsFiniteSet(granted'[c])
      /\ letin' \in [Lives -> [Clients -> SUBSET Stamps]]
      /\ \A l \in Lives : \A c \in Clients : IsFiniteSet(letin'[l][c])
  <2>1. \A l \in Lives : \A c \in Clients : Prune(Older(letin[l][c])) \in Lists
    BY <1>1, ListTypes, ListOperations
  <2> QED
    BY <1>4, <2>1 DEF Tick, Lists
<1>7. /\ hits' \in [Apis -> [Clients -> SUBSET Stamps]]
      /\ \A a \in Apis : \A c \in Clients : IsFiniteSet(hits'[a][c])
  BY <1>5 DEF Tick, Lists
<1>8. counter' \in [Clients -> 0..Limit + 1]
  <2>1. \A c \in Clients :
          (IF ttl[c] = 1 THEN 0 ELSE counter[c]) \in 0..Limit + 1
    BY <1>2, <1>3
  <2> QED
    BY <2>1 DEF Tick
<1>9. ttl' \in [Clients -> 0..Window]
  <2>1. \A c \in Clients :
          (IF ttl[c] = NoTTL THEN NoTTL ELSE ttl[c] - 1) \in 0..Window
    BY <1>2, <1>3 DEF NoTTL
  <2> QED
    BY <2>1 DEF Tick
<1>10. quiet' \in [Clients -> 0..Window]
  BY <1>2, <1>3 DEF Tick
<1>11. TypeOK'
  BY <1>1, <1>6, <1>7, <1>8, <1>9, <1>10 DEF TypeOK, Tick, faults
<1>12. FiniteLists'
  BY <1>6, <1>7 DEF FiniteLists
<1>13. KeyHasValue'
  BY <1>1, <1>2 DEF KeyHasValue, Tick, NoTTL
<1> QED
  BY <1>11, <1>12, <1>13 DEF RateBase

LEMMA BaseCrash ==
  ASSUME RateAssumption, RateBase, NEW a \in Apis, CrashApi(a)
  PROVE  RateBase'
<1>1. TypeOK /\ FiniteLists /\ KeyHasValue
  BY DEF RateBase
<1>2. redis' \in [Apis -> BOOLEAN]
  BY <1>1 DEF CrashApi, TypeOK
<1>3. at' \in [Connections -> {"idle", "incr", "expire"}]
  BY <1>1 DEF CrashApi, TypeOK
<1>4. /\ hits' \in [Apis -> [Clients -> SUBSET Stamps]]
      /\ \A b \in Apis : \A d \in Clients : IsFiniteSet(hits'[b][d])
  BY <1>1, FS_EmptySet DEF CrashApi, TypeOK, FiniteLists
<1>5. /\ budget' \in 0..MaxFaults /\ struck' \in SUBSET FaultKinds
      /\ life' \in [Apis -> 0..MaxFaults]
  BY <1>1, FaultStep DEF CrashApi, TypeOK
<1>6. TypeOK'
  BY <1>1, <1>2, <1>3, <1>4, <1>5 DEF TypeOK, CrashApi
<1>7. FiniteLists' /\ KeyHasValue'
  BY <1>1, <1>4 DEF FiniteLists, KeyHasValue, CrashApi
<1> QED
  BY <1>6, <1>7 DEF RateBase

LEMMA BaseRedisLoss ==
  ASSUME RateAssumption, RateBase, RedisLoss
  PROVE  RateBase'
<1>1. counter' \in [Clients -> 0..Limit + 1] /\ ttl' \in [Clients -> 0..Window]
  BY DEF RedisLoss, RateAssumption, NoTTL
<1>2. budget' \in 0..MaxFaults /\ struck' \in SUBSET FaultKinds
  BY FaultStep DEF RedisLoss, RateBase
<1>3. TypeOK' /\ FiniteLists'
  BY <1>1, <1>2 DEF RedisLoss, RateBase, TypeOK, FiniteLists, lives
<1>4. KeyHasValue'
  BY DEF RedisLoss, KeyHasValue
<1> QED
  BY <1>3, <1>4 DEF RateBase

LEMMA BaseStep ==
  ASSUME RateAssumption, RateBase, [Next]_vars
  PROVE  RateBase'
<1>1. ASSUME NEW k \in Connections, RateLimit(k) PROVE RateBase'
  BY <1>1, BaseArrive, BaseIncr, BaseIncrFails, BaseExpire DEF RateLimit
<1>2. ASSUME NEW a \in Apis, CrashApi(a) PROVE RateBase'
  BY <1>2, BaseCrash
<1>3. CASE UNCHANGED vars
  BY <1>3 DEF vars, lives, RateBase, TypeOK, FiniteLists, KeyHasValue
<1> QED
  BY <1>1, <1>2, <1>3, BaseTick, BaseRedisLoss DEF Next

\* What has struck stays struck.
LEMMA FaultsAccumulate ==
  ASSUME RateAssumption, TypeOK, [Next]_vars
  PROVE  struck \subseteq struck'
<1>1. UNCHANGED faults \/ \E f \in AllFaults : Fault(f)
  BY DEF Next, vars, faults, AllFaults, RateLimit, ArriveRedis, ArriveMemory,
         Incr, IncrFails, Expire, ExpireFails, CrashApi, RedisLoss, Tick
<1> QED
  BY <1>1, FaultStep DEF faults

LEMMA BaseInit ==
  ASSUME RateAssumption, Init
  PROVE  RateBase
<1>1. TypeOK
  BY DEF Init, TypeOK, RateAssumption, NoTTL
<1>2. FiniteLists
  BY FS_EmptySet DEF Init, FiniteLists
<1>3. KeyHasValue
  BY DEF Init, KeyHasValue
<1> QED
  BY <1>1, <1>2, <1>3 DEF RateBase

-----------------------------------------------------------------------------
\* The promise of the Retry-After header, step by step.

LEMMA HonestArrive ==
  ASSUME RateAssumption, RateBase, QuietEmpties, NEW k \in Connections,
         ArriveRedis(k) \/ ArriveMemory(k)
  PROVE  KeyExpires' /\ QuietBoundsTTL' /\ QuietBoundsHits'
<1> DEFINE c == ClientOf(k)
           a == ApiOf(k)
<1>1. c \in Clients /\ a \in Apis
  BY DEF Connections, ClientOf, ApiOf
<1> HIDE DEF c, a
<1>2. TypeOK /\ FiniteLists /\ KeyExpires /\ QuietBoundsTTL /\ QuietBoundsHits
  BY DEF QuietEmpties, RateBase
<1>3. /\ quiet' = [quiet EXCEPT ![c] = 0]
      /\ UNCHANGED <<counter, ttl>>
      /\ \/ at' = [at EXCEPT ![k] = "incr"] /\ at[k] = "idle" /\ hits' = hits
         \/ at' = at /\ CheckMemory(a, c)
  BY DEF ArriveRedis, ArriveMemory, c, a
<1>4. /\ \A b \in Apis : \A d \in Clients : hits'[b][d] \in Lists
      /\ \A b \in Apis : \A d \in Clients : d # c => hits'[b][d] = hits[b][d]
  BY <1>1, <1>2, <1>3, CheckMemoryStep, ListTypes
<1>5. \A e \in Connections : at[e] = "expire" => at'[e] = "expire"
  BY <1>2, <1>3 DEF TypeOK
<1>6. KeyExpires'
  BY <1>2, <1>3, <1>5 DEF KeyExpires
<1>7. \A d \in Clients : d # c => (InFlight(d)' <=> InFlight(d))
  BY <1>2, <1>3 DEF InFlight, TypeOK, c
<1>8. \A d \in Clients : quiet'[d] = IF d = c THEN 0 ELSE quiet[d]
  BY <1>2, <1>3 DEF TypeOK
<1>9. QuietBoundsTTL'
  BY <1>2, <1>3, <1>7, <1>8 DEF QuietBoundsTTL, TypeOK
<1>10. \A b \in Apis : \A d \in Clients : \A t \in hits'[b][d] : t[1] \in 0..Window
  BY <1>4, ListOperations
<1>11. QuietBoundsHits'
  BY <1>2, <1>4, <1>8, <1>10 DEF QuietBoundsHits
<1> QED
  BY <1>6, <1>9, <1>11

LEMMA HonestIncr ==
  ASSUME RateAssumption, RateBase, QuietEmpties, NEW k \in Connections, Incr(k)
  PROVE  KeyExpires' /\ QuietBoundsTTL' /\ QuietBoundsHits'
<1> DEFINE c == ClientOf(k)
           current == Increment(counter[c])
           at1 == IF StartsWindow(current) THEN "expire" ELSE "idle"
<1>1. c \in Clients
  BY DEF Connections, ClientOf
<1>2. TypeOK /\ KeyExpires /\ QuietBoundsTTL /\ QuietBoundsHits
  BY DEF QuietEmpties, RateBase
<1>3. /\ counter' = [counter EXCEPT ![c] = current]
      /\ at' = [at EXCEPT ![k] = at1]
      /\ at[k] = "incr"
      /\ UNCHANGED <<ttl, hits, quiet>>
  BY DEF Incr
<1>4. counter[c] \in 0..Limit + 1
  BY <1>1, <1>2 DEF TypeOK
<1>5. at1 = IF counter[c] = 0 THEN "expire" ELSE "idle"
  BY <1>1, <1>2, IncrStep DEF StartsWindow
<1> HIDE DEF c, current, at1
<1>6. \A d \in Clients : counter'[d] = IF d = c THEN current ELSE counter[d]
  BY <1>2, <1>3 DEF TypeOK
<1>7. \A e \in Connections : at'[e] = IF e = k THEN at1 ELSE at[e]
  BY <1>2, <1>3 DEF TypeOK
<1>8. KeyExpires'
  <2> SUFFICES ASSUME NEW d \in Clients, counter'[d] > 0, ttl'[d] = NoTTL
               PROVE  \E e \in Connections : ClientOf(e) = d /\ at'[e] = "expire"
    BY DEF KeyExpires
  <2>1. CASE d = c /\ counter[c] = 0
    <3>1. at'[k] = "expire"
      BY <2>1, <1>5, <1>7
    <3> QED
      BY <2>1, <3>1 DEF c
  <2>2. CASE ~(d = c /\ counter[c] = 0)
    <3>1. counter[d] > 0
      BY <2>2, <1>4, <1>6
    <3>2. PICK e \in Connections : ClientOf(e) = d /\ at[e] = "expire"
      BY <3>1, <1>2, <1>3 DEF KeyExpires
    <3>3. at'[e] = "expire"
      BY <3>2, <1>3, <1>7
    <3> QED
      BY <3>2, <3>3
  <2> QED
    BY <2>1, <2>2
<1>9. \A d \in Clients : InFlight(d)' => InFlight(d)
  BY <1>3, <1>7 DEF InFlight
<1>10. QuietBoundsTTL' /\ QuietBoundsHits'
  BY <1>2, <1>3, <1>9 DEF QuietBoundsTTL, QuietBoundsHits
<1> QED
  BY <1>8, <1>10

\* Without a lost INCR reply the key is as it was.
LEMMA HonestIncrFails ==
  ASSUME RateAssumption, RateBase, QuietEmpties, NEW k \in Connections,
         IncrFails(k), "incr_reply" \notin struck'
  PROVE  KeyExpires' /\ QuietBoundsTTL' /\ QuietBoundsHits'
<1> DEFINE c == ClientOf(k)
           a == ApiOf(k)
<1>1. c \in Clients /\ a \in Apis
  BY DEF Connections, ClientOf, ApiOf
<1>2. TypeOK /\ FiniteLists /\ KeyExpires /\ QuietBoundsTTL /\ QuietBoundsHits
  BY DEF QuietEmpties, RateBase
<1>3. /\ CheckMemory(a, c)
      /\ at[k] = "incr" /\ at' = [at EXCEPT ![k] = "idle"]
      /\ UNCHANGED <<counter, ttl, quiet>>
  BY DEF IncrFails, Fault
<1>4. quiet[c] = 0
  BY <1>1, <1>2, <1>3 DEF QuietBoundsTTL, InFlight
<1> HIDE DEF c, a
<1>5. /\ \A b \in Apis : \A d \in Clients : hits'[b][d] \in Lists
      /\ \A b \in Apis : \A d \in Clients : d # c => hits'[b][d] = hits[b][d]
  BY <1>1, <1>2, <1>3, CheckMemoryStep
<1>6. \A e \in Connections : at'[e] = IF e = k THEN "idle" ELSE at[e]
  BY <1>2, <1>3 DEF TypeOK
<1>7. KeyExpires'
  BY <1>2, <1>3, <1>6 DEF KeyExpires
<1>8. QuietBoundsTTL'
  BY <1>2, <1>3, <1>6 DEF QuietBoundsTTL, InFlight
<1>9. \A b \in Apis : \A d \in Clients : \A t \in hits'[b][d] : t[1] \in 0..Window
  BY <1>5, ListOperations
<1>10. QuietBoundsHits'
  BY <1>2, <1>3, <1>4, <1>5, <1>9 DEF QuietBoundsHits
<1> QED
  BY <1>7, <1>8, <1>10

\* An EXPIRE that takes effect, heard of or not, gives the key its expiry.
LEMMA HonestExpire ==
  ASSUME RateAssumption, RateBase, QuietEmpties, NEW k \in Connections,
         Expire(k) \/ ExpireFails(k), "expire" \notin struck'
  PROVE  KeyExpires' /\ QuietBoundsTTL' /\ QuietBoundsHits'
<1> DEFINE c == ClientOf(k)
           a == ApiOf(k)
<1>1. c \in Clients /\ a \in Apis
  BY DEF Connections, ClientOf, ApiOf
<1>2. TypeOK /\ FiniteLists /\ KeyExpires /\ QuietBoundsTTL /\ QuietBoundsHits
  BY DEF QuietEmpties, RateBase
<1>3. /\ hits' = hits \/ CheckMemory(a, c)
      /\ at[k] = "expire" /\ at' = [at EXCEPT ![k] = "idle"]
      /\ SetTTL(c)
      /\ UNCHANGED <<counter, quiet>>
  BY DEF Expire, ExpireFails, Fault
<1>4. quiet[c] = 0
  BY <1>1, <1>2, <1>3 DEF QuietBoundsTTL, InFlight
<1>5. \A e \in Connections : ClientOf(e) # c => e # k
  OBVIOUS
<1> HIDE DEF c, a
<1>6. /\ \A b \in Apis : \A d \in Clients : hits'[b][d] \in Lists
      /\ \A b \in Apis : \A d \in Clients : d # c => hits'[b][d] = hits[b][d]
  BY <1>1, <1>2, <1>3, CheckMemoryStep, ListTypes
<1>7. \A e \in Connections : at'[e] = IF e = k THEN "idle" ELSE at[e]
  BY <1>2, <1>3 DEF TypeOK
<1>8. \A d \in Clients : ttl'[d] = IF d # c THEN ttl[d]
                                   ELSE IF counter[c] > 0 THEN Window ELSE NoTTL
  BY <1>1, <1>2, <1>3, SetTTLStep
<1>9. KeyExpires'
  <2> SUFFICES ASSUME NEW d \in Clients, counter'[d] > 0, ttl'[d] = NoTTL
               PROVE  \E e \in Connections : ClientOf(e) = d /\ at'[e] = "expire"
    BY DEF KeyExpires
  <2>1. d # c
    BY <1>3, <1>8 DEF RateAssumption, NoTTL
  <2>2. PICK e \in Connections : ClientOf(e) = d /\ at[e] = "expire"
    BY <1>2, <1>3, <1>8, <2>1 DEF KeyExpires
  <2>3. at'[e] = "expire"
    BY <1>5, <1>7, <2>1, <2>2
  <2> QED
    BY <2>2, <2>3
<1>10. \A d \in Clients : InFlight(d)' => InFlight(d)
  BY <1>3, <1>7 DEF InFlight
<1>11. QuietBoundsTTL'
  BY <1>2, <1>3, <1>4, <1>8, <1>10 DEF QuietBoundsTTL, TypeOK, RateAssumption
<1>12. \A b \in Apis : \A d \in Clients : \A t \in hits'[b][d] : t[1] \in 0..Window
  BY <1>6, ListOperations
<1>13. QuietBoundsHits'
  BY <1>2, <1>3, <1>4, <1>6, <1>12 DEF QuietBoundsHits
<1> QED
  BY <1>9, <1>11, <1>13

\* A tick takes one from the expiry and adds at most one to the silence.
LEMMA HonestTick ==
  ASSUME RateAssumption, RateBase, QuietEmpties, Tick
  PROVE  KeyExpires' /\ QuietBoundsTTL' /\ QuietBoundsHits'
<1>1. TypeOK /\ FiniteLists /\ KeyExpires /\ QuietBoundsTTL /\ QuietBoundsHits
  BY DEF QuietEmpties, RateBase
<1>2. \A c \in Clients : /\ counter[c] \in 0..Limit + 1
                         /\ ttl[c] \in 0..Window
                         /\ quiet[c] \in 0..Window
  BY <1>1 DEF TypeOK
<1>3. Window \in Nat \ {0}
  BY DEF RateAssumption
<1>4. KeyExpires'
  BY <1>1, <1>2 DEF KeyExpires, Tick, NoTTL
<1>5. QuietBoundsTTL'
  <2> SUFFICES ASSUME NEW c \in Clients
               PROVE  /\ ttl'[c] # NoTTL => ttl'[c] + quiet'[c] <= Window
                      /\ InFlight(c)' => quiet'[c] = 0
    BY DEF QuietBoundsTTL
  <2>1. InFlight(c)' => InFlight(c)
    BY DEF InFlight, Tick
  <2>2. /\ ttl'[c] = IF ttl[c] = 0 THEN 0 ELSE ttl[c] - 1
        /\ quiet'[c] = IF InFlight(c) THEN 0
                       ELSE IF quiet[c] < Window THEN quiet[c] + 1 ELSE Window
    BY DEF Tick, NoTTL
  <2>3. ttl[c] # 0 => ttl[c] + quiet[c] <= Window
    BY <1>1 DEF QuietBoundsTTL, NoTTL
  <2> HIDE DEF InFlight
  <2> QED
    BY <1>2, <1>3, <2>1, <2>2, <2>3 DEF NoTTL
<1>6. QuietBoundsHits'
  <2> SUFFICES ASSUME NEW c \in Clients, NEW a \in Apis, NEW t \in hits'[a][c]
               PROVE  t[1] >= quiet'[c]
    BY DEF QuietBoundsHits
  <2>1. PICK u \in hits[a][c] : t[1] = IF u[1] < Window THEN u[1] + 1 ELSE Window
    BY DEF Tick, Older
  <2>2. u[1] \in 0..Window
    BY <1>1, ListTypes, ListOperations
  <2>3. u[1] >= quiet[c]
    BY <1>1 DEF QuietBoundsHits
  <2>4. \/ quiet'[c] = 0
        \/ quiet'[c] = IF quiet[c] < Window THEN quiet[c] + 1 ELSE Window
    BY DEF Tick
  <2> QED
    BY <1>2, <1>3, <2>1, <2>2, <2>3, <2>4
<1> QED
  BY <1>4, <1>5, <1>6

(***************************************************************************)
(* The invariant holds whatever the number of clients, processes and       *)
(* connections, and under every fault: the keys keep their expiry until a  *)
(* fault strikes that is not one of HonestFaults                           *)
(* (app/core/security.py:97-102).                                          *)
(***************************************************************************)
THEOREM RateInvariant ==
  ASSUME RateAssumption
  PROVE  Spec => []RateInv
<1>1. Init => RateInv
  <2> SUFFICES ASSUME Init PROVE RateInv
    OBVIOUS
  <2>1. QuietEmpties
    BY DEF Init, QuietEmpties, KeyExpires, QuietBoundsTTL, QuietBoundsHits,
           InFlight, RateAssumption, NoTTL
  <2> QED
    BY <2>1, BaseInit DEF RateInv
<1>2. RateInv /\ [Next]_vars => RateInv'
  <2> SUFFICES ASSUME RateInv, [Next]_vars, struck' \subseteq HonestFaults
               PROVE  QuietEmpties'
    BY BaseStep DEF RateInv
  <2>1. /\ "incr_reply" \notin struck' /\ "expire" \notin struck'
        /\ "crash" \notin struck'
    BY DEF HonestFaults
  <2>2. RateBase /\ QuietEmpties
    <3>1. struck \subseteq struck'
      BY FaultsAccumulate DEF RateInv, RateBase
    <3> QED
      BY <3>1 DEF RateInv
  <2>3. ASSUME NEW k \in Connections, RateLimit(k)
        PROVE  QuietEmpties'
    BY <2>1, <2>2, <2>3, HonestArrive, HonestIncr, HonestIncrFails, HonestExpire
       DEF RateLimit, QuietEmpties
  <2>4. ASSUME NEW a \in Apis, CrashApi(a)
        PROVE  FALSE
    BY <2>1, <2>4 DEF CrashApi, Fault
  <2>5. CASE RedisLoss
    BY <2>2, <2>5 DEF RedisLoss, QuietEmpties, KeyExpires, QuietBoundsTTL,
                      QuietBoundsHits, InFlight, NoTTL
  <2>6. CASE Tick
    BY <2>2, <2>6, HonestTick DEF QuietEmpties
  <2>7. CASE UNCHANGED vars
    BY <2>2, <2>7 DEF vars, QuietEmpties, KeyExpires, QuietBoundsTTL,
                      QuietBoundsHits, InFlight
  <2> QED
    BY <2>3, <2>4, <2>5, <2>6, <2>7 DEF Next
<1> QED
  BY <1>1, <1>2, PTL DEF Spec

(***************************************************************************)
(* A client that waits as long as the Retry-After header of its 429 says   *)
(* finds its whole budget again (app/core/security.py:104-108, 115-121).   *)
(***************************************************************************)
THEOREM RetryAfterIsHonest ==
  ASSUME RateAssumption
  PROVE  Spec => []RetryAfterHonest
<1>1. RateInv => RetryAfterHonest
  <2> SUFFICES ASSUME RateBase, QuietEmpties,
                      NEW c \in Clients, quiet[c] = Window
               PROVE  /\ counter[c] = 0
                      /\ \A a \in Apis : ~Full(Prune(hits[a][c]))
    BY DEF RetryAfterHonest, BudgetIsBack, RateInv
  <2>1. Window \in Nat \ {0} /\ Limit \in Nat \ {0}
    BY DEF RateAssumption
  <2>2. ttl[c] \in 0..Window /\ counter[c] \in 0..Limit + 1
    BY DEF RateBase, TypeOK
  <2>3. ttl[c] = NoTTL
    BY <2>1, <2>2 DEF QuietEmpties, QuietBoundsTTL, NoTTL
  <2>4. ~InFlight(c)
    BY <2>1 DEF QuietEmpties, QuietBoundsTTL
  <2>5. counter[c] = 0
    BY <2>2, <2>3, <2>4 DEF QuietEmpties, KeyExpires, InFlight
  <2>6. \A a \in Apis : Prune(hits[a][c]) = {}
    <3> SUFFICES ASSUME NEW a \in Apis, NEW t \in hits[a][c]
                 PROVE  ~(t[1] < Window)
      BY DEF Prune
    <3>1. t[1] \in 0..Window
      BY ListTypes, ListOperations DEF RateBase
    <3>2. t[1] >= Window
      BY DEF QuietEmpties, QuietBoundsHits
    <3> QED
      BY <2>1, <3>1, <3>2
  <2>7. ~Full({})
    BY <2>1, FS_EmptySet DEF Full
  <2> QED
    BY <2>5, <2>6, <2>7
<1> QED
  BY <1>1, RateInvariant, PTL

-----------------------------------------------------------------------------
\* How many grants of a window there can be.

\* A list grows by at most one stamp, and so does any part of it by age.
LEMMA StampedGrows ==
  ASSUME RateAssumption, NEW h \in Lists, NEW x \in Int
  PROVE  LET young(l) == {t \in l : t[1] < x}
         IN  /\ Cardinality(h) \in Nat /\ Cardinality(young(h)) \in Nat
             /\ Cardinality(Stamped(h)) <= Cardinality(h) + 1
             /\ Cardinality(young(Stamped(h))) <= Cardinality(young(h)) + 1
<1> DEFINE new == <<0, Cardinality({t \in h : t[1] = 0}) + 1>>
           Y == {t \in h : t[1] < x}
           Z == {t \in Stamped(h) : t[1] < x}
<1>1. IsFiniteSet(h)
  BY DEF Lists
<1>2. Stamped(h) = h \cup {new}
  BY DEF Stamped
<1>3. IsFiniteSet(Y) /\ Z \subseteq Y \cup {new}
  BY <1>1, <1>2, FS_Subset
<1> HIDE DEF new, Y, Z
<1>4. Cardinality(h) \in Nat /\ Cardinality(Y) \in Nat
  BY <1>1, <1>3, FS_CardinalityType
<1>5. Cardinality(Stamped(h)) <= Cardinality(h) + 1
  BY <1>1, <1>2, AtMostOneMore
<1>6. IsFiniteSet(Y \cup {new}) /\ Cardinality(Y \cup {new}) <= Cardinality(Y) + 1
  BY <1>3, AtMostOneMore
<1>7. Cardinality(Z) <= Cardinality(Y \cup {new})
  BY <1>3, <1>6, FS_Subset
<1>8. Cardinality(Z) \in Nat /\ Cardinality(Y \cup {new}) \in Nat
  BY <1>3, <1>6, FS_Subset, FS_CardinalityType
<1>9. Cardinality(Z) <= Cardinality(Y) + 1
  BY <1>4, <1>6, <1>7, <1>8
<1> QED
  BY <1>4, <1>5, <1>9 DEF Y, Z

\* The stamps younger than x + 1 after a tick were younger than x before it.
LEMMA OlderShrinks ==
  ASSUME RateAssumption, NEW h \in Lists, NEW x \in Int
  PROVE  LET left == {t \in Older(h) : t[1] < Window}
         IN  /\ Cardinality(left) \in Nat
             /\ Cardinality({t \in left : t[1] < x + 1}) \in Nat
             /\ Cardinality({t \in left : t[1] < x + 1})
                  <= Cardinality({u \in h : u[1] < x})
<1> DEFINE left == {t \in Older(h) : t[1] < Window}
           E == {t \in left : t[1] < x + 1}
           U == {u \in h : u[1] < x}
           S == {u \in U : u[1] + 1 < Window}
           f == [u \in S |-> <<u[1] + 1, u[2]>>]
<1>1. \A u \in h : u[1] \in 0..Window
  BY ListOperations
<1>2. Window \in Nat
  BY DEF RateAssumption
<1>3. E = {<<u[1] + 1, u[2]>> : u \in S}
  <2>1. ASSUME NEW t \in E PROVE \E u \in S : t = <<u[1] + 1, u[2]>>
    <3>1. PICK u \in h : t = <<IF u[1] < Window THEN u[1] + 1 ELSE Window, u[2]>>
      BY DEF Older
    <3>2. t[1] < Window /\ t[1] < x + 1
      OBVIOUS
    <3>3. u[1] < Window
      BY <1>1, <1>2, <3>1, <3>2
    <3>4. t = <<u[1] + 1, u[2]>>
      BY <3>1, <3>3
    <3>5. u[1] + 1 < Window /\ u[1] < x
      BY <1>1, <1>2, <3>2, <3>4
    <3> QED
      BY <3>4, <3>5
  <2>2. ASSUME NEW u \in S PROVE <<u[1] + 1, u[2]>> \in E
    <3>1. u[1] < Window /\ u[1] + 1 < Window /\ u[1] + 1 < x + 1
      BY <1>1, <1>2
    <3>2. <<u[1] + 1, u[2]>> \in Older(h)
      BY <3>1 DEF Older
    <3> QED
      BY <3>1, <3>2
  <2> QED
    BY <2>1, <2>2
<1>4. IsFiniteSet(h) /\ IsFiniteSet(Older(h))
  BY ListOperations DEF Lists
<1>5. IsFiniteSet(left)
  BY <1>4, FS_Subset
<1>6. IsFiniteSet(U)
  BY <1>4, FS_Subset
<1>7. f \in Surjection(S, E)
  BY <1>3 DEF Surjection
<1> HIDE DEF f, E
<1>8. IsFiniteSet(S) /\ Cardinality(S) <= Cardinality(U)
  BY <1>6, FS_Subset
<1> HIDE DEF S
<1>9. IsFiniteSet(E) /\ Cardinality(E) <= Cardinality(S)
  BY <1>7, <1>8, FS_Surjection
<1>10. /\ Cardinality(left) \in Nat /\ Cardinality(E) \in Nat
       /\ Cardinality(S) \in Nat /\ Cardinality(U) \in Nat
  BY <1>5, <1>6, <1>8, <1>9, FS_CardinalityType
<1>11. Cardinality(E) <= Cardinality(U)
  BY <1>8, <1>9, <1>10
<1> QED
  BY <1>10, <1>11 DEF E

\* The numbers the invariant is about are numbers.
LEMMA GrantNumbers ==
  ASSUME RateAssumption, RateBase, NEW c \in Clients
  PROVE  /\ counter[c] \in 0..Limit + 1 /\ ttl[c] \in 0..Window
         /\ Used(c) \in 0..Limit
         /\ granted[c] \in Lists
         /\ Cardinality(granted[c]) \in Nat /\ Cardinality(Outliving(c)) \in Nat
<1>1. counter[c] \in 0..Limit + 1 /\ ttl[c] \in 0..Window
  BY DEF RateBase, TypeOK
<1>2. granted[c] \in Lists
  BY ListTypes DEF RateBase
<1>3. Window - ttl[c] \in Int
  BY <1>1 DEF RateAssumption
<1>4. Cardinality(granted[c]) \in Nat /\ Cardinality(Outliving(c)) \in Nat
  BY <1>2, <1>3, StampedGrows DEF Outliving
<1> QED
  BY <1>1, <1>2, <1>4 DEF Used, RateAssumption

\* Whatever leaves the key and the grants alone keeps the bounds, also when
\* the counter moves on without a grant.
LEMMA GrantsUntouched ==
  ASSUME RateAssumption, RateBase, GrantsByKey, RateBase',
         ttl' = ttl, granted' = granted,
         \A c \in Clients : counter'[c] >= counter[c]
  PROVE  GrantsOfTwoKeys' /\ GrantsOutliving'
<1>1. RateBase /\ GrantsOfTwoKeys /\ GrantsOutliving
  BY DEF GrantsByKey
<1> SUFFICES ASSUME NEW c \in Clients
             PROVE  /\ Cardinality(granted'[c]) <= Limit - 1 + Used(c)'
                    /\ ttl'[c] # NoTTL => Cardinality(Outliving(c)') <= Used(c)' - 1
  BY DEF GrantsOfTwoKeys, GrantsOutliving
<1>2. /\ Used(c) \in 0..Limit /\ counter[c] \in 0..Limit + 1
      /\ Cardinality(granted[c]) \in Nat /\ Cardinality(Outliving(c)) \in Nat
  BY <1>1, GrantNumbers
<1>3. counter'[c] \in 0..Limit + 1
  BY DEF RateBase, TypeOK
<1>4. Limit \in Nat \ {0}
  BY DEF RateAssumption
<1>5. Used(c)' >= Used(c) /\ Used(c)' \in 0..Limit
  BY <1>2, <1>3, <1>4 DEF Used
<1>6. Outliving(c)' = Outliving(c)
  BY DEF Outliving
<1>7. Cardinality(granted[c]) <= Limit - 1 + Used(c)
  BY <1>1 DEF GrantsOfTwoKeys
<1>8. ttl[c] # NoTTL => Cardinality(Outliving(c)) <= Used(c) - 1
  BY <1>1 DEF GrantsOutliving
<1>9. Cardinality(granted'[c]) <= Limit - 1 + Used(c)'
  BY <1>2, <1>4, <1>5, <1>7
<1>10. ASSUME ttl'[c] # NoTTL PROVE Cardinality(Outliving(c)') <= Used(c)' - 1
  <2>1. Cardinality(Outliving(c)) <= Used(c) - 1
    BY <1>8, <1>10
  <2> HIDE DEF Used, Outliving
  <2> QED
    BY <1>2, <1>5, <1>6, <2>1
<1> QED
  BY <1>9, <1>10

\* A grant is paid for by the counter.
LEMMA GrantsIncr ==
  ASSUME RateAssumption, RateBase, GrantsByKey, RateBase', NEW k \in Connections, Incr(k)
  PROVE  GrantsOfTwoKeys' /\ GrantsOutliving'
<1> DEFINE c == ClientOf(k)
           current == Increment(counter[c])
<1>1. c \in Clients
  BY DEF Connections, ClientOf
<1>2. RateBase /\ GrantsOfTwoKeys /\ GrantsOutliving /\ TypeOK /\ KeyHasValue
  BY DEF GrantsByKey, RateBase
<1>3. /\ counter' = [counter EXCEPT ![c] = current]
      /\ granted' = IF WithinLimit(current)
                    THEN [granted EXCEPT ![c] = Stamped(@)] ELSE granted
      /\ ttl' = ttl
  BY DEF Incr
<1>4. /\ current \in 1..Limit + 1
      /\ current = IF counter[c] > Limit THEN counter[c] ELSE counter[c] + 1
  BY <1>1, <1>2, IncrStep
<1> HIDE DEF c, current
<1>5. \A d \in Clients : counter'[d] = IF d = c THEN current ELSE counter[d]
  BY <1>2, <1>3 DEF TypeOK
<1>6. Limit \in Nat \ {0} /\ Window \in Nat \ {0}
  BY DEF RateAssumption
<1>7. \A d \in Clients : counter[d] \in 0..Limit + 1
  BY <1>2 DEF TypeOK
<1>8. CASE ~WithinLimit(current)
  <2>1. \A d \in Clients : counter'[d] >= counter[d]
    BY <1>4, <1>5, <1>6, <1>7
  <2>2. granted' = granted
    BY <1>3, <1>8
  <2> QED
    BY <1>3, <2>1, <2>2, GrantsUntouched
<1>9. CASE WithinLimit(current)
  <2> SUFFICES ASSUME NEW d \in Clients
               PROVE  /\ Cardinality(granted'[d]) <= Limit - 1 + Used(d)'
                      /\ ttl'[d] # NoTTL => Cardinality(Outliving(d)') <= Used(d)' - 1
    BY DEF GrantsOfTwoKeys, GrantsOutliving
  <2>1. /\ Used(d) \in 0..Limit /\ counter[d] \in 0..Limit + 1 /\ ttl[d] \in 0..Window
        /\ granted[d] \in Lists
        /\ Cardinality(granted[d]) \in Nat /\ Cardinality(Outliving(d)) \in Nat
    BY <1>2, GrantNumbers
  <2>2. Cardinality(granted[d]) <= Limit - 1 + Used(d)
    BY <1>2 DEF GrantsOfTwoKeys
  <2>3. ttl[d] # NoTTL => Cardinality(Outliving(d)) <= Used(d) - 1
    BY <1>2 DEF GrantsOutliving
  <2>4. granted'[d] = IF d = c THEN Stamped(granted[d]) ELSE granted[d]
    BY <1>2, <1>3, <1>9 DEF TypeOK
  <2>5. CASE d # c
    <3>1. Used(d)' = Used(d)
      BY <1>5, <2>5 DEF Used
    <3>2. Outliving(d)' = Outliving(d)
      BY <1>3, <2>4, <2>5 DEF Outliving
    <3> QED
      BY <1>3, <2>2, <2>3, <2>4, <2>5, <3>1, <3>2
  <2>6. CASE d = c
    <3>1. current <= Limit
      BY <1>9 DEF WithinLimit
    <3>2. counter[d] < Limit /\ counter'[d] = counter[d] + 1
      BY <1>4, <1>5, <1>6, <2>1, <2>6, <3>1
    <3>3. Used(d)' = Used(d) + 1
      BY <1>6, <2>1, <3>2 DEF Used
    <3>4. Window - ttl[d] \in Int
      BY <1>6, <2>1
    <3>5. Outliving(d)' = {t \in Stamped(granted[d]) : t[1] < Window - ttl[d]}
      BY <1>3, <2>4, <2>6 DEF Outliving
    <3>6. /\ Cardinality(Stamped(granted[d])) <= Cardinality(granted[d]) + 1
          /\ Cardinality({t \in Stamped(granted[d]) : t[1] < Window - ttl[d]})
               <= Cardinality(Outliving(d)) + 1
      BY <2>1, <3>4, StampedGrows DEF Outliving
    <3>7. Cardinality(Outliving(d)') <= Cardinality(Outliving(d)) + 1
      BY <3>5, <3>6
    <3>8. Cardinality(granted'[d]) <= Cardinality(granted[d]) + 1
      BY <2>4, <2>6, <3>6
    <3>9. /\ Cardinality(granted'[d]) \in Nat
          /\ Cardinality(Outliving(d)') \in Nat
      <4>1. granted'[d] \in Lists
        BY <2>1, <2>4, ListOperations
      <4> QED
        BY <2>4, <2>6, <3>4, <3>5, <4>1, StampedGrows
    <3>10. Cardinality(granted'[d]) <= Limit - 1 + Used(d)'
      BY <1>6, <2>1, <2>2, <3>3, <3>8, <3>9
    <3>11. ASSUME ttl'[d] # NoTTL PROVE Cardinality(Outliving(d)') <= Used(d)' - 1
      <4>1. Cardinality(Outliving(d)) <= Used(d) - 1
        BY <1>3, <2>3, <3>11
      <4> HIDE DEF Used, Outliving
      <4> QED
        BY <2>1, <3>3, <3>7, <3>9, <4>1
    <3> QED
      BY <3>10, <3>11
  <2> QED
    BY <2>5, <2>6
<1> QED
  BY <1>8, <1>9

\* When an expiry is set, no grant outlives the key.
LEMMA GrantsExpire ==
  ASSUME RateAssumption, RateBase, GrantsByKey, RateBase', NEW k \in Connections,
         Expire(k) \/ ExpireFails(k)
  PROVE  GrantsOfTwoKeys' /\ GrantsOutliving'
<1> DEFINE c == ClientOf(k)
<1>1. c \in Clients
  BY DEF Connections, ClientOf
<1>2. RateBase /\ GrantsOfTwoKeys /\ GrantsOutliving /\ TypeOK /\ KeyHasValue
  BY DEF GrantsByKey, RateBase
<1>3. /\ ttl' = ttl \/ SetTTL(c)
      /\ counter' = counter /\ granted' = granted
  BY DEF Expire, ExpireFails
<1> HIDE DEF c
<1>4. CASE ttl' = ttl
  <2>1. \A d \in Clients : counter'[d] >= counter[d]
    BY <1>2, <1>3 DEF TypeOK
  <2> QED
    BY <1>3, <1>4, <2>1, GrantsUntouched
<1>5. CASE SetTTL(c)
  <2>1. GrantsOfTwoKeys'
    BY <1>2, <1>3 DEF GrantsOfTwoKeys, Used
  <2>2. GrantsOutliving'
    <3> SUFFICES ASSUME NEW d \in Clients, ttl'[d] # NoTTL
                 PROVE  Cardinality(Outliving(d)') <= Used(d)' - 1
      BY DEF GrantsOutliving
    <3>1. ttl'[d] = IF d # c THEN ttl[d]
                    ELSE IF counter[c] > 0 THEN Window ELSE NoTTL
      BY <1>1, <1>2, <1>5, SetTTLStep
    <3>2. /\ counter[d] \in 0..Limit + 1 /\ granted[d] \in Lists
      BY <1>2, GrantNumbers
    <3>3. CASE d # c
      <4>1. Outliving(d)' = Outliving(d) /\ Used(d)' = Used(d) /\ ttl[d] # NoTTL
        BY <1>3, <3>1, <3>3 DEF Outliving, Used
      <4> QED
        BY <1>2, <4>1 DEF GrantsOutliving
    <3>4. CASE d = c
      <4>1. counter[d] > 0 /\ ttl'[d] = Window
        BY <3>1, <3>4
      <4>2. Limit \in Nat \ {0} /\ Window \in Nat
        BY DEF RateAssumption
      <4>3. \A t \in granted[d] : t[1] \in 0..Window
        BY <3>2, ListOperations
      <4>4. Outliving(d)' = {}
        BY <1>3, <4>1, <4>2, <4>3 DEF Outliving
      <4>5. Cardinality(Outliving(d)') = 0
        BY <4>4, FS_EmptySet
      <4>6. Used(d)' \in 1..Limit
        BY <1>3, <3>2, <4>1, <4>2 DEF Used
      <4> QED
        BY <4>2, <4>5, <4>6
    <3> QED
      BY <3>3, <3>4
  <2> QED
    BY <2>1, <2>2
<1> QED
  BY <1>3, <1>4, <1>5

\* A key that expires leaves the grants that outlive it, fewer than Limit.
LEMMA GrantsTick ==
  ASSUME RateAssumption, RateBase, GrantsByKey, RateBase', Tick
  PROVE  GrantsOfTwoKeys' /\ GrantsOutliving'
<1>1. RateBase /\ GrantsOfTwoKeys /\ GrantsOutliving /\ KeyHasValue
  BY DEF GrantsByKey, RateBase
<1>2. Limit \in Nat \ {0} /\ Window \in Nat \ {0}
  BY DEF RateAssumption
<1> SUFFICES ASSUME NEW c \in Clients
             PROVE  /\ Cardinality(granted'[c]) <= Limit - 1 + Used(c)'
                    /\ ttl'[c] # NoTTL => Cardinality(Outliving(c)') <= Used(c)' - 1
  BY DEF GrantsOfTwoKeys, GrantsOutliving
<1> DEFINE left == {t \in Older(granted[c]) : t[1] < Window}
           x == Window - ttl[c]
<1>3. /\ counter[c] \in 0..Limit + 1 /\ ttl[c] \in 0..Window
      /\ Used(c) \in 0..Limit
      /\ granted[c] \in Lists
      /\ Cardinality(granted[c]) \in Nat /\ Cardinality(Outliving(c)) \in Nat
  BY <1>1, GrantNumbers
<1>4. Cardinality(granted[c]) <= Limit - 1 + Used(c)
  BY <1>1 DEF GrantsOfTwoKeys
<1>5. ttl[c] # NoTTL => Cardinality(Outliving(c)) <= Used(c) - 1
  BY <1>1 DEF GrantsOutliving
<1>6. /\ granted'[c] = left
      /\ counter'[c] = IF ttl[c] = 1 THEN 0 ELSE counter[c]
      /\ ttl'[c] = IF ttl[c] = NoTTL THEN NoTTL ELSE ttl[c] - 1
  BY DEF Tick
<1>7. x \in Int
  BY <1>2, <1>3
<1>8. /\ Cardinality(left) \in Nat
      /\ Cardinality({t \in left : t[1] < x + 1}) \in Nat
      /\ Cardinality({t \in left : t[1] < x + 1}) <= Cardinality(Outliving(c))
  BY <1>3, <1>7, OlderShrinks DEF Outliving
<1>9. Cardinality(left) <= Cardinality(granted[c])
  <2>1. Window + 1 \in Int
    BY <1>2
  <2>2. Cardinality({t \in left : t[1] < (Window + 1) + 1})
          <= Cardinality({u \in granted[c] : u[1] < Window + 1})
    BY <1>3, <2>1, OlderShrinks
  <2>3. \A t \in Older(granted[c]) : t[1] \in 0..Window
    BY <1>3, ListOperations
  <2>4. \A u \in granted[c] : u[1] \in 0..Window
    BY <1>3, ListOperations
  <2>5. {t \in left : t[1] < (Window + 1) + 1} = left
    BY <1>2, <2>3
  <2>6. {u \in granted[c] : u[1] < Window + 1} = granted[c]
    BY <1>2, <2>4
  <2> HIDE DEF left
  <2> QED
    BY <2>2, <2>5, <2>6
<1>10. CASE ttl[c] = 1
  <2>1. Used(c)' = 0 /\ ttl'[c] = NoTTL
    BY <1>2, <1>6, <1>10 DEF Used, NoTTL
  <2>2. \A t \in left : t[1] < x + 1
    BY <1>2, <1>10
  <2>3. {t \in left : t[1] < x + 1} = left
    BY <2>2
  <2>4. Cardinality(left) <= Cardinality(Outliving(c))
    BY <1>8, <2>3
  <2>5. Cardinality(Outliving(c)) <= Used(c) - 1
    BY <1>5, <1>10 DEF NoTTL
  <2> HIDE DEF left, Used, Outliving
  <2> QED
    BY <1>2, <1>3, <1>6, <1>8, <2>1, <2>4, <2>5
<1>11. CASE ttl[c] # 1
  <2>1. Used(c)' = Used(c)
    BY <1>6, <1>11 DEF Used
  <2>2. ASSUME ttl'[c] # NoTTL PROVE Cardinality(Outliving(c)') <= Used(c)' - 1
    <3>1. ttl[c] # NoTTL /\ ttl'[c] = ttl[c] - 1
      BY <1>6, <2>2
    <3>2. Window - ttl'[c] = x + 1
      BY <1>2, <1>3, <3>1
    <3>3. Outliving(c)' = {t \in left : t[1] < x + 1}
      BY <1>6, <3>2 DEF Outliving
    <3>4. Cardinality(Outliving(c)) <= Used(c) - 1
      BY <1>5, <3>1
    <3>5. Cardinality({t \in left : t[1] < x + 1}) <= Used(c) - 1
      <4> HIDE DEF left, x, Used, Outliving
      <4> QED
        BY <1>3, <1>8, <3>4
    <3> QED
      BY <2>1, <3>3, <3>5
  <2>3. Cardinality(granted'[c]) <= Limit - 1 + Used(c)'
    <3> HIDE DEF left, Used
    <3> QED
      BY <1>2, <1>3, <1>4, <1>6, <1>8, <1>9, <2>1
  <2> QED
    BY <2>2, <2>3
<1> QED
  BY <1>10, <1>11

(***************************************************************************)
(* Until Redis loses its keys, the invariant of the grants holds, whatever *)
(* else fails (app/core/security.py:99-110).                               *)
(***************************************************************************)
THEOREM GrantInvariant ==
  ASSUME RateAssumption
  PROVE  Spec => []GrantInv
<1>1. Init => GrantInv
  <2> SUFFICES ASSUME Init PROVE GrantsOfTwoKeys /\ GrantsOutliving
    BY BaseInit DEF GrantInv, GrantsByKey
  <2>1. Limit \in Nat \ {0}
    BY DEF RateAssumption
  <2>2. \A c \in Clients : granted[c] = {} /\ counter[c] = 0 /\ ttl[c] = NoTTL
    BY DEF Init
  <2>3. \A c \in Clients : Used(c) = 0
    BY <2>1, <2>2 DEF Used
  <2>4. \A c \in Clients : Cardinality(granted[c]) = 0
    BY <2>2, FS_EmptySet
  <2> HIDE DEF Used
  <2> QED
    BY <2>1, <2>2, <2>3, <2>4 DEF GrantsOfTwoKeys, GrantsOutliving
<1>2. GrantInv /\ [Next]_vars => GrantInv'
  <2> SUFFICES ASSUME GrantInv, [Next]_vars, "redis_loss" \notin struck'
               PROVE  GrantsByKey'
    BY BaseStep DEF GrantInv
  <2>1. RateBase /\ RateBase' /\ TypeOK /\ GrantsByKey
    <3>1. struck \subseteq struck'
      BY FaultsAccumulate DEF GrantInv, RateBase
    <3> QED
      BY <3>1, BaseStep DEF GrantInv, RateBase
  <2>2. (\A c \in Clients : counter'[c] = counter[c]) =>
          \A c \in Clients : counter'[c] >= counter[c]
    BY <2>1 DEF TypeOK
  <2>3. ASSUME NEW k \in Connections, RateLimit(k)
        PROVE  GrantsOfTwoKeys' /\ GrantsOutliving'
    <3>1. CASE ArriveRedis(k) \/ ArriveMemory(k)
      BY <2>1, <2>2, <3>1, GrantsUntouched DEF ArriveRedis, ArriveMemory
    <3>2. CASE IncrFails(k)
      <4> DEFINE c == ClientOf(k)
                 current == Increment(counter[c])
      <4>1. c \in Clients
        BY DEF Connections, ClientOf
      <4>2. counter' = counter \/ counter' = [counter EXCEPT ![c] = current]
        BY <3>2 DEF IncrFails
      <4>3. \A d \in Clients : counter[d] \in 0..Limit + 1
        BY <2>1 DEF TypeOK
      <4>4. current >= counter[c]
        BY <2>1, <4>1, <4>3, IncrStep DEF RateAssumption
      <4>5. counter \in [Clients -> 0..Limit + 1]
        BY <2>1 DEF TypeOK
      <4> HIDE DEF current, c
      <4>6. \A d \in Clients : counter'[d] = counter[d] \/ (d = c /\ counter'[d] = current)
        BY <4>2, <4>5
      <4>7. \A d \in Clients : counter'[d] >= counter[d]
        BY <4>3, <4>4, <4>6
      <4> QED
        BY <2>1, <3>2, <4>7, GrantsUntouched DEF IncrFails
    <3> QED
      BY <2>1, <2>3, <3>1, <3>2, GrantsIncr, GrantsExpire DEF RateLimit
  <2>4. ASSUME NEW a \in Apis, CrashApi(a)
        PROVE  GrantsOfTwoKeys' /\ GrantsOutliving'
    BY <2>1, <2>2, <2>4, GrantsUntouched DEF CrashApi
  <2>5. CASE RedisLoss
    BY <2>5 DEF RedisLoss, Fault
  <2>6. CASE Tick
    BY <2>1, <2>6, GrantsTick DEF GrantsByKey
  <2>7. CASE UNCHANGED vars
    BY <2>1, <2>2, <2>7, GrantsUntouched DEF vars, GrantsByKey
  <2> QED
    BY <2>3, <2>4, <2>5, <2>6, <2>7 DEF Next, GrantsByKey
<1> QED
  BY <1>1, <1>2, PTL DEF Spec

(***************************************************************************)
(* In any Window ticks Redis lets fewer than two budgets of a client       *)
(* through (app/core/security.py:99-110).                                  *)
(***************************************************************************)
THEOREM GrantsAreBounded ==
  ASSUME RateAssumption
  PROVE  Spec => []GrantsBounded
<1>1. GrantInv => GrantsBounded
  <2> SUFFICES ASSUME RateBase, GrantsByKey, NEW c \in Clients
               PROVE  Cardinality(granted[c]) <= 2 * Limit - 1
    BY DEF GrantsBounded, GrantInv
  <2>1. Used(c) \in 0..Limit /\ Cardinality(granted[c]) \in Nat
    BY GrantNumbers
  <2>2. Cardinality(granted[c]) <= Limit - 1 + Used(c)
    BY DEF GrantsByKey, GrantsOfTwoKeys
  <2>3. Limit \in Nat \ {0}
    BY DEF RateAssumption
  <2> QED
    BY <2>1, <2>2, <2>3
<1> QED
  BY <1>1, GrantInvariant, PTL

-----------------------------------------------------------------------------
\* What the memory of the processes adds.

\* What all of the steps below start from.
LivesInv == LivesBegin /\ Remembered /\ MemoryFits

\* A check of the in-memory limiter stamps the list of the process and what its
\* life has let through alike, and neither when that is one budget.
LEMMA CheckMemoryKeeps ==
  ASSUME RateAssumption, TypeOK, FiniteLists, LivesInv,
         NEW a \in Apis, NEW c \in Clients, CheckMemory(a, c),
         budget' \in Nat, budget' <= budget
  PROVE  LivesInv'
<1> DEFINE h == Prune(hits[a][c])
           new == IF Full(h) THEN h ELSE Stamped(h)
           m == <<a, life[a]>>
<1>1. /\ hits' = [hits EXCEPT ![a][c] = new] /\ life' = life
      /\ letin' = IF Full(h) THEN letin ELSE [letin EXCEPT ![m][c] = Stamped(@)]
  BY DEF CheckMemory
<1>2. /\ hits \in [Apis -> [Clients -> SUBSET Stamps]] /\ life \in [Apis -> 0..MaxFaults]
      /\ letin \in [Lives -> [Clients -> SUBSET Stamps]]
      /\ m \in Lives /\ Limit \in Nat /\ Window \in Nat \ {0} /\ budget \in Int
  BY DEF TypeOK, Lives, RateAssumption
<1>3. /\ letin[m][c] = h /\ h \in Lists /\ Stamped(h) \in Lists
      /\ Cardinality(h) <= Limit
  BY <1>2, ListTypes, ListOperations DEF LivesInv, Remembered, MemoryFits
<1>4. /\ Cardinality(h) \in Nat /\ Cardinality(Stamped(h)) \in Nat
      /\ Cardinality(Stamped(h)) <= Cardinality(h) + 1
  <2>1. IsFiniteSet(Stamped(h)) /\ 0 \in Int
    BY <1>3 DEF Lists
  <2> HIDE DEF h
  <2> QED
    BY <1>3, <2>1, StampedGrows, FS_CardinalityType
<1>5. Cardinality(new) <= Limit
  <2> HIDE DEF h
  <2> QED
    BY <1>2, <1>3, <1>4 DEF Full
<1>6. Prune(new) = new
  <2>1. Prune(h) = h
    BY DEF Prune
  <2>2. Prune(Stamped(h)) = Stamped(h)
    <3>1. \A t \in Stamped(h) : t \in h \/ t[1] = 0
      BY DEF Stamped
    <3>2. \A t \in Stamped(h) : t[1] < Window
      BY <1>2, <3>1 DEF Prune
    <3> QED
      BY <3>2 DEF Prune
  <2> QED
    BY <2>1, <2>2
<1>7. \A l \in Lives : \A d \in Clients :
        letin'[l][d] = IF l = m /\ d = c THEN new ELSE letin[l][d]
  <2> HIDE DEF m, h
  <2> QED
    BY <1>1, <1>2, <1>3
<1>8. \A b \in Apis : \A d \in Clients :
        hits'[b][d] = IF b = a /\ d = c THEN new ELSE hits[b][d]
  <2> HIDE DEF new
  <2> QED
    BY <1>1, <1>2
<1> HIDE DEF new, h
<1>9. \A b \in Apis : <<b, life[b]>> \in Lives /\ (<<b, life[b]>> = m <=> b = a)
  BY <1>2 DEF Lives
<1>10. Remembered'
  BY <1>1, <1>6, <1>7, <1>8, <1>9 DEF LivesInv, Remembered
<1>11. MemoryFits'
  BY <1>5, <1>7 DEF LivesInv, MemoryFits
<1>12. LivesBegin'
  <2>1. \A b \in Apis : life[b] \in Int /\ life[b] >= budget
    BY <1>2 DEF LivesInv, LivesBegin
  <2>2. \A b \in Apis : life'[b] >= budget'
    BY <1>1, <1>2, <2>1
  <2>3. ASSUME NEW l \in Lives, l[2] < budget', NEW d \in Clients PROVE letin'[l][d] = {}
    <3>1. l[2] \in Int /\ l[2] < budget
      BY <1>2, <2>3 DEF Lives
    <3>2. l # m
      BY <1>2, <2>1, <3>1
    <3> QED
      BY <1>7, <3>1, <3>2 DEF LivesInv, LivesBegin
  <2> QED
    BY <2>2, <2>3 DEF LivesBegin
<1> QED
  BY <1>10, <1>11, <1>12 DEF LivesInv

\* Ageing takes stamps out of the window and brings none in.
LEMMA OlderFits ==
  ASSUME RateAssumption, NEW h \in Lists
  PROVE  /\ Prune(Older(Prune(h))) = Prune(Older(h))
         /\ Cardinality(Prune(Older(h))) <= Cardinality(h)
         /\ Cardinality(Prune(Older(h))) \in Nat /\ Cardinality(h) \in Nat
<1>1. /\ Window \in Nat \ {0} /\ \A t \in h : t[1] \in 0..Window
      /\ IsFiniteSet(h) /\ Prune(h) \in Lists
  BY ListOperations DEF RateAssumption, Lists
<1>2. Prune(Older(Prune(h))) = Prune(Older(h))
  <2>1. ASSUME NEW t \in Prune(Older(h)) PROVE t \in Older(Prune(h))
    <3>1. PICK u \in h : t = <<IF u[1] < Window THEN u[1] + 1 ELSE Window, u[2]>>
      BY DEF Prune, Older
    <3>2. u[1] < Window
      BY <1>1, <3>1 DEF Prune
    <3>3. u \in Prune(h)
      BY <3>2 DEF Prune
    <3> QED
      BY <3>1, <3>3 DEF Older
  <2>2. Older(Prune(h)) \subseteq Older(h)
    BY DEF Older, Prune
  <2> QED
    BY <2>1, <2>2 DEF Prune
<1>3. /\ Cardinality(Prune(Older(h))) \in Nat
      /\ Cardinality(Prune(Older(h))) <= Cardinality({t \in h : t[1] < Window - 1})
  <2>1. Window - 1 \in Int /\ (Window - 1) + 1 = Window
    BY <1>1
  <2>2. LET left == {t \in Older(h) : t[1] < Window}
        IN  /\ Cardinality({t \in left : t[1] < (Window - 1) + 1}) \in Nat
            /\ Cardinality({t \in left : t[1] < (Window - 1) + 1})
                 <= Cardinality({t \in h : t[1] < Window - 1})
    BY <2>1, OlderShrinks
  <2>3. Prune(Older(h)) = {t \in {u \in Older(h) : u[1] < Window} : t[1] < Window}
    BY DEF Prune
  <2> QED
    BY <2>1, <2>2, <2>3
<1>4. /\ Cardinality({t \in h : t[1] < Window - 1}) <= Cardinality(h)
      /\ Cardinality({t \in h : t[1] < Window - 1}) \in Nat /\ Cardinality(h) \in Nat
  BY <1>1, FS_Subset, FS_CardinalityType
<1> QED
  BY <1>2, <1>3, <1>4

LEMMA TickKeeps ==
  ASSUME RateAssumption, TypeOK, FiniteLists, LivesInv, Tick
  PROVE  LivesInv'
<1>1. /\ \A a \in Apis : <<a, life[a]>> \in Lives
      /\ UNCHANGED <<life, budget>> /\ Limit \in Nat
      /\ \A l \in Lives : \A c \in Clients :
           letin[l][c] \in Lists /\ letin'[l][c] = Prune(Older(letin[l][c]))
      /\ \A a \in Apis : \A c \in Clients :
           hits[a][c] \in Lists /\ hits'[a][c] = Older(hits[a][c])
  BY ListTypes DEF TypeOK, Tick, Lives, faults, RateAssumption
<1>2. Remembered'
  BY <1>1, OlderFits DEF LivesInv, Remembered
<1>3. MemoryFits'
  <2> SUFFICES ASSUME NEW l \in Lives, NEW c \in Clients
               PROVE  Cardinality(letin'[l][c]) <= Limit
    BY DEF MemoryFits
  <2>1. Cardinality(letin[l][c]) <= Limit
    BY DEF LivesInv, MemoryFits
  <2>2. /\ Cardinality(letin'[l][c]) <= Cardinality(letin[l][c])
        /\ Cardinality(letin'[l][c]) \in Nat /\ Cardinality(letin[l][c]) \in Nat
    BY <1>1, OlderFits
  <2> QED
    BY <1>1, <2>1, <2>2
<1>4. Prune(Older({})) = {}
  BY DEF Prune, Older
<1>5. LivesBegin'
  <2>1. ASSUME NEW l \in Lives, l[2] < budget', NEW c \in Clients PROVE letin'[l][c] = {}
    <3>1. letin[l][c] = {}
      BY <1>1, <2>1 DEF LivesInv, LivesBegin
    <3>2. letin'[l][c] = Prune(Older({}))
      BY <1>1, <3>1, Zenon
    <3> QED
      BY <1>4, <3>2
  <2> QED
    BY <1>1, <2>1 DEF LivesInv, LivesBegin
<1> QED
  BY <1>2, <1>3, <1>5 DEF LivesInv

\* A kill begins a life that has let nobody through.
LEMMA CrashKeeps ==
  ASSUME RateAssumption, TypeOK, LivesInv, NEW a \in Apis, CrashApi(a)
  PROVE  LivesInv'
<1>1. /\ hits' = [hits EXCEPT ![a] = [c \in Clients |-> {}]]
      /\ hits \in [Apis -> [Clients -> SUBSET Stamps]]
      /\ life' = [life EXCEPT ![a] = budget'] /\ life \in [Apis -> 0..MaxFaults]
      /\ letin' = letin
  BY DEF CrashApi, TypeOK
<1>2. budget \in 0..MaxFaults /\ budget' \in 0..MaxFaults /\ budget' = budget - 1
  BY FaultStep DEF CrashApi, Fault, TypeOK
<1>3. \A b \in Apis : \A d \in Clients : hits'[b][d] = IF b = a THEN {} ELSE hits[b][d]
  BY <1>1
<1>4. \A b \in Apis : /\ life[b] \in Int /\ life[b] >= budget
                      /\ life'[b] = IF b = a THEN budget' ELSE life[b]
  BY <1>1 DEF LivesInv, LivesBegin
<1>5. \A d \in Clients : letin[<<a, budget'>>][d] = {}
  <2>1. <<a, budget'>> \in Lives /\ budget' < budget
    BY <1>2 DEF Lives
  <2> QED
    BY <2>1 DEF LivesInv, LivesBegin
<1>6. Remembered'
  <2>1. Prune({}) = {}
    BY DEF Prune
  <2> QED
    BY <1>1, <1>3, <1>4, <1>5, <2>1 DEF LivesInv, Remembered
<1>7. LivesBegin'
  <2>1. \A b \in Apis : life'[b] >= budget'
    BY <1>2, <1>4
  <2>2. \A l \in Lives : l[2] < budget' => l[2] < budget
    BY <1>2 DEF Lives
  <2> QED
    BY <1>1, <2>1, <2>2 DEF LivesInv, LivesBegin
<1>8. MemoryFits'
  BY <1>1 DEF LivesInv, MemoryFits
<1> QED
  BY <1>6, <1>7, <1>8 DEF LivesInv

LEMMA MemoryStep ==
  ASSUME RateAssumption, TypeOK, FiniteLists, LivesInv, [Next]_vars
  PROVE  LivesInv'
<1>0. budget \in 0..MaxFaults /\ MaxFaults \in Nat
  BY DEF TypeOK, RateAssumption
<1>1. ASSUME UNCHANGED <<hits, lives>>, budget' \in Nat, budget' <= budget
      PROVE  LivesInv'
  <2>1. \A a \in Apis : life[a] \in Int
    BY DEF TypeOK
  <2>2. LivesBegin'
    <3>1. \A a \in Apis : life'[a] >= budget'
      BY <1>0, <1>1, <2>1 DEF LivesInv, LivesBegin, lives
    <3>2. \A l \in Lives : l[2] < budget' => l[2] < budget
      BY <1>0, <1>1 DEF Lives
    <3> QED
      BY <1>1, <3>1, <3>2 DEF LivesInv, LivesBegin, lives
  <2> QED
    BY <1>1, <2>2 DEF LivesInv, Remembered, MemoryFits, lives
<1>2. ASSUME NEW f, Fault(f) \/ UNCHANGED faults
      PROVE  budget' \in Nat /\ budget' <= budget
  BY <1>0, <1>2 DEF Fault, faults
<1>3. ASSUME NEW k \in Connections, RateLimit(k) PROVE LivesInv'
  <2>1. ClientOf(k) \in Clients /\ ApiOf(k) \in Apis
    BY DEF Connections, ClientOf, ApiOf
  <2>2. UNCHANGED <<hits, lives>> \/ CheckMemory(ApiOf(k), ClientOf(k))
    BY <1>3 DEF RateLimit, ArriveRedis, ArriveMemory, Incr, IncrFails, Expire, ExpireFails
  <2>3. \E f : Fault(f) \/ UNCHANGED faults
    BY <1>3 DEF RateLimit, ArriveRedis, ArriveMemory, Incr, IncrFails, Expire, ExpireFails
  <2> QED
    BY <1>1, <1>2, <2>1, <2>2, <2>3, CheckMemoryKeeps
<1>4. ASSUME NEW a \in Apis, CrashApi(a) PROVE LivesInv'
  BY <1>4, CrashKeeps
<1>5. CASE RedisLoss \/ UNCHANGED vars
  <2>1. UNCHANGED <<hits, lives>> /\ \E f : Fault(f) \/ UNCHANGED faults
    BY <1>5 DEF RedisLoss, vars, faults
  <2> QED
    BY <1>1, <1>2, <2>1
<1> QED
  BY <1>3, <1>4, <1>5, TickKeeps DEF Next

(***************************************************************************)
(* No life of a process lets more than one budget of a client through from *)
(* memory in a window, on top of what bounds the grants of Redis: the list *)
(* it compares with the limit holds all it has let through                 *)
(* (app/core/security.py:71-79).                                           *)
(***************************************************************************)
THEOREM AdmissionInvariant ==
  ASSUME RateAssumption
  PROVE  Spec => []AdmissionInv
<1>1. Init => LivesInv
  <2> SUFFICES ASSUME Init PROVE LivesInv
    OBVIOUS
  <2>1. /\ \A a \in Apis : life[a] = MaxFaults /\ <<a, life[a]>> \in Lives
        /\ \A l \in Lives : \A c \in Clients : letin[l][c] = {}
        /\ \A a \in Apis : \A c \in Clients : hits[a][c] = {}
        /\ budget = MaxFaults /\ MaxFaults \in Nat /\ Limit \in Nat
    BY DEF Init, Lives, RateAssumption
  <2>2. Prune({}) = {} /\ Cardinality({}) = 0
    BY FS_EmptySet DEF Prune
  <2> QED
    <3>1. LivesBegin
      <4>1. \A a \in Apis : life[a] >= budget
        <5>1. MaxFaults >= MaxFaults
          BY <2>1
        <5> QED
          BY <2>1, <5>1, Zenon
      <4> QED
        BY <2>1, <4>1, Zenon DEF LivesBegin
    <3>2. Remembered
      BY <2>1, <2>2, Zenon DEF Remembered
    <3>3. MemoryFits
      <4>1. \A l \in Lives : \A c \in Clients : Cardinality(letin[l][c]) = 0
        BY <2>1, <2>2, Zenon
      <4> QED
        BY <2>1, <4>1 DEF MemoryFits, RateAssumption
    <3> QED
      BY <3>1, <3>2, <3>3 DEF LivesInv
<1>2. GrantInv /\ LivesInv /\ [Next]_vars => LivesInv'
  BY MemoryStep DEF GrantInv, RateBase
<1> QED
  BY <1>1, <1>2, GrantInvariant, PTL DEF Spec, AdmissionInv, LivesInv

(***************************************************************************)
(* Redis and the memory of every process together: the limiter in memory   *)
(* adds one budget for each life of a process that lets the client through *)
(* in the window, and no more (app/core/security.py:109-121).              *)
(***************************************************************************)
THEOREM AdmissionsAreBounded ==
  ASSUME RateAssumption
  PROVE  Spec => []AdmissionsBounded
<1>1. AdmissionInv => AdmissionsBounded
  <2> SUFFICES ASSUME RateBase, GrantsByKey, MemoryFits, NEW c \in Clients
               PROVE  Admissions(c) <= 2 * Limit - 1 + Cardinality(Admitting(c)) * Limit
    BY DEF AdmissionsBounded, AdmissionInv, GrantInv
  <2> DEFINE A == Admitting(c)
             P == [l \in A |-> {l} \X letin[l][c]]
             U == UNION {P[l] : l \in A}
  <2>1. Limit \in Nat /\ IsFiniteSet(A) /\ Cardinality(A) \in Nat
    <3>1. IsFiniteSet(Apis) /\ IsFiniteSet(0..MaxFaults)
      BY FS_Interval DEF RateAssumption
    <3>2. IsFiniteSet(Lives)
      BY <3>1, FS_Product DEF Lives
    <3>3. A \subseteq Lives
      BY DEF Admitting
    <3> QED
      BY <3>2, <3>3, FS_Subset, FS_CardinalityType DEF RateAssumption
  <2>2. Cardinality(granted[c]) \in Nat /\ Cardinality(granted[c]) <= 2 * Limit - 1
    <3>1. Used(c) \in 0..Limit /\ Cardinality(granted[c]) \in Nat
      BY GrantNumbers
    <3>2. Cardinality(granted[c]) <= Limit - 1 + Used(c)
      BY DEF GrantsByKey, GrantsOfTwoKeys
    <3> QED
      BY <2>1, <3>1, <3>2
  <2>3. ASSUME NEW l \in A
        PROVE  IsFiniteSet(P[l]) /\ Cardinality(P[l]) <= Limit
    <3> DEFINE h == letin[l][c]
    <3>0. l \in Lives
      BY DEF Admitting
    <3>1. IsFiniteSet(h) /\ Cardinality(h) \in Nat /\ Cardinality(h) <= Limit
      BY <3>0, FS_CardinalityType DEF RateBase, FiniteLists, MemoryFits
    <3>2. IsFiniteSet({l}) /\ Cardinality({l}) = 1
      BY FS_Singleton
    <3> HIDE DEF h
    <3>4. IsFiniteSet({l} \X h) /\ Cardinality({l} \X h) = 1 * Cardinality(h)
      BY <3>1, <3>2, FS_Product
    <3>5. P[l] = {l} \X h
      BY DEF h
    <3> HIDE DEF P
    <3> QED
      BY <3>1, <3>4, <3>5
  <2>4. LetIn(c) = U
    BY DEF LetIn
  <2> HIDE DEF A
  <2>5. /\ IsFiniteSet(U) /\ Cardinality(U) \in Nat
        /\ Cardinality(U) <= Cardinality(A) * Limit
    <3> HIDE DEF P
    <3> QED
      BY <2>1, <2>3, UnionBound
  <2> HIDE DEF U
  <2>6. PICK k \in Int : k = Cardinality(A) * Limit
    BY <2>1
  <2>7. Cardinality(granted[c]) + Cardinality(U) <= 2 * Limit - 1 + k
    BY <2>1, <2>2, <2>5, <2>6
  <2> QED
    BY <2>4, <2>6, <2>7 DEF Admissions, A
<1> QED
  BY <1>1, AdmissionInvariant, PTL
=============================================================================
