----------------------------- MODULE RateLimiter -----------------------------
(***************************************************************************)
(* The per-client rate limit of the API, app/core/security.py: a counter   *)
(* with an expiry in Redis, shared by the API processes, and in each       *)
(* process a list of time stamps for when Redis does not answer.           *)
(*                                                                         *)
(* Time advances in ticks; Redis and the processes see the same clock.     *)
(* Between two ticks any number of requests may interleave.                *)
(***************************************************************************)
EXTENDS Integers, FiniteSets

CONSTANTS
  Clients,      \* client addresses, one key "rl:<ip>" each
  Apis,         \* API processes
  Conns,        \* how many requests a client has in flight at one process
  Limit,        \* settings.RATE_LIMIT_REQUESTS; 0 would disable the limiter
  Window,       \* settings.RATE_LIMIT_WINDOW_SECONDS, in ticks
  FaultKinds,   \* what the environment may do
  MaxFaults     \* how often, the bound on faults

\* "_reply": the command took effect and its reply is lost.
AllFaults == { "incr", "incr_reply", "expire", "expire_reply",
               "redis_loss", "crash" }

ASSUME RateAssumption ==
  /\ Conns \in Nat /\ Limit \in Nat \ {0} /\ Window \in Nat \ {0}
  /\ FaultKinds \subseteq AllFaults /\ MaxFaults \in Nat
  /\ IsFiniteSet(Apis)

\* A connection carries one request at a time.
Connections == Clients \X Apis \X (1..Conns)
ClientOf(k) == k[1]
ApiOf(k) == k[2]

\* The lives of the processes, each named by the faults left when it began.
Lives == Apis \X (0..MaxFaults)

\* A time stamp: its age in ticks (Window stands for every age from there
\* on) and its rank among those of the same tick.
Stamps == (0..Window) \X (Nat \ {0})
NoTTL == 0

VARIABLES
  redis,    \* per process: it has a Redis client
  counter,  \* the value of the key "rl:<ip>", 0 if there is none
  ttl,      \* ticks until the key expires, or NoTTL
  hits,     \* _limiter._hits, per process and client
  at,       \* per connection: no request, or the command it awaits
  budget,   \* faults left
  struck,   \* (history) the kinds of fault there have been
  life,     \* (history) per process: the faults left when its life began
  letin,    \* (history) when the memory of a life let a client through, last
            \* Window ticks
  granted,  \* (history) when Redis let a client through, last Window ticks
  quiet     \* (history) ticks since the client had a request, at most Window

faults == <<budget, struck>>
lives == <<life, letin>>
vars == <<redis, counter, ttl, hits, at, budget, struck, lives, granted, quiet>>

TypeOK ==
  /\ redis \in [Apis -> BOOLEAN]
  /\ counter \in [Clients -> 0..Limit + 1]
  /\ ttl \in [Clients -> 0..Window]
  /\ hits \in [Apis -> [Clients -> SUBSET Stamps]]
  /\ at \in [Connections -> {"idle", "incr", "expire"}]
  /\ budget \in 0..MaxFaults
  /\ struck \in SUBSET FaultKinds
  /\ life \in [Apis -> 0..MaxFaults]
  /\ letin \in [Lives -> [Clients -> SUBSET Stamps]]
  /\ granted \in [Clients -> SUBSET Stamps]
  /\ quiet \in [Clients -> 0..Window]

Init ==
  /\ redis \in [Apis -> BOOLEAN]
  /\ counter = [c \in Clients |-> 0]
  /\ ttl = [c \in Clients |-> NoTTL]
  /\ hits = [a \in Apis |-> [c \in Clients |-> {}]]
  /\ at = [k \in Connections |-> "idle"]
  /\ budget = MaxFaults
  /\ struck = {}
  /\ life = [a \in Apis |-> MaxFaults]
  /\ letin = [l \in Lives |-> [c \in Clients |-> {}]]
  /\ granted = [c \in Clients |-> {}]
  /\ quiet = [c \in Clients |-> 0]

Fault(f) == /\ f \in FaultKinds /\ budget > 0
            /\ budget' = budget - 1
            /\ struck' = struck \cup {f}

InFlight(c) == \E k \in Connections : ClientOf(k) = c /\ at[k] # "idle"

-----------------------------------------------------------------------------
\* Lists of time stamps.

\* Mutation: stamps are never dropped.
NoPrune(h) == h

\* [t for t in timestamps if now - t < window]
Prune(h) == {t \in h : t[1] < Window}

\* append(now)
Stamped(h) == h \cup {<<0, Cardinality({t \in h : t[1] = 0}) + 1>>}

Older(h) == {<<IF t[1] < Window THEN t[1] + 1 ELSE Window, t[2]>> : t \in h}

\* Mutation: one stamp too many.
FullOneLate(h) == Cardinality(h) > Limit

\* len(self._hits[key]) >= max_requests
Full(h) == Cardinality(h) >= Limit

\* is_rate_limited: one stretch of code without an await.
CheckMemory(a, c) ==
  LET h == Prune(hits[a][c])
  IN  /\ hits' = [hits EXCEPT ![a][c] = IF Full(h) THEN h ELSE Stamped(h)]
      /\ letin' = IF Full(h) THEN letin
                  ELSE [letin EXCEPT ![<<a, life[a]>>][c] = Stamped(@)]
      /\ UNCHANGED life

-----------------------------------------------------------------------------
\* rate_limit, the dependency in front of every API route.

\* A request comes in; the process has a Redis client or never had one.
ArriveRedis(k) ==
  /\ at[k] = "idle" /\ redis[ApiOf(k)]
  /\ at' = [at EXCEPT ![k] = "incr"]
  /\ quiet' = [quiet EXCEPT ![ClientOf(k)] = 0]
  /\ UNCHANGED <<redis, counter, ttl, hits, faults, lives, granted>>

ArriveMemory(k) ==
  /\ at[k] = "idle" /\ ~redis[ApiOf(k)]
  /\ CheckMemory(ApiOf(k), ClientOf(k))
  /\ quiet' = [quiet EXCEPT ![ClientOf(k)] = 0]
  /\ UNCHANGED <<redis, counter, ttl, at, faults, granted>>

\* What INCR returns, exact up to Limit + 1: the code compares with 1 and
\* with Limit only.
Increment(n) == IF n > Limit THEN n ELSE n + 1

\* Mutations: EXPIRE at the end of the budget; one request too many.
StartsAtLimit(n) == n = Limit
WithinLimitPlusOne(n) == n <= Limit + 1

StartsWindow(n) == n = 1
WithinLimit(n) == n <= Limit

\* INCR; the first request of a window goes on to EXPIRE, the others are let
\* through or turned away at once.  A grant counts from the INCR on.
Incr(k) ==
  LET c == ClientOf(k)
      current == Increment(counter[c])
  IN  /\ at[k] = "incr"
      /\ counter' = [counter EXCEPT ![c] = current]
      /\ granted' = IF WithinLimit(current)
                    THEN [granted EXCEPT ![c] = Stamped(@)] ELSE granted
      /\ at' = [at EXCEPT ![k] = IF StartsWindow(current) THEN "expire" ELSE "idle"]
      /\ UNCHANGED <<redis, ttl, hits, faults, lives, quiet>>

\* INCR raises, before or after it took effect: the in-memory limiter decides.
IncrFails(k) ==
  LET c == ClientOf(k)
  IN  /\ at[k] = "incr"
      /\ \/ Fault("incr") /\ UNCHANGED counter
         \/ Fault("incr_reply") /\ counter' = [counter EXCEPT ![c] = Increment(@)]
      /\ CheckMemory(ApiOf(k), c)
      /\ at' = [at EXCEPT ![k] = "idle"]
      /\ UNCHANGED <<redis, ttl, granted, quiet>>

\* EXPIRE sets nothing on a key that is not there.
SetTTL(c) == ttl' = [ttl EXCEPT ![c] = IF counter[c] > 0 THEN Window ELSE NoTTL]

Expire(k) ==
  /\ at[k] = "expire"
  /\ SetTTL(ClientOf(k))
  /\ at' = [at EXCEPT ![k] = "idle"]
  /\ UNCHANGED <<redis, counter, hits, faults, lives, granted, quiet>>

ExpireFails(k) ==
  /\ at[k] = "expire"
  /\ \/ Fault("expire") /\ UNCHANGED ttl
     \/ Fault("expire_reply") /\ SetTTL(ClientOf(k))
  /\ CheckMemory(ApiOf(k), ClientOf(k))
  /\ at' = [at EXCEPT ![k] = "idle"]
  /\ UNCHANGED <<redis, counter, granted, quiet>>

-----------------------------------------------------------------------------
\* The environment.

\* Time passes: Redis drops the keys that are due.
Tick ==
  /\ counter' = [c \in Clients |-> IF ttl[c] = 1 THEN 0 ELSE counter[c]]
  /\ ttl' = [c \in Clients |-> IF ttl[c] = NoTTL THEN NoTTL ELSE ttl[c] - 1]
  /\ hits' = [a \in Apis |-> [c \in Clients |-> Older(hits[a][c])]]
  /\ letin' = [l \in Lives |-> [c \in Clients |-> Prune(Older(letin[l][c]))]]
  /\ granted' = [c \in Clients |-> {t \in Older(granted[c]) : t[1] < Window}]
  /\ quiet' = [c \in Clients |-> IF InFlight(c) THEN 0
                                 ELSE IF quiet[c] < Window THEN quiet[c] + 1
                                 ELSE Window]
  /\ UNCHANGED <<redis, at, faults, life>>

\* Redis restarts without its keys.
RedisLoss ==
  /\ Fault("redis_loss")
  /\ counter' = [c \in Clients |-> 0]
  /\ ttl' = [c \in Clients |-> NoTTL]
  /\ UNCHANGED <<redis, hits, at, lives, granted, quiet>>

\* A process is killed and restarted, with nothing in memory; init_redis may or
\* may not succeed.
CrashApi(a) ==
  /\ Fault("crash")
  /\ hits' = [hits EXCEPT ![a] = [c \in Clients |-> {}]]
  /\ at' = [k \in Connections |-> IF ApiOf(k) = a THEN "idle" ELSE at[k]]
  /\ \E up \in BOOLEAN : redis' = [redis EXCEPT ![a] = up]
  /\ life' = [life EXCEPT ![a] = budget']
  /\ UNCHANGED <<counter, ttl, letin, granted, quiet>>

RateLimit(k) == \/ ArriveRedis(k) \/ ArriveMemory(k)
                \/ Incr(k) \/ IncrFails(k)
                \/ Expire(k) \/ ExpireFails(k)

Next == \/ \E k \in Connections : RateLimit(k)
        \/ \E a \in Apis : CrashApi(a)
        \/ RedisLoss
        \/ Tick

Spec == Init /\ [][Next]_vars

-----------------------------------------------------------------------------
\* Properties

\* The faults that leave every key its expiry: each of the others may
\* separate the INCR that creates a key from its EXPIRE.
HonestFaults == {"incr", "expire_reply", "redis_loss"}

(***************************************************************************)
(* The 429 tells the client to come back after Window (Retry-After): a     *)
(* client that has sent nothing for that long finds its whole budget       *)
(* again, in Redis and in the memory of every process, as long as only     *)
(* HonestFaults have struck.                                               *)
(***************************************************************************)
BudgetIsBack ==
  \A c \in Clients :
    quiet[c] = Window =>
      /\ counter[c] = 0
      /\ \A a \in Apis : ~Full(Prune(hits[a][c]))

RetryAfterHonest == struck \subseteq HonestFaults => BudgetIsBack

(***************************************************************************)
(* What Redis lets a client get through in any Window: two fixed windows,  *)
(* save one, because the first request of a window starts its expiry and   *)
(* the next window can only begin Window ticks later, however late the     *)
(* EXPIRE comes and whatever becomes of it.  Redis must not lose its keys. *)
(***************************************************************************)
GrantsBounded ==
  "redis_loss" \notin struck =>
    \A c \in Clients : Cardinality(granted[c]) <= 2 * Limit - 1

(***************************************************************************)
(* What Redis and the memory of every process let a client get through in  *)
(* any Window, together: one more budget for each life of a process that   *)
(* let it through from memory.  A kill forgets the stamps, so the process  *)
(* started after it has a budget of its own.                               *)
(***************************************************************************)
Admitting(c) == {l \in Lives : letin[l][c] # {}}
LetIn(c) == UNION {{l} \X letin[l][c] : l \in Admitting(c)}
Admissions(c) == Cardinality(granted[c]) + Cardinality(LetIn(c))
AdmissionsBounded ==
  "redis_loss" \notin struck =>
    \A c \in Clients :
      Admissions(c) <= 2 * Limit - 1 + Cardinality(Admitting(c)) * Limit

(***************************************************************************)
(* src/app/core/security.py:6 calls the limiter a sliding window: in no    *)
(* Window ticks are more than Limit requests of a client let through.      *)
(***************************************************************************)
SlidingWindow == \A c \in Clients : Cardinality(granted[c]) <= Limit

(***************************************************************************)
(* What both invariants below rest on: types, finite lists (so that their  *)
(* length is a number), no expiry without a key.                           *)
(***************************************************************************)
FiniteLists ==
  /\ \A c \in Clients : IsFiniteSet(granted[c])
  /\ \A a \in Apis : \A c \in Clients : IsFiniteSet(hits[a][c])
  /\ \A l \in Lives : \A c \in Clients : IsFiniteSet(letin[l][c])

KeyHasValue == \A c \in Clients : counter[c] = 0 => ttl[c] = NoTTL

RateBase == TypeOK /\ FiniteLists /\ KeyHasValue

(***************************************************************************)
(* The inductive invariant behind RetryAfterHonest: a key without expiry   *)
(* has its EXPIRE still to come, an expiry and the client's silence        *)
(* together fit in a window, and no stamp is younger than that silence.    *)
(***************************************************************************)
KeyExpires ==
  \A c \in Clients :
    counter[c] > 0 /\ ttl[c] = NoTTL =>
      \E k \in Connections : ClientOf(k) = c /\ at[k] = "expire"

QuietBoundsTTL ==
  \A c \in Clients :
    /\ ttl[c] # NoTTL => ttl[c] + quiet[c] <= Window
    /\ InFlight(c) => quiet[c] = 0

QuietBoundsHits ==
  \A c \in Clients : \A a \in Apis : \A t \in hits[a][c] : t[1] >= quiet[c]

QuietEmpties == KeyExpires /\ QuietBoundsTTL /\ QuietBoundsHits

RateInv == RateBase /\ (struck \subseteq HonestFaults => QuietEmpties)

(***************************************************************************)
(* The inductive invariant behind GrantsBounded: the grants a client has   *)
(* left over from earlier keys are fewer than Limit, and of the grants     *)
(* that will outlive the present key all but the first were made under it. *)
(***************************************************************************)
Used(c) == IF counter[c] < Limit THEN counter[c] ELSE Limit
Outliving(c) == {t \in granted[c] : t[1] < Window - ttl[c]}

GrantsOfTwoKeys ==
  \A c \in Clients : Cardinality(granted[c]) <= Limit - 1 + Used(c)

GrantsOutliving ==
  \A c \in Clients : ttl[c] # NoTTL => Cardinality(Outliving(c)) <= Used(c) - 1

GrantsByKey == GrantsOfTwoKeys /\ GrantsOutliving

GrantInv == RateBase /\ ("redis_loss" \notin struck => GrantsByKey)

(***************************************************************************)
(* What AdmissionsBounded needs besides: what a process has let through in *)
(* its life it remembers, so that no life lets more than one budget of a   *)
(* client through in a Window, and a life that has not begun none at all.  *)
(***************************************************************************)
LivesBegin ==
  /\ \A a \in Apis : life[a] >= budget
  /\ \A l \in Lives : l[2] < budget => \A c \in Clients : letin[l][c] = {}

Remembered ==
  \A a \in Apis : \A c \in Clients : letin[<<a, life[a]>>][c] = Prune(hits[a][c])

MemoryFits == \A l \in Lives : \A c \in Clients : Cardinality(letin[l][c]) <= Limit

AdmissionInv == GrantInv /\ LivesBegin /\ Remembered /\ MemoryFits
=============================================================================
