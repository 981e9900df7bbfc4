-------------------------- MODULE RateLimiterProofs --------------------------
(***************************************************************************)
(* The token bucket admits exactly what it should, for any capacity, rate  *)
(* and number of clients: never more than the bound, and whenever the      *)
(* bound allows.  Both rest on Balance, which relates the bucket as it was *)
(* left at lastRefill to everything admitted since any earlier moment: what*)
(* was used and what is left never exceed a full bucket and the refill     *)
(* (Covered), and for some moment they are equal to it (Tight).  The times *)
(* the refused clients are told rest on PromiseKept.                       *)
(* The window of /login rests on WindowInv: its log is in the order of     *)
(* time, and the logins admitted since a moment are the last so many of it *)
(* (Logged).  Where the eviction stops needs a least number, which is      *)
(* proved by counting, as the library's induction is out of reach here.    *)
(***************************************************************************)
EXTENDS RateLimiter, TLAPS, FiniteSetTheorems, SequenceTheorems

BucketType ==
  /\ now \in Time
  /\ tokens \in [Clients -> 0 .. Full]
  /\ lastRefill \in [Clients -> Time]
  /\ \A c \in Clients : lastRefill[c] <= now
  /\ used \in [Clients -> [Time -> Nat]]

\* Nothing was admitted after lastRefill, and up to it the bound has room for
\* the tokens that are left.
Covered(c) ==
  \A t \in Time :
    IF t <= lastRefill[c]
      THEN used[c][t] + tokens[c] <= Full + (lastRefill[c] - t)
      ELSE used[c][t] = 0

\* For the moment the bucket was last full, that room is all there is.
Tight(c) ==
  \E t \in Time :
    t <= lastRefill[c] /\ used[c][t] + tokens[c] = Full + (lastRefill[c] - t)

Balance == BucketType /\ \A c \in Clients : Covered(c) /\ Tight(c)

-----------------------------------------------------------------------------
\* A full bucket holds at least one token.
LEMMA FullHoldsAToken == Full \in Nat /\ TokenTicks \in Nat /\ Full >= TokenTicks
<1>1. Capacity \in Nat /\ Capacity >= 1 /\ TokenTicks \in Nat
  BY BucketAssumption DEF BucketAssumption
<1>2. Capacity * TokenTicks \in Nat
  BY <1>1
<1>3. Capacity * TokenTicks >= TokenTicks
  <2>1. (Capacity - 1) * TokenTicks >= 0
    BY <1>1
  <2>2. Capacity * TokenTicks = (Capacity - 1) * TokenTicks + TokenTicks
    BY <1>1
  <2> QED BY <2>1, <2>2, <1>1, <1>2
<1> QED BY <1>1, <1>2, <1>3 DEF Full

LEMMA TimeIsNat == MaxTime \in Nat /\ Time \subseteq Nat /\ 0 \in Time
  BY ClockAssumption DEF ClockAssumption, Time

\* What the bucket holds once refilled.
LEMMA RefilledValue ==
  ASSUME BucketType, NEW c \in Clients
  PROVE  /\ Refilled(c) \in 0 .. Full
         /\ Refilled(c) <= tokens[c] + (now - lastRefill[c])
         /\ Refilled(c) < Full => Refilled(c) = tokens[c] + (now - lastRefill[c])
<1>1. tokens[c] \in 0 .. Full /\ lastRefill[c] \in Nat /\ now \in Nat /\ lastRefill[c] <= now
  BY TimeIsNat DEF BucketType
<1> QED BY <1>1, FullHoldsAToken DEF Refilled

-----------------------------------------------------------------------------
LEMMA InitBalance == Init => Balance
<1> SUFFICES ASSUME Init PROVE Balance
  OBVIOUS
<1>1. BucketType
  BY TimeIsNat, FullHoldsAToken DEF Init, BucketType
<1>2. ASSUME NEW c \in Clients PROVE Covered(c) /\ Tight(c)
  <2>1. \A t \in Time : used[c][t] = 0
    BY DEF Init
  <2>2. tokens[c] = Full /\ lastRefill[c] = 0
    BY DEF Init
  <2>3. Covered(c)
    BY <2>1, <2>2, TimeIsNat, FullHoldsAToken DEF Covered
  <2>4. Tight(c)
    BY <2>1, <2>2, TimeIsNat, FullHoldsAToken DEF Tight
  <2> QED BY <2>3, <2>4
<1> QED BY <1>1, <1>2 DEF Balance

\* The bucket of a client that is asked for a token, admitted or not: what was
\* spent is what was counted.
LEMMA BucketStep ==
  ASSUME Balance, NEW c \in Clients, NEW spent \in Nat,
         spent <= Refilled(c),
         tokens' = [tokens EXCEPT ![c] = Refilled(c) - spent],
         lastRefill' = [lastRefill EXCEPT ![c] = now],
         used' = [used EXCEPT ![c] = Count(@, spent)],
         now' = now
  PROVE  Balance'
<1>1. BucketType
  BY DEF Balance
<1>2. /\ Refilled(c) \in 0 .. Full
      /\ Refilled(c) <= tokens[c] + (now - lastRefill[c])
      /\ Refilled(c) < Full => Refilled(c) = tokens[c] + (now - lastRefill[c])
  BY <1>1, RefilledValue
<1>3. /\ now \in Time /\ now \in Nat
      /\ tokens[c] \in 0 .. Full /\ lastRefill[c] \in Nat /\ lastRefill[c] <= now
  BY <1>1, TimeIsNat DEF BucketType
<1>4. tokens'[c] = Refilled(c) - spent /\ lastRefill'[c] = now
  BY <1>1 DEF BucketType
<1>5. \A t \in Time : used[c][t] \in Nat
  BY <1>1 DEF BucketType
<1>6. \A t \in Time : used'[c][t] = IF t <= now THEN used[c][t] + spent ELSE used[c][t]
  BY <1>1 DEF BucketType, Count
<1>7. Covered(c) /\ Tight(c)
  BY DEF Balance
<1>8. BucketType'
  <2>1. Refilled(c) - spent \in 0 .. Full
    BY <1>2, FullHoldsAToken
  <2>2. tokens' \in [Clients -> 0 .. Full]
    BY <2>1, <1>1 DEF BucketType
  <2>3. lastRefill' \in [Clients -> Time] /\ \A d \in Clients : lastRefill'[d] <= now'
    BY <1>1, <1>3 DEF BucketType
  <2>4. Count(used[c], spent) \in [Time -> Nat]
    BY <1>5 DEF Count
  <2>5. used' \in [Clients -> [Time -> Nat]]
    BY <2>4, <1>1 DEF BucketType
  <2>6. now' \in Time
    BY <1>3
  <2> QED BY <2>2, <2>3, <2>5, <2>6 DEF BucketType, Full, Time
<1>9. Covered(c)'
  <2>1. ASSUME NEW t \in Time
        PROVE  IF t <= now THEN used'[c][t] + tokens'[c] <= Full + (now - t)
                           ELSE used'[c][t] = 0
    <3>1. t \in Nat /\ used[c][t] \in Nat
      BY <1>5, TimeIsNat
    <3>2. CASE t <= lastRefill[c]
      <4>1. used[c][t] + tokens[c] <= Full + (lastRefill[c] - t)
        BY <3>2, <1>7 DEF Covered
      <4>2. used'[c][t] = used[c][t] + spent
        BY <3>1, <3>2, <1>3, <1>6
      <4> QED BY <4>1, <4>2, <3>1, <3>2, <1>2, <1>3, <1>4, FullHoldsAToken
    <3>3. CASE ~(t <= lastRefill[c])
      <4>1. used[c][t] = 0
        BY <3>3, <1>7 DEF Covered
      <4>2. used'[c][t] = IF t <= now THEN spent ELSE 0
        BY <4>1, <1>6
      <4> QED BY <4>2, <3>1, <1>2, <1>3, <1>4, FullHoldsAToken
    <3> QED BY <3>2, <3>3
  <2> QED BY <2>1, <1>4 DEF Covered, Full, Time
<1>10. Tight(c)'
  <2>1. CASE Refilled(c) < Full
    <3>1. PICK t \in Time : t <= lastRefill[c] /\ used[c][t] + tokens[c] = Full + (lastRefill[c] - t)
      BY <1>7 DEF Tight
    <3>2. t \in Nat /\ t <= now /\ used'[c][t] = used[c][t] + spent
      BY <3>1, <1>3, <1>6, TimeIsNat
    <3>3. used'[c][t] + tokens'[c] = Full + (now - t)
      BY <2>1, <3>1, <3>2, <1>2, <1>3, <1>4, <1>5, FullHoldsAToken
    <3> QED BY <3>2, <3>3, <1>4 DEF Tight, Full, Time
  <2>2. CASE Refilled(c) = Full
    <3>1. used[c][now] = 0
      <4>1. CASE now = lastRefill[c]
        <5>1. used[c][now] + tokens[c] <= Full
          BY <4>1, <1>3, <1>7, FullHoldsAToken DEF Covered
        <5>2. tokens[c] = Full
          BY <2>2, <4>1, <1>2, <1>3, FullHoldsAToken
        <5> QED BY <5>1, <5>2, <1>3, <1>5, FullHoldsAToken
      <4>2. CASE now # lastRefill[c]
        BY <4>2, <1>3, <1>7 DEF Covered
      <4> QED BY <4>1, <4>2
    <3>2. used'[c][now] + tokens'[c] = Full + (now - now)
      BY <2>2, <3>1, <1>2, <1>3, <1>4, <1>6, FullHoldsAToken
    <3> QED BY <3>2, <1>3, <1>4 DEF Tight, Full, Time
  <2> QED BY <2>1, <2>2, <1>2, FullHoldsAToken
<1>11. ASSUME NEW d \in Clients, d # c PROVE Covered(d)' /\ Tight(d)'
  <2>1. tokens'[d] = tokens[d] /\ lastRefill'[d] = lastRefill[d] /\ used'[d] = used[d]
    BY <1>11, <1>1 DEF BucketType
  <2>2. Covered(d) /\ Tight(d)
    BY DEF Balance
  <2>3. Covered(d)'
    BY <2>1, <2>2 DEF Covered, Full, Time
  <2>4. Tight(d)'
    BY <2>1, <2>2 DEF Tight, Full, Time
  <2> QED BY <2>3, <2>4
<1> QED BY <1>8, <1>9, <1>10, <1>11 DEF Balance

\* A step that leaves the buckets alone, and may let time pass.
LEMMA OtherStep ==
  ASSUME Balance, UNCHANGED bucketVars, now' = now \/ (now < MaxTime /\ now' = now + 1)
  PROVE  Balance'
<1>1. UNCHANGED <<tokens, lastRefill, used>>
  BY DEF bucketVars
<1>2. BucketType'
  <2>1. now' \in Time /\ \A c \in Clients : lastRefill[c] <= now'
    BY TimeIsNat, ClockAssumption DEF Balance, BucketType, Time
  <2> QED BY <2>1, <1>1 DEF Balance, BucketType, Full, Time
<1>3. ASSUME NEW c \in Clients PROVE Covered(c)' /\ Tight(c)'
  BY <1>1 DEF Balance, Covered, Tight, Full, Time
<1> QED BY <1>2, <1>3 DEF Balance

LEMMA NextBalance == Balance /\ [Next]_vars => Balance'
<1> SUFFICES ASSUME Balance, [Next]_vars PROVE Balance'
  OBVIOUS
<1>1. ASSUME NEW c \in Clients, Take(c), now' = now PROVE Balance'
  <2>1. TokenTicks \in Nat /\ TokenTicks <= Refilled(c)
    <3>1. Refilled(c) \in 0 .. Full
      BY RefilledValue DEF Balance
    <3> QED BY <1>1, <3>1, FullHoldsAToken DEF Take
  <2> QED BY <2>1, <1>1, BucketStep DEF Take
<1>2. ASSUME NEW c \in Clients, Refuse(c) PROVE Balance'
  <2>1. Refilled(c) \in 0 .. Full
    BY RefilledValue DEF Balance
  <2>2. used = [used EXCEPT ![c] = Count(@, 0)]
    <3>1. used \in [Clients -> [Time -> Nat]]
      BY DEF Balance, BucketType
    <3>2. \A t \in Time : used[c][t] + 0 = used[c][t]
      BY <3>1
    <3>3. Count(used[c], 0) = used[c]
      BY <3>1, <3>2 DEF Count
    <3> QED BY <3>1, <3>3
  <2>3. tokens' = [tokens EXCEPT ![c] = Refilled(c) - 0]
    <3>1. Refilled(c) - 0 = Refilled(c)
      BY <2>1, FullHoldsAToken
    <3>2. tokens' = [tokens EXCEPT ![c] = Refilled(c)]
      BY <1>2 DEF Refuse
    <3> QED BY <3>1, <3>2
  <2>4. used' = [used EXCEPT ![c] = Count(@, 0)] /\ now' = now
    BY <1>2, <2>2 DEF Refuse
  <2>5. 0 \in Nat /\ 0 <= Refilled(c)
    BY <2>1, FullHoldsAToken
  <2> QED BY <1>2, <2>3, <2>4, <2>5, BucketStep DEF Refuse
<1>3. CASE \E c \in Clients : Admit(c)
  BY <1>3, <1>1 DEF Admit
<1>4. CASE \E c \in Clients, l \in Logins : LoginAdmitted(c, l) \/ LoginRefused(c, l)
  BY <1>4, <1>1 DEF LoginAdmitted, LoginRefused
<1>5. CASE Tick
  BY <1>5, OtherStep DEF Tick
<1>6. CASE UNCHANGED vars
  BY <1>6, OtherStep DEF vars
<1> QED BY <1>2, <1>3, <1>4, <1>5, <1>6 DEF Next

-----------------------------------------------------------------------------
\* No client is ever admitted more than a full bucket and the refill since any
\* moment, for any capacity, rate, number of clients and order of requests
\* (TokenBucketLimiter.allow).
THEOREM RequestsAreBounded == Spec => []RequestsBounded
<1>1. Balance => RequestsBounded
  <2> SUFFICES ASSUME Balance, NEW c \in Clients, NEW t \in 0 .. now
               PROVE  used[c][t] <= Full + (now - t)
    BY DEF RequestsBounded
  <2>1. /\ now \in Nat /\ t \in Nat /\ t \in Time /\ lastRefill[c] \in Nat
        /\ lastRefill[c] <= now /\ tokens[c] \in 0 .. Full
    BY TimeIsNat, ClockAssumption DEF Balance, BucketType, Time
  <2>2. used[c][t] \in Nat
    BY <2>1 DEF Balance, BucketType
  <2>3. Covered(c)
    BY DEF Balance
  <2>4. IF t <= lastRefill[c] THEN used[c][t] + tokens[c] <= Full + (lastRefill[c] - t)
                              ELSE used[c][t] = 0
    BY <2>1, <2>3 DEF Covered
  <2> QED BY <2>1, <2>2, <2>4, FullHoldsAToken
<1> QED BY <1>1, InitBalance, NextBalance, PTL DEF Spec

\* A request is refused only if admitting it would break that bound: no refill
\* is lost and no refusal is charged, in any order of requests.
THEOREM RequestsAreNotShorted == Spec => []RequestsNotShorted
<1>1. Balance => RequestsNotShorted
  <2> SUFFICES ASSUME Balance, NEW c \in Clients, Refilled(c) < TokenTicks
               PROVE  \E t \in 0 .. now : used[c][t] + TokenTicks > Full + (now - t)
    BY DEF RequestsNotShorted
  <2>1. BucketType /\ Tight(c)
    BY DEF Balance
  <2>2. /\ now \in Nat /\ lastRefill[c] \in Nat /\ lastRefill[c] <= now
        /\ tokens[c] \in 0 .. Full
    BY <2>1, TimeIsNat DEF BucketType
  <2>3. Refilled(c) = tokens[c] + (now - lastRefill[c])
    BY <2>1, <2>2, RefilledValue, FullHoldsAToken
  <2>4. PICK t \in Time : t <= lastRefill[c] /\ used[c][t] + tokens[c] = Full + (lastRefill[c] - t)
    BY <2>1 DEF Tight
  <2>5. t \in Nat /\ used[c][t] \in Nat
    BY <2>1, TimeIsNat DEF BucketType
  <2>6. t \in 0 .. now /\ used[c][t] + TokenTicks > Full + (now - t)
    BY <2>2, <2>3, <2>4, <2>5, FullHoldsAToken
  <2> QED BY <2>6
<1> QED BY <1>1, InitBalance, NextBalance, PTL DEF Spec

-----------------------------------------------------------------------------
(* Retry-After *)

\* Rounding up to whole seconds never shortens a wait.
LEMMA SecondsCover ==
  ASSUME NEW T \in Nat \ {0}, NEW x \in Nat
  PROVE  T * ((x + T - 1) \div T) >= x
BY SMTT(30)

LEMMA HeaderCovers ==
  ASSUME NEW ticks \in Nat
  PROVE  Header(ticks) \in Nat /\ Header(ticks) >= ticks
<1>1. TicksPerSecond \in Nat \ {0}
  BY ClockAssumption DEF ClockAssumption
<1>2. PICK seconds : seconds = (ticks + TicksPerSecond - 1) \div TicksPerSecond
  OBVIOUS
<1>3. seconds \in Nat
  BY <1>1, <1>2, SMTT(30)
<1>4. TicksPerSecond * seconds >= ticks
  BY <1>1, <1>2, SecondsCover
<1>5. CASE seconds < 1
  <2>1. seconds = 0 /\ ticks = 0
    <3>1. seconds = 0
      BY <1>3, <1>5
    <3>2. TicksPerSecond * seconds = 0
      BY <1>1, <3>1
    <3> QED BY <1>4, <3>1, <3>2
  <2>2. Header(ticks) = TicksPerSecond * 1
    BY <1>2, <1>5 DEF Header
  <2> QED BY <1>1, <2>1, <2>2
<1>6. CASE ~(seconds < 1)
  <2>1. Header(ticks) = TicksPerSecond * seconds
    BY <1>2, <1>6 DEF Header
  <2>2. TicksPerSecond * seconds \in Nat
    BY <1>1, <1>3
  <2> QED BY <1>4, <2>1, <2>2
<1> QED BY <1>5, <1>6

\* At the moment a refused client was told, its bucket holds a token.
PromiseKept ==
  /\ patience \in [Clients -> Nat]
  /\ \A c \in Clients :
       patience[c] # NotRefused => tokens[c] + (patience[c] - lastRefill[c]) >= TokenTicks

LEMMA TakeKeepsPromise ==
  ASSUME BucketType, PromiseKept, NEW c \in Clients, Take(c)
  PROVE  PromiseKept'
<1>1. patience' = [patience EXCEPT ![c] = NotRefused]
  BY DEF Take
<1>2. \A d \in Clients \ {c} : tokens'[d] = tokens[d] /\ lastRefill'[d] = lastRefill[d]
  BY DEF Take, BucketType
<1> QED BY <1>1, <1>2 DEF PromiseKept, NotRefused

LEMMA RefuseKeepsPromise ==
  ASSUME BucketType, PromiseKept, NEW c \in Clients, Refuse(c)
  PROVE  PromiseKept'
<1>1. /\ now \in Nat /\ lastRefill[c] \in Nat /\ lastRefill[c] <= now /\ tokens[c] \in 0 .. Full
      /\ patience[c] \in Nat
  BY TimeIsNat DEF BucketType, PromiseKept
<1>2. Refilled(c) \in Nat /\ Refilled(c) < TokenTicks /\ Refilled(c) = tokens[c] + (now - lastRefill[c])
  BY RefilledValue, FullHoldsAToken DEF Refuse
<1>3. PICK p : p = Told(patience[c], TokenTicks - Refilled(c))
  OBVIOUS
<1>4. p \in Nat /\ Refilled(c) + (p - now) >= TokenTicks
  <2>1. CASE patience[c] = NotRefused
    <3>1. TokenTicks - Refilled(c) \in Nat
      BY <1>2, FullHoldsAToken
    <3>2. PICK h \in Nat : h = Header(TokenTicks - Refilled(c)) /\ h >= TokenTicks - Refilled(c)
      BY <3>1, HeaderCovers
    <3>3. p = now + h
      BY <1>3, <2>1, <3>2 DEF Told
    <3> QED BY <1>1, <1>2, <3>2, <3>3, FullHoldsAToken
  <2>2. CASE patience[c] # NotRefused
    <3>1. p = patience[c]
      BY <1>3, <2>2 DEF Told
    <3>2. tokens[c] + (patience[c] - lastRefill[c]) >= TokenTicks
      BY <2>2 DEF PromiseKept
    <3> QED BY <1>1, <1>2, <3>1, <3>2, FullHoldsAToken
  <2> QED BY <2>1, <2>2
<1>5. patience' = [patience EXCEPT ![c] = p]
  BY <1>3 DEF Refuse
<1>6. tokens'[c] = Refilled(c) /\ lastRefill'[c] = now
  BY DEF Refuse, BucketType
<1>7. \A d \in Clients \ {c} : tokens'[d] = tokens[d] /\ lastRefill'[d] = lastRefill[d]
  BY DEF Refuse, BucketType
<1> QED BY <1>4, <1>5, <1>6, <1>7 DEF PromiseKept

LEMMA BalanceHolds == Spec => [](Balance /\ PromiseKept)
<1>1. Init => PromiseKept
  BY DEF Init, PromiseKept, NotRefused
<1>2. Balance /\ PromiseKept /\ [Next]_vars => PromiseKept'
  <2> SUFFICES ASSUME BucketType, PromiseKept, [Next]_vars PROVE PromiseKept'
    BY DEF Balance
  <2>1. CASE UNCHANGED bucketVars
    BY <2>1 DEF bucketVars, PromiseKept
  <2> QED
    BY <2>1, TakeKeepsPromise, RefuseKeepsPromise
    DEF Next, Admit, LoginAdmitted, LoginRefused, Tick, vars
<1> QED BY <1>1, <1>2, InitBalance, NextBalance, PTL DEF Spec

\* A refused client that comes back at its first Retry-After is admitted, for any
\* capacity and rate, also those that are not a whole number of tokens a second.
THEOREM RetriesAreAdmitted == Spec => []RequestRetryAdmitted
<1>1. Balance /\ PromiseKept => RequestRetryAdmitted
  <2> SUFFICES ASSUME BucketType, PromiseKept, NEW c \in Clients,
                      patience[c] # NotRefused, now >= patience[c], Refilled(c) < TokenTicks
               PROVE  FALSE
    BY RefilledValue, FullHoldsAToken DEF Balance, RequestRetryAdmitted
  <2>1. /\ now \in Nat /\ lastRefill[c] \in Nat /\ lastRefill[c] <= now /\ tokens[c] \in 0 .. Full
        /\ patience[c] \in Nat /\ tokens[c] + (patience[c] - lastRefill[c]) >= TokenTicks
    BY TimeIsNat DEF BucketType, PromiseKept
  <2>2. Refilled(c) = tokens[c] + (now - lastRefill[c])
    BY RefilledValue, FullHoldsAToken
  <2> QED BY <2>1, <2>2, FullHoldsAToken
<1> QED BY <1>1, BalanceHolds, PTL

-----------------------------------------------------------------------------
(* The window of /login *)

\* A set of naturals that is not empty has a least element: without one, taking
\* 1 away would map what is above its elements, up to k, into itself without k,
\* which is smaller, and no two numbers to the same.
LEMMA LeastNumber ==
  ASSUME NEW S \in SUBSET Nat, NEW k \in S
  PROVE  \E n \in S : \A m \in S : n <= m
<1> SUFFICES ASSUME \A n \in S : \E m \in S : m < n
             PROVE  FALSE
  OBVIOUS
<1> DEFINE U == {x \in 0 .. k : \E s \in S : s <= x}
           f == [x \in U |-> x - 1]
<1>1. k \in U
  OBVIOUS
<1>2. \A x \in U : x - 1 \in U \ {k}
  OBVIOUS
<1>3. IsFiniteSet(U) /\ Cardinality(U) \in Nat
  <2>1. IsFiniteSet(0 .. k) /\ U \in SUBSET (0 .. k)
    BY FS_Interval
  <2> HIDE DEF U
  <2>2. IsFiniteSet(U)
    BY <2>1, FS_Subset
  <2> QED BY <2>2, FS_CardinalityType
<1>4. IsFiniteSet(U \ {k}) /\ Cardinality(U \ {k}) < Cardinality(U)
  <2> HIDE DEF U
  <2>1. /\ IsFiniteSet(U \ {k})
        /\ Cardinality(U \ {k}) = IF k \in U THEN Cardinality(U) - 1 ELSE Cardinality(U)
    BY <1>3, FS_RemoveElement
  <2> QED BY <1>1, <1>3, <2>1
<1>5. f \in [U -> U \ {k}]
  BY <1>2
<1>6. \E x, y \in U : x # y /\ f[x] = f[y]
  <2> HIDE DEF U, f
  <2> QED BY <1>3, <1>4, <1>5, FS_PigeonHole
<1> QED BY <1>6

\* The types of what the window keeps; its events are in the order of time, and
\* never more than it admits.
WindowType ==
  /\ now \in Time
  /\ events \in [Logins -> Seq(Time)]
  /\ attempts \in [Logins -> [Time -> Nat]]
  /\ loginPatience \in [Logins -> Nat]

InOrder(log) ==
  /\ Len(log) <= WindowEvents
  /\ \A i \in 1 .. Len(log) : log[i] <= now
  /\ \A i, j \in 1 .. Len(log) : i <= j => log[i] <= log[j]

\* The last n events of a log are those since t.
LastSince(log, n, t) ==
  /\ n <= Len(log)
  /\ \A i \in 1 .. Len(log) : log[i] >= t <=> i > Len(log) - n

\* The logins admitted since any moment within the window are the last of its log.
Logged(l) == \A t \in Time : t + Window >= now => LastSince(events[l], attempts[l][t], t)

\* Past the moment a refused login was told, the first event of a full log is old.
WaitEnds(l) ==
  loginPatience[l] # NotRefused /\ Len(events[l]) >= WindowEvents =>
    events[l][1] + Window <= loginPatience[l]

WindowInv ==
  WindowType /\ \A l \in Logins : InOrder(events[l]) /\ Logged(l) /\ WaitEnds(l)

LEMMA WindowNumbers ==
  ASSUME WindowType
  PROVE  /\ now \in Nat /\ Window \in Nat /\ WindowEvents \in Nat \ {0}
         /\ \A l \in Logins :
              /\ events[l] \in Seq(Time)
              /\ Len(events[l]) \in Nat
              /\ \A i \in 1 .. Len(events[l]) : events[l][i] \in Time /\ events[l][i] \in Nat
<1>1. now \in Nat /\ Window \in Nat /\ WindowEvents \in Nat \ {0}
  BY TimeIsNat, WindowAssumption DEF WindowType, WindowAssumption
<1>2. ASSUME NEW l \in Logins
      PROVE  /\ events[l] \in Seq(Time)
             /\ Len(events[l]) \in Nat
             /\ \A i \in 1 .. Len(events[l]) : events[l][i] \in Time /\ events[l][i] \in Nat
  <2>1. events[l] \in Seq(Time)
    BY DEF WindowType
  <2>2. Len(events[l]) \in Nat /\ \A i \in 1 .. Len(events[l]) : events[l][i] \in Time
    BY <2>1, LenProperties, ElementOfSeq
  <2> QED BY <2>1, <2>2, TimeIsNat
<1> QED BY <1>1, <1>2

\* popleft() stops at the first event that is not older than the window.
LEMMA EvictedStops ==
  ASSUME WindowType, NEW l \in Logins
  PROVE  /\ Evicted(l) \in 0 .. Len(events[l])
         /\ \A i \in 1 .. Evicted(l) : events[l][i] + Window < now
         /\ Evicted(l) < Len(events[l]) => events[l][Evicted(l) + 1] + Window >= now
<1>1. /\ Len(events[l]) \in Nat /\ now \in Nat /\ Window \in Nat
      /\ \A i \in 1 .. Len(events[l]) : events[l][i] \in Nat
  BY WindowNumbers
<1> DEFINE S == {n \in 0 .. Len(events[l]) : n < Len(events[l]) => events[l][n + 1] + Window >= now}
<1>2. PICK n \in S : \A m \in S : n <= m
  <2>1. S \in SUBSET Nat /\ Len(events[l]) \in S
    BY <1>1
  <2> HIDE DEF S
  <2> QED BY <2>1, LeastNumber
<1>3. ASSUME NEW i \in 1 .. n
      PROVE  events[l][i] + Window < now
  <2>1. PICK j \in Nat : i = j + 1 /\ j < n
    BY <1>1
  <2>2. j \notin S
    BY <1>1, <1>2, <2>1
  <2>3. j \in 0 .. Len(events[l]) /\ i \in 1 .. Len(events[l])
    BY <1>1, <2>1
  <2>4. ~(events[l][i] + Window >= now)
    BY <2>1, <2>2, <2>3
  <2>5. events[l][i] \in Nat
    BY <1>1, <2>3
  <2> QED BY <1>1, <2>4, <2>5
<1>4. \E e \in 0 .. Len(events[l]) :
        /\ \A i \in 1 .. e : events[l][i] + Window < now
        /\ e < Len(events[l]) => events[l][e + 1] + Window >= now
  BY <1>2, <1>3
<1> QED BY <1>4 DEF Evicted

\* What popleft() leaves: the end of the log.
LEMMA LiveIsSuffix ==
  ASSUME WindowType, NEW l \in Logins
  PROVE  /\ Live(l) \in Seq(Time)
         /\ Len(Live(l)) = Len(events[l]) - Evicted(l)
         /\ \A i \in 1 .. Len(Live(l)) : Live(l)[i] = events[l][i + Evicted(l)]
<1>1. /\ events[l] \in Seq(Time) /\ Len(events[l]) \in Nat
      /\ Evicted(l) \in 0 .. Len(events[l])
  BY EvictedStops DEF WindowType
<1>2. Evicted(l) + 1 \in 1 .. Len(events[l]) + 1
  BY <1>1
<1> QED BY <1>1, <1>2, SubSeqProperties DEF Live

\* The end of a log keeps what is known of the log.
LEMMA SuffixKeeps ==
  ASSUME WindowType, NEW log \in Seq(Time), NEW suffix \in Seq(Time), NEW e \in 0 .. Len(log),
         Len(suffix) = Len(log) - e, \A i \in 1 .. Len(suffix) : suffix[i] = log[i + e]
  PROVE  /\ InOrder(log) => InOrder(suffix)
         /\ \A n \in Nat, t \in Time :
              LastSince(log, n, t) /\ (\A i \in 1 .. e : log[i] < t) => LastSince(suffix, n, t)
<1>1. Len(log) \in Nat /\ Len(suffix) \in Nat /\ WindowEvents \in Nat
  BY LenProperties, WindowNumbers
<1>2. \A i \in 1 .. Len(suffix) : i + e \in 1 .. Len(log)
  BY <1>1
<1>3. ASSUME InOrder(log)
      PROVE  InOrder(suffix)
  <2>1. Len(suffix) <= WindowEvents
    BY <1>1, <1>3 DEF InOrder
  <2>2. \A i \in 1 .. Len(suffix) : suffix[i] <= now
    BY <1>2, <1>3 DEF InOrder
  <2>3. ASSUME NEW i \in 1 .. Len(suffix), NEW j \in 1 .. Len(suffix), i <= j
        PROVE  suffix[i] <= suffix[j]
    <3>1. i + e <= j + e
      BY <1>1, <2>3
    <3> QED BY <1>2, <1>3, <3>1 DEF InOrder
  <2> QED BY <2>1, <2>2, <2>3 DEF InOrder
<1>4. ASSUME NEW n \in Nat, NEW t \in Time, LastSince(log, n, t), \A i \in 1 .. e : log[i] < t
      PROVE  LastSince(suffix, n, t)
  <2>1. n <= Len(log) /\ \A i \in 1 .. Len(log) : log[i] >= t <=> i > Len(log) - n
    BY <1>4 DEF LastSince
  <2>2. n <= Len(suffix)
    <3>1. CASE e = 0
      BY <1>1, <2>1, <3>1
    <3>2. CASE e > 0
      <4>1. e \in 1 .. Len(log) /\ log[e] < t /\ log[e] \in Nat /\ t \in Nat
        <5>1. e \in 1 .. Len(log) /\ e \in 1 .. e
          BY <1>1, <3>2
        <5>2. log[e] \in Time
          BY <5>1, ElementOfSeq
        <5> QED BY <1>4, <5>1, <5>2, TimeIsNat
      <4>2. ~(e > Len(log) - n)
        BY <2>1, <4>1
      <4> QED BY <1>1, <4>1, <4>2
    <3> QED BY <3>1, <3>2
  <2>3. ASSUME NEW i \in 1 .. Len(suffix)
        PROVE  suffix[i] >= t <=> i > Len(suffix) - n
    <3>1. log[i + e] >= t <=> i + e > Len(log) - n
      BY <1>2, <2>1
    <3>2. i + e > Len(log) - n <=> i > Len(suffix) - n
      BY <1>1
    <3> QED BY <3>1, <3>2
  <2> QED BY <2>2, <2>3 DEF LastSince
<1> QED BY <1>3, <1>4

\* The events that are evicted are older than any moment of the window.
LEMMA LiveKeeps ==
  ASSUME WindowInv, NEW l \in Logins
  PROVE  /\ Live(l) \in Seq(Time) /\ Len(Live(l)) \in Nat
         /\ InOrder(Live(l))
         /\ \A t \in Time : t + Window >= now => LastSince(Live(l), attempts[l][t], t)
<1>1. /\ WindowType /\ InOrder(events[l]) /\ Logged(l)
      /\ now \in Nat /\ Window \in Nat
      /\ events[l] \in Seq(Time) /\ Len(events[l]) \in Nat
      /\ \A i \in 1 .. Len(events[l]) : events[l][i] \in Nat
  BY WindowNumbers DEF WindowInv
<1>2. Live(l) \in Seq(Time) /\ Len(Live(l)) \in Nat
  BY <1>1, LiveIsSuffix, LenProperties
<1>3. /\ Evicted(l) \in 0 .. Len(events[l])
      /\ Len(Live(l)) = Len(events[l]) - Evicted(l)
      /\ \A i \in 1 .. Len(Live(l)) : Live(l)[i] = events[l][i + Evicted(l)]
  BY <1>1, EvictedStops, LiveIsSuffix
<1>4. ASSUME NEW t \in Time, t + Window >= now
      PROVE  LastSince(Live(l), attempts[l][t], t)
  <2>1. ASSUME NEW i \in 1 .. Evicted(l)
        PROVE  events[l][i] < t
    <3>1. events[l][i] + Window < now
      BY <1>1, EvictedStops
    <3>2. events[l][i] \in Nat /\ t \in Nat
      BY <1>1, <1>3, TimeIsNat
    <3> QED BY <1>1, <1>4, <3>1, <3>2
  <2>2. attempts[l][t] \in Nat /\ LastSince(events[l], attempts[l][t], t)
    BY <1>1, <1>4 DEF WindowType, Logged
  <2> QED BY <1>1, <1>2, <1>3, <2>1, <2>2, SuffixKeeps
<1> QED BY <1>1, <1>2, <1>3, <1>4, SuffixKeeps

\* A login admitted now becomes the last of the log, and one more since every
\* moment up to now.
LEMMA AppendKeeps ==
  ASSUME WindowType, NEW log \in Seq(Time), InOrder(log), Len(log) < WindowEvents
  PROVE  /\ Append(log, now) \in Seq(Time)
         /\ InOrder(Append(log, now))
         /\ \A n \in Nat, t \in Time :
              LastSince(log, n, t) =>
                LastSince(Append(log, now), IF t <= now THEN n + 1 ELSE n, t)
<1> DEFINE longer == Append(log, now)
<1>1. Len(log) \in Nat /\ WindowEvents \in Nat /\ now \in Nat /\ now \in Time
      /\ \A i \in 1 .. Len(log) : log[i] \in Nat
  BY LenProperties, ElementOfSeq, WindowNumbers, TimeIsNat DEF WindowType
<1>2. /\ longer \in Seq(Time) /\ Len(longer) = Len(log) + 1
      /\ \A i \in 1 .. Len(log) : longer[i] = log[i]
      /\ longer[Len(log) + 1] = now
  BY <1>1, AppendProperties
<1> HIDE DEF longer
<1>3. InOrder(longer)
  BY <1>1, <1>2 DEF InOrder
<1>4. ASSUME NEW n \in Nat, NEW t \in Time, LastSince(log, n, t)
      PROVE  LastSince(longer, IF t <= now THEN n + 1 ELSE n, t)
  <2>1. /\ t \in Nat /\ n <= Len(log)
        /\ \A i \in 1 .. Len(log) : log[i] >= t <=> i > Len(log) - n
    BY <1>4, TimeIsNat DEF LastSince
  <2>2. CASE t <= now
    BY <1>1, <1>2, <2>1, <2>2 DEF LastSince
  <2>3. CASE ~(t <= now)
    <3>1. n = 0
      <4>1. ASSUME n > 0 PROVE FALSE
        <5>1. Len(log) \in 1 .. Len(log) /\ log[Len(log)] >= t
          BY <1>1, <2>1, <4>1
        <5> QED BY <1>1, <2>1, <2>3, <5>1 DEF InOrder
      <4> QED BY <4>1
    <3>2. \A i \in 1 .. Len(longer) : ~(longer[i] >= t)
      BY <1>1, <1>2, <2>1, <2>3 DEF InOrder
    <3> QED BY <1>1, <1>2, <2>3, <3>1, <3>2 DEF LastSince
  <2> QED BY <2>2, <2>3
<1> QED BY <1>2, <1>3, <1>4 DEF longer

\* What an admitted login does to the window of its key.
LEMMA AdmissionKeepsWindow ==
  ASSUME WindowInv, NEW c \in Clients, NEW l \in Logins, LoginAdmitted(c, l)
  PROVE  WindowInv'
<1>1. /\ WindowType /\ now' = now
      /\ events' = [events EXCEPT ![l] = Append(Live(l), now)]
      /\ attempts' = [attempts EXCEPT ![l] = Count(@, 1)]
      /\ loginPatience' = [loginPatience EXCEPT ![l] = NotRefused]
      /\ Len(Live(l)) < WindowEvents
  BY DEF LoginAdmitted, WindowInv
<1>2. /\ Live(l) \in Seq(Time) /\ InOrder(Live(l))
      /\ \A t \in Time : t + Window >= now => LastSince(Live(l), attempts[l][t], t)
  BY LiveKeeps
<1>3. /\ Append(Live(l), now) \in Seq(Time) /\ InOrder(Append(Live(l), now))
      /\ \A n \in Nat, t \in Time :
           LastSince(Live(l), n, t) =>
             LastSince(Append(Live(l), now), IF t <= now THEN n + 1 ELSE n, t)
  BY <1>1, <1>2, AppendKeeps
<1>4. \A t \in Time : attempts[l][t] \in Nat
  BY <1>1 DEF WindowType
<1>5. /\ events'[l] = Append(Live(l), now)
      /\ \A t \in Time : attempts'[l][t] = IF t <= now THEN attempts[l][t] + 1 ELSE attempts[l][t]
      /\ loginPatience'[l] = NotRefused
  BY <1>1 DEF WindowType, Count
<1>6. \A k \in Logins \ {l} :
        events'[k] = events[k] /\ attempts'[k] = attempts[k] /\ loginPatience'[k] = loginPatience[k]
  BY <1>1 DEF WindowType
<1>7. WindowType'
  <2>1. Count(attempts[l], 1) \in [Time -> Nat]
    BY <1>4 DEF Count
  <2> QED BY <1>1, <1>3, <2>1 DEF WindowType, NotRefused, Time
<1>8. ASSUME NEW k \in Logins
      PROVE  InOrder(events[k])' /\ Logged(k)' /\ WaitEnds(k)'
  <2>1. CASE k = l
    <3>1. InOrder(events[k])'
      BY <1>1, <1>3, <1>5, <2>1 DEF InOrder
    <3>2. \A t \in Time : t + Window >= now => LastSince(events'[l], attempts'[l][t], t)
      BY <1>2, <1>3, <1>4, <1>5
    <3>3. Logged(k)'
      BY <1>1, <2>1, <3>2 DEF Logged, LastSince, Time
    <3> QED BY <1>5, <2>1, <3>1, <3>3 DEF WaitEnds
  <2>2. CASE k # l
    BY <1>1, <1>6, <2>2 DEF WindowInv, InOrder, Logged, LastSince, WaitEnds, Time
  <2> QED BY <2>1, <2>2
<1> QED BY <1>7, <1>8 DEF WindowInv

\* A refused login leaves what is live, and is told when the first of it is old.
LEMMA RefusalKeepsWindow ==
  ASSUME WindowInv, NEW c \in Clients, NEW l \in Logins, LoginRefused(c, l)
  PROVE  WindowInv'
<1> DEFINE first == Head(Live(l))
           told == Told(loginPatience[l], first + Window - now)
<1>1. /\ WindowType /\ UNCHANGED <<now, attempts>>
      /\ events' = [events EXCEPT ![l] = Live(l)]
      /\ loginPatience' = [loginPatience EXCEPT ![l] = told]
      /\ Len(Live(l)) >= WindowEvents
  BY DEF LoginRefused, WindowInv
<1>2. /\ Live(l) \in Seq(Time) /\ InOrder(Live(l)) /\ Len(Live(l)) \in Nat
      /\ \A t \in Time : t + Window >= now => LastSince(Live(l), attempts[l][t], t)
  BY LiveKeeps
<1>3. /\ now \in Nat /\ Window \in Nat /\ WindowEvents \in Nat \ {0}
      /\ loginPatience[l] \in Nat /\ Len(events[l]) \in Nat
  BY <1>1, WindowNumbers DEF WindowType
<1>4. /\ Evicted(l) \in 0 .. Len(events[l])
      /\ Evicted(l) < Len(events[l]) => events[l][Evicted(l) + 1] + Window >= now
      /\ Len(Live(l)) = Len(events[l]) - Evicted(l)
      /\ \A i \in 1 .. Len(Live(l)) : Live(l)[i] = events[l][i + Evicted(l)]
  BY <1>1, EvictedStops, LiveIsSuffix
<1>5. first = Live(l)[1] /\ first \in Nat /\ first + Window >= now
  <2>1. 1 \in 1 .. Len(Live(l)) /\ Evicted(l) < Len(events[l])
    BY <1>1, <1>2, <1>3, <1>4
  <2>2. Live(l)[1] = events[l][Evicted(l) + 1]
    BY <1>3, <1>4, <2>1
  <2>3. Live(l)[1] \in Nat
    BY <1>2, <2>1, ElementOfSeq, TimeIsNat
  <2>4. first = Live(l)[1]
    BY <1>2, <2>1
  <2> QED BY <1>4, <2>1, <2>2, <2>3, <2>4
<1> HIDE DEF first
<1>6. told \in Nat /\ first + Window <= told
  <2>1. CASE loginPatience[l] = NotRefused
    <3>1. PICK h : h = Header(first + Window - now) /\ h \in Nat /\ h >= first + Window - now
      <4>1. first + Window - now \in Nat
        BY <1>3, <1>5
      <4> QED BY <4>1, HeaderCovers
    <3>2. told = now + h
      BY <2>1, <3>1 DEF Told
    <3> QED BY <1>3, <1>5, <3>1, <3>2
  <2>2. CASE loginPatience[l] # NotRefused
    <3>1. told = loginPatience[l]
      BY <2>2 DEF Told
    <3>2. Evicted(l) = 0 /\ Len(events[l]) >= WindowEvents
      BY <1>1, <1>2, <1>3, <1>4 DEF WindowInv, InOrder
    <3>3. Live(l)[1] = events[l][1]
      BY <1>1, <1>2, <1>3, <1>4, <3>2
    <3> QED BY <1>3, <1>5, <2>2, <3>1, <3>2, <3>3 DEF WindowInv, WaitEnds
  <2> QED BY <2>1, <2>2
<1> HIDE DEF told
<1>7. /\ events'[l] = Live(l) /\ loginPatience'[l] = told
      /\ \A k \in Logins \ {l} : events'[k] = events[k] /\ loginPatience'[k] = loginPatience[k]
  BY <1>1 DEF WindowType
<1>8. WindowType'
  BY <1>1, <1>2, <1>6 DEF WindowType, Time
<1>9. ASSUME NEW k \in Logins
      PROVE  InOrder(events[k])' /\ Logged(k)' /\ WaitEnds(k)'
  <2>1. CASE k = l
    <3>1. InOrder(events[k])' /\ Logged(k)'
      BY <1>1, <1>2, <1>7, <2>1 DEF InOrder, Logged, LastSince, Time
    <3>2. WaitEnds(k)'
      BY <1>5, <1>6, <1>7, <2>1 DEF WaitEnds
    <3> QED BY <3>1, <3>2
  <2>2. CASE k # l
    BY <1>1, <1>7, <2>2 DEF WindowInv, InOrder, Logged, LastSince, WaitEnds, Time
  <2> QED BY <2>1, <2>2
<1> QED BY <1>8, <1>9 DEF WindowInv

\* A step that leaves the window alone, and may let time pass: fewer moments are
\* within it, and nothing was admitted at the new one.
LEMMA OtherKeepsWindow ==
  ASSUME WindowInv, UNCHANGED windowVars, now' = now \/ (now < MaxTime /\ now' = now + 1)
  PROVE  WindowInv'
<1>1. UNCHANGED <<events, attempts, loginPatience>> /\ WindowType
  BY DEF windowVars, WindowInv
<1>2. now \in Nat /\ now' \in Time /\ now' \in Nat /\ now <= now' /\ Window \in Nat
  BY <1>1, WindowNumbers, TimeIsNat, ClockAssumption DEF WindowType, Time
<1>3. WindowType'
  BY <1>1, <1>2 DEF WindowType, Time
<1>4. ASSUME NEW l \in Logins
      PROVE  InOrder(events[l])' /\ Logged(l)' /\ WaitEnds(l)'
  <2>1. InOrder(events[l]) /\ Logged(l) /\ WaitEnds(l)
    BY DEF WindowInv
  <2>2. InOrder(events[l])'
    <3>1. \A i \in 1 .. Len(events[l]) : events[l][i] \in Nat
      BY <1>1, WindowNumbers
    <3> QED BY <1>1, <1>2, <2>1, <3>1 DEF InOrder
  <2>3. ASSUME NEW t \in Time, t + Window >= now'
        PROVE  LastSince(events[l], attempts[l][t], t)
    <3>1. t + Window >= now
      BY <1>2, <2>3, TimeIsNat
    <3> QED BY <2>1, <3>1 DEF Logged
  <2>4. Logged(l)'
    BY <1>1, <2>3 DEF Logged, LastSince, Time
  <2>5. WaitEnds(l)'
    BY <1>1, <2>1 DEF WaitEnds
  <2> QED BY <2>2, <2>4, <2>5
<1> QED BY <1>3, <1>4 DEF WindowInv

LEMMA WindowHolds == Spec => []WindowInv
<1>1. Init => WindowInv
  <2> SUFFICES ASSUME Init PROVE WindowInv
    OBVIOUS
  <2>1. WindowType
    BY TimeIsNat DEF Init, WindowType, NotRefused
  <2>2. ASSUME NEW l \in Logins
        PROVE  InOrder(events[l]) /\ Logged(l) /\ WaitEnds(l)
    <3>1. events[l] = <<>> /\ Len(events[l]) = 0 /\ loginPatience[l] = NotRefused
          /\ \A t \in Time : attempts[l][t] = 0
      BY DEF Init
    <3>2. WindowEvents \in Nat
      BY <2>1, WindowNumbers
    <3> QED BY <3>1, <3>2 DEF InOrder, Logged, LastSince, WaitEnds
  <2> QED BY <2>1, <2>2 DEF WindowInv
<1>2. WindowInv /\ [Next]_vars => WindowInv'
  <2> SUFFICES ASSUME WindowInv, [Next]_vars PROVE WindowInv'
    OBVIOUS
  <2>1. CASE UNCHANGED <<now, windowVars>>
    BY <2>1, OtherKeepsWindow
  <2>2. CASE Tick
    BY <2>2, OtherKeepsWindow DEF Tick
  <2> QED
    BY <2>1, <2>2, AdmissionKeepsWindow, RefusalKeepsWindow DEF Next, Admit, Refuse, vars
<1> QED BY <1>1, <1>2, PTL DEF Spec

\* Within any window no key has more logins admitted than max_events, for any
\* window, number of events and pattern of logins (SlidingWindowLimiter.allow).
THEOREM LoginsAreBounded == Spec => []LoginsBounded
<1>1. WindowInv => LoginsBounded
  <2> SUFFICES ASSUME WindowInv, NEW l \in Logins, NEW t \in 0 .. now, now - t <= Window
               PROVE  attempts[l][t] <= WindowEvents
    BY DEF LoginsBounded
  <2>1. /\ now \in Nat /\ now \in Time /\ Window \in Nat /\ WindowEvents \in Nat
        /\ Len(events[l]) \in Nat
    BY WindowNumbers DEF WindowInv, WindowType
  <2>2. t \in Time /\ t + Window >= now
    BY <2>1, TimeIsNat DEF Time
  <2>3. attempts[l][t] \in Nat /\ attempts[l][t] <= Len(events[l]) /\ Len(events[l]) <= WindowEvents
    BY <2>2 DEF WindowInv, WindowType, Logged, LastSince, InOrder
  <2> QED BY <2>1, <2>3
<1> QED BY <1>1, WindowHolds, PTL

\* A login is refused only when that many were admitted within the window.
THEOREM LoginsAreNotShorted == Spec => []LoginsNotShorted
<1>1. WindowInv => LoginsNotShorted
  <2> SUFFICES ASSUME WindowInv, NEW l \in Logins, Len(Live(l)) >= WindowEvents
               PROVE  attempts[l][IF now < Window THEN 0 ELSE now - Window] >= WindowEvents
    BY DEF LoginsNotShorted
  <2> DEFINE t == IF now < Window THEN 0 ELSE now - Window
  <2>1. /\ WindowType /\ now \in Nat /\ now \in Time /\ Window \in Nat /\ WindowEvents \in Nat \ {0}
        /\ Len(events[l]) \in Nat /\ \A i \in 1 .. Len(events[l]) : events[l][i] \in Nat
    BY WindowNumbers DEF WindowInv, WindowType
  <2>2. t \in Time /\ t \in Nat /\ t + Window >= now /\ (t = 0 \/ t + Window = now)
    BY <2>1, TimeIsNat DEF Time
  <2> HIDE DEF t
  <2>3. /\ Evicted(l) \in 0 .. Len(events[l])
        /\ Evicted(l) < Len(events[l]) => events[l][Evicted(l) + 1] + Window >= now
        /\ Len(Live(l)) = Len(events[l]) - Evicted(l)
        /\ Len(Live(l)) \in Nat /\ Live(l)[1] = events[l][1 + Evicted(l)]
    BY <2>1, EvictedStops, LiveIsSuffix, LiveKeeps
  <2>4. attempts[l][t] \in Nat /\ LastSince(Live(l), attempts[l][t], t)
    BY <2>1, <2>2, LiveKeeps DEF WindowType
  <2>5. 1 \in 1 .. Len(Live(l)) /\ Evicted(l) < Len(events[l]) /\ Evicted(l) + 1 \in 1 .. Len(events[l])
    BY <2>1, <2>3
  <2>6. Live(l)[1] >= t
    <3>1. Live(l)[1] = events[l][Evicted(l) + 1] /\ Live(l)[1] \in Nat
      BY <2>1, <2>3, <2>5
    <3> QED BY <2>1, <2>2, <2>3, <2>5, <3>1
  <2>7. 1 > Len(Live(l)) - attempts[l][t]
    BY <2>4, <2>5, <2>6 DEF LastSince
  <2>8. attempts[l][t] >= WindowEvents
    BY <2>1, <2>3, <2>4, <2>7
  <2> QED BY <2>8 DEF t
<1> QED BY <1>1, WindowHolds, PTL

\* Past its first Retry-After a login is let through by the window, whatever was
\* tried in between and however the header was rounded.
THEOREM LoginRetriesAreAdmitted == Spec => []LoginRetryAdmitted
<1>1. WindowInv => LoginRetryAdmitted
  <2> SUFFICES ASSUME WindowInv, NEW l \in Logins,
                      loginPatience[l] # NotRefused, now > loginPatience[l],
                      ~(Len(Live(l)) < WindowEvents)
               PROVE  FALSE
    BY DEF LoginRetryAdmitted
  <2>1. /\ WindowType /\ now \in Nat /\ Window \in Nat /\ WindowEvents \in Nat \ {0}
        /\ loginPatience[l] \in Nat
        /\ Len(events[l]) \in Nat /\ \A i \in 1 .. Len(events[l]) : events[l][i] \in Nat
    BY WindowNumbers DEF WindowInv, WindowType
  <2>2. /\ Evicted(l) \in 0 .. Len(events[l])
        /\ Evicted(l) < Len(events[l]) => events[l][Evicted(l) + 1] + Window >= now
        /\ Len(Live(l)) = Len(events[l]) - Evicted(l)
    BY <2>1, EvictedStops, LiveIsSuffix
  <2>3. Evicted(l) = 0 /\ Len(events[l]) >= WindowEvents
    BY <2>1, <2>2 DEF WindowInv, InOrder
  <2>4. events[l][1] + Window >= now /\ events[l][1] \in Nat
    BY <2>1, <2>2, <2>3
  <2>5. events[l][1] + Window <= loginPatience[l]
    BY <2>3 DEF WindowInv, WaitEnds
  <2> QED BY <2>1, <2>4, <2>5
<1> QED BY <1>1, WindowHolds, PTL

\* Every variable keeps its type, and no log holds more than max_events.
THEOREM LimiterTypeCorrect == Spec => []TypeOK
<1>1. Balance /\ PromiseKept /\ WindowInv => TypeOK
  BY DEF Balance, BucketType, PromiseKept, WindowInv, WindowType, InOrder, TypeOK
<1> QED BY <1>1, BalanceHolds, WindowHolds, PTL
=============================================================================
