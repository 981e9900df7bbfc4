----------------------------- MODULE RateLimiter -----------------------------
(***************************************************************************)
(* The two rate limiters of api-gateway: a token bucket for every HTTP     *)
(* request, by session token or IP, in a middleware, and behind it, for    *)
(* POST /login, a sliding window log by email and IP.                      *)
(*                                                                         *)
(* The gateway is one event loop and neither allow() awaits anything, so   *)
(* each is one step.  Time is discrete.  A token is worth TokenTicks, the  *)
(* ticks it takes to refill it, and the bucket counts ticks: so fractions  *)
(* of a token exist and arithmetic is exact, which Python's floats, off by *)
(* far less than a tick, are not.  A key that no dictionary holds yet is   *)
(* given the default, a full bucket and no events, from the start.         *)
(*                                                                         *)
(* A client that is refused reads the Retry-After header; patience is the  *)
(* moment named by the first refusal since it was last admitted.           *)
(***************************************************************************)
EXTENDS Naturals, Sequences

CONSTANTS
  Clients,         \* client_key(): session tokens, or IPs
  Logins,          \* keys of /login: email and IP
  Capacity,        \* capacity, 20 tokens
  TokenTicks,      \* ticks to refill a token; refill_per_second is 10
  WindowEvents,    \* max_events, 5
  Window,          \* window_seconds, 60, in ticks
  TicksPerSecond,
  MaxTime          \* bound: the last tick of a behaviour

ASSUME BucketAssumption == Capacity \in Nat \ {0} /\ TokenTicks \in Nat \ {0}
ASSUME WindowAssumption == WindowEvents \in Nat \ {0} /\ Window \in Nat \ {0}
ASSUME ClockAssumption == TicksPerSecond \in Nat \ {0} /\ MaxTime \in Nat

VARIABLES
  now,           \* time.monotonic()
  tokens,        \* _tokens of each client, in ticks
  lastRefill,    \* _last_refill
  events,        \* _events of each login key
  used,          \* history: ticks' worth of requests admitted since each moment
  attempts,      \* history: logins that reached user-service since each moment
  patience,      \* history: when a refused client was told to come back
  loginPatience  \* the same for the logins

bucketVars == <<tokens, lastRefill, used, patience>>
windowVars == <<events, attempts, loginPatience>>
vars == <<now, bucketVars, windowVars>>

Full == Capacity * TokenTicks
Time == 0 .. MaxTime
NotRefused == 0  \* no refusal names the moment 0

Init ==
  /\ now = 0
  /\ tokens = [c \in Clients |-> Full]
  /\ lastRefill = [c \in Clients |-> 0]
  /\ events = [l \in Logins |-> <<>>]
  /\ used = [c \in Clients |-> [t \in Time |-> 0]]
  /\ attempts = [l \in Logins |-> [t \in Time |-> 0]]
  /\ patience = [c \in Clients |-> NotRefused]
  /\ loginPatience = [l \in Logins |-> NotRefused]

\* A history counts n more from every moment up to now.
Count(history, n) == [t \in Time |-> IF t <= now THEN history[t] + n ELSE history[t]]

HeaderRoundedDown(ticks) ==  \* mutant: int() instead of math.ceil()
  TicksPerSecond * (ticks \div TicksPerSecond)

\* Retry-After: max(1, ceil(retry_after)) seconds, in ticks.
Header(ticks) ==
  LET seconds == (ticks + TicksPerSecond - 1) \div TicksPerSecond
  IN TicksPerSecond * (IF seconds < 1 THEN 1 ELSE seconds)

\* The first refusal since the last admission is the one the client goes by.
Told(moment, ticks) == IF moment = NotRefused THEN now + Header(ticks) ELSE moment

-----------------------------------------------------------------------------
(* TokenBucketLimiter.allow() *)

RefilledUncapped(c) ==  \* mutant: no min(capacity, ...)
  tokens[c] + (now - lastRefill[c])

Refilled(c) ==
  LET more == tokens[c] + (now - lastRefill[c]) IN IF more < Full THEN more ELSE Full

Take(c) ==
  /\ Refilled(c) >= TokenTicks
  /\ tokens' = [tokens EXCEPT ![c] = Refilled(c) - TokenTicks]
  /\ lastRefill' = [lastRefill EXCEPT ![c] = now]
  /\ used' = [used EXCEPT ![c] = Count(@, TokenTicks)]
  /\ patience' = [patience EXCEPT ![c] = NotRefused]

\* 429: what was refilled is kept.
Refuse(c) ==
  /\ Refilled(c) < TokenTicks
  /\ tokens' = [tokens EXCEPT ![c] = Refilled(c)]
  /\ lastRefill' = [lastRefill EXCEPT ![c] = now]
  /\ patience' = [patience EXCEPT ![c] = Told(@, TokenTicks - Refilled(c))]
  /\ UNCHANGED <<now, used, windowVars>>

\* Any route but /health, which is not counted, and /login.
Admit(c) == Take(c) /\ UNCHANGED <<now, windowVars>>

-----------------------------------------------------------------------------
(* SlidingWindowLimiter.allow(), for a request the bucket has admitted *)

EvictedHalfOpen(l) ==  \* mutant: events[0] <= window_start is evicted
  CHOOSE n \in 0 .. Len(events[l]) :
    /\ \A i \in 1 .. n : events[l][i] + Window <= now
    /\ n < Len(events[l]) => events[l][n + 1] + Window > now

\* How many events popleft() takes before one is not older than the window, or
\* none is left: one exactly a window old stays.
Evicted(l) ==
  CHOOSE n \in 0 .. Len(events[l]) :
    /\ \A i \in 1 .. n : events[l][i] + Window < now
    /\ n < Len(events[l]) => events[l][n + 1] + Window >= now

Live(l) == SubSeq(events[l], Evicted(l) + 1, Len(events[l]))

LoginAdmitted(c, l) ==
  /\ Take(c)
  /\ Len(Live(l)) < WindowEvents
  /\ events' = [events EXCEPT ![l] = Append(Live(l), now)]
  /\ attempts' = [attempts EXCEPT ![l] = Count(@, 1)]
  /\ loginPatience' = [loginPatience EXCEPT ![l] = NotRefused]
  /\ UNCHANGED now

LoginRefusedRecording(c, l) ==  \* mutant: refused attempts are logged too
  /\ Take(c)
  /\ Len(Live(l)) >= WindowEvents
  /\ events' = [events EXCEPT ![l] = Append(Live(l), now)]
  /\ loginPatience' = [loginPatience EXCEPT ![l] = Told(@, Head(Live(l)) + Window - now)]
  /\ UNCHANGED <<now, attempts>>

\* 429 from the endpoint: the token of the bucket is spent all the same.
LoginRefused(c, l) ==
  /\ Take(c)
  /\ Len(Live(l)) >= WindowEvents
  /\ events' = [events EXCEPT ![l] = Live(l)]
  /\ loginPatience' = [loginPatience EXCEPT ![l] = Told(@, Head(Live(l)) + Window - now)]
  /\ UNCHANGED <<now, attempts>>

Tick == now < MaxTime /\ now' = now + 1 /\ UNCHANGED <<bucketVars, windowVars>>

Next ==
  \/ \E c \in Clients :
       \/ Admit(c) \/ Refuse(c)
       \/ \E l \in Logins : LoginAdmitted(c, l) \/ LoginRefused(c, l)
  \/ Tick

Spec == Init /\ [][Next]_vars

-----------------------------------------------------------------------------
(* Properties *)

TypeOK ==
  /\ now \in Time
  /\ tokens \in [Clients -> 0 .. Full]
  /\ lastRefill \in [Clients -> Time] /\ \A c \in Clients : lastRefill[c] <= now
  /\ \A l \in Logins : events[l] \in Seq(Time) /\ Len(events[l]) <= WindowEvents
  /\ used \in [Clients -> [Time -> Nat]]
  /\ attempts \in [Logins -> [Time -> Nat]]
  /\ patience \in [Clients -> Nat] /\ loginPatience \in [Logins -> Nat]

\* Since any moment, a client has had no more requests admitted than a full
\* bucket and what was refilled since then pay for, however its bursts, pauses
\* and refusals fall (documento-bloque-resiliencia-entrega2.md:53).
RequestsBounded ==
  \A c \in Clients : \A t \in 0 .. now : used[c][t] <= Full + (now - t)

\* The bucket refuses a request only when admitting it would break that bound:
\* refusals cost a client nothing, and what was refilled is never lost.
RequestsNotShorted ==
  \A c \in Clients :
    Refilled(c) < TokenTicks => \E t \in 0 .. now : used[c][t] + TokenTicks > Full + (now - t)

\* A refused client that comes back when its first Retry-After is over is
\* admitted, whatever it tried in between.
RequestRetryAdmitted ==
  \A c \in Clients :
    patience[c] # NotRefused /\ now >= patience[c] => Refilled(c) >= TokenTicks

\* At most WindowEvents logins of a key within any Window, both ends included,
\* bursts across the eviction of older events not excepted.
LoginsBounded ==
  \A l \in Logins : \A t \in 0 .. now : now - t <= Window => attempts[l][t] <= WindowEvents

\* A login is refused by its window only when that many were admitted within it.
LoginsNotShorted ==
  \A l \in Logins :
    Len(Live(l)) >= WindowEvents =>
      attempts[l][IF now < Window THEN 0 ELSE now - Window] >= WindowEvents

\* Past its first Retry-After a login is let through by the window; refused
\* attempts do not move the end of the wait.  At the very moment it names the
\* event exactly one window old still counts, hence the strict comparison.
LoginRetryAdmitted ==
  \A l \in Logins :
    loginPatience[l] # NotRefused /\ now > loginPatience[l] => Len(Live(l)) < WindowEvents
=============================================================================
