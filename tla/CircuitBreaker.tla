--------------------------- MODULE CircuitBreaker ---------------------------
(***************************************************************************)
(* The circuit breaker that reservation_service (mi-servicio) keeps in     *)
(* front of each dependency: one struct guarded by a mutex, shared by all  *)
(* the gRPC handlers and notification goroutines that call the dependency. *)
(*                                                                         *)
(* Execute() is two critical sections with the RPC between them, allow()   *)
(* before and recordSuccess() or recordFailure() after, so the calls that  *)
(* were admitted in one state of the breaker report their result in        *)
(* another.  Each element of Calls is a slot of a goroutine that goes      *)
(* through Execute any number of times.                                    *)
(*                                                                         *)
(* Time is discrete.  openedAt is represented by sinceOpened, the value of *)
(* time.Since(openedAt) saturated at OpenDuration, the only bound allow()  *)
(* compares it with.  An admitted call runs under a context deadline of    *)
(* CallTimeout (context.WithTimeout in main.go), so Tick never lets a call *)
(* grow older than that.                                                   *)
(***************************************************************************)
EXTENDS Naturals, FiniteSets

CONSTANTS
  Calls,             \* slots of goroutines that go through Execute
  FailureThreshold,  \* failureThreshold, 5 in main.go
  OpenDuration,      \* openDuration, 15 s in main.go
  CallTimeout        \* deadline of the guarded RPC, 3 s or 5 s in main.go

ASSUME ThresholdAssumption == FailureThreshold \in Nat \ {0}

\* The deployed parameters: 3 s and 5 s deadlines against 15 s open.
ASSUME TimingAssumption ==
  /\ OpenDuration \in Nat
  /\ CallTimeout \in Nat \ {0}
  /\ CallTimeout < OpenDuration

VARIABLES
  state,                \* CLOSED, OPEN or HALF_OPEN
  consecutiveFailures,  \* the counter compared with failureThreshold
  sinceOpened,          \* time.Since(openedAt), saturated
  halfOpenInFlight,     \* a trial call has been let through
  phase,                \* of each call: not in Execute, regular, or trial
  age                   \* time since a running call was admitted

breakerVars == <<state, consecutiveFailures, sinceOpened, halfOpenInFlight>>
vars == <<breakerVars, phase, age>>

CircuitState == {"CLOSED", "OPEN", "HALF_OPEN"}
Phase == {"idle", "regular", "trial"}

Running == {c \in Calls : phase[c] # "idle"}
Trials == {c \in Calls : phase[c] = "trial"}

Init ==
  /\ state = "CLOSED"
  /\ consecutiveFailures = 0
  /\ sinceOpened = OpenDuration     \* openedAt is the zero time
  /\ halfOpenInFlight = FALSE
  /\ phase = [c \in Calls |-> "idle"]
  /\ age = [c \in Calls |-> 0]

-----------------------------------------------------------------------------
(* allow() *)

AdmitsEveryHalfOpenCall ==  \* mutant: the in-flight flag is not looked at
  \/ state = "CLOSED" \/ state = "HALF_OPEN"
  \/ state = "OPEN" /\ sinceOpened >= OpenDuration

AdmitsWithoutCooling ==  \* mutant: openDuration is not waited for
  \/ state = "CLOSED" \/ state = "OPEN"
  \/ state = "HALF_OPEN" /\ ~halfOpenInFlight

\* The breaker lets a call through: always when CLOSED, after openDuration
\* when OPEN, and when no trial call is out in HALF_OPEN.
Admits ==
  \/ state = "CLOSED"
  \/ state = "OPEN" /\ sinceOpened >= OpenDuration
  \/ state = "HALF_OPEN" /\ ~halfOpenInFlight

\* allow() returns true and the RPC starts.  A rejected call (ErrCircuitOpen)
\* changes nothing, so it is a stuttering step.
Allow(c) ==
  /\ phase[c] = "idle"
  /\ Admits
  /\ state' = IF state = "OPEN" THEN "HALF_OPEN" ELSE state
  /\ halfOpenInFlight' = (halfOpenInFlight \/ state # "CLOSED")
  /\ phase' = [phase EXCEPT ![c] = IF state = "CLOSED" THEN "regular" ELSE "trial"]
  /\ age' = [age EXCEPT ![c] = 0]
  /\ UNCHANGED <<consecutiveFailures, sinceOpened>>

-----------------------------------------------------------------------------
(* recordSuccess() and recordFailure() *)

\* The RPC has returned; both functions clear the flag first.
Finish(c) ==
  /\ phase[c] # "idle"
  /\ phase' = [phase EXCEPT ![c] = "idle"]
  /\ age' = [age EXCEPT ![c] = 0]
  /\ halfOpenInFlight' = FALSE

TransitionKeepingCounter(to, counter) ==  \* mutant: CLOSED keeps the counter
  /\ state' = to
  /\ sinceOpened' = IF to = "OPEN" THEN 0 ELSE sinceOpened
  /\ consecutiveFailures' = counter

TransitionKeepingOpenedAt(to, counter) ==  \* mutant: openedAt is not set
  /\ state' = to
  /\ consecutiveFailures' = IF to = "CLOSED" THEN 0 ELSE counter
  /\ UNCHANGED sinceOpened

\* transitionLocked(to) with the counter the caller hands it.
Transition(to, counter) ==
  /\ state' = to
  /\ sinceOpened' = IF to = "OPEN" THEN 0 ELSE sinceOpened
  /\ consecutiveFailures' = IF to = "CLOSED" THEN 0 ELSE counter

\* The RPC returned no error.  In CLOSED the counter is left as it is.
RecordSuccess(c) ==
  /\ Finish(c)
  /\ IF state # "CLOSED"
       THEN Transition("CLOSED", consecutiveFailures)
       ELSE UNCHANGED <<state, sinceOpened, consecutiveFailures>>

\* A failure that is not a trial's: counted, and CLOSED opens at the threshold.
CountFailure ==
  LET counter == consecutiveFailures + 1
  IN IF state = "CLOSED" /\ counter >= FailureThreshold
       THEN Transition("OPEN", counter)
       ELSE consecutiveFailures' = counter /\ UNCHANGED <<state, sinceOpened>>

RecordFailureStayingHalfOpen(c) ==  \* mutant: the early return forgets OPEN
  /\ Finish(c)
  /\ IF state = "HALF_OPEN"
       THEN UNCHANGED <<state, sinceOpened, consecutiveFailures>>
       ELSE CountFailure

\* The RPC returned an error, a business one (no stock, unknown user) or a
\* transport one alike.
RecordFailure(c) ==
  /\ Finish(c)
  /\ IF state = "HALF_OPEN"
       THEN Transition("OPEN", consecutiveFailures)
       ELSE CountFailure

-----------------------------------------------------------------------------
(* Time *)

\* Time passes for the opening and for every call that runs.
Tick ==
  /\ \A c \in Running : age[c] < CallTimeout
  /\ Running # {} \/ sinceOpened < OpenDuration
  /\ sinceOpened' = IF sinceOpened < OpenDuration THEN sinceOpened + 1 ELSE sinceOpened
  /\ age' = [c \in Calls |-> IF phase[c] # "idle" THEN age[c] + 1 ELSE age[c]]
  /\ UNCHANGED <<state, consecutiveFailures, halfOpenInFlight, phase>>

Next ==
  \/ \E c \in Calls : Allow(c) \/ RecordSuccess(c) \/ RecordFailure(c)
  \/ Tick

Spec == Init /\ [][Next]_vars

\* Time passes and every RPC returns, at the latest at its deadline.
Progress == WF_vars(Tick) /\ \A c \in Calls : WF_vars(RecordSuccess(c) \/ RecordFailure(c))

\* Some goroutine asks for the dependency whenever the breaker would admit
\* it: reservations keep arriving.
Traffic == WF_vars(\E c \in Calls : Allow(c))

FairSpec == Spec /\ Progress /\ Traffic

-----------------------------------------------------------------------------
(* Properties *)

TypeOK ==
  /\ state \in CircuitState
  /\ consecutiveFailures \in Nat
  /\ sinceOpened \in 0 .. OpenDuration
  /\ halfOpenInFlight \in BOOLEAN
  /\ phase \in [Calls -> Phase]
  /\ age \in [Calls -> 0 .. CallTimeout]

\* While the breaker is HALF_OPEN the dependency sees exactly one call, the
\* trial: no second trial, and no call left over from before the opening that
\* could report in the trial's place (circuitbreaker.go:12-14, "una sola
\* llamada de prueba").
HalfOpenExclusive ==
  state = "HALF_OPEN" =>
    /\ halfOpenInFlight
    /\ \E c \in Calls : Running = {c} /\ Trials = {c}

\* Outside HALF_OPEN no trial is marked in flight: a leaked flag would make
\* the next half-open period reject every call.
NoLeakedTrial ==
  state # "HALF_OPEN" => ~halfOpenInFlight /\ Trials = {}

\* A CLOSED breaker is always below its threshold, also just after it has
\* recovered: late failures counted while it was OPEN do not carry over and
\* reopen it at the first error.
ClosedBelowThreshold ==
  state = "CLOSED" => consecutiveFailures < FailureThreshold

\* Only the trial call moves the breaker out of HALF_OPEN.
TrialDecides ==
  [][ (state = "HALF_OPEN" /\ state' # "HALF_OPEN")
        => \E c \in Trials : phase'[c] = "idle" ]_vars

\* An OPEN breaker goes back to CLOSED without a trial only on the late
\* success of a call admitted before it opened, hence within CallTimeout of
\* the opening; from then on only a trial closes it.
LateCloseWindow ==
  [][ (state = "OPEN" /\ state' = "CLOSED") => sinceOpened <= CallTimeout ]_vars

\* Once it is cooling down the breaker does not stay OPEN for ever: as long
\* as calls keep coming one of them is let through, and the half-open period
\* it starts ends with a verdict.
RecoveryIsTried ==
  /\ (state = "OPEN") ~> (state # "OPEN")
  /\ (state = "HALF_OPEN") ~> (state # "HALF_OPEN")
=============================================================================
