------------------------ MODULE CircuitBreakerProofs ------------------------
(***************************************************************************)
(* The safety of the circuit breaker for any number of callers, any        *)
(* threshold and any durations with CallTimeout < OpenDuration.            *)
(*                                                                         *)
(* The argument: every call that is running while the breaker is OPEN was  *)
(* admitted before it opened, so it is at least as old as the opening      *)
(* (StaleCallsAreOlder).  No call grows older than CallTimeout, which is   *)
(* less than OpenDuration, so none is left when the breaker becomes        *)
(* HALF_OPEN and the trial call is alone.                                  *)
(***************************************************************************)
EXTENDS CircuitBreaker, TLAPS

\* The strengthening that makes HalfOpenExclusive inductive.
StaleCallsAreOlder ==
  state = "OPEN" => \A c \in Running : sinceOpened <= age[c]

IInv ==
  /\ TypeOK
  /\ HalfOpenExclusive
  /\ NoLeakedTrial
  /\ ClosedBelowThreshold
  /\ StaleCallsAreOlder

\* The breaker NewCircuitBreaker returns has the types of TypeOK.
LEMMA InitTypeOK == Init => TypeOK
<1> SUFFICES ASSUME Init PROVE TypeOK
  OBVIOUS
<1> USE DEF Init
<1>1. halfOpenInFlight \in BOOLEAN
  OBVIOUS
<1>2. /\ state \in CircuitState
      /\ consecutiveFailures \in Nat /\ sinceOpened \in 0 .. OpenDuration
      /\ phase \in [Calls -> Phase] /\ age \in [Calls -> 0 .. CallTimeout]
  BY ThresholdAssumption, TimingAssumption
  DEF ThresholdAssumption, TimingAssumption, CircuitState, Phase
<1> QED
  BY <1>1, <1>2 DEF TypeOK

\* The variables keep their types: the counter is a natural number, the
\* clocks stay within OpenDuration and CallTimeout.
THEOREM TypeCorrect == Spec => []TypeOK
<1> USE ThresholdAssumption, TimingAssumption DEF ThresholdAssumption, TimingAssumption
<1>1. Init => TypeOK
  BY InitTypeOK
<1>2. TypeOK /\ [Next]_vars => TypeOK'
  <2> SUFFICES ASSUME TypeOK, [Next]_vars
               PROVE  TypeOK'
    OBVIOUS
  <2>1. halfOpenInFlight' \in BOOLEAN
    BY DEF TypeOK, Next, Allow, RecordSuccess, RecordFailure, Finish, Tick, vars, breakerVars
  <2>2. /\ state' \in CircuitState
        /\ consecutiveFailures' \in Nat /\ sinceOpened' \in 0 .. OpenDuration
        /\ phase' \in [Calls -> Phase] /\ age' \in [Calls -> 0 .. CallTimeout]
    <3> USE DEF TypeOK, CircuitState, Phase
    <3>1. ASSUME NEW c \in Calls, Allow(c)
          PROVE  <2>2!:
      BY <3>1 DEF Allow
    <3>2. ASSUME NEW c \in Calls, RecordSuccess(c)
          PROVE  <2>2!:
      BY <3>2 DEF RecordSuccess, Finish, Transition
    <3>3. ASSUME NEW c \in Calls, RecordFailure(c)
          PROVE  <2>2!:
      BY <3>3 DEF RecordFailure, CountFailure, Finish, Transition
    <3>4. CASE Tick
      BY <3>4 DEF Tick, Running
    <3>5. CASE UNCHANGED vars
      BY <3>5 DEF vars, breakerVars
    <3> QED
      BY <3>1, <3>2, <3>3, <3>4, <3>5 DEF Next
  <2> QED
    BY <2>1, <2>2 DEF TypeOK
<1> QED
  BY <1>1, <1>2, PTL DEF Spec

\* Every conjunct of the inductive invariant holds initially.
LEMMA InitEstablishes == Init => IInv
<1> SUFFICES ASSUME Init PROVE IInv
  OBVIOUS
<1>1. state = "CLOSED" /\ ~halfOpenInFlight /\ Trials = {} /\ consecutiveFailures = 0
  BY DEF Init, Trials
<1>2. 0 < FailureThreshold
  BY ThresholdAssumption DEF ThresholdAssumption
<1> QED
  BY <1>1, <1>2, InitTypeOK DEF IInv, HalfOpenExclusive, NoLeakedTrial,
      ClosedBelowThreshold, StaleCallsAreOlder

\* An OPEN breaker that has cooled down has no call running.
LEMMA CooledDownIsQuiet ==
  ASSUME IInv, state = "OPEN", sinceOpened >= OpenDuration
  PROVE  Running = {}
  BY TimingAssumption DEF IInv, TypeOK, StaleCallsAreOlder, Running

\* allow() preserves the invariant.
LEMMA AllowPreserves ==
  ASSUME IInv, TypeOK', NEW c \in Calls, Allow(c)
  PROVE  IInv'
<1> USE DEF Allow, IInv, TypeOK
<1>1. CASE state = "CLOSED"
  BY <1>1 DEF HalfOpenExclusive, NoLeakedTrial, ClosedBelowThreshold,
              StaleCallsAreOlder, Running, Trials
<1>2. CASE state = "OPEN"
  <2>1. sinceOpened >= OpenDuration
    BY <1>2 DEF Admits
  <2>2. Running = {}
    BY <1>2, <2>1, CooledDownIsQuiet
  <2>3. Running' = {c} /\ Trials' = {c}
    BY <1>2, <2>2 DEF Running, Trials
  <2> QED
    BY <1>2, <2>3 DEF HalfOpenExclusive, NoLeakedTrial, ClosedBelowThreshold,
                      StaleCallsAreOlder
<1>3. CASE state = "HALF_OPEN"
  BY <1>3 DEF Admits, HalfOpenExclusive
<1> QED
  BY <1>1, <1>2, <1>3 DEF CircuitState

\* The part common to recordSuccess() and recordFailure(): fewer calls run,
\* and no trial is left.
LEMMA FinishLeaves ==
  ASSUME IInv, NEW c \in Calls, Finish(c)
  PROVE  /\ Running' = Running \ {c}
         /\ Trials' = {}
         /\ \A d \in Running' : age'[d] = age[d]
         /\ state = "HALF_OPEN" => Running' = {}
<1> USE DEF Finish, IInv, TypeOK, Running, Trials
<1>1. Running' = Running \ {c} /\ \A d \in Running' : age'[d] = age[d]
  OBVIOUS
<1>2. CASE state = "HALF_OPEN"
  <2>1. PICK t \in Calls : Running = {t} /\ Trials = {t}
    BY <1>2 DEF HalfOpenExclusive
  <2>2. t = c
    BY <2>1
  <2> QED
    BY <1>1, <2>1, <2>2
<1>3. CASE state # "HALF_OPEN"
  BY <1>1, <1>3 DEF NoLeakedTrial
<1> QED
  BY <1>1, <1>2, <1>3

\* recordSuccess() preserves the invariant.
LEMMA RecordSuccessPreserves ==
  ASSUME IInv, TypeOK', NEW c \in Calls, RecordSuccess(c)
  PROVE  IInv'
<1>1. Finish(c)
  BY DEF RecordSuccess
<1>2. state' = "CLOSED" /\ ~halfOpenInFlight'
  BY DEF RecordSuccess, Finish, Transition
<1>3. consecutiveFailures' < FailureThreshold
  BY ThresholdAssumption DEF RecordSuccess, Transition, IInv, ClosedBelowThreshold
<1> QED
  BY <1>1, <1>2, <1>3, FinishLeaves
  DEF IInv, HalfOpenExclusive, NoLeakedTrial, ClosedBelowThreshold, StaleCallsAreOlder

\* recordFailure() preserves the invariant.
LEMMA RecordFailurePreserves ==
  ASSUME IInv, TypeOK', NEW c \in Calls, RecordFailure(c)
  PROVE  IInv'
<1> USE ThresholdAssumption
<1>1. Finish(c) /\ ~halfOpenInFlight'
  BY DEF RecordFailure, Finish
<1>2. /\ Running' = Running \ {c}
      /\ Trials' = {}
      /\ \A d \in Running' : age'[d] = age[d]
      /\ state = "HALF_OPEN" => Running' = {}
  BY <1>1, FinishLeaves
<1>3. state' \in {"CLOSED", "OPEN"}
  BY DEF RecordFailure, CountFailure, Transition, IInv, TypeOK, CircuitState
<1>4. ClosedBelowThreshold'
  BY DEF RecordFailure, CountFailure, Transition, IInv, TypeOK, CircuitState,
         ClosedBelowThreshold
<1>5. StaleCallsAreOlder'
  <2> SUFFICES ASSUME state' = "OPEN", NEW d \in Running'
               PROVE  sinceOpened' <= age'[d]
    BY DEF StaleCallsAreOlder
  <2>1. d \in Running /\ age'[d] = age[d] /\ age[d] \in Nat
    BY <1>2, TimingAssumption DEF IInv, TypeOK, Running
  <2>2. CASE state = "OPEN"
    BY <2>1, <2>2 DEF RecordFailure, CountFailure, IInv, StaleCallsAreOlder
  <2>3. CASE state # "OPEN"
    <3>1. sinceOpened' = 0
      BY <2>3 DEF RecordFailure, CountFailure, Transition, IInv, TypeOK, CircuitState
    <3> QED
      BY <2>1, <3>1
  <2> QED
    BY <2>2, <2>3
<1> QED
  BY <1>1, <1>2, <1>3, <1>4, <1>5 DEF IInv, HalfOpenExclusive, NoLeakedTrial

\* The passing of time preserves the invariant: every clock that matters
\* advances by one.
LEMMA TickPreserves ==
  ASSUME IInv, TypeOK', Tick
  PROVE  IInv'
<1>1. Running' = Running /\ Trials' = Trials
  BY DEF Tick, Running, Trials
<1>2. StaleCallsAreOlder'
  BY <1>1, TimingAssumption DEF Tick, IInv, TypeOK, StaleCallsAreOlder, Running
<1> QED
  BY <1>1, <1>2 DEF Tick, IInv, HalfOpenExclusive, NoLeakedTrial, ClosedBelowThreshold

\* The inductive invariant holds in every reachable state.
THEOREM Invariant == Spec => []IInv
<1>1. Init => IInv
  BY InitEstablishes
<1>2. IInv /\ TypeOK' /\ [Next]_vars => IInv'
  <2> SUFFICES ASSUME IInv, TypeOK', [Next]_vars
               PROVE  IInv'
    OBVIOUS
  <2>1. CASE UNCHANGED vars
    BY <2>1 DEF vars, breakerVars, IInv, TypeOK, HalfOpenExclusive, NoLeakedTrial,
                ClosedBelowThreshold, StaleCallsAreOlder, Running, Trials
  <2> QED
    BY <2>1, AllowPreserves, RecordSuccessPreserves, RecordFailurePreserves,
       TickPreserves DEF Next
<1> QED
  BY <1>1, <1>2, TypeCorrect, PTL DEF Spec

\* In HALF_OPEN the trial is the only call the dependency sees
\* (circuitbreaker.go:12-14 and 98-124).
THEOREM HalfOpenIsExclusive == Spec => []HalfOpenExclusive
<1>1. IInv => HalfOpenExclusive
  BY DEF IInv
<1> QED
  BY <1>1, Invariant, PTL

\* halfOpenInFlight never stays set outside HALF_OPEN.
THEOREM TrialIsNotLeaked == Spec => []NoLeakedTrial
<1>1. IInv => NoLeakedTrial
  BY DEF IInv
<1> QED
  BY <1>1, Invariant, PTL

\* A recovered breaker starts from a counter below its threshold.
THEOREM ClosedIsBelowThreshold == Spec => []ClosedBelowThreshold
<1>1. IInv => ClosedBelowThreshold
  BY DEF IInv
<1> QED
  BY <1>1, Invariant, PTL

\* Only the trial's result takes the breaker out of HALF_OPEN.
THEOREM OnlyTheTrialDecides == Spec => TrialDecides
<1>1. ASSUME IInv, [Next]_vars, state = "HALF_OPEN", state' # "HALF_OPEN"
      PROVE  \E c \in Trials : phase'[c] = "idle"
  <2>1. PICK t \in Calls : Running = {t} /\ Trials = {t}
    BY <1>1 DEF IInv, HalfOpenExclusive
  <2>2. PICK c \in Calls : Finish(c)
    BY <1>1 DEF Next, Allow, Tick, RecordSuccess, RecordFailure, vars, breakerVars
  <2>3. c = t
    BY <2>1, <2>2 DEF Finish, Running
  <2>4. phase'[c] = "idle"
    BY <1>1, <2>2 DEF Finish, IInv, TypeOK
  <2> QED
    BY <2>1, <2>3, <2>4
<1>2. IInv /\ [Next]_vars
        => [ (state = "HALF_OPEN" /\ state' # "HALF_OPEN")
               => \E c \in Trials : phase'[c] = "idle" ]_vars
  BY <1>1
<1> QED
  BY <1>2, Invariant, PTL DEF Spec, TrialDecides

\* A late success closes an OPEN breaker only within CallTimeout of the
\* opening.
THEOREM LateCloseIsBounded == Spec => LateCloseWindow
<1>1. ASSUME IInv, [Next]_vars, state = "OPEN", state' = "CLOSED"
      PROVE  sinceOpened <= CallTimeout
  <2>1. PICK c \in Calls : Finish(c)
    BY <1>1 DEF Next, Allow, Tick, RecordSuccess, RecordFailure, vars, breakerVars
  <2>2. c \in Running
    BY <2>1 DEF Finish, Running
  <2> QED
    BY <1>1, <2>2, TimingAssumption DEF IInv, TypeOK, StaleCallsAreOlder
<1>2. IInv /\ [Next]_vars
        => [ (state = "OPEN" /\ state' = "CLOSED") => sinceOpened <= CallTimeout ]_vars
  BY <1>1
<1> QED
  BY <1>2, Invariant, PTL DEF Spec, LateCloseWindow
=============================================================================
