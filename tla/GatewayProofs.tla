---------------------------- MODULE GatewayProofs ---------------------------
(***************************************************************************)
(* What a client of POST /reservations is told, for any requests, number   *)
(* of tries, stock and faults.  The gateway moves the saga only by the     *)
(* saga's own steps, so that everything proved of it holds of the          *)
(* composition; ToldIsBooked then rests on the saga's Answers.             *)
(***************************************************************************)
EXTENDS GatewayRetries, ReservationSagaProofs

\* Retries, abandoned tries and lost answers included, the service sees nothing
\* but executions of CreateReservation.
THEOREM GatewayDrivesSaga == GatewaySpec => Spec
<1>1. GatewayInit => Init
  BY DEF GatewayInit
<1>2. [GatewayNext]_<<vars, gatewayVars>> => [Next]_vars
  <2> SUFFICES ASSUME GatewayNext PROVE Next \/ UNCHANGED vars
    OBVIOUS
  <2> QED
    BY DEF GatewayNext, Service, SessionValidated, SessionRejected, Gateway, Call, Hear, Unreachable, Abandon
<1> QED BY <1>1, <1>2, PTL DEF GatewaySpec, Spec

\* The gateway's retries keep the promise of IdempotentBooking.
THEOREM RetriesImplementBooking == GatewaySpec => ImplementsBooking
BY GatewayDrivesSaga, SagaImplementsBooking, PTL

-----------------------------------------------------------------------------
(* Types *)

\* A request that has a call to make has a try left; one that waits for an
\* answer has made a try.
TriesLeft ==
  \A h \in HttpRequests :
    /\ stage[h] \in {"new", "calling"} => try[h] < MaxTries
    /\ stage[h] = "waiting" => try[h] > 0

\* What a request that is not answered yet does next.
LEMMA RetryOrTellTyped ==
  ASSUME GatewayTypeOK, TriesLeft, NEW h \in HttpRequests, NEW code, RetryOrTell(h, code),
         UNCHANGED try, sent' \subseteq Attempts
  PROVE  GatewayTypeOK' /\ TriesLeft'
<1> USE DEF GatewayTypeOK, TriesLeft
<1>1. CASE stage' = [stage EXCEPT ![h] = "calling"] /\ UNCHANGED told /\ try[h] < MaxTries
  BY <1>1
<1>2. ASSUME NEW status \in {401, 409, 503}, Tell(h, status, {})
      PROVE  GatewayTypeOK' /\ TriesLeft'
  <2>1. stage' = [stage EXCEPT ![h] = "answered"]
        /\ told' = [told EXCEPT ![h] = [status |-> status, reservation |-> {}]]
    BY <1>2 DEF Tell
  <2> QED BY <2>1
<1>3. HttpStatus(code) \in {401, 409, 503}
  BY DEF HttpStatus
<1>4. \/ stage' = [stage EXCEPT ![h] = "calling"] /\ UNCHANGED told /\ try[h] < MaxTries
      \/ Tell(h, HttpStatus(code), {})
  BY DEF RetryOrTell
<1> HIDE DEF GatewayTypeOK, TriesLeft
<1> QED BY <1>1, <1>2, <1>3, <1>4

\* The types, and that the gateway never makes more than MaxTries calls, whatever
\* they end in (resilience.py:35-52).
THEOREM GatewayTypeCorrect == GatewaySpec => [](GatewayTypeOK /\ TriesLeft)
<1>1. GatewayInit => GatewayTypeOK /\ TriesLeft
  BY TriesAssumption DEF TriesAssumption, GatewayInit, GatewayTypeOK, TriesLeft
<1>2. Base /\ GatewayTypeOK /\ TriesLeft /\ [GatewayNext]_<<vars, gatewayVars>>
        => GatewayTypeOK' /\ TriesLeft'
  <2> SUFFICES ASSUME Base, GatewayTypeOK, TriesLeft, [GatewayNext]_<<vars, gatewayVars>>
               PROVE  GatewayTypeOK' /\ TriesLeft'
    OBVIOUS
  <2> USE TriesAssumption DEF TriesAssumption
  <2>1. ASSUME NEW h \in HttpRequests, SessionValidated(h)
        PROVE  GatewayTypeOK' /\ TriesLeft'
    <3>1. stage[h] = "new" /\ stage' = [stage EXCEPT ![h] = "calling"] /\ UNCHANGED <<try, sent, told>>
      BY <2>1 DEF SessionValidated
    <3> QED BY <3>1 DEF GatewayTypeOK, TriesLeft
  <2>2. ASSUME NEW h \in HttpRequests, SessionRejected(h)
        PROVE  GatewayTypeOK' /\ TriesLeft'
    BY <2>2 DEF SessionRejected, Tell, GatewayTypeOK, TriesLeft
  <2>3. ASSUME NEW h \in HttpRequests, Call(h)
        PROVE  GatewayTypeOK' /\ TriesLeft'
    <3>1. try[h] \in 0 .. MaxTries /\ try[h] < MaxTries
      BY <2>3 DEF Call, GatewayTypeOK, TriesLeft
    <3>2. PICK n \in 1 .. MaxTries : n = try[h] + 1
      BY <3>1
    <3>3. /\ stage' = [stage EXCEPT ![h] = "waiting"] /\ UNCHANGED told
          /\ try' = [try EXCEPT ![h] = n]
          /\ sent' = sent \cup {<<h, n>>}
      BY <2>3, <3>2 DEF Call
    <3>4. n \in 0 .. MaxTries /\ n > 0 /\ <<h, n>> \in Attempts
      BY <3>2
    <3>5. GatewayTypeOK'
      BY <3>3, <3>4 DEF GatewayTypeOK
    <3>6. TriesLeft'
      BY <3>3, <3>4 DEF GatewayTypeOK, TriesLeft
    <3> QED BY <3>5, <3>6
  <2>4. ASSUME NEW h \in HttpRequests, Hear(h)
        PROVE  GatewayTypeOK' /\ TriesLeft'
    <3>1. /\ stage[h] = "waiting" /\ UNCHANGED <<try, sent>>
          /\ \/ Tell(h, 201, {reply[Current(h)].reservation})
             \/ RetryOrTell(h, reply[Current(h)].code)
      BY <2>4 DEF Hear
    <3>2. CASE RetryOrTell(h, reply[Current(h)].code)
      BY <3>1, <3>2, RetryOrTellTyped DEF GatewayTypeOK
    <3>3. CASE Tell(h, 201, {reply[Current(h)].reservation})
      <4>1. try[h] \in 1 .. MaxTries
        BY <3>1 DEF GatewayTypeOK, TriesLeft
      <4>2. Current(h) \in Attempts
        BY <4>1 DEF Current
      <4>3. PICK r \in Attempts : r = reply[Current(h)].reservation
        BY <4>2 DEF Base, HandlerTyped
      <4>4. stage' = [stage EXCEPT ![h] = "answered"]
            /\ told' = [told EXCEPT ![h] = [status |-> 201, reservation |-> {r}]]
        BY <3>3, <4>3 DEF Tell
      <4>5. [status |-> 201, reservation |-> {r}] \in [status : {201}, reservation : {{a} : a \in Attempts}]
        BY <4>3
      <4> QED BY <3>1, <4>4, <4>5 DEF GatewayTypeOK, TriesLeft
    <3> QED BY <3>1, <3>2, <3>3
  <2>5. ASSUME NEW h \in HttpRequests, Unreachable(h) \/ Abandon(h)
        PROVE  GatewayTypeOK' /\ TriesLeft'
    <3>1. UNCHANGED try /\ sent' \subseteq Attempts /\ \E code : RetryOrTell(h, code)
      BY <2>5 DEF Unreachable, Abandon, GatewayTypeOK
    <3> QED BY <3>1, RetryOrTellTyped
  <2>6. CASE UNCHANGED gatewayVars
    BY <2>6 DEF gatewayVars, GatewayTypeOK, TriesLeft
  <2> QED BY <2>1, <2>2, <2>3, <2>4, <2>5, <2>6 DEF GatewayNext, Gateway, Service
<1> QED BY <1>1, <1>2, GatewayDrivesSaga, BaseHolds, PTL DEF GatewaySpec

-----------------------------------------------------------------------------
(* What is told *)

LEMMA OneKeyOfRequest ==
  ASSUME NEW h \in HttpRequests, NEW n \in 1 .. MaxTries, NEW r, r = <<h, n>> \/ SameKey(<<h, n>>, r)
  PROVE  KeyOf[r] = KeyOf[<<h, 1>>]
BY GatewayKeys DEF GatewayKeys, SameKey

\* A 201 names the one reservation of the request's key that is in the table,
\* whichever try booked it and whichever answer was heard (main.py:175-208).
THEOREM ToldReservationIsBooked == GatewaySpec => []ToldIsBooked
<1>1. GatewayInit => ToldIsBooked
  BY DEF GatewayInit, ToldIsBooked
<1>2. Base /\ Answers /\ GatewayTypeOK /\ TriesLeft /\ ToldIsBooked /\ [GatewayNext]_<<vars, gatewayVars>>
        => ToldIsBooked'
  <2> SUFFICES ASSUME Base, Answers, GatewayTypeOK, TriesLeft, ToldIsBooked,
                      [GatewayNext]_<<vars, gatewayVars>>
               PROVE  ToldIsBooked'
    OBVIOUS
  <2>1. reservations \subseteq reservations'
    <3>1. [Next]_vars
      BY DEF GatewayNext, Service, SessionValidated, SessionRejected, Gateway, Call, Hear, Unreachable, Abandon
    <3> QED BY <3>1, NextIsBookingStep DEF BookingStep
  <2>2. ASSUME UNCHANGED told
        PROVE  ToldIsBooked'
    <3> SUFFICES ASSUME NEW h \in HttpRequests, told'[h].status = 201
                 PROVE  \E r \in reservations' :
                          told'[h].reservation = {r} /\ KeyOf[r] = KeyOf[<<h, 1>>]
      BY DEF ToldIsBooked
    <3>1. PICK r \in reservations : told[h].reservation = {r} /\ KeyOf[r] = KeyOf[<<h, 1>>]
      BY <2>2 DEF ToldIsBooked
    <3> QED BY <2>1, <2>2, <3>1
  <2>3. ASSUME NEW h \in HttpRequests, NEW status \in {401, 409, 503}, Tell(h, status, {})
        PROVE  ToldIsBooked'
    <3> SUFFICES ASSUME NEW g \in HttpRequests, told'[g].status = 201
                 PROVE  \E r \in reservations' :
                          told'[g].reservation = {r} /\ KeyOf[r] = KeyOf[<<g, 1>>]
      BY DEF ToldIsBooked
    <3>1. told' = [told EXCEPT ![h] = [status |-> status, reservation |-> {}]]
      BY <2>3 DEF Tell
    <3>2. g # h /\ told'[g] = told[g]
      BY <3>1 DEF GatewayTypeOK
    <3> QED BY <2>1, <3>2 DEF ToldIsBooked
  <2>4. ASSUME NEW h \in HttpRequests, NEW code, RetryOrTell(h, code)
        PROVE  ToldIsBooked'
    <3>1. HttpStatus(code) \in {401, 409, 503}
      BY DEF HttpStatus
    <3>2. UNCHANGED told \/ Tell(h, HttpStatus(code), {})
      BY <2>4 DEF RetryOrTell
    <3> QED BY <2>2, <2>3, <3>1, <3>2
  <2>5. ASSUME NEW h \in HttpRequests, Hear(h)
        PROVE  ToldIsBooked'
    <3>1. CASE RetryOrTell(h, reply[Current(h)].code)
      BY <3>1, <2>4
    <3>2. CASE reply[Current(h)].code = "OK" /\ Tell(h, 201, {reply[Current(h)].reservation})
      <4>1. try[h] \in 1 .. MaxTries
        BY <2>5 DEF Hear, GatewayTypeOK, TriesLeft
      <4>2. Current(h) = <<h, try[h]>> /\ Current(h) \in Attempts
        BY <4>1, TriesAssumption DEF TriesAssumption, Current
      <4>3. PICK r : r = reply[Current(h)].reservation
        OBVIOUS
      <4>4. r \in reservations /\ (r = Current(h) \/ SameKey(Current(h), r))
        BY <3>2, <4>2, <4>3 DEF Answers
      <4>5. KeyOf[r] = KeyOf[<<h, 1>>]
        BY <4>1, <4>2, <4>4, OneKeyOfRequest
      <4>6. told' = [told EXCEPT ![h] = [status |-> 201, reservation |-> {r}]]
        BY <3>2, <4>3 DEF Tell
      <4> SUFFICES ASSUME NEW g \in HttpRequests, told'[g].status = 201
                   PROVE  \E s \in reservations' :
                            told'[g].reservation = {s} /\ KeyOf[s] = KeyOf[<<g, 1>>]
        BY DEF ToldIsBooked
      <4>7. CASE g = h
        <5>1. told'[h].reservation = {r}
          BY <4>6 DEF GatewayTypeOK
        <5> QED BY <2>1, <4>4, <4>5, <4>7, <5>1
      <4>8. CASE g # h
        <5>1. told'[g] = told[g]
          BY <4>6, <4>8 DEF GatewayTypeOK
        <5> QED BY <2>1, <5>1 DEF ToldIsBooked
      <4> QED BY <4>7, <4>8
    <3> QED BY <2>5, <3>1, <3>2 DEF Hear
  <2>6. ASSUME NEW h \in HttpRequests,
               SessionValidated(h) \/ SessionRejected(h) \/ Call(h) \/ Unreachable(h) \/ Abandon(h)
        PROVE  ToldIsBooked'
    BY <2>2, <2>3, <2>4, <2>6 DEF SessionValidated, SessionRejected, Call, Unreachable, Abandon
  <2>7. CASE UNCHANGED gatewayVars
    BY <2>2, <2>7 DEF gatewayVars
  <2> QED BY <2>5, <2>6, <2>7 DEF GatewayNext, Gateway, Service
<1> QED
  BY <1>1, <1>2, GatewayDrivesSaga, GatewayTypeCorrect, BaseHolds, AnswersHold, PTL DEF GatewaySpec

=============================================================================
