--------------------------- MODULE GatewayRetries ---------------------------
(***************************************************************************)
(* POST /reservations of api-gateway over the saga of reservation_service: *)
(* the gateway validates the session and calls CreateReservation up to     *)
(* MaxTries times with one idempotency key, a new try whenever one ends in *)
(* UNAVAILABLE or DEADLINE_EXCEEDED.                                       *)
(*                                                                         *)
(* A try <<h, n>> is an attempt of the saga.  What the gateway stops       *)
(* waiting for goes on in reservation_service until its context is seen to *)
(* be cancelled, and a try that is still in the network may start late, so *)
(* a try runs next to the one that replaces it.                            *)
(***************************************************************************)
EXTENDS ReservationSaga

CONSTANTS
  HttpRequests,
  MaxTries       \* _MAX_ATTEMPTS, 3 in the code

ASSUME TriesAssumption == MaxTries \in Nat \ {0} /\ Attempts = HttpRequests \X (1 .. MaxTries)

\* new_idempotency_key(), or the header Idempotency-Key the client sent.
ASSUME GatewayKeys ==
  \A h \in HttpRequests : \A n \in 1 .. MaxTries :
    KeyOf[<<h, n>>] = KeyOf[<<h, 1>>] /\ KeyOf[<<h, n>>] # NoKey

VARIABLES
  stage,  \* of each request: new, calling, waiting, answered
  try,    \* attempt of call_with_retry(): how many calls it has made
  sent,   \* the tries that have left the gateway and may reach the service
  told    \* the HTTP status answered, and the reservation with 201

gatewayVars == <<stage, try, sent, told>>

Retryable == {"Unavailable", "DeadlineExceeded"}

HttpStatus(code) ==
  IF code \in Retryable THEN 503 ELSE IF code = "Unauthenticated" THEN 401 ELSE 409

GatewayInit ==
  /\ Init
  /\ stage = [h \in HttpRequests |-> "new"]
  /\ try = [h \in HttpRequests |-> 0]
  /\ sent = {}
  /\ told = [h \in HttpRequests |-> [status |-> 0, reservation |-> {}]]

\* The try a request is waiting for.
Current(h) == <<h, try[h]>>

Tell(h, status, r) ==
  /\ stage' = [stage EXCEPT ![h] = "answered"]
  /\ told' = [told EXCEPT ![h] = [status |-> status, reservation |-> r]]

-----------------------------------------------------------------------------
(* create_reservation() *)

\* require_session_user(): not retried, its errors are answered at once.
SessionValidated(h) ==
  /\ stage[h] = "new"
  /\ stage' = [stage EXCEPT ![h] = "calling"]
  /\ UNCHANGED <<vars, try, sent, told>>

SessionRejected(h) ==
  /\ stage[h] = "new"
  /\ \E status \in {401, 409, 503} : Tell(h, status, {})
  /\ UNCHANGED <<vars, try, sent>>

CallUncounted(h) ==  \* mutant: attempt = 0 inside the loop
  /\ stage[h] = "calling"
  /\ stage' = [stage EXCEPT ![h] = "waiting"]
  /\ try' = [try EXCEPT ![h] = 1]
  /\ sent' = sent \cup {<<h, 1>>}
  /\ UNCHANGED <<vars, told>>

\* A call, the first or after its back-off.
Call(h) ==
  /\ stage[h] = "calling"
  /\ stage' = [stage EXCEPT ![h] = "waiting"]
  /\ try' = [try EXCEPT ![h] = @ + 1]
  /\ sent' = sent \cup {<<h, try[h] + 1>>}
  /\ UNCHANGED <<vars, told>>

RetryOrTellOffByOne(h, code) ==  \* mutant: attempt > _MAX_ATTEMPTS
  IF code \in Retryable /\ try[h] <= MaxTries
    THEN stage' = [stage EXCEPT ![h] = "calling"] /\ UNCHANGED told
    ELSE Tell(h, HttpStatus(code), {})

\* call_with_retry() on an RpcError, and what the route makes of the last one.
RetryOrTell(h, code) ==
  IF code \in Retryable /\ try[h] < MaxTries
    THEN stage' = [stage EXCEPT ![h] = "calling"] /\ UNCHANGED told
    ELSE Tell(h, HttpStatus(code), {})

HearOwnTry(h) ==  \* mutant: the answer is taken for that of a new reservation
  LET answer == reply[Current(h)] IN
    /\ stage[h] = "waiting"
    /\ pc[Current(h)] = "done"
    /\ IF answer.code = "OK" THEN Tell(h, 201, {Current(h)}) ELSE RetryOrTell(h, answer.code)
    /\ UNCHANGED <<vars, try, sent>>

\* CreateReservation has answered.
Hear(h) ==
  LET answer == reply[Current(h)] IN
    /\ stage[h] = "waiting"
    /\ pc[Current(h)] = "done"
    /\ IF answer.code = "OK" THEN Tell(h, 201, {answer.reservation}) ELSE RetryOrTell(h, answer.code)
    /\ UNCHANGED <<vars, try, sent>>

\* The connection is refused, or its server stops.
Unreachable(h) ==
  /\ stage[h] = "waiting"
  /\ pc[Current(h)] \in {"idle", "crashed"}
  /\ sent' = IF pc[Current(h)] = "idle" THEN sent \ {Current(h)} ELSE sent
  /\ RetryOrTell(h, "Unavailable")
  /\ UNCHANGED <<vars, try>>

\* The 12 s are over, or the connection breaks: whatever the service does or
\* has done with the try, its answer is lost.
Abandon(h) ==
  /\ "cancel" \in Faults
  /\ stage[h] = "waiting"
  /\ \E code \in Retryable : RetryOrTell(h, code)
  /\ UNCHANGED <<vars, try, sent>>

\* reservation_service runs the tries that reach it.
Service ==
  /\ Next
  /\ \A a \in Attempts \ sent : pc'[a] = "idle"
  /\ UNCHANGED gatewayVars

Gateway(h) == Call(h) \/ Hear(h) \/ Unreachable(h) \/ Abandon(h)

GatewayNext ==
  \/ \E h \in HttpRequests : SessionValidated(h) \/ SessionRejected(h) \/ Gateway(h)
  \/ Service

GatewaySpec == GatewayInit /\ [][GatewayNext]_<<vars, gatewayVars>>

\* The back-off and the deadline of each call end; what has reached
\* reservation_service and inventario_service goes on as in FairSpec.
GatewayFairSpec ==
  /\ GatewaySpec
  /\ \A h \in HttpRequests : WF_<<vars, gatewayVars>>(Gateway(h))
  /\ \A a \in Attempts :
       /\ WF_<<vars, gatewayVars>>(pc[a] # "idle" /\ Handle(a) /\ UNCHANGED gatewayVars)
       /\ WF_<<vars, gatewayVars>>(Notified(a) /\ UNCHANGED gatewayVars)
  /\ WF_<<vars, gatewayVars>>(\E r \in Requests : Serve(r) /\ UNCHANGED gatewayVars)

-----------------------------------------------------------------------------
(* Properties *)

GatewayTypeOK ==
  /\ stage \in [HttpRequests -> {"new", "calling", "waiting", "answered"}]
  /\ try \in [HttpRequests -> 0 .. MaxTries]
  /\ sent \subseteq Attempts
  /\ told \in [HttpRequests ->
       [status : {0, 401, 409, 503}, reservation : {{}}]
         \cup [status : {201}, reservation : {{a} : a \in Attempts}]]

\* 201 names a reservation that is in the table, made for the request or for
\* an earlier one with its key: a lost answer is found again by the retry, and
\* the client never gets the name of a try that booked nothing
\* (documento-bloque-resiliencia-entrega2.md:59).
ToldIsBooked ==
  \A h \in HttpRequests : told[h].status = 201 =>
    \E r \in reservations : told[h].reservation = {r} /\ KeyOf[r] = KeyOf[<<h, 1>>]

\* Every request that has passed its session's validation is answered, whatever
\* happens to its tries (documento-bloque-resiliencia-entrega2.md:55).
RequestAnswered == \A h \in HttpRequests : stage[h] = "calling" ~> stage[h] = "answered"
=============================================================================
