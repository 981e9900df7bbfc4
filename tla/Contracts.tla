------------------------------ MODULE Contracts -----------------------------
(***************************************************************************)
(* The gRPC calls between the services.  Each service compiled its own     *)
(* copy of the messages, kept alike by hand ("Sincronizados con ..." in    *)
(* mi-servicio/pb/servicio.proto): what follows is what must hold of the   *)
(* copies for caller and callee to mean the same fields.                   *)
(***************************************************************************)
EXTENDS Wire

LOCAL R == INSTANCE ReservationMessages
LOCAL I == INSTANCE InventoryMessages
LOCAL U == INSTANCE UserMessages
LOCAL N == INSTANCE NotificationMessages
LOCAL G == INSTANCE GatewayMessages

Link(caller, calls, callee, serves) ==
  [caller |-> caller, calls |-> calls, callee |-> callee, serves |-> serves]

\* The gateway calls three services, reservation_service the other three.
Links ==
  {Link(G!ReservationMessages, G!ReservationsClient, R!Messages, R!ReservationServiceServer),
   Link(G!UserMessages, G!UsersClient, U!Messages, U!UserServiceServer),
   Link(G!InventoryMessages, G!InventoryClient, I!Messages, I!InventoryServiceServer),
   Link(R!Messages, R!UserServiceClient, U!Messages, U!UserServiceServer),
   Link(R!Messages, R!InventoryServiceClient, I!Messages, I!InventoryServiceServer),
   Link(R!Messages, R!NotificationServiceClient, N!Messages, N!NotificationServiceServer)}

\* The messages within a message of one copy.
Parts(messages, name) ==
  {messages[name][n].type : n \in DOMAIN messages[name]} \cap DOMAIN messages

Carried(link) ==
  LET outer == UNION {{m.request, m.response} : m \in link.calls}
  IN  outer \cup UNION {Parts(link.caller, name) : name \in outer}

\* Every method called is served, by that name, with those messages.
ASSUME CallsAreServed == \A link \in Links : link.calls \subseteq link.serves

\* Every message that crosses a link is compiled on both sides, with the same
\* fields under the same numbers, and holds no message that Carried misses.
ASSUME CopiesAgree ==
  \A link \in Links : \A name \in Carried(link) :
    /\ name \in DOMAIN link.caller \cap DOMAIN link.callee
    /\ Fields(link.caller[name]) = Fields(link.callee[name])
    /\ Compatible(link.caller[name], link.caller[name])
    /\ Compatible(link.callee[name], link.callee[name])
    /\ Compatible(link.caller[name], link.callee[name])
    /\ Parts(link.caller, name) \subseteq Carried(link)

=============================================================================
