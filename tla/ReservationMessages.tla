------------------------- MODULE ReservationMessages ------------------------
(***************************************************************************)
(* The messages and methods compiled into reservation_service (mi-servicio *)
(* /pb): what it serves, and what it calls of the three others.            *)
(***************************************************************************)
EXTENDS Wire

Reservation ==
  <<Field("reservation_id", "string"), Field("user_id", "string"), Field("hotel_id", "string"),
    Field("room_type_id", "string"), Field("status", "string"), Field("fecha_inicio", "string"),
    Field("fecha_fin", "string"), Field("monto_total", "double")>>

GetReservationRequest == <<Field("reservation_id", "string")>>
GetReservationResponse == <<Field("reservation", "Reservation")>>

ListReservationsRequest == <<Field("user_id", "string")>>
ListReservationsResponse == <<Field("reservations", "Reservation")>>

CreateReservationRequest ==
  <<Field("user_id", "string"), Field("hotel_id", "string"), Field("room_type_id", "string"),
    Field("fecha_inicio", "string"), Field("fecha_fin", "string"), Field("idempotency_key", "string")>>
CreateReservationResponse ==
  <<Field("reservation_id", "string"), Field("status", "string"), Field("monto_total", "double")>>

GetUserRequest == <<Field("id", "string")>>
User ==
  <<Field("id", "string"), Field("nombre", "string"), Field("email", "string"),
    Field("rol", "int32"), Field("telefono", "string"), Field("created_at", "string")>>
UserResponse == <<Field("user", "User")>>

UpdateStockRequest ==
  <<Field("room_type_id", "string"), Field("cantidad", "int32"), Field("accion", "string")>>
UpdateStockResponse == <<Field("status", "bool")>>

SendConfirmationRequest ==
  <<Field("user_id", "string"), Field("reservation_id", "string"), Field("tipo", "string"),
    Field("email", "string")>>
SendConfirmationResponse == <<Field("success", "bool")>>

Messages ==
  [Reservation |-> Reservation,
   GetReservationRequest |-> GetReservationRequest, GetReservationResponse |-> GetReservationResponse,
   ListReservationsRequest |-> ListReservationsRequest, ListReservationsResponse |-> ListReservationsResponse,
   CreateReservationRequest |-> CreateReservationRequest, CreateReservationResponse |-> CreateReservationResponse,
   GetUserRequest |-> GetUserRequest, User |-> User, UserResponse |-> UserResponse,
   UpdateStockRequest |-> UpdateStockRequest, UpdateStockResponse |-> UpdateStockResponse,
   SendConfirmationRequest |-> SendConfirmationRequest, SendConfirmationResponse |-> SendConfirmationResponse]

ReservationServiceServer ==
  {Method("pb.ReservationService", "GetReservation", "GetReservationRequest", "GetReservationResponse"),
   Method("pb.ReservationService", "ListReservations", "ListReservationsRequest", "ListReservationsResponse"),
   Method("pb.ReservationService", "CreateReservation", "CreateReservationRequest", "CreateReservationResponse")}

UserServiceClient == {Method("pb.UserService", "GetUser", "GetUserRequest", "UserResponse")}

InventoryServiceClient ==
  {Method("pb.InventoryService", "UpdateStock", "UpdateStockRequest", "UpdateStockResponse")}

NotificationServiceClient ==
  {Method("pb.NotificationService", "SendConfirmation", "SendConfirmationRequest", "SendConfirmationResponse")}
=============================================================================
