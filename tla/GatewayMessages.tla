--------------------------- MODULE GatewayMessages --------------------------
(***************************************************************************)
(* What the gateway compiles of its own proto/servicio.proto, as far as it *)
(* calls it.  (It compiles proto/inventory.proto too, whose package        *)
(* nobody serves, and does not use it.)                                    *)
(***************************************************************************)
EXTENDS Wire

Reservation ==
  <<Field("reservation_id", "string"), Field("user_id", "string"), Field("hotel_id", "string"),
    Field("room_type_id", "string"), Field("status", "string"), Field("fecha_inicio", "string"),
    Field("fecha_fin", "string"), Field("monto_total", "double")>>

User ==
  <<Field("id", "string"), Field("nombre", "string"), Field("email", "string"),
    Field("rol", "int32"), Field("telefono", "string"), Field("created_at", "string")>>

RoomTypeAvailability ==
  <<Field("hotel_id", "string"), Field("nombre_hotel", "string"), Field("room_type_id", "string"),
    Field("precio_noche", "double"), Field("capacidad", "int32"), Field("stock_disponible", "int32"),
    Field("room_type_name", "string")>>

ReservationMessages ==
  [Reservation |-> Reservation,
   ListReservationsRequest |-> <<Field("user_id", "string")>>,
   ListReservationsResponse |-> <<Field("reservations", "Reservation")>>,
   CreateReservationRequest |->
     <<Field("user_id", "string"), Field("hotel_id", "string"), Field("room_type_id", "string"),
       Field("fecha_inicio", "string"), Field("fecha_fin", "string"), Field("idempotency_key", "string")>>,
   CreateReservationResponse |->
     <<Field("reservation_id", "string"), Field("status", "string"), Field("monto_total", "double")>>]

UserMessages ==
  [User |-> User,
   GetUserRequest |-> <<Field("id", "string")>>,
   UserResponse |-> <<Field("user", "User")>>,
   CreateUserRequest |->
     <<Field("nombre", "string"), Field("email", "string"), Field("password", "string"),
       Field("rol", "int32"), Field("telefono", "string")>>,
   UpdateUserRequest |-> <<Field("id", "string"), Field("nombre", "string"), Field("telefono", "string")>>,
   AuthenticateUserRequest |-> <<Field("email", "string"), Field("password", "string")>>,
   AuthenticateUserResponse |->
     <<Field("success", "bool"), Field("user", "User"), Field("access_token", "string"),
       Field("expires_at", "string")>>,
   LogoutRequest |-> <<Field("access_token", "string")>>,
   ValidateTokenRequest |-> <<Field("access_token", "string")>>,
   SessionResponse |-> <<Field("success", "bool"), Field("user", "User"), Field("expires_at", "string")>>]

InventoryMessages ==
  [SearchRequest |->
     <<Field("fecha_inicio", "string"), Field("fecha_fin", "string"), Field("ubicacion", "string"),
       Field("precio_max", "double"), Field("capacidad", "int32")>>,
   RoomTypeAvailability |-> RoomTypeAvailability,
   SearchResponse |-> <<Field("rooms", "RoomTypeAvailability")>>]

ReservationsClient ==
  {Method("pb.ReservationService", "ListReservations", "ListReservationsRequest", "ListReservationsResponse"),
   Method("pb.ReservationService", "CreateReservation", "CreateReservationRequest", "CreateReservationResponse")}

UsersClient ==
  {Method("pb.UserService", "CreateUser", "CreateUserRequest", "UserResponse"),
   Method("pb.UserService", "GetUser", "GetUserRequest", "UserResponse"),
   Method("pb.UserService", "UpdateUser", "UpdateUserRequest", "UserResponse"),
   Method("pb.UserService", "AuthenticateUser", "AuthenticateUserRequest", "AuthenticateUserResponse"),
   Method("pb.UserService", "LogoutUser", "LogoutRequest", "SessionResponse"),
   Method("pb.UserService", "ValidateToken", "ValidateTokenRequest", "SessionResponse")}

InventoryClient == {Method("pb.InventoryService", "SearchAvailableRooms", "SearchRequest", "SearchResponse")}
=============================================================================
