---------------------------- MODULE UserMessages ----------------------------
(***************************************************************************)
(* The messages and methods user_service compiles of its user.proto.       *)
(***************************************************************************)
EXTENDS Wire

User ==
  <<Field("id", "string"), Field("nombre", "string"), Field("email", "string"),
    Field("rol", "Role"), Field("telefono", "string"), Field("created_at", "string")>>

Messages ==
  [User |-> User,
   CreateUserRequest |->
     <<Field("nombre", "string"), Field("email", "string"), Field("password", "string"),
       Field("rol", "Role"), Field("telefono", "string")>>,
   GetUserRequest |-> <<Field("id", "string")>>,
   UpdateUserRequest |-> <<Field("id", "string"), Field("nombre", "string"), Field("telefono", "string")>>,
   AuthenticateUserRequest |-> <<Field("email", "string"), Field("password", "string")>>,
   LogoutRequest |-> <<Field("access_token", "string")>>,
   ValidateTokenRequest |-> <<Field("access_token", "string")>>,
   UserResponse |-> <<Field("user", "User")>>,
   AuthenticateUserResponse |->
     <<Field("success", "bool"), Field("user", "User"), Field("access_token", "string"),
       Field("expires_at", "string")>>,
   SessionResponse |-> <<Field("success", "bool"), Field("user", "User"), Field("expires_at", "string")>>]

UserServiceServer ==
  {Method("pb.UserService", "CreateUser", "CreateUserRequest", "UserResponse"),
   Method("pb.UserService", "GetUser", "GetUserRequest", "UserResponse"),
   Method("pb.UserService", "UpdateUser", "UpdateUserRequest", "UserResponse"),
   Method("pb.UserService", "AuthenticateUser", "AuthenticateUserRequest", "AuthenticateUserResponse"),
   Method("pb.UserService", "LogoutUser", "LogoutRequest", "SessionResponse"),
   Method("pb.UserService", "ValidateToken", "ValidateTokenRequest", "SessionResponse")}
=============================================================================
