------------------------ MODULE NotificationMessages ------------------------
(***************************************************************************)
(* The messages and the method notification_service compiles of its        *)
(* notifications.proto.                                                    *)
(***************************************************************************)
EXTENDS Wire

Messages ==
  [SendConfirmationRequest |->
     <<Field("user_id", "string"), Field("reservation_id", "string"), Field("tipo", "string"),
       Field("email", "string")>>,
   SendConfirmationResponse |-> <<Field("success", "bool")>>]

NotificationServiceServer ==
  {Method("pb.NotificationService", "SendConfirmation", "SendConfirmationRequest", "SendConfirmationResponse")}
=============================================================================
