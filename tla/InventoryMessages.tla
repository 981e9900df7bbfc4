-------------------------- MODULE InventoryMessages -------------------------
(***************************************************************************)
(* The messages and methods compiled into both builds of                   *)
(* inventario_service (proto/gen).                                         *)
(***************************************************************************)
EXTENDS Wire

SearchRequest ==
  <<Field("fecha_inicio", "string"), Field("fecha_fin", "string"), Field("ubicacion", "string"),
    Field("precio_max", "double"), Field("capacidad", "int32")>>
RoomTypeAvailability ==
  <<Field("hotel_id", "string"), Field("nombre_hotel", "string"), Field("room_type_id", "string"),
    Field("precio_noche", "double"), Field("capacidad", "int32"), Field("stock_disponible", "int32"),
    Field("room_type_name", "string")>>
SearchResponse == <<Field("rooms", "RoomTypeAvailability")>>

UpdateStockRequest ==
  <<Field("room_type_id", "string"), Field("cantidad", "int32"), Field("accion", "string")>>
UpdateStockResponse == <<Field("status", "bool")>>

Messages ==
  [SearchRequest |-> SearchRequest, RoomTypeAvailability |-> RoomTypeAvailability,
   SearchResponse |-> SearchResponse,
   UpdateStockRequest |-> UpdateStockRequest, UpdateStockResponse |-> UpdateStockResponse]

InventoryServiceServer ==
  {Method("pb.InventoryService", "SearchAvailableRooms", "SearchRequest", "SearchResponse"),
   Method("pb.InventoryService", "UpdateStock", "UpdateStockRequest", "UpdateStockResponse")}
=============================================================================
