-------------------------------- MODULE Wire --------------------------------
(***************************************************************************)
(* How a message travels between two services that each compiled a copy of *)
(* its .proto: the fields that differ from zero, by number, and how each   *)
(* is written.  Names do not travel.  (Protocol Buffers, proto3.)          *)
(***************************************************************************)
EXTENDS Sequences

CONSTANT Zero  \* the empty string, 0, false, an absent message

\* A message is a sequence of fields: the first has number 1.  The type of a field
\* may be that of a message; whether it is repeated makes no difference here.
Field(name, type) == [name |-> name, type |-> type]

Fields(message) == {message[n].name : n \in DOMAIN message}

WireType(type) ==
  CASE type \in {"int32", "bool", "Role"} -> "varint"
    [] type = "double" -> "fixed64"
    [] OTHER -> "length"

Encode(message, values) ==
  [n \in {k \in DOMAIN message : values[message[k].name] # Zero} |->
     [type |-> WireType(message[n].type), value |-> values[message[n].name]]]

\* A field that is absent, or written in another way than declared, is zero.
Decode(message, wire) ==
  [f \in Fields(message) |->
     LET n == CHOOSE k \in DOMAIN message : message[k].name = f
     IN  IF n \in DOMAIN wire /\ wire[n].type = WireType(message[n].type) THEN wire[n].value ELSE Zero]

\* Two copies give each name one number, and each number one way to be written.
Compatible(sent, received) ==
  \A j \in DOMAIN sent, k \in DOMAIN received :
    /\ sent[j].name = received[k].name <=> j = k
    /\ j = k => WireType(sent[j].type) = WireType(received[k].type)

\* A method is called by the name of its service and its own.
Method(service, name, request, response) ==
  [service |-> service, name |-> name, request |-> request, response |-> response]
=============================================================================
