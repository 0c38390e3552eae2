------------------------------ MODULE MCCodec -------------------------------
(* A small instance of Codec for TLC. *)
EXTENDS Codec

Both == {"prost", "messagepack"}
=============================================================================
