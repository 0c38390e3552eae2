-------------------------- MODULE MCConnectionPool --------------------------
(* Small instances of ConnectionPool for TLC. *)
EXTENDS ConnectionPool

CONSTANTS c1, c2
=============================================================================
