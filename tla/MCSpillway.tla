----------------------------- MODULE MCSpillway -----------------------------
(* Small instances of Spillway for TLC. *)
EXTENDS SpillwayInv, TLC

CONSTANTS s1, s2, s3

(* Handles other than the first are interchangeable: they are all born by Clone. *)
Interchangeable == Permutations(Senders \ {First})
=============================================================================
