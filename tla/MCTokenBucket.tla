---------------------------- MODULE MCTokenBucket ----------------------------
(* A small instance of TokenBucket for TLC. *)
EXTENDS TokenBucket

CONSTANTS s1, s2, b1, b2, b3
=============================================================================
