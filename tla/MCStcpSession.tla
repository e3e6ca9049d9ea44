---------------------------- MODULE MCStcpSession -----------------------------
(* A small instance of StcpSession for TLC: both connections that the      *)
(* simple client opens.                                                    *)
EXTENDS StcpSessionInv

CONSTANTS c1, c2
=============================================================================
