------------------------------ MODULE MCStcpData -----------------------------
(* Small instances of StcpData for TLC.                                    *)
EXTENDS StcpDataInv

CONSTANTS d1, d2, d3, d4

\* The stream the client application writes; its segments are all different,
\* so that any mix-up of two segments shows.
Stream2 == <<d1, d2>>
Stream3 == <<d1, d2, d3>>
Stream4 == <<d1, d2, d3, d4>>
=============================================================================
