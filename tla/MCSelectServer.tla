--------------------------- MODULE MCSelectServer ---------------------------
(* SelectServer for TLC.  The clients are strings, since "none" is one; the *)
(* amounts are the code's in units of 20 bytes, a pid counted as one.       *)
EXTENDS SelectServer

ThreeClients == {"c1", "c2", "c3"}
=============================================================================
