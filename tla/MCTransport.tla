---------------------------- MODULE MCTransport ----------------------------
(* Packets of a header of 4 bytes and frames of up to 3.                   *)
EXTENDS Transport
=============================================================================
