---------------------------- MODULE MC_ArgusStream ----------------------------
(* A small instance of ArgusStream for TLC: the streams and the other requests *)
(* are model values.                                                           *)
EXTENDS ArgusStream
=============================================================================
