----------------------------- MODULE MCDisplay -----------------------------
(* Display and ClientMonitor for TLC: two cameras, a few time stamps.      *)
EXTENDS Display
=============================================================================
