------------------------------ MODULE MCModeLink ------------------------------
(* One motion server, two Socket objects: that of the monitor and a new one. *)
EXTENDS ModeLink

MCKinds == {"mode"}
===============================================================================
