------------------------------ MODULE MCNetLink ------------------------------
(* Three kinds of link, as many Socket objects as can be referred to. *)
EXTENDS NetLink

MCKinds == {"picture", "mode", "motion"}
==============================================================================
