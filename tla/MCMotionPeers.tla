--------------------------- MODULE MCMotionPeers ---------------------------
(* A film of twelve frames, with two notifications in it.                  *)
EXTENDS MotionPeers
=============================================================================
