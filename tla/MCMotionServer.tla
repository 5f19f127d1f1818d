-------------------------- MODULE MCMotionServer --------------------------
(***************************************************************************)
(* MotionServer for TLC: two or three seconds, one connection in a queue.  *)
(***************************************************************************)
EXTENDS MotionServer

AllRequests == {"get", "silent"}
Requests == {"get"}
AllNotices == {"event", "bad", "empty", "reset"}
SomeNotices == {"event", "empty", "reset"}
Notices == {"event", "bad", "empty"}
=============================================================================
