-------------------------- MODULE MCCameraServer --------------------------
(***************************************************************************)
(* CameraServer for TLC: two frames in the camera's cycle, one mode byte   *)
(* and one connection in a queue at a time.                                *)
(***************************************************************************)
EXTENDS CameraServer

AllFaults == {"malloc", "poll", "camera", "accept", "create"}
NoFaults == {}
PollFails == {"poll"}
=============================================================================
