------------------------------ MODULE Handoff ------------------------------
(***************************************************************************)
(* What the camera server promises about pictures: a one-slot hand-off.    *)
(* The capture side puts the camera's next frame in the slot when it is    *)
(* empty, the sending side takes it out when it is full, so every frame is *)
(* handed to the network exactly once and in the order of capture.         *)
(*                                                                         *)
(* It is the role of camera_monitor.pic_take_send (camera_monitor.h) and   *)
(* CameraServer is shown to implement it.                                  *)
(***************************************************************************)
EXTENDS Naturals

CONSTANT NumFrames  \* length of the camera's cyclic frame sequence

VARIABLES
    full,      \* the slot holds a frame not yet handed to the network
    produced,  \* the last frame put in the slot
    consumed   \* the last frame taken out of it

vars == <<full, produced, consumed>>

Frame == 0 .. NumFrames - 1

\* The frame the camera delivers after frame n.
NextFrame(n) == IF n = NumFrames - 1 THEN 0 ELSE n + 1

Init ==
    /\ full = FALSE
    /\ produced = NumFrames - 1
    /\ consumed = NumFrames - 1

Put ==
    /\ ~full
    /\ full' = TRUE
    /\ produced' = NextFrame(produced)
    /\ UNCHANGED consumed

Get ==
    /\ full
    /\ full' = FALSE
    /\ consumed' = produced
    /\ UNCHANGED produced

Next == Put \/ Get

Spec == Init /\ [][Next]_vars
=============================================================================
