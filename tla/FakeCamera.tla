------------------------------ MODULE FakeCamera ------------------------------
(***************************************************************************)
(* fakecapture.c, the camera of a server that runs on a host: frames from  *)
(* a cyclic film, and a notification of the motion server at some of them. *)
(* It follows the descriptors the capture code takes from its process.     *)
(* One thread at a time calls it; what goes on beside it is the motion     *)
(* server, which runs or does not.                                         *)
(***************************************************************************)
EXTENDS Integers

CONSTANTS
    StartFrame,   \* START_FRAME
    NumFrames,    \* NUM_FRAMES
    MaxFds        \* descriptors the process has left for the capture code

ASSUME FramesAssumption == /\ StartFrame \in Nat /\ NumFrames \in Nat
                           /\ StartFrame <= NumFrames
ASSUME MaxFdsAssumption == MaxFds \in Nat \ {0}

VARIABLES
    serverUp,   \* the motion server accepts connections
    at,         \* next statement of the capture code
    frameNr,    \* stream->frame_nr
    fds,        \* descriptors the capture code holds
    motionfd,   \* none, open (its descriptor is held), closed, or failed (-1)
    isFrame,    \* the frame in hand is one, and not NULL
    failed      \* history: notifications that did not connect a socket

cameraVars == <<at, frameNr, fds, motionfd, isFrame, failed>>

Labels == {"open", "frame", "read", "detect", "socket", "connect", "write",
           "use", "closed", "crashed"}

TypeOK ==
    /\ serverUp \in BOOLEAN
    /\ at \in Labels
    /\ frameNr \in StartFrame .. NumFrames
    /\ fds \in 0 .. MaxFds
    /\ motionfd \in {"none", "open", "closed", "failed"}
    /\ isFrame \in BOOLEAN
    /\ failed \in 0 .. MaxFds

Init ==
    /\ serverUp \in BOOLEAN
    /\ at = "open"
    /\ frameNr = StartFrame
    /\ fds = 0 /\ motionfd = "none"
    /\ isFrame = FALSE
    /\ failed = 0

-----------------------------------------------------------------------------
Goto(label) == at' = label

(* fake_motion_init: motionfd is overwritten whatever it was. *)
MotionInit ==
    IF fds < MaxFds THEN fds' = fds + 1 /\ motionfd' = "open"
    ELSE motionfd' = "failed" /\ UNCHANGED fds

(* capture_open_stream *)
OpenStream ==
    /\ at = "open"
    /\ frameNr' = StartFrame
    /\ MotionInit
    /\ Goto("frame")
    /\ UNCHANGED <<serverUp, isFrame, failed>>

(* Broken variant: the film has one frame more. *)
OpenFrameLate ==
    /\ at = "frame"
    /\ frameNr' = IF frameNr > NumFrames THEN StartFrame ELSE frameNr + 1
    /\ IF fds < MaxFds THEN fds' = fds + 1 /\ Goto("read")
       ELSE Goto("crashed") /\ UNCHANGED fds
    /\ UNCHANGED <<serverUp, motionfd, isFrame, failed>>

(* capture_get_frame: the name of the next file, and open.  A frame that   *)
(* is NULL ends the server, whose client_save_frame looks into it.         *)
OpenFrame ==
    /\ at = "frame"
    /\ frameNr' = IF frameNr + 1 > NumFrames THEN StartFrame ELSE frameNr + 1
    /\ IF fds < MaxFds THEN fds' = fds + 1 /\ Goto("read")
       ELSE Goto("crashed") /\ UNCHANGED fds
    /\ UNCHANGED <<serverUp, motionfd, isFrame, failed>>

(* The file is read, or not, and closed. *)
ReadFrame ==
    /\ at = "read"
    /\ isFrame' \in BOOLEAN
    /\ fds' = fds - 1
    /\ Goto("detect")
    /\ UNCHANGED <<serverUp, frameNr, motionfd, failed>>

(* fake_motion_detect: the frames in which somebody walks by. *)
MotionIn(n) == n > 86 /\ n < 219 /\ n % 5 = 0

Detect ==
    /\ at = "detect"
    /\ Goto(IF MotionIn(frameNr) THEN "socket" ELSE "use")
    /\ UNCHANGED <<serverUp, frameNr, fds, motionfd, isFrame, failed>>

(* fake_motion_notify *)
NotifySocket ==
    /\ at = "socket"
    /\ MotionInit
    /\ Goto("connect")
    /\ UNCHANGED <<serverUp, frameNr, isFrame, failed>>

(* The message is printed, and the socket is not closed. *)
ConnectFails ==
    /\ at = "connect"
    /\ ~serverUp \/ motionfd = "failed"
    /\ failed' = IF motionfd = "open" THEN failed + 1 ELSE failed
    /\ Goto("use")
    /\ UNCHANGED <<serverUp, frameNr, fds, motionfd, isFrame>>

Connect ==
    /\ at = "connect"
    /\ serverUp /\ motionfd = "open"
    /\ Goto("write")
    /\ UNCHANGED <<serverUp, frameNr, fds, motionfd, isFrame, failed>>

(* write_string, which may fail, and close. *)
Notify ==
    /\ at = "write"
    /\ fds' = fds - 1 /\ motionfd' = "closed"
    /\ Goto("use")
    /\ UNCHANGED <<serverUp, frameNr, isFrame, failed>>

(* The frame is returned and used, or is NULL and used. *)
Use ==
    /\ at = "use"
    /\ Goto(IF isFrame THEN "frame" ELSE "crashed")
    /\ UNCHANGED <<serverUp, frameNr, fds, motionfd, isFrame, failed>>

(* capture_close_stream with fake_motion_free, when serve_clients gives up. *)
CloseStream ==
    /\ at = "frame"
    /\ IF motionfd = "open" THEN fds' = fds - 1 /\ motionfd' = "closed"
       ELSE UNCHANGED <<fds, motionfd>>
    /\ Goto("closed")
    /\ UNCHANGED <<serverUp, frameNr, isFrame, failed>>

-----------------------------------------------------------------------------
CameraStep == \/ OpenStream \/ OpenFrame \/ ReadFrame \/ Detect \/ NotifySocket
              \/ ConnectFails \/ Connect \/ Notify \/ Use \/ CloseStream

-----------------------------------------------------------------------------
(* Between two frames the camera holds the socket capture_open_stream made *)
(* and forgot, and one for each notification that did not get through: as  *)
(* long as all of them do, and files can be read, it does not run out.     *)
SocketPerFailure == at = "frame" => fds = failed + 1

===============================================================================
