----------------------------- MODULE ModeControl -----------------------------
(***************************************************************************)
(* How the Java client decides which mode a camera is to be in.  The user  *)
(* presses a radio button of SwingGui, Input takes the choice and calls    *)
(* ClientMonitor.setMode; MotionDataReceiver calls setMotionDetected with  *)
(* what a motion server answers; ModeSender takes a mode that differs from *)
(* the last one it took.  All methods are synchronized and are one step.   *)
(***************************************************************************)
EXTENDS Naturals

CONSTANTS Cameras    \* the cameras whose motion servers are asked

AUTO == 0
IDLE == 1
MOVIE == 2
Modes == {AUTO, IDLE, MOVIE}

VARIABLES
    guiMode,      \* SwingGui.mode: the button pressed last
    newInput,     \* SwingGui.newInput: there is input Input has not taken
    inputAt,      \* next statement of Input: get or set
    taken,        \* Input: the mode in what getInput returned
    oldMode,      \* Input.oldMode: the mode handed on last
    mode,         \* ClientMonitor.mode
    modeToSend,   \* ClientMonitor.modeToSend: 0 idle, 1 movie
    motion,       \* ClientMonitor.motionDetected of each camera
    event,        \* each motion server has an event to tell of
    sent          \* ModeSender.mode: the mode it took last

guiVars == <<guiMode, newInput>>
inputVars == <<inputAt, taken, oldMode>>
monitorVars == <<mode, modeToSend, motion>>
controlVars == <<guiVars, inputVars, monitorVars, event, sent>>

TypeOK ==
    /\ guiMode \in Modes /\ newInput \in BOOLEAN
    /\ inputAt \in {"get", "set"}
    /\ taken \in Modes /\ oldMode \in Modes
    /\ mode \in Modes /\ modeToSend \in 0..1
    /\ motion \in [Cameras -> BOOLEAN]
    /\ event \in [Cameras -> BOOLEAN]
    /\ sent \in 0..1

Init ==
    /\ guiMode = AUTO /\ newInput = FALSE
    /\ inputAt = "get" /\ taken = AUTO /\ oldMode = AUTO
    /\ mode = AUTO /\ modeToSend = 0
    /\ motion = [c \in Cameras |-> FALSE]
    /\ event = [c \in Cameras |-> FALSE]
    /\ sent = 0

-----------------------------------------------------------------------------
(* The user *)

RadioButton(m) ==
    /\ guiMode' = m /\ newInput' = TRUE
    /\ UNCHANGED <<inputVars, monitorVars, event, sent>>

(* The check box for synchronous mode wakes Input as well. *)
SyncCheckBox ==
    /\ newInput' = TRUE
    /\ UNCHANGED <<guiMode, inputVars, monitorVars, event, sent>>

-----------------------------------------------------------------------------
(* Input *)

GetInput ==
    /\ inputAt = "get" /\ newInput
    /\ newInput' = FALSE
    /\ taken' = guiMode
    /\ inputAt' = "set"
    /\ UNCHANGED <<guiMode, oldMode, monitorVars, event, sent>>

(* setMode(AUTO) only sets modeIsSetToAuto, which nothing reads. *)
SetMode(m) ==
    IF m = AUTO THEN UNCHANGED <<mode, modeToSend>>
    ELSE mode' = m /\ modeToSend' = m - 1

InputSetMode ==
    /\ inputAt = "set"
    /\ IF taken # oldMode THEN SetMode(taken) ELSE UNCHANGED <<mode, modeToSend>>
    /\ oldMode' = taken
    /\ inputAt' = "get"
    /\ UNCHANGED <<guiVars, taken, motion, event, sent>>

-----------------------------------------------------------------------------
(* Motion *)

(* The camera's motion server hears of motion, or is started again. *)
MotionServer(c) ==
    /\ event' = [event EXCEPT ![c] = ~@]
    /\ UNCHANGED <<guiVars, inputVars, monitorVars, sent>>

(* Broken variant: motion decides whatever the user has chosen. *)
SetMotionAlways(c, detected) ==
    /\ motion' = [motion EXCEPT ![c] = detected]
    /\ modeToSend' = IF \E d \in Cameras : motion'[d] THEN 1 ELSE 0

SetMotionDetected(c, detected) ==
    /\ motion' = [motion EXCEPT ![c] = detected]
    /\ modeToSend' = IF mode # AUTO THEN modeToSend
                     ELSE IF \E d \in Cameras : motion'[d] THEN 1 ELSE 0

(* Broken variant: an answer counts only when it tells of a newer event.   *)
MotionAnswerNews(c) ==
    /\ \E newer \in BOOLEAN : SetMotionDetected(c, event[c] /\ newer)
    /\ UNCHANGED <<guiVars, inputVars, mode, event, sent>>

(* MotionDataReceiver: an answer with a time counts as motion, since       *)
(* lastMotionTime stays 0; an answer of a server without event has none.   *)
MotionAnswer(c) ==
    /\ SetMotionDetected(c, event[c])
    /\ UNCHANGED <<guiVars, inputVars, mode, event, sent>>

-----------------------------------------------------------------------------
(* ModeSender: mode = cMon.getNewMode(mode) *)

GetNewMode ==
    /\ sent # modeToSend
    /\ sent' = modeToSend
    /\ UNCHANGED <<guiVars, inputVars, monitorVars, event>>

-----------------------------------------------------------------------------
UserStep == SyncCheckBox \/ \E m \in Modes : RadioButton(m)
InputStep == GetInput \/ InputSetMode
MotionStep == \E c \in Cameras : MotionServer(c) \/ MotionAnswer(c)

Next == UserStep \/ InputStep \/ MotionStep \/ GetNewMode

Spec == Init /\ [][Next]_controlVars

-----------------------------------------------------------------------------
(* Input has handed on what the user chose last. *)
InputDone == ~newInput /\ inputAt = "get"

(* "Sets mode regardless of motion in cameras": once Input has handed on a *)
(* mode, no answer about motion changes what is to be sent.                *)
ManualWins == InputDone /\ guiMode # AUTO => modeToSend = guiMode - 1

(* What motion asks for: movie mode for all cameras when one sees motion. *)
Wanted == IF \E c \in Cameras : motion[c] THEN 1 ELSE 0

(* "propagates the signal to increase FPS": when the user has gone back to *)
(* automatic mode, motion decides what is to be sent.                      *)
AutoFollowsMotion == InputDone /\ guiMode = AUTO => modeToSend = Wanted
=============================================================================
