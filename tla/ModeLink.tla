------------------------------- MODULE ModeLink -------------------------------
(***************************************************************************)
(* The way of a mode from the client to a camera: ModeControl decides, a   *)
(* NetLink of kind "mode" carries, update_mode_task of the camera server   *)
(* reads and sets.  ModeSender is where the parts meet: it is the writer   *)
(* of the link, its WriterReady is getNewMode of the monitor, and its      *)
(* Write puts a byte on the way.                                           *)
(***************************************************************************)
EXTENDS Naturals, Sequences

CONSTANTS Cameras, Kinds, Sockets, None,
          MaxWire     \* bytes a connection holds before a write blocks

ASSUME ModeKind == Kinds = {"mode"}
ASSUME SocketsAssumption == None \notin Sockets
ASSUME MaxWireAssumption == MaxWire \in Nat \ {0}

VARIABLES guiMode, newInput, inputAt, taken, oldMode, mode, modeToSend, motion,
          event, sent
VARIABLES kind, active, shutdown, socket, conn, fresh, stop, at, used, state,
          inbox
VARIABLES
    wire,      \* of each socket: the modes written and not read by the camera
    camMode,   \* cam_mon->mode of the camera server
    accepted,  \* the connection update_mode_task reads, or None
    deaf,      \* the session goes on although its mode connection broke
    missed     \* history: the camera may not know the mode ModeSender took last

Control == INSTANCE ModeControl
Link == INSTANCE NetLink

controlVars == <<guiMode, newInput, inputAt, taken, oldMode, mode, modeToSend,
                 motion, event, sent>>
linkVars == <<kind, active, shutdown, socket, conn, fresh, stop, at, used,
              state, inbox>>
cameraVars == <<wire, camMode, accepted, deaf, missed>>
vars == <<controlVars, linkVars, cameraVars>>

TypeOK ==
    /\ Control!TypeOK
    /\ Link!TypeOK
    /\ wire \in [Sockets -> Seq(0..1)]
    /\ \A s \in Sockets : /\ Len(wire[s]) <= MaxWire
                         /\ wire[s] # <<>> => state[s] = "open"
    /\ camMode \in 0..1
    /\ accepted \in Sockets \cup {None}
    /\ accepted # None => state[accepted] = "open"
    /\ deaf \in BOOLEAN /\ missed \in BOOLEAN

Init ==
    /\ Control!Init /\ Link!Init
    /\ wire = [s \in Sockets |-> <<>>]
    /\ camMode = 0                        \* IDLE_MODE, as set by init()
    /\ accepted = None /\ deaf = FALSE
    /\ missed = FALSE

-----------------------------------------------------------------------------
(* The two parts of the client by themselves *)

ClientStep ==
    /\ \/ Control!UserStep \/ Control!InputStep \/ Control!MotionStep
    /\ UNCHANGED <<linkVars, cameraVars>>

(* A socket is closed here only when nothing of it is left to read. *)
LinkStep ==
    /\ \/ Link!ConnStep \/ Link!StopStep \/ Link!WorkerStep("writer")
       \/ Link!WriterSleep
    /\ UNCHANGED <<controlVars, cameraVars>>

-----------------------------------------------------------------------------
(* ModeSender *)

TakeMode ==
    /\ Link!WriterReady
    /\ Control!GetNewMode
    /\ UNCHANGED cameraVars

(* Broken variant: what is written is what is wanted by now. *)
WriteModeLatest ==
    /\ Link!Write
    /\ IF state[used["writer"]] = "open"
       THEN /\ Len(wire[used["writer"]]) < MaxWire
            /\ wire' = [wire EXCEPT ![used["writer"]] = Append(@, modeToSend)]
            /\ missed' = FALSE
       ELSE missed' = TRUE /\ UNCHANGED wire
    /\ UNCHANGED <<controlVars, camMode, accepted, deaf>>

(* A write to a connection the camera has closed is lost. *)
WriteMode ==
    /\ Link!Write
    /\ IF state[used["writer"]] = "open"
       THEN /\ Len(wire[used["writer"]]) < MaxWire
            /\ wire' = [wire EXCEPT ![used["writer"]] = Append(@, sent)]
            /\ missed' = FALSE
       ELSE missed' = TRUE /\ UNCHANGED wire
    /\ UNCHANGED <<controlVars, camMode, accepted, deaf>>

(* The write fails; the mode was taken before and is not taken again. *)
WriteModeFails ==
    /\ Link!WriteFails
    /\ missed' = TRUE
    /\ UNCHANGED <<controlVars, wire, camMode, accepted, deaf>>

-----------------------------------------------------------------------------
(* The camera server: try_accept and update_mode_task *)

(* A mode connection is accepted after a new picture connection, when the  *)
(* threads of the last session are joined; until then it waits in the      *)
(* queue of modefd, and what is written to it is not read.                 *)
CameraAccepts(s) ==
    /\ accepted = None /\ ~deaf
    /\ state[s] = "open"
    /\ accepted' = s
    /\ UNCHANGED <<controlVars, linkVars, wire, camMode, deaf, missed>>

(* Broken variant: the camera waits for a full buffer. *)
CameraReadsFull(s) ==
    /\ accepted = s
    /\ Len(wire[s]) = MaxWire
    /\ wire' = [wire EXCEPT ![s] = Tail(@)]
    /\ camMode' = wire[s][1]
    /\ UNCHANGED <<controlVars, linkVars, accepted, deaf, missed>>

CameraReads(s) ==
    /\ accepted = s
    /\ wire[s] # <<>>
    /\ wire' = [wire EXCEPT ![s] = Tail(@)]
    /\ camMode' = wire[s][1]
    /\ UNCHANGED <<controlVars, linkVars, accepted, deaf, missed>>

(* A session whose mode connection broke ends when the end of the file is  *)
(* read: the mode read last is set again, or 0 when none was read.  After  *)
(* an error of read it never ends, but the server may be started again.    *)
CameraSessionEnds ==
    /\ deaf
    /\ deaf' = FALSE
    /\ camMode' \in {camMode, 0}
    /\ missed' = (missed \/ camMode' # camMode)
    /\ UNCHANGED <<controlVars, linkVars, wire, accepted>>

-----------------------------------------------------------------------------
(* The ends of a connection that the client did not close.  A server that  *)
(* is started again has no session and is in idle mode.                    *)

CameraRestarts == camMode' = 0 /\ accepted' = None /\ deaf' = FALSE

(* The server ends with all that was written read, *)
CameraCloses(s) ==
    /\ Link!PeerCloses(s)
    /\ wire[s] = <<>>
    /\ CameraRestarts
    /\ missed' = (missed \/ camMode' # camMode)
    /\ UNCHANGED <<controlVars, wire>>

(* or the connection breaks, and with it what is on the way.  A connection *)
(* that broke in the queue is accepted before any other.                   *)
CameraBreaks == camMode' = camMode /\ accepted' = None /\ deaf' = TRUE

(* Broken variant: what was not read is read later. *)
CameraResetsKeepsWire(s) ==
    /\ Link!PeerResets(s)
    /\ CameraRestarts \/ CameraBreaks
    /\ missed' = (missed \/ camMode' # camMode)
    /\ UNCHANGED <<controlVars, wire>>

CameraResets(s) ==
    /\ Link!PeerResets(s)
    /\ wire' = [wire EXCEPT ![s] = <<>>]
    /\ CameraRestarts \/ CameraBreaks
    /\ missed' = (missed \/ wire[s] # <<>> \/ camMode' # camMode)
    /\ UNCHANGED controlVars

-----------------------------------------------------------------------------
SenderStep == TakeMode \/ WriteMode \/ WriteModeFails
AcceptStep == CameraSessionEnds \/ \E s \in Sockets : CameraAccepts(s)
CameraStep == \E s \in Sockets : CameraReads(s)
PeerStep == \E s \in Sockets : CameraCloses(s) \/ CameraResets(s)

Next == ClientStep \/ LinkStep \/ SenderStep \/ AcceptStep \/ CameraStep \/ PeerStep

Spec == Init /\ [][Next]_vars

(* The threads of the client go on when they can, update_mode_task reads   *)
(* the connection of its session, and the kernel of a camera that is asked *)
(* for a connection again and again makes one.  That try_accept takes it   *)
(* from the queue is not assumed: it waits for a new picture connection.   *)
(* Users, motion and failures do as they like.                             *)
Fairness ==
    /\ WF_vars(Control!InputStep /\ UNCHANGED <<linkVars, cameraVars>>)
    /\ WF_vars(LinkStep) /\ WF_vars(SenderStep) /\ WF_vars(CameraStep)
    /\ SF_vars((\E s \in Sockets : Link!Connect(s))
                  /\ UNCHANGED <<controlVars, cameraVars>>)

LiveSpec == Spec /\ Fairness

-----------------------------------------------------------------------------
ManualWins == Control!ManualWins

(* Movie mode ends only on the user's choice or after a motion server was  *)
(* started again: lastMotionTime of MotionDataReceiver is never written,   *)
(* so motion that was seen once counts for ever.                           *)
MovieKept ==
    [][modeToSend = 1 /\ modeToSend' = 0
          => \/ inputAt = "set" /\ taken = Control!IDLE
             \/ \E c \in Cameras : motion[c] /\ ~event[c]]_vars

(* A mode is on its way from getNewMode to the camera. *)
Quiet == /\ at["writer"] # "write"
         /\ \A s \in Sockets : wire[s] = <<>>

(* Whatever connections came and went, the camera is in the mode that      *)
(* ModeSender took last, unless that mode was lost on the way or the       *)
(* camera was started again.                                               *)
InStep == Quiet => camMode = sent \/ missed

(* The mode wanted in the end is the mode of the camera in the end, if no  *)
(* mode was lost since and the camera has a mode connection again and      *)
(* again, whichever.  It need not: a connection made after one that broke  *)
(* may wait in the queue for ever, and so do the modes written to it.      *)
Delivered ==
    \A m \in 0..1 :
        /\ <>[](modeToSend = m /\ ~missed)
        /\ []<>(accepted # None)
        => <>[](camMode = m)

AutoFollowsMotion == Control!AutoFollowsMotion
===============================================================================
