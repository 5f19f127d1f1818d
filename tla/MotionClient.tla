---------------------------- MODULE MotionClient ----------------------------
(***************************************************************************)
(* motion_client.c, which asks the motion server once a period until it is *)
(* interrupted: SIGINT runs cleanup between any two statements, closes the *)
(* socket in use and leaves 0, the terminal, in its place.  The client     *)
(* starts here with its handler installed.                                 *)
(***************************************************************************)
EXTENDS Integers

CONSTANTS
    MaxSockets   \* descriptors the process may have besides its terminal

VARIABLES
    serverUp,    \* the motion server accepts connections
    pc,          \* next statement of motion_get and poll_motion
    running,     \* running
    motionfd,    \* failed (-1), open, closed, or terminal (0)
    sockets,     \* sockets the process holds
    refused      \* history: sockets that did not connect

clientVars == <<pc, running, motionfd, sockets, refused>>

TypeOK ==
    /\ pc \in {"test", "socket", "connect", "write", "read", "close", "forget", "done"}
    /\ running \in BOOLEAN
    /\ motionfd \in {"failed", "open", "closed", "terminal"}
    /\ sockets \in 0 .. MaxSockets
    /\ refused \in 0 .. MaxSockets + 1

Init ==
    /\ pc = "test" /\ running = TRUE
    /\ motionfd = "failed"
    /\ sockets = 0 /\ refused = 0

-----------------------------------------------------------------------------
Goto(label) == pc' = label

(* Broken variant: the flag of the signal handler is not looked at. *)
TestBlind ==
    /\ pc = "test"
    /\ Goto("socket")
    /\ UNCHANGED <<serverUp, running, motionfd, sockets, refused>>

(* while(running), after the pause of the last round. *)
Test ==
    /\ pc = "test"
    /\ Goto(IF running THEN "socket" ELSE "done")
    /\ UNCHANGED <<serverUp, running, motionfd, sockets, refused>>

(* socket_init: a signal before motionfd is set closes nothing. *)
SocketInit ==
    /\ pc = "socket"
    /\ IF sockets < MaxSockets THEN sockets' = sockets + 1 /\ motionfd' = "open"
       ELSE motionfd' = "failed" /\ UNCHANGED sockets
    /\ Goto("connect")
    /\ UNCHANGED <<serverUp, running, refused>>

(* The socket is not closed; the terminal is none and cannot connect. *)
ConnectFails ==
    /\ pc = "connect" /\ ~(serverUp /\ motionfd = "open")
    /\ refused' = IF motionfd = "open" THEN refused + 1 ELSE refused
    /\ Goto("test")
    /\ UNCHANGED <<serverUp, running, motionfd, sockets>>

Connect ==
    /\ pc = "connect" /\ serverUp /\ motionfd = "open"
    /\ Goto("write")
    /\ UNCHANGED <<serverUp, running, motionfd, sockets, refused>>

(* write_string: send refuses the terminal, and a socket may be broken. *)
Write ==
    /\ pc = "write"
    /\ \/ motionfd = "open" /\ Goto("read")
       \/ Goto("close")
    /\ UNCHANGED <<serverUp, running, motionfd, sockets, refused>>

(* An answer, an end or an error; a line when it is the terminal.  Neither *)
(* need ever come.                                                         *)
Read ==
    /\ pc = "read"
    /\ Goto("close")
    /\ UNCHANGED <<serverUp, running, motionfd, sockets, refused>>

(* socket_close, as far as close. *)
CloseFd ==
    IF motionfd = "open" THEN sockets' = sockets - 1 ELSE UNCHANGED sockets

(* Broken variant: the socket is closed when the client is interrupted. *)
CloseLate ==
    /\ pc = "close"
    /\ IF running THEN UNCHANGED sockets ELSE CloseFd
    /\ motionfd' = IF motionfd = "terminal" THEN motionfd ELSE "closed"
    /\ Goto("forget")
    /\ UNCHANGED <<serverUp, running, refused>>

Close ==
    /\ pc = "close"
    /\ CloseFd
    /\ motionfd' = IF motionfd = "terminal" THEN motionfd ELSE "closed"
    /\ Goto("forget")
    /\ UNCHANGED <<serverUp, running, refused>>

Forget ==
    /\ pc = "forget"
    /\ motionfd' = "terminal"
    /\ Goto("test")
    /\ UNCHANGED <<serverUp, running, sockets, refused>>

(* cleanup.  The socket of a read that waits is closed, and the read fails *)
(* when it is restarted.                                                   *)
SigInt ==
    /\ pc # "done"
    /\ running' = FALSE
    /\ CloseFd
    /\ motionfd' = "terminal"
    /\ \/ UNCHANGED pc
       \/ pc = "read" /\ motionfd = "open" /\ Goto("close")
    /\ UNCHANGED <<serverUp, refused>>

-----------------------------------------------------------------------------
ClientStep == \/ Test \/ SocketInit \/ ConnectFails \/ Connect \/ Write \/ Close
              \/ Forget

ClientNext == ClientStep \/ Read \/ SigInt

-----------------------------------------------------------------------------
(* Between two rounds the client holds one socket for each connection that *)
(* was refused and no other.                                               *)
SocketPerRefusal == pc = "test" /\ running => sockets = refused

(* An interrupted client ends, or waits in a read: nothing else holds it.  *)
QuitEnds == ~running ~> (pc \in {"read", "done"})
===============================================================================
