----------------------------- MODULE MotionPeers -----------------------------
(***************************************************************************)
(* The processes that talk to a motion server: the fake camera, which      *)
(* notifies it, and the motion client, which asks it.  The server is up or *)
(* not, and is started and stopped at any time.                            *)
(***************************************************************************)
EXTENDS FakeCamera

VARIABLES pc, running, clientfd, sockets, refused

Client == INSTANCE MotionClient WITH motionfd <- clientfd, MaxSockets <- MaxFds

clientVars == <<pc, running, clientfd, sockets, refused>>

PeersInit == Init /\ Client!Init

Camera == CameraStep /\ UNCHANGED clientVars
Asker == Client!ClientStep /\ UNCHANGED cameraVars
AskerWaits == Client!Read /\ UNCHANGED cameraVars
Interrupt == Client!SigInt /\ UNCHANGED cameraVars
ServerSwitch == serverUp' = ~serverUp /\ UNCHANGED <<cameraVars, clientVars>>

PeersNext == Camera \/ Asker \/ AskerWaits \/ Interrupt \/ ServerSwitch

(* The client's statements follow each other; what it reads need not come. *)
PeersSpec == /\ PeersInit /\ [][PeersNext]_<<serverUp, cameraVars, clientVars>>
             /\ WF_clientVars(Asker)

(* Frame numbers stay in the film, and no descriptor is counted twice. *)
PeersTypeOK == TypeOK /\ Client!TypeOK

(* The properties of both processes with the server's comings and goings.  *)
SocketsAccounted == SocketPerFailure /\ Client!SocketPerRefusal
QuitEnds == Client!QuitEnds
==============================================================================
