-------------------------- MODULE MotionPeersProofs --------------------------
(***************************************************************************)
(* What the sockets of the fake camera and of the motion client add up to, *)
(* for every film, every number of descriptors and whatever the motion     *)
(* server and the user do.                                                 *)
(***************************************************************************)
EXTENDS MotionPeers, TLAPS

USE FramesAssumption, MaxFdsAssumption
USE DEF cameraVars, clientVars

-----------------------------------------------------------------------------
(* The inductive invariant *)

\* The camera's descriptors: the socket capture_open_stream forgot, one for
\* each notification that failed, and what the statement it is at holds.
CameraInv ==
    /\ at = "open" => fds = 0 /\ failed = 0
    /\ at \in {"frame", "detect", "socket", "use"} => fds = failed + 1
    /\ at \in {"read", "write"} => fds = failed + 2
    /\ at = "write" => motionfd = "open"
    /\ at = "connect" => \/ motionfd = "open" /\ fds = failed + 2
                         \/ motionfd = "failed" /\ fds = failed + 1

\* The client's sockets while nobody has interrupted it: one for each refusal,
\* and the one it talks over.
Talking ==
    running =>
        /\ pc \in {"test", "socket", "forget"} => sockets = refused
        /\ pc \in {"write", "read", "close"}
              => clientfd = "open" /\ sockets = refused + 1
        /\ pc = "connect" => \/ clientfd = "open" /\ sockets = refused + 1
                             \/ clientfd = "failed" /\ sockets = refused
        /\ pc # "done"

\* cleanup closes a socket the client holds, and an interrupted client makes
\* one more attempt at most.
Interrupted ==
    /\ clientfd = "open" => sockets >= 1
    /\ ~running /\ pc \in {"socket", "connect"} => refused <= MaxFds

IInv == PeersTypeOK /\ CameraInv /\ Talking /\ Interrupted

-----------------------------------------------------------------------------
(* The invariant is inductive *)

\* No process holds anything when it starts.
LEMMA InitIInv == PeersInit => IInv
<1> SUFFICES ASSUME PeersInit PROVE IInv
  OBVIOUS
<1>1. TypeOK /\ CameraInv
  <2>1. StartFrame \in StartFrame .. NumFrames /\ 0 \in 0 .. MaxFds
    OBVIOUS
  <2>2. TypeOK
    BY <2>1 DEF PeersInit, Init, TypeOK, Labels
  <2>3. CameraInv
    BY DEF PeersInit, Init, CameraInv
  <2>4. QED
    BY <2>2, <2>3
<1>2. Client!TypeOK /\ Talking /\ Interrupted
  BY DEF PeersInit, Client!Init, Client!TypeOK, Talking, Interrupted
<1>3. QED
  BY <1>1, <1>2 DEF IInv, PeersTypeOK

\* A statement of the capture code keeps the account of the camera.
LEMMA CameraStepInv == TypeOK /\ CameraInv /\ CameraStep => TypeOK' /\ CameraInv'
<1> SUFFICES ASSUME TypeOK, CameraInv, CameraStep PROVE TypeOK' /\ CameraInv'
  OBVIOUS
<1> USE DEF TypeOK, CameraInv, Labels, Goto
<1>1. CASE OpenStream
  BY <1>1 DEF OpenStream, MotionInit
<1>2. CASE OpenFrame
  BY <1>2 DEF OpenFrame
<1>3. CASE ReadFrame
  BY <1>3 DEF ReadFrame
<1>4. CASE Detect
  BY <1>4 DEF Detect
<1>5. CASE NotifySocket
  BY <1>5 DEF NotifySocket, MotionInit
<1>6. CASE ConnectFails
  BY <1>6 DEF ConnectFails
<1>7. CASE Connect
  BY <1>7 DEF Connect
<1>8. CASE Notify
  BY <1>8 DEF Notify
<1>9. CASE Use
  BY <1>9 DEF Use
<1>10. CASE CloseStream
  BY <1>10 DEF CloseStream
<1>11. QED
  BY <1>1, <1>2, <1>3, <1>4, <1>5, <1>6, <1>7, <1>8, <1>9, <1>10 DEF CameraStep

ClientInv == Client!TypeOK /\ Talking /\ Interrupted

\* So does a statement of the client, and a signal between any two of them.
LEMMA ClientStepInv == ClientInv /\ Client!ClientNext => ClientInv'
<1> SUFFICES ASSUME ClientInv, Client!ClientNext PROVE ClientInv'
  OBVIOUS
<1> USE DEF ClientInv, Client!TypeOK, Talking, Interrupted, Client!Goto
<1>1. CASE Client!Test
  BY <1>1 DEF Client!Test
<1>2. CASE Client!SocketInit
  BY <1>2 DEF Client!SocketInit
<1>3. CASE Client!ConnectFails
  BY <1>3 DEF Client!ConnectFails
<1>4. CASE Client!Connect
  BY <1>4 DEF Client!Connect
<1>5. CASE Client!Write
  BY <1>5 DEF Client!Write
<1>6. CASE Client!Read
  BY <1>6 DEF Client!Read
<1>7. CASE Client!Close
  BY <1>7 DEF Client!Close, Client!CloseFd
<1>8. CASE Client!Forget
  BY <1>8 DEF Client!Forget
<1>9. CASE Client!SigInt
  <2>1. running' = FALSE /\ clientfd' = "terminal" /\ refused' = refused
    BY <1>9 DEF Client!SigInt
  <2>2. pc' = pc \/ (pc = "read" /\ pc' = "close")
    BY <1>9 DEF Client!SigInt
  <2>3. sockets' \in 0 .. MaxFds
    BY <1>9 DEF Client!SigInt, Client!CloseFd
  <2>4. pc \in {"socket", "connect"} => refused <= MaxFds
    BY DEF Talking
  <2>5. QED
    BY <2>1, <2>2, <2>3, <2>4
<1>10. QED
  BY <1>1, <1>2, <1>3, <1>4, <1>5, <1>6, <1>7, <1>8, <1>9
  DEF Client!ClientNext, Client!ClientStep

\* The processes share nothing but the motion server.
LEMMA NextIInv ==
    IInv /\ [PeersNext]_<<serverUp, cameraVars, clientVars>> => IInv'
<1> SUFFICES ASSUME IInv, [PeersNext]_<<serverUp, cameraVars, clientVars>>
             PROVE  IInv'
  OBVIOUS
<1>1. TypeOK /\ CameraInv /\ ClientInv
  BY DEF IInv, PeersTypeOK, ClientInv
<1>2. TypeOK' /\ CameraInv' /\ ClientInv' => IInv'
  BY DEF IInv, PeersTypeOK, ClientInv
<1>3. CASE Camera
  <2>1. ClientInv'
    BY <1>1, <1>3 DEF Camera, ClientInv, Client!TypeOK, Talking, Interrupted
  <2>2. QED
    BY <1>1, <1>2, <1>3, <2>1, CameraStepInv DEF Camera
<1>4. CASE Asker \/ AskerWaits \/ Interrupt
  <2>1. Client!ClientNext /\ UNCHANGED cameraVars
    BY <1>4 DEF Asker, AskerWaits, Interrupt, Client!ClientNext
  <2>2. serverUp' = serverUp
    BY <2>1 DEF Client!ClientNext, Client!ClientStep, Client!Test, Client!SocketInit,
       Client!ConnectFails, Client!Connect, Client!Write, Client!Read,
       Client!Close, Client!Forget, Client!SigInt
  <2>3. TypeOK' /\ CameraInv'
    BY <1>1, <2>1, <2>2 DEF TypeOK, CameraInv
  <2>4. QED
    BY <1>1, <1>2, <2>1, <2>3, ClientStepInv
<1>5. CASE ServerSwitch
  BY <1>1, <1>2, <1>5 DEF ServerSwitch, TypeOK, CameraInv, ClientInv, Client!TypeOK,
     Talking, Interrupted
<1>6. CASE UNCHANGED <<serverUp, cameraVars, clientVars>>
  BY <1>1, <1>2, <1>6 DEF TypeOK, CameraInv, ClientInv, Client!TypeOK, Talking,
     Interrupted
<1>7. QED
  BY <1>3, <1>4, <1>5, <1>6 DEF PeersNext

\* The invariant holds in every reachable state.
THEOREM Inductive == PeersSpec => []IInv
BY InitIInv, NextIInv, PTL DEF PeersSpec

-----------------------------------------------------------------------------
(* Results *)

\* Frame numbers stay in the film, and neither process holds more descriptors
\* than there are or gives back one it does not hold.
THEOREM Typing == PeersSpec => []PeersTypeOK
<1>1. IInv => PeersTypeOK
  BY DEF IInv
<1>2. QED
  BY Inductive, <1>1, PTL

\* Whenever the motion server comes and goes, what the camera and the client
\* have lost is a socket for every attempt that failed, and nothing else.
THEOREM Accounted == PeersSpec => []SocketsAccounted
<1>1. IInv => SocketsAccounted
  BY DEF IInv, CameraInv, Talking, SocketsAccounted, SocketPerFailure,
     Client!SocketPerRefusal
<1>2. QED
  BY Inductive, <1>1, PTL
==============================================================================
