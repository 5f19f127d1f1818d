---------------------------- MODULE CameraServer ----------------------------
(***************************************************************************)
(* The camera process: C/source/production/server.c on top of              *)
(* camera_monitor.c, with the frame numbering of fakecapture.c.            *)
(*                                                                         *)
(* Its threads are main(), bg_task, serve_clients ("serve", run by         *)
(* main_task), and the three threads try_accept creates for the client it  *)
(* serves: take_picture_task ("take"), send_picture_task ("send") and      *)
(* update_mode_task ("mode").  pc says where each of them is; a label      *)
(* stands for the statement the thread executes next.                      *)
(*                                                                         *)
(* global_mutex is held over several steps by take and send only.  The     *)
(* critical sections of is_running, server_quit and bg_task, and every     *)
(* accessor of camera_monitor.c (each of them under camera_mutex, inside   *)
(* which no other lock is taken), are single steps.                        *)
(***************************************************************************)
EXTENDS Naturals, Sequences

CONSTANTS
    NumFrames,   \* length of the cyclic sequence of frames (NUM_FRAMES)
    MaxUnread,   \* bound: mode bytes sent and not yet read
    MaxBacklog,  \* bound: connections waiting in a listen queue
    Faults       \* the library calls that may fail

Fault == {"malloc", "poll", "camera", "accept", "create"}

ASSUME NumFramesAssumption == NumFrames \in Nat \ {0, 1}
ASSUME BoundsAssumption == MaxUnread \in Nat /\ MaxBacklog \in Nat
ASSUME FaultsAssumption == Faults \subseteq Fault

-----------------------------------------------------------------------------
(* Values *)

Session == {"take", "send", "mode"}              \* threads of one client
Thread == Session \cup {"bg", "serve", "main"}
Free == "free"                                   \* global_mutex not held

TAKE_PIC_STATE == 0
SEND_PIC_STATE == 1

IDLE_MODE == 0
MOVIE_MODE == 1
Mode == {IDLE_MODE, MOVIE_MODE}

Frame == 0 .. NumFrames - 1

\* Broken variant: the wrap-around of frame_nr is forgotten.
NextFrameNoWrap(n) == n + 1

\* capture_get_frame: stream->frame_nr++ and back to START_FRAME at the end.
NextFrame(n) == IF n = NumFrames - 1 THEN 0 ELSE n + 1

\* Broken variant: both threads wait for the same value.
TurnSame(t) == TAKE_PIC_STATE

\* The value of pic_take_send the thread waits for.
Turn(t) == IF t = "take" THEN TAKE_PIC_STATE ELSE SEND_PIC_STATE

VARIABLES
    pc,           \* where each thread is
    mutex,        \* holder of global_mutex
    running,      \* global_state.running
    camera,       \* global_state.cam # NULL
    cam,          \* cam_mon->cam # NULL
    picTakeSend,  \* cam_mon->pic_take_send
    mode,         \* cam_mon->mode
    packet,       \* cam_mon->pic_packet: the frame in it
    packetSize,   \* cam_mon->packet_sz: the frame it is the size of
    frameNr,      \* stream->frame_nr: the next frame of the camera
    fr,           \* local frame of take_picture_task
    outPacket,    \* local pic_packet of client_send_frame
    sent,         \* the last frame given to client_write_n
    isConnected,  \* client->isConnected
    dangling,     \* client has been freed and threads still use it
    connfd,       \* cam_mon->connfd
    connmodefd,   \* cam_mon->connmodefd and what its client has done
    modeStream,   \* mode bytes on that connection not yet read
    lastByte,     \* buf[0] of update_mode_task
    picBacklog,   \* connections waiting on listenfd
    modeBacklog   \* connections waiting on modefd

lockVars == <<mutex, picTakeSend>>
stateVars == <<running, camera, cam>>
modeVars == <<mode, lastByte>>
frameVars == <<packet, packetSize, frameNr, fr, outPacket, sent>>
clientVars == <<isConnected, dangling, connfd>>
streamVars == <<connmodefd, modeStream>>
netVars == <<picBacklog, modeBacklog>>

data == <<lockVars, stateVars, modeVars, frameVars, clientVars, streamVars,
          netVars>>
vars == <<pc, data>>

Go(t, l) == pc' = [pc EXCEPT ![t] = l]

-----------------------------------------------------------------------------
(* Helpers *)

\* pthread_cond_broadcast(&global_cond): all waiters go for the mutex again.
Wake(p) == [t \in Thread |-> IF p[t] = "wait" THEN "lock" ELSE p[t]]

\* Broken variant: a test of the opposite.
ConnectedInverted == {~isConnected}

\* What a thread may read from client->isConnected: anything once freed.
Connected == IF dangling THEN BOOLEAN ELSE {isConnected}

Alive(t) == pc[t] \notin {"none", "done"}

\* The steps take and send execute holding global_mutex.
Critical(t) ==
    IF t = "take"
    THEN {"mode", "sleep", "capture", "saveSize", "savePacket", "flip"}
    ELSE {"get", "write", "flip"}

Init ==
    /\ pc = [t \in Thread |-> CASE t \in Session -> "none"
                                [] t = "bg" -> "lock"
                                [] t = "serve" -> "alloc"
                                [] t = "main" -> "joinBg"]
    /\ mutex = Free
    /\ running = TRUE
    /\ camera = FALSE
    /\ cam = FALSE
    /\ picTakeSend = TAKE_PIC_STATE
    /\ mode = IDLE_MODE
    \* No frame yet: the frame before the first stands for it.
    /\ packet = NumFrames - 1
    /\ packetSize = NumFrames - 1
    /\ fr = NumFrames - 1
    /\ outPacket = NumFrames - 1
    /\ sent = NumFrames - 1
    /\ frameNr = 0
    /\ isConnected = FALSE
    /\ dangling = FALSE
    /\ connfd = "none"
    /\ connmodefd = "none"
    /\ modeStream = <<>>
    /\ lastByte = IDLE_MODE
    /\ picBacklog = 0
    /\ modeBacklog = 0

-----------------------------------------------------------------------------
(* take_picture_task and send_picture_task: the frame around their work *)

\* while(client->isConnected), in all three session threads.
Loop(t) ==
    /\ pc[t] = "loop"
    /\ \E c \in Connected :
          Go(t, IF ~c THEN "close" ELSE IF t = "mode" THEN "read" ELSE "lock")
    /\ UNCHANGED data

\* The first statement after the wait loop.
Work(t) == IF t = "take" THEN "mode" ELSE "get"

\* pthread_mutex_lock (also the one that ends pthread_cond_wait) and the test
\* of the wait loop; when it is not its turn the thread waits, which releases.
Enter(t) ==
    /\ pc[t] = "lock"
    /\ mutex = Free
    /\ IF picTakeSend = Turn(t)
       THEN mutex' = t /\ Go(t, Work(t))
       ELSE Go(t, "wait") /\ UNCHANGED mutex
    /\ UNCHANGED <<picTakeSend, stateVars, modeVars, frameVars, clientVars,
                   streamVars, netVars>>

\* flip_pic_take_send and pthread_mutex_unlock.
Flip(t) ==
    /\ pc[t] = "flip"
    /\ picTakeSend' = IF picTakeSend = SEND_PIC_STATE THEN TAKE_PIC_STATE
                                                      ELSE SEND_PIC_STATE
    /\ mutex' = Free
    /\ Go(t, "bcast")
    /\ UNCHANGED <<stateVars, modeVars, frameVars, clientVars, streamVars,
                   netVars>>

\* Broken variant: the broadcast is forgotten.
BcastForgotten(t) ==
    /\ pc[t] = "bcast"
    /\ Go(t, "loop")
    /\ UNCHANGED data

\* pthread_cond_broadcast, called after the mutex has been released.
Bcast(t) ==
    /\ pc[t] = "bcast"
    /\ pc' = [Wake(pc) EXCEPT ![t] = "loop"]
    /\ UNCHANGED data

\* return close(cam_mon->connfd): the second thread to get here gets EBADF.
Close(t) ==
    /\ pc[t] = "close"
    /\ Go(t, "done")
    /\ connfd' = IF connfd = "open" THEN "closed" ELSE connfd
    /\ UNCHANGED <<lockVars, stateVars, modeVars, frameVars, isConnected,
                   dangling, streamVars, netVars>>

-----------------------------------------------------------------------------
(* take_picture_task: what it does in its turn *)

\* get_mode, then sleep(5) in idle mode, global_mutex held.
TakeMode ==
    /\ pc["take"] = "mode"
    /\ Go("take", IF mode = IDLE_MODE THEN "sleep" ELSE "capture")
    /\ UNCHANGED data

TakeSleep ==
    /\ pc["take"] = "sleep"
    /\ Go("take", "capture")
    /\ UNCHANGED data

\* camera_get_frame; without a camera the turn ends with a message only.
TakeCapture ==
    /\ pc["take"] = "capture"
    /\ IF cam
       THEN /\ fr' = frameNr
            /\ frameNr' = NextFrame(frameNr)
            /\ Go("take", "saveSize")
       ELSE Go("take", "flip") /\ UNCHANGED <<frameNr, fr>>
    /\ UNCHANGED <<lockVars, stateVars, modeVars, packet, packetSize,
                   outPacket, sent, clientVars, streamVars, netVars>>

\* Broken variant: the turn is passed on before the packet has been saved.
TakeSaveSizeEarlyTurn ==
    /\ pc["take"] = "saveSize"
    /\ packetSize' = fr
    /\ picTakeSend' = SEND_PIC_STATE
    /\ mutex' = Free
    /\ Go("take", "savePacket")
    /\ UNCHANGED <<stateVars, modeVars, packet, frameNr, fr, outPacket, sent,
                   clientVars, streamVars, netVars>>

\* client_save_frame: save_packet_size, one acquisition of camera_mutex.
TakeSaveSize ==
    /\ pc["take"] = "saveSize"
    /\ packetSize' = fr
    /\ Go("take", "savePacket")
    /\ UNCHANGED <<lockVars, stateVars, modeVars, packet, frameNr, fr,
                   outPacket, sent, clientVars, streamVars, netVars>>

\* client_save_frame: save_packet, another one.
TakeSavePacket ==
    /\ pc["take"] = "savePacket"
    /\ packet' = fr
    /\ Go("take", "flip")
    /\ UNCHANGED <<lockVars, stateVars, modeVars, packetSize, frameNr, fr,
                   outPacket, sent, clientVars, streamVars, netVars>>

-----------------------------------------------------------------------------
(* send_picture_task: what it does in its turn *)

\* client_send_frame: get_packet copies the packet.
SendGet ==
    /\ pc["send"] = "get"
    /\ IF cam
       THEN outPacket' = packet /\ Go("send", "write")
       ELSE Go("send", "flip") /\ UNCHANGED outPacket
    /\ UNCHANGED <<lockVars, stateVars, modeVars, packet, packetSize,
                   frameNr, fr, sent, clientVars, streamVars, netVars>>

\* get_packet_size and client_write_n.  An error or a short write is reported
\* on the console and changes nothing, whatever has happened to connfd.
SendWrite ==
    /\ pc["send"] = "write"
    /\ sent' = outPacket
    /\ Go("send", "flip")
    /\ UNCHANGED <<lockVars, stateVars, modeVars, packet, packetSize,
                   frameNr, fr, outPacket, clientVars, streamVars, netVars>>

-----------------------------------------------------------------------------
(* update_mode_task *)

\* Broken variant: the byte is read and forgotten (set_mode not reached).
ModeReadByteDropped ==
    /\ pc["mode"] = "read"
    /\ modeStream # <<>>
    /\ modeStream' = Tail(modeStream)
    /\ Go("mode", "set")
    /\ UNCHANGED <<lockVars, stateVars, modeVars, frameVars, clientVars,
                   connmodefd, netVars>>

\* read returns 1.
ModeReadByte ==
    /\ pc["mode"] = "read"
    /\ modeStream # <<>>
    /\ lastByte' = Head(modeStream)
    /\ modeStream' = Tail(modeStream)
    /\ Go("mode", "set")
    /\ UNCHANGED <<lockVars, stateVars, mode, frameVars, clientVars,
                   connmodefd, netVars>>

\* read returns 0: the client has closed; buf[0] is then set as the mode again.
ModeReadEof ==
    /\ pc["mode"] = "read"
    /\ modeStream = <<>>
    /\ connmodefd = "eof"
    /\ isConnected' = FALSE
    /\ Go("mode", "set")
    /\ UNCHANGED <<lockVars, stateVars, modeVars, frameVars, dangling,
                   connfd, streamVars, netVars>>

\* read returns -1: the thread ends; isConnected and connmodefd stay.
ModeReadError ==
    /\ pc["mode"] = "read"
    /\ modeStream = <<>>
    /\ connmodefd \in {"none", "reset"}
    /\ Go("mode", "done")
    /\ UNCHANGED data

ModeSet ==
    /\ pc["mode"] = "set"
    /\ mode' = lastByte
    /\ Go("mode", "loop")
    /\ UNCHANGED <<lockVars, stateVars, lastByte, frameVars, clientVars,
                   streamVars, netVars>>

\* Broken variant: the thread returns without close(cam_mon->connmodefd).
ModeCloseNot ==
    /\ pc["mode"] = "close"
    /\ Go("mode", "done")
    /\ UNCHANGED data

ModeClose ==
    /\ pc["mode"] = "close"
    /\ Go("mode", "done")
    /\ connmodefd' = "closed"
    /\ UNCHANGED <<lockVars, stateVars, modeVars, frameVars, clientVars,
                   modeStream, netVars>>

-----------------------------------------------------------------------------
(* bg_task and main *)

\* Lock, test of running, then pthread_cond_wait or unlock and return.
BgCheck ==
    /\ pc["bg"] = "lock"
    /\ mutex = Free
    /\ Go("bg", IF running THEN "wait" ELSE "done")
    /\ UNCHANGED data

\* join_bg_thread of bg_thread.
MainJoinBg ==
    /\ pc["main"] = "joinBg"
    /\ pc["bg"] = "done"
    /\ Go("main", "joinMain")
    /\ UNCHANGED data

\* join_bg_thread of main_thread; the one of update_mode_thread, which
\* try_accept has joined before or never created, is not modelled.  Returning
\* from main ends every thread.
MainJoinMain ==
    /\ pc["main"] = "joinMain"
    /\ pc["serve"] = "done"
    /\ pc' = [t \in Thread |-> IF t = "main" THEN "exited" ELSE "done"]
    /\ mutex' = Free
    /\ UNCHANGED <<picTakeSend, stateVars, modeVars, frameVars, clientVars,
                   streamVars, netVars>>

-----------------------------------------------------------------------------
(* serve_clients and try_accept *)

\* malloc and client_init, which forgets the camera and the descriptor.
ServeAlloc ==
    /\ pc["serve"] = "alloc"
    /\ Go("serve", "poll")
    /\ cam' = FALSE
    /\ connfd' = "none"
    /\ UNCHANGED <<lockVars, running, camera, modeVars, frameVars,
                   isConnected, dangling, streamVars, netVars>>

\* malloc fails: close_camera and return, the only way out of the loop.
ServeAllocFails ==
    /\ pc["serve"] = "alloc"
    /\ "malloc" \in Faults
    /\ Go("serve", "done")
    /\ camera' = FALSE
    /\ UNCHANGED <<lockVars, running, cam, modeVars, frameVars, clientVars,
                   streamVars, netVars>>

\* The poll loop ends: a connection is there or the server is not running.
\* (The iterations that poll again change nothing.)
ServePoll ==
    /\ pc["serve"] = "poll"
    /\ mutex = Free
    /\ \/ running /\ picBacklog > 0 /\ Go("serve", "accept")
       \/ ~running /\ Go("serve", "free")
    /\ UNCHANGED data

ServePollFails ==
    /\ pc["serve"] = "poll"
    /\ "poll" \in Faults
    /\ Go("serve", "quit")
    /\ UNCHANGED data

\* try_accept: the camera is opened once and kept.
ServeCameraFails ==
    /\ pc["serve"] = "accept"
    /\ ~camera
    /\ "camera" \in Faults
    /\ Go("serve", "quit")
    /\ UNCHANGED data

\* try_accept: accept(listenfd).  A failure is looked at after the next one.
ServeAccept ==
    /\ pc["serve"] = "accept"
    /\ camera' = TRUE
    /\ cam' = TRUE
    /\ \/ picBacklog > 0 /\ picBacklog' = picBacklog - 1 /\ connfd' = "open"
       \/ "accept" \in Faults /\ connfd' = "none" /\ UNCHANGED picBacklog
    /\ Go("serve", "acceptMode")
    /\ UNCHANGED <<lockVars, running, modeVars, frameVars, isConnected,
                   dangling, streamVars, modeBacklog>>

\* try_accept: accept(modefd) blocks until some client connects there; its
\* failure is not looked at.
ServeAcceptMode ==
    /\ pc["serve"] = "acceptMode"
    /\ \/ /\ modeBacklog > 0
          /\ modeBacklog' = modeBacklog - 1
          /\ connmodefd' = "open"
       \/ "accept" \in Faults /\ connmodefd' = "none" /\ UNCHANGED modeBacklog
    /\ modeStream' = <<>>
    /\ isConnected' = TRUE
    /\ Go("serve", IF connfd = "none" THEN "quit" ELSE "create")
    /\ UNCHANGED <<lockVars, stateVars, modeVars, frameVars, dangling,
                   connfd, picBacklog>>

\* try_accept: pthread_create of the three session threads.
ServeCreate ==
    /\ pc["serve"] = "create"
    /\ pc' = [t \in Thread |-> CASE t \in Session -> "loop"
                                 [] t = "serve" -> "join"
                                 [] OTHER -> pc[t]]
    /\ lastByte' = IDLE_MODE
    /\ UNCHANGED <<lockVars, stateVars, mode, frameVars, clientVars,
                   streamVars, netVars>>

\* Broken variant: the failure is reported without stopping the server.
ServeCreateFailsSilently ==
    /\ pc["serve"] = "create"
    /\ "create" \in Faults
    /\ \E started \in {{}, {"take"}, {"take", "send"}} :
          pc' = [t \in Thread |-> IF t \in started THEN "loop"
                                  ELSE IF t = "serve" THEN "free" ELSE pc[t]]
    /\ UNCHANGED data

\* One of the three fails, the earlier ones run on; pthread_create has left
\* its error in errno, so try_accept returns it.
ServeCreateFails ==
    /\ pc["serve"] = "create"
    /\ "create" \in Faults
    /\ \E started \in {{}, {"take"}, {"take", "send"}} :
          pc' = [t \in Thread |-> IF t \in started THEN "loop"
                                  ELSE IF t = "serve" THEN "quit" ELSE pc[t]]
    /\ UNCHANGED data

\* pthread_join of the three.
ServeJoin ==
    /\ pc["serve"] = "join"
    /\ \A t \in Session : pc[t] = "done"
    /\ Go("serve", "free")
    /\ UNCHANGED data

\* Broken variant: running is cleared without a broadcast.
ServeQuitQuietly ==
    /\ pc["serve"] = "quit"
    /\ mutex = Free
    /\ running' = FALSE
    /\ Go("serve", "free")
    /\ UNCHANGED <<lockVars, camera, cam, modeVars, frameVars, clientVars,
                   streamVars, netVars>>

\* server_quit (global_state.quit is written only and left out).
ServeQuit ==
    /\ pc["serve"] = "quit"
    /\ mutex = Free
    /\ running' = FALSE
    /\ pc' = [Wake(pc) EXCEPT !["serve"] = "free"]
    /\ UNCHANGED <<lockVars, camera, cam, modeVars, frameVars, clientVars,
                   streamVars, netVars>>

\* client->isConnected = false; free(client).
ServeFree ==
    /\ pc["serve"] = "free"
    /\ isConnected' = FALSE
    /\ dangling' = \E t \in Session : Alive(t)
    /\ Go("serve", "alloc")
    /\ UNCHANGED <<lockVars, stateVars, modeVars, frameVars, connfd,
                   streamVars, netVars>>

-----------------------------------------------------------------------------
(* The clients, and the C library *)

ClientConnectsPicture ==
    /\ picBacklog < MaxBacklog
    /\ picBacklog' = picBacklog + 1
    /\ UNCHANGED <<pc, lockVars, stateVars, modeVars, frameVars, clientVars,
                   streamVars, modeBacklog>>

ClientConnectsMode ==
    /\ modeBacklog < MaxBacklog
    /\ modeBacklog' = modeBacklog + 1
    /\ UNCHANGED <<pc, lockVars, stateVars, modeVars, frameVars, clientVars,
                   streamVars, picBacklog>>

\* ModeSender writes one byte.
ClientSendsMode ==
    /\ connmodefd = "open"
    /\ Len(modeStream) < MaxUnread
    /\ \E m \in Mode : modeStream' = Append(modeStream, m)
    /\ UNCHANGED <<pc, lockVars, stateVars, modeVars, frameVars, clientVars,
                   connmodefd, netVars>>

\* The client closes its mode connection, or the connection is reset.  What
\* it has sent before is still read (tcp delivers it first).
ClientLeaves ==
    /\ connmodefd = "open"
    /\ connmodefd' \in {"eof", "reset"}
    /\ UNCHANGED <<pc, lockVars, stateVars, modeVars, frameVars, clientVars,
                   modeStream, netVars>>

\* pthread_cond_wait may return without a broadcast.
SpuriousWakeup(t) ==
    /\ pc[t] = "wait"
    /\ Go(t, "lock")
    /\ UNCHANGED data

-----------------------------------------------------------------------------
(* Specification *)

Picture == {"take", "send"}

Take == TakeMode \/ TakeSleep \/ TakeCapture \/ TakeSaveSize \/ TakeSavePacket

Send == SendGet \/ SendWrite

ModeUpdate == ModeReadByte \/ ModeReadEof \/ ModeReadError \/ ModeSet
              \/ ModeClose

\* serve_clients but for the library calls that fail.
ServeRuns == ServeAlloc \/ ServePoll \/ ServeAccept \/ ServeAcceptMode
             \/ ServeCreate \/ ServeJoin \/ ServeQuit \/ ServeFree

ServeFails == ServeAllocFails \/ ServePollFails \/ ServeCameraFails
              \/ ServeCreateFails

Main == MainJoinBg \/ MainJoinMain

Client == ClientConnectsPicture \/ ClientConnectsMode \/ ClientSendsMode
          \/ ClientLeaves

Next ==
    \/ \E t \in Session : Loop(t)
    \/ \E t \in Picture : Enter(t) \/ Flip(t) \/ Bcast(t) \/ Close(t)
    \/ \E t \in Picture \cup {"bg"} : SpuriousWakeup(t)
    \/ Take
    \/ Send
    \/ ModeUpdate
    \/ BgCheck
    \/ Main
    \/ ServeRuns
    \/ ServeFails
    \/ Client

Spec == Init /\ [][Next]_vars

\* Every thread runs on when it can.  A thread that keeps asking for
\* global_mutex gets it in the end, although others may take it in between.
\* Nothing is assumed of clients, failures and spurious wakeups.
Fairness ==
    /\ \A t \in Session : WF_vars(Loop(t))
    /\ \A t \in Picture :
          /\ SF_vars(Enter(t))
          /\ WF_vars(Flip(t))
          /\ WF_vars(Bcast(t))
          /\ WF_vars(Close(t))
    /\ WF_vars(Take)
    /\ WF_vars(Send)
    /\ WF_vars(ModeUpdate)
    /\ SF_vars(BgCheck)
    /\ SF_vars(ServeRuns)
    /\ WF_vars(Main)

FairSpec == Spec /\ Fairness

-----------------------------------------------------------------------------
(* Properties *)

Label(t) ==
    CASE t = "take"  -> {"none", "loop", "lock", "wait", "bcast", "close",
                         "done"} \cup Critical("take")
      [] t = "send"  -> {"none", "loop", "lock", "wait", "bcast", "close",
                         "done"} \cup Critical("send")
      [] t = "mode"  -> {"none", "loop", "read", "set", "close", "done"}
      [] t = "bg"    -> {"lock", "wait", "done"}
      [] t = "serve" -> {"alloc", "poll", "accept", "acceptMode", "create",
                         "join", "quit", "free", "done"}
      [] t = "main"  -> {"joinBg", "joinMain", "exited"}

\* Every variable has its type.
TypeOK ==
    /\ DOMAIN pc = Thread
    /\ \A t \in Thread : pc[t] \in Label(t)
    /\ mutex \in Picture \cup {Free}
    /\ running \in BOOLEAN
    /\ camera \in BOOLEAN
    /\ cam \in BOOLEAN
    /\ picTakeSend \in {TAKE_PIC_STATE, SEND_PIC_STATE}
    /\ mode \in Mode
    /\ lastByte \in Mode
    /\ packet \in Frame
    /\ packetSize \in Frame
    /\ frameNr \in Frame
    /\ fr \in Frame
    /\ outPacket \in Frame
    /\ sent \in Frame
    /\ isConnected \in BOOLEAN
    /\ dangling \in BOOLEAN
    /\ connfd \in {"none", "open", "closed"}
    /\ connmodefd \in {"none", "open", "eof", "reset", "closed"}
    /\ modeStream \in Seq(Mode)
    /\ Len(modeStream) <= MaxUnread
    /\ picBacklog \in 0 .. MaxBacklog
    /\ modeBacklog \in 0 .. MaxBacklog

\* The bytes send_picture_task writes and the length it writes them with
\* belong to one frame, although save_packet_size, save_packet, get_packet and
\* get_packet_size each take camera_mutex on their own.
NoTornPacket == pc["send"] = "write" => packetSize = outPacket

\* A picture thread that waits while pic_take_send says it is its turn is
\* about to be woken by the other one: flipping the flag, unlocking and only
\* then broadcasting loses no wakeup.
NoLostTurn ==
    /\ pc["take"] = "wait" /\ picTakeSend = TAKE_PIC_STATE
          => pc["send"] = "bcast"
    /\ pc["send"] = "wait" /\ picTakeSend = SEND_PIC_STATE
          => pc["take"] = "bcast"

\* bg_task never waits on when server_quit has cleared running.
NoLostQuit == pc["bg"] = "wait" => running

\* As long as the server runs, no thread of an earlier session is left using
\* the client structure serve_clients has freed.
SessionJoined ==
    running /\ pc["serve"] \in {"alloc", "poll", "accept", "acceptMode", "create"}
        => ~dangling /\ \A t \in Session : ~Alive(t)

\* client_init overwrites cam_mon->connfd, accept cam_mon->connmodefd: in a
\* running server both have been closed by then.
NoDescriptorLeak ==
    running /\ pc["serve"] = "alloc"
        => /\ connfd \in {"none", "closed"}
           /\ connmodefd \in {"none", "closed"}

\* No session thread closes the picture connection of a client that is still
\* connected: the close at the end of both picture tasks is the end of it.
LivePictureConnection ==
    pc["serve"] = "join" /\ isConnected => connfd = "open"

\* The slot of the abstract hand-off is the packet buffer, full from the flip
\* of take_picture_task to the write of send_picture_task.
SlotFull == picTakeSend = SEND_PIC_STATE /\ pc["send"] # "flip"

SlotProduced == IF picTakeSend = SEND_PIC_STATE THEN packet ELSE sent

Slot == INSTANCE Handoff WITH full <- SlotFull,
                              produced <- SlotProduced,
                              consumed <- sent

\* Whatever the threads' speeds, over all sessions: the frames given to the
\* network are the camera's frames in order, none twice and none left out.
HandoffSpec == Slot!Spec

\* A session in which the client stays connected keeps sending frames.
FramesFlow ==
    (pc["serve"] = "join" /\ isConnected)
        ~> (pc["send"] = "write" \/ ~isConnected)

\* A mode byte that has reached the camera is read and becomes the mode, in
\* idle mode and while a picture is being taken or sent as well.
ModeArrives ==
    \A m \in Mode :
        (pc["mode"] = "read" /\ modeStream = <<m>>) ~> (mode = m)

\* The end of a client's mode connection ends its session (server.c:338), so
\* that the next client can be served (server.c:422).
DisconnectEndsSession ==
    (pc["serve"] = "join" /\ ~isConnected) ~> pc["serve"] # "join"
=============================================================================
