------------------------- MODULE CameraServerProofs -------------------------
(***************************************************************************)
(* Proofs about CameraServer, for every length of the frame sequence,      *)
(* every bound and every set of faults.                                    *)
(***************************************************************************)
EXTENDS CameraServer, TLAPS

USE NumFramesAssumption, BoundsAssumption, FaultsAssumption

\* The groups of variables of UNCHANGED are expanded throughout.
USE DEF data, lockVars, stateVars, modeVars, frameVars, clientVars,
        streamVars, netVars

-----------------------------------------------------------------------------
(* Type correctness *)

\* The camera's successor function stays in the frame sequence.
LEMMA NextFrameType ==
    ASSUME NEW n \in Frame
    PROVE  NextFrame(n) \in Frame
BY DEF Frame, NextFrame

\* The initial state is well typed.
LEMMA InitTypeOK == Init => TypeOK
<1> SUFFICES ASSUME Init PROVE TypeOK
  OBVIOUS
<1>1. DOMAIN pc = Thread
  BY DEF Init
<1>2. \A t \in Thread : pc[t] \in Label(t)
  <2>1. \A t \in Session : pc[t] = "none" /\ "none" \in Label(t)
    BY DEF Init, Label, Thread, Session
  <2>2. pc["bg"] \in Label("bg")
    BY DEF Init, Label, Thread, Session
  <2>3. pc["serve"] \in Label("serve")
    BY DEF Init, Label, Thread, Session
  <2>4. pc["main"] \in Label("main")
    BY DEF Init, Label, Thread, Session
  <2>5. QED
    BY <2>1, <2>2, <2>3, <2>4 DEF Thread
<1>3. modeStream \in Seq(Mode) /\ Len(modeStream) <= MaxUnread
  BY DEF Init
<1>4. /\ packet \in Frame /\ packetSize \in Frame /\ frameNr \in Frame
      /\ fr \in Frame /\ outPacket \in Frame /\ sent \in Frame
  BY DEF Init, Frame
<1>5. picBacklog \in 0 .. MaxBacklog /\ modeBacklog \in 0 .. MaxBacklog
  BY DEF Init
<1>6. mode \in Mode /\ lastByte \in Mode
  BY DEF Init, Mode
<1>7. QED
  BY <1>1, <1>2, <1>3, <1>4, <1>5, <1>6 DEF Init, TypeOK

\* Moving a thread to one of its labels keeps every label valid.
LEMMA GoType ==
    ASSUME DOMAIN pc = Thread,
           \A t \in Thread : pc[t] \in Label(t),
           NEW u \in Thread, NEW l \in Label(u), Go(u, l)
    PROVE  /\ DOMAIN pc' = Thread
           /\ \A t \in Thread : pc'[t] \in Label(t)
BY DEF Go

\* The three parts of TypeOK: where the threads are, the bytes on the mode
\* connection, and everything else.
LabelsOK ==
    /\ DOMAIN pc = Thread
    /\ \A t \in Thread : pc[t] \in Label(t)

StreamOK ==
    /\ modeStream \in Seq(Mode)
    /\ Len(modeStream) <= MaxUnread

ValuesOK ==
    /\ mutex \in Picture \cup {Free}
    /\ running \in BOOLEAN
    /\ camera \in BOOLEAN
    /\ cam \in BOOLEAN
    /\ picTakeSend \in {TAKE_PIC_STATE, SEND_PIC_STATE}
    /\ mode \in Mode
    /\ lastByte \in Mode
    /\ packet \in Frame
    /\ packetSize \in Frame
    /\ frameNr \in Frame
    /\ fr \in Frame
    /\ outPacket \in Frame
    /\ sent \in Frame
    /\ isConnected \in BOOLEAN
    /\ dangling \in BOOLEAN
    /\ connfd \in {"none", "open", "closed"}
    /\ connmodefd \in {"none", "open", "eof", "reset", "closed"}
    /\ picBacklog \in 0 .. MaxBacklog
    /\ modeBacklog \in 0 .. MaxBacklog

\* Together they are the types.
LEMMA TypeParts == TypeOK <=> LabelsOK /\ StreamOK /\ ValuesOK
BY DEF TypeOK, LabelsOK, StreamOK, ValuesOK

\* A step moves the threads to labels of theirs.
LEMMA StepKeepsLabels == TypeOK /\ [Next]_vars => LabelsOK'
<1> SUFFICES ASSUME TypeOK, [Next]_vars PROVE LabelsOK'
  OBVIOUS
<1> LabelsOK
  BY TypeParts
<1> USE DEF LabelsOK, Label, Critical, Session, Thread, Picture
<1>1. ASSUME NEW t \in Session, Loop(t) PROVE LabelsOK'
  BY <1>1, GoType DEF Loop, Connected
<1>2. ASSUME NEW t \in Picture, Enter(t) PROVE LabelsOK'
  BY <1>2, GoType DEF Enter, Work, Turn
<1>3. ASSUME NEW t \in Picture, Flip(t) PROVE LabelsOK'
  BY <1>3, GoType DEF Flip
<1>4. ASSUME NEW t \in Picture, Bcast(t) PROVE LabelsOK'
  BY <1>4 DEF Bcast, Wake
<1>5. ASSUME NEW t \in Picture, Close(t) PROVE LabelsOK'
  BY <1>5, GoType DEF Close
<1>6. ASSUME NEW t \in Picture \cup {"bg"}, SpuriousWakeup(t) PROVE LabelsOK'
  BY <1>6, GoType DEF SpuriousWakeup
<1>7. CASE Take
  <2>1. CASE TakeMode
    BY <2>1, GoType DEF TakeMode
  <2>2. CASE TakeSleep
    BY <2>2, GoType DEF TakeSleep
  <2>3. CASE TakeCapture
    BY <2>3, GoType DEF TakeCapture
  <2>4. CASE TakeSaveSize
    BY <2>4, GoType DEF TakeSaveSize
  <2>5. CASE TakeSavePacket
    BY <2>5, GoType DEF TakeSavePacket
  <2>6. QED
    BY <1>7, <2>1, <2>2, <2>3, <2>4, <2>5 DEF Take
<1>8. CASE Send
  <2>1. CASE SendGet
    BY <2>1, GoType DEF SendGet
  <2>2. CASE SendWrite
    BY <2>2, GoType DEF SendWrite
  <2>3. QED
    BY <1>8, <2>1, <2>2 DEF Send
<1>9. CASE ModeUpdate
  <2>1. CASE ModeReadByte
    BY <2>1, GoType DEF ModeReadByte
  <2>2. CASE ModeReadEof
    BY <2>2, GoType DEF ModeReadEof
  <2>3. CASE ModeReadError
    BY <2>3, GoType DEF ModeReadError
  <2>4. CASE ModeSet
    BY <2>4, GoType DEF ModeSet
  <2>5. CASE ModeClose
    BY <2>5, GoType DEF ModeClose
  <2>6. QED
    BY <1>9, <2>1, <2>2, <2>3, <2>4, <2>5 DEF ModeUpdate
<1>10. CASE BgCheck
  BY <1>10, GoType DEF BgCheck
<1>11. CASE Main
  <2>1. CASE MainJoinBg
    BY <2>1, GoType DEF MainJoinBg
  <2>2. CASE MainJoinMain
    BY <2>2 DEF MainJoinMain
  <2>3. QED
    BY <1>11, <2>1, <2>2 DEF Main
<1>12. CASE ServeRuns
  <2>1. CASE ServeAlloc
    BY <2>1, GoType DEF ServeAlloc
  <2>2. CASE ServePoll
    BY <2>2, GoType DEF ServePoll
  <2>3. CASE ServeAccept
    BY <2>3, GoType DEF ServeAccept
  <2>4. CASE ServeAcceptMode
    BY <2>4, GoType DEF ServeAcceptMode
  <2>5. CASE ServeCreate
    BY <2>5 DEF ServeCreate
  <2>6. CASE ServeJoin
    BY <2>6, GoType DEF ServeJoin
  <2>7. CASE ServeQuit
    BY <2>7 DEF ServeQuit, Wake
  <2>8. CASE ServeFree
    BY <2>8, GoType DEF ServeFree
  <2>9. QED
    BY <1>12, <2>1, <2>2, <2>3, <2>4, <2>5, <2>6, <2>7, <2>8 DEF ServeRuns
<1>13. CASE ServeFails
  <2>1. CASE ServeAllocFails
    BY <2>1, GoType DEF ServeAllocFails
  <2>2. CASE ServePollFails
    BY <2>2, GoType DEF ServePollFails
  <2>3. CASE ServeCameraFails
    BY <2>3, GoType DEF ServeCameraFails
  <2>4. CASE ServeCreateFails
    BY <2>4 DEF ServeCreateFails
  <2>5. QED
    BY <1>13, <2>1, <2>2, <2>3, <2>4 DEF ServeFails
<1>14. CASE Client
  BY <1>14 DEF Client, ClientConnectsPicture, ClientConnectsMode,
               ClientSendsMode, ClientLeaves
<1>15. CASE UNCHANGED vars
  BY <1>15 DEF vars
<1>16. QED
  BY <1>1, <1>2, <1>3, <1>4, <1>5, <1>6, <1>7, <1>8, <1>9, <1>10, <1>11,
     <1>12, <1>13, <1>14, <1>15
  DEF Next

\* A step keeps the types of the other variables.
LEMMA StepKeepsValues == TypeOK /\ [Next]_vars => ValuesOK'
<1> SUFFICES ASSUME TypeOK, [Next]_vars PROVE ValuesOK'
  OBVIOUS
<1> ValuesOK
  BY TypeParts
<1> USE DEF ValuesOK
<1>1. ASSUME NEW t \in Session, Loop(t) PROVE ValuesOK'
  BY <1>1 DEF Loop
<1>2. ASSUME NEW t \in Picture, Enter(t) PROVE ValuesOK'
  BY <1>2 DEF Enter, Picture
<1>3. ASSUME NEW t \in Picture, Flip(t) PROVE ValuesOK'
  BY <1>3 DEF Flip
<1>4. ASSUME NEW t \in Picture, Bcast(t) PROVE ValuesOK'
  BY <1>4 DEF Bcast
<1>5. ASSUME NEW t \in Picture, Close(t) PROVE ValuesOK'
  BY <1>5 DEF Close
<1>6. ASSUME NEW t \in Picture \cup {"bg"}, SpuriousWakeup(t) PROVE ValuesOK'
  BY <1>6 DEF SpuriousWakeup
<1>7. CASE Take
  <2>1. CASE TakeMode
    BY <2>1 DEF TakeMode
  <2>2. CASE TakeSleep
    BY <2>2 DEF TakeSleep
  <2>3. CASE TakeCapture
    BY <2>3, NextFrameType DEF TakeCapture
  <2>4. CASE TakeSaveSize
    BY <2>4 DEF TakeSaveSize
  <2>5. CASE TakeSavePacket
    BY <2>5 DEF TakeSavePacket
  <2>6. QED
    BY <1>7, <2>1, <2>2, <2>3, <2>4, <2>5 DEF Take
<1>8. CASE Send
  <2>1. CASE SendGet
    BY <2>1 DEF SendGet
  <2>2. CASE SendWrite
    BY <2>2 DEF SendWrite
  <2>3. QED
    BY <1>8, <2>1, <2>2 DEF Send
<1>9. CASE ModeUpdate
  <2>1. CASE ModeReadByte
    <3>1. Head(modeStream) \in Mode
      BY <2>1, TypeParts DEF ModeReadByte, StreamOK
    <3>2. QED
      BY <2>1, <3>1 DEF ModeReadByte
  <2>2. CASE ModeReadEof
    BY <2>2 DEF ModeReadEof
  <2>3. CASE ModeReadError
    BY <2>3 DEF ModeReadError
  <2>4. CASE ModeSet
    BY <2>4 DEF ModeSet
  <2>5. CASE ModeClose
    BY <2>5 DEF ModeClose
  <2>6. QED
    BY <1>9, <2>1, <2>2, <2>3, <2>4, <2>5 DEF ModeUpdate
<1>10. CASE BgCheck
  BY <1>10 DEF BgCheck
<1>11. CASE Main
  <2>1. CASE MainJoinBg
    BY <2>1 DEF MainJoinBg
  <2>2. CASE MainJoinMain
    BY <2>2 DEF MainJoinMain
  <2>3. QED
    BY <1>11, <2>1, <2>2 DEF Main
<1>12. CASE ServeRuns
  <2>1. CASE ServeAlloc
    BY <2>1 DEF ServeAlloc
  <2>2. CASE ServePoll
    BY <2>2 DEF ServePoll
  <2>3. CASE ServeAccept
    BY <2>3 DEF ServeAccept
  <2>4. CASE ServeAcceptMode
    BY <2>4 DEF ServeAcceptMode
  <2>5. CASE ServeCreate
    BY <2>5 DEF ServeCreate, Mode
  <2>6. CASE ServeJoin
    BY <2>6 DEF ServeJoin
  <2>7. CASE ServeQuit
    BY <2>7 DEF ServeQuit
  <2>8. CASE ServeFree
    BY <2>8 DEF ServeFree
  <2>9. QED
    BY <1>12, <2>1, <2>2, <2>3, <2>4, <2>5, <2>6, <2>7, <2>8 DEF ServeRuns
<1>13. CASE ServeFails
  <2>1. CASE ServeAllocFails
    BY <2>1 DEF ServeAllocFails
  <2>2. CASE ServePollFails
    BY <2>2 DEF ServePollFails
  <2>3. CASE ServeCameraFails
    BY <2>3 DEF ServeCameraFails
  <2>4. CASE ServeCreateFails
    BY <2>4 DEF ServeCreateFails
  <2>5. QED
    BY <1>13, <2>1, <2>2, <2>3, <2>4 DEF ServeFails
<1>14. CASE Client
  <2>1. CASE ClientConnectsPicture
    BY <2>1 DEF ClientConnectsPicture
  <2>2. CASE ClientConnectsMode
    BY <2>2 DEF ClientConnectsMode
  <2>3. CASE ClientSendsMode
    BY <2>3 DEF ClientSendsMode
  <2>4. CASE ClientLeaves
    BY <2>4 DEF ClientLeaves
  <2>5. QED
    BY <1>14, <2>1, <2>2, <2>3, <2>4 DEF Client
<1>15. CASE UNCHANGED vars
  BY <1>15 DEF vars
<1>16. QED
  BY <1>1, <1>2, <1>3, <1>4, <1>5, <1>6, <1>7, <1>8, <1>9, <1>10, <1>11,
     <1>12, <1>13, <1>14, <1>15
  DEF Next

\* A step keeps the type of the unread mode bytes and their bound.
LEMMA StepKeepsStream == TypeOK /\ [Next]_vars => StreamOK'
<1> SUFFICES ASSUME TypeOK, [Next]_vars PROVE StreamOK'
  OBVIOUS
<1> StreamOK
  BY TypeParts
<1>1. CASE ModeReadByte
  BY <1>1 DEF ModeReadByte, StreamOK
<1>2. CASE ServeAcceptMode
  BY <1>2 DEF ServeAcceptMode, StreamOK
<1>3. CASE ClientSendsMode
  BY <1>3 DEF ClientSendsMode, StreamOK
<1>4. CASE UNCHANGED modeStream
  BY <1>4 DEF StreamOK
<1>5. QED
  <2>1. ASSUME Take \/ Send PROVE UNCHANGED modeStream
    BY <2>1 DEF Take, TakeMode, TakeSleep, TakeCapture, TakeSaveSize,
                TakeSavePacket, Send, SendGet, SendWrite
  <2>2. ASSUME ModeUpdate, ~ModeReadByte PROVE UNCHANGED modeStream
    BY <2>2 DEF ModeUpdate, ModeReadEof, ModeReadError, ModeSet, ModeClose
  <2>3. ASSUME ServeRuns, ~ServeAcceptMode PROVE UNCHANGED modeStream
    BY <2>3 DEF ServeRuns, ServeAlloc, ServePoll, ServeAccept, ServeCreate,
                ServeJoin, ServeQuit, ServeFree
  <2>4. ASSUME ServeFails \/ BgCheck \/ Main PROVE UNCHANGED modeStream
    BY <2>4 DEF ServeFails, ServeAllocFails, ServePollFails, ServeCameraFails,
                ServeCreateFails, BgCheck, Main, MainJoinBg, MainJoinMain
  <2>5. ASSUME Client, ~ClientSendsMode PROVE UNCHANGED modeStream
    BY <2>5 DEF Client, ClientConnectsPicture, ClientConnectsMode,
                ClientLeaves
  <2>6. ASSUME NEW t \in Session, Loop(t) PROVE UNCHANGED modeStream
    BY <2>6 DEF Loop
  <2>7. ASSUME NEW t, Enter(t) \/ Flip(t) \/ Bcast(t) \/ Close(t)
                      \/ SpuriousWakeup(t)
        PROVE  UNCHANGED modeStream
    BY <2>7 DEF Enter, Flip, Bcast, Close, SpuriousWakeup
  <2>8. CASE UNCHANGED vars
    BY <2>8, <1>4 DEF vars
  <2>9. QED
    BY <1>1, <1>2, <1>3, <1>4, <2>1, <2>2, <2>3, <2>4, <2>5, <2>6, <2>7, <2>8
    DEF Next

\* A step keeps the types.
LEMMA NextTypeOK == TypeOK /\ [Next]_vars => TypeOK'
<1>1. LabelsOK' /\ StreamOK' /\ ValuesOK' => TypeOK'
  BY DEF TypeOK, LabelsOK, StreamOK, ValuesOK
<1>2. QED
  BY <1>1, StepKeepsLabels, StepKeepsStream, StepKeepsValues

\* Every variable of the camera server keeps its type; in particular frame
\* numbers stay in the cycle and the queues within their bounds.
THEOREM Typing == Spec => []TypeOK
<1>1. Init => TypeOK
  BY InitTypeOK
<1>2. TypeOK /\ [Next]_vars => TypeOK'
  BY NextTypeOK
<1>3. QED
  BY <1>1, <1>2, PTL DEF Spec

-----------------------------------------------------------------------------
(* The inductive invariant *)

\* serve_clients starts a session only when the server runs and the threads of
\* the one before have ended; so no thread ever uses a freed client while the
\* server runs.
Joined ==
    /\ pc["serve"] \in {"accept", "acceptMode", "create", "join"} => running
    /\ running /\ pc["serve"] \in {"alloc", "poll", "accept", "acceptMode",
                                   "create", "free"}
          => \A t \in Session : ~Alive(t)
    /\ running => ~dangling

\* The holder of global_mutex is the thread inside its critical section, and
\* it is its turn.
LockInv ==
    \A t \in Picture : /\ mutex = t <=> pc[t] \in Critical(t)
                       /\ mutex = t => picTakeSend = Turn(t)

\* Returning from main has ended every thread.
ExitInv ==
    pc["main"] = "exited" => \A t \in Thread \ {"main"} : pc[t] = "done"

\* Size and packet differ only between save_packet_size and save_packet, and
\* the copy send_picture_task writes is the packet.
PacketInv ==
    pc["main"] # "exited" =>
        /\ pc["take"] = "savePacket" => packetSize = fr
        /\ pc["take"] # "savePacket" => packetSize = packet
        /\ pc["send"] = "write" => outPacket = packet

-----------------------------------------------------------------------------
(* Joined *)

\* serve_clients stays where it is and no session thread is started.
ServeUnmoved ==
    /\ pc'["serve"] = pc["serve"]
    /\ \A t \in Session : Alive(t)' => Alive(t)
    /\ UNCHANGED <<running, dangling, cam>>

\* What the broadcast of a picture thread does to the threads.
LEMMA BcastEffect ==
    ASSUME TypeOK, NEW t \in Picture, Bcast(t)
    PROVE  /\ pc[t] = "bcast" /\ pc'[t] = "loop"
           /\ \A u \in Thread \ {t} :
                 pc'[u] = IF pc[u] = "wait" THEN "lock" ELSE pc[u]
<1>1. DOMAIN Wake(pc) = Thread
  BY DEF Wake
<1>2. \A u \in Thread : Wake(pc)[u] = IF pc[u] = "wait" THEN "lock" ELSE pc[u]
  BY DEF Wake
<1>3. t \in Thread
  BY DEF Picture, Thread, Session
<1>4. QED
  BY <1>1, <1>2, <1>3 DEF Bcast

\* No step of another thread or of a client moves serve_clients.
LEMMA OthersLeaveServe ==
    ASSUME TypeOK,
           \/ \E t \in Session : Loop(t)
           \/ \E t \in Picture : Enter(t) \/ Flip(t) \/ Bcast(t) \/ Close(t)
           \/ \E t \in Picture \cup {"bg"} : SpuriousWakeup(t)
           \/ Take \/ Send \/ ModeUpdate \/ BgCheck \/ MainJoinBg \/ Client
           \/ UNCHANGED vars
    PROVE  ServeUnmoved
<1> USE DEF ServeUnmoved, Alive, Go, TypeOK, Thread, Session, Picture
<1>1. CASE \E t \in Session : Loop(t)
  BY <1>1 DEF Loop
<1>2. CASE \E t \in Picture : Enter(t) \/ Flip(t) \/ Close(t)
  BY <1>2 DEF Enter, Work, Flip, Close
<1>3. ASSUME NEW t \in Picture, Bcast(t) PROVE ServeUnmoved
  <2>1. \A u \in Thread \ {t} :
           pc'[u] = IF pc[u] = "wait" THEN "lock" ELSE pc[u]
    BY <1>3, BcastEffect
  <2>2. pc[t] = "bcast" /\ pc'[t] = "loop"
    BY <1>3, BcastEffect
  <2>3. pc["serve"] # "wait"
    BY DEF Label
  <2>4. QED
    BY <1>3, <2>1, <2>2, <2>3 DEF Bcast
<1>4. CASE \E t \in Picture \cup {"bg"} : SpuriousWakeup(t)
  BY <1>4 DEF SpuriousWakeup
<1>5. CASE Take
  BY <1>5 DEF Take, TakeMode, TakeSleep, TakeCapture, TakeSaveSize,
              TakeSavePacket
<1>6. CASE Send
  BY <1>6 DEF Send, SendGet, SendWrite
<1>7. CASE ModeUpdate
  BY <1>7 DEF ModeUpdate, ModeReadByte, ModeReadEof, ModeReadError, ModeSet,
              ModeClose
<1>8. CASE BgCheck \/ MainJoinBg
  BY <1>8 DEF BgCheck, MainJoinBg
<1>9. CASE Client
  BY <1>9 DEF Client, ClientConnectsPicture, ClientConnectsMode,
              ClientSendsMode, ClientLeaves
<1>10. CASE UNCHANGED vars
  BY <1>10 DEF vars
<1>11. QED
  BY <1>1, <1>2, <1>3, <1>4, <1>5, <1>6, <1>7, <1>8, <1>9, <1>10

\* A step keeps Joined.
LEMMA JoinedStep == TypeOK /\ Joined /\ [Next]_vars => Joined'
<1> SUFFICES ASSUME TypeOK, Joined, [Next]_vars PROVE Joined'
  OBVIOUS
<1> USE DEF Joined, Alive, Go, TypeOK, Thread, Session
<1>1. CASE ServeUnmoved
  BY <1>1 DEF ServeUnmoved
<1>2. CASE ServeAlloc \/ ServePoll \/ ServeAccept \/ ServeAcceptMode
  BY <1>2 DEF ServeAlloc, ServePoll, ServeAccept, ServeAcceptMode
<1>3. CASE ServeCreate
  BY <1>3 DEF ServeCreate
<1>4. CASE ServeJoin \/ ServeFree
  <2>1. CASE ServeJoin
    BY <2>1 DEF ServeJoin
  <2>2. CASE ServeFree
    <3>1. \A t \in Session : pc'[t] = pc[t]
      BY <2>2 DEF ServeFree
    <3>2. running => dangling' = FALSE
      BY <2>2 DEF ServeFree
    <3>3. QED
      BY <2>2, <3>1, <3>2 DEF ServeFree
  <2>3. QED
    BY <1>4, <2>1, <2>2
<1>5. CASE ServeQuit
  BY <1>5 DEF ServeQuit, Wake
<1>6. CASE ServeAllocFails \/ ServePollFails \/ ServeCameraFails
  BY <1>6 DEF ServeAllocFails, ServePollFails, ServeCameraFails
<1>7. CASE ServeCreateFails
  BY <1>7 DEF ServeCreateFails
<1>8. CASE MainJoinMain
  BY <1>8 DEF MainJoinMain
<1>9. QED
  BY <1>1, <1>2, <1>3, <1>4, <1>5, <1>6, <1>7, <1>8, OthersLeaveServe
  DEF Next, ServeRuns, ServeFails, Main

-----------------------------------------------------------------------------
(* LockInv *)

\* The picture threads, the mutex and the packet are left alone.
PictureUnmoved ==
    /\ pc'["take"] = pc["take"]
    /\ pc'["send"] = pc["send"]
    /\ UNCHANGED <<mutex, picTakeSend, frameVars>>

\* The mode thread, bg_task, main, clients and serve_clients outside of
\* pthread_create, server_quit and the end leave the picture threads alone.
Bystander ==
    \/ Loop("mode")
    \/ SpuriousWakeup("bg")
    \/ ModeUpdate \/ BgCheck \/ MainJoinBg \/ Client
    \/ ServeAlloc \/ ServePoll \/ ServeAccept \/ ServeAcceptMode
    \/ ServeJoin \/ ServeFree
    \/ ServeAllocFails \/ ServePollFails \/ ServeCameraFails
    \/ UNCHANGED vars

\* A bystander leaves the picture threads, the mutex and the packet alone.
LEMMA BystanderStep ==
    ASSUME TypeOK, Bystander
    PROVE  PictureUnmoved
<1> USE DEF PictureUnmoved, Go, TypeOK, Thread, Session
<1>1. CASE Loop("mode") \/ SpuriousWakeup("bg")
  BY <1>1 DEF Loop, SpuriousWakeup
<1>2. CASE ModeUpdate
  BY <1>2 DEF ModeUpdate, ModeReadByte, ModeReadEof, ModeReadError, ModeSet,
              ModeClose
<1>3. CASE BgCheck \/ MainJoinBg
  BY <1>3 DEF BgCheck, MainJoinBg
<1>4. CASE Client
  BY <1>4 DEF Client, ClientConnectsPicture, ClientConnectsMode,
              ClientSendsMode, ClientLeaves
<1>5. CASE ServeAlloc \/ ServePoll \/ ServeAccept \/ ServeAcceptMode
           \/ ServeJoin \/ ServeFree
  BY <1>5 DEF ServeAlloc, ServePoll, ServeAccept, ServeAcceptMode,
              ServeJoin, ServeFree
<1>6. CASE ServeAllocFails \/ ServePollFails \/ ServeCameraFails
  BY <1>6 DEF ServeAllocFails, ServePollFails, ServeCameraFails
<1>7. CASE UNCHANGED vars
  BY <1>7 DEF vars
<1>8. QED
  BY <1>1, <1>2, <1>3, <1>4, <1>5, <1>6, <1>7 DEF Bystander

\* What server_quit does to the picture threads.
LEMMA QuitEffect ==
    ASSUME TypeOK, ServeQuit
    PROVE  /\ \A t \in Picture :
                 pc'[t] = IF pc[t] = "wait" THEN "lock" ELSE pc[t]
           /\ UNCHANGED <<mutex, picTakeSend, frameVars>>
BY DEF ServeQuit, Wake, Picture, Thread, Session

\* Creating the threads of a session: those it creates did not exist.
LEMMA CreateEffect ==
    ASSUME TypeOK, Joined, ServeCreate \/ ServeCreateFails
    PROVE  /\ \A t \in Picture :
                 /\ pc[t] \in {"none", "done"}
                 /\ pc'[t] \in {pc[t], "loop"}
           /\ UNCHANGED <<mutex, picTakeSend, frameVars>>
BY DEF ServeCreate, ServeCreateFails, Joined, Alive, Picture, Thread, Session

\* The steps left are those of the picture threads.
LEMMA PictureCases ==
    ASSUME [Next]_vars
    PROVE  \/ Bystander
           \/ MainJoinMain
           \/ ServeQuit
           \/ ServeCreate \/ ServeCreateFails
           \/ \E t \in Picture : Loop(t) \/ Enter(t) \/ Flip(t) \/ Bcast(t)
                                 \/ Close(t) \/ SpuriousWakeup(t)
           \/ Take
           \/ Send
BY DEF Next, Bystander, Main, ServeRuns, ServeFails, Session, Picture

\* A step keeps LockInv.
LEMMA LockStep == TypeOK /\ Joined /\ LockInv /\ [Next]_vars => LockInv'
<1> SUFFICES ASSUME TypeOK, Joined, LockInv, [Next]_vars PROVE LockInv'
  OBVIOUS
<1> USE DEF LockInv, Picture, Critical, Turn, TAKE_PIC_STATE, SEND_PIC_STATE
<1>1. CASE Bystander
  BY <1>1, BystanderStep DEF PictureUnmoved
<1>2. CASE MainJoinMain
  BY <1>2 DEF MainJoinMain, Free, Thread, Session
<1>3. CASE ServeQuit
  BY <1>3, QuitEffect
<1>4. CASE ServeCreate \/ ServeCreateFails
  BY <1>4, CreateEffect
<1>5. ASSUME NEW t \in Picture, Bcast(t) PROVE LockInv'
  <2>1. \A u \in Picture \ {t} :
           pc'[u] = IF pc[u] = "wait" THEN "lock" ELSE pc[u]
    BY <1>5, BcastEffect DEF Thread, Session
  <2>2. pc[t] = "bcast" /\ pc'[t] = "loop"
    BY <1>5, BcastEffect
  <2>3. QED
    BY <1>5, <2>1, <2>2 DEF Bcast
<1>6. ASSUME NEW t \in Picture,
             Loop(t) \/ Enter(t) \/ Flip(t) \/ Close(t) \/ SpuriousWakeup(t)
      PROVE  LockInv'
  BY <1>6 DEF Loop, Enter, Work, Flip, Close, SpuriousWakeup, Go, Free,
              TypeOK, Thread, Session
<1>7. CASE Take
  BY <1>7 DEF Take, TakeMode, TakeSleep, TakeCapture, TakeSaveSize,
              TakeSavePacket, Go, TypeOK, Thread, Session
<1>8. CASE Send
  BY <1>8 DEF Send, SendGet, SendWrite, Go, TypeOK, Thread, Session
<1>9. QED
  BY <1>1, <1>2, <1>3, <1>4, <1>5, <1>6, <1>7, <1>8, PictureCases

-----------------------------------------------------------------------------
(* ExitInv *)

\* Some thread but main is running, and main stays where it is.
OtherMoves ==
    /\ pc'["main"] = pc["main"]
    /\ \E t \in Thread \ {"main"} : pc[t] # "done"

\* Every step is one of main, one of a client or one of another thread.
LEMMA MainCases ==
    ASSUME TypeOK, [Next]_vars
    PROVE  MainJoinBg \/ MainJoinMain \/ pc' = pc \/ OtherMoves
<1> USE DEF OtherMoves, Go, TypeOK, Thread, Session, Picture
<1>1. ASSUME NEW t \in Session, Loop(t) PROVE OtherMoves
  BY <1>1 DEF Loop
<1>2. ASSUME NEW t \in Picture, Enter(t) \/ Flip(t) \/ Close(t)
      PROVE OtherMoves
  BY <1>2 DEF Enter, Flip, Close
<1>3. ASSUME NEW t \in Picture, Bcast(t) PROVE OtherMoves
  <2>1. pc[t] = "bcast" /\ pc["main"] # "wait" /\ t # "main"
    BY <1>3, BcastEffect DEF Label
  <2>2. pc'["main"] = pc["main"]
    BY <1>3, <2>1, BcastEffect
  <2>3. QED
    BY <2>1, <2>2
<1>4. ASSUME NEW t \in Picture \cup {"bg"}, SpuriousWakeup(t) PROVE OtherMoves
  BY <1>4 DEF SpuriousWakeup
<1>5. CASE Take
  BY <1>5 DEF Take, TakeMode, TakeSleep, TakeCapture, TakeSaveSize,
              TakeSavePacket
<1>6. CASE Send
  BY <1>6 DEF Send, SendGet, SendWrite
<1>7. CASE ModeUpdate
  BY <1>7 DEF ModeUpdate, ModeReadByte, ModeReadEof, ModeReadError, ModeSet,
              ModeClose
<1>8. CASE BgCheck
  BY <1>8 DEF BgCheck
<1>9. CASE ServeAlloc \/ ServePoll \/ ServeAccept \/ ServeAcceptMode
           \/ ServeJoin \/ ServeFree
  BY <1>9 DEF ServeAlloc, ServePoll, ServeAccept, ServeAcceptMode, ServeJoin,
              ServeFree
<1>10. CASE ServeCreate \/ ServeCreateFails
  BY <1>10 DEF ServeCreate, ServeCreateFails
<1>11. CASE ServeQuit
  <2>1. pc'["main"] = pc["main"]
    BY <1>11 DEF ServeQuit, Wake, Label
  <2>2. pc["serve"] # "done"
    BY <1>11 DEF ServeQuit
  <2>3. QED
    BY <2>1, <2>2
<1>12. CASE ServeAllocFails \/ ServePollFails \/ ServeCameraFails
  BY <1>12 DEF ServeAllocFails, ServePollFails, ServeCameraFails
<1>13. CASE Client \/ UNCHANGED vars
  BY <1>13 DEF Client, ClientConnectsPicture, ClientConnectsMode,
               ClientSendsMode, ClientLeaves, vars
<1> HIDE DEF OtherMoves
<1>14. QED
  BY <1>1, <1>2, <1>3, <1>4, <1>5, <1>6, <1>7, <1>8, <1>9, <1>10, <1>11,
     <1>12, <1>13
  DEF Next, Main, ServeRuns, ServeFails

\* A step keeps ExitInv.
LEMMA ExitStep == TypeOK /\ ExitInv /\ [Next]_vars => ExitInv'
<1> SUFFICES ASSUME TypeOK, ExitInv, [Next]_vars PROVE ExitInv'
  OBVIOUS
<1>1. CASE MainJoinBg
  BY <1>1 DEF MainJoinBg, Go, ExitInv, TypeOK, Thread
<1>2. CASE MainJoinMain
  BY <1>2 DEF MainJoinMain, ExitInv
<1>3. CASE pc' = pc
  BY <1>3 DEF ExitInv
<1>4. CASE OtherMoves
  BY <1>4 DEF OtherMoves, ExitInv
<1>5. QED
  BY <1>1, <1>2, <1>3, <1>4, MainCases

\* There is no way back from the end of main.
LEMMA ExitIsFinal ==
    ASSUME TypeOK, ExitInv, [Next]_vars, pc["main"] = "exited"
    PROVE  pc'["main"] = "exited"
<1>1. ~MainJoinBg /\ ~MainJoinMain /\ ~OtherMoves
  BY DEF MainJoinBg, MainJoinMain, OtherMoves, ExitInv
<1>2. QED
  BY <1>1, MainCases

-----------------------------------------------------------------------------
(* PacketInv *)

\* A step keeps PacketInv: mutual exclusion keeps save_packet_size and
\* save_packet out of the way of get_packet and get_packet_size.
LEMMA PacketStep ==
    TypeOK /\ Joined /\ LockInv /\ ExitInv /\ PacketInv /\ [Next]_vars
        => PacketInv'
<1> SUFFICES ASSUME TypeOK, Joined, LockInv, ExitInv, PacketInv, [Next]_vars,
                    pc'["main"] # "exited"
             PROVE  /\ pc'["take"] = "savePacket" => packetSize' = fr'
                    /\ pc'["take"] # "savePacket" => packetSize' = packet'
                    /\ pc'["send"] = "write" => outPacket' = packet'
  BY DEF PacketInv
<1>1. /\ pc["take"] = "savePacket" => packetSize = fr
      /\ pc["take"] # "savePacket" => packetSize = packet
      /\ pc["send"] = "write" => outPacket = packet
  BY ExitIsFinal DEF PacketInv
<1>2. pc["take"] \in Critical("take") => pc["send"] # "write"
  BY DEF LockInv, Picture, Critical
<1> USE DEF Go, TypeOK, Thread, Session, Picture
<1>3. CASE Bystander
  BY <1>1, <1>3, BystanderStep DEF PictureUnmoved
<1>4. CASE MainJoinMain
  BY <1>4 DEF MainJoinMain
<1>5. CASE ServeQuit
  BY <1>1, <1>5, QuitEffect
<1>6. CASE ServeCreate \/ ServeCreateFails
  BY <1>1, <1>6, CreateEffect
<1>7. ASSUME NEW t \in Picture, Bcast(t)
      PROVE  /\ pc'["take"] = "savePacket" => packetSize' = fr'
             /\ pc'["take"] # "savePacket" => packetSize' = packet'
             /\ pc'["send"] = "write" => outPacket' = packet'
  <2>1. \A u \in Picture \ {t} :
           pc'[u] = IF pc[u] = "wait" THEN "lock" ELSE pc[u]
    BY <1>7, BcastEffect
  <2>2. pc[t] = "bcast" /\ pc'[t] = "loop"
    BY <1>7, BcastEffect
  <2>3. UNCHANGED frameVars
    BY <1>7 DEF Bcast
  <2>4. QED
    BY <1>1, <2>1, <2>2, <2>3
<1>8. CASE \E t \in Picture : Loop(t) \/ Enter(t) \/ Flip(t) \/ Close(t)
                              \/ SpuriousWakeup(t)
  BY <1>1, <1>8 DEF Loop, Enter, Work, Flip, Close, SpuriousWakeup
<1>9. CASE Take
  BY <1>1, <1>2, <1>9
  DEF Take, TakeMode, TakeSleep, TakeCapture, TakeSaveSize, TakeSavePacket,
      Critical
<1>10. CASE Send
  BY <1>1, <1>10 DEF Send, SendGet, SendWrite
<1>11. QED
  BY <1>3, <1>4, <1>5, <1>6, <1>7, <1>8, <1>9, <1>10, PictureCases

-----------------------------------------------------------------------------
(* Wakeups *)

\* A step keeps NoLostTurn: the thread that flips pic_take_send goes on to
\* broadcast, and the other one waits only after having seen the flag.
LEMMA TurnStep ==
    TypeOK /\ Joined /\ LockInv /\ NoLostTurn /\ [Next]_vars => NoLostTurn'
<1> SUFFICES ASSUME TypeOK, Joined, LockInv, NoLostTurn, [Next]_vars
             PROVE  NoLostTurn'
  OBVIOUS
<1> USE DEF NoLostTurn, Go, TypeOK, Thread, Session, Picture,
            TAKE_PIC_STATE, SEND_PIC_STATE
<1>1. CASE Bystander
  BY <1>1, BystanderStep DEF PictureUnmoved
<1>2. CASE MainJoinMain
  BY <1>2 DEF MainJoinMain
<1>3. CASE ServeQuit
  BY <1>3, QuitEffect
<1>4. CASE ServeCreate \/ ServeCreateFails
  BY <1>4, CreateEffect
<1>5. ASSUME NEW t \in Picture, Bcast(t) PROVE NoLostTurn'
  <2>1. pc'["take"] # "wait" /\ pc'["send"] # "wait"
    BY <1>5, BcastEffect
  <2>2. QED
    BY <2>1
<1>6. ASSUME NEW t \in Picture, Flip(t) PROVE NoLostTurn'
  <2>1. picTakeSend = Turn(t)
    BY <1>6 DEF Flip, LockInv, Critical
  <2>2. QED
    BY <1>6, <2>1 DEF Flip, Turn
<1>7. CASE \E t \in Picture : Loop(t) \/ Enter(t) \/ Close(t)
                              \/ SpuriousWakeup(t)
  BY <1>7 DEF Loop, Enter, Work, Turn, Close, SpuriousWakeup
<1>8. CASE Take
  BY <1>8 DEF Take, TakeMode, TakeSleep, TakeCapture, TakeSaveSize,
              TakeSavePacket
<1>9. CASE Send
  BY <1>9 DEF Send, SendGet, SendWrite
<1>10. QED
  BY <1>1, <1>2, <1>3, <1>4, <1>5, <1>6, <1>7, <1>8, <1>9, PictureCases

\* A step keeps NoLostQuit: bg_task tests running and starts to wait without
\* releasing global_mutex in between.
LEMMA QuitStep == TypeOK /\ NoLostQuit /\ [Next]_vars => NoLostQuit'
<1> SUFFICES ASSUME TypeOK, NoLostQuit, [Next]_vars PROVE NoLostQuit'
  OBVIOUS
<1> USE DEF NoLostQuit, Go, TypeOK, Thread, Session, Picture
<1>1. CASE BgCheck
  BY <1>1 DEF BgCheck
<1>2. CASE ServeQuit
  BY <1>2 DEF ServeQuit, Wake
<1>3. CASE Main
  BY <1>3 DEF Main, MainJoinBg, MainJoinMain
<1>4. ASSUME NEW t \in Picture, Bcast(t) PROVE NoLostQuit'
  <2>1. pc'["bg"] # "wait"
    BY <1>4, BcastEffect
  <2>2. QED
    BY <2>1
<1>5. CASE \E t \in Session : Loop(t)
  BY <1>5 DEF Loop
<1>6. CASE \E t \in Picture : Enter(t) \/ Flip(t) \/ Close(t)
  BY <1>6 DEF Enter, Flip, Close
<1>7. CASE \E t \in Picture \cup {"bg"} : SpuriousWakeup(t)
  BY <1>7 DEF SpuriousWakeup
<1>8. CASE Take \/ Send
  BY <1>8 DEF Take, TakeMode, TakeSleep, TakeCapture, TakeSaveSize,
              TakeSavePacket, Send, SendGet, SendWrite
<1>9. CASE ModeUpdate
  BY <1>9 DEF ModeUpdate, ModeReadByte, ModeReadEof, ModeReadError, ModeSet,
              ModeClose
<1>10. CASE ServeAlloc \/ ServePoll \/ ServeAccept \/ ServeAcceptMode
            \/ ServeCreate \/ ServeJoin \/ ServeFree
  BY <1>10 DEF ServeAlloc, ServePoll, ServeAccept, ServeAcceptMode,
               ServeCreate, ServeJoin, ServeFree
<1>11. CASE ServeFails
  BY <1>11 DEF ServeFails, ServeAllocFails, ServePollFails, ServeCameraFails,
               ServeCreateFails
<1>12. CASE Client \/ UNCHANGED vars
  BY <1>12 DEF Client, ClientConnectsPicture, ClientConnectsMode,
               ClientSendsMode, ClientLeaves, vars
<1>13. QED
  BY <1>1, <1>2, <1>3, <1>4, <1>5, <1>6, <1>7, <1>8, <1>9, <1>10, <1>11,
     <1>12 DEF Next, ServeRuns

-----------------------------------------------------------------------------
(* Descriptors *)

\* Descriptors that can be forgotten.
Shut == {"none", "closed"}

\* Until its threads exist nobody touches the connections of a session, and
\* after they have ended both are closed.
ConnInv ==
    /\ pc["serve"] = "acceptMode" => connfd \in {"none", "open"}
    /\ pc["serve"] = "create" => connfd = "open" /\ isConnected
    /\ running /\ pc["serve"] \in {"alloc", "free"}
          => connfd \in Shut /\ connmodefd \in Shut

\* The picture threads leave a session only when isConnected has been cleared,
\* which only update_mode_task does on its way to the close of its connection.
\* A read error that ends update_mode_task earlier leaves isConnected set, and
\* the session goes on without a mode connection.
EndInv ==
    pc["serve"] = "join" =>
        /\ connfd \in {"open", "closed"}
        /\ \A t \in Picture :
              /\ pc[t] \in {"close", "done"} => ~isConnected
              /\ pc[t] = "done" => connfd = "closed"
        /\ isConnected => connfd = "open"
        /\ ~isConnected => \/ pc["mode"] \in {"set", "loop", "close"}
                           \/ pc["mode"] = "done" /\ connmodefd = "closed"

\* serve_clients stays where it is, and so do the connections and the threads
\* as far as ConnInv and EndInv look at them.
SessionUnmoved ==
    /\ pc'["serve"] = pc["serve"]
    /\ pc'["mode"] = pc["mode"]
    /\ \A t \in Picture : pc'[t] \in {"close", "done"} => pc'[t] = pc[t]
    /\ UNCHANGED <<running, isConnected, connfd, connmodefd>>

\* The picture threads in their turn, bg_task and main leave the end of a
\* session alone.
LEMMA TurnsLeaveSession ==
    ASSUME TypeOK,
           \/ \E t \in Picture : Enter(t) \/ Flip(t) \/ Bcast(t)
           \/ \E t \in Picture \cup {"bg"} : SpuriousWakeup(t)
           \/ Take \/ Send \/ BgCheck \/ MainJoinBg
           \/ ClientConnectsPicture \/ ClientConnectsMode \/ ClientSendsMode
           \/ UNCHANGED vars
    PROVE  SessionUnmoved
<1> USE DEF SessionUnmoved, Go, TypeOK, Thread, Session, Picture
<1>1. CASE \E t \in Picture : Enter(t) \/ Flip(t)
  BY <1>1 DEF Enter, Work, Flip
<1>2. ASSUME NEW t \in Picture, Bcast(t) PROVE SessionUnmoved
  <2>1. \A u \in Thread \ {t} :
           pc'[u] = IF pc[u] = "wait" THEN "lock" ELSE pc[u]
    BY <1>2, BcastEffect
  <2>2. pc[t] = "bcast" /\ pc'[t] = "loop"
    BY <1>2, BcastEffect
  <2>3. pc["serve"] # "wait" /\ pc["mode"] # "wait"
    BY DEF Label
  <2>4. QED
    BY <1>2, <2>1, <2>2, <2>3 DEF Bcast
<1>3. CASE \E t \in Picture \cup {"bg"} : SpuriousWakeup(t)
  BY <1>3 DEF SpuriousWakeup
<1>4. CASE Take
  BY <1>4 DEF Take, TakeMode, TakeSleep, TakeCapture, TakeSaveSize,
              TakeSavePacket
<1>5. CASE Send
  BY <1>5 DEF Send, SendGet, SendWrite
<1>6. CASE BgCheck \/ MainJoinBg
  BY <1>6 DEF BgCheck, MainJoinBg
<1>7. CASE ClientConnectsPicture \/ ClientConnectsMode \/ ClientSendsMode
  BY <1>7 DEF ClientConnectsPicture, ClientConnectsMode, ClientSendsMode
<1>8. CASE UNCHANGED vars
  BY <1>8 DEF vars
<1>9. QED
  BY <1>1, <1>2, <1>3, <1>4, <1>5, <1>6, <1>7, <1>8

\* The other steps that leave serve_clients where it is.
SessionMoves ==
    \/ \E t \in Session : Loop(t)
    \/ \E t \in Picture : Close(t)
    \/ ModeUpdate
    \/ ClientLeaves

\* A step keeps ConnInv: outside of a session of a running server no thread is
\* there to close a connection and no client is connected.
LEMMA ConnStep ==
    TypeOK /\ Joined /\ ConnInv /\ EndInv /\ [Next]_vars => ConnInv'
<1> SUFFICES ASSUME TypeOK, Joined, ConnInv, EndInv, [Next]_vars PROVE ConnInv'
  OBVIOUS
<1> USE DEF ConnInv, Shut, Go, TypeOK, Thread, Session
<1>1. CASE SessionUnmoved
  BY <1>1 DEF SessionUnmoved
<1>2. CASE SessionMoves
  <2>1. ASSUME NEW t \in Session, Loop(t) PROVE ConnInv'
    BY <2>1 DEF Loop
  <2>2. ASSUME NEW t \in Picture, Close(t) PROVE ConnInv'
    BY <2>2 DEF Close, Joined, Alive, Picture
  <2>3. CASE ModeUpdate
    BY <2>3 DEF ModeUpdate, ModeReadByte, ModeReadEof, ModeReadError, ModeSet,
                ModeClose, Joined, Alive
  <2>4. CASE ClientLeaves
    BY <2>4 DEF ClientLeaves
  <2>5. QED
    BY <1>2, <2>1, <2>2, <2>3, <2>4 DEF SessionMoves
<1>3. CASE ServeAlloc \/ ServePoll \/ ServeAccept \/ ServeAcceptMode
  BY <1>3 DEF ServeAlloc, ServePoll, ServeAccept, ServeAcceptMode, Joined
<1>4. CASE ServeCreate \/ ServeCreateFails
  BY <1>4 DEF ServeCreate, ServeCreateFails
<1>5. CASE ServeJoin
  <2>1. \A t \in Picture : pc[t] = "done"
    BY <1>5 DEF ServeJoin, Picture
  <2>2. pc["mode"] = "done" /\ pc["serve"] = "join"
    BY <1>5 DEF ServeJoin
  <2>3. connfd = "closed" /\ connmodefd = "closed"
    <3>1. pc["take"] = "done"
      BY <2>1 DEF Picture
    <3>2. connfd = "closed" /\ ~isConnected
      BY <2>2, <3>1 DEF EndInv, Picture
    <3>3. QED
      BY <2>2, <3>2 DEF EndInv
  <2>4. QED
    BY <1>5, <2>3 DEF ServeJoin
<1>6. CASE ServeQuit
  BY <1>6 DEF ServeQuit, Wake
<1>7. CASE ServeFree
  BY <1>7 DEF ServeFree
<1>8. CASE ServeAllocFails \/ ServePollFails \/ ServeCameraFails
  BY <1>8 DEF ServeAllocFails, ServePollFails, ServeCameraFails
<1>9. CASE MainJoinMain
  BY <1>9 DEF MainJoinMain
<1>10. QED
  BY <1>1, <1>2, <1>3, <1>4, <1>5, <1>6, <1>7, <1>8, <1>9, TurnsLeaveSession
  DEF Next, ServeRuns, ServeFails, Main, Client, SessionMoves

\* A step keeps EndInv.
LEMMA EndStep ==
    TypeOK /\ Joined /\ ConnInv /\ EndInv /\ [Next]_vars => EndInv'
<1> SUFFICES ASSUME TypeOK, Joined, ConnInv, EndInv, [Next]_vars PROVE EndInv'
  OBVIOUS
<1> USE DEF EndInv, Go, TypeOK, Thread, Session, Picture
<1>1. CASE SessionUnmoved
  BY <1>1 DEF SessionUnmoved
<1>2. CASE SessionMoves
  <2>1. ASSUME NEW t \in Session, Loop(t) PROVE EndInv'
    <3>1. pc["serve"] = "join" => Connected = {isConnected}
      BY DEF Joined, Connected
    <3>2. QED
      BY <2>1, <3>1 DEF Loop
  <2>2. ASSUME NEW t \in Picture, Close(t), pc'["serve"] = "join" PROVE EndInv'
    <3>1. /\ pc["serve"] = "join" /\ pc[t] = "close"
          /\ pc' = [pc EXCEPT ![t] = "done"]
          /\ UNCHANGED <<isConnected, connmodefd>>
      BY <2>2 DEF Close
    <3>2. ~isConnected /\ connfd' = "closed"
      BY <2>2, <3>1 DEF Close
    <3>3. QED
      BY <3>1, <3>2
  <2>3. CASE ModeReadByte \/ ModeReadEof \/ ModeSet
    BY <2>3 DEF ModeReadByte, ModeReadEof, ModeSet
  <2>4. CASE ModeReadError
    BY <2>4 DEF ModeReadError
  <2>5. CASE ModeClose
    BY <2>5 DEF ModeClose
  <2>6. CASE ClientLeaves
    BY <2>6 DEF ClientLeaves
  <2>7. pc'["serve"] # "join" => EndInv'
    OBVIOUS
  <2>8. QED
    BY <1>2, <2>1, <2>2, <2>3, <2>4, <2>5, <2>6, <2>7 DEF SessionMoves, ModeUpdate
<1>3. CASE ServeAlloc \/ ServePoll \/ ServeAccept \/ ServeAcceptMode \/ ServeFree
  BY <1>3 DEF ServeAlloc, ServePoll, ServeAccept, ServeAcceptMode, ServeFree
<1>4. CASE ServeCreate
  BY <1>4 DEF ServeCreate, ConnInv
<1>5. CASE ServeCreateFails \/ ServeJoin
  BY <1>5 DEF ServeCreateFails, ServeJoin
<1>6. CASE ServeQuit
  BY <1>6 DEF ServeQuit, Wake
<1>7. CASE ServeAllocFails \/ ServePollFails \/ ServeCameraFails
  BY <1>7 DEF ServeAllocFails, ServePollFails, ServeCameraFails
<1>8. CASE MainJoinMain
  BY <1>8 DEF MainJoinMain
<1>9. QED
  BY <1>1, <1>2, <1>3, <1>4, <1>5, <1>6, <1>7, <1>8, TurnsLeaveSession
  DEF Next, ServeRuns, ServeFails, Main, Client, SessionMoves

-----------------------------------------------------------------------------
(* Safety *)

\* The inductive invariant.
IInv ==
    /\ TypeOK
    /\ Joined
    /\ LockInv
    /\ ExitInv
    /\ PacketInv
    /\ NoLostTurn
    /\ NoLostQuit
    /\ ConnInv
    /\ EndInv

\* It holds initially.
LEMMA InitIInv == Init => IInv
<1> SUFFICES ASSUME Init PROVE IInv
  OBVIOUS
<1>1. TypeOK
  BY InitTypeOK
<1>2. /\ pc["take"] = "none" /\ pc["send"] = "none" /\ pc["mode"] = "none"
      /\ pc["bg"] = "lock" /\ pc["serve"] = "alloc" /\ pc["main"] = "joinBg"
  BY DEF Init, Thread, Session
<1>3. Joined
  BY <1>2 DEF Init, Joined, Alive, Session
<1>4. LockInv
  <2>1. mutex # "take" /\ mutex # "send"
    BY DEF Init, Free
  <2>2. pc["take"] \notin Critical("take") /\ pc["send"] \notin Critical("send")
    BY <1>2 DEF Critical
  <2>3. QED
    BY <2>1, <2>2 DEF LockInv, Picture
<1>5. ExitInv /\ PacketInv
  BY <1>2 DEF Init, ExitInv, PacketInv
<1>6. NoLostTurn /\ NoLostQuit
  BY <1>2 DEF Init, NoLostTurn, NoLostQuit
<1>7. ConnInv /\ EndInv
  BY <1>2 DEF Init, ConnInv, EndInv, Shut
<1>8. QED
  BY <1>1, <1>3, <1>4, <1>5, <1>6, <1>7 DEF IInv

\* It is inductive, with every fault the configuration may allow.
THEOREM Inductive == Spec => []IInv
<1>1. IInv /\ [Next]_vars => IInv'
  BY NextTypeOK, JoinedStep, LockStep, ExitStep, PacketStep, TurnStep,
     QuitStep, ConnStep, EndStep DEF IInv
<1>2. QED
  BY InitIInv, <1>1, PTL DEF Spec

\* The length send_picture_task sends is that of the packet it has copied,
\* for any interleaving of the two picture threads over any number of
\* sessions, whatever fails.
THEOREM Untorn == Spec => []NoTornPacket
<1>1. IInv => NoTornPacket
  <2> SUFFICES ASSUME IInv, pc["send"] = "write"
               PROVE  packetSize = outPacket
    BY DEF NoTornPacket
  <2>1. pc["main"] # "exited"
    BY DEF IInv, ExitInv, Thread, Session
  <2>2. pc["take"] # "savePacket"
    BY DEF IInv, LockInv, Picture, Critical
  <2>3. QED
    BY <2>1, <2>2 DEF IInv, PacketInv
<1>2. QED
  BY Inductive, <1>1, PTL

\* The hand-over of the turn loses no wakeup, although the picture threads
\* broadcast after they have released global_mutex.
THEOREM Turns == Spec => []NoLostTurn
<1>1. IInv => NoLostTurn
  BY DEF IInv
<1>2. QED
  BY Inductive, <1>1, PTL

\* The one broadcast of server_quit is not lost: bg_task does not go on waiting
\* in a server that has stopped.
THEOREM Wakeup == Spec => []NoLostQuit
<1>1. IInv => NoLostQuit
  BY DEF IInv
<1>2. QED
  BY Inductive, <1>1, PTL

\* A running server starts a session only after the threads of the last one
\* have ended, so the freed client is never used: every failure that leaves
\* threads behind also stops the server.
THEOREM Sessions == Spec => []SessionJoined
<1>1. IInv => SessionJoined
  BY DEF IInv, Joined, SessionJoined
<1>2. QED
  BY Inductive, <1>1, PTL

\* client_init and accept overwrite no descriptor that is still open in a
\* running server: a session ends only through the close of both of them.
THEOREM Descriptors == Spec => []NoDescriptorLeak
<1>1. IInv => NoDescriptorLeak
  BY DEF IInv, ConnInv, Shut, NoDescriptorLeak
<1>2. QED
  BY Inductive, <1>1, PTL

\* The picture connection of a client that is connected stays open, although
\* both picture threads close it and either may be the first.
THEOREM Connections == Spec => []LivePictureConnection
<1>1. IInv => LivePictureConnection
  BY DEF IInv, EndInv, LivePictureConnection
<1>2. QED
  BY Inductive, <1>1, PTL

-----------------------------------------------------------------------------
(* The hand-off *)

\* Threads of a session exist only while serve_clients joins them, and the
\* camera is there as long as they do.
SessionInv ==
    /\ \A t \in Session : Alive(t) => pc["serve"] = "join"
    /\ pc["serve"] \in {"acceptMode", "create", "join"} => cam

\* Where the next frame of the hand-off is while the picture threads pass it
\* on: in the camera, in fr, in packet, then in outPacket.
FlowInv ==
    /\ picTakeSend = TAKE_PIC_STATE =>
          CASE pc["take"] \in {"saveSize", "savePacket"} ->
                 /\ fr = NextFrame(sent)
                 /\ frameNr = NextFrame(fr)
                 /\ packet = sent
            [] pc["take"] = "flip" ->
                 /\ packet = NextFrame(sent)
                 /\ frameNr = NextFrame(packet)
            [] OTHER -> packet = sent /\ frameNr = NextFrame(sent)
    /\ picTakeSend = SEND_PIC_STATE =>
          /\ frameNr = NextFrame(packet)
          /\ packet = IF pc["send"] = "flip" THEN sent ELSE NextFrame(sent)

\* A step keeps SessionInv when pthread_create does not fail.
LEMMA SessionStep ==
    ASSUME "create" \notin Faults
    PROVE  TypeOK /\ SessionInv /\ [Next]_vars => SessionInv'
<1> SUFFICES ASSUME TypeOK, SessionInv, [Next]_vars PROVE SessionInv'
  OBVIOUS
<1> USE DEF SessionInv, Alive, Go, TypeOK, Thread, Session
<1>1. CASE ServeUnmoved
  BY <1>1 DEF ServeUnmoved
<1>2. CASE ServeAlloc \/ ServePoll \/ ServeAccept \/ ServeAcceptMode
  BY <1>2 DEF ServeAlloc, ServePoll, ServeAccept, ServeAcceptMode
<1>3. CASE ServeCreate
  BY <1>3 DEF ServeCreate
<1>4. CASE ServeJoin \/ ServeFree
  BY <1>4 DEF ServeJoin, ServeFree
<1>5. CASE ServeQuit
  BY <1>5 DEF ServeQuit, Wake
<1>6. CASE ServeAllocFails \/ ServePollFails \/ ServeCameraFails
  BY <1>6 DEF ServeAllocFails, ServePollFails, ServeCameraFails
<1>7. CASE MainJoinMain
  BY <1>7 DEF MainJoinMain
<1>8. ~ServeCreateFails
  BY DEF ServeCreateFails
<1>9. QED
  BY <1>1, <1>2, <1>3, <1>4, <1>5, <1>6, <1>7, <1>8, OthersLeaveServe
  DEF Next, ServeRuns, ServeFails, Main

\* The effect of a step on the hand-off: a Put, a Get or nothing.
LEMMA FlowStep ==
    ASSUME IInv, SessionInv, FlowInv, [Next]_vars, "create" \notin Faults
    PROVE  FlowInv' /\ [Slot!Next]_(Slot!vars)
<1> DEFINE Effect == FlowInv' /\ [Slot!Next]_(Slot!vars)
<1>1. /\ pc["take"] \in Critical("take") =>
            /\ picTakeSend = TAKE_PIC_STATE
            /\ pc["send"] \notin Critical("send")
      /\ pc["send"] \in Critical("send") =>
            /\ picTakeSend = SEND_PIC_STATE
            /\ pc["take"] \notin Critical("take")
      /\ picTakeSend \in {TAKE_PIC_STATE, SEND_PIC_STATE}
      /\ pc["send"] = "write" => outPacket = packet
  <2>1. pc["send"] = "write" => pc["main"] # "exited"
    BY DEF IInv, ExitInv, Thread, Session
  <2>2. QED
    BY <2>1 DEF IInv, TypeOK, LockInv, PacketInv, Picture, Turn, Critical
<1>2. TypeOK
  BY DEF IInv
<1>3. Joined
  BY DEF IInv
<1> USE DEF FlowInv, SlotFull, SlotProduced, Slot!vars, Go,
            Thread, Session, Picture, TAKE_PIC_STATE, SEND_PIC_STATE, Critical
<1>4. CASE Bystander
  BY <1>2, <1>4, BystanderStep DEF PictureUnmoved
<1>5. CASE MainJoinMain
  <2>1. pc["take"] \in {"none", "done"} /\ pc["send"] \in {"none", "done"}
    BY <1>5 DEF MainJoinMain, SessionInv, Alive
  <2>2. QED
    BY <1>1, <1>5, <2>1 DEF MainJoinMain
<1>6. CASE ServeQuit
  BY <1>1, <1>2, <1>6, QuitEffect
<1>7. CASE ServeCreate \/ ServeCreateFails
  BY <1>1, <1>2, <1>3, <1>7, CreateEffect
<1>8. ASSUME NEW t \in Picture, Bcast(t) PROVE Effect
  <2>1. \A u \in Picture \ {t} :
           pc'[u] = IF pc[u] = "wait" THEN "lock" ELSE pc[u]
    BY <1>2, <1>8, BcastEffect
  <2>2. pc[t] = "bcast" /\ pc'[t] = "loop"
    BY <1>2, <1>8, BcastEffect
  <2>3. UNCHANGED <<picTakeSend, frameVars>>
    BY <1>8 DEF Bcast
  <2>4. QED
    BY <1>1, <2>1, <2>2, <2>3
<1>9. CASE \E t \in Picture : Loop(t) \/ Enter(t) \/ Close(t)
                              \/ SpuriousWakeup(t)
  BY <1>1, <1>2, <1>9
  DEF Loop, Enter, Work, Turn, Close, SpuriousWakeup, TypeOK
<1>10. CASE Flip("take")
  BY <1>1, <1>2, <1>10 DEF Flip, TypeOK, Slot!Next, Slot!Put,
     Slot!NextFrame, NextFrame
<1>11. CASE Flip("send")
  BY <1>1, <1>2, <1>11 DEF Flip, TypeOK
<1>12. pc["take"] = "capture" => cam
  BY DEF SessionInv, Alive
<1>13. pc["send"] = "get" => cam
  BY DEF SessionInv, Alive
<1>14. CASE Take
  BY <1>1, <1>2, <1>12, <1>14
  DEF Take, TakeMode, TakeSleep, TakeCapture, TakeSaveSize, TakeSavePacket,
      TypeOK
<1>15. CASE SendGet
  BY <1>1, <1>2, <1>13, <1>15 DEF SendGet, TypeOK
<1>16. CASE SendWrite
  BY <1>1, <1>2, <1>16 DEF SendWrite, TypeOK, Slot!Next, Slot!Get
<1> HIDE DEF Effect
<1>17. QED
  BY <1>4, <1>5, <1>6, <1>7, <1>8, <1>9, <1>10, <1>11, <1>14, <1>15, <1>16,
     PictureCases DEF Effect, Send

\* The packet buffer is a one-slot hand-off: over all sessions and for every
\* interleaving the frames given to the network are the frames of the camera
\* in their order, none twice and none left out.
THEOREM ImplementsHandoff ==
    ASSUME "create" \notin Faults
    PROVE  Spec => HandoffSpec
<1>1. Init => Slot!Init /\ SessionInv /\ FlowInv
  <2> SUFFICES ASSUME Init PROVE Slot!Init /\ SessionInv /\ FlowInv
    OBVIOUS
  <2>1. /\ pc["take"] = "none" /\ pc["send"] = "none" /\ pc["mode"] = "none"
        /\ pc["serve"] = "alloc"
    BY DEF Init, Thread, Session
  <2>2. Slot!Init
    BY <2>1 DEF Init, Slot!Init, SlotFull, SlotProduced, TAKE_PIC_STATE,
                SEND_PIC_STATE
  <2>3. SessionInv
    BY <2>1 DEF SessionInv, Alive, Session
  <2>4. FlowInv
    <3>1. packet = sent /\ frameNr = NextFrame(sent)
      BY DEF Init, NextFrame
    <3>2. picTakeSend = TAKE_PIC_STATE /\ picTakeSend # SEND_PIC_STATE
      BY DEF Init, TAKE_PIC_STATE, SEND_PIC_STATE
    <3>3. QED
      BY <2>1, <3>1, <3>2 DEF FlowInv
  <2>5. QED
    BY <2>2, <2>3, <2>4
<1>2. IInv /\ SessionInv /\ FlowInv /\ [Next]_vars
        => SessionInv' /\ FlowInv' /\ [Slot!Next]_(Slot!vars)
  BY SessionStep, FlowStep DEF IInv
<1>3. QED
  BY Inductive, <1>1, <1>2, PTL DEF Spec, HandoffSpec, Slot!Spec
=============================================================================
