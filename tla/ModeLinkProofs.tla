---------------------------- MODULE ModeLinkProofs ----------------------------
(***************************************************************************)
(* What the user's choice and motion do to the mode a camera is sent, for  *)
(* any cameras, connections and failures.                                  *)
(***************************************************************************)
EXTENDS ModeLink, TLAPS

USE ModeKind, SocketsAssumption, MaxWireAssumption

LinkProofs == INSTANCE NetLinkProofs

-----------------------------------------------------------------------------
(* The inductive invariant *)

\* What Input has taken is on its way from the button to ClientMonitor.
InputInv ==
    /\ inputAt = "set" /\ ~newInput => taken = guiMode
    /\ inputAt = "get" /\ ~newInput => oldMode = guiMode

\* A choice that was handed on stands until the next one.
ChoiceInv == oldMode # Control!AUTO => mode = oldMode /\ modeToSend = oldMode - 1

\* As long as the user has never chosen, motion decides.
MotionInv == mode = Control!AUTO => modeToSend = Control!Wanted

ControlInv == Control!TypeOK /\ InputInv /\ ChoiceInv /\ MotionInv

-----------------------------------------------------------------------------
(* The invariant is inductive *)

\* Nobody has chosen and nothing moves when the client starts.
LEMMA InitControl == Init => ControlInv
<1> SUFFICES ASSUME Init PROVE ControlInv
  OBVIOUS
<1> USE DEF Init, Control!Init
<1>1. Control!TypeOK
  <2>1. /\ motion \in [Cameras -> BOOLEAN] /\ event \in [Cameras -> BOOLEAN]
        /\ newInput \in BOOLEAN
    OBVIOUS
  <2>2. /\ guiMode \in Control!Modes /\ inputAt \in {"get", "set"}
        /\ taken \in Control!Modes /\ oldMode \in Control!Modes
        /\ mode \in Control!Modes /\ modeToSend \in 0..1 /\ sent \in 0..1
    BY DEF Control!Modes
  <2>3. QED
    BY <2>1, <2>2 DEF Control!TypeOK
<1>2. InputInv /\ ChoiceInv
  BY DEF InputInv, ChoiceInv
<1>3. MotionInv
  BY DEF MotionInv, Control!Wanted
<1>4. QED
  BY <1>1, <1>2, <1>3 DEF ControlInv

\* What the user does preserves the invariant.
LEMMA UserControl == ControlInv /\ Control!UserStep => ControlInv'
<1> SUFFICES ASSUME ControlInv, Control!UserStep PROVE ControlInv'
  OBVIOUS
<1> USE DEF ControlInv, Control!TypeOK, InputInv, ChoiceInv, MotionInv,
            Control!Wanted, Control!inputVars, Control!monitorVars
<1>1. CASE Control!SyncCheckBox
  BY <1>1 DEF Control!SyncCheckBox
<1>2. ASSUME NEW m \in Control!Modes, Control!RadioButton(m) PROVE ControlInv'
  BY <1>2 DEF Control!RadioButton
<1>3. QED
  BY <1>1, <1>2 DEF Control!UserStep

\* Input preserves the invariant: a manual mode is what is to be sent.
LEMMA InputControl == ControlInv /\ Control!InputStep => ControlInv'
<1> SUFFICES ASSUME ControlInv, Control!InputStep PROVE ControlInv'
  OBVIOUS
<1> USE DEF ControlInv, Control!TypeOK, InputInv, ChoiceInv, MotionInv,
            Control!Wanted, Control!guiVars, Control!monitorVars
<1>1. CASE Control!GetInput
  BY <1>1 DEF Control!GetInput
<1>2. CASE Control!InputSetMode
  <2>1. CASE taken = oldMode
    BY <1>2, <2>1 DEF Control!InputSetMode
  <2>2. CASE taken # oldMode /\ taken = Control!AUTO
    BY <1>2, <2>2 DEF Control!InputSetMode, Control!SetMode
  <2>3. CASE taken # oldMode /\ taken # Control!AUTO
    BY <1>2, <2>3 DEF Control!InputSetMode, Control!SetMode, Control!Modes,
                      Control!AUTO, Control!IDLE, Control!MOVIE
  <2>4. QED
    BY <2>1, <2>2, <2>3
<1>3. QED
  BY <1>1, <1>2 DEF Control!InputStep

\* An answer about motion changes what is to be sent in automatic mode only.
LEMMA MotionControl == ControlInv /\ Control!MotionStep => ControlInv'
<1> SUFFICES ASSUME ControlInv, NEW c \in Cameras,
                    Control!MotionServer(c) \/ Control!MotionAnswer(c)
             PROVE  ControlInv'
  BY DEF Control!MotionStep
<1> USE DEF ControlInv, Control!TypeOK, InputInv, ChoiceInv, MotionInv,
            Control!Wanted, Control!guiVars, Control!inputVars, Control!monitorVars
<1>1. CASE Control!MotionServer(c)
  BY <1>1 DEF Control!MotionServer
<1>2. CASE Control!MotionAnswer(c)
  <2>1. CASE mode = Control!AUTO
    BY <1>2, <2>1 DEF Control!MotionAnswer, Control!SetMotionDetected
  <2>2. CASE mode # Control!AUTO
    BY <1>2, <2>2 DEF Control!MotionAnswer, Control!SetMotionDetected
  <2>3. QED
    BY <2>1, <2>2
<1>3. QED
  BY <1>1, <1>2

\* ModeSender only reads.
LEMMA SenderControl == ControlInv /\ Control!GetNewMode => ControlInv'
BY DEF ControlInv, Control!TypeOK, InputInv, ChoiceInv, MotionInv,
   Control!Wanted,
       Control!GetNewMode, Control!guiVars, Control!inputVars, Control!monitorVars

\* A step of the whole is one of the four, or leaves the mode control alone.
LEMMA Parts ==
    [Next]_vars => \/ Control!UserStep \/ Control!InputStep \/ Control!MotionStep
                   \/ Control!GetNewMode \/ UNCHANGED controlVars
BY DEF Next, ClientStep, LinkStep, SenderStep, TakeMode, WriteMode,
   WriteModeFails,
       AcceptStep, CameraAccepts, CameraSessionEnds, CameraStep, CameraReads,
       PeerStep, CameraCloses, CameraResets, vars

\* Every step preserves the invariant.
LEMMA NextControl == ControlInv /\ [Next]_vars => ControlInv'
<1>1. ControlInv /\ UNCHANGED controlVars => ControlInv'
  BY DEF controlVars, ControlInv, Control!TypeOK, InputInv, ChoiceInv, MotionInv,
         Control!Wanted
<1>2. QED
  BY <1>1, Parts, UserControl, InputControl, MotionControl, SenderControl

\* The invariant holds in every state.
LEMMA ControlAlways == Spec => []ControlInv
<1>1. Init => ControlInv
  BY InitControl
<1>2. ControlInv /\ [Next]_vars => ControlInv'
  BY NextControl
<1>3. QED
  BY <1>1, <1>2, PTL DEF Spec

-----------------------------------------------------------------------------
(* The link: what is proved of every NetLink is used for this one *)

\* The steps of the link are those NetLinkProofs is about.
LEMMA SameSteps ==
    Link!ConnStep \/ Link!StopStep \/ Link!WorkerStep("writer") \/ Link!WriterSleep
    \/ Link!WriterReady \/ Link!Write \/ Link!WriteFails
    \/ (\E s \in Sockets : Link!PeerCloses(s) \/ Link!PeerResets(s))
    => LinkProofs!Next
<1>1. Link!ConnStep => LinkProofs!ConnStep
  BY DEF Link!ConnStep, LinkProofs!ConnStep, Link!ConnTest, LinkProofs!ConnTest,
         Link!ConnectFails, LinkProofs!ConnectFails, Link!SetSocket,
         LinkProofs!SetSocket, Link!Activate, LinkProofs!Activate,
         Link!WaitUntilNotActive, LinkProofs!WaitUntilNotActive, Link!CloseOld,
         LinkProofs!CloseOld, Link!Closed, LinkProofs!Closed, Link!Connect,
         LinkProofs!Connect, Link!Unused, LinkProofs!Unused
<1>2. Link!StopStep => LinkProofs!StopStep
  BY DEF Link!StopStep, LinkProofs!StopStep, Link!StopWait, LinkProofs!StopWait,
         Link!StopClose, LinkProofs!StopClose, Link!Closed, LinkProofs!Closed
<1>3. Link!WorkerStep("writer") => LinkProofs!WorkerStep("writer")
  BY DEF Link!WorkerStep, LinkProofs!WorkerStep, Link!WorkerTest,
         LinkProofs!WorkerTest, Link!WaitUntilActive,
         LinkProofs!WaitUntilActive, Link!GetStream, LinkProofs!GetStream,
         Link!WorkerFail, LinkProofs!WorkerFail, Link!Goto, LinkProofs!Goto,
         Link!Leave, LinkProofs!Leave
<1>4. \/ Link!WriterSleep \/ Link!WriterReady \/ Link!Write \/ Link!WriteFails
      => LinkProofs!WriterStep \/ LinkProofs!WriterWaits
  BY DEF Link!WriterSleep, LinkProofs!WriterSleep, Link!WriterReady,
         LinkProofs!WriterReady, Link!Write, LinkProofs!Write, Link!WriteFails,
         LinkProofs!WriteFails, Link!Goto, LinkProofs!Goto,
         LinkProofs!WriterStep, LinkProofs!WriterWaits
<1>5. (\E s \in Sockets : Link!PeerCloses(s) \/ Link!PeerResets(s)) => LinkProofs!PeerStep
  BY DEF Link!PeerCloses, LinkProofs!PeerCloses, Link!PeerResets,
         LinkProofs!PeerResets, LinkProofs!PeerStep
<1>6. QED
  BY <1>1, <1>2, <1>3, <1>4, <1>5 DEF LinkProofs!Next, LinkProofs!WriterStep

\* A link that is being given up is broken, and a mode link is never shut down.
Broken ==
    conn = "close" \/ (conn = "until" /\ ~active)
        => socket = None \/ state[socket] # "open"

LinkInv == /\ LinkProofs!IInv
           /\ kind = "mode" /\ shutdown = FALSE /\ stop = "wait"
           /\ Broken

\* What is on the way is on the way over an open connection.
OnOpen == \A s \in Sockets : wire[s] # <<>> => state[s] = "open"

WireInv == /\ wire \in [Sockets -> Seq(0..1)]
           /\ \A s \in Sockets : Len(wire[s]) <= MaxWire
           /\ OnOpen
           /\ camMode \in 0..1 /\ missed \in BOOLEAN

\* The camera has accepted an open connection or none.
SessionInv == /\ accepted \in Sockets \cup {None} /\ deaf \in BOOLEAN
              /\ accepted # None => state[accepted] = "open"

\* The link starts as any link of its kind.
LEMMA SameInit == Init => LinkProofs!Init
<1>1. Link!Workers = LinkProofs!Workers
  BY DEF Link!Workers, LinkProofs!Workers
<1>2. Link!Started(kind) = LinkProofs!Started(kind)
  BY Zenon DEF Link!Started, LinkProofs!Started, Link!Workers, LinkProofs!Workers
<1>3. QED
  BY <1>1, <1>2 DEF Init, Link!Init, LinkProofs!Init

\* Nothing is open and nothing on the way at the beginning.
LEMMA InitLink == Init => LinkInv /\ WireInv
<1> SUFFICES ASSUME Init PROVE LinkInv /\ WireInv
  OBVIOUS
<1>1. LinkProofs!Init
  BY SameInit
<1>2. LinkProofs!IInv
  BY <1>1, LinkProofs!InitIInv DEF LinkProofs!AllKinds
<1>3. kind = "mode" /\ shutdown = FALSE /\ stop = "wait" /\ conn = "test"
  BY DEF Init, Link!Init
<1>4. WireInv
  <2>1. <<>> \in Seq(0..1) /\ Len(<<>>) = 0
    OBVIOUS
  <2>2. missed \in BOOLEAN
    BY DEF Init
  <2>3. camMode \in 0..1
    BY DEF Init
  <2>4. QED
    BY <2>1, <2>2, <2>3 DEF Init, WireInv, OnOpen
<1>5. QED
  BY <1>2, <1>3, <1>4 DEF LinkInv, Broken

\* A step of the whole is a step of the link, or leaves it alone.
LEMMA LinkParts == [Next]_vars => LinkProofs!Next \/ UNCHANGED linkVars
BY SameSteps DEF Next, ClientStep, LinkStep, SenderStep, TakeMode, WriteMode,
       WriteModeFails, AcceptStep, CameraAccepts, CameraSessionEnds, CameraStep,
       CameraReads, PeerStep, CameraCloses, CameraResets, vars

\* So the invariant proved of every link is preserved.
LEMMA NextIInv == LinkInv /\ [Next]_vars => LinkProofs!IInv'
<1> SUFFICES ASSUME LinkInv, [Next]_vars PROVE LinkProofs!IInv'
  OBVIOUS
<1>1. Kinds \subseteq LinkProofs!AllKinds
  BY DEF LinkProofs!AllKinds
<1>2. LinkProofs!Next \/ UNCHANGED LinkProofs!linkVars
  BY LinkParts DEF linkVars, LinkProofs!linkVars
<1>3. QED
  BY <1>1, <1>2, LinkProofs!NextIInv DEF LinkInv

\* A step gives a link up only when it is broken.
LEMMA NextLink == LinkInv /\ [Next]_vars => LinkInv'
<1> DEFINE Rest == kind = "mode" /\ shutdown = FALSE /\ stop = "wait" /\ Broken
<1> SUFFICES ASSUME LinkInv, [Next]_vars PROVE Rest'
  BY NextIInv DEF LinkInv
<1> USE DEF LinkInv, LinkProofs!IInv, LinkProofs!TypeOK, LinkProofs!AllClosed,
            LinkProofs!ActiveUntil, LinkProofs!OneWorker, LinkProofs!Workers,
            Broken
<1>1. CASE Link!ConnStep
  <2>1. CASE Link!ConnectFails
    BY <1>1, <2>1 DEF Link!ConnectFails
  <2>2. CASE ~ Link!ConnectFails
    BY <1>1, <2>2 DEF Link!ConnStep, Link!ConnTest, Link!SetSocket,
       Link!Activate, Link!WaitUntilNotActive, Link!CloseOld, Link!Closed, Link!Connect,
       Link!Unused
  <2>3. QED
    BY <2>1, <2>2
<1>2. CASE Link!WorkerStep("writer")
  BY <1>2 DEF Link!WorkerStep, Link!WorkerTest, Link!WaitUntilActive,
     Link!GetStream, Link!WorkerFail, Link!Goto, Link!Leave
<1>3. CASE \/ Link!WriterSleep \/ Link!WriterReady \/ Link!Write \/ Link!WriteFails
  BY <1>3 DEF Link!WriterSleep, Link!WriterReady, Link!Write,
     Link!WriteFails, Link!Goto
<1>4. CASE \E s \in Sockets : Link!PeerCloses(s) \/ Link!PeerResets(s)
  BY <1>4 DEF Link!PeerCloses, Link!PeerResets
<1>5. CASE UNCHANGED linkVars
  BY <1>5 DEF linkVars
<1>6. ~ Link!StopStep
  BY DEF Link!StopStep, Link!StopWait, Link!StopClose
<1>7. QED
  BY <1>1, <1>2, <1>3, <1>4, <1>5, <1>6 DEF Next, ClientStep, LinkStep,
     SenderStep,
     TakeMode, WriteMode, WriteModeFails, AcceptStep, CameraAccepts,
     CameraSessionEnds, CameraStep, CameraReads, PeerStep, CameraCloses,
     CameraResets, vars

-----------------------------------------------------------------------------
(* What is on the way *)

\* A step of the connection thread or of ModeSender closes no connection that
\* still works.
LEMMA StaysOpen ==
    ASSUME LinkInv, LinkStep
    PROVE  \A s \in Sockets : state[s] = "open" => state'[s] = "open"
<1> USE DEF LinkInv, LinkProofs!IInv, LinkProofs!TypeOK, Broken
<1>1. CASE Link!ConnStep
  BY <1>1 DEF Link!ConnStep, Link!ConnTest, Link!ConnectFails, Link!SetSocket,
     Link!Activate, Link!WaitUntilNotActive, Link!CloseOld, Link!Closed,
     Link!Connect, Link!Unused
<1>2. CASE Link!WorkerStep("writer")
  BY <1>2 DEF Link!WorkerStep, Link!WorkerTest, Link!WaitUntilActive,
     Link!GetStream, Link!WorkerFail
<1>3. CASE Link!WriterSleep
  BY <1>3 DEF Link!WriterSleep
<1>4. ~ Link!StopStep
  BY DEF Link!StopStep, Link!StopWait, Link!StopClose
<1>5. QED
  BY <1>1, <1>2, <1>3, <1>4 DEF LinkStep

\* So what is on the way stays on the way, and the camera keeps its connection.
LEMMA LinkWire == LinkInv /\ WireInv /\ LinkStep => WireInv'
BY StaysOpen DEF WireInv, LinkStep, cameraVars, OnOpen

\* Every step leaves the camera an open connection or none.
LEMMA NextSession == LinkInv /\ SessionInv /\ [Next]_vars => SessionInv'
<1> SUFFICES ASSUME LinkInv, SessionInv, [Next]_vars PROVE SessionInv'
  OBVIOUS
<1> USE DEF SessionInv
<1>1. CASE ClientStep
  BY <1>1 DEF ClientStep, linkVars, cameraVars
<1>2. CASE LinkStep
  BY <1>2, StaysOpen DEF LinkStep, cameraVars
<1>3. CASE TakeMode
  BY <1>3 DEF TakeMode, Link!WriterReady, cameraVars
<1>4. CASE WriteMode
  BY <1>4 DEF WriteMode, Link!Write
<1>5. CASE WriteModeFails
  BY <1>5 DEF WriteModeFails, Link!WriteFails
<1>6. ASSUME NEW s \in Sockets, CameraAccepts(s) PROVE SessionInv'
  BY <1>6 DEF CameraAccepts, linkVars
<1>7. CASE CameraSessionEnds
  BY <1>7 DEF CameraSessionEnds, linkVars
<1>8. ASSUME NEW s \in Sockets, CameraReads(s) PROVE SessionInv'
  BY <1>8 DEF CameraReads, linkVars
<1>9. ASSUME NEW s \in Sockets, CameraCloses(s) \/ CameraResets(s)
      PROVE  SessionInv'
  BY <1>9 DEF CameraCloses, CameraResets, CameraRestarts, CameraBreaks
<1>10. CASE UNCHANGED vars
  BY <1>10 DEF vars, linkVars, cameraVars
<1>11. QED
  BY <1>1, <1>2, <1>3, <1>4, <1>5, <1>6, <1>7, <1>8, <1>9, <1>10
     DEF Next, SenderStep, AcceptStep, CameraStep, PeerStep

\* Every step leaves what is on the way on an open connection.
LEMMA NextWire == ControlInv /\ LinkInv /\ WireInv /\ [Next]_vars => WireInv'
<1> SUFFICES ASSUME ControlInv, LinkInv, WireInv, [Next]_vars PROVE WireInv'
  OBVIOUS
<1>1. sent \in 0..1
  BY DEF ControlInv, Control!TypeOK
<1>2. state \in [Sockets -> {"open", "fin", "reset", "closed"}]
  BY DEF LinkInv, LinkProofs!IInv, LinkProofs!TypeOK
<1>3. CASE ClientStep
  BY <1>3 DEF ClientStep, linkVars, cameraVars, WireInv, OnOpen
<1>4. CASE TakeMode
  BY <1>4 DEF TakeMode, Link!WriterReady, cameraVars, WireInv, OnOpen
<1>5. CASE WriteMode
  <2> DEFINE u == used["writer"]
  <2>1. \A s \in Sockets : state[s] = "open" => state'[s] = "open"
    BY <1>2, <1>5 DEF WriteMode, Link!Write
  <2>2. CASE state[u] = "open"
    <3>1. Len(wire[u]) < MaxWire /\ wire' = [wire EXCEPT ![u] = Append(@, sent)]
      BY <1>5, <2>2 DEF WriteMode
    <3>2. missed' = FALSE /\ camMode' = camMode
      BY <1>5, <2>2 DEF WriteMode
    <3>3. u \in Sockets => /\ Append(wire[u], sent) \in Seq(0..1)
                           /\ Len(Append(wire[u], sent)) <= MaxWire
      BY <1>1, <3>1 DEF WireInv
    <3>4. QED
      BY <2>1, <2>2, <3>1, <3>2, <3>3 DEF WireInv, OnOpen
  <2>3. CASE state[u] # "open"
    BY <1>5, <2>1, <2>3 DEF WriteMode, WireInv, OnOpen
  <2>4. QED
    BY <2>2, <2>3
<1>6. CASE WriteModeFails
  BY <1>6 DEF WriteModeFails, Link!WriteFails, WireInv, OnOpen
<1>7. ASSUME NEW s \in Sockets, CameraReads(s) PROVE WireInv'
  <2> DEFINE q == wire[s]
  <2>1. q \in Seq(0..1) /\ q # <<>> /\ Len(q) <= MaxWire
    BY <1>7 DEF CameraReads, WireInv
  <2>2. Tail(q) \in Seq(0..1) /\ Len(Tail(q)) <= MaxWire /\ q[1] \in 0..1
    <3> HIDE DEF q
    <3> QED
      BY <2>1
  <2>3. state[s] = "open"
    BY <2>1 DEF WireInv, OnOpen
  <2>4. /\ wire' = [wire EXCEPT ![s] = Tail(q)] /\ camMode' = q[1]
        /\ missed' = missed /\ state' = state
    BY <1>7 DEF CameraReads, linkVars
  <2>5. OnOpen'
    BY <2>3, <2>4 DEF WireInv, OnOpen
  <2>6. QED
    BY <2>2, <2>4, <2>5 DEF WireInv
<1>8. ASSUME NEW s \in Sockets, CameraCloses(s) PROVE WireInv'
  BY <1>2, <1>8 DEF CameraCloses, CameraRestarts, Link!PeerCloses, WireInv, OnOpen
<1>9. ASSUME NEW s \in Sockets, CameraResets(s) PROVE WireInv'
  <2>1. <<>> \in Seq(0..1) /\ Len(<<>>) = 0
    OBVIOUS
  <2>2. QED
    BY <1>2, <1>9, <2>1 DEF CameraResets, CameraRestarts, CameraBreaks,
       Link!PeerResets, WireInv, OnOpen
<1>10. ASSUME NEW s \in Sockets, CameraAccepts(s) PROVE WireInv'
  BY <1>10 DEF CameraAccepts, linkVars, WireInv, OnOpen
<1>11. CASE CameraSessionEnds
  BY <1>11 DEF CameraSessionEnds, linkVars, WireInv, OnOpen
<1>12. CASE UNCHANGED vars
  BY <1>12 DEF vars, linkVars, cameraVars, WireInv, OnOpen
<1>13. QED
  BY <1>3, <1>4, <1>5, <1>6, <1>7, <1>8, <1>9, <1>10, <1>11, <1>12, LinkWire
     DEF Next, SenderStep, AcceptStep, CameraStep, PeerStep

\* The last mode on the way, or else the mode of the camera, is the one that
\* ModeSender took last, once it is written and unless something was lost.
Newest(q) == q[Len(q)]

SentInv ==
    ~missed /\ at["writer"] # "write" =>
        /\ \A s \in Sockets : wire[s] # <<>> => Newest(wire[s]) = sent
        /\ (\A s \in Sockets : wire[s] = <<>>) => camMode = sent

\* A sequence of modes without an element is the empty one.
LEMMA Empty == ASSUME NEW q \in Seq(0..1) PROVE q = <<>> <=> Len(q) = 0
<1>1. Len(q) = 0 => q = <<>>
  OBVIOUS
<1>2. QED
  BY <1>1

\* Only one connection can hold what is on the way.
LEMMA OneWire ==
    ASSUME LinkInv, WireInv, NEW r \in Sockets, NEW s \in Sockets,
           state[r] = "open", wire[s] # <<>>
    PROVE  r = s
<1>1. state[s] = "open"
  BY DEF WireInv, OnOpen
<1>2. QED
  BY <1>1 DEF LinkInv, LinkProofs!IInv, LinkProofs!NoConnectionLeak

\* Every step keeps the newest mode the last one.
LEMMA NextSent == ControlInv /\ LinkInv /\ WireInv /\ SentInv /\ [Next]_vars => SentInv'
<1> SUFFICES ASSUME ControlInv, LinkInv, WireInv, SentInv, [Next]_vars PROVE SentInv'
  OBVIOUS
<1>1. at \in [LinkProofs!Workers -> {"test", "wait", "get", "read", "bad", "ready",
                                     "write", "sleep", "fail", "done"}]
  BY DEF LinkInv, LinkProofs!IInv, LinkProofs!TypeOK
<1>2. "writer" \in LinkProofs!Workers
  BY DEF LinkProofs!Workers
<1>3. CASE ClientStep
  BY <1>3 DEF ClientStep, linkVars, cameraVars, SentInv, Control!UserStep,
     Control!SyncCheckBox, Control!RadioButton, Control!InputStep, Control!GetInput,
     Control!InputSetMode, Control!MotionStep, Control!MotionServer,
     Control!MotionAnswer
<1>4. CASE LinkStep
  <2>1. at'["writer"] # "write" => at["writer"] # "write"
    BY <1>1, <1>2, <1>4 DEF LinkStep, Link!ConnStep, Link!ConnTest,
       Link!ConnectFails,
       Link!SetSocket, Link!Activate, Link!WaitUntilNotActive, Link!CloseOld,
       Link!Connect, Link!StopStep, Link!StopWait, Link!StopClose, Link!WorkerStep,
       Link!WorkerTest, Link!WaitUntilActive, Link!GetStream, Link!WorkerFail,
       Link!WriterSleep, Link!Goto, Link!Leave
  <2>2. QED
    BY <1>4, <2>1 DEF LinkStep, controlVars, cameraVars, SentInv
<1>5. CASE TakeMode
  BY <1>1, <1>2, <1>5 DEF TakeMode, Link!WriterReady, Link!Goto, SentInv
<1>6. CASE WriteMode
  <2> DEFINE u == used["writer"]
  <2>1. u \in Sockets
    BY <1>2, <1>6 DEF WriteMode, Link!Write, LinkInv, LinkProofs!IInv,
       LinkProofs!TypeOK
  <2>2. CASE state[u] # "open"
    BY <1>6, <2>2 DEF WriteMode, SentInv
  <2>3. CASE state[u] = "open"
    <3>1. wire' = [wire EXCEPT ![u] = Append(@, sent)] /\ sent' = sent
      BY <1>6, <2>3 DEF WriteMode, controlVars
    <3>2. ASSUME NEW q \in Seq(0..1)
          PROVE  Append(q, sent) # <<>> /\ Newest(Append(q, sent)) = sent
      BY DEF Newest
    <3>3. wire[u] \in Seq(0..1) /\ wire'[u] = Append(wire[u], sent)
      BY <2>1, <3>1 DEF WireInv
    <3>4. wire'[u] # <<>> /\ Newest(wire'[u]) = sent
      BY <3>2, <3>3
    <3>5. \A s \in Sockets : s # u => wire'[s] = <<>>
      BY <2>1, <2>3, <3>1, OneWire DEF WireInv
    <3>6. QED
      BY <2>1, <3>1, <3>4, <3>5 DEF SentInv
  <2>4. QED
    BY <2>2, <2>3
<1>7. CASE WriteModeFails
  BY <1>7 DEF WriteModeFails, SentInv
<1>8. ASSUME NEW s \in Sockets, CameraReads(s) PROVE SentInv'
  <2>1. /\ wire[s] # <<>> /\ wire' = [wire EXCEPT ![s] = Tail(@)]
        /\ camMode' = wire[s][1]
        /\ missed' = missed /\ sent' = sent /\ at' = at
    BY <1>8 DEF CameraReads, controlVars, linkVars
  <2>2. \A r \in Sockets : r # s => wire'[r] = <<>>
    <3>1. state[s] = "open"
      BY <2>1 DEF WireInv, OnOpen
    <3>2. QED
      BY <2>1, <3>1, OneWire DEF WireInv
  <2>3. wire'[s] = Tail(wire[s]) /\ wire[s] \in Seq(0..1)
    BY <2>1 DEF WireInv
  <2>4. ASSUME NEW q \in Seq(0..1), q # <<>>
        PROVE  /\ Tail(q) # <<>> => Newest(Tail(q)) = Newest(q)
               /\ Tail(q) = <<>> => q[1] = Newest(q)
    <3>1. Len(q) \in Nat \ {0} /\ Tail(q) \in Seq(0..1)
      BY <2>4
    <3>2. /\ Len(Tail(q)) = Len(q) - 1
          /\ \A i \in 1 .. Len(q) - 1 : Tail(q)[i] = q[i + 1]
      BY <2>4
    <3>3. Tail(q) = <<>> <=> Len(Tail(q)) = 0
      BY <3>1, Empty
    <3>4. Tail(q) = <<>> <=> Len(q) = 1
      BY <3>1, <3>2, <3>3
    <3>5. QED
      BY <3>1, <3>2, <3>4 DEF Newest
  <2>5. wire'[s] # <<>> => Newest(wire'[s]) = Newest(wire[s])
    BY <2>4, <2>1, <2>3
  <2>6. wire'[s] = <<>> => camMode' = Newest(wire[s])
    BY <2>4, <2>1, <2>3
  <2>7. QED
    BY <2>1, <2>2, <2>5, <2>6 DEF SentInv
<1>9. ASSUME NEW s \in Sockets, CameraCloses(s) PROVE SentInv'
  BY <1>9 DEF CameraCloses, CameraRestarts, Link!PeerCloses, controlVars, SentInv,
     WireInv
<1>10. ASSUME NEW s \in Sockets, CameraResets(s) PROVE SentInv'
  <2>1. CASE wire[s] = <<>>
    <3>1. wire' = wire
      BY <1>10, <2>1 DEF CameraResets, WireInv
    <3>2. QED
      BY <1>10, <3>1 DEF CameraResets, CameraRestarts, CameraBreaks,
         Link!PeerResets, controlVars, SentInv, WireInv
  <2>2. CASE wire[s] # <<>>
    BY <1>10, <2>2 DEF CameraResets, SentInv
  <2>3. QED
    BY <2>1, <2>2
<1>11. ASSUME NEW s \in Sockets, CameraAccepts(s) PROVE SentInv'
  BY <1>11 DEF CameraAccepts, controlVars, linkVars, SentInv
<1>12. CASE CameraSessionEnds
  BY <1>12 DEF CameraSessionEnds, controlVars, linkVars, SentInv, WireInv
<1>13. CASE UNCHANGED vars
  BY <1>13 DEF vars, controlVars, linkVars, cameraVars, SentInv
<1>14. QED
  BY <1>3, <1>4, <1>5, <1>6, <1>7, <1>8, <1>9, <1>10, <1>11, <1>12, <1>13
     DEF Next, SenderStep, AcceptStep, CameraStep, PeerStep

IInv == ControlInv /\ LinkInv /\ WireInv /\ SessionInv /\ SentInv

\* The invariant of the whole holds in every state.
LEMMA Always == Spec => []IInv
<1>1. Init => IInv
  <2>1. Init => SentInv
    BY DEF Init, Control!Init, SentInv
  <2>2. Init => SessionInv
    BY DEF Init, SessionInv
  <2>3. QED
    BY <2>1, <2>2, InitControl, InitLink DEF IInv
<1>2. IInv /\ [Next]_vars => IInv'
  BY NextControl, NextLink, NextWire, NextSession, NextSent DEF IInv
<1>3. QED
  BY <1>1, <1>2, PTL DEF Spec

-----------------------------------------------------------------------------
(* The theorems *)

\* Buttons, modes and flags keep their types, the link is used as any link is,
\* what is on the way is on the way over an open connection, and the camera reads
\* an open one.
THEOREM Typing == Spec => []TypeOK
<1>1. IInv => TypeOK
  <2>1. LinkInv => Link!TypeOK
    BY DEF LinkInv, LinkProofs!IInv, LinkProofs!TypeOK, Link!TypeOK,
       Link!Workers,
       LinkProofs!Workers, Link!Packets, LinkProofs!Packets
  <2>2. QED
    BY <2>1 DEF IInv, ControlInv, WireInv, SessionInv, TypeOK, OnOpen
<1>2. QED
  BY <1>1, Always, PTL

\* Whatever connections came and went, a camera that all was read by is in the
\* mode ModeSender took last, unless that mode was lost on the way.
THEOREM Reaches == Spec => []InStep
<1>1. IInv => InStep
  BY DEF IInv, SentInv, WireInv, InStep, Quiet
<1>2. QED
  BY <1>1, Always, PTL

\* Once Input has handed on a manual mode, no answer about motion changes what
\* is to be sent.
THEOREM Manual == Spec => []ManualWins
<1>1. ControlInv => ManualWins
  BY DEF ControlInv, InputInv, ChoiceInv, ManualWins, Control!ManualWins,
         Control!InputDone
<1>2. QED
  BY <1>1, ControlAlways, PTL

\* Movie mode ends only when the user chooses idle mode or a motion server was
\* started again: a camera in which nothing moves any more does not end it.
THEOREM Movie == Spec => MovieKept
<1>1. ControlInv /\ [Next]_vars =>
        [modeToSend = 1 /\ modeToSend' = 0
            => \/ inputAt = "set" /\ taken = Control!IDLE
               \/ \E c \in Cameras : motion[c] /\ ~event[c]]_vars
  <2> SUFFICES ASSUME ControlInv, [Next]_vars, modeToSend = 1, modeToSend' = 0
               PROVE  \/ inputAt = "set" /\ taken = Control!IDLE
                      \/ \E c \in Cameras : motion[c] /\ ~event[c]
    OBVIOUS
  <2> USE DEF ControlInv, Control!TypeOK
  <2>1. CASE Control!InputStep
    BY <2>1 DEF Control!InputStep, Control!GetInput, Control!InputSetMode,
                Control!SetMode, Control!monitorVars, Control!AUTO, Control!IDLE,
                Control!MOVIE, Control!Modes
  <2>2. CASE Control!MotionStep
    <3>1. PICK c \in Cameras : Control!MotionAnswer(c)
      BY <2>2 DEF Control!MotionStep, Control!MotionServer, Control!monitorVars
    <3>2. mode = Control!AUTO /\ ~ \E d \in Cameras : motion'[d]
      BY <3>1 DEF Control!MotionAnswer, Control!SetMotionDetected
    <3>3. PICK d \in Cameras : motion[d]
      BY <3>2 DEF MotionInv, Control!Wanted
    <3>4. motion'[c] = event[c] /\ (d # c => motion'[d] = motion[d])
      BY <3>1 DEF Control!MotionAnswer, Control!SetMotionDetected
    <3>5. QED
      BY <3>2, <3>3, <3>4
  <2>3. CASE Control!UserStep
    BY <2>3 DEF Control!UserStep, Control!SyncCheckBox, Control!RadioButton,
                Control!monitorVars
  <2>4. CASE Control!GetNewMode
    BY <2>4 DEF Control!GetNewMode, Control!monitorVars
  <2>5. QED
    BY <2>1, <2>2, <2>3, <2>4, Parts DEF controlVars
<1>2. QED
  BY <1>1, ControlAlways, PTL DEF Spec, MovieKept

-----------------------------------------------------------------------------
(* The parts in use *)

\* Whatever the camera and ModeSender do, the mode control and the link behave as
\* their own modules say: nothing here reaches into their state from outside.
THEOREM UsesParts == Spec => Control!Spec /\ Link!Spec
<1>1. Init => Control!Init /\ Link!Init
  BY DEF Init
<1>2. [Next]_vars => [Control!Next]_Control!controlVars
  BY Parts DEF Control!Next, controlVars, Control!controlVars, Control!guiVars,
               Control!inputVars, Control!monitorVars
<1>3. [Next]_vars => [Link!Next]_Link!linkVars
  BY DEF Next, ClientStep, LinkStep, SenderStep, TakeMode, WriteMode, WriteModeFails,
         AcceptStep, CameraAccepts, CameraSessionEnds, CameraStep, CameraReads,
         PeerStep, CameraCloses, CameraResets, vars, linkVars,
         Link!Next, Link!linkVars, Link!WriterWaits, Link!WriterStep, Link!PeerStep
<1>4. QED
  BY <1>1, <1>2, <1>3, PTL DEF Spec, Control!Spec, Link!Spec

\* So the link to the camera leaves no connection open however often it is made,
THEOREM NoLeakInUse == Spec => []Link!NoConnectionLeak
<1>1. IInv => Link!NoConnectionLeak
  BY DEF IInv, LinkInv, LinkProofs!IInv, LinkProofs!NoConnectionLeak,
         Link!NoConnectionLeak
<1>2. QED
  BY <1>1, Always, PTL

\* and is given up only when it is broken, so that no mode is lost for want of a
\* connection that worked.
THEOREM KeptInUse == Spec => Link!HealthyKept
<1>1. Kinds \subseteq LinkProofs!AllKinds
  BY DEF LinkProofs!AllKinds
<1>2. [Next]_vars => [LinkProofs!Next]_LinkProofs!linkVars
  BY LinkParts DEF linkVars, LinkProofs!linkVars
<1>3. Spec => LinkProofs!Spec
  BY SameInit, <1>2, PTL DEF Spec, LinkProofs!Spec
<1>4. LinkProofs!Spec => LinkProofs!HealthyKept
  BY <1>1, LinkProofs!Kept
<1>5. [kind # "motion" /\ active /\ ~active' /\ ~shutdown'
           => state[socket] # "open"]_LinkProofs!linkVars
      => [kind # "motion" /\ active /\ ~active' /\ ~shutdown'
            => state[socket] # "open"]_Link!linkVars
  BY DEF LinkProofs!linkVars, Link!linkVars
<1>6. LinkProofs!HealthyKept => Link!HealthyKept
  BY <1>5, PTL DEF LinkProofs!HealthyKept, Link!HealthyKept
<1>7. QED
  BY <1>3, <1>4, <1>6, PTL
===============================================================================
