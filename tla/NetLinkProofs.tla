---------------------------- MODULE NetLinkProofs ----------------------------
(***************************************************************************)
(* What the flags of a NetMonitor are worth: no connection is left open,   *)
(* and a link with one worker is given up only when it is broken, for any  *)
(* number of Socket objects and any kinds of links.                        *)
(***************************************************************************)
EXTENDS NetLink, TLAPS

USE KindsAssumption, SocketsAssumption
USE DEF linkVars

-----------------------------------------------------------------------------
(* The inductive invariant *)

\* Nothing is open when ClientConnectionThread is about to connect.
AllClosed ==
    conn \in {"test", "connect", "done"} => \A s \in Sockets : state[s] = "closed"

\* The link is active only while ClientConnectionThread waits for its end.
ActiveUntil == active => conn = "until"

\* The other worker of a link with one worker was never started.
NotStarted == \A w \in Workers : w \notin Started(kind) => at[w] = "done"

Working == {"get", "read", "bad", "ready", "write", "sleep", "fail"}

\* The one worker works on the connection of the monitor as long as it works:
\* nobody but itself ends the link meanwhile.
OneWorker ==
    kind # "motion" =>
        \A w \in Workers :
            /\ at[w] \in Working => active
            /\ at[w] \in {"read", "ready", "write", "sleep"} => used[w] = socket
            /\ at[w] = "fail" => state[socket] # "open"

IInv == TypeOK /\ NoConnectionLeak /\ AllClosed /\ ActiveUntil /\ NotStarted /\ OneWorker

-----------------------------------------------------------------------------
(* Type correctness *)

\* The initial state is well typed.
LEMMA InitTypeOK == Init => TypeOK
BY DEF Init, TypeOK, Workers, Started, Packets

\* The steps of the connection and the shutdown thread preserve the types.
LEMMA ConnType == TypeOK /\ (ConnStep \/ StopStep) => TypeOK'
<1> SUFFICES ASSUME TypeOK, ConnStep \/ StopStep PROVE TypeOK'
  OBVIOUS
<1>1. CASE ConnTest
  BY <1>1 DEF ConnTest, TypeOK
<1>2. CASE ConnectFails
  <2>1. CASE active' = active
    BY <1>2, <2>1 DEF ConnectFails, TypeOK
  <2>2. CASE active' = FALSE
    BY <1>2, <2>2 DEF ConnectFails, TypeOK
  <2>3. active' = active \/ active' = FALSE
    BY <1>2 DEF ConnectFails
  <2>4. QED
    BY <2>1, <2>2, <2>3
<1>3. CASE SetSocket
  BY <1>3 DEF SetSocket, TypeOK
<1>4. CASE Activate
  BY <1>4 DEF Activate, TypeOK
<1>5. CASE WaitUntilNotActive
  BY <1>5 DEF WaitUntilNotActive, TypeOK
<1>6. CASE CloseOld
  BY <1>6 DEF CloseOld, Closed, TypeOK, Packets
<1>7. ASSUME NEW s \in Sockets, Connect(s) PROVE TypeOK'
  BY <1>7 DEF Connect, TypeOK
<1>8. CASE StopWait
  BY <1>8 DEF StopWait, TypeOK, Workers
<1>9. CASE StopClose
  BY <1>9 DEF StopClose, Closed, TypeOK, Packets
<1>10. QED
  BY <1>1, <1>2, <1>3, <1>4, <1>5, <1>6, <1>7, <1>8, <1>9 DEF ConnStep, StopStep

\* What a worker does whatever its kind preserves the types.
LEMMA WorkerType == ASSUME NEW w \in Workers PROVE TypeOK /\ WorkerStep(w) => TypeOK'
<1> SUFFICES ASSUME TypeOK, WorkerStep(w) PROVE TypeOK'
  OBVIOUS
<1>1. CASE WorkerTest(w)
  BY <1>1 DEF WorkerTest, Goto, TypeOK
<1>2. CASE WaitUntilActive(w)
  BY <1>2 DEF WaitUntilActive, Goto, TypeOK
<1>3. CASE GetStream(w)
  BY <1>3 DEF GetStream, Goto, TypeOK
<1>4. CASE WorkerFail(w)
  BY <1>4 DEF WorkerFail, Leave, Goto, TypeOK
<1>5. QED
  BY <1>1, <1>2, <1>3, <1>4 DEF WorkerStep

\* The steps of a reader preserve the types.
LEMMA ReaderType == TypeOK /\ ReaderStep => TypeOK'
<1> SUFFICES ASSUME TypeOK, ReaderStep PROVE TypeOK'
  OBVIOUS
<1> "reader" \in Workers
  BY DEF Workers
<1>1. CASE WorkerStep("reader")
  BY <1>1, WorkerType
<1>2. CASE ReadPacket
  BY <1>2 DEF ReadPacket, TypeOK, Packets
<1>3. CASE ReadBad
  BY <1>3 DEF ReadBad, Leave, Goto, TypeOK, Packets
<1>4. CASE ReaderShutdown
  BY <1>4 DEF ReaderShutdown, Leave, Goto, TypeOK
<1>5. CASE ReadEnd
  BY <1>5 DEF ReadEnd, Leave, Goto, TypeOK
<1>6. CASE ReadFails
  BY <1>6 DEF ReadFails, Goto, TypeOK
<1>7. QED
  BY <1>1, <1>2, <1>3, <1>4, <1>5, <1>6 DEF ReaderStep

\* The steps of a writer preserve the types.
LEMMA WriterType == TypeOK /\ (WriterWaits \/ WriterStep) => TypeOK'
<1> SUFFICES ASSUME TypeOK, WriterWaits \/ WriterStep PROVE TypeOK'
  OBVIOUS
<1> "writer" \in Workers
  BY DEF Workers
<1>1. CASE WorkerStep("writer")
  BY <1>1, WorkerType
<1>2. CASE WriterReady
  BY <1>2 DEF WriterReady, Goto, TypeOK
<1>3. CASE Write
  BY <1>3 DEF Write, Goto, TypeOK
<1>4. CASE WriteFails
  BY <1>4 DEF WriteFails, Goto, TypeOK
<1>5. CASE WriterSleep
  BY <1>5 DEF WriterSleep, Goto, TypeOK
<1>6. QED
  BY <1>1, <1>2, <1>3, <1>4, <1>5 DEF WriterWaits, WriterStep

\* What the server does preserves the types.
LEMMA PeerType == TypeOK /\ PeerStep => TypeOK'
<1> SUFFICES ASSUME TypeOK, PeerStep PROVE TypeOK'
  OBVIOUS
<1>1. ASSUME NEW s \in Sockets, NEW p \in Packets, PacketArrives(s, p) PROVE TypeOK'
  BY <1>1 DEF PacketArrives, TypeOK
<1>2. ASSUME NEW s \in Sockets, PeerCloses(s) PROVE TypeOK'
  BY <1>2 DEF PeerCloses, TypeOK
<1>3. ASSUME NEW s \in Sockets, PeerResets(s) PROVE TypeOK'
  BY <1>3 DEF PeerResets, TypeOK
<1>4. QED
  BY <1>1, <1>2, <1>3 DEF PeerStep

\* Every step preserves the types.
LEMMA NextTypeOK == TypeOK /\ [Next]_linkVars => TypeOK'
<1>1. TypeOK /\ UNCHANGED linkVars => TypeOK'
  BY DEF TypeOK
<1>2. QED
  BY <1>1, ConnType, ReaderType, WriterType, PeerType DEF Next

-----------------------------------------------------------------------------
(* The invariant is inductive *)

\* A link that is not of motion starts one worker.
LEMMA OneStarted ==
    ASSUME NEW k \in Kinds, k # "motion", NEW v \in Workers, NEW w \in Workers,
           v \in Started(k), w \in Started(k)
    PROVE  v = w
BY Zenon DEF AllKinds, Started

Shape == NoConnectionLeak /\ AllClosed /\ ActiveUntil /\ NotStarted /\ OneWorker

\* The invariant holds before the threads run.
LEMMA InitIInv == Init => IInv
<1> SUFFICES ASSUME Init PROVE IInv
  OBVIOUS
<1>1. TypeOK
  BY InitTypeOK
<1>2. NoConnectionLeak /\ AllClosed /\ ActiveUntil
  BY DEF Init, NoConnectionLeak, AllClosed, ActiveUntil
<1>3. NotStarted /\ OneWorker
  BY DEF Init, NotStarted, OneWorker, Working
<1>4. QED
  BY <1>1, <1>2, <1>3 DEF IInv

\* No step of the connection thread disturbs a link that works, and it opens
\* a connection only when all are closed.
LEMMA ConnInv == IInv /\ ConnStep => Shape'
<1> SUFFICES ASSUME IInv, ConnStep PROVE Shape'
  OBVIOUS
<1> USE DEF IInv, TypeOK, Shape, NoConnectionLeak, AllClosed, ActiveUntil,
            NotStarted, OneWorker, Working
<1>1. CASE ConnTest
  BY <1>1 DEF ConnTest
<1>2. CASE ConnectFails
  <2>1. active = FALSE
    BY <1>2 DEF ConnectFails
  <2>2. active' = FALSE
    BY <1>2, <2>1 DEF ConnectFails
  <2>3. QED
    BY <1>2, <2>2 DEF ConnectFails
<1>3. CASE SetSocket
  BY <1>3 DEF SetSocket
<1>4. CASE Activate
  BY <1>4 DEF Activate
<1>5. CASE WaitUntilNotActive
  BY <1>5 DEF WaitUntilNotActive
<1>6. CASE CloseOld
  BY <1>6 DEF CloseOld, Closed
<1>7. ASSUME NEW s \in Sockets, Connect(s) PROVE Shape'
  BY <1>7 DEF Connect
<1>8. QED
  BY <1>1, <1>2, <1>3, <1>4, <1>5, <1>6, <1>7 DEF ConnStep

\* The shutdown thread only closes.
LEMMA StopInv == IInv /\ StopStep => Shape'
<1> SUFFICES ASSUME IInv, StopStep PROVE Shape'
  OBVIOUS
<1> USE DEF IInv, TypeOK, Shape, NoConnectionLeak, AllClosed, ActiveUntil,
            NotStarted, OneWorker, Working
<1>1. CASE StopWait
  BY <1>1 DEF StopWait, Workers
<1>2. CASE StopClose
  BY <1>2 DEF StopClose, Closed
<1>3. QED
  BY <1>1, <1>2 DEF StopStep

\* A worker gives up the link only when it is the one that works on it.
LEMMA WorkerInv == ASSUME NEW w \in Workers PROVE IInv /\ WorkerStep(w) => Shape'
<1> SUFFICES ASSUME IInv, WorkerStep(w) PROVE Shape'
  OBVIOUS
<1> USE DEF IInv, TypeOK, Shape, NoConnectionLeak, AllClosed, ActiveUntil,
            NotStarted, OneWorker, Working
<1>1. CASE WorkerTest(w)
  BY <1>1 DEF WorkerTest, Goto
<1>2. CASE WaitUntilActive(w)
  BY <1>2 DEF WaitUntilActive, Goto
<1>3. CASE GetStream(w)
  BY <1>3 DEF GetStream, Goto
<1>4. CASE WorkerFail(w)
  <2>1. kind # "motion" => \A v \in Workers : v # w => at[v] = "done"
    BY <1>4, OneStarted DEF WorkerFail
  <2>2. QED
    BY <1>4, <2>1 DEF WorkerFail, Leave, Goto
<1>5. QED
  BY <1>1, <1>2, <1>3, <1>4 DEF WorkerStep

\* The same of a reader.
LEMMA ReaderInv == IInv /\ ReaderStep => Shape'
<1> SUFFICES ASSUME IInv, ReaderStep PROVE Shape'
  OBVIOUS
<1> "reader" \in Workers
  BY DEF Workers
<1> USE DEF IInv, TypeOK, Shape, NoConnectionLeak, AllClosed, ActiveUntil,
            NotStarted, OneWorker, Working
<1>1. CASE WorkerStep("reader")
  BY <1>1, WorkerInv
<1>2. CASE ReadPacket
  BY <1>2 DEF ReadPacket
<1>3. CASE ReadBad
  BY <1>3 DEF ReadBad, Leave, Goto
<1>4. CASE ReaderShutdown
  <2>1. kind # "motion" => \A v \in Workers : v # "reader" => at[v] = "done"
    BY <1>4, OneStarted DEF ReaderShutdown
  <2>2. QED
    BY <1>4, <2>1 DEF ReaderShutdown, Leave, Goto
<1>5. CASE ReadEnd
  BY <1>5 DEF ReadEnd, Leave, Goto
<1>6. CASE ReadFails
  BY <1>6 DEF ReadFails, Goto, ReaderEnd
<1>7. QED
  BY <1>1, <1>2, <1>3, <1>4, <1>5, <1>6 DEF ReaderStep

\* The same of a writer.
LEMMA WriterInv == IInv /\ (WriterWaits \/ WriterStep) => Shape'
<1> SUFFICES ASSUME IInv, WriterWaits \/ WriterStep PROVE Shape'
  OBVIOUS
<1> "writer" \in Workers
  BY DEF Workers
<1> USE DEF IInv, TypeOK, Shape, NoConnectionLeak, AllClosed, ActiveUntil,
            NotStarted, OneWorker, Working
<1>1. CASE WorkerStep("writer")
  BY <1>1, WorkerInv
<1>2. CASE WriterReady
  BY <1>2 DEF WriterReady, Goto
<1>3. CASE Write
  BY <1>3 DEF Write, Goto
<1>4. CASE WriteFails
  BY <1>4 DEF WriteFails, Goto
<1>5. CASE WriterSleep
  BY <1>5 DEF WriterSleep, Goto
<1>6. QED
  BY <1>1, <1>2, <1>3, <1>4, <1>5 DEF WriterWaits, WriterStep

\* The server at the other end opens nothing and repairs nothing.
LEMMA PeerInv == IInv /\ PeerStep => Shape'
<1> SUFFICES ASSUME IInv, PeerStep PROVE Shape'
  OBVIOUS
<1> USE DEF IInv, TypeOK, Shape, NoConnectionLeak, AllClosed, ActiveUntil,
            NotStarted, OneWorker, Working
<1>1. ASSUME NEW s \in Sockets, NEW p \in Packets, PacketArrives(s, p) PROVE Shape'
  BY <1>1 DEF PacketArrives
<1>2. ASSUME NEW s \in Sockets, PeerCloses(s) PROVE Shape'
  BY <1>2 DEF PeerCloses
<1>3. ASSUME NEW s \in Sockets, PeerResets(s) PROVE Shape'
  BY <1>3 DEF PeerResets
<1>4. QED
  BY <1>1, <1>2, <1>3 DEF PeerStep

\* Every step preserves the invariant.
LEMMA NextIInv == IInv /\ [Next]_linkVars => IInv'
<1> SUFFICES ASSUME IInv, [Next]_linkVars PROVE IInv'
  OBVIOUS
<1>1. TypeOK'
  BY NextTypeOK DEF IInv
<1>2. ASSUME UNCHANGED linkVars PROVE Shape'
  BY <1>2 DEF IInv, Shape, NoConnectionLeak, AllClosed, ActiveUntil, NotStarted,
              OneWorker, Working
<1>3. Shape'
  BY <1>2, ConnInv, StopInv, ReaderInv, WriterInv, PeerInv DEF Next
<1>4. QED
  BY <1>1, <1>3 DEF IInv, Shape

-----------------------------------------------------------------------------
(* The theorems *)

\* The invariant holds in every state.
LEMMA Always == Spec => []IInv
<1>1. Init => IInv
  BY InitIInv
<1>2. IInv /\ [Next]_linkVars => IInv'
  BY NextIInv
<1>3. QED
  BY <1>1, <1>2, PTL DEF Spec

\* The flags, references and statements of a link are always of their types:
\* no thread uses a socket or a stream it did not get.
THEOREM Typing == Spec => []TypeOK
<1>1. IInv => TypeOK
  BY DEF IInv
<1>2. QED
  BY <1>1, Always, PTL

\* However often a link is reconnected, at most one connection is not closed,
\* and it is the one ClientConnectionThread knows of.
THEOREM NoLeak == Spec => []NoConnectionLeak
<1>1. IInv => NoConnectionLeak
  BY DEF IInv
<1>2. QED
  BY <1>1, Always, PTL

\* A picture or mode link is given up only when its own connection is broken.
THEOREM Kept == Spec => HealthyKept
<1>1. IInv /\ [Next]_linkVars =>
        [kind # "motion" /\ active /\ ~active' /\ ~shutdown'
            => state[socket] # "open"]_linkVars
  <2> SUFFICES ASSUME IInv, [Next]_linkVars, kind # "motion", active, ~active',
                      ~shutdown'
               PROVE  state[socket] # "open"
    OBVIOUS
  <2> PICK w \in Workers : at[w] = "fail"
    BY DEF IInv, ActiveUntil, Next, ConnStep, ConnTest, ConnectFails, SetSocket,
           Activate, WaitUntilNotActive, CloseOld, Connect, StopStep, StopWait,
           StopClose, ReaderStep, ReadPacket, ReadBad, ReaderShutdown, ReadEnd,
           ReadFails, WriterWaits, WriterReady, WriterStep, Write, WriteFails,
           WriterSleep, WorkerStep, WorkerTest, WaitUntilActive, GetStream,
           WorkerFail, PeerStep, PacketArrives, PeerCloses, PeerResets, Workers
  <2> QED
    BY DEF IInv, OneWorker
<1>2. QED
  BY <1>1, Always, PTL DEF Spec, HealthyKept
=============================================================================
