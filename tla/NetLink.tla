------------------------------- MODULE NetLink -------------------------------
(***************************************************************************)
(* One network link of the Java client: a NetMonitor and the threads that  *)
(* share it.  ClientConnectionThread (conn) connects and reconnects,       *)
(* ClientShutdownThread (stop) closes the socket in the end, and one or    *)
(* two workers use the socket: a reader (PictureReciever or                *)
(* MotionDataReceiver) and a writer (ModeSender or MotionRequestSender).   *)
(* Methods of NetMonitor are synchronized and none does anything after a   *)
(* wake-up but return, so each is one step and wait() is a guard.          *)
(***************************************************************************)
CONSTANTS
    Kinds,     \* the kinds of link, a subset of AllKinds
    Sockets,   \* Socket objects
    None       \* a null reference

AllKinds == {"picture", "mode", "motion"}

ASSUME KindsAssumption == Kinds \subseteq AllKinds
ASSUME SocketsAssumption == None \notin Sockets

Workers == {"reader", "writer"}

(* The workers that the starter of each kind of link starts. *)
Started(k) == CASE k = "picture" -> {"reader"}
                [] k = "mode"    -> {"writer"}
                [] k = "motion"  -> Workers

VARIABLES
    kind,       \* which starter built the link
    active,     \* NetMonitor.isActive
    shutdown,   \* NetMonitor.shutdown
    socket,     \* NetMonitor.socket
    conn,       \* next statement of ClientConnectionThread
    fresh,      \* its new Socket, not yet in the monitor
    stop,       \* next statement of ClientShutdownThread
    at,         \* next statement of each worker
    used,       \* the Socket each worker and stop got from the monitor
    state,      \* of each Socket: open, fin (closed by the peer), reset, closed
    inbox       \* what has arrived and is not read: a good packet, a bad one

linkVars == <<kind, active, shutdown, socket, conn, fresh, stop, at, used,
              state, inbox>>

(* Packets the reader cannot digest: a picture larger than its buffer, or  *)
(* motion data that parseInt refuses.                                      *)
Packets == {"good", "bad"}

TypeOK ==
    /\ kind \in Kinds
    /\ active \in BOOLEAN /\ shutdown \in BOOLEAN
    /\ socket \in Sockets \cup {None}
    /\ fresh \in Sockets \cup {None}
    /\ conn \in {"test", "connect", "set", "activate", "until", "close", "done"}
    /\ stop \in {"wait", "close", "done"}
    /\ at \in [Workers -> {"test", "wait", "get", "read", "bad", "ready",
                           "write", "sleep", "fail", "done"}]
    /\ used \in [Workers \cup {"stop"} -> Sockets \cup {None}]
    /\ state \in [Sockets -> {"open", "fin", "reset", "closed"}]
    /\ inbox \in [Sockets -> Packets \cup {"none"}]
    /\ (conn = "set") <=> (fresh # None)
    /\ conn \in {"activate", "until"} => socket # None
    /\ active => socket # None
    /\ \A w \in Workers :
          /\ at[w] = "get" => socket # None
          /\ at[w] \in {"read", "ready", "write", "sleep"} => used[w] # None

Init ==
    /\ kind \in Kinds
    /\ active = FALSE /\ shutdown = FALSE
    /\ socket = None /\ fresh = None
    /\ conn = "test" /\ stop = "wait"
    /\ at = [w \in Workers |-> IF w \in Started(kind) THEN "test" ELSE "done"]
    /\ used = [t \in Workers \cup {"stop"} |-> None]
    /\ state = [s \in Sockets |-> "closed"]
    /\ inbox = [s \in Sockets |-> "none"]

-----------------------------------------------------------------------------
(* ClientConnectionThread.run *)

ConnTest ==
    /\ conn = "test"
    /\ conn' = IF shutdown THEN "done" ELSE "connect"
    /\ UNCHANGED <<kind, active, shutdown, socket, fresh, stop, at, used, state,
                   inbox>>

(* A Socket object nobody refers to any more stands for a new one. *)
Unused(s) ==
    /\ state[s] = "closed"
    /\ s \notin {socket, fresh}
    /\ \A t \in DOMAIN used : used[t] # s

(* Broken variant: the link is announced before its socket is set. *)
ConnectAnnounced(s) ==
    /\ conn = "connect" /\ Unused(s)
    /\ fresh' = s
    /\ state' = [state EXCEPT ![s] = "open"]
    /\ active' = TRUE
    /\ conn' = "set"
    /\ UNCHANGED <<kind, shutdown, socket, stop, at, used, inbox>>

Connect(s) ==
    /\ conn = "connect" /\ Unused(s)
    /\ fresh' = s
    /\ state' = [state EXCEPT ![s] = "open"]
    /\ conn' = "set"
    /\ UNCHANGED <<kind, active, shutdown, socket, stop, at, used, inbox>>

(* Broken variant: a camera that does not answer ends the thread. *)
ConnectFailsForGood ==
    /\ conn = "connect"
    /\ active' = FALSE
    /\ conn' = "done"
    /\ UNCHANGED <<kind, shutdown, socket, fresh, stop, at, used, state, inbox>>

(* IOException: setActive(false).  An unknown host leaves the flag alone. *)
ConnectFails ==
    /\ conn = "connect"
    /\ active' \in {active, FALSE}
    /\ conn' = "close"
    /\ UNCHANGED <<kind, shutdown, socket, fresh, stop, at, used, state, inbox>>

SetSocket ==
    /\ conn = "set"
    /\ socket' = fresh /\ fresh' = None
    /\ conn' = "activate"
    /\ UNCHANGED <<kind, active, shutdown, stop, at, used, state, inbox>>

Activate ==
    /\ conn = "activate"
    /\ active' = TRUE
    /\ conn' = "until"
    /\ UNCHANGED <<kind, shutdown, socket, fresh, stop, at, used, state, inbox>>

WaitUntilNotActive ==
    /\ conn = "until" /\ ~active
    /\ conn' = "close"
    /\ UNCHANGED <<kind, active, shutdown, socket, fresh, stop, at, used, state,
                   inbox>>

(* Socket.close; what was not read is gone.  A null reference is left alone. *)
Closed(id) ==
    /\ state' = [s \in Sockets |-> IF s = id THEN "closed" ELSE state[s]]
    /\ inbox' = [s \in Sockets |-> IF s = id THEN "none" ELSE inbox[s]]

(* Broken variant: the old socket is left to the garbage collector. *)
CloseOldNot ==
    /\ conn = "close"
    /\ conn' = "test"
    /\ UNCHANGED <<kind, active, shutdown, socket, fresh, stop, at, used, state,
                   inbox>>

(* The socket of the monitor is closed; the pause before the next attempt  *)
(* is part of this step.                                                   *)
CloseOld ==
    /\ conn = "close"
    /\ Closed(socket)
    /\ conn' = "test"
    /\ UNCHANGED <<kind, active, shutdown, socket, fresh, stop, at, used>>

ConnStep == \/ ConnTest \/ ConnectFails \/ SetSocket \/ Activate
            \/ WaitUntilNotActive \/ CloseOld
            \/ \E s \in Sockets : Connect(s)

-----------------------------------------------------------------------------
(* ClientShutdownThread.run *)

StopWait ==
    /\ stop = "wait" /\ shutdown
    /\ used' = [used EXCEPT !["stop"] = socket]
    /\ stop' = "close"
    /\ UNCHANGED <<kind, active, shutdown, socket, conn, fresh, at, state, inbox>>

StopClose ==
    /\ stop = "close"
    /\ Closed(used["stop"])
    /\ stop' = "done"
    /\ UNCHANGED <<kind, active, shutdown, socket, conn, fresh, at, used>>

-----------------------------------------------------------------------------
(* What every worker does: test, wait, get a stream, and on an IOException *)
(* setActive(false) before the next test.                                  *)

Goto(w, label) == at' = [at EXCEPT ![w] = label]

(* Out of the block that holds the stream. *)
Leave(w, label) == Goto(w, label) /\ used' = [used EXCEPT ![w] = None]

WorkerTest(w) ==
    /\ at[w] = "test"
    /\ Goto(w, IF shutdown THEN "done" ELSE "wait")
    /\ UNCHANGED <<kind, active, shutdown, socket, conn, fresh, stop, used, state,
                   inbox>>

WaitUntilActive(w) ==
    /\ at[w] = "wait" /\ active
    /\ Goto(w, "get")
    /\ UNCHANGED <<kind, active, shutdown, socket, conn, fresh, stop, used, state,
                   inbox>>

(* getInputStream and getOutputStream throw for a socket closed here. *)
GetStream(w) ==
    /\ at[w] = "get"
    /\ used' = [used EXCEPT ![w] = socket]
    /\ Goto(w, IF state[socket] = "closed" THEN "fail"
               ELSE IF w = "reader" THEN "read" ELSE "ready")
    /\ UNCHANGED <<kind, active, shutdown, socket, conn, fresh, stop, state, inbox>>

(* Broken variant: the exception is only reported. *)
WorkerFailSilent(w) ==
    /\ at[w] = "fail"
    /\ Leave(w, "test")
    /\ UNCHANGED <<kind, active, shutdown, socket, conn, fresh, stop, state, inbox>>

WorkerFail(w) ==
    /\ at[w] = "fail"
    /\ active' = FALSE
    /\ Leave(w, "test")
    /\ UNCHANGED <<kind, shutdown, socket, conn, fresh, stop, state, inbox>>

-----------------------------------------------------------------------------
(* PictureReciever.run and MotionDataReceiver.run.  What arrived before    *)
(* the peer closed or reset the connection is read first.                  *)

Incoming == inbox[used["reader"]]
ReaderEnd == state[used["reader"]]

(* Broken variant: a packet that came in several pieces is given up. *)
ReadPacketWhole ==
    /\ at["reader"] = "read" /\ ReaderEnd # "closed" /\ Incoming = "good"
    /\ inbox' = [inbox EXCEPT ![used["reader"]] = "none"]
    /\ \E l \in {"read", "fail"} : Goto("reader", l)
    /\ UNCHANGED <<kind, active, shutdown, socket, conn, fresh, stop, used, state>>

ReadPacket ==
    /\ at["reader"] = "read" /\ ReaderEnd # "closed" /\ Incoming = "good"
    /\ inbox' = [inbox EXCEPT ![used["reader"]] = "none"]
    /\ UNCHANGED <<kind, active, shutdown, socket, conn, fresh, stop, at, used,
                   state>>

(* A RuntimeException: PictureReciever catches it and shuts the link down, *)
(* MotionDataReceiver does not catch it and ends.                          *)
ReadBad ==
    /\ at["reader"] = "read" /\ ReaderEnd # "closed" /\ Incoming = "bad"
    /\ inbox' = [inbox EXCEPT ![used["reader"]] = "none"]
    /\ Leave("reader", IF kind = "picture" THEN "bad" ELSE "done")
    /\ UNCHANGED <<kind, active, shutdown, socket, conn, fresh, stop, state>>

(* Broken variant: shutdown without isActive = false. *)
ReaderShutdownOnly ==
    /\ at["reader"] = "bad"
    /\ shutdown' = TRUE
    /\ Leave("reader", "done")
    /\ UNCHANGED <<kind, active, socket, conn, fresh, stop, state, inbox>>

(* NetMonitor.shutdown, then break. *)
ReaderShutdown ==
    /\ at["reader"] = "bad"
    /\ shutdown' = TRUE /\ active' = FALSE
    /\ Leave("reader", "done")
    /\ UNCHANGED <<kind, socket, conn, fresh, stop, state, inbox>>

(* read returns -1, in a header or in the data: break out of the inner     *)
(* loop and nothing else.                                                  *)
ReadEnd ==
    /\ at["reader"] = "read" /\ ReaderEnd = "fin" /\ Incoming = "none"
    /\ Leave("reader", "test")
    /\ UNCHANGED <<kind, active, shutdown, socket, conn, fresh, stop, state, inbox>>

ReadFails ==
    /\ at["reader"] = "read"
    /\ \/ ReaderEnd = "closed"
       \/ ReaderEnd = "reset" /\ Incoming = "none"
    /\ Goto("reader", "fail")
    /\ UNCHANGED <<kind, active, shutdown, socket, conn, fresh, stop, used, state,
                   inbox>>

-----------------------------------------------------------------------------
(* ModeSender.run and MotionRequestSender.run.  ModeSender waits for a new *)
(* mode in getNewMode, MotionRequestSender writes at once.                 *)

WriterReady ==
    /\ at["writer"] = "ready"
    /\ Goto("writer", "write")
    /\ UNCHANGED <<kind, active, shutdown, socket, conn, fresh, stop, used, state,
                   inbox>>

(* A write to a connection the peer has closed succeeds here and makes the *)
(* peer reset it; the pause after the write is longer than that takes.     *)
Write ==
    /\ at["writer"] = "write" /\ state[used["writer"]] \in {"open", "fin"}
    /\ state' = [state EXCEPT ![used["writer"]] =
                    IF @ = "fin" THEN "reset" ELSE "open"]
    /\ Goto("writer", "sleep")
    /\ UNCHANGED <<kind, active, shutdown, socket, conn, fresh, stop, used, inbox>>

WriteFails ==
    /\ at["writer"] = "write" /\ state[used["writer"]] \in {"reset", "closed"}
    /\ Goto("writer", "fail")
    /\ UNCHANGED <<kind, active, shutdown, socket, conn, fresh, stop, used, state,
                   inbox>>

WriterSleep ==
    /\ at["writer"] = "sleep"
    /\ Goto("writer", "ready")
    /\ UNCHANGED <<kind, active, shutdown, socket, conn, fresh, stop, used, state,
                   inbox>>

-----------------------------------------------------------------------------
(* The server at the other end: it sends to a reader, closes or dies. *)

PacketArrives(s, p) ==
    /\ "reader" \in Started(kind)
    /\ state[s] = "open" /\ inbox[s] = "none"
    /\ inbox' = [inbox EXCEPT ![s] = p]
    /\ UNCHANGED <<kind, active, shutdown, socket, conn, fresh, stop, at, used,
                   state>>

PeerCloses(s) ==
    /\ state[s] = "open"
    /\ state' = [state EXCEPT ![s] = "fin"]
    /\ UNCHANGED <<kind, active, shutdown, socket, conn, fresh, stop, at, used,
                   inbox>>

PeerResets(s) ==
    /\ state[s] \in {"open", "fin"}
    /\ state' = [state EXCEPT ![s] = "reset"]
    /\ UNCHANGED <<kind, active, shutdown, socket, conn, fresh, stop, at, used,
                   inbox>>

-----------------------------------------------------------------------------
StopStep == StopWait \/ StopClose
WorkerStep(w) == WorkerTest(w) \/ WaitUntilActive(w) \/ GetStream(w) \/ WorkerFail(w)
ReaderStep == \/ WorkerStep("reader") \/ ReadPacket \/ ReadBad \/ ReaderShutdown
              \/ ReadEnd \/ ReadFails
WriterWaits == WriterReady
WriterStep == WorkerStep("writer") \/ Write \/ WriteFails \/ WriterSleep
PeerStep == \E s \in Sockets : \/ \E p \in Packets : PacketArrives(s, p)
                               \/ PeerCloses(s) \/ PeerResets(s)

Next == ConnStep \/ StopStep \/ ReaderStep \/ WriterWaits \/ WriterStep \/ PeerStep

Spec == Init /\ [][Next]_linkVars

(* Every thread that can go on does; MotionRequestSender always can.  A    *)
(* camera that is asked again and again accepts at some time.              *)
Fairness ==
    /\ WF_linkVars(ConnStep) /\ WF_linkVars(StopStep)
    /\ WF_linkVars(ReaderStep) /\ WF_linkVars(WriterStep)
    /\ WF_linkVars(kind = "motion" /\ WriterWaits)
    /\ SF_linkVars(\E s \in Sockets : Connect(s))

LiveSpec == Spec /\ Fairness

-----------------------------------------------------------------------------
(* ClientConnectionThread closes a connection before it opens the next:    *)
(* the only connection not closed is its new one or the monitor's.         *)
NoConnectionLeak ==
    \A s \in Sockets :
        state[s] # "closed" => s = (IF conn = "set" THEN fresh ELSE socket)

(* A link with one worker is given up only when its own connection is      *)
(* broken: no setActive(false) that is late hits the next connection.  A   *)
(* motion link has two workers and does not have this property.            *)
HealthyKept ==
    [][kind # "motion" /\ active /\ ~active' /\ ~shutdown'
          => state[socket] # "open"]_linkVars

(* After NetMonitor.shutdown every thread of the link ends and the socket  *)
(* is closed, in whichever order they find out.                            *)
Ended == /\ conn = "done" /\ stop = "done"
         /\ \A w \in Workers : at[w] = "done"
         /\ \A s \in Sockets : state[s] = "closed"
ShutdownEnds == shutdown ~> Ended

(* A link that is not active is connected again, or was shut down. *)
Reconnects == (~active) ~> (active \/ shutdown)

(* A connection that broke so that a worker finds out is closed: a reset   *)
(* by the reader, and by MotionRequestSender, which goes on writing, an    *)
(* end of file as well.                                                    *)
Noticeable == IF kind = "motion" THEN {"fin", "reset"}
              ELSE IF kind = "picture" THEN {"reset"} ELSE {}
DropNoticed ==
    \A s \in Sockets : (state[s] \in Noticeable) ~> (state[s] = "closed")

(* "Connect and reconnect if connection is dropped" for a picture link:    *)
(* one the server closed is not used for ever.                             *)
EndReconnects ==
    \A s \in Sockets :
        (kind = "picture" /\ state[s] = "fin") ~> (state[s] # "fin")
=============================================================================
