---------------------------- MODULE MotionServer ----------------------------
(***************************************************************************)
(* The motion proxy, C/source/production/motion_server.c: it takes motion  *)
(* notifications from the camera on one port and tells the last one to     *)
(* whoever asks on another.                                                *)
(*                                                                         *)
(* Threads: main, which runs serve_clients and serve_client and then joins *)
(* the others; ui_task; bg_task; motion_task.  running, t_local and        *)
(* t_remote are shared and read and written without a lock; global_mutex   *)
(* is taken around the broadcast of do_quit and the wait of bg_task only,  *)
(* never over more than one step.  handle_sigint runs on main, which never *)
(* holds global_mutex then, and has the effect of the user's q.            *)
(***************************************************************************)
EXTENDS Integers, Sequences

CONSTANTS
    MaxTime,      \* bound: the clock stops at this second
    MaxBacklog,   \* bound: connections waiting in a listen queue
    RequestKind,  \* what clients may do: get, bad, silent
    NoticeKind    \* what connects to the motion port: event, bad, empty, reset

ASSUME TimeAssumption == MaxTime \in Nat /\ MaxBacklog \in Nat
ASSUME KindAssumption ==
    /\ RequestKind \subseteq {"get", "bad", "silent"}
    /\ NoticeKind \subseteq {"event", "bad", "empty", "reset"}

-----------------------------------------------------------------------------
(* Values *)

Time == 0 .. MaxTime

\* A connection to the motion port, by what is read from it: "event" is GET
\* /motion with the camera's timestamp (0: no Message parameter), "bad" is any
\* other text, "empty" an end of file and "reset" an error.  The camera's clock
\* is the server's: fake_server runs beside it, or it runs on the camera.
Notice == [kind : NoticeKind, ts : Time]
NoNotice == [kind |-> "none", ts |-> 0]

\* The answer a:l:r by what is read for it: a is at - base, the clock less
\* t_local, l is t_local read again and r is t_remote.
Field == {"at", "base", "l", "r"}
Answer == [Field -> Time]
NoAnswer == [f \in Field |-> 0]

VARIABLES
    pc,        \* where each thread is
    running,   \* global_state.running
    now,       \* time(0)
    t_local,   \* global_state.t_local
    t_remote,  \* global_state.t_remote
    motionQ,   \* connections waiting on motionfd
    notice,    \* the connection motioncfd
    buf,       \* what the buffer of motion_task holds
    clientQ,   \* connections waiting on listenfd
    request,   \* the connection client->connfd
    answer,    \* the answer being built
    unread,    \* the fields of it not read yet
    told       \* the l of the last answer sent

timeVars == <<t_local, t_remote>>
motionVars == <<motionQ, notice, buf>>
clientVars == <<clientQ, request, answer, unread, told>>
data == <<running, now, timeVars, motionVars, clientVars>>
vars == <<pc, data>>

Go(t, l) == pc' = [pc EXCEPT ![t] = l]

Init ==
    /\ pc = [main |-> "poll", ui |-> "getchar", bg |-> "test", motion |-> "poll"]
    /\ running = TRUE
    /\ now = 0
    /\ t_local = 0
    /\ t_remote = 0
    /\ motionQ = <<>>
    /\ notice = NoNotice
    /\ buf = NoNotice
    /\ clientQ = <<>>
    /\ request = "none"
    /\ answer = NoAnswer
    /\ unread = {}
    /\ told = 0

-----------------------------------------------------------------------------
(* motion_task *)

\* Broken variant: only a connection ends the poll loop.
MotionPollBlind ==
    /\ pc["motion"] = "poll"
    /\ motionQ # <<>>
    /\ Go("motion", "accept")
    /\ UNCHANGED data

\* while(state->running) and the poll loop in it, which ends when a connection
\* is there or the server has stopped.
MotionPoll ==
    /\ pc["motion"] = "poll"
    /\ \/ ~running /\ Go("motion", "done")
       \/ running /\ motionQ # <<>> /\ Go("motion", "accept")
    /\ UNCHANGED data

\* try_accept_motion.
MotionAccept ==
    /\ pc["motion"] = "accept"
    /\ notice' = Head(motionQ)
    /\ motionQ' = Tail(motionQ)
    /\ Go("motion", "read")
    /\ UNCHANGED <<running, now, timeVars, buf, clientVars>>

\* read into buf: an error ends the thread, an end of file leaves in buf what
\* was there before.
MotionRead ==
    /\ pc["motion"] = "read"
    /\ Go("motion", IF notice.kind = "reset" THEN "done" ELSE "parse")
    /\ buf' = IF notice.kind \in {"reset", "empty"} THEN buf ELSE notice
    /\ UNCHANGED <<running, now, timeVars, motionQ, notice, clientVars>>

\* Broken variant: the timestamp is stored for requests without one only.
MotionParseDropped ==
    /\ pc["motion"] = "parse"
    /\ Go("motion", IF buf.kind = "event" THEN "local" ELSE "close")
    /\ UNCHANGED data

\* parse_motion_request: the camera's timestamp first ...
MotionParse ==
    /\ pc["motion"] = "parse"
    /\ IF buf.kind = "event"
       THEN Go("motion", "local") /\ t_remote' = buf.ts
       ELSE Go("motion", "close") /\ UNCHANGED t_remote
    /\ UNCHANGED <<running, now, t_local, motionVars, clientVars>>

\* Broken variant: the camera's clock is taken for the server's.
MotionLocalRemote ==
    /\ pc["motion"] = "local"
    /\ t_local' = t_remote
    /\ Go("motion", "close")
    /\ UNCHANGED <<running, now, t_remote, motionVars, clientVars>>

\* ... then the local time of the event.
MotionLocal ==
    /\ pc["motion"] = "local"
    /\ t_local' = now
    /\ Go("motion", "close")
    /\ UNCHANGED <<running, now, t_remote, motionVars, clientVars>>

\* Broken variant: the connection is closed after a motion event only.
MotionCloseEvents ==
    /\ pc["motion"] = "close"
    /\ notice' = IF notice.kind = "event" THEN NoNotice ELSE notice
    /\ Go("motion", "poll")
    /\ UNCHANGED <<running, now, timeVars, motionQ, buf, clientVars>>

\* The response to the camera and close(state->motioncfd).
MotionClose ==
    /\ pc["motion"] = "close"
    /\ notice' = NoNotice
    /\ Go("motion", "poll")
    /\ UNCHANGED <<running, now, timeVars, motionQ, buf, clientVars>>

-----------------------------------------------------------------------------
(* main: serve_clients, serve_client, the joins *)

\* The poll loop of serve_clients; accept when there is a connection, leave
\* when the server has stopped.
MainPoll ==
    /\ pc["main"] = "poll"
    /\ \/ /\ ~running
          /\ Go("main", "joinBg")
          /\ UNCHANGED <<clientQ, request>>
       \/ /\ running /\ clientQ # <<>>
          /\ request' = Head(clientQ)
          /\ clientQ' = Tail(clientQ)
          /\ Go("main", "read")
    /\ UNCHANGED <<running, now, timeVars, motionVars, answer, unread, told>>

\* serve_client: read blocks on a silent client; after an error, and for any
\* request but GET /, the motion data are not looked at ("bad").
MainRead ==
    /\ pc["main"] = "read"
    /\ request # "silent"
    /\ IF request = "get"
       THEN Go("main", "build") /\ unread' = Field
       ELSE Go("main", "poll") /\ UNCHANGED unread
    /\ request' = "none"
    /\ answer' = NoAnswer
    /\ UNCHANGED <<running, now, timeVars, motionVars, clientQ, told>>

\* Broken variant: the age is computed in any order with the other fields.
MayReadAny(f) == f \in unread

\* tdiff is computed first; C leaves open in which order its operands, and in
\* which order the arguments of snprintf, are evaluated.
MayRead(f) ==
    /\ f \in unread
    /\ f \in {"l", "r"} => unread \cap {"at", "base"} = {}

\* What the code reads for a field.
Value(f) == CASE f = "at" -> now
              [] f \in {"base", "l"} -> t_local
              [] f = "r" -> t_remote

\* motion_task may write between any two of these reads.
MainBuild ==
    /\ pc["main"] = "build"
    /\ \E f \in Field :
          /\ MayRead(f)
          /\ unread' = unread \ {f}
          /\ answer' = [answer EXCEPT ![f] = Value(f)]
    /\ UNCHANGED <<pc, running, now, timeVars, motionVars, clientQ, request,
                   told>>

\* client_write_string and close; the next round.
MainRespond ==
    /\ pc["main"] = "build"
    /\ unread = {}
    /\ told' = answer["l"]
    /\ answer' = NoAnswer
    /\ Go("main", "poll")
    /\ UNCHANGED <<running, now, timeVars, motionVars, clientQ, request, unread>>

MainJoinBg ==
    /\ pc["main"] = "joinBg"
    /\ pc["bg"] = "done"
    /\ Go("main", "joinMotion")
    /\ UNCHANGED data

MainJoinMotion ==
    /\ pc["main"] = "joinMotion"
    /\ pc["motion"] = "done"
    /\ pc' = [pc EXCEPT !["main"] = "exited", !["ui"] = "done"]
    /\ UNCHANGED data

-----------------------------------------------------------------------------
(* bg_task, ui_task, the signal handler *)

\* while(s->running), outside of global_mutex.
BgTest ==
    /\ pc["bg"] = "test"
    /\ Go("bg", IF running THEN "lock" ELSE "done")
    /\ UNCHANGED data

\* pthread_mutex_lock and pthread_cond_wait, whatever running is by now.
BgWait ==
    /\ pc["bg"] = "lock"
    /\ Go("bg", "wait")
    /\ UNCHANGED data

\* pthread_cond_wait may return without a broadcast.
SpuriousWakeup ==
    /\ pc["bg"] = "wait"
    /\ Go("bg", "test")
    /\ UNCHANGED data

\* pthread_cond_broadcast(&global_cond); bg_task is the only one to wait.
Wake(p) == [p EXCEPT !["bg"] = IF @ = "wait" THEN "test" ELSE @]

\* The user types q: do_quit, after which ui_task ends.
UiQuit ==
    /\ pc["ui"] = "getchar"
    /\ running' = FALSE
    /\ pc' = [Wake(pc) EXCEPT !["ui"] = "done"]
    /\ UNCHANGED <<now, timeVars, motionVars, clientVars>>

\* The user types b, signal_to_bg_task, or anything else; then the test of
\* running.
UiOther ==
    /\ pc["ui"] = "getchar"
    /\ \E p \in {pc, Wake(pc)} :
          pc' = [p EXCEPT !["ui"] = IF running THEN @ ELSE "done"]
    /\ UNCHANGED data

\* handle_sigint: do_quit on the main thread.
SigInt ==
    /\ pc["main"] # "exited"
    /\ running' = FALSE
    /\ pc' = Wake(pc)
    /\ UNCHANGED <<now, timeVars, motionVars, clientVars>>

-----------------------------------------------------------------------------
(* The camera, the clients and the clock *)

Tick ==
    /\ now < MaxTime
    /\ now' = now + 1
    /\ UNCHANGED <<pc, running, timeVars, motionVars, clientVars>>

CameraNotifies ==
    /\ Len(motionQ) < MaxBacklog
    /\ \E n \in Notice :
          /\ n.ts \in IF n.kind = "event" THEN {0, now} ELSE {0}
          /\ motionQ' = Append(motionQ, n)
    /\ UNCHANGED <<pc, running, now, timeVars, notice, buf, clientVars>>

ClientAsks ==
    /\ Len(clientQ) < MaxBacklog
    /\ \E k \in RequestKind : clientQ' = Append(clientQ, k)
    /\ UNCHANGED <<pc, running, now, timeVars, motionVars, request, answer,
                   unread, told>>

\* A silent client closes; read then returns 0, which is no GET.
ClientLeaves ==
    /\ request = "silent"
    /\ request' = "bad"
    /\ UNCHANGED <<pc, running, now, timeVars, motionVars, clientQ, answer,
                   unread, told>>

-----------------------------------------------------------------------------
(* Specification *)

Motion == MotionPoll \/ MotionAccept \/ MotionRead
          \/ MotionParse \/ MotionLocal \/ MotionClose

Main == MainPoll \/ MainRead \/ MainBuild \/ MainRespond \/ MainJoinBg
        \/ MainJoinMotion

Bg == BgTest \/ BgWait

Ui == UiQuit \/ UiOther

Environment == Tick \/ CameraNotifies \/ ClientAsks \/ ClientLeaves

Next == Motion \/ Main \/ Bg \/ SpuriousWakeup \/ Ui \/ SigInt \/ Environment

Spec == Init /\ [][Next]_vars

\* The threads run on; users, clients, the camera and the clock need not.
FairSpec ==
    /\ Spec
    /\ WF_vars(Motion)
    /\ WF_vars(Main)
    /\ WF_vars(Bg)

-----------------------------------------------------------------------------
(* Properties *)

\* Every variable has its type; motion_task accepts a connection that is there,
\* and motioncfd is open only from accept to close, or when a read error has
\* ended motion_task (motion_server.c:338-367).
TypeOK ==
    /\ pc \in [main : {"poll", "read", "build", "joinBg", "joinMotion", "exited"},
               ui : {"getchar", "done"},
               bg : {"test", "lock", "wait", "done"},
               motion : {"poll", "accept", "read", "parse", "local",
                         "close", "done"}]
    /\ running \in BOOLEAN
    /\ {now, t_local, t_remote} \subseteq Time
    /\ motionQ \in Seq(Notice) /\ Len(motionQ) <= MaxBacklog
    /\ {notice, buf} \subseteq Notice \cup {NoNotice}
    /\ pc["motion"] \in {"poll", "accept"} => notice = NoNotice
    /\ pc["motion"] = "accept" => motionQ # <<>>
    /\ clientQ \in Seq(RequestKind) /\ Len(clientQ) <= MaxBacklog
    /\ request \in RequestKind \cup {"none", "bad"}
    /\ unread \in SUBSET Field
    /\ answer \in Answer
    /\ told \in Time

Complete == pc["main"] = "build" /\ unread = {}

\* The age in an answer (tdiff, motion_server.c:163) never speaks of a later
\* event than its local time does, although t_local is read for each of them.
AgeFirst == Complete => answer["base"] <= answer["l"]

\* Later answers do not report an earlier local time (motion_server.c:164).
AnswersAdvance == [][told' >= told]_told

\* A notification at the head of the queue is published, whatever clients do:
\* a client that never sends its request keeps main busy only.  (A read error
\* on a connection of the camera ends motion_task, and with it all of this; a
\* peer that connects to the camera's port and stays silent, which would hold
\* motion_task in read, motion_server.c:344, is left out.)
NoticePublished ==
    \A ts \in Time :
        (motionQ # <<>> /\ Head(motionQ) = [kind |-> "event", ts |-> ts])
            ~> (t_remote = ts \/ ~running \/ pc["motion"] = "done")

\* After q or SIGINT motion_task ends, and main leaves serve_clients unless a
\* silent client holds it.  (Left out is a silent peer on the camera's port, which
\* would hold motion_task in read, motion_server.c:344, until it is closed.)
QuitReachesThreads ==
    ~running ~> /\ pc["motion"] = "done"
                /\ \/ pc["main"] \in {"joinBg", "joinMotion", "exited"}
                   \/ request = "silent"

\* To close down the servers cleanly, type q (README.txt:72): the process ends
\* if no client is in the way.
QuitEndsServer == ~running ~> pc["main"] = "exited"
=============================================================================
