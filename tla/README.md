# Verification of the camera surveillance system

The repository is a small real-time system: a C server on an AXIS camera sends
pictures over TCP, a second C server passes on motion notifications, and a Java
client with two camera windows shows the pictures and chooses the frame rate.
This directory holds TLA+ models of it, TLC configurations that check them on
small instances, and TLAPS proofs of what holds for every value of the
constants.

    cd tla
    tlc -config MCCameraServer.cfg MCCameraServer
    tlapm CameraServerProofs.tla

## Inventory

| Part | Code | State | Operations | Modelled |
|---|---|---|---|---|
| camera server | `server.c` | client structure (`isConnected`), `running`, descriptors; `global_mutex`, `global_cond` | `serve_clients`, `try_accept`, `take_picture_task`, `send_picture_task`, `update_mode_task`, `bg_task`, `server_quit`, joins | `CameraServer`; start-up not |
| camera monitor | `camera_monitor.c` | turn flag `pic_take_send`, mode, packet, its size, two descriptors; `camera_mutex` | one accessor per field | `CameraServer`, `Handoff` |
| camera | `camera.c`, `fakecapture.c` | cyclic frame number, `motionfd` | `capture_open_stream`, `capture_get_frame`, `capture_close_stream`, motion notification | `FakeCamera`, frame numbers in `CameraServer`; pixels not |
| motion server | `motion_server.c` | `t_local`, `t_remote`, `running`, a request buffer | `motion_task`, `serve_client`, `bg_task`, `ui_task`, SIGINT | `MotionServer`; start-up not |
| motion client | `motion_client.c` | `motionfd`, `running` | `poll_motion`, `motion_get`, SIGINT | `MotionClient` |
| client monitor | `ClientMonitor.java` | picture buffers, flags, time stamps, `synced`, `forceSync`; `mode`, `modeToSend` | `putPicture`, `getPicture`, `setForcedSync`; `setMode`, `setMotionDetected`, `getNewMode` | pictures in `ClientMonitor`, modes in `ModeControl` |
| display | `Display.java`, `DisplayMonitor.java` | time shown, last stamp, `isSynced` | copy the flag, take, delay, show | `Display` |
| mode control | `Input.java`, `ModeSender.java`, `SwingGui.getInput` | last input, last mode sent | input loop, sending loop | `ModeControl`, `ModeLink` |
| client links | `NetMonitor.java`, `ClientConnectionThread.java`, `ClientShutdownThread.java`, `*NetStarter.java` | socket, active and shutdown flags | connect, reconnect, wait, shut down | `NetLink` |
| receivers, senders | `PictureReciever.java`, `MotionDataReceiver.java`, `MotionRequestSender.java`, `*Pack.java` | a buffer | read and write packets | `NetLink` (use of the socket), `PicturePackets`, `MotionAnswers` (contents) |
| transport | `server_common.c` | - | `write_n` | `PicturePackets` |
| user interface | `SwingGui.java`, `Main.java` | last button, `newInput` | buttons, `getInput` | in `ModeControl`; layout and `main` not |
| examples | `networkingexample`, `swingexample`, `BasicServer.c`, `jpeglib.c`, ... | - | not used by the program | no |

How they interact: within the camera server, threads share the camera monitor
and meet at one condition variable; the two servers are reached over TCP
(pictures on 9999, modes on 9998, motion on 9091) and the fake camera connects
to the motion server (9090).  In the client every link has its own `NetMonitor`
shared by its threads, all links share one `ClientMonitor`, and both Display
threads share one `DisplayMonitor`.

What is hard: two picture threads that alternate and broadcast after they
unlock; clients that leave in the middle of a turn; library calls that fail
half-way through a session; values read one by one while another thread writes
them; a blocking read with a shutdown going on; a flag that stands for a number
of pictures; reconnection of a socket several threads use; packets that come in
pieces; buffers that are not cleared.  `PROJECT.json` lists the hazards at their
lines, with the property that watches each, or the reason why none does.

What makes each part correct:

- camera server: a frame goes out whole, once and in order; no wakeup is lost;
  one session at a time, with its descriptors closed; a session ends when its
  client leaves; shutdown reaches every thread.
- camera: a descriptor that was taken is given back.
- motion server: an answer describes one event and never goes back; every
  notification is published whatever clients do; shutdown ends the process.
- client monitor and display: no exception on an empty buffer; every picture is
  shown soon; synchronous mode is entered and left as the design says; one
  window does not stop the other.
- mode control: the user's choice wins over motion; the mode asked for in the
  end is the mode of the camera in the end, if the camera accepts the connection.
- links: a dropped connection is connected again, a healthy one is not given up,
  no connection is left open, shutdown ends every thread.
- transport: what is read is what was sent.

## Modules

| Module | Role |
|---|---|
| `Handoff` | abstract: a one-slot hand-off of the camera's frames |
| `CameraServer` | camera server, camera monitor, frame numbers |
| `MotionServer` | motion server |
| `FakeCamera`, `MotionClient` | the two processes that talk to it |
| `MotionPeers` | both of them with a motion server that comes and goes |
| `ClientMonitor` | pictures and synchronisation in the client |
| `Display` | both Display threads on top of `ClientMonitor` |
| `ModeControl` | which mode the client wants |
| `NetLink` | one link of the client: picture, mode or motion |
| `ModeLink` | `ModeControl`, a `NetLink` and the mode side of the camera server |
| `PicturePackets` | a picture packet from `write_n` to `PictureReciever` |
| `MotionAnswers` | answers of a motion server as `MotionDataReceiver` parses them |
| `Transport` | both |
| `*Proofs` | theorems about the module of that name |
| `MC*` | instances for TLC |

`ClientMonitor` is composed into `Display` and `PicturePackets` into `Transport` by
EXTENDS, the others by INSTANCE.

Operators named for a broken variant (a comment says so) are not used by any
specification.  Each replaces the definition after it in a test that the
properties can fail: an error a programmer might make there.

### CameraServer

`pc` holds the next statement of each thread; the actions carry the names of
the threads (`Take...`, `Send...`, `Mode...`, `Serve...`, `Main...`) and follow
the code statement by statement where another thread could come in between.
`Loop`, `Enter`, `Flip`, `Bcast` and `Close` are the skeleton both picture
tasks share: test of `isConnected`, lock and wait for the turn, the flip, the
unlock with the broadcast after it, the close.

Abstractions, and why they are sound here:

- A frame is its number in the camera's cycle, a packet and its size are the
  frame they come from.  Nothing asked of them depends on their bytes.
- `camera_mutex` is taken inside single accessors only, so each is one step;
  `global_mutex` spans several steps and is modelled (`mutex`).
- `pthread_cond_wait` may wake up spuriously.  A broadcast moves all waiters to
  the lock.
- A client that leaves makes `read` return 0 or fail.  Bytes queued before a
  reset are delivered first, as Linux does.
- `isConnected` of a client structure that was freed while threads use it reads
  as anything (`Connected`).
- Library calls fail as the constant `Faults` allows.  `errno` is taken to be set
  after a failed `pthread_create`, as the code does.
- Left out: `global_state.quit` (written, never read), polls that time out (they
  change nothing), the start-up of `main`, a failed capture (the code
  dereferences NULL; `FakeCamera` has it), a send to a client that never reads.
  `TCP_NODELAY` is taken to be settable.

### MotionServer

Threads main (`Main...`), `motion_task` (`Motion...`), `bg_task` (`Bg...`) and
`ui_task` (`Ui...`), and SIGINT, whose handler does what q does.  No lock protects
`running`, `t_local` and `t_remote`, so each read and each write of them is a
step.  `MainBuild` reads what the answer `a:l:r` needs: the clock and `t_local` for
`tdiff` in either order, and then `t_local` and `t_remote` in either order, since
C leaves the order of operands and arguments open; other steps come in between.

A connection is what is read from it: for the camera an event with its time
stamp, another text, nothing, or an error; for clients a GET, another text, or
silence until it is closed.  `buf` survives from one connection to the next, as
in the code.  The camera's time stamp is the time of the notification or 0: the
fake camera takes it from the same clock.  Failures of `poll`, `accept` and
`close` and a camera that connects and stays silent are left out.

### FakeCamera, MotionClient, MotionPeers

`FakeCamera` counts the descriptors the capture code takes from its process and
what `motionfd` still refers to; a frame is its number, which decides whether
somebody walks by (`MotionIn`).  One thread of the camera server at a time calls
this code, so its calls are one sequence of statements, `at`.  A process without
descriptors cannot open a file, the frame is NULL, and its user crashes.

`MotionClient` is the loop of `motion_client.c` with the handler of SIGINT between
any two statements, from the moment it is installed.  `motionfd` is a descriptor,
a closed one, -1, or the 0 `socket_close` leaves behind, which is the terminal.
`MotionPeers` runs both beside one motion server that is switched on and off.

### ClientMonitor and Display

All methods of `ClientMonitor` are synchronized and none does anything after it
has been woken but re-test its flag, so a method is a step and `wait()` a guard.
A picture is its time stamp; the stamps of a camera do not decrease.  `Pruned` is
what the loop with `removeFirst` leaves.  `lateRun` is a history variable a
property counts with; nothing else reads it.

A Display thread goes through `sync` (copy the flag of the monitor), `store` (put
it into the field of `DisplayMonitor` both threads write), `get`, `update`, and
`delay` or `hung`.  The argument of `wait` is a difference of clocks and stamps, so
any sign is possible once a picture was shown: negative throws and is ignored, 0
waits for a notification nobody gives, positive waits.  Left out is the average
delay shown in a label.

### ModeControl, NetLink, ModeLink

`ModeControl` has one action per synchronized method: the button, `getInput`,
`setMode`, `setMotionDetected`, `getNewMode`.  A motion server tells of an event or
does not; since `lastMotionTime` is never written, every answer with an event
counts as motion.  `setForcedSync`, which `Input` calls as well, is in
`ClientMonitor`.

`NetLink` follows the statements of each thread of one link between calls of
`NetMonitor`, whose methods are single steps.  `kind` says which starter built the
link and thereby which threads exist.  A `Socket` object nobody refers to stands
for a new one, so that any number of connections is made with a few.  What the
peer does is to close a connection, reset it, or send a packet the reader can
digest or not; what arrived before the end is read first.  `NetMonitor.shutdown` is
called only where `PictureReciever` catches an exception.

In `ModeLink` `ModeSender` is where the parts meet: it is the writer of the link,
`getNewMode` is what it waits for, and its write puts a byte on the way.  The
camera server is `camMode`, the connection its session has `accepted`, and the
bytes it has not read; that a byte of this connection reaches the monitor is what
`ModeArrives` shows of `CameraServer`.  The client's connection is made by the
kernel and waits in the queue of `modefd`; only `try_accept` takes it from there,
after a new picture connection and after the threads of the last session were
joined.  A server may end at any time, to be started again in idle mode and
without a session, or a mode connection may break.  Then the session goes on
without one (`deaf`) and no other is accepted: until `update_mode_task` reads the
end of the file, which sets the last mode once more or mode 0, or for ever, after
an error of `read`.  `missed` is a history variable: a byte that was taken from the monitor
was lost, or the camera was started again, and nothing was sent since.

### PicturePackets, MotionAnswers, Transport

In `PicturePackets` a byte is its position in the packet.  `send` and `read` move
any positive number of bytes; `write_n` begins every send at the beginning of the
buffer again, and the header loop of `PictureReciever` begins each read at the
length of the last one, as the code does.  When the length field holds the wrong
bytes any length is possible.

`MotionAnswers` keeps the buffer of `MotionDataReceiver` at the positions the code
uses (58 bytes of a header of 60, times from 64 on, 100 bytes), with a byte as
digit, zero, colon or never written.  Answers come in one segment, notifications
carry a time stamp, and times have ten digits.  A behaviour of `Transport` follows
one packet or the answers of one motion server: the two share nothing.

## Runs

| Run | Shows | Instance | Distinct states |
|---|---|---|---|
| `camera_server` | safety over any number of sessions, all faults on | 2 frames, 1 unread mode byte, 1 waiting connection per port | 1.14 M |
| `camera_server_live` | implements `Handoff`; frames flow, modes arrive | the same, poll may fail | 0.11 M |
| `disconnect_hangs` | violation, see findings | the same | - |
| `motion_server` | order of answers; notifications published; quit reaches threads | clock to 1, 1 waiting connection per port | 0.36 M |
| `quit_hangs` | violation | the same | - |
| `client_pictures` | what a lag is; synchronous mode is left when earned; the shared flag follows; one window never stops the other | tolerance 2, gap 1, stamps to 4, 2 pictures per buffer | 0.28 M |
| `net_link` | no connection left open, none given up in vain, reconnection, shutdown | all three kinds, 4 sockets | 15 k |
| `end_of_file_spins` | violation | the same | - |
| `mode_link` | manual choice wins; the camera is in step; the last mode is delivered if connections are accepted | 1 motion server, 2 sockets, 2 bytes on the way | 0.29 M |
| `auto_ignored` | violation | the same | - |
| `transport` | which packets and which answers arrive intact | header 4, length 2, buffer 8, frames to 3 bytes; ages of 1 to 5 digits | 18 k |
| `fake_camera` | descriptors accounted for; an interrupted motion client ends | frames 85 to 96, 4 descriptors | 0.20 M |

Why the bounds are enough.  Two frames tell the last one from the next one, and
two is also where the wrap-around is; sessions are not bounded at all, they come
and go in a cyclic state space.  One waiting connection per port is what
`accept` sees; a second would only wait longer.  One unread mode byte lets a byte
arrive before, during and after each step of the reader; both modes occur.  For
the motion server one second of clock is one event older than another, which is
all the answers compare.  In the client a tolerance of two is the smallest at
which one late frame must be forgiven, a gap of one unit has stamps on both sides
of it, and two pictures in a buffer are one more than the flag can tell.  A link
holds at most two sockets and its workers and the shutdown thread one each, of
which at most four differ; with one worker two are enough.  Two bytes on the way
are one that is overtaken.  A header of four bytes comes in one, two and more
reads with its length field whole or torn.  `MaxAgeDigits` bounds the age in an answer:
with five digits there are answers of two tokens, of three, and one whose age
begins at a colon, and the age can get three digits shorter; ten would be an age of
more than thirty years.  The film has two notifications, at 90
and 95, and its end; four descriptors let two of them fail before a file can no
longer be opened.  The properties proved hold for all values.

Deadlock is checked for the client monitor with its Display threads and for the
mode link.  Elsewhere the system may stop: the processes of both servers, of the
fake camera and of the motion client end, a link that was shut down is over, and
a behaviour of `Transport` follows one packet.

### Fairness

Only what a scheduler gives: a thread that can go on does (WF of its steps).
Users, clients, cameras, failing calls, the clock, motion and spurious wakeups have
no fairness: they may never happen.  Beyond that:

- `CameraServer`: asking for `global_mutex` is strongly fair (`Enter`, `BgCheck`,
  `ServeRuns`): a thread that asks again and again gets it, as with the futex queue
  of a pthread mutex; weak fairness would not do since the picture threads take it
  in turn.  `SendWrite` is fair, so a client that stays connected is taken to read.
- `NetLink`, `ModeLink`: `Connect` is strongly fair: the kernel of a camera that is
  asked for a connection again and again makes one at some time, which is what
  reconnecting relies on.  `MotionRequestSender` writes by itself, `ModeSender` only
  when there is a new mode.
- `ModeLink`: `update_mode_task` reads what arrives on the connection of its session.
  Accepting a mode connection (`CameraAccepts`) and the end of a session that lost
  its own (`CameraSessionEnds`) have no fairness: the first waits for a new picture
  connection, which need not come, the second may never happen.  So `Delivered` is
  about cameras that have a mode connection accepted again and again.
- `Display`: each Display thread is fair, `ShowAtOnce` and the end of a delay are
  its steps; a `wait(0)` never ends.
- `PicturePackets`: `send` and `read` go on; into how many pieces they cut is open.
- `MotionClient`: its statements follow each other; what it reads need not come.

## Findings

Each is a run whose property quotes the repository and fails.

1. `disconnect_hangs`: after a disconnect one picture thread ends and the other
   may wait for ever for a broadcast; `try_accept` never joins it, no other
   client is served.
2. `quit_hangs`: `bg_task` tests `running` before it locks, and can begin to wait
   after the only broadcast.
3. `end_of_file_spins`: a picture connection the server closed is read again and
   again, and never reconnected.
4. `auto_ignored`: after one press of Idle or Movie, Auto changes nothing and
   motion is no longer propagated.

The models show more, which no text of the repository contradicts and one line
of code makes plain: `serve_clients` loops on `while(1)` after `server_quit`; a
motion connection closed without data repeats the last event with a new time; an
answer can mix the times of two events; a second picture before one `getPicture`
leaves one in the buffer for good (`LagIsSurplus` says exactly when); an answer
whose age got three digits shorter ends `MotionDataReceiver` (`DiesOfOldDigits`
says that nothing else does); a mode connection made after the last one broke, or
after the camera was started again, is written to and never read, if the picture
link stays up or spins on its end (finding 3), since `try_accept` waits for a new
picture connection first: `Delivered` fails without its second condition.

## Proofs

All theorems are about the specifications without fairness, for every value of
the constants the named assumptions of the modules allow, any number of steps and
any interleaving.

`CameraServerProofs` (frame sequences of any length >= 2, any bounds, any set of
faults):

- `Typing`: the type invariant, in three parts (`LabelsOK`, `StreamOK`, `ValuesOK`).
- `Inductive`: `IInv`, the strengthening all others rest on.  Beside `TypeOK` it
  says that a running server starts a session only when the last one's threads
  are gone (`Joined`), that exactly the thread inside its critical section holds
  the lock and has the turn (`LockInv`), what the end of a thread means for the
  shutdown (`ExitInv`), and how far packet and size are in step at every label of
  the two picture tasks (`PacketInv`).  `NoTornPacket` alone is not inductive: it
  needs the lock and the turn to rule the other thread out.
- `Untorn`, `Turns`, `Wakeup`, `Sessions`: safety invariants of the run, from `IInv`.
- `Descriptors` and `Connections`, from two more parts of `IInv`.  `ConnInv` follows
  the two descriptors from `accept` to the end of a session; `EndInv` says in which
  order its threads leave: a picture task only after `isConnected` was cleared,
  which only `update_mode_task` does, on its way to the close of its own
  connection.  Both need `Joined`: without it the next session would overwrite
  descriptors the threads of the last one still use.
- `ImplementsHandoff`: the refinement of `Handoff`, under the assumption that
  `pthread_create` does not fail.  When it does, threads of a failed session can
  overlap with shutdown; `SessionInv` excludes that and `FlowInv` relates the
  frame in the slot to the frame number of the camera.

`MotionServerProofs`: `Typing`; `Inductive`, with `Past` (times told are not after
`t_local`, nor that after the clock) and `Fresh` (the fields read so far are in
order among each other and with `t_local`); from these `Age` and `Advance`: without
a lock an answer may be torn, but its age and time never run backwards.

`ClientMonitorProofs`: `Typing`, which includes that `getPicture` never meets an
empty buffer; `Inductive`, with `Counted` (a list of stamps is no longer than the
late pictures counted, except for the picture that brought the cameras in step,
which is the first and will be pruned) and `Short`; from these `Earned` and
`Forced`.  `PrunedFacts` describes the pruning loop; it rests on `LeastElement`, a
consequence of the well-foundedness of the natural numbers.

`DisplayProofs`: `UsesMonitor`, every behaviour of the Display threads is one of
`ClientMonitor`, so that `EarnedInUse` is the theorem `Earned` carried over;
`DisplayTyping` and `Lag`, which is inductive together with the types: the flag and
the buffer change in the same method.

`NetLinkProofs` (any number of sockets, any kinds): `Typing`; `NoLeak` and `Kept`.
They rest on `AllClosed` (before it connects the connection thread has closed all),
`ActiveUntil` (the flag is up only while it waits for the link to be given up) and
`OneWorker` (the only worker of a link works on the monitor's own socket while the
flag is up).  The last is what a motion link, with two workers, does not have, and
why a late `setActive(false)` can end its next connection.

`ModeLinkProofs`: `Manual` and `Movie` from an invariant about the way from the
button to `modeToSend` (`InputInv`, `ChoiceInv`, `MotionInv`); `Typing` and `Reaches`
(`InStep`) for any number of connections, from the invariant of `NetLinkProofs`,
which is instantiated and not proved again, and four of its own: a link that is
being given up is broken (`LinkInv`), bytes are on the way over an open connection
only (`WireInv`), of which there is one at most, the camera has accepted an open
connection or none (`SessionInv`), and the last byte on the way, or
else the mode of the camera, is the mode taken last unless it was missed
(`SentInv`).  `UsesParts` says that the whole is a behaviour of `ModeControl` and of
`NetLink` as well, so that `NoLeakInUse` and `KeptInUse` carry what is proved of
every link over to this one.

`MotionPeersProofs` (any film, any number of descriptors): `Typing` and `Accounted`
(`SocketsAccounted`), from `CameraInv`, which says at each statement of the capture
code what it holds beside the sockets it forgot, and `Talking`, the same of the
motion client until it is interrupted.  `Interrupted` bounds what it may lose after
that: one socket, in the attempt it has begun.

`TransportProofs`: `EachWay`, a behaviour of `Transport` is one of `PicturePackets`
and one of `MotionAnswers`, and on top of it

- for any sizes `FrameFits` allows, `Whole` and `Borders`, from `Counts` (bytes sent
  are bytes read plus bytes on the way), `InStream` and `InBuffer` (the bytes of the
  first send are where they belong), `TwoReads` and `OnePacket`;
- for ages of up to nine digits, `AsTold` and `OldDigits`, from `LeftBehind`: behind
  the last answer the buffer has the digits of the longest one so far, and `nul`
  after them.  Lemmas about the tokens of a text find the two or three tokens of
  every answer (`NoneParsed`, `EventParsed`): the second is all digits when there was
  an event, a single zero when there was none, and the last has `8 + longest - age`
  digits, which is where the three digits of `DiesOfOldDigits` come from;
- `Typing`, from both.

Every invariant and every action property the runs check is proved, and so is the
refinement of `Handoff`.  Only model-checked is what needs fairness (`FramesFlow`,
`ModeArrives`, `NoticePublished`, `QuitReachesThreads`, `FlagFollows`, `HangsAlone`,
`ShutdownEnds`, `Reconnects`, `DropNoticed`, `Delivered`, `PictureReceived`,
`QuitEnds`), which this prover does not handle.  The assumption of
`ImplementsHandoff` cannot be dropped: after a failed `pthread_create` a frame can be
discarded at shutdown, and the run that checks `HandoffSpec` lets `poll` fail only.

## Not modelled

- The start-up of the servers and of the client, which happens before anything
  runs concurrently, and the layout of the windows.
- What is in a picture, and frames of 65536 bytes or more: such a frame overruns
  the packet buffer of the server before its length is sent.
- The wrap of a time stamp read as a signed 32-bit number: it takes 24 days of
  stamps, and the line says all there is to say.
- `jpeglib.c`, course examples and drafts: the program does not use them.

## Plan

1. An identity of the client for the two connections of a session, for the case
   of two clients that connect at once, and the session in which a frame was
   taken, for a frame left over from the last client.
2. Descriptors of the motion server.
