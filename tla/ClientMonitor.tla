--------------------------- MODULE ClientMonitor ---------------------------
(***************************************************************************)
(* The pictures of the client, client/ClientMonitor.java: a PictureReciever*)
(* thread per camera puts pictures, a Display thread per camera gets them, *)
(* and the monitor decides from their time stamps whether the two cameras  *)
(* are in step.  All methods here are synchronized, so each is one step;   *)
(* wait() is a guard.                                                      *)
(***************************************************************************)
EXTENDS Integers, Sequences, FiniteSets

CONSTANTS
    Tolerance,   \* delayedFramesTolerance
    SyncGap,     \* syncToleranceMillis
    MaxTime,     \* bound: the last time stamp
    MaxPics      \* bound: pictures in a buffer

ASSUME ToleranceAssumption == Tolerance \in Nat \ {0} /\ SyncGap \in Nat
ASSUME BoundsAssumption == MaxTime \in Nat /\ MaxPics \in Nat

Cam == {1, 2}
Other(c) == 3 - c

\* A time stamp after convertToJavaTime, which puts the first picture of a
\* camera at the time of its arrival and keeps the distances of the others.  A
\* picture is its time stamp; none has the stamp 0.
Stamp == 1 .. MaxTime

VARIABLES
    picBuffer,      \* picBuffer1, picBuffer2
    picAvailable,   \* pic1Available, pic2Available
    lastPic,        \* the stamps of lastPic1, lastPic2; 0 at first
    syncStamps,     \* syncStamps1, syncStamps2
    synced,
    forceSync,
    lateRun         \* history: late pictures of a camera since a timely one

bufferVars == <<picBuffer, picAvailable>>
historyVars == <<lateRun>>
vars == <<bufferVars, lastPic, syncStamps, synced, forceSync, historyVars>>

Init ==
    /\ picBuffer = [c \in Cam |-> <<>>]
    /\ picAvailable = [c \in Cam |-> FALSE]
    /\ lastPic = [c \in Cam |-> 0]
    /\ syncStamps = [c \in Cam |-> <<>>]
    /\ synced = FALSE
    /\ forceSync = FALSE
    /\ lateRun = [c \in Cam |-> 0]

-----------------------------------------------------------------------------
(* The check of the time stamps.  These operators describe the step in     *)
(* which camera c delivers a picture of time ts.                           *)

\* syncReq: the picture is near the last one of the other camera.
Near(c, ts) == -SyncGap <= ts - lastPic[Other(c)] /\ ts - lastPic[Other(c)] <= SyncGap

\* Both lists of stamps are cleared.
Cleared == [c \in Cam |-> <<>>]

\* Broken variant: nothing is removed, so the picture that brought the cameras
\* in step counts as late.
PrunedNot(stamps, last) == stamps

\* The loop with removeFirst: what is left begins with the first stamp that is
\* late against the other camera's last picture.
Pruned(stamps, last) ==
    LET late == {i \in DOMAIN stamps : stamps[i] - last > SyncGap}
        first == CHOOSE i \in late : \A j \in late : i <= j
    IN  IF late = {} THEN <<>> ELSE SubSeq(stamps, first, Len(stamps))

\* The pictures asyncCheck forgives.
Timely(c, ts) == Near(c, ts) \/ ts < lastPic[Other(c)] \/ forceSync

\* syncCheck, while not synced.
SyncCheck(c, ts) ==
    IF forceSync \/ Near(c, ts)
    THEN /\ synced' = TRUE
         /\ syncStamps' = [Cleared EXCEPT ![c] = <<ts>>]
    ELSE UNCHANGED <<synced, syncStamps>>

\* asyncCheck, while synced.
AsyncCheck(c, ts) ==
    LET kept == Pruned(Append(syncStamps[c], ts), lastPic[Other(c)])
        full == Len(kept) >= Tolerance \/ Len(syncStamps[Other(c)]) >= Tolerance
    IN  /\ synced' = (Timely(c, ts) \/ ~full)
        /\ syncStamps' = IF Timely(c, ts) \/ full THEN Cleared
                         ELSE [syncStamps EXCEPT ![c] = kept]

\* syncReqCheck; there is nothing to compare before the other camera's first
\* picture.
SyncReqCheck(c, ts) ==
    IF lastPic[Other(c)] = 0
    THEN UNCHANGED <<synced, syncStamps>>
    ELSE IF synced THEN AsyncCheck(c, ts) ELSE SyncCheck(c, ts)

-----------------------------------------------------------------------------
(* The methods *)

\* The history variable, counted no further than the property needs.
Recount(c, ts) ==
    /\ lateRun' = IF Timely(c, ts) \/ ~synced \/ lastPic[Other(c)] = 0
                  THEN [d \in Cam |-> 0]
                  ELSE [lateRun EXCEPT ![c] = IF @ < Tolerance THEN @ + 1 ELSE @]

\* putPicture: the pictures of a camera arrive in the order they were taken.
PutPicture(c) ==
    /\ Len(picBuffer[c]) < MaxPics
    /\ \E ts \in Stamp :
          /\ ts >= lastPic[c]
          /\ picBuffer' = [picBuffer EXCEPT ![c] = Append(@, ts)]
          /\ lastPic' = [lastPic EXCEPT ![c] = ts]
          /\ SyncReqCheck(c, ts)
          /\ Recount(c, ts)
    /\ picAvailable' = [picAvailable EXCEPT ![c] = TRUE]
    /\ UNCHANGED forceSync

\* Broken variant: the flag stays up while there was a picture.
GetPictureKeepsFlag(c) ==
    /\ picAvailable[c]
    /\ picAvailable' = [picAvailable EXCEPT ![c] = picBuffer[c] # <<>>]
    /\ picBuffer' = [picBuffer EXCEPT ![c] = Tail(@)]
    /\ UNCHANGED <<lastPic, syncStamps, synced, forceSync, historyVars>>

\* getPicture: the oldest one, whatever else has come meanwhile.
GetPicture(c) ==
    /\ picAvailable[c]
    /\ picAvailable' = [picAvailable EXCEPT ![c] = FALSE]
    /\ picBuffer' = [picBuffer EXCEPT ![c] = Tail(@)]
    /\ UNCHANGED <<lastPic, syncStamps, synced, forceSync, historyVars>>

\* setForcedSync; FALSE changes nothing.
SetForcedSync(sync) ==
    /\ forceSync' = (forceSync \/ sync)
    /\ UNCHANGED <<bufferVars, lastPic, syncStamps, synced, historyVars>>

Next ==
    \/ \E c \in Cam : PutPicture(c) \/ GetPicture(c)
    \/ \E sync \in BOOLEAN : SetForcedSync(sync)

Spec == Init /\ [][Next]_vars

-----------------------------------------------------------------------------
(* Properties *)

\* Every variable has its type, and there is a picture when getPicture is told
\* so: its remove() never throws (ClientMonitor.java:153-157).
TypeOK ==
    /\ picBuffer \in [Cam -> Seq(Stamp)]
    /\ \A c \in Cam : Len(picBuffer[c]) <= MaxPics
    /\ picAvailable \in [Cam -> BOOLEAN]
    /\ \A c \in Cam : picAvailable[c] => picBuffer[c] # <<>>
    /\ lastPic \in [Cam -> 0 .. MaxTime]
    /\ syncStamps \in [Cam -> Seq(Stamp)]
    /\ synced \in BOOLEAN
    /\ forceSync \in BOOLEAN
    /\ lateRun \in [Cam -> 0 .. Tolerance]

\* The cameras count as out of step only after Tolerance late pictures of one
\* of them with no timely picture in between, although the lists also receive
\* the picture that brought them in step, and are pruned only for the camera
\* that delivers (asyncCheck, ClientMonitor.java:127-145).
SwitchEarned ==
    [][synced /\ ~synced' => \E c \in Cam : lateRun'[c] = Tolerance]_vars

\* Once forced and in step the cameras stay so (ClientMonitor.java:57-63).
ForcedStays == [][forceSync /\ synced => synced']_vars
=============================================================================
