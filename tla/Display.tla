------------------------------- MODULE Display -------------------------------
(***************************************************************************)
(* The Display threads of the client on top of ClientMonitor, one for each *)
(* camera, and the DisplayMonitor they share.  A thread copies the flag    *)
(* for synchronous mode, takes a picture, waits if the flag says so, and   *)
(* shows it.  The flag is read and written without a lock; updatePicture   *)
(* is synchronized, but the wait in it releases the lock.                  *)
(***************************************************************************)
EXTENDS ClientMonitor

VARIABLES
    display,      \* next statement of each Display thread
    copied,       \* what getSyncMode returned to each of them
    isSynced,     \* DisplayMonitor.isSynced, one for both
    anyShown,     \* DisplayMonitor.showedTime # 0
    surplus       \* history: arrivals while the last one was not yet taken

displayVars == <<display, copied, isSynced, anyShown>>
allVars == <<vars, displayVars, surplus>>

(* Every variable has its type, and no thread waits for a delay before a   *)
(* picture was shown.                                                      *)
DisplayTypeOK ==
    /\ TypeOK
    /\ display \in [Cam -> {"sync", "store", "get", "update", "delay", "hung"}]
    /\ copied \in [Cam -> BOOLEAN]
    /\ isSynced \in BOOLEAN /\ anyShown \in BOOLEAN
    /\ surplus \in [Cam -> 0 .. MaxPics]
    /\ \A c \in Cam : display[c] \in {"delay", "hung"} => anyShown

DisplayInit ==
    /\ Init
    /\ display = [c \in Cam |-> "sync"]
    /\ copied = [c \in Cam |-> FALSE]
    /\ isSynced = FALSE /\ anyShown = FALSE
    /\ surplus = [c \in Cam |-> 0]

Step(c, from, to) == display[c] = from /\ display' = [display EXCEPT ![c] = to]

-----------------------------------------------------------------------------
(* A picture arrives, or the user forces synchronous mode *)

Arrive(c) ==
    /\ PutPicture(c)
    /\ surplus' = [surplus EXCEPT ![c] = IF picAvailable[c] THEN @ + 1 ELSE @]
    /\ UNCHANGED displayVars

UserForces(sync) == SetForcedSync(sync) /\ UNCHANGED <<displayVars, surplus>>

-----------------------------------------------------------------------------
(* Display.run *)

CopySync(c) ==
    /\ Step(c, "sync", "store")
    /\ copied' = [copied EXCEPT ![c] = synced]
    /\ UNCHANGED <<vars, isSynced, anyShown, surplus>>

(* Broken variant: the flag is only ever raised. *)
StoreSyncRaises(c) ==
    /\ Step(c, "store", "get")
    /\ isSynced' = (isSynced \/ copied[c])
    /\ copied' = [copied EXCEPT ![c] = FALSE]
    /\ UNCHANGED <<vars, anyShown, surplus>>

StoreSync(c) ==
    /\ Step(c, "store", "get")
    /\ isSynced' = copied[c]
    /\ copied' = [copied EXCEPT ![c] = FALSE]
    /\ UNCHANGED <<vars, anyShown, surplus>>

(* Broken variant: with the flag down nothing is left to take. *)
TakeAll(c) ==
    /\ Step(c, "get", "update")
    /\ picAvailable[c]
    /\ picAvailable' = [picAvailable EXCEPT ![c] = FALSE]
    /\ picBuffer' = [picBuffer EXCEPT ![c] = <<>>]
    /\ UNCHANGED <<lastPic, syncStamps, synced, forceSync, historyVars, copied,
                   isSynced, anyShown, surplus>>

Take(c) ==
    /\ Step(c, "get", "update")
    /\ GetPicture(c)
    /\ UNCHANGED <<copied, isSynced, anyShown, surplus>>

(* updateImage, and the times the next delay is computed from. *)
Shows(c) ==
    /\ anyShown' = TRUE
    /\ UNCHANGED <<vars, copied, isSynced, surplus>>

(* Broken variant: the lock is kept while a thread waits. *)
ShowAtOnceLocked(c) ==
    /\ \A d \in Cam : display[d] \notin {"delay", "hung"}
    /\ Step(c, "update", "sync") /\ Shows(c)

(* updatePicture without a delay: not synchronous, the first picture, or a *)
(* negative argument, for which wait throws and the exception is dropped.  *)
ShowAtOnce(c) == Step(c, "update", "sync") /\ Shows(c)

(* wait(now - (showedTime + timeDiff)): which argument comes out depends   *)
(* on the clock.  A positive one is a delay, 0 means until notified, and   *)
(* nothing notifies a DisplayMonitor.                                      *)
Delay(c) ==
    /\ isSynced /\ anyShown
    /\ \/ Step(c, "update", "delay")
       \/ Step(c, "update", "hung")
    /\ UNCHANGED <<vars, copied, isSynced, anyShown, surplus>>

ShowLater(c) == Step(c, "delay", "sync") /\ Shows(c)

-----------------------------------------------------------------------------
DisplayStep(c) ==
    CopySync(c) \/ StoreSync(c) \/ Take(c) \/ ShowAtOnce(c) \/ Delay(c) \/ ShowLater(c)

DisplayNext ==
    \/ \E c \in Cam : Arrive(c) \/ DisplayStep(c)
    \/ \E sync \in BOOLEAN : UserForces(sync)

DisplaySpec ==
    /\ DisplayInit /\ [][DisplayNext]_allVars
    /\ \A c \in Cam : WF_allVars(DisplayStep(c))

-----------------------------------------------------------------------------
(* What lags behind in a buffer is exactly the arrivals that found the     *)
(* flag of the one before still up: the flag counts up to one, and a lag   *)
(* neither grows otherwise nor is ever made good.                          *)
LagIsSurplus ==
    \A c \in Cam :
        Len(picBuffer[c]) = surplus[c] + (IF picAvailable[c] THEN 1 ELSE 0)

(* Both threads copy the flag at their own pace into one field, so that    *)
(* either may undo what the other has written; but while pictures come,    *)
(* what the field holds in the end is what the monitor says.               *)
FlagFollows ==
    \A b \in BOOLEAN :
        <>[](synced = b) /\ []<>(\E c \in Cam : display[c] = "store")
            => <>[](isSynced = b)

(* A picture that was taken from the buffer is shown, and one that arrived *)
(* is taken, unless this very thread was told to wait(0); one that waits   *)
(* never keeps the other from going on.                                    *)
HangsAlone ==
    \A c \in Cam :
        /\ (display[c] = "update") ~> (display[c] \in {"sync", "hung"})
        /\ picAvailable[c] ~> (~picAvailable[c] \/ display[c] = "hung")
=============================================================================
