---------------------------- MODULE DisplayProofs ----------------------------
(***************************************************************************)
(* The Display threads use the client monitor as its specification says,   *)
(* and a picture that lags behind stays behind, for every tolerance, gap   *)
(* and bound.                                                              *)
(***************************************************************************)
EXTENDS Display, ClientMonitorProofs

USE ToleranceAssumption, BoundsAssumption
USE DEF displayVars, allVars, bufferVars, historyVars, vars

-----------------------------------------------------------------------------
(* The threads implement the monitor's specification *)

\* What a thread does between two calls of the monitor leaves it alone.
LEMMA StepRefines == [DisplayNext]_allVars => [Next]_vars
<1> SUFFICES ASSUME [DisplayNext]_allVars PROVE [Next]_vars
  OBVIOUS
<1>1. ASSUME NEW c \in Cam, Arrive(c) PROVE Next
  BY <1>1 DEF Arrive, Next
<1>2. ASSUME NEW c \in Cam, DisplayStep(c) PROVE [Next]_vars
  BY <1>2 DEF DisplayStep, CopySync, StoreSync, Take, ShowAtOnce, Delay, ShowLater,
     Shows, Next
<1>3. ASSUME NEW sync \in BOOLEAN, UserForces(sync) PROVE Next
  BY <1>3, Zenon DEF UserForces, Next
<1>4. DisplayNext => [Next]_vars
  BY <1>1, <1>2, <1>3, Zenon DEF DisplayNext
<1>5. QED
  BY <1>4

\* So all that is proved of the monitor holds when the threads use it.
THEOREM UsesMonitor == DisplaySpec => Spec
<1>1. DisplayInit => Init
  BY DEF DisplayInit
<1>2. QED
  BY <1>1, StepRefines, PTL DEF DisplaySpec, Spec

-----------------------------------------------------------------------------
(* The inductive invariant *)

ThreadsOK ==
    /\ display \in [Cam -> {"sync", "store", "get", "update", "delay", "hung"}]
    /\ copied \in [Cam -> BOOLEAN]
    /\ isSynced \in BOOLEAN /\ anyShown \in BOOLEAN
    /\ \A c \in Cam : display[c] \in {"delay", "hung"} => anyShown

DInv == TypeOK /\ ThreadsOK /\ surplus \in [Cam -> Nat] /\ LagIsSurplus

\* Before the first picture nothing lags.
LEMMA InitDInv == DisplayInit => DInv
<1> SUFFICES ASSUME DisplayInit PROVE DInv
  OBVIOUS
<1>1. TypeOK
  BY InitTypeOK DEF DisplayInit
<1>2. ThreadsOK
  BY DEF DisplayInit, ThreadsOK
<1>3. surplus \in [Cam -> Nat] /\ LagIsSurplus
  BY DEF DisplayInit, Init, LagIsSurplus
<1>4. QED
  BY <1>1, <1>2, <1>3 DEF DInv

\* The threads keep to their statements.
LEMMA NextThreads == ThreadsOK /\ TypeOK /\ [DisplayNext]_allVars => ThreadsOK'
<1> SUFFICES ASSUME ThreadsOK, TypeOK, [DisplayNext]_allVars PROVE ThreadsOK'
  OBVIOUS
<1>1. ASSUME NEW c \in Cam, DisplayStep(c) PROVE ThreadsOK'
  <2> USE DEF ThreadsOK, Step
  <2>1. CASE CopySync(c)
    BY <2>1 DEF CopySync, TypeOK
  <2>2. CASE StoreSync(c)
    BY <2>2 DEF StoreSync
  <2>3. CASE Take(c)
    BY <2>3 DEF Take
  <2>4. CASE ShowAtOnce(c)
    BY <2>4 DEF ShowAtOnce, Shows
  <2>5. CASE Delay(c)
    BY <2>5 DEF Delay
  <2>6. CASE ShowLater(c)
    BY <2>6 DEF ShowLater, Shows
  <2>7. QED
    BY <1>1, <2>1, <2>2, <2>3, <2>4, <2>5, <2>6 DEF DisplayStep
<1>2. ASSUME UNCHANGED displayVars PROVE ThreadsOK'
  BY <1>2 DEF ThreadsOK
<1>3. ASSUME NEW sync \in BOOLEAN, UserForces(sync) PROVE UNCHANGED displayVars
  BY <1>3 DEF UserForces
<1>4. ASSUME NEW c \in Cam, Arrive(c) PROVE UNCHANGED displayVars
  BY <1>4 DEF Arrive
<1>5. DisplayNext => ThreadsOK'
  BY <1>1, <1>2, <1>3, <1>4, Zenon DEF DisplayNext
<1>6. QED
  BY <1>2, <1>5

\* An arrival lags exactly when the flag of the one before is still up, and
\* taking a picture takes one.
LEMMA NextLag ==
    DInv /\ [DisplayNext]_allVars => (surplus \in [Cam -> Nat] /\ LagIsSurplus)'
<1> SUFFICES ASSUME DInv, [DisplayNext]_allVars
             PROVE  (surplus \in [Cam -> Nat] /\ LagIsSurplus)'
  OBVIOUS
<1> USE DEF DInv, TypeOK, LagIsSurplus
<1>1. ASSUME NEW c \in Cam, Arrive(c) PROVE (surplus \in [Cam -> Nat] /\ LagIsSurplus)'
  <2>1. PICK ts \in Stamp : picBuffer' = [picBuffer EXCEPT ![c] = Append(@, ts)]
    BY <1>1 DEF Arrive, PutPicture
  <2>2. Len(picBuffer'[c]) = Len(picBuffer[c]) + 1
    BY <2>1
  <2>3. /\ picAvailable' = [picAvailable EXCEPT ![c] = TRUE]
        /\ surplus' = [surplus EXCEPT ![c] = IF picAvailable[c] THEN @ + 1 ELSE @]
    BY <1>1 DEF Arrive, PutPicture
  <2>4. \A d \in Cam : d # c => /\ picBuffer'[d] = picBuffer[d]
                               /\ picAvailable'[d] = picAvailable[d]
                               /\ surplus'[d] = surplus[d]
    BY <2>1, <2>3
  <2>5. Len(picBuffer'[c]) = surplus'[c] + 1 /\ picAvailable'[c] = TRUE
    <3>1. CASE picAvailable[c]
      BY <2>2, <2>3, <3>1
    <3>2. CASE ~picAvailable[c]
      BY <2>2, <2>3, <3>2
    <3>3. QED
      BY <3>1, <3>2
  <2>6. surplus' \in [Cam -> Nat]
    BY <2>3
  <2>7. QED
    BY <2>4, <2>5, <2>6
<1>2. ASSUME NEW c \in Cam, Take(c) PROVE (surplus \in [Cam -> Nat] /\ LagIsSurplus)'
  <2>1. /\ picAvailable[c] /\ picAvailable' = [picAvailable EXCEPT ![c] = FALSE]
        /\ picBuffer' = [picBuffer EXCEPT ![c] = Tail(@)]
        /\ surplus' = surplus
    BY <1>2 DEF Take, GetPicture
  <2>2. picBuffer[c] \in Seq(Stamp) /\ picBuffer[c] # <<>>
    BY <2>1
  <2>3. Len(Tail(picBuffer[c])) = Len(picBuffer[c]) - 1
    BY <2>2
  <2>4. Len(picBuffer[c]) = surplus[c] + 1 /\ surplus[c] \in Nat
    BY <2>1
  <2>5. picBuffer'[c] = Tail(picBuffer[c]) /\ picAvailable'[c] = FALSE
    BY <2>1
  <2>6. Len(picBuffer'[c]) = surplus'[c]
    BY <2>1, <2>3, <2>4, <2>5
  <2>7. \A d \in Cam : d # c => /\ picBuffer'[d] = picBuffer[d]
                               /\ picAvailable'[d] = picAvailable[d]
    BY <2>1
  <2>8. QED
    BY <2>1, <2>5, <2>6, <2>7
<1>3. ASSUME UNCHANGED <<bufferVars, surplus>>
      PROVE  (surplus \in [Cam -> Nat] /\ LagIsSurplus)'
  BY <1>3
<1>4. ASSUME NEW c \in Cam, DisplayStep(c), ~Take(c)
      PROVE  UNCHANGED <<bufferVars, surplus>>
  BY <1>4 DEF DisplayStep, CopySync, StoreSync, ShowAtOnce, Delay, ShowLater, Shows
<1>5. ASSUME NEW sync \in BOOLEAN, UserForces(sync)
      PROVE  UNCHANGED <<bufferVars, surplus>>
  BY <1>5 DEF UserForces, SetForcedSync
<1>6. DisplayNext => (surplus \in [Cam -> Nat] /\ LagIsSurplus)'
  BY <1>1, <1>2, <1>3, <1>4, <1>5, Zenon DEF DisplayNext
<1>7. QED
  BY <1>3, <1>6

\* Every step preserves the invariant.
LEMMA NextDInv == DInv /\ [DisplayNext]_allVars => DInv'
BY StepRefines, NextTypeOK, NextThreads, NextLag DEF DInv

\* The invariant holds in every state.
LEMMA AlwaysDInv == DisplaySpec => []DInv
<1>1. DInv /\ [DisplayNext]_allVars => DInv'
  BY NextDInv
<1>2. QED
  BY <1>1, InitDInv, PTL DEF DisplaySpec

-----------------------------------------------------------------------------
(* The theorems *)

\* Every variable keeps its type; a woken thread finds a picture, and none
\* waits for a delay before a picture was shown.
THEOREM DisplayTyping == DisplaySpec => []DisplayTypeOK
<1>1. DInv => DisplayTypeOK
  <2> SUFFICES ASSUME DInv PROVE DisplayTypeOK
    OBVIOUS
  <2>1. \A c \in Cam : surplus[c] \in 0 .. MaxPics
    BY DEF DInv, TypeOK, LagIsSurplus
  <2>2. surplus \in [Cam -> 0 .. MaxPics]
    BY <2>1 DEF DInv
  <2>3. QED
    BY <2>2 DEF DInv, ThreadsOK, DisplayTypeOK
<1>2. QED
  BY <1>1, AlwaysDInv, PTL

\* What lags behind in a buffer is exactly the arrivals that found the flag of
\* the one before still up: it is never made good.
THEOREM Lag == DisplaySpec => []LagIsSurplus
<1>1. DInv => LagIsSurplus
  BY DEF DInv
<1>2. QED
  BY <1>1, AlwaysDInv, PTL

\* With the Display threads at work, too, synchronous mode ends only after
\* Tolerance late pictures of one camera with no timely one in between.
THEOREM EarnedInUse == DisplaySpec => SwitchEarned
BY UsesMonitor, Earned, PTL
=============================================================================
