------------------------ MODULE ClientMonitorProofs ------------------------
(***************************************************************************)
(* When the client monitor may hand out a picture and when it may leave    *)
(* synchronous mode, for every tolerance, gap and bound.                   *)
(***************************************************************************)
EXTENDS ClientMonitor, WellFoundedInduction, TLAPS

USE ToleranceAssumption, BoundsAssumption
USE DEF bufferVars, historyVars, vars

-----------------------------------------------------------------------------
(* The inductive invariant *)

\* The lists of stamps hold no more than the late pictures counted, but for
\* the picture that brought the cameras in step: it is the first of its list
\* and not late, so that it is removed before the list can be full.
Counted ==
    synced => \A c \in Cam :
        \/ forceSync
        \/ Len(syncStamps[c]) <= lateRun[c]
        \/ /\ Len(syncStamps[c]) = lateRun[c] + 1
           /\ syncStamps[c][1] - lastPic[Other(c)] <= SyncGap

\* No list is full, unless a single picture fills it.
Short ==
    synced => \A c \in Cam :
        Len(syncStamps[c]) < Tolerance \/ Len(syncStamps[c]) = 1

\* The cameras are in step only when both have sent a picture.
BothSent == synced => \A c \in Cam : lastPic[c] # 0

IInv == TypeOK /\ Counted /\ Short /\ BothSent

-----------------------------------------------------------------------------
(* Lemmas about the operators *)

\* A nonempty set of natural numbers has a least element.
LEMMA LeastElement ==
    ASSUME NEW T, T \subseteq Nat, T # {}
    PROVE  \E x \in T : \A y \in T : x <= y
<1> DEFINE R == OpToRel(<, Nat)
<1>1. IsWellFoundedOn(R, Nat)
  BY NatLessThanWellFounded
<1>2. \E x \in T : \A y \in T : <<y, x>> \notin R
  <2> HIDE DEF R
  <2> QED
    BY <1>1, WFMin, Zenon
<1>3. \A x, y \in T : y < x => <<y, x>> \in R
  BY DEF OpToRel
<1>4. PICK x \in T : \A y \in T : ~(y < x)
  BY <1>2, <1>3, Zenon
<1>5. \A y \in T : x <= y
  BY <1>4
<1>6. QED
  BY <1>5

\* The other camera is a camera, and the other of the other is this one.
LEMMA OtherCam == \A c \in Cam : /\ Other(c) \in Cam
                                 /\ Other(c) # c
                                 /\ Other(Other(c)) = c
                                 /\ \A d \in Cam : d = c \/ d = Other(c)
BY DEF Cam, Other

\* What the loop of asyncCheck leaves of a list whose last stamp is late: a
\* tail of it that is not empty, and a proper one if the first is not late.
LEMMA PrunedFacts ==
    ASSUME NEW s \in Seq(Stamp), NEW last \in Int,
           s # <<>>, s[Len(s)] - last > SyncGap
    PROVE  /\ Pruned(s, last) \in Seq(Stamp)
           /\ Len(Pruned(s, last)) \in 1 .. Len(s)
           /\ s[1] - last <= SyncGap => Len(Pruned(s, last)) < Len(s)
<1> DEFINE late == {i \in DOMAIN s : s[i] - last > SyncGap}
           first == CHOOSE i \in late : \A j \in late : i <= j
<1>1. Len(s) \in late
  OBVIOUS
<1>2. late \subseteq Nat
  OBVIOUS
<1>3. first \in late
  <2>1. \E i \in late : \A j \in late : i <= j
    <3> HIDE DEF late
    <3> QED
      BY <1>1, <1>2, LeastElement
  <2>2. QED
    BY <2>1
<1>4. Pruned(s, last) = SubSeq(s, first, Len(s))
  BY <1>1 DEF Pruned
<1>5. first \in 1 .. Len(s) /\ s[first] - last > SyncGap
  BY <1>3
<1> HIDE DEF first
<1>6. /\ Pruned(s, last) \in Seq(Stamp)
      /\ Len(Pruned(s, last)) = Len(s) - first + 1
  BY <1>4, <1>5
<1>7. s[1] - last <= SyncGap => first # 1
  <2>1. s[1] \in Int
    BY DEF Stamp
  <2>2. QED
    BY <1>5, <2>1
<1>8. QED
  BY <1>5, <1>6, <1>7

-----------------------------------------------------------------------------
(* Type correctness *)

\* A picture whose stamp is not timely is late, and the last one seen of the
\* other camera is older.
LEMMA LateFacts ==
    ASSUME TypeOK, NEW c \in Cam, NEW ts \in Stamp, ~Timely(c, ts)
    PROVE  ~forceSync /\ ts - lastPic[Other(c)] > SyncGap
BY OtherCam DEF TypeOK, Timely, Near, Stamp

\* What the check does with the lists keeps their type.
LEMMA CheckType ==
    ASSUME TypeOK, NEW c \in Cam, NEW ts \in Stamp, SyncReqCheck(c, ts)
    PROVE  syncStamps' \in [Cam -> Seq(Stamp)] /\ synced' \in BOOLEAN
<1>1. Cleared \in [Cam -> Seq(Stamp)]
  BY DEF Cleared
<1>2. CASE lastPic[Other(c)] = 0
  BY <1>2 DEF SyncReqCheck, TypeOK
<1>3. CASE lastPic[Other(c)] # 0 /\ ~synced
  <2>1. SyncCheck(c, ts)
    BY <1>3 DEF SyncReqCheck
  <2>2. <<ts>> \in Seq(Stamp)
    OBVIOUS
  <2>3. [Cleared EXCEPT ![c] = <<ts>>] \in [Cam -> Seq(Stamp)]
    BY <1>1, <2>2
  <2>4. CASE forceSync \/ Near(c, ts)
    BY <2>1, <2>3, <2>4 DEF SyncCheck
  <2>5. CASE ~(forceSync \/ Near(c, ts))
    BY <2>1, <2>5 DEF SyncCheck, TypeOK
  <2>6. QED
    BY <2>4, <2>5
<1>4. CASE lastPic[Other(c)] # 0 /\ synced
  <2>1. AsyncCheck(c, ts)
    BY <1>4 DEF SyncReqCheck
  <2>2. CASE Timely(c, ts)
    BY <1>1, <2>1, <2>2 DEF AsyncCheck
  <2>3. CASE ~Timely(c, ts)
    <3> DEFINE s == Append(syncStamps[c], ts)
    <3>1. s \in Seq(Stamp) /\ s # <<>> /\ s[Len(s)] = ts
      <4>1. syncStamps[c] \in Seq(Stamp)
        BY DEF TypeOK
      <4>2. QED
        BY <4>1
    <3>2. lastPic[Other(c)] \in Int
      BY OtherCam DEF TypeOK
    <3>3. Pruned(s, lastPic[Other(c)]) \in Seq(Stamp)
      <4> HIDE DEF s
      <4> QED
        BY <3>1, <3>2, <2>3, LateFacts, PrunedFacts
    <3>4. QED
      BY <1>1, <2>1, <3>3 DEF AsyncCheck, TypeOK
  <2>4. QED
    BY <2>2, <2>3
<1>5. QED
  BY <1>2, <1>3, <1>4

\* The history variables keep their types.
LEMMA RecountType ==
    ASSUME TypeOK, NEW c \in Cam, NEW ts \in Stamp, Recount(c, ts)
    PROVE  lateRun' \in [Cam -> 0 .. Tolerance]
BY DEF Recount, TypeOK

\* The initial state is well typed.
LEMMA InitTypeOK == Init => TypeOK
<1> SUFFICES ASSUME Init PROVE TypeOK
  OBVIOUS
<1>1. picBuffer \in [Cam -> Seq(Stamp)] /\ syncStamps \in [Cam -> Seq(Stamp)]
  BY DEF Init
<1>2. \A c \in Cam : Len(picBuffer[c]) <= MaxPics
  BY DEF Init
<1>3. \A c \in Cam : picAvailable[c] => picBuffer[c] # <<>>
  BY DEF Init
<1>4. lateRun \in [Cam -> 0 .. Tolerance]
  BY DEF Init
<1>5. picAvailable \in [Cam -> BOOLEAN] /\ lastPic \in [Cam -> 0 .. MaxTime]
  BY DEF Init
<1>6. synced \in BOOLEAN /\ forceSync \in BOOLEAN
  BY DEF Init
<1>7. QED
  BY <1>1, <1>2, <1>3, <1>4, <1>5, <1>6 DEF TypeOK

\* Every step preserves the types.
LEMMA NextTypeOK == TypeOK /\ [Next]_vars => TypeOK'
<1> SUFFICES ASSUME TypeOK, [Next]_vars PROVE TypeOK'
  OBVIOUS
<1>1. ASSUME NEW c \in Cam, PutPicture(c) PROVE TypeOK'
  <2>1. PICK ts \in Stamp :
          /\ picBuffer' = [picBuffer EXCEPT ![c] = Append(@, ts)]
          /\ lastPic' = [lastPic EXCEPT ![c] = ts]
          /\ SyncReqCheck(c, ts)
          /\ Recount(c, ts)
    BY <1>1 DEF PutPicture
  <2>2. syncStamps' \in [Cam -> Seq(Stamp)] /\ synced' \in BOOLEAN
    BY <2>1, CheckType
  <2>3. lateRun' \in [Cam -> 0 .. Tolerance]
    BY <2>1, RecountType
  <2>4. lastPic' \in [Cam -> 0 .. MaxTime]
    BY <2>1 DEF TypeOK, Stamp
  <2>5. /\ Append(picBuffer[c], ts) \in Seq(Stamp)
        /\ Append(picBuffer[c], ts) # <<>>
        /\ Len(Append(picBuffer[c], ts)) <= MaxPics
    <3>1. picBuffer[c] \in Seq(Stamp) /\ Len(picBuffer[c]) < MaxPics
      BY <1>1 DEF TypeOK, PutPicture
    <3>2. QED
      BY <3>1
  <2>6. /\ picBuffer' \in [Cam -> Seq(Stamp)]
        /\ picAvailable' \in [Cam -> BOOLEAN]
        /\ \A d \in Cam : Len(picBuffer'[d]) <= MaxPics
        /\ \A d \in Cam : picAvailable'[d] => picBuffer'[d] # <<>>
    BY <1>1, <2>1, <2>5 DEF TypeOK, PutPicture
  <2>7. forceSync' \in BOOLEAN
    BY <1>1 DEF TypeOK, PutPicture
  <2>8. QED
    BY <2>2, <2>3, <2>4, <2>6, <2>7 DEF TypeOK
<1>2. ASSUME NEW c \in Cam, GetPicture(c) PROVE TypeOK'
  <2>1. picBuffer[c] # <<>>
    BY <1>2 DEF GetPicture, TypeOK
  <2>2. Tail(picBuffer[c]) \in Seq(Stamp) /\ Len(Tail(picBuffer[c])) <= MaxPics
    BY <2>1 DEF TypeOK
  <2>3. QED
    BY <1>2, <2>2 DEF GetPicture, TypeOK
<1>3. ASSUME NEW sync \in BOOLEAN, SetForcedSync(sync) PROVE TypeOK'
  BY <1>3 DEF SetForcedSync, TypeOK
<1>4. CASE UNCHANGED vars
  BY <1>4 DEF TypeOK
<1>5. QED
  BY <1>1, <1>2, <1>3, <1>4 DEF Next

\* Every variable keeps its type, and getPicture finds a picture whenever the
\* flag of its camera is up, so that its remove() does not throw.
THEOREM Typing == Spec => []TypeOK
BY InitTypeOK, NextTypeOK, PTL DEF Spec

-----------------------------------------------------------------------------
(* Leaving synchronous mode *)

\* A late picture while in step: the list of its camera is no longer than the
\* count of late pictures will be, and the step ends synchronous mode only
\* when that count reaches the tolerance.
LEMMA LateStep ==
    ASSUME IInv, synced, NEW c \in Cam, NEW ts \in Stamp, ~Timely(c, ts),
           AsyncCheck(c, ts), Recount(c, ts)
    PROVE  \/ ~synced' /\ lateRun'[c] = Tolerance
           \/ /\ synced'
              /\ \A d \in Cam : Len(syncStamps'[d]) < Tolerance
              /\ Len(syncStamps'[c]) <= lateRun'[c]
              /\ syncStamps'[Other(c)] = syncStamps[Other(c)]
              /\ lateRun'[Other(c)] = lateRun[Other(c)]
<1> DEFINE s == Append(syncStamps[c], ts)
           last == lastPic[Other(c)]
           kept == Pruned(s, last)
           full == Len(kept) >= Tolerance \/ Len(syncStamps[Other(c)]) >= Tolerance
<1>1. /\ syncStamps \in [Cam -> Seq(Stamp)] /\ lateRun \in [Cam -> 0 .. Tolerance]
      /\ Other(c) \in Cam /\ last \in Int
  BY OtherCam DEF IInv, TypeOK
<1>2. /\ s \in Seq(Stamp) /\ s # <<>> /\ s[Len(s)] = ts
      /\ Len(s) = Len(syncStamps[c]) + 1
      /\ syncStamps[c] # <<>> => s[1] = syncStamps[c][1]
  <2>1. syncStamps[c] \in Seq(Stamp)
    BY <1>1
  <2>2. /\ s \in Seq(Stamp) /\ s # <<>> /\ s[Len(s)] = ts
        /\ Len(s) = Len(syncStamps[c]) + 1
    BY <2>1
  <2>3. syncStamps[c] # <<>> => s[1] = syncStamps[c][1]
    BY <2>1
  <2>4. QED
    BY <2>2, <2>3
<1>3. ~forceSync /\ ts - last > SyncGap
  BY LateFacts DEF IInv
<1>4. /\ kept \in Seq(Stamp)
      /\ Len(kept) \in 1 .. Len(s)
      /\ s[1] - last <= SyncGap => Len(kept) < Len(s)
  <2> HIDE DEF s, last
  <2>1. s \in Seq(Stamp) /\ s # <<>> /\ s[Len(s)] - last > SyncGap
    BY <1>2, <1>3
  <2>2. last \in Int
    BY <1>1
  <2> QED
    BY <2>1, <2>2, PrunedFacts
<1>5. Len(syncStamps[c]) \in Nat /\ Len(syncStamps[Other(c)]) \in Nat
  BY <1>1
<1>6. lateRun' = [lateRun EXCEPT ![c] = IF @ < Tolerance THEN @ + 1 ELSE @]
  BY <1>1 DEF Recount, IInv, BothSent
<1>7. /\ lateRun'[c] = IF lateRun[c] < Tolerance THEN lateRun[c] + 1 ELSE lateRun[c]
      /\ lateRun'[Other(c)] = lateRun[Other(c)]
  BY <1>1, <1>6, OtherCam
<1>8. Len(kept) <= lateRun[c] + 1
  <2>1. CASE Len(syncStamps[c]) <= lateRun[c]
    BY <2>1, <1>1, <1>2, <1>4, <1>5
  <2>2. CASE /\ Len(syncStamps[c]) = lateRun[c] + 1
             /\ syncStamps[c][1] - last <= SyncGap
    <3>1. syncStamps[c] # <<>>
      BY <2>2, <1>1
    <3>2. Len(kept) < Len(s)
      BY <3>1, <2>2, <1>2, <1>4
    <3>3. QED
      BY <3>2, <2>2, <1>1, <1>2, <1>4, <1>5
  <2>3. QED
    BY <2>1, <2>2, <1>3 DEF IInv, Counted
<1>9. /\ full => ~synced'
      /\ ~full => synced' /\ syncStamps' = [syncStamps EXCEPT ![c] = kept]
  BY DEF AsyncCheck
<1> HIDE DEF kept, s, last
<1>10. CASE ~full
  <2>1. Len(kept) < Tolerance /\ Len(syncStamps[Other(c)]) < Tolerance
    BY <1>10, <1>4, <1>5
  <2>2. syncStamps'[c] = kept /\ syncStamps'[Other(c)] = syncStamps[Other(c)]
    BY <1>1, <1>9, <1>10, OtherCam
  <2>3. Len(kept) <= lateRun'[c]
    BY <2>1, <1>1, <1>4, <1>7, <1>8
  <2>4. QED
    BY <2>1, <2>2, <2>3, <1>7, <1>9, <1>10, OtherCam
<1>11. CASE full
  <2>1. CASE Len(kept) >= Tolerance
    BY <2>1, <1>11, <1>1, <1>4, <1>7, <1>8, <1>9
  <2>2. CASE Len(syncStamps[Other(c)]) >= Tolerance
    <3>1. Len(syncStamps[Other(c)]) = 1
      BY <2>2, <1>1, <1>5 DEF IInv, Short
    <3>2. Tolerance = 1
      BY <2>2, <3>1
    <3>3. lateRun[c] \in 0 .. 1
      BY <1>1, <3>2
    <3>4. QED
      BY <3>2, <3>3, <1>11, <1>7, <1>9
  <2>3. QED
    BY <2>1, <2>2, <1>11
<1>12. QED
  BY <1>10, <1>11

\* A picture that comes when the cameras are in step.
LEMMA SyncedStep ==
    ASSUME IInv, synced, NEW c \in Cam, NEW ts \in Stamp, ts >= lastPic[c],
           lastPic' = [lastPic EXCEPT ![c] = ts], SyncReqCheck(c, ts),
           Recount(c, ts), UNCHANGED forceSync
    PROVE  Counted' /\ Short' /\ BothSent'
<1>1. /\ syncStamps \in [Cam -> Seq(Stamp)] /\ lateRun \in [Cam -> 0 .. Tolerance]
      /\ lastPic \in [Cam -> 0 .. MaxTime] /\ Other(c) \in Cam
  BY OtherCam DEF IInv, TypeOK
<1>2. AsyncCheck(c, ts)
  BY <1>1 DEF SyncReqCheck, IInv, BothSent
<1>3. BothSent'
  BY <1>1 DEF IInv, BothSent, Stamp
<1>4. CASE Timely(c, ts)
  <2>1. \A d \in Cam : syncStamps'[d] = <<>> /\ lateRun'[d] = 0
    BY <1>2, <1>4 DEF AsyncCheck, Recount, Cleared
  <2>2. \A d \in Cam : Len(syncStamps'[d]) = 0
    BY <2>1
  <2>3. QED
    BY <1>3, <2>1, <2>2 DEF Counted, Short
<1>5. CASE ~Timely(c, ts) /\ ~synced'
  BY <1>3, <1>5 DEF Counted, Short
<1>6. CASE ~Timely(c, ts) /\ synced'
  <2>1. /\ \A d \in Cam : Len(syncStamps'[d]) < Tolerance
        /\ Len(syncStamps'[c]) <= lateRun'[c]
        /\ syncStamps'[Other(c)] = syncStamps[Other(c)]
        /\ lateRun'[Other(c)] = lateRun[Other(c)]
    BY <1>2, <1>6, LateStep
  <2>2. Short'
    BY <2>1 DEF Short
  <2> DEFINE o == Other(c)
  <2>3. Other(o) = c /\ lastPic'[c] = ts /\ lastPic[c] <= ts
    BY <1>1, OtherCam
  <2>4. \/ forceSync'
        \/ Len(syncStamps'[o]) <= lateRun'[o]
        \/ /\ Len(syncStamps'[o]) = lateRun'[o] + 1
           /\ syncStamps'[o][1] - lastPic'[Other(o)] <= SyncGap
    <3>1. CASE forceSync \/ Len(syncStamps[o]) <= lateRun[o]
      BY <3>1, <2>1
    <3>2. CASE /\ Len(syncStamps[o]) = lateRun[o] + 1
               /\ syncStamps[o][1] - lastPic[c] <= SyncGap
      <4>1. syncStamps[o][1] \in Int /\ lastPic[c] \in Int /\ ts \in Int
        <5>1. syncStamps[o] \in Seq(Stamp) /\ Len(syncStamps[o]) >= 1
          BY <3>2, <1>1
        <5>2. QED
          BY <5>1, <1>1 DEF Stamp
      <4>2. syncStamps[o][1] - ts <= SyncGap
        BY <3>2, <4>1, <2>3
      <4>3. QED
        BY <3>2, <4>2, <2>1, <2>3
    <3>3. QED
      BY <3>1, <3>2, <2>3, <1>1 DEF IInv, Counted
  <2>5. Counted'
    BY <2>1, <2>4, OtherCam DEF Counted
  <2>6. QED
    BY <1>3, <2>2, <2>5
<1>7. QED
  BY <1>4, <1>5, <1>6

\* A picture that comes when the cameras are not in step.
LEMMA UnsyncedStep ==
    ASSUME IInv, ~synced, NEW c \in Cam, NEW ts \in Stamp,
           lastPic' = [lastPic EXCEPT ![c] = ts], SyncReqCheck(c, ts),
           Recount(c, ts), UNCHANGED forceSync
    PROVE  Counted' /\ Short' /\ BothSent'
<1>1. /\ lastPic \in [Cam -> 0 .. MaxTime] /\ Other(c) \in Cam
      /\ lateRun' = [d \in Cam |-> 0]
  BY OtherCam DEF IInv, TypeOK, Recount
<1>2. CASE ~synced'
  BY <1>2 DEF Counted, Short, BothSent
<1>3. CASE synced'
  <2>1. lastPic[Other(c)] # 0 /\ SyncCheck(c, ts)
    BY <1>3 DEF SyncReqCheck
  <2>2. (forceSync \/ Near(c, ts)) /\ syncStamps' = [Cleared EXCEPT ![c] = <<ts>>]
    BY <1>3, <2>1 DEF SyncCheck
  <2>3. syncStamps'[c] = <<ts>> /\ syncStamps'[Other(c)] = <<>>
    BY <1>1, <2>2, OtherCam DEF Cleared
  <2>4. lastPic'[Other(c)] = lastPic[Other(c)] /\ lastPic'[c] = ts
    BY <1>1, OtherCam
  <2>5. BothSent'
    BY <2>1, <2>4, OtherCam DEF BothSent, Stamp
  <2>6. Len(syncStamps'[c]) = 1 /\ Len(syncStamps'[Other(c)]) = 0
        /\ syncStamps'[c][1] = ts
    BY <2>3
  <2>7. Short'
    BY <2>6, OtherCam DEF Short
  <2>8. Counted'
    <3>1. forceSync' \/ ts - lastPic'[Other(c)] <= SyncGap
      BY <2>2, <2>4 DEF Near
    <3>2. lateRun'[c] = 0 /\ lateRun'[Other(c)] = 0
      BY <1>1
    <3>3. Len(syncStamps'[c]) = lateRun'[c] + 1
      BY <3>2, <2>6
    <3>4. Len(syncStamps'[Other(c)]) <= lateRun'[Other(c)]
      BY <3>2, <2>6
    <3>5. QED
      BY <3>1, <3>3, <3>4, <2>6, OtherCam DEF Counted
  <2>9. QED
    BY <2>5, <2>7, <2>8
<1>4. QED
  BY <1>2, <1>3

\* The invariant is inductive.
LEMMA NextIInv == IInv /\ [Next]_vars => IInv'
<1> SUFFICES ASSUME IInv, [Next]_vars PROVE Counted' /\ Short' /\ BothSent'
  BY NextTypeOK DEF IInv
<1>1. ASSUME NEW c \in Cam, PutPicture(c) PROVE Counted' /\ Short' /\ BothSent'
  <2>1. PICK ts \in Stamp : /\ ts >= lastPic[c]
                            /\ lastPic' = [lastPic EXCEPT ![c] = ts]
                            /\ SyncReqCheck(c, ts)
                            /\ Recount(c, ts)
    BY <1>1 DEF PutPicture
  <2>2. UNCHANGED forceSync
    BY <1>1 DEF PutPicture
  <2>3. CASE synced
    BY <2>1, <2>2, <2>3, SyncedStep
  <2>4. CASE ~synced
    BY <2>1, <2>2, <2>4, UnsyncedStep
  <2>5. QED
    BY <2>3, <2>4
<1>2. ASSUME NEW c \in Cam, GetPicture(c) PROVE Counted' /\ Short' /\ BothSent'
  BY <1>2 DEF GetPicture, IInv, Counted, Short, BothSent
<1>3. ASSUME NEW sync \in BOOLEAN, SetForcedSync(sync)
      PROVE  Counted' /\ Short' /\ BothSent'
  BY <1>3 DEF SetForcedSync, IInv, Counted, Short, BothSent
<1>4. CASE UNCHANGED vars
  BY <1>4 DEF IInv, Counted, Short, BothSent
<1>5. QED
  BY <1>1, <1>2, <1>3, <1>4 DEF Next

\* The invariant holds in every reachable state.
THEOREM Inductive == Spec => []IInv
<1>1. Init => IInv
  BY InitTypeOK DEF Init, IInv, Counted, Short, BothSent
<1>2. QED
  BY <1>1, NextIInv, PTL DEF Spec

\* Only a picture can end synchronous mode (putPicture calls the check).
LEMMA OnlyPut ==
    ASSUME IInv, [Next]_vars, synced, ~synced'
    PROVE  \E c \in Cam, ts \in Stamp : /\ ~Timely(c, ts)
                                        /\ AsyncCheck(c, ts)
                                        /\ Recount(c, ts)
<1>1. PICK c \in Cam : PutPicture(c)
  BY DEF Next, GetPicture, SetForcedSync
<1>2. PICK ts \in Stamp : SyncReqCheck(c, ts) /\ Recount(c, ts)
  BY <1>1 DEF PutPicture
<1>3. AsyncCheck(c, ts)
  BY <1>2 DEF SyncReqCheck
<1>4. ~Timely(c, ts)
  BY <1>3 DEF AsyncCheck
<1>5. QED
  BY <1>2, <1>3, <1>4

\* Synchronous mode ends only after Tolerance late pictures of one camera in a
\* row (asyncCheck).
THEOREM Earned == Spec => SwitchEarned
<1>1. IInv /\ [Next]_vars =>
        [synced /\ ~synced' => \E c \in Cam : lateRun'[c] = Tolerance]_vars
  BY OnlyPut, LateStep
<1>2. QED
  BY <1>1, Inductive, PTL DEF Spec, SwitchEarned

\* Forced synchronous mode does not end (asyncCheck).
THEOREM Forced == Spec => ForcedStays
<1>1. IInv /\ [Next]_vars => [forceSync /\ synced => synced']_vars
  BY OnlyPut DEF Timely, IInv, TypeOK
<1>2. QED
  BY <1>1, Inductive, PTL DEF Spec, ForcedStays
=============================================================================
