------------------------- MODULE MotionServerProofs -------------------------
(***************************************************************************)
(* What an answer of the motion proxy can be relied on for, whatever the   *)
(* interleaving with motion_task, for any clock bound and any kinds of     *)
(* requests and notifications.                                             *)
(***************************************************************************)
EXTENDS MotionServer, TLAPS

USE TimeAssumption, KindAssumption
USE DEF timeVars, motionVars, clientVars, data, vars

-----------------------------------------------------------------------------
(* The inductive invariant *)

\* The events told of are past.
Past == told <= t_local /\ t_local <= now

\* The fields of an answer read so far are no newer than t_local is now; l is
\* no older than base, nor than what the last answer told.
Fresh ==
    pc["main"] = "build" =>
        /\ "base" \notin unread => answer["base"] <= t_local
        /\ "l" \notin unread => /\ "base" \notin unread
                                /\ answer["base"] <= answer["l"]
                                /\ told <= answer["l"]
                                /\ answer["l"] <= t_local

IInv == TypeOK /\ Past /\ Fresh

-----------------------------------------------------------------------------
(* Type correctness *)

\* The initial state is well typed.
LEMMA InitTypeOK == Init => TypeOK
BY DEF Init, TypeOK, Time, Answer, NoAnswer, Field, NoNotice

\* The steps of motion_task preserve the types.
LEMMA MotionType == TypeOK /\ Motion => TypeOK'
<1> SUFFICES ASSUME TypeOK, Motion PROVE TypeOK'
  OBVIOUS
<1>1. CASE MotionPoll
  BY <1>1 DEF MotionPoll, TypeOK, Go
<1>2. CASE MotionAccept
  BY <1>2 DEF MotionAccept, TypeOK, Go
<1>3. CASE MotionRead
  BY <1>3 DEF MotionRead, TypeOK, Go
<1>4. CASE MotionParse
  BY <1>4 DEF MotionParse, TypeOK, Go, Notice, NoNotice, Time
<1>5. CASE MotionLocal
  BY <1>5 DEF MotionLocal, TypeOK, Go
<1>6. CASE MotionClose
  BY <1>6 DEF MotionClose, TypeOK, Go
<1>7. QED
  BY <1>1, <1>2, <1>3, <1>4, <1>5, <1>6 DEF Motion

\* The steps of main preserve the types.
LEMMA MainType == TypeOK /\ Main => TypeOK'
<1> SUFFICES ASSUME TypeOK, Main PROVE TypeOK'
  OBVIOUS
<1>1. CASE MainPoll
  <2>1. /\ clientQ' \in Seq(RequestKind) /\ Len(clientQ') <= MaxBacklog
        /\ request' \in RequestKind \cup {"none", "bad"}
    <3> /\ clientQ \in Seq(RequestKind) /\ Len(clientQ) <= MaxBacklog
        /\ request \in RequestKind \cup {"none", "bad"}
      BY DEF TypeOK
    <3>1. CASE clientQ = <<>>
      BY <1>1, <3>1 DEF MainPoll
    <3>2. CASE clientQ # <<>>
      <4>1. Head(clientQ) \in RequestKind
        BY <3>2
      <4>2. Tail(clientQ) \in Seq(RequestKind) /\ Len(Tail(clientQ)) < MaxBacklog
        BY <3>2
      <4>3. QED
        BY <1>1, <4>1, <4>2 DEF MainPoll
    <3>3. QED
      BY <3>1, <3>2
  <2>2. QED
    BY <1>1, <2>1 DEF MainPoll, TypeOK, Go
<1>2. CASE MainRead
  BY <1>2 DEF MainRead, TypeOK, Go, Answer, NoAnswer, Time
<1>3. CASE MainBuild
  <2>1. unread' \in SUBSET Field
    BY <1>3 DEF MainBuild, TypeOK
  <2>2. \A f \in Field : Value(f) \in Time
    BY DEF Value, Field, TypeOK
  <2>3. answer' \in Answer
    BY <1>3, <2>2 DEF MainBuild, TypeOK, Answer
  <2>4. QED
    BY <1>3, <2>1, <2>3 DEF MainBuild, TypeOK
<1>4. CASE MainRespond
  <2>1. told' \in Time
    BY <1>4 DEF MainRespond, TypeOK, Answer, Field
  <2>2. answer' \in Answer
    BY <1>4 DEF MainRespond, Answer, NoAnswer, Time
  <2>3. QED
    BY <1>4, <2>1, <2>2 DEF MainRespond, TypeOK, Go
<1>5. CASE MainJoinBg
  BY <1>5 DEF MainJoinBg, TypeOK, Go
<1>6. CASE MainJoinMotion
  BY <1>6 DEF MainJoinMotion, TypeOK
<1>7. QED
  BY <1>1, <1>2, <1>3, <1>4, <1>5, <1>6 DEF Main

\* The steps of bg_task, ui_task and the signal handler preserve the types.
LEMMA ControlType ==
    TypeOK /\ (Bg \/ SpuriousWakeup \/ Ui \/ SigInt) => TypeOK'
<1> SUFFICES ASSUME TypeOK, Bg \/ SpuriousWakeup \/ Ui \/ SigInt PROVE TypeOK'
  OBVIOUS
<1>1. CASE Bg
  BY <1>1 DEF Bg, BgTest, BgWait, TypeOK, Go
<1>2. CASE SpuriousWakeup
  BY <1>2 DEF SpuriousWakeup, TypeOK, Go
<1>3. CASE UiQuit
  BY <1>3 DEF UiQuit, Wake, TypeOK
<1>4. CASE UiOther
  BY <1>4 DEF UiOther, Wake, TypeOK
<1>5. CASE SigInt
  BY <1>5 DEF SigInt, Wake, TypeOK
<1>6. QED
  BY <1>1, <1>2, <1>3, <1>4, <1>5 DEF Ui

\* The steps of the environment preserve the types.
LEMMA EnvironmentType == TypeOK /\ Environment => TypeOK'
<1> SUFFICES ASSUME TypeOK, Environment PROVE TypeOK'
  OBVIOUS
<1>1. CASE Tick
  BY <1>1 DEF Tick, TypeOK, Time
<1>2. CASE CameraNotifies
  BY <1>2 DEF CameraNotifies, TypeOK
<1>3. CASE ClientAsks
  BY <1>3 DEF ClientAsks, TypeOK
<1>4. CASE ClientLeaves
  BY <1>4 DEF ClientLeaves, TypeOK
<1>5. QED
  BY <1>1, <1>2, <1>3, <1>4 DEF Environment

\* Every step preserves the types.
LEMMA NextTypeOK == TypeOK /\ [Next]_vars => TypeOK'
<1>1. TypeOK /\ UNCHANGED vars => TypeOK'
  BY DEF TypeOK
<1>2. QED
  BY <1>1, MotionType, MainType, ControlType, EnvironmentType DEF Next

\* Every variable keeps its type, and motioncfd is closed before the next
\* connection is accepted (motion_task).
THEOREM Typing == Spec => []TypeOK
BY InitTypeOK, NextTypeOK, PTL DEF Spec

-----------------------------------------------------------------------------
(* Answers *)

\* Only motion_task writes t_local, and it writes the clock.
LEMMA NextPast == IInv /\ [Next]_vars => Past'
<1> SUFFICES ASSUME IInv, [Next]_vars PROVE Past'
  OBVIOUS
<1> USE DEF IInv, Past, TypeOK, Time
<1>1. CASE Motion
  BY <1>1 DEF Motion, MotionPoll, MotionAccept, MotionRead, MotionParse,
              MotionLocal, MotionClose
<1>2. CASE MainRespond
  BY <1>2 DEF MainRespond, Fresh, Go
<1>3. CASE Main /\ ~MainRespond
  BY <1>3 DEF Main, MainPoll, MainRead, MainBuild, MainJoinBg, MainJoinMotion
<1>4. CASE Bg \/ SpuriousWakeup \/ Ui \/ SigInt
  BY <1>4 DEF Bg, BgTest, BgWait, SpuriousWakeup, Ui, UiQuit, UiOther, SigInt
<1>5. CASE Environment
  BY <1>5 DEF Environment, Tick, CameraNotifies, ClientAsks, ClientLeaves
<1>6. CASE UNCHANGED vars
  BY <1>6
<1>7. QED
  BY <1>1, <1>2, <1>3, <1>4, <1>5, <1>6 DEF Next

\* What is read for a field is at most t_local unless it is the clock or the
\* camera's time.
LEMMA BuildFresh == IInv /\ MainBuild => Fresh'
<1> SUFFICES ASSUME IInv, MainBuild PROVE Fresh'
  OBVIOUS
<1>1. PICK f \in Field : /\ MayRead(f)
                         /\ unread' = unread \ {f}
                         /\ answer' = [answer EXCEPT ![f] = Value(f)]
  BY DEF MainBuild
<1>2. pc["main"] = "build" /\ UNCHANGED <<pc, t_local, told>>
  BY DEF MainBuild
<1>3. answer \in [Field -> Time] /\ t_local \in Time /\ told \in Time
  BY DEF IInv, TypeOK, Answer
<1>4. \A g \in Field : answer'[g] = IF g = f THEN Value(f) ELSE answer[g]
  BY <1>1, <1>3
<1>5. "base" \in Field /\ "l" \in Field /\ unread \subseteq Field
  BY DEF IInv, TypeOK, Field
<1>6. t_local <= t_local /\ told <= t_local
  BY <1>3 DEF IInv, Past, Time
<1>7. CASE f = "base"
  <2>1. "l" \in unread
    BY <1>1, <1>2, <1>7 DEF IInv, Fresh, MayRead
  <2>2. answer'["base"] = t_local /\ "l" \in unread'
    BY <2>1, <1>1, <1>4, <1>5, <1>7 DEF Value
  <2>3. QED
    BY <2>2, <1>2, <1>6 DEF Fresh
<1>8. CASE f = "l"
  <2>1. "base" \notin unread
    BY <1>1, <1>8 DEF MayRead
  <2>2. answer'["l"] = t_local /\ answer'["base"] = answer["base"]
    BY <1>4, <1>5, <1>8 DEF Value
  <2>3. "base" \notin unread'
    BY <2>1, <1>1
  <2>4. answer["base"] <= t_local
    BY <2>1, <1>2 DEF IInv, Fresh
  <2>5. QED
    BY <2>2, <2>3, <2>4, <1>2, <1>6 DEF Fresh
<1>9. CASE f \notin {"base", "l"}
  <2>1. answer'["l"] = answer["l"] /\ answer'["base"] = answer["base"]
    BY <1>4, <1>5, <1>9
  <2>2. \A g \in {"base", "l"} : g \in unread' <=> g \in unread
    BY <1>1, <1>9
  <2>3. QED
    BY <2>1, <2>2, <1>2 DEF IInv, Fresh
<1>10. QED
  BY <1>7, <1>8, <1>9

\* A write of t_local only widens the gap to what has been read.
LEMMA MotionFresh == IInv /\ Motion => Fresh'
<1> SUFFICES ASSUME IInv, Motion PROVE Fresh'
  OBVIOUS
<1>1. UNCHANGED <<unread, answer, told>> /\ pc'["main"] = pc["main"]
  BY DEF Motion, MotionPoll, MotionAccept, MotionRead, MotionParse,
         MotionLocal, MotionClose, Go, IInv, TypeOK
<1>2. t_local <= t_local'
  BY DEF Motion, MotionPoll, MotionAccept, MotionRead, MotionParse,
         MotionLocal, MotionClose, IInv, TypeOK, Past, Time
<1>3. {t_local, t_local', answer["base"], answer["l"]} \subseteq Int
  <2>1. TypeOK'
    BY MotionType DEF IInv
  <2>2. QED
    BY <2>1 DEF IInv, TypeOK, Time, Answer, Field
<1>4. QED
  BY <1>1, <1>2, <1>3 DEF IInv, Fresh

\* The invariant is inductive.
LEMMA NextIInv == IInv /\ [Next]_vars => IInv'
<1> SUFFICES ASSUME IInv, [Next]_vars PROVE Fresh'
  BY NextTypeOK, NextPast DEF IInv
<1>1. CASE Motion
  BY <1>1, MotionFresh
<1>2. CASE MainBuild
  BY <1>2, BuildFresh
<1>3. CASE MainRead
  <2>1. CASE request = "get"
    BY <1>3, <2>1 DEF MainRead, Fresh, Field, Go
  <2>2. CASE request # "get"
    BY <1>3, <2>2 DEF MainRead, Fresh, Go, IInv, TypeOK
  <2>3. QED
    BY <2>1, <2>2
<1>4. CASE Main /\ ~MainBuild /\ ~MainRead
  <2>1. pc'["main"] # "build"
    BY <1>4 DEF Main, MainPoll, MainRespond, MainJoinBg, MainJoinMotion, Go,
                IInv, TypeOK
  <2>2. QED
    BY <2>1 DEF Fresh
<1>5. CASE Bg \/ SpuriousWakeup \/ Ui \/ SigInt
  <2>1. UNCHANGED <<unread, answer, told, t_local>>
    BY <1>5 DEF Bg, BgTest, BgWait, SpuriousWakeup, Ui, UiQuit, UiOther, SigInt
  <2>2. pc'["main"] = pc["main"]
    BY <1>5 DEF Bg, BgTest, BgWait, SpuriousWakeup, Ui, UiQuit, UiOther,
                SigInt, Go, Wake, IInv, TypeOK
  <2>3. QED
    BY <2>1, <2>2 DEF IInv, Fresh
<1>6. CASE Environment
  BY <1>6 DEF Environment, Tick, CameraNotifies, ClientAsks, ClientLeaves, IInv,
              Fresh
<1>7. CASE UNCHANGED vars
  BY <1>7 DEF IInv, Fresh
<1>8. QED
  BY <1>1, <1>2, <1>3, <1>4, <1>5, <1>6, <1>7 DEF Next

\* The invariant holds in every reachable state.
THEOREM Inductive == Spec => []IInv
<1>1. Init => IInv
  BY InitTypeOK DEF Init, IInv, Past, Fresh
<1>2. QED
  BY <1>1, NextIInv, PTL DEF Spec

\* The age and the local time of an answer (serve_client) name events in this
\* order, whatever motion_task writes while they are read.
THEOREM Age == Spec => []AgeFirst
<1>1. IInv => AgeFirst
  BY DEF IInv, Fresh, AgeFirst, Complete
<1>2. QED
  BY <1>1, Inductive, PTL

\* No answer tells of an earlier event than the one before it, although no
\* lock protects t_local.
THEOREM Advance == Spec => AnswersAdvance
<1>1. IInv /\ [Next]_vars => [told' >= told]_told
  <2> SUFFICES ASSUME IInv, [Next]_vars PROVE told' >= told \/ told' = told
    OBVIOUS
  <2>1. CASE MainRespond
    <3>1. pc["main"] = "build" /\ unread = {} /\ told' = answer["l"]
      BY <2>1 DEF MainRespond
    <3>2. told <= answer["l"]
      BY <3>1 DEF IInv, Fresh
    <3>3. told \in Int /\ answer["l"] \in Int
      BY DEF IInv, TypeOK, Answer, Field, Time
    <3>4. QED
      BY <3>1, <3>2, <3>3
  <2>2. CASE ~MainRespond
    BY <2>2 DEF Next, Motion, MotionPoll, MotionAccept, MotionRead, MotionParse,
       MotionLocal, MotionClose, Main, MainPoll, MainRead, MainBuild,
       MainJoinBg, MainJoinMotion, Bg, BgTest, BgWait, SpuriousWakeup, Ui,
       UiQuit, UiOther, SigInt, Environment, Tick, CameraNotifies, ClientAsks,
       ClientLeaves
  <2>3. QED
    BY <2>1, <2>2
<1>2. QED
  BY <1>1, Inductive, PTL DEF Spec, AnswersAdvance
=============================================================================
