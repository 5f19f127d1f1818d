------------------------------ MODULE Transport ------------------------------
(***************************************************************************)
(* The two ways data reaches the client: picture packets, which TCP may    *)
(* cut in pieces, and answers of a motion server, which are short and come *)
(* in one.  A behaviour follows one of them, for they share nothing.       *)
(***************************************************************************)
EXTENDS PicturePackets

CONSTANT MaxAgeDigits    \* bound: digits of an age that is told
(* An age of ten digits would be one of more than 30 years.                *)
ASSUME AgeAssumption == MaxAgeDigits \in 1 .. 9

VARIABLES
    part,        \* the way that is followed
    text, alive, detected, age, longest, again

Answers == INSTANCE MotionAnswers

answerVars == <<text, alive, detected, age, longest, again>>
transportVars == <<part, packetVars, answerVars>>

TransportInit == part \in {"pictures", "answers"} /\ Init /\ Answers!Init

Picture == part = "pictures" /\ Next /\ UNCHANGED <<part, answerVars>>
Motion == part = "answers" /\ Answers!Next /\ UNCHANGED <<part, packetVars>>

TransportSpec ==
    /\ TransportInit /\ [][Picture \/ Motion]_transportVars
    /\ WF_transportVars(Picture /\ SendStep) /\ WF_transportVars(Picture /\ ReadStep)

-----------------------------------------------------------------------------
(* A picture packet sent with its header in one piece is received: neither *)
(* partial sends nor partial reads make PictureReciever wait for more.     *)
PictureReceived == part = "pictures" => Received

(* Neither reader leaves its buffer, and times are where they are sought. *)
TransportTypeOK == TypeOK /\ Answers!TypeOK

(* Motion is reported as the motion server told it.  MotionAnswers says    *)
(* more of both.                                                           *)
MotionAsTold == Answers!MotionAsTold
DiesOfOldDigits == Answers!DiesOfOldDigits
===============================================================================
