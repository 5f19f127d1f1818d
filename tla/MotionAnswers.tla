---------------------------- MODULE MotionAnswers ----------------------------
(***************************************************************************)
(* How MotionDataReceiver understands the answers "age:local:remote" of a  *)
(* motion server.  The positions in MotionPack do not fit the answer: the  *)
(* client reads HEAD_SIZE bytes of a header of RealHead, looks for the     *)
(* times from Scan on, past the first characters of the age, and leaves    *)
(* the last bytes of the answer unread; and its buffer is never cleared.   *)
(***************************************************************************)
EXTENDS Integers, FiniteSets

CONSTANT MaxAgeDigits    \* bound: digits of an age that is told

HeadRead == 58     \* MotionPack.HEAD_SIZE
RealHead == 60     \* bytes before the times in an answer with two-digit length
Scan == 64         \* where getTimes begins
Last == 99         \* the last index of the buffer
TimeDigits == 10   \* of a time in seconds, and of the age while there is none
IntDigits == 10    \* more do not fit into an int

(* What a byte is as far as the parser is concerned. *)
Bytes == {"digit", "zero", "colon", "nul"}

(* Digits of an age that is told: up to 9 s, 99 s, ... since the event. *)
AgeDigits == 1 .. MaxAgeDigits

VARIABLES
    text,        \* the buffer from HeadRead on
    alive,       \* MotionDataReceiver has not ended with an exception
    detected,    \* what it told the client monitor last
    age,         \* digits of the age told last, 0 without event
    longest,     \* history: the largest age so far
    again        \* history: the motion server was started again

answerVars == <<text, alive, detected, age, longest, again>>

TypeOK ==
    /\ text \in [HeadRead .. Last -> Bytes]
    /\ alive \in BOOLEAN /\ detected \in BOOLEAN
    /\ age \in {0} \cup AgeDigits
    /\ longest \in {0} \cup AgeDigits
    /\ again \in BOOLEAN
    /\ detected => \E i \in Scan .. Last : text[i] = "digit"

Init ==
    /\ text = [i \in HeadRead .. Last |-> "nul"]
    /\ alive = TRUE /\ detected = FALSE
    /\ age = 0 /\ longest = 0 /\ again = FALSE

-----------------------------------------------------------------------------
(* The answer of the motion server, as the byte at each position *)

(* With an event: an age of d digits and two times. *)
EventAnswer(d) ==
    LET local == RealHead + d + 1
        remote == local + TimeDigits + 1
    IN  [i \in RealHead .. remote + TimeDigits - 1 |->
            IF i \in {local - 1, remote - 1} THEN "colon" ELSE "digit"]

(* Without: the time since 1970 as the age, and two zeros. *)
NoAnswer ==
    [i \in RealHead .. RealHead + TimeDigits + 3 |->
        IF i - RealHead \in {TimeDigits, TimeDigits + 2} THEN "colon"
        ELSE IF i - RealHead > TimeDigits THEN "zero" ELSE "digit"]

Answer(d) == IF d = 0 THEN NoAnswer ELSE EventAnswer(d)

(* getTimeSize is the length of the times; that many bytes are read from   *)
(* HeadRead on, so that the last ones of the answer stay in the stream.    *)
AfterRead(d) ==
    LET end == HeadRead + Cardinality(DOMAIN Answer(d)) - 1
    IN  [i \in HeadRead .. Last |->
            IF i \in DOMAIN Answer(d) /\ i <= end THEN Answer(d)[i]
            ELSE IF i < RealHead THEN "nul" ELSE text[i]]

-----------------------------------------------------------------------------
(* getTimes: the tokens between colons, of the bytes from Scan on *)

Colons(t) == {i \in Scan .. Last : t[i] = "colon"}

(* Where the n-th token, counted from 0, is; empty tokens do not count. *)
Tokens(t) ==
    {tok \in (Scan .. Last) \X (Scan .. Last) :
        /\ tok[1] <= tok[2]
        /\ \A i \in tok[1] .. tok[2] : t[i] # "colon"
        /\ tok[1] = Scan \/ t[tok[1] - 1] = "colon"
        /\ tok[2] = Last \/ t[tok[2] + 1] = "colon"}

(* Its characters after trim(). *)
Trimmed(t, tok) == {i \in tok[1] .. tok[2] : t[i] # "nul"}

(* Broken variant: there is room for two times only. *)
ParsesTwo(t) ==
    /\ Cardinality(Tokens(t)) <= 2
    /\ \A tok \in Tokens(t) : Cardinality(Trimmed(t, tok)) \in 1 .. IntDigits

(* parseInt accepts what has a character and fits. *)
Parses(t) ==
    /\ Cardinality(Tokens(t)) <= 3
    /\ \A tok \in Tokens(t) : Cardinality(Trimmed(t, tok)) \in 1 .. IntDigits

(* times[1], and whether it is more than 0. *)
Local(t) == {tok \in Tokens(t) :
                Cardinality({o \in Tokens(t) : o[1] < tok[1]}) = 1}

(* Broken variant: a time of 0 counts as one of an event. *)
PositiveOrZero(t) ==
    \E tok \in Local(t) : \E i \in Trimmed(t, tok) : t[i] \in {"digit", "zero"}

Positive(t) == \E tok \in Local(t) : \E i \in Trimmed(t, tok) : t[i] = "digit"

-----------------------------------------------------------------------------
(* An answer is read and parsed; an exception ends the thread. *)

Receive(d) ==
    /\ alive
    /\ text' = AfterRead(d)
    /\ alive' = Parses(text')
    /\ detected' = IF alive' THEN Positive(text') ELSE detected
    /\ age' = d
    /\ longest' = IF d > longest THEN d ELSE longest
    /\ again' = (again \/ (d = 0 /\ age # 0))    \* it forgets when it ends

Next == \E d \in {0} \cup AgeDigits : Receive(d)

Spec == Init /\ [][Next]_answerVars

-----------------------------------------------------------------------------
(* Whatever is cut off and skipped, motion is reported as it was told as   *)
(* long as the motion server is not started again.                         *)
MotionAsTold == alive /\ ~again => (detected <=> age # 0)

(* Only the digits of an earlier answer can end the thread: an age at      *)
(* least three digits shorter than one before it, as a new event makes it  *)
(* after a quiet time, leaves a number with too many digits in the buffer. *)
DiesOfOldDigits == ~alive /\ ~again => longest >= age + 3
===============================================================================
