---------------------------- MODULE PicturePackets ----------------------------
(***************************************************************************)
(* The way of one picture packet: write_n of the camera server hands it to *)
(* a TCP connection in as many sends as it takes, and PictureReciever puts *)
(* it together again from as many reads.  A byte is its position in the    *)
(* packet: 1 is the first of the header, the last bytes of the header are  *)
(* the length of the picture.                                              *)
(***************************************************************************)
EXTENDS Integers, Sequences

CONSTANTS
    HeadSize,    \* PicturePack.HEAD_SIZE
    LenSize,     \* bytes of the length field, the last of the header
    LenMod,      \* what these bytes can count to
    BufSize,     \* BUFSIZE of the server, MAXIMUM_PICTURE_SIZE of the client
    MaxFrame     \* bound: the size of a frame

ASSUME HeadAssumption == /\ HeadSize \in Nat /\ LenSize \in 1 .. HeadSize
                         /\ BufSize \in Nat /\ LenMod \in Nat /\ MaxFrame \in Nat
(* A frame fits into the buffer of the server and of the client, and       *)
(* therefore two bytes can announce its size.                              *)
ASSUME FrameFits == HeadSize + MaxFrame <= BufSize /\ BufSize < LenMod

VARIABLES
    size,       \* bytes of the frame
    written,    \* write_n: written
    stream,     \* the bytes in the connection
    buffer,     \* PictureReciever.buffer; 0 is the byte it is filled with
    reading,    \* the loop PictureReciever is in: head, body, or done, shut
    offset,     \* where the next read begins: n, currentPosition
    left,       \* size: bytes still to be read in this loop
    firstSend,  \* history: the length of the first send
    pieces      \* history: reads the header took

packetVars == <<size, written, stream, buffer, reading, offset, left,
                firstSend, pieces>>

PacketSize == HeadSize + size
LenField == (HeadSize - LenSize + 1) .. HeadSize

TypeOK ==
    /\ size \in 0 .. MaxFrame
    /\ written \in 0 .. PacketSize
    /\ stream \in Seq(1 .. PacketSize)
    /\ buffer \in [1 .. BufSize -> 0 .. PacketSize]
    /\ reading \in {"head", "body", "done", "shut"}
    /\ offset \in 0 .. BufSize
    /\ left \in 0 .. LenMod - 1
    /\ reading = "head" => offset + left <= HeadSize
    /\ reading = "body" => offset + left <= BufSize
    /\ firstSend \in 0 .. PacketSize
    /\ pieces \in 0 .. HeadSize

Init ==
    /\ size \in 0 .. MaxFrame
    /\ written = 0 /\ stream = <<>>
    /\ buffer = [i \in 1 .. BufSize |-> 0]
    /\ reading = "head" /\ offset = 0 /\ left = HeadSize
    /\ firstSend = 0 /\ pieces = 0

-----------------------------------------------------------------------------
(* write_n *)

(* Broken variant: every send is asked to take the whole packet. *)
SendWhole(k) ==
    /\ written < PacketSize
    /\ k <= PacketSize
    /\ stream' = stream \o [i \in 1 .. k |-> i]
    /\ written' = IF written + k > PacketSize THEN PacketSize ELSE written + k
    /\ firstSend' = IF written = 0 THEN k ELSE firstSend
    /\ UNCHANGED <<size, buffer, reading, offset, left, pieces>>

(* send takes k bytes, always from the beginning of buf. *)
Send(k) ==
    /\ written < PacketSize
    /\ k <= PacketSize - written
    /\ stream' = stream \o [i \in 1 .. k |-> i]
    /\ written' = written + k
    /\ firstSend' = IF written = 0 THEN k ELSE firstSend
    /\ UNCHANGED <<size, buffer, reading, offset, left, pieces>>

-----------------------------------------------------------------------------
(* PictureReciever *)

(* read puts the next k bytes at the offset; how many is for TCP to say. *)
Receive(k) ==
    /\ k <= left /\ k <= Len(stream)
    /\ buffer' = [i \in 1 .. BufSize |->
                     IF i \in offset + 1 .. offset + k THEN stream[i - offset]
                     ELSE buffer[i]]
    /\ stream' = SubSeq(stream, k + 1, Len(stream))
    /\ left' = left - k

(* The loop for the header: the length of a read is the next offset. *)
ReadHead(k) ==
    /\ reading = "head" /\ left > 0
    /\ Receive(k)
    /\ offset' = IF left' = 0 THEN 0 ELSE k
    /\ pieces' = pieces + 1
    /\ UNCHANGED <<size, written, reading, firstSend>>

(* The length that is read: the size sent if its bytes are where they      *)
(* belong, and else whatever other bytes say.                              *)
Announced ==
    IF \A i \in LenField : buffer[i] = i THEN {size % LenMod} ELSE 0 .. LenMod - 1

(* Broken variant: any size is believed. *)
HeadReadUnchecked ==
    /\ reading = "head" /\ left = 0
    /\ \E n \in Announced : reading' = "body" /\ left' = n /\ offset' = HeadSize
    /\ UNCHANGED <<size, written, stream, buffer, firstSend, pieces>>

(* getPictureSize, and read with a range outside of the buffer, which ends *)
(* the link.                                                               *)
HeadRead ==
    /\ reading = "head" /\ left = 0
    /\ \E n \in Announced :
          IF HeadSize + n <= BufSize
          THEN reading' = "body" /\ left' = n /\ offset' = HeadSize
          ELSE reading' = "shut" /\ UNCHANGED <<left, offset>>
    /\ UNCHANGED <<size, written, stream, buffer, firstSend, pieces>>

(* Broken variant: the offset is that of the header's loop. *)
ReadBodyHeadwise(k) ==
    /\ reading = "body" /\ left > 0
    /\ Receive(k)
    /\ offset' = IF left' = 0 THEN 0 ELSE k
    /\ UNCHANGED <<size, written, reading, firstSend, pieces>>

ReadBody(k) ==
    /\ reading = "body" /\ left > 0
    /\ Receive(k)
    /\ offset' = offset + k
    /\ UNCHANGED <<size, written, reading, firstSend, pieces>>

(* Broken variant: a picture that does not come in one read is given up. *)
PictureReadWhole ==
    /\ reading = "body" /\ left = 0
    /\ buffer[PacketSize] = PacketSize /\ pieces = 1
    /\ reading' = "done"
    /\ UNCHANGED <<size, written, stream, buffer, offset, left, firstSend, pieces>>

(* The picture is put into the client monitor. *)
PictureRead ==
    /\ reading = "body" /\ left = 0
    /\ reading' = "done"
    /\ UNCHANGED <<size, written, stream, buffer, offset, left, firstSend, pieces>>

-----------------------------------------------------------------------------
SendStep == \E k \in 1 .. HeadSize + MaxFrame : Send(k)
ReadStep == \/ \E k \in 1 .. BufSize : ReadHead(k) \/ ReadBody(k)
            \/ HeadRead \/ PictureRead

Next == SendStep \/ ReadStep

Spec == Init /\ [][Next]_packetVars

-----------------------------------------------------------------------------
(* The header is put together right when it comes in two reads at most. *)
HeadWhole == firstSend >= HeadSize /\ pieces <= 2

(* A picture sent in one piece arrives as it was sent, in however many     *)
(* reads, if its header took no more than two.                             *)
Intact ==
    reading = "done" /\ HeadWhole /\ firstSend = PacketSize
        => \A i \in 1 .. PacketSize : buffer[i] = i

(* Sends of parts repeat the beginning of the packet and spoil the picture *)
(* but not the borders between packets: as long as the header is whole the *)
(* reader takes what one packet has, neither less nor more.                *)
Framed ==
    reading = "done" /\ HeadWhole => written = PacketSize /\ stream = <<>>

(* A packet with a whole header is received. *)
Received ==
    <>[](firstSend >= HeadSize) /\ [](pieces <= 2) => <>(reading = "done")
===============================================================================
