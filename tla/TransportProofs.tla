--------------------------- MODULE TransportProofs ---------------------------
(***************************************************************************)
(* Which picture packets survive partial sends and partial reads, for      *)
(* headers, buffers and frames of every size that FrameFits allows, and    *)
(* when the client understands the answers of a motion server, for ages of *)
(* up to nine digits.                                                      *)
(***************************************************************************)
EXTENDS Transport, FiniteSetTheorems, TLAPS

\* What the assumptions say of the sizes.
LEMMA Sizes ==
    /\ HeadSize \in Nat /\ 1 <= HeadSize /\ LenSize \in Nat /\ 1 <= LenSize
    /\ LenSize <= HeadSize /\ BufSize \in Nat /\ LenMod \in Nat /\ MaxFrame \in Nat
    /\ HeadSize + MaxFrame <= BufSize /\ BufSize < LenMod
BY HeadAssumption, FrameFits

\* What the types say of the numbers.
LEMMA Numbers ==
    ASSUME TypeOK
    PROVE  /\ size \in Nat /\ size <= MaxFrame /\ written \in Nat /\ offset \in Nat
           /\ left \in Nat /\ firstSend \in Nat /\ pieces \in Nat
           /\ PacketSize \in Nat /\ HeadSize <= PacketSize /\ PacketSize <= BufSize
           /\ stream \in Seq(1 .. PacketSize) /\ Len(stream) \in Nat
<1>1. size \in Nat /\ size <= MaxFrame
  BY Sizes DEF TypeOK
<1>2. PacketSize \in Nat /\ HeadSize <= PacketSize /\ PacketSize <= BufSize
  BY <1>1, Sizes DEF PacketSize
<1>3. stream \in Seq(1 .. PacketSize) /\ Len(stream) \in Nat
  BY DEF TypeOK
<1>4. QED
  BY <1>1, <1>2, <1>3, Sizes DEF TypeOK

-----------------------------------------------------------------------------
(* The inductive invariant *)

\* Bytes of the connection that were read; after HeadRead the offset tells.
Consumed == IF reading = "head" THEN HeadSize - left ELSE offset

\* write_n counts what it sent, and every read of the header takes a byte.
Counts ==
    /\ firstSend <= written
    /\ firstSend = 0 => written = 0
    /\ written = 0 => reading # "shut"
    /\ reading = "head" => pieces + left <= HeadSize
    /\ reading \in {"body", "done"} => offset >= HeadSize
    /\ reading # "shut" => Len(stream) + Consumed = written

\* The bytes of the first send, the only ones that are surely in place, are
\* still in order where they are not read yet.
InStream ==
    reading # "shut" =>
        \A i \in 1 .. Len(stream) : Consumed + i <= firstSend => stream[i] = Consumed + i

\* The first read of the header begins at its beginning, the second where the
\* first has ended.
TwoReads ==
    reading = "head" /\ left > 0 =>
        /\ pieces = 0 => offset = 0 /\ left = HeadSize
        /\ pieces = 1 => offset = HeadSize - left

\* Those that were read are in their place when the header took no more.
InBuffer ==
    pieces <= 2 /\ reading # "shut" =>
        \A i \in 1 .. Consumed : i <= firstSend => buffer[i] = i

\* Then the length is the right one, and the reader takes one packet.
OnePacket ==
    HeadWhole => /\ reading # "shut"
                 /\ reading \in {"body", "done"} => offset + left = PacketSize
                 /\ reading = "done" => left = 0

IInv == TypeOK /\ Counts /\ InStream /\ TwoReads /\ InBuffer /\ OnePacket

-----------------------------------------------------------------------------
(* Sending *)

\* What k bytes of the beginning of the packet do to the connection.
LEMMA Appended ==
    ASSUME NEW S, NEW s \in Seq(S), NEW k \in Nat, 1 .. k \subseteq S
    PROVE  LET t == s \o [i \in 1 .. k |-> i]
           IN  /\ t \in Seq(S) /\ Len(t) = Len(s) + k
               /\ \A i \in 1 .. Len(s) : t[i] = s[i]
               /\ \A i \in 1 .. k : t[Len(s) + i] = i
<1> DEFINE b == [i \in 1 .. k |-> i]
<1>1. b \in Seq(S) /\ Len(b) = k /\ \A i \in 1 .. k : b[i] = i
  OBVIOUS
<1> HIDE DEF b
<1>2. /\ s \o b \in Seq(S) /\ Len(s \o b) = Len(s) + k
      /\ \A i \in 1 .. Len(s) : (s \o b)[i] = s[i]
      /\ \A i \in 1 .. k : (s \o b)[Len(s) + i] = i
  BY <1>1
<1>3. QED
  BY <1>2 DEF b

\* A send preserves the invariant: the first one fills an empty connection,
\* the others come after its bytes.
LEMMA SendInv == IInv /\ SendStep => IInv'
<1> SUFFICES ASSUME IInv, NEW k \in 1 .. HeadSize + MaxFrame, Send(k) PROVE IInv'
  BY DEF SendStep
<1> USE DEF IInv
<1>1. k \in Nat /\ k > 0 /\ size \in Nat /\ written \in Nat /\ firstSend \in Nat
      /\ PacketSize \in Nat /\ size <= MaxFrame
  BY Numbers, Sizes
<1>2. /\ written < PacketSize /\ k <= PacketSize - written
      /\ written' = written + k
      /\ firstSend' = IF written = 0 THEN k ELSE firstSend
      /\ size' = size /\ buffer' = buffer /\ reading' = reading /\ offset' = offset
      /\ left' = left /\ pieces' = pieces
  BY DEF Send
<1>3. PacketSize' = PacketSize /\ PacketSize \in Nat /\ Consumed' = Consumed
  BY <1>1, <1>2 DEF PacketSize, Consumed
<1>4. stream \in Seq(1 .. PacketSize) /\ 1 .. k \subseteq 1 .. PacketSize
  BY <1>1, <1>2, <1>3 DEF TypeOK
<1>5. /\ stream' \in Seq(1 .. PacketSize) /\ Len(stream') = Len(stream) + k
      /\ \A i \in 1 .. Len(stream) : stream'[i] = stream[i]
      /\ \A i \in 1 .. k : stream'[Len(stream) + i] = i
  BY <1>1, <1>4, Appended DEF Send
<1>6. Len(stream) \in Nat
  BY <1>4
<1>7. TypeOK'
  BY <1>1, <1>2, <1>3, <1>5 DEF TypeOK
<1>8. Consumed \in Nat
  BY Numbers, Sizes DEF Consumed, TypeOK
<1>9. Counts'
  <2>1. firstSend' <= written' /\ firstSend' # 0
    BY <1>1, <1>2 DEF Counts
  <2>2. written' # 0
    BY <1>1, <1>2
  <2>3. reading' # "shut" => Len(stream') + Consumed' = written'
    <3>1. reading # "shut" => Len(stream) + Consumed = written
      BY DEF Counts
    <3>2. QED
      BY <1>1, <1>2, <1>3, <1>5, <1>6, <1>8, <3>1
  <2>4. /\ reading' = "head" => pieces' + left' <= HeadSize
        /\ reading' \in {"body", "done"} => offset' >= HeadSize
    BY <1>2 DEF Counts
  <2>5. QED
    BY <2>1, <2>2, <2>3, <2>4 DEF Counts
<1>10. CASE written = 0
  <2>1. reading # "shut" => Len(stream) = 0 /\ Consumed = 0
    <3>1. reading # "shut" => Len(stream) + Consumed = written
      BY DEF Counts
    <3>2. QED
      BY <1>6, <1>8, <1>10, <3>1
  <2>2. InStream'
    BY <1>1, <1>2, <1>3, <1>5, <2>1 DEF InStream
  <2>3. InBuffer'
    BY <1>2, <1>3, <2>1 DEF InBuffer
  <2>4. TwoReads'
    BY <1>2 DEF TwoReads
  <2>5. reading = "head"
    <3>1. reading \in {"head", "body", "done", "shut"} /\ reading # "shut"
      BY <1>10 DEF TypeOK, Counts
    <3>2. ASSUME reading \in {"body", "done"} PROVE FALSE
      <4>1. Consumed = offset /\ offset >= HeadSize
        BY <3>2 DEF Consumed, Counts
      <4>2. QED
        BY <2>1, <3>1, <4>1, Sizes, Numbers
    <3>3. QED
      BY <3>1, <3>2
  <2>6. QED
    BY <1>2, <1>3, <1>7, <1>9, <2>2, <2>3, <2>4, <2>5 DEF OnePacket
<1>11. CASE written # 0
  <2>1. firstSend' = firstSend
    BY <1>2, <1>11
  <2>2. InStream'
    <3> SUFFICES ASSUME reading # "shut", NEW i \in 1 .. Len(stream) + k,
                        Consumed + i <= firstSend
                 PROVE  stream'[i] = Consumed + i
      BY <1>2, <1>3, <1>5, <2>1 DEF InStream
    <3>1. i <= Len(stream)
      BY <1>1, <1>6, <1>8 DEF Counts
    <3>2. QED
      BY <1>5, <1>6, <3>1 DEF InStream
  <2>3. InBuffer' /\ TwoReads' /\ OnePacket'
    BY <1>2, <1>3, <2>1 DEF InBuffer, TwoReads, OnePacket, HeadWhole
  <2>4. QED
    BY <1>7, <1>9, <2>2, <2>3
<1>12. QED
  BY <1>10, <1>11

-----------------------------------------------------------------------------
(* Reading *)

\* What is left of a connection when k bytes are taken from it.
LEMMA Dropped ==
    ASSUME NEW S, NEW s \in Seq(S), NEW k \in Nat, k <= Len(s)
    PROVE  /\ SubSeq(s, k + 1, Len(s)) \in Seq(S)
           /\ Len(SubSeq(s, k + 1, Len(s))) = Len(s) - k
           /\ \A i \in 1 .. Len(s) - k : SubSeq(s, k + 1, Len(s))[i] = s[i + k]
           /\ \A i \in 1 .. k : s[i] \in S
OBVIOUS

\* What a read of k bytes does: the first bytes of the connection go to the
\* buffer, where they stand in order, and the others stay where they were.
LEMMA ReceiveFacts ==
    ASSUME IInv, NEW k \in 1 .. BufSize, Receive(k), offset + left <= BufSize
    PROVE  /\ stream' \in Seq(1 .. PacketSize) /\ Len(stream') = Len(stream) - k
           /\ \A i \in 1 .. Len(stream) - k : stream'[i] = stream[i + k]
           /\ buffer' \in [1 .. BufSize -> 0 .. PacketSize]
           /\ \A i \in 1 .. k : buffer'[offset + i] = stream[i]
           /\ \A i \in 1 .. offset : buffer'[i] = buffer[i]
           /\ left' = left - k /\ left' \in Nat
<1> USE DEF IInv, TypeOK
<1>1. /\ k \in Nat /\ k > 0 /\ offset \in Nat /\ left \in Nat /\ k <= left
      /\ stream \in Seq(1 .. PacketSize) /\ Len(stream) \in Nat /\ k <= Len(stream)
      /\ BufSize \in Int
  BY Numbers, Sizes DEF Receive
<1>2. /\ SubSeq(stream, k + 1, Len(stream)) \in Seq(1 .. PacketSize)
      /\ Len(SubSeq(stream, k + 1, Len(stream))) = Len(stream) - k
      /\ \A i \in 1 .. Len(stream) - k :
            SubSeq(stream, k + 1, Len(stream))[i] = stream[i + k]
      /\ \A i \in 1 .. k : stream[i] \in 1 .. PacketSize
  BY <1>1, Dropped
<1>3. stream' = SubSeq(stream, k + 1, Len(stream)) /\ left' = left - k
  BY DEF Receive
<1>4. buffer' = [i \in 1 .. BufSize |->
                    IF i \in offset + 1 .. offset + k THEN stream[i - offset]
                    ELSE buffer[i]]
  BY DEF Receive
<1>5. \A i \in 1 .. k : stream[i] \in 1 .. PacketSize
  BY <1>2
<1>6. buffer' \in [1 .. BufSize -> 0 .. PacketSize]
  <2> SUFFICES ASSUME NEW i \in 1 .. BufSize
               PROVE  (IF i \in offset + 1 .. offset + k THEN stream[i - offset]
                       ELSE buffer[i]) \in 0 .. PacketSize
    BY <1>4
  <2>1. CASE i \in offset + 1 .. offset + k
    <3>1. i - offset \in 1 .. k
      BY <1>1, <2>1
    <3>2. stream[i - offset] \in 1 .. PacketSize
      BY <1>5, <3>1
    <3>3. QED
      BY <2>1, <3>2
  <2>2. CASE i \notin offset + 1 .. offset + k
    BY <2>2
  <2>3. QED
    BY <2>1, <2>2
<1>7. \A i \in 1 .. k : offset + i \in 1 .. BufSize /\ offset + i \in offset + 1 .. offset + k
  BY <1>1
<1>8. \A i \in 1 .. k : buffer'[offset + i] = stream[i]
  <2> SUFFICES ASSUME NEW i \in 1 .. k PROVE buffer'[offset + i] = stream[i]
    OBVIOUS
  <2>1. (offset + i) - offset = i
    BY <1>1
  <2>2. QED
    BY <1>4, <1>7, <2>1
<1>9. \A i \in 1 .. offset : buffer'[i] = buffer[i]
  BY <1>1, <1>4
<1>10. /\ stream' \in Seq(1 .. PacketSize) /\ Len(stream') = Len(stream) - k
       /\ \A i \in 1 .. Len(stream) - k : stream'[i] = stream[i + k]
  BY <1>2, <1>3
<1>11. left' \in Nat
  BY <1>1, <1>3
<1>12. QED
  BY <1>3, <1>6, <1>8, <1>9, <1>10, <1>11

\* A read of the header preserves the invariant.
LEMMA HeadInv == ASSUME NEW k \in 1 .. BufSize PROVE IInv /\ ReadHead(k) => IInv'
<1> SUFFICES ASSUME IInv, ReadHead(k) PROVE IInv'
  OBVIOUS
<1> USE DEF IInv
<1>1. /\ reading = "head" /\ reading' = "head" /\ left > 0
      /\ size' = size /\ written' = written /\ firstSend' = firstSend
      /\ offset' = (IF left' = 0 THEN 0 ELSE k) /\ pieces' = pieces + 1
      /\ Receive(k)
  BY DEF ReadHead
<1>2. /\ k \in Nat /\ k > 0 /\ offset \in Nat /\ left \in Nat /\ pieces \in Nat
      /\ offset + left <= HeadSize /\ HeadSize \in Nat /\ HeadSize <= BufSize
      /\ BufSize \in Nat /\ LenMod \in Nat /\ HeadSize < LenMod
      /\ Len(stream) \in Nat /\ firstSend \in Nat /\ pieces + left <= HeadSize
  <2>1. offset + left <= HeadSize /\ pieces + left <= HeadSize
    BY <1>1 DEF TypeOK, Counts
  <2>2. k \in Nat /\ k > 0
    BY Sizes
  <2>3. QED
    BY <2>1, <2>2, Numbers, Sizes
<1>3. PacketSize' = PacketSize
  BY <1>1 DEF PacketSize
<1>4. /\ stream' \in Seq(1 .. PacketSize) /\ Len(stream') = Len(stream) - k
      /\ \A i \in 1 .. Len(stream) - k : stream'[i] = stream[i + k]
      /\ buffer' \in [1 .. BufSize -> 0 .. PacketSize]
      /\ \A i \in 1 .. k : buffer'[offset + i] = stream[i]
      /\ \A i \in 1 .. offset : buffer'[i] = buffer[i]
      /\ left' = left - k /\ left' \in Nat
  BY <1>1, <1>2, ReceiveFacts
<1>5. Consumed = HeadSize - left /\ Consumed' = Consumed + k /\ Consumed \in Nat
  BY <1>1, <1>2, <1>4 DEF Consumed
<1>6. TypeOK'
  BY <1>1, <1>2, <1>3, <1>4 DEF TypeOK
<1>7. Counts'
  <2>1. Len(stream') + Consumed' = written
    BY <1>1, <1>2, <1>4, <1>5 DEF Counts
  <2>2. pieces' + left' <= HeadSize
    BY <1>1, <1>2, <1>4
  <2>3. QED
    BY <1>1, <2>1, <2>2 DEF Counts
<1>8. InStream'
  <2> SUFFICES ASSUME NEW i \in 1 .. Len(stream) - k, Consumed + k + i <= firstSend
               PROVE  stream'[i] = Consumed + k + i
    BY <1>1, <1>4, <1>5 DEF InStream
  <2>1. i + k \in 1 .. Len(stream) /\ Consumed + (i + k) <= firstSend
    BY <1>2, <1>5
  <2>2. stream[i + k] = Consumed + (i + k)
    BY <1>1, <2>1 DEF InStream
  <2>3. QED
    BY <1>2, <1>4, <1>5, <2>2
<1>9. TwoReads'
  <2>1. ASSUME pieces' = 1, left' > 0 PROVE offset' = HeadSize - left'
    <3>1. left = HeadSize
      BY <1>1, <1>2, <2>1 DEF TwoReads
    <3>2. QED
      BY <1>1, <1>2, <1>4, <2>1, <3>1
  <2>2. pieces' # 0
    BY <1>1, <1>2
  <2>3. QED
    BY <1>1, <2>1, <2>2 DEF TwoReads
<1>10. InBuffer'
  <2> SUFFICES ASSUME pieces + 1 <= 2, NEW i \in 1 .. Consumed + k, i <= firstSend
               PROVE  buffer'[i] = i
    BY <1>1, <1>5 DEF InBuffer
  <2>1. offset = Consumed
    <3>1. CASE pieces = 0
      BY <1>1, <1>2, <1>5, <3>1 DEF TwoReads
    <3>2. CASE pieces = 1
      BY <1>1, <1>2, <1>5, <3>2 DEF TwoReads
    <3>3. QED
      BY <1>2, <3>1, <3>2
  <2>2. CASE i <= Consumed
    <3>1. i \in 1 .. offset
      BY <1>2, <1>5, <2>1, <2>2
    <3>2. buffer[i] = i
      BY <1>1, <1>2, <2>1, <3>1 DEF InBuffer
    <3>3. QED
      BY <1>4, <3>1, <3>2
  <2>3. CASE i > Consumed
    <3>1. i - Consumed \in 1 .. k /\ Consumed + (i - Consumed) = i
      BY <1>2, <1>5, <2>3
    <3>2. buffer'[i] = stream[i - Consumed]
      BY <1>4, <2>1, <3>1
    <3>3. k <= Len(stream)
      BY <1>1 DEF Receive
    <3>4. i - Consumed \in 1 .. Len(stream)
      BY <1>2, <3>1, <3>3
    <3>5. QED
      BY <1>1, <3>1, <3>2, <3>4 DEF InStream
  <2>4. QED
    BY <1>5, <2>2, <2>3
<1>11. OnePacket'
  BY <1>1 DEF OnePacket
<1>12. QED
  BY <1>6, <1>7, <1>8, <1>9, <1>10, <1>11

\* The length is taken from where it was put: with a whole header it is the
\* size of the frame, which FrameFits lets two bytes hold.
LEMMA LengthInv == IInv /\ HeadRead => IInv'
<1> SUFFICES ASSUME IInv, HeadRead PROVE IInv'
  OBVIOUS
<1> USE DEF IInv
<1>1. /\ reading = "head" /\ left = 0 /\ size' = size /\ written' = written
      /\ stream' = stream /\ buffer' = buffer /\ firstSend' = firstSend
      /\ pieces' = pieces
  BY DEF HeadRead
<1>2. PICK n \in Announced :
        IF HeadSize + n <= BufSize
        THEN reading' = "body" /\ left' = n /\ offset' = HeadSize
        ELSE reading' = "shut" /\ UNCHANGED <<left, offset>>
  BY DEF HeadRead
<1>3. /\ size \in Nat /\ size <= MaxFrame /\ size < LenMod /\ LenMod \in Nat \ {0}
      /\ HeadSize \in Nat \ {0} /\ BufSize \in Nat /\ written \in Nat
      /\ firstSend \in Nat /\ pieces \in Nat /\ LenSize \in Nat /\ 1 <= LenSize
      /\ LenSize <= HeadSize /\ HeadSize + MaxFrame <= BufSize /\ BufSize < LenMod
      /\ Len(stream) \in Nat
  BY Numbers, Sizes
<1>4. size % LenMod = size
  BY <1>3
<1>5. n \in 0 .. LenMod - 1
  BY <1>3, <1>4 DEF Announced
<1>6. PacketSize' = PacketSize
  BY <1>1 DEF PacketSize
<1>7. HeadWhole => n = size /\ HeadSize + n <= BufSize
  <2> SUFFICES ASSUME HeadWhole PROVE n = size /\ HeadSize + n <= BufSize
    OBVIOUS
  <2>1. \A i \in 1 .. HeadSize : buffer[i] = i
    BY <1>1, <1>3 DEF HeadWhole, InBuffer, Consumed
  <2>2. \A i \in LenField : i \in 1 .. HeadSize
    BY <1>3 DEF LenField
  <2>3. Announced = {size}
    BY <1>4, <2>1, <2>2 DEF Announced
  <2>4. n = size
    BY <2>3
  <2>5. QED
    BY <1>3, <2>4, Sizes
<1>8. written # 0
  BY <1>1, <1>3 DEF Counts, Consumed, TypeOK
<1>9. CASE HeadSize + n <= BufSize
  <2>1. reading' = "body" /\ left' = n /\ offset' = HeadSize
    BY <1>2, <1>9
  <2>2. Consumed = HeadSize /\ Consumed' = HeadSize
    BY <1>1, <1>3, <2>1 DEF Consumed
  <2>3. TypeOK'
    BY <1>1, <1>3, <1>5, <1>6, <1>9, <2>1 DEF TypeOK
  <2>4. Counts' /\ TwoReads'
    BY <1>1, <1>3, <2>1, <2>2 DEF Counts, TwoReads
  <2>5. InStream' /\ InBuffer'
    BY <1>1, <2>1, <2>2 DEF InStream, InBuffer
  <2>6. OnePacket'
    BY <1>1, <1>6, <1>7, <2>1 DEF OnePacket, HeadWhole, PacketSize
  <2>7. QED
    BY <2>3, <2>4, <2>5, <2>6
<1>10. CASE ~(HeadSize + n <= BufSize)
  <2>1. reading' = "shut" /\ left' = left /\ offset' = offset
    BY <1>2, <1>10
  <2>2. ~HeadWhole'
    BY <1>1, <1>7, <1>10 DEF HeadWhole
  <2>3. TypeOK'
    BY <1>1, <1>6, <2>1 DEF TypeOK
  <2>4. QED
    BY <1>1, <1>8, <2>1, <2>2, <2>3 DEF Counts, InStream, TwoReads, InBuffer, OnePacket
<1>11. QED
  BY <1>9, <1>10

\* A read of the picture preserves the invariant.
LEMMA BodyInv == ASSUME NEW k \in 1 .. BufSize PROVE IInv /\ ReadBody(k) => IInv'
<1> SUFFICES ASSUME IInv, ReadBody(k) PROVE IInv'
  OBVIOUS
<1> USE DEF IInv
<1>1. /\ reading = "body" /\ reading' = "body"
      /\ size' = size /\ written' = written /\ firstSend' = firstSend
      /\ offset' = offset + k /\ pieces' = pieces
      /\ Receive(k)
  BY DEF ReadBody
<1>2. /\ k \in Nat /\ k > 0 /\ offset \in Nat /\ left \in Nat
      /\ offset + left <= BufSize /\ BufSize \in Nat /\ LenMod \in Nat
      /\ left <= LenMod - 1 /\ HeadSize \in Nat
      /\ Len(stream) \in Nat /\ firstSend \in Nat /\ offset >= HeadSize
  <2>1. offset + left <= BufSize /\ offset >= HeadSize /\ left <= LenMod - 1
    BY <1>1, Sizes DEF TypeOK, Counts
  <2>2. k \in Nat /\ k > 0
    BY Sizes
  <2>3. QED
    BY <2>1, <2>2, Numbers, Sizes
<1>3. PacketSize' = PacketSize /\ PacketSize \in Nat
  BY <1>1, Numbers DEF PacketSize
<1>4. /\ stream' \in Seq(1 .. PacketSize) /\ Len(stream') = Len(stream) - k
      /\ \A i \in 1 .. Len(stream) - k : stream'[i] = stream[i + k]
      /\ buffer' \in [1 .. BufSize -> 0 .. PacketSize]
      /\ \A i \in 1 .. k : buffer'[offset + i] = stream[i]
      /\ \A i \in 1 .. offset : buffer'[i] = buffer[i]
      /\ left' = left - k /\ left' \in Nat
  BY <1>1, <1>2, ReceiveFacts
<1>5. Consumed = offset /\ Consumed' = offset + k
  BY <1>1 DEF Consumed
<1>6. TypeOK'
  BY <1>1, <1>2, <1>3, <1>4 DEF TypeOK
<1>7. Counts' /\ TwoReads'
  <2>1. Len(stream') + Consumed' = written
    BY <1>1, <1>2, <1>4, <1>5 DEF Counts
  <2>2. offset' >= HeadSize
    BY <1>1, <1>2
  <2>3. QED
    BY <1>1, <2>1, <2>2 DEF Counts, TwoReads
<1>8. InStream'
  <2> SUFFICES ASSUME NEW i \in 1 .. Len(stream) - k, offset + k + i <= firstSend
               PROVE  stream'[i] = offset + k + i
    BY <1>1, <1>4, <1>5 DEF InStream
  <2>1. i + k \in 1 .. Len(stream) /\ offset + (i + k) <= firstSend
    BY <1>2
  <2>2. stream[i + k] = offset + (i + k)
    BY <1>1, <1>5, <2>1 DEF InStream
  <2>3. QED
    BY <1>2, <1>4, <2>2
<1>9. InBuffer'
  <2> SUFFICES ASSUME pieces <= 2, NEW i \in 1 .. offset + k, i <= firstSend
               PROVE  buffer'[i] = i
    BY <1>1, <1>5 DEF InBuffer
  <2>1. CASE i <= offset
    <3>1. i \in 1 .. offset
      BY <1>2, <2>1
    <3>2. buffer[i] = i
      BY <1>1, <1>5, <3>1 DEF InBuffer
    <3>3. QED
      BY <1>4, <3>1, <3>2
  <2>2. CASE i > offset
    <3>1. i - offset \in 1 .. k /\ offset + (i - offset) = i
      BY <1>2, <2>2
    <3>2. buffer'[i] = stream[i - offset]
      BY <1>4, <3>1
    <3>3. k <= Len(stream)
      BY <1>1 DEF Receive
    <3>4. i - offset \in 1 .. Len(stream)
      BY <1>2, <3>1, <3>3
    <3>5. QED
      BY <1>1, <1>5, <3>1, <3>2, <3>4 DEF InStream
  <2>3. QED
    BY <1>2, <2>1, <2>2
<1>10. OnePacket'
  <2>1. offset' + left' = offset + left
    BY <1>1, <1>2, <1>4
  <2>2. QED
    BY <1>1, <1>3, <2>1 DEF OnePacket, HeadWhole
<1>11. QED
  BY <1>6, <1>7, <1>8, <1>9, <1>10

\* Handing on the picture preserves the invariant.
LEMMA DoneInv == IInv /\ PictureRead => IInv'
<1> SUFFICES ASSUME IInv, PictureRead PROVE IInv'
  OBVIOUS
<1>1. /\ reading = "body" /\ left = 0 /\ reading' = "done"
      /\ size' = size /\ written' = written /\ stream' = stream
      /\ buffer' = buffer /\ offset' = offset /\ left' = left
      /\ firstSend' = firstSend /\ pieces' = pieces
  BY DEF PictureRead
<1>2. PacketSize' = PacketSize /\ Consumed' = Consumed
  BY <1>1 DEF PacketSize, Consumed
<1>3. TypeOK'
  BY <1>1, <1>2 DEF IInv, TypeOK
<1>4. Counts' /\ TwoReads'
  BY <1>1, <1>2 DEF IInv, Counts, TwoReads
<1>5. InStream' /\ InBuffer'
  BY <1>1, <1>2 DEF IInv, InStream, InBuffer
<1>6. OnePacket'
  BY <1>1, <1>2 DEF IInv, OnePacket, HeadWhole
<1>7. QED
  BY <1>3, <1>4, <1>5, <1>6 DEF IInv

-----------------------------------------------------------------------------
(* The packets altogether *)

\* The invariant holds before anything is sent.
LEMMA InitInv == Init => IInv
<1> SUFFICES ASSUME Init PROVE IInv
  OBVIOUS
<1>1. HeadSize \in Nat \ {0} /\ MaxFrame \in Nat /\ size \in Nat /\ HeadSize < LenMod
      /\ BufSize \in Nat /\ LenMod \in Nat /\ HeadSize <= BufSize
  BY Sizes DEF Init
<1>2. PacketSize \in Nat
  BY <1>1 DEF PacketSize
<1>3. stream = <<>> /\ stream \in Seq(1 .. PacketSize) /\ Len(stream) = 0
  BY DEF Init
<1>4. TypeOK
  BY <1>1, <1>2, <1>3 DEF Init, TypeOK
<1>5. Consumed = 0
  BY <1>1 DEF Init, Consumed
<1>6. Counts /\ TwoReads
  BY <1>1, <1>3, <1>5 DEF Init, Counts, TwoReads
<1>7. InStream /\ InBuffer /\ OnePacket
  BY <1>1, <1>3, <1>5 DEF Init, InStream, InBuffer, OnePacket
<1>8. QED
  BY <1>4, <1>6, <1>7 DEF IInv

\* Every step preserves it.
LEMMA NextInv == IInv /\ [Next]_packetVars => IInv'
<1>1. IInv /\ UNCHANGED packetVars => IInv'
  BY DEF packetVars, IInv, TypeOK, Counts, InStream, TwoReads, InBuffer, OnePacket,
         HeadWhole, Consumed, PacketSize
<1>2. IInv /\ ReadStep => IInv'
  BY HeadInv, LengthInv, BodyInv, DoneInv DEF ReadStep
<1>3. QED
  BY <1>1, <1>2, SendInv DEF Next

\* The invariant holds in every state.
LEMMA Always == Spec => []IInv
BY InitInv, NextInv, PTL DEF Spec

-----------------------------------------------------------------------------
(* The tokens of a text *)

Places == Answers!Scan .. Answers!Last
Texts == [Answers!HeadRead .. Answers!Last -> Answers!Bytes]

\* What getTimes cuts out of the text: a and b are the ends of a token.
IsToken(t, a, b) ==
    /\ a \in Places /\ b \in Places /\ a <= b
    /\ \A i \in a .. b : t[i] # "colon"
    /\ a = Answers!Scan \/ t[a - 1] = "colon"
    /\ b = Answers!Last \/ t[b + 1] = "colon"

\* The pairs of Tokens are the ends of the tokens.
LEMMA TokenPairs ==
    ASSUME NEW t
    PROVE  /\ \A a, b : IsToken(t, a, b) <=> <<a, b>> \in Answers!Tokens(t)
           /\ \A tok \in Answers!Tokens(t) : /\ tok = <<tok[1], tok[2]>>
                                             /\ IsToken(t, tok[1], tok[2])
BY DEF IsToken, Answers!Tokens, Places

\* Tokens do not overlap: where one begins there is no other.
LEMMA Apart ==
    ASSUME NEW t, NEW a, NEW b, IsToken(t, a, b),
           NEW c, NEW d, IsToken(t, c, d), c \in a .. b
    PROVE  c = a /\ d = b
<1>1. /\ a \in 64 .. 99 /\ b \in 64 .. 99 /\ c \in 64 .. 99 /\ d \in 64 .. 99
      /\ a <= c /\ c <= b /\ c <= d
  BY DEF IsToken, Places, Answers!Scan, Answers!Last
<1>2. c = a
  <2> SUFFICES ASSUME c # a PROVE FALSE
    OBVIOUS
  <2>1. c - 1 \in a .. b /\ c # 64
    BY <1>1
  <2>2. t[c - 1] = "colon"
    BY <2>1 DEF IsToken, Answers!Scan
  <2>3. QED
    BY <2>1, <2>2 DEF IsToken
<1>3. ~(d < b)
  <2> SUFFICES ASSUME d < b PROVE FALSE
    OBVIOUS
  <2>1. d + 1 \in a .. b /\ d # 99
    BY <1>1
  <2>2. t[d + 1] = "colon"
    BY <2>1 DEF IsToken, Answers!Last
  <2>3. QED
    BY <2>1, <2>2 DEF IsToken
<1>4. ~(b < d)
  <2> SUFFICES ASSUME b < d PROVE FALSE
    OBVIOUS
  <2>1. b + 1 \in c .. d /\ b # 99
    BY <1>1
  <2>2. t[b + 1] = "colon"
    BY <2>1 DEF IsToken, Answers!Last
  <2>3. QED
    BY <2>1, <2>2 DEF IsToken
<1>5. QED
  BY <1>1, <1>2, <1>3, <1>4

\* All tokens are known when every place is a colon or in one that is known.
LEMMA TwoTokens ==
    ASSUME NEW t, NEW a, NEW b, IsToken(t, a, b), NEW c, NEW d, IsToken(t, c, d),
           \A i \in Places : t[i] # "colon" => i \in a .. b \/ i \in c .. d
    PROVE  Answers!Tokens(t) = {<<a, b>>, <<c, d>>}
<1>1. \A tok \in Answers!Tokens(t) : tok \in {<<a, b>>, <<c, d>>}
  <2> SUFFICES ASSUME NEW tok \in Answers!Tokens(t) PROVE tok \in {<<a, b>>, <<c, d>>}
    OBVIOUS
  <2>1. tok = <<tok[1], tok[2]>> /\ IsToken(t, tok[1], tok[2])
    BY TokenPairs
  <2>2. tok[1] \in Places /\ t[tok[1]] # "colon"
    BY <2>1 DEF IsToken, Places, Answers!Scan, Answers!Last
  <2>3. CASE tok[1] \in a .. b
    BY <2>1, <2>3, Apart
  <2>4. CASE tok[1] \in c .. d
    BY <2>1, <2>4, Apart
  <2>5. QED
    BY <2>2, <2>3, <2>4
<1>2. QED
  BY <1>1, TokenPairs

\* The same with three.
LEMMA ThreeTokens ==
    ASSUME NEW t, NEW a, NEW b, IsToken(t, a, b), NEW c, NEW d, IsToken(t, c, d),
           NEW e, NEW f, IsToken(t, e, f),
           \A i \in Places : t[i] # "colon" =>
                                 i \in a .. b \/ i \in c .. d \/ i \in e .. f
    PROVE  Answers!Tokens(t) = {<<a, b>>, <<c, d>>, <<e, f>>}
<1>1. \A tok \in Answers!Tokens(t) : tok \in {<<a, b>>, <<c, d>>, <<e, f>>}
  <2> SUFFICES ASSUME NEW tok \in Answers!Tokens(t)
               PROVE  tok \in {<<a, b>>, <<c, d>>, <<e, f>>}
    OBVIOUS
  <2>1. tok = <<tok[1], tok[2]>> /\ IsToken(t, tok[1], tok[2])
    BY TokenPairs
  <2>2. tok[1] \in Places /\ t[tok[1]] # "colon"
    BY <2>1 DEF IsToken, Places, Answers!Scan, Answers!Last
  <2>3. CASE tok[1] \in a .. b
    BY <2>1, <2>3, Apart
  <2>4. CASE tok[1] \in c .. d
    BY <2>1, <2>4, Apart
  <2>5. CASE tok[1] \in e .. f
    BY <2>1, <2>5, Apart
  <2>6. QED
    BY <2>2, <2>3, <2>4, <2>5
<1>2. QED
  BY <1>1, TokenPairs

-----------------------------------------------------------------------------
(* Counting tokens and characters *)

\* How many two or three are at most.
LEMMA Counted ==
    ASSUME NEW x, NEW y, NEW z
    PROVE  /\ Cardinality({x, y}) <= 3 /\ Cardinality({x, y}) \in Nat
           /\ Cardinality({x, y, z}) <= 3 /\ Cardinality({x, y, z}) \in Nat
<1>1. IsFiniteSet({x}) /\ Cardinality({x}) = 1
  BY FS_Singleton
<1>2. {x, y} = {x} \cup {y} /\ {x, y, z} = {x, y} \cup {z}
  OBVIOUS
<1>3. IsFiniteSet({x, y}) /\ Cardinality({x, y}) \in {1, 2}
  BY <1>1, <1>2, FS_AddElement
<1>4. Cardinality({x, y, z}) \in {1, 2, 3}
  BY <1>2, <1>3, FS_AddElement
<1>5. QED
  BY <1>3, <1>4

\* MotionAnswers counts as the library does.
LEMMA Counting == \A S : Answers!Cardinality(S) = Cardinality(S)
BY DEF Answers!Cardinality, Cardinality

\* The second of three tokens is the local time,
LEMMA SecondOfThree ==
    ASSUME NEW t, NEW x, NEW y, NEW z, Answers!Tokens(t) = {x, y, z},
           x[1] \in Int, y[1] \in Int, z[1] \in Int, x[1] < y[1], y[1] < z[1]
    PROVE  y \in Answers!Local(t)
<1>1. {o \in Answers!Tokens(t) : o[1] < y[1]} = {x}
  OBVIOUS
<1>2. Cardinality({o \in Answers!Tokens(t) : o[1] < y[1]}) = 1
  BY <1>1, FS_Singleton
<1>3. y \in Answers!Tokens(t)
  OBVIOUS
<1>4. QED
  BY <1>2, <1>3, Counting DEF Answers!Local

\* and of two it is the only one.
LEMMA SecondOfTwo ==
    ASSUME NEW t, NEW x, NEW y, Answers!Tokens(t) = {x, y},
           x[1] \in Int, y[1] \in Int, x[1] < y[1]
    PROVE  Answers!Local(t) = {y}
<1>1. {o \in Answers!Tokens(t) : o[1] < y[1]} = {x}
  OBVIOUS
<1>2. {o \in Answers!Tokens(t) : o[1] < x[1]} = {}
  OBVIOUS
<1>3. Cardinality({o \in Answers!Tokens(t) : o[1] < y[1]}) = 1
  BY <1>1, FS_Singleton
<1>4. Cardinality({o \in Answers!Tokens(t) : o[1] < x[1]}) = 0
  BY <1>2, FS_EmptySet
<1>5. \A tok \in Answers!Tokens(t) :
        Cardinality({o \in Answers!Tokens(t) : o[1] < tok[1]}) = 1 <=> tok = y
  <2> SUFFICES ASSUME NEW tok \in Answers!Tokens(t)
               PROVE  Cardinality({o \in Answers!Tokens(t) : o[1] < tok[1]}) = 1
                          <=> tok = y
    OBVIOUS
  <2>1. CASE tok = x
    BY <1>4, <2>1
  <2>2. CASE tok = y
    BY <1>3, <2>2
  <2>3. QED
    BY <2>1, <2>2
<1>6. Answers!Local(t) = {tok \in Answers!Tokens(t) : tok = y}
  BY <1>5, Counting DEF Answers!Local
<1>7. QED
  BY <1>6

\* The length of a number whose characters end at b.
LEMMA Length ==
    ASSUME NEW t, NEW tok, NEW b \in Int, tok[1] \in Int, tok[2] \in Int,
           tok[1] <= b, b <= tok[2],
           \A i \in tok[1] .. tok[2] : t[i] # "nul" <=> i <= b
    PROVE  /\ Answers!Trimmed(t, tok) = tok[1] .. b
           /\ Cardinality(Answers!Trimmed(t, tok)) = b - tok[1] + 1
<1>1. Answers!Trimmed(t, tok) = tok[1] .. b
  BY DEF Answers!Trimmed
<1>2. QED
  BY <1>1, FS_Interval

-----------------------------------------------------------------------------
(* What the answers make of the text *)

\* The text after an answer with an age of d digits, when digits of longer answers
\* are left up to where one with an age of l digits would end.
AfterEvent(t, d, l) ==
    \A i \in Places : t[i] = IF i \in {60 + d, 71 + d} THEN "colon"
                             ELSE IF i <= 79 + l THEN "digit" ELSE "nul"

\* The text after answers without event.
AfterNone(t) ==
    \A i \in Places : t[i] = IF i < 70 THEN "digit" ELSE IF i = 70 THEN "colon"
                             ELSE IF i = 71 THEN "zero" ELSE "nul"

\* What an answer about an event puts where.
LEMMA ReadEvent ==
    ASSUME NEW d \in 1 .. 9, text \in Texts
    PROVE  LET t == Answers!AfterRead(d)
           IN  /\ t \in Texts
               /\ \A i \in 64 .. 79 + d :
                     t[i] = IF i \in {60 + d, 71 + d} THEN "colon" ELSE "digit"
               /\ \A i \in 80 + d .. 99 : t[i] = text[i]
<1> DEFINE A == Answers!EventAnswer(d)
<1>1. /\ DOMAIN A = 60 .. 81 + d
      /\ \A i \in 60 .. 81 + d : A[i] = IF i \in {60 + d, 71 + d} THEN "colon" ELSE "digit"
  BY DEF Answers!EventAnswer, Answers!RealHead, Answers!TimeDigits
<1>2. Answers!Answer(d) = A
  BY DEF Answers!Answer
<1> HIDE DEF A
<1>3. Cardinality(60 .. 81 + d) = d + 22
  BY FS_Interval
<1>4. 58 + Answers!Cardinality(DOMAIN A) - 1 = 79 + d
  BY <1>1, <1>3, Counting
<1>5. Answers!AfterRead(d) =
        [i \in 58 .. 99 |-> IF i \in 60 .. 81 + d /\ i <= 79 + d THEN A[i]
                           ELSE IF i < 60 THEN "nul" ELSE text[i]]
  BY <1>1, <1>2, <1>4
     DEF Answers!AfterRead, Answers!HeadRead, Answers!Last, Answers!RealHead
<1>6. Answers!AfterRead(d) \in Texts
  <2>1. \A i \in 58 .. 99 : text[i] \in Answers!Bytes
    BY DEF Texts, Answers!HeadRead, Answers!Last
  <2>2. \A i \in 60 .. 79 + d : A[i] \in Answers!Bytes
    BY <1>1 DEF Answers!Bytes
  <2>3. "nul" \in Answers!Bytes
    BY DEF Answers!Bytes
  <2>4. QED
    BY <1>5, <2>1, <2>2, <2>3 DEF Texts, Answers!HeadRead, Answers!Last
<1>7. \A i \in 64 .. 79 + d : Answers!AfterRead(d)[i] = A[i]
  BY <1>5
<1>8. \A i \in 79 + d + 1 .. 99 : Answers!AfterRead(d)[i] = text[i]
  BY <1>5
<1>9. QED
  BY <1>1, <1>6, <1>7, <1>8

\* And one without.
LEMMA ReadNone ==
    ASSUME text \in Texts
    PROVE  LET t == Answers!AfterRead(0)
           IN  /\ t \in Texts
               /\ \A i \in 64 .. 71 :
                     t[i] = IF i < 70 THEN "digit" ELSE IF i = 70 THEN "colon" ELSE "zero"
               /\ \A i \in 72 .. 99 : t[i] = text[i]
<1> DEFINE A == Answers!NoAnswer
<1>1. /\ DOMAIN A = 60 .. 73
      /\ \A i \in 60 .. 71 :
            A[i] = IF i < 70 THEN "digit" ELSE IF i = 70 THEN "colon" ELSE "zero"
  BY DEF Answers!NoAnswer, Answers!RealHead, Answers!TimeDigits
<1>2. Answers!Answer(0) = A
  BY DEF Answers!Answer
<1> HIDE DEF A
<1>3. Cardinality(60 .. 73) = 14
  <2>1. 60 \in Int /\ 73 \in Int
    OBVIOUS
  <2>2. Cardinality(60 .. 73) = IF 60 > 73 THEN 0 ELSE 73 - 60 + 1
    BY <2>1, FS_Interval, Zenon
  <2>3. QED
    BY <2>2
<1>4. 58 + Answers!Cardinality(DOMAIN A) - 1 = 71
  BY <1>1, <1>3, Counting
<1>5. Answers!AfterRead(0) =
        [i \in 58 .. 99 |-> IF i \in 60 .. 73 /\ i <= 71 THEN A[i]
                           ELSE IF i < 60 THEN "nul" ELSE text[i]]
  BY <1>1, <1>2, <1>4
     DEF Answers!AfterRead, Answers!HeadRead, Answers!Last, Answers!RealHead
<1>6. Answers!AfterRead(0) \in Texts
  <2>1. \A i \in 58 .. 99 : text[i] \in Answers!Bytes
    BY DEF Texts, Answers!HeadRead, Answers!Last
  <2>2. \A i \in 60 .. 71 : A[i] \in Answers!Bytes
    BY <1>1 DEF Answers!Bytes
  <2>3. "nul" \in Answers!Bytes
    BY DEF Answers!Bytes
  <2>4. QED
    BY <1>5, <2>1, <2>2, <2>3 DEF Texts, Answers!HeadRead, Answers!Last
<1>7. \A i \in 64 .. 71 : Answers!AfterRead(0)[i] = A[i]
  BY <1>5
<1>8. \A i \in 71 + 1 .. 99 : Answers!AfterRead(0)[i] = text[i]
  BY <1>5
<1>9. QED
  BY <1>1, <1>6, <1>7, <1>8

\* Without event the second time is the zero.
LEMMA NoneParsed ==
    ASSUME NEW t \in Texts, AfterNone(t)
    PROVE  Answers!Parses(t) /\ ~Answers!Positive(t)
<1> USE DEF Places, Answers!Scan, Answers!Last
<1>1. PICK A : A = <<64, 69>>
  OBVIOUS
<1>2. PICK B : B = <<71, 99>>
  OBVIOUS
<1>3. Answers!Tokens(t) = {A, B}
  <2>1. IsToken(t, 64, 69) /\ IsToken(t, 71, 99)
    BY DEF AfterNone, IsToken
  <2>2. \A i \in Places : t[i] # "colon" => i \in 64 .. 69 \/ i \in 71 .. 99
    BY DEF AfterNone
  <2>3. QED
    BY <1>1, <1>2, <2>1, <2>2, TwoTokens
<1>4. A[1] = 64 /\ A[2] = 69 /\ B[1] = 71 /\ B[2] = 99
  BY <1>1, <1>2
<1>5. Answers!Local(t) = {B}
  BY <1>3, <1>4, SecondOfTwo
<1>6. /\ Answers!Trimmed(t, B) = B[1] .. 71
      /\ Cardinality(Answers!Trimmed(t, B)) = 71 - B[1] + 1
  <2>1. \A i \in B[1] .. B[2] : t[i] # "nul" <=> i <= 71
    BY <1>4 DEF AfterNone
  <2>2. /\ B[1] \in Int /\ B[2] \in Int /\ 71 \in Int /\ B[1] <= 71 /\ 71 <= B[2]
    BY <1>4
  <2>3. QED
    BY <2>1, <2>2, Length, Zenon
<1>7. Cardinality(Answers!Trimmed(t, A)) = 69 - A[1] + 1
  <2>1. \A i \in A[1] .. A[2] : t[i] # "nul" <=> i <= 69
    BY <1>4 DEF AfterNone
  <2>2. /\ A[1] \in Int /\ A[2] \in Int /\ 69 \in Int /\ A[1] <= 69 /\ 69 <= A[2]
    BY <1>4
  <2>3. QED
    BY <2>1, <2>2, Length, Zenon
<1>8. Answers!Parses(t)
  <2>1. Cardinality(Answers!Tokens(t)) <= 3
    BY <1>3, Counted
  <2>2. \A tok \in Answers!Tokens(t) :
          Cardinality(Answers!Trimmed(t, tok)) \in 1 .. Answers!IntDigits
    BY <1>3, <1>4, <1>6, <1>7 DEF Answers!IntDigits
  <2>3. QED
    BY <2>1, <2>2, Counting DEF Answers!Parses
<1>9. t[71] = "zero"
  BY DEF AfterNone
<1>10. ~Answers!Positive(t)
  BY <1>4, <1>5, <1>6, <1>9 DEF Answers!Positive
<1>11. QED
  BY <1>8, <1>10

\* What both need of the tokens: the last one ends with the digits that are left.
LEMMA LastToken ==
    ASSUME NEW t \in Texts, NEW d \in 1 .. 9, NEW l \in d .. 9, AfterEvent(t, d, l),
           NEW B, B[1] = 72 + d, B[2] = 99
    PROVE  /\ IsToken(t, 72 + d, 99)
           /\ Cardinality(Answers!Trimmed(t, B)) = 8 + l - d
           /\ \E i \in Answers!Trimmed(t, B) : t[i] = "digit"
<1> USE DEF Places, Answers!Scan, Answers!Last
<1>1. B[1] = 72 + d /\ B[2] = 99
  OBVIOUS
<1>2. IsToken(t, 72 + d, 99)
  BY DEF AfterEvent, IsToken
<1>3. PICK e \in Int : e = 79 + l
  OBVIOUS
<1>4. \A i \in B[1] .. B[2] : t[i] # "nul" <=> i <= e
  BY <1>1, <1>3 DEF AfterEvent
<1>5. B[1] \in Int /\ B[2] \in Int /\ B[1] <= e /\ e <= B[2]
  BY <1>1, <1>3
<1>6. /\ Answers!Trimmed(t, B) = B[1] .. e
      /\ Cardinality(Answers!Trimmed(t, B)) = e - B[1] + 1
  BY ONLY <1>4, <1>5, Length
<1>7. t[72 + d] = "digit"
  BY DEF AfterEvent
<1>8. 72 + d \in Answers!Trimmed(t, B)
  BY <1>1, <1>3, <1>6
<1>9. QED
  BY <1>1, <1>2, <1>3, <1>6, <1>7, <1>8

\* A token of digits only.
LEMMA DigitToken ==
    ASSUME NEW t, NEW tok, tok[1] \in Int, tok[2] \in Int, tok[1] <= tok[2],
           \A i \in tok[1] .. tok[2] : t[i] = "digit"
    PROVE  /\ Cardinality(Answers!Trimmed(t, tok)) = tok[2] - tok[1] + 1
           /\ \E i \in Answers!Trimmed(t, tok) : t[i] = "digit"
<1>1. \A i \in tok[1] .. tok[2] : t[i] # "nul" <=> i <= tok[2]
  OBVIOUS
<1>2. /\ Answers!Trimmed(t, tok) = tok[1] .. tok[2]
      /\ Cardinality(Answers!Trimmed(t, tok)) = tok[2] - tok[1] + 1
  <2>1. tok[2] <= tok[2]
    OBVIOUS
  <2>2. QED
    BY <1>1, <2>1, Length, Zenon
<1>3. QED
  BY <1>2

\* With an event the second time is of digits, and the last time is a number
\* unless three or more digits of a longer answer are left behind it.
LEMMA EventParsed ==
    ASSUME NEW t \in Texts, NEW d \in 1 .. 9, NEW l \in d .. 9, AfterEvent(t, d, l)
    PROVE  /\ Answers!Parses(t) <=> l <= d + 2
           /\ Answers!Positive(t)
<1> USE DEF Places, Answers!Scan, Answers!Last
<1>1. PICK B : B = <<72 + d, 99>>
  OBVIOUS
<1>2. B[1] = 72 + d /\ B[2] = 99
  BY <1>1
<1>3. /\ IsToken(t, 72 + d, 99)
      /\ Cardinality(Answers!Trimmed(t, B)) = 8 + l - d
      /\ \E i \in Answers!Trimmed(t, B) : t[i] = "digit"
  BY <1>2, LastToken
<1>4. CASE d <= 4
  <2>1. PICK a \in 64 .. 65 : a = IF d = 4 THEN 65 ELSE 64
    OBVIOUS
  <2>2. PICK A : A = <<a, 70 + d>>
    OBVIOUS
  <2>3. A[1] = a /\ A[2] = 70 + d
    BY <2>2
  <2>4. IsToken(t, a, 70 + d) /\ \A i \in a .. 70 + d : t[i] = "digit"
    BY <1>4, <2>1 DEF AfterEvent, IsToken
  <2>5. \A i \in Places : t[i] # "colon" => i \in a .. 70 + d \/ i \in 72 + d .. 99
    BY <1>4, <2>1 DEF AfterEvent
  <2>6. Answers!Tokens(t) = {A, B}
    BY <1>1, <1>3, <2>2, <2>4, <2>5, TwoTokens
  <2>7. Cardinality(Answers!Trimmed(t, A)) = 71 + d - a
    BY <2>3, <2>4, DigitToken
  <2>8. Answers!Parses(t) <=> l <= d + 2
    <3>1. Cardinality(Answers!Tokens(t)) <= 3
      BY <2>6, Counted
    <3>2. Cardinality(Answers!Trimmed(t, A)) \in 1 .. 10
      BY <1>4, <2>1, <2>7
    <3>3. Cardinality(Answers!Trimmed(t, B)) \in 1 .. 10 <=> l <= d + 2
      BY <1>3
    <3>4. QED
      BY <2>6, <3>1, <3>2, <3>3, Counting DEF Answers!Parses, Answers!IntDigits
  <2>9. Answers!Local(t) = {B}
    BY <1>2, <2>3, <2>6, SecondOfTwo
  <2>10. QED
    BY <1>3, <2>8, <2>9 DEF Answers!Positive
<1>5. CASE d >= 5
  <2>1. PICK A : A = <<64, 59 + d>>
    OBVIOUS
  <2>2. PICK C : C = <<61 + d, 70 + d>>
    OBVIOUS
  <2>3. A[1] = 64 /\ A[2] = 59 + d /\ C[1] = 61 + d /\ C[2] = 70 + d
    BY <2>1, <2>2
  <2>4. /\ IsToken(t, 64, 59 + d) /\ \A i \in 64 .. 59 + d : t[i] = "digit"
        /\ IsToken(t, 61 + d, 70 + d) /\ \A i \in 61 + d .. 70 + d : t[i] = "digit"
    BY <1>5 DEF AfterEvent, IsToken
  <2>5. \A i \in Places : t[i] # "colon" => \/ i \in 64 .. 59 + d
                                           \/ i \in 61 + d .. 70 + d
                                           \/ i \in 72 + d .. 99
    BY <1>5 DEF AfterEvent
  <2>6. Answers!Tokens(t) = {A, C, B}
    BY <1>1, <1>3, <2>1, <2>2, <2>4, <2>5, ThreeTokens
  <2>7. Cardinality(Answers!Trimmed(t, A)) = d - 4
    BY <1>5, <2>3, <2>4, DigitToken
  <2>8. /\ Cardinality(Answers!Trimmed(t, C)) = 10
        /\ \E i \in Answers!Trimmed(t, C) : t[i] = "digit"
    BY <2>3, <2>4, DigitToken
  <2>9. Answers!Parses(t) <=> l <= d + 2
    <3>1. Cardinality(Answers!Tokens(t)) <= 3
      BY <2>6, Counted
    <3>2. /\ Cardinality(Answers!Trimmed(t, A)) \in 1 .. 10
          /\ Cardinality(Answers!Trimmed(t, C)) \in 1 .. 10
      BY <1>5, <2>7, <2>8
    <3>3. Cardinality(Answers!Trimmed(t, B)) \in 1 .. 10 <=> l <= d + 2
      BY <1>3
    <3>4. QED
      BY <2>6, <3>1, <3>2, <3>3, Counting DEF Answers!Parses, Answers!IntDigits
  <2>10. C \in Answers!Local(t)
    BY <1>2, <1>5, <2>3, <2>6, SecondOfThree
  <2>11. QED
    BY <2>8, <2>9, <2>10 DEF Answers!Positive
<1>6. QED
  BY <1>4, <1>5

-----------------------------------------------------------------------------
(* The inductive invariant of the answers *)

\* As long as it parses, the buffer has behind the answer the digits of the longest
\* one so far, and nothing before the first event.
LeftBehind ==
    alive /\ ~again =>
        /\ \A i \in 81 .. 99 : text[i] = IF i <= 79 + longest THEN "digit" ELSE "nul"
        /\ age = 0 => longest = 0 /\ \A i \in 72 .. 80 : text[i] = "nul"

AnswersInv ==
    /\ Answers!TypeOK
    /\ age <= longest
    /\ LeftBehind
    /\ MotionAsTold
    /\ DiesOfOldDigits

\* An answer about an event preserves the invariant.
LEMMA EventInv ==
    ASSUME NEW d \in 1 .. MaxAgeDigits
    PROVE  AnswersInv /\ Answers!Receive(d) => AnswersInv'
<1> SUFFICES ASSUME AnswersInv, Answers!Receive(d) PROVE AnswersInv'
  OBVIOUS
<1>1. /\ d \in 1 .. 9 /\ text \in Texts /\ age \in 0 .. 9 /\ longest \in 0 .. 9
      /\ age <= longest /\ again \in BOOLEAN
  BY AgeAssumption DEF AnswersInv, Answers!TypeOK, Texts, Answers!AgeDigits
<1>2. /\ alive /\ text' = Answers!AfterRead(d) /\ alive' = Answers!Parses(text')
      /\ detected' = (IF alive' THEN Answers!Positive(text') ELSE detected)
      /\ age' = d /\ longest' = (IF d > longest THEN d ELSE longest)
      /\ again' = again
  BY <1>1 DEF Answers!Receive
<1>3. /\ text' \in Texts
      /\ \A i \in 64 .. 79 + d :
            text'[i] = IF i \in {60 + d, 71 + d} THEN "colon" ELSE "digit"
      /\ \A i \in 80 + d .. 99 : text'[i] = text[i]
  BY <1>1, <1>2, ReadEvent
<1>4. longest' \in d .. 9 /\ age' <= longest'
  BY <1>1, <1>2
<1>5. Answers!TypeOK'
  <2>1. alive' \in BOOLEAN
    BY <1>2 DEF Answers!Parses
  <2>2. detected' \in BOOLEAN
    BY <1>2 DEF Answers!Positive, AnswersInv, Answers!TypeOK
  <2>3. 72 + d \in Places /\ text'[72 + d] = "digit"
    BY <1>1, <1>3 DEF Places, Answers!Scan, Answers!Last
  <2>4. age' \in Answers!AgeDigits /\ longest' \in {0} \cup Answers!AgeDigits
    BY <1>2 DEF AnswersInv, Answers!TypeOK, Answers!AgeDigits
  <2>5. QED
    BY <1>1, <1>2, <1>3, <2>1, <2>2, <2>3, <2>4 DEF Answers!TypeOK, Texts, Places
<1>6. CASE again
  BY <1>2, <1>4, <1>5, <1>6
     DEF AnswersInv, LeftBehind, MotionAsTold, DiesOfOldDigits,
         Answers!MotionAsTold, Answers!DiesOfOldDigits
<1>7. CASE ~again
  <2>1. /\ \A i \in 80 + d .. 99 : text'[i] = IF i <= 79 + longest THEN "digit" ELSE "nul"
    BY <1>1, <1>2, <1>3, <1>7 DEF AnswersInv, LeftBehind
  <2>2. AfterEvent(text', d, longest')
    BY <1>1, <1>2, <1>3, <2>1 DEF AfterEvent, Places, Answers!Scan, Answers!Last
  <2>3. (Answers!Parses(text') <=> longest' <= d + 2) /\ Answers!Positive(text')
    BY <1>1, <1>3, <1>4, <2>2, EventParsed
  <2>4. LeftBehind'
    BY <1>1, <1>2, <1>3, <2>1 DEF LeftBehind
  <2>5. MotionAsTold'
    BY <1>1, <1>2, <2>3 DEF MotionAsTold, Answers!MotionAsTold
  <2>6. DiesOfOldDigits'
    BY <1>1, <1>2, <1>4, <2>3 DEF DiesOfOldDigits, Answers!DiesOfOldDigits
  <2>7. QED
    BY <1>4, <1>5, <2>4, <2>5, <2>6 DEF AnswersInv
<1>8. QED
  BY <1>6, <1>7

\* So does one without.
LEMMA NoneInv == AnswersInv /\ Answers!Receive(0) => AnswersInv'
<1> SUFFICES ASSUME AnswersInv, Answers!Receive(0) PROVE AnswersInv'
  OBVIOUS
<1>1. /\ text \in Texts /\ age \in 0 .. 9 /\ longest \in 0 .. 9
      /\ age <= longest /\ again \in BOOLEAN
  BY AgeAssumption DEF AnswersInv, Answers!TypeOK, Texts, Answers!AgeDigits
<1>2. /\ alive /\ text' = Answers!AfterRead(0) /\ alive' = Answers!Parses(text')
      /\ detected' = (IF alive' THEN Answers!Positive(text') ELSE detected)
      /\ age' = 0 /\ longest' = longest
      /\ again' = (again \/ age # 0)
  BY <1>1 DEF Answers!Receive
<1>3. /\ text' \in Texts
      /\ \A i \in 64 .. 71 :
            text'[i] = IF i < 70 THEN "digit" ELSE IF i = 70 THEN "colon" ELSE "zero"
      /\ \A i \in 72 .. 99 : text'[i] = text[i]
  BY <1>1, <1>2, ReadNone
<1>4. Answers!TypeOK'
  <2>1. alive' \in BOOLEAN
    BY <1>2 DEF Answers!Parses
  <2>2. detected' \in BOOLEAN
    BY <1>2 DEF Answers!Positive, AnswersInv, Answers!TypeOK
  <2>3. 64 \in Places /\ text'[64] = "digit"
    BY <1>3 DEF Places, Answers!Scan, Answers!Last
  <2>4. longest' \in {0} \cup Answers!AgeDigits /\ again' \in BOOLEAN
    BY <1>1, <1>2 DEF AnswersInv, Answers!TypeOK
  <2>5. QED
    BY <1>2, <1>3, <2>1, <2>2, <2>3, <2>4 DEF Answers!TypeOK, Texts, Places
<1>5. CASE again'
  BY <1>1, <1>2, <1>4, <1>5
     DEF AnswersInv, LeftBehind, MotionAsTold, DiesOfOldDigits,
         Answers!MotionAsTold, Answers!DiesOfOldDigits
<1>6. CASE ~again'
  <2>1. ~again /\ age = 0
    BY <1>2, <1>6
  <2>2. /\ longest = 0
        /\ \A i \in 72 .. 99 : text[i] = "nul"
    BY <1>2, <2>1 DEF AnswersInv, LeftBehind
  <2>3. AfterNone(text')
    BY <1>3, <2>2 DEF AfterNone, Places, Answers!Scan, Answers!Last
  <2>4. Answers!Parses(text') /\ ~Answers!Positive(text')
    BY <1>3, <2>3, NoneParsed
  <2>5. LeftBehind'
    BY <1>2, <1>3, <2>2 DEF LeftBehind
  <2>6. MotionAsTold' /\ DiesOfOldDigits'
    BY <1>2, <2>4 DEF MotionAsTold, Answers!MotionAsTold,
                      DiesOfOldDigits, Answers!DiesOfOldDigits
  <2>7. QED
    BY <1>1, <1>2, <1>4, <2>5, <2>6 DEF AnswersInv
<1>7. QED
  BY <1>5, <1>6

\* It holds at the beginning and in every state.
LEMMA AnswersAlways == Answers!Spec => []AnswersInv
<1>1. Answers!Init => AnswersInv
  <2> SUFFICES ASSUME Answers!Init PROVE AnswersInv
    OBVIOUS
  <2>1. /\ text = [i \in 58 .. 99 |-> "nul"] /\ alive = TRUE /\ detected = FALSE
        /\ age = 0 /\ longest = 0 /\ again = FALSE
    BY DEF Answers!Init, Answers!HeadRead, Answers!Last
  <2>2. text \in [Answers!HeadRead .. Answers!Last -> Answers!Bytes]
    BY <2>1 DEF Answers!HeadRead, Answers!Last, Answers!Bytes
  <2>3. Answers!TypeOK
    BY <2>1, <2>2 DEF Answers!TypeOK
  <2>4. LeftBehind
    BY <2>1 DEF LeftBehind
  <2>5. MotionAsTold /\ DiesOfOldDigits
    BY <2>1 DEF MotionAsTold, DiesOfOldDigits, Answers!MotionAsTold, Answers!DiesOfOldDigits
  <2>6. QED
    BY <2>1, <2>3, <2>4, <2>5 DEF AnswersInv
<1>2. AnswersInv /\ [Answers!Next]_Answers!answerVars => AnswersInv'
  <2>1. AnswersInv /\ UNCHANGED Answers!answerVars => AnswersInv'
    BY DEF Answers!answerVars, AnswersInv, Answers!TypeOK, LeftBehind, MotionAsTold,
           DiesOfOldDigits, Answers!MotionAsTold, Answers!DiesOfOldDigits
  <2>2. AnswersInv /\ Answers!Next => AnswersInv'
    BY EventInv, NoneInv DEF Answers!Next, Answers!AgeDigits
  <2>3. QED
    BY <2>1, <2>2
<1>3. QED
  BY <1>1, <1>2, PTL DEF Answers!Spec

-----------------------------------------------------------------------------
(* The theorems *)

\* Each way is a behaviour of its own module, and the other one is left alone.
THEOREM EachWay == TransportSpec => Spec /\ Answers!Spec
<1>1. TransportInit => Init /\ Answers!Init
  BY DEF TransportInit
<1>2. [Picture \/ Motion]_transportVars
          => [Next]_packetVars /\ [Answers!Next]_Answers!answerVars
  BY DEF Picture, Motion, transportVars, packetVars, answerVars, Answers!answerVars
<1>3. QED
  BY <1>1, <1>2, PTL DEF TransportSpec, Spec, Answers!Spec

\* Neither loop of PictureReciever reads beyond its part of the buffer, however
\* the packet is cut in pieces, and MotionDataReceiver tells of motion only when
\* there are digits where it looks for times.
THEOREM Typing == TransportSpec => []TransportTypeOK
<1>1. IInv /\ AnswersInv => TransportTypeOK
  BY DEF IInv, AnswersInv, TransportTypeOK
<1>2. QED
  BY <1>1, EachWay, Always, AnswersAlways, PTL

\* A picture sent in one piece arrives as it was sent, in however many reads, if
\* its header took no more than two.
THEOREM Whole == TransportSpec => []Intact
<1>1. IInv => Intact
  <2> SUFFICES ASSUME IInv, reading = "done", HeadWhole, firstSend = PacketSize,
                      NEW i \in 1 .. PacketSize
               PROVE  buffer[i] = i
    BY DEF Intact
  <2>1. offset \in Nat /\ PacketSize \in Nat /\ offset = PacketSize
    BY Numbers DEF IInv, OnePacket
  <2>2. QED
    BY <2>1 DEF IInv, InBuffer, Consumed, HeadWhole
<1>2. QED
  BY <1>1, EachWay, Always, PTL

\* As long as the header is whole the reader takes one packet, neither less nor
\* more, although sends of parts repeat its beginning.
THEOREM Borders == TransportSpec => []Framed
<1>1. IInv => Framed
  <2> SUFFICES ASSUME IInv, reading = "done", HeadWhole
               PROVE  written = PacketSize /\ stream = <<>>
    BY DEF Framed
  <2>1. offset = PacketSize /\ PacketSize \in Nat
    BY Numbers DEF IInv, OnePacket
  <2>2. stream \in Seq(1 .. PacketSize) /\ Len(stream) \in Nat
    BY Numbers DEF IInv
  <2>3. Len(stream) + PacketSize = written /\ written <= PacketSize
    BY <2>1 DEF IInv, Counts, Consumed, TypeOK
  <2>4. Len(stream) = 0 /\ written = PacketSize
    BY <2>1, <2>2, <2>3
  <2>5. QED
    BY <2>2, <2>4
<1>2. QED
  BY <1>1, EachWay, Always, PTL

\* Although the client skips the first bytes of the age, leaves the last bytes of
\* the answer and never clears its buffer, it reports motion exactly when the
\* motion server told of an event, until the motion server is started again.
THEOREM AsTold == TransportSpec => []MotionAsTold
<1>1. AnswersInv => MotionAsTold
  BY DEF AnswersInv
<1>2. QED
  BY <1>1, EachWay, AnswersAlways, PTL

\* What ends MotionDataReceiver is an age at least three digits shorter than one
\* before it, whose digits make the last number too long for an int.
THEOREM OldDigits == TransportSpec => []DiesOfOldDigits
<1>1. AnswersInv => DiesOfOldDigits
  BY DEF AnswersInv
<1>2. QED
  BY <1>1, EachWay, AnswersAlways, PTL
=============================================================================
