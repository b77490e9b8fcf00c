-------------------------- MODULE StreamFramerProofs --------------------------
(***************************************************************************)
(* Proofs about StreamFramer, for every set of messages, every way to cut  *)
(* the stream into chunks, and every behaviour of onMessage: the framer    *)
(* stays aligned with the frames, holds nothing back, and implements       *)
(* MessageChannel.                                                         *)
(***************************************************************************)
EXTENDS StreamFramer, SequenceTheorems, TLAPS

(* The frames lie in the stream one after the other, without gaps.         *)
Frames ==
    /\ EndOf(Len(sent)) = Len(stream)
    /\ \A n \in 1 .. Len(sent) :
          /\ ends[n] = EndOf(n - 1) + PrefixBytes + Len(sent[n])
          /\ ends[n] <= Len(stream)
          /\ \A i \in 1 .. PrefixBytes + Len(sent[n]) :
                stream[EndOf(n - 1) + i] = encodeFrame(sent[n])[i]

Ascending == \A m, n \in 1 .. Len(sent) : m <= n => ends[m] <= ends[n]

(* b holds the bytes of the stream after the first `from`, up to `to`.     *)
Holds(b, from, to) ==
    /\ b \in Seq(Byte)
    /\ Len(b) = to - from
    /\ \A i \in 1 .. to - from : b[i] = stream[from + i]

(* The bytes of the stream after the first `from`, up to `to`.             *)
Bytes(from, to) == SubSeq(stream, from + 1, to)

(* The first messages sent are the messages received.                      *)
InOrder == \A n \in 1 .. Len(received) : received[n] = sent[n]

IInv ==
    /\ TypeOK
    /\ Frames
    /\ Ascending
    /\ Aligned
    /\ InOrder
    /\ NothingHeldBack

-----------------------------------------------------------------------------
(* A stretch of a sequence of bytes.                                       *)
LEMMA Stretch ==
    ASSUME NEW S, NEW s \in Seq(S), NEW m \in 1 .. Len(s) + 1, NEW n \in m - 1 .. Len(s)
    PROVE  /\ SubSeq(s, m, n) \in Seq(S)
           /\ Len(SubSeq(s, m, n)) = n - m + 1
           /\ \A i \in 1 .. n - m + 1 : SubSeq(s, m, n)[i] = s[m + i - 1]
<1>1. m \in Int /\ n \in Int /\ Len(s) \in Nat
  BY LenProperties, SMT
<1>2. \A i \in m .. n : s[i] \in S
  <2> SUFFICES ASSUME NEW i \in m .. n PROVE s[i] \in S
    OBVIOUS
  <2>1. i \in 1 .. Len(s)
    BY <1>1, SMT
  <2> QED
    BY <2>1, ElementOfSeq
<1> QED
  BY <1>1, <1>2, SubSeqProperties, SMT

(* encodeFrame(m): the length, then the payload.                           *)
LEMMA Encoded ==
    ASSUME NEW m \in Payload
    PROVE  /\ encodeFrame(m) \in Seq(Byte)
           /\ Len(encodeFrame(m)) = PrefixBytes + Len(m)
           /\ SetUint(Len(m)) \in Seq(Byte) /\ Len(SetUint(Len(m))) = PrefixBytes
           /\ \A i \in 1 .. PrefixBytes : encodeFrame(m)[i] = SetUint(Len(m))[i]
           /\ \A i \in 1 .. Len(m) : encodeFrame(m)[PrefixBytes + i] = m[i]
<1>1. m \in Seq(Byte) /\ Len(m) \in Nat
  BY FramerAssumption, LenProperties
<1>2. PrefixBytes \in Nat
  BY FramerAssumption
<1>3. SetUint(Len(m)) \in [1 .. PrefixBytes -> Byte]
  BY FramerAssumption, DataViewAssumption
<1>4. SetUint(Len(m)) \in Seq(Byte) /\ Len(SetUint(Len(m))) = PrefixBytes
  <2> HIDE DEF SetUint
  <2> QED BY <1>2, <1>3, SMT
<1>5. /\ encodeFrame(m) \in Seq(Byte)
      /\ Len(encodeFrame(m)) = PrefixBytes + Len(m)
      /\ \A i \in 1 .. PrefixBytes + Len(m) : encodeFrame(m)[i] =
            IF i <= PrefixBytes THEN SetUint(Len(m))[i] ELSE m[i - PrefixBytes]
  BY <1>1, <1>4, ConcatProperties DEF encodeFrame
<1>6. \A i \in 1 .. PrefixBytes : encodeFrame(m)[i] = SetUint(Len(m))[i]
  BY <1>1, <1>2, <1>5, SMT
<1>7. \A i \in 1 .. Len(m) : encodeFrame(m)[PrefixBytes + i] = m[i]
  <2> SUFFICES ASSUME NEW i \in 1 .. Len(m)
               PROVE  encodeFrame(m)[PrefixBytes + i] = m[i]
    OBVIOUS
  <2>1. PICK j \in 1 .. PrefixBytes + Len(m) : j = PrefixBytes + i /\ ~(j <= PrefixBytes)
    BY <1>1, <1>2, SMT
  <2>2. j - PrefixBytes = i
    BY <1>2, <2>1, SMT
  <2> QED
    BY <1>5, <2>1, <2>2
<1> QED
  BY <1>4, <1>5, <1>6, <1>7

(* A buffer that begins with (what has arrived of) the frame of m: its     *)
(* length is read right, and so is m once all of it is there.              *)
LEMMA FirstFrame ==
    ASSUME NEW m \in Payload, NEW b \in Seq(Byte), Len(b) >= PrefixBytes,
           \A i \in 1 .. PrefixBytes + Len(m) : i <= Len(b) => b[i] = encodeFrame(m)[i]
    PROVE  /\ Total(b) = PrefixBytes + Len(m)
           /\ Complete(b) => Message(b) = m
<1>1. /\ m \in Seq(Byte) /\ Len(m) \in Nat /\ Len(m) \in 0 .. MaxLength
      /\ PrefixBytes \in Nat \ {0} /\ Len(b) \in Nat
  BY FramerAssumption, LenProperties
<1>2. /\ SubSeq(b, 1, PrefixBytes) \in Seq(Byte)
      /\ Len(SubSeq(b, 1, PrefixBytes)) = PrefixBytes
      /\ \A i \in 1 .. PrefixBytes : SubSeq(b, 1, PrefixBytes)[i] = b[i]
  <2>1. 1 \in 1 .. Len(b) + 1 /\ PrefixBytes \in 1 - 1 .. Len(b)
    BY <1>1, SMT
  <2>2. /\ SubSeq(b, 1, PrefixBytes) \in Seq(Byte)
        /\ Len(SubSeq(b, 1, PrefixBytes)) = PrefixBytes - 1 + 1
        /\ \A i \in 1 .. PrefixBytes - 1 + 1 : SubSeq(b, 1, PrefixBytes)[i] = b[1 + i - 1]
    BY <2>1, Stretch
  <2> QED
    BY <1>1, <2>2, SMT
<1>3. \A i \in 1 .. PrefixBytes : SubSeq(b, 1, PrefixBytes)[i] = SetUint(Len(m))[i]
  <2> SUFFICES ASSUME NEW i \in 1 .. PrefixBytes
               PROVE  SubSeq(b, 1, PrefixBytes)[i] = SetUint(Len(m))[i]
    OBVIOUS
  <2>1. i \in 1 .. PrefixBytes + Len(m) /\ i <= Len(b)
    BY <1>1, SMT
  <2> QED
    BY <1>2, <2>1, Encoded
<1>4. SubSeq(b, 1, PrefixBytes) = SetUint(Len(m))
  BY <1>2, <1>3, Encoded, SeqEqual
<1>5. Total(b) = PrefixBytes + Len(m)
  BY <1>1, <1>4, DataViewAssumption DEF Total
<1>6. ASSUME Complete(b)
      PROVE  Message(b) = m
  <2>1. Len(b) >= PrefixBytes + Len(m)
    BY <1>5, <1>6 DEF Complete
  <2>2. PICK k \in 1 .. Len(b) + 1 : k = PrefixBytes + 1
    BY <1>1, SMT
  <2>3. PICK t \in k - 1 .. Len(b) : t = PrefixBytes + Len(m)
    BY <1>1, <2>1, <2>2, SMT
  <2>4. Message(b) = SubSeq(b, k, t)
    BY <1>5, <2>2, <2>3 DEF Message
  <2>5. /\ SubSeq(b, k, t) \in Seq(Byte)
        /\ Len(SubSeq(b, k, t)) = t - k + 1
        /\ \A i \in 1 .. t - k + 1 : SubSeq(b, k, t)[i] = b[k + i - 1]
    BY Stretch
  <2>6. t - k + 1 = Len(m)
    BY <1>1, <2>2, <2>3, SMT
  <2>7. ASSUME NEW i \in 1 .. Len(m)
        PROVE  SubSeq(b, k, t)[i] = m[i]
    <3>1. PICK j \in 1 .. PrefixBytes + Len(m) : j = PrefixBytes + i /\ j <= Len(b)
      BY <1>1, <2>1, SMT
    <3>2. k + i - 1 = j
      BY <1>1, <2>2, <3>1, SMT
    <3>3. SubSeq(b, k, t)[i] = b[j]
      BY <2>5, <2>6, <3>2
    <3> QED
      BY <3>1, <3>3, Encoded
  <2> QED
    BY <1>1, <2>4, <2>5, <2>6, <2>7, SeqEqual
<1> QED
  BY <1>5, <1>6

(* Cutting d bytes off a buffer that holds the stream from e on.           *)
LEMMA CutOff ==
    ASSUME stream \in Seq(Byte),
           NEW e \in Nat, NEW a \in Nat, NEW d \in Nat, NEW b, Holds(b, e, a),
           d = Total(b), e + d <= a, a <= Len(stream)
    PROVE  Rest(b) = Bytes(e + d, a)
<1> DEFINE s == stream
<1>0. /\ s \in Seq(Byte) /\ Len(s) \in Nat /\ a <= Len(s)
      /\ b \in Seq(Byte) /\ Len(b) = a - e
  BY LenProperties DEF Holds
<1>h. \A i \in 1 .. a - e : b[i] = s[e + i]
  BY DEF Holds
<1> HIDE DEF s
<1>1. d + 1 \in 1 .. Len(b) + 1 /\ Len(b) \in (d + 1) - 1 .. Len(b)
  BY <1>0, SMT
<1>2. e + d + 1 \in 1 .. Len(s) + 1 /\ a \in (e + d + 1) - 1 .. Len(s)
  BY <1>0, SMT
<1>3. /\ SubSeq(b, d + 1, Len(b)) \in Seq(Byte)
      /\ Len(SubSeq(b, d + 1, Len(b))) = Len(b) - (d + 1) + 1
      /\ \A i \in 1 .. Len(b) - (d + 1) + 1 : SubSeq(b, d + 1, Len(b))[i] = b[(d + 1) + i - 1]
  <2>1. PICK m \in 1 .. Len(b) + 1 : m = d + 1 /\ Len(b) \in m - 1 .. Len(b)
    BY <1>1
  <2>2. PICK l \in m - 1 .. Len(b) : l = Len(b)
    BY <2>1
  <2>3. /\ SubSeq(b, m, l) \in Seq(Byte)
        /\ Len(SubSeq(b, m, l)) = l - m + 1
        /\ \A i \in 1 .. l - m + 1 : SubSeq(b, m, l)[i] = b[m + i - 1]
    BY ONLY <1>0, Stretch
  <2> QED
    BY ONLY <2>1, <2>2, <2>3
<1>4. /\ SubSeq(s, e + d + 1, a) \in Seq(Byte)
      /\ Len(SubSeq(s, e + d + 1, a)) = a - (e + d + 1) + 1
      /\ \A i \in 1 .. a - (e + d + 1) + 1 : SubSeq(s, e + d + 1, a)[i] = s[(e + d + 1) + i - 1]
  <2>1. PICK m \in 1 .. Len(s) + 1 : m = e + d + 1 /\ a \in m - 1 .. Len(s)
    BY <1>2
  <2>2. PICK l \in m - 1 .. Len(s) : l = a
    BY <2>1
  <2>3. /\ SubSeq(s, m, l) \in Seq(Byte)
        /\ Len(SubSeq(s, m, l)) = l - m + 1
        /\ \A i \in 1 .. l - m + 1 : SubSeq(s, m, l)[i] = s[m + i - 1]
    BY ONLY <1>0, Stretch
  <2> QED
    BY ONLY <2>1, <2>2, <2>3
<1>5. Len(b) - (d + 1) + 1 = a - e - d /\ a - (e + d + 1) + 1 = a - e - d
  BY <1>0, SMT
<1>6. ASSUME NEW i \in 1 .. a - e - d
      PROVE  SubSeq(b, d + 1, Len(b))[i] = SubSeq(s, e + d + 1, a)[i]
  <2>1. d + i \in 1 .. a - e /\ (d + 1) + i - 1 = d + i /\ (e + d + 1) + i - 1 = e + (d + i)
    BY ONLY SMT
  <2>2. SubSeq(b, d + 1, Len(b))[i] = b[d + i]
    BY <1>3, <1>5, <2>1
  <2>3. SubSeq(s, e + d + 1, a)[i] = s[e + (d + i)]
    BY <1>4, <1>5, <2>1
  <2> QED
    BY <1>h, <2>1, <2>2, <2>3
<1>7. SubSeq(b, d + 1, Len(b)) = SubSeq(s, e + d + 1, a)
  BY <1>3, <1>4, <1>5, <1>6, SeqEqual
<1> QED
  BY <1>7 DEF s, Rest, Bytes

(* What a turn of the loop finds when the buffer holds the stream from the *)
(* end of message r up to byte a: message r + 1, or less than its frame.   *)
LEMMA Turn ==
    ASSUME TypeOK, Frames, Ascending,
           NEW r \in 0 .. Len(sent), NEW a \in EndOf(r) .. Len(stream),
           NEW b, Holds(b, EndOf(r), a)
    PROVE  /\ Complete(b) => /\ r + 1 \in 1 .. Len(sent)
                             /\ Message(b) = sent[r + 1]
                             /\ ends[r + 1] <= a
                             /\ Rest(b) = Bytes(ends[r + 1], a)
           /\ ~Complete(b) => \A n \in 1 .. Len(sent) : ends[n] <= a => n <= r
<1>1. /\ stream \in Seq(Byte) /\ Len(stream) \in Nat
      /\ sent \in Seq(Payload) /\ Len(sent) \in Nat
      /\ ends \in Seq(Nat) /\ Len(ends) = Len(sent)
      /\ PrefixBytes \in Nat \ {0}
  BY FramerAssumption, LenProperties DEF TypeOK
<1>2. \A n \in 1 .. Len(sent) : ends[n] \in Nat
  BY <1>1, ElementOfSeq
<1>3. EndOf(r) \in Nat /\ a \in Nat /\ EndOf(r) <= a /\ a <= Len(stream)
  BY <1>1, <1>2, SMT DEF EndOf
<1>4. /\ b \in Seq(Byte) /\ Len(b) \in Nat
      /\ Len(b) = a - EndOf(r)
      /\ \A i \in 1 .. a - EndOf(r) : b[i] = stream[EndOf(r) + i]
  BY LenProperties DEF Holds
<1>5. CASE r = Len(sent)
  <2>1. EndOf(r) = Len(stream)
    BY <1>5 DEF Frames
  <2>2. ~Complete(b)
    BY <1>1, <1>3, <1>4, <2>1, SMT DEF Complete
  <2>3. \A n \in 1 .. Len(sent) : n <= r
    BY <1>1, <1>5, SMT
  <2> QED
    BY <1>4, <2>2, <2>3
<1>6. CASE r # Len(sent)
  <2>1. PICK q \in 1 .. Len(sent) : q = r + 1 /\ q - 1 = r
    BY <1>1, <1>6, SMT
  <2>2. sent[q] \in Payload
    BY <1>1, ElementOfSeq
  <2>3. Len(sent[q]) \in Nat
    BY <2>2, FramerAssumption, LenProperties
  <2>4. /\ ends[q] = EndOf(r) + PrefixBytes + Len(sent[q])
        /\ ends[q] <= Len(stream)
        /\ \A i \in 1 .. PrefixBytes + Len(sent[q]) :
              stream[EndOf(r) + i] = encodeFrame(sent[q])[i]
    BY <2>1 DEF Frames
  <2>5. \A i \in 1 .. PrefixBytes + Len(sent[q]) :
           i <= Len(b) => b[i] = encodeFrame(sent[q])[i]
    <3> SUFFICES ASSUME NEW i \in 1 .. PrefixBytes + Len(sent[q]), i <= Len(b)
                 PROVE  b[i] = encodeFrame(sent[q])[i]
      OBVIOUS
    <3>1. i \in 1 .. a - EndOf(r)
      <4>1. i \in Int /\ 1 <= i
        BY <1>1, <2>3, SMT
      <4> QED
        BY <1>3, <1>4, <4>1, SMT
    <3> QED
      BY <1>4, <2>4, <3>1
  <2>6. Len(b) >= PrefixBytes =>
           /\ Total(b) = PrefixBytes + Len(sent[q])
           /\ Complete(b) => Message(b) = sent[q]
    BY <1>4, <2>2, <2>5, FirstFrame
  <2>n. /\ EndOf(r) \in Nat /\ PrefixBytes \in Nat \ {0} /\ Len(sent[q]) \in Nat
        /\ Len(b) \in Nat /\ Len(stream) \in Nat /\ a \in Nat /\ ends[q] \in Nat
        /\ Len(b) = a - EndOf(r)
        /\ ends[q] = EndOf(r) + PrefixBytes + Len(sent[q])
        /\ EndOf(r) <= a /\ a <= Len(stream) /\ ends[q] <= Len(stream)
    BY <1>1, <1>2, <1>3, <1>4, <2>3, <2>4, LenProperties
  <2>m. PICK p \in Nat, l \in Nat, e \in Nat, x \in Nat, y \in Nat :
           /\ p = PrefixBytes /\ l = Len(sent[q])
           /\ e = EndOf(r) /\ x = ends[q] /\ y = Len(b)
    BY <2>n
  <2>k. y = a - e /\ x = e + p + l /\ e <= a /\ a \in Nat
    BY <2>m, <2>n
  <2>7. ASSUME Complete(b)
        PROVE  Message(b) = sent[q] /\ ends[q] <= a /\ Rest(b) = Bytes(ends[q], a)
    <3>1. Message(b) = sent[q] /\ Total(b) = PrefixBytes + Len(sent[q]) /\ Total(b) <= Len(b)
      <4>1. Len(b) >= PrefixBytes /\ Len(b) >= Total(b)
        BY <2>7 DEF Complete
      <4>2. Total(b) = PrefixBytes + Len(sent[q]) /\ Message(b) = sent[q]
        BY <2>6, <2>7, <4>1
      <4> QED
        BY <2>n, <4>1, <4>2, SMT
    <3>2. ends[q] <= a
      <4>1. p + l <= y
        BY <2>m, <3>1
      <4>2. x <= a
        BY ONLY <2>k, <4>1, SMT
      <4> QED
        BY <2>m, <4>2
    <3>3. Rest(b) = Bytes(ends[q], a)
      <4>1. PICK d \in Nat : d = Total(b)
        BY ONLY <2>n, <3>1, SMT
      <4>2. EndOf(r) + d = ends[q]
        <5>1. d = p + l
          BY <2>m, <3>1, <4>1
        <5>2. e + d = x
          BY ONLY <2>k, <5>1, SMT
        <5> QED
          BY <2>m, <5>2
      <4>3. Rest(b) = Bytes(EndOf(r) + d, a)
        <5>1. e + d <= a
          BY <2>m, <3>2, <4>2
        <5>2. a \in Nat /\ a <= Len(stream) /\ Holds(b, e, a)
          BY <1>3, <2>m
        <5>3. Rest(b) = Bytes(e + d, a)
          BY <1>1, <4>1, <5>1, <5>2, CutOff
        <5> QED
          BY <2>m, <5>3
      <4> QED
        BY <4>2, <4>3
    <3> QED
      BY <3>1, <3>2, <3>3
  <2>8. ASSUME ~Complete(b), NEW n \in 1 .. Len(sent), ends[n] <= a
        PROVE  n <= r
    <3>1. SUFFICES ASSUME q <= n PROVE FALSE
      BY <1>1, <2>1, SMT
    <3>2. ends[q] <= ends[n]
      BY <3>1 DEF Ascending
    <3>3. ends[q] <= a
      <4>1. ends[n] \in Nat
        BY <1>2, <2>8
      <4> QED
        BY <2>n, <2>8, <3>2, <4>1, SMT
    <3>4. Len(b) >= PrefixBytes + Len(sent[q]) /\ Len(b) >= PrefixBytes
      <4>1. x <= a
        BY <2>m, <3>3
      <4>2. y >= p + l /\ y >= p
        BY ONLY <2>k, <4>1, SMT
      <4> QED
        BY <2>m, <4>2
    <3> QED
      BY <2>6, <2>8, <3>4 DEF Complete
  <2> QED
    BY <1>4, <2>1, <2>7, <2>8
<1> QED
  BY <1>5, <1>6

(* A turn of the loop over a buffer that is aligned with the stream leaves *)
(* everything as the invariant demands.                                    *)
LEMMA RunAligned ==
    ASSUME IInv, NEW b, NEW below \in Nat, NEW a \in arrived .. Len(stream),
           Holds(b, EndOf(Len(received)), a), Run(b, below),
           arrived' = a, UNCHANGED wire
    PROVE  IInv'
<1>0. PICK r \in Nat : r = Len(received)
  BY LenProperties DEF IInv, TypeOK
<1>1. /\ TypeOK /\ Frames /\ Ascending /\ Aligned /\ InOrder
      /\ stream \in Seq(Byte) /\ Len(stream) \in Nat
      /\ sent \in Seq(Payload) /\ Len(sent) \in Nat
      /\ received \in Seq(Payload)
      /\ ends \in Seq(Nat) /\ Len(ends) = Len(sent)
      /\ arrived \in Nat /\ a \in Nat
  BY LenProperties, SMT DEF IInv, TypeOK
<1>2. r \in 0 .. Len(sent) /\ EndOf(r) <= arrived
  BY <1>0, <1>1, SMT DEF Aligned
<1>3. EndOf(r) \in Nat
  BY <1>1, <1>2, ElementOfSeq, SMT DEF EndOf
<1>4. a \in EndOf(r) .. Len(stream) /\ a \in 0 .. Len(stream)
  BY <1>1, <1>2, <1>3, SMT
<1>5. /\ b \in Seq(Byte)
      /\ Complete(b) => /\ r + 1 \in 1 .. Len(sent)
                        /\ Message(b) = sent[r + 1]
                        /\ ends[r + 1] <= a
                        /\ Rest(b) = Bytes(ends[r + 1], a)
      /\ ~Complete(b) => \A n \in 1 .. Len(sent) : ends[n] <= a => n <= r
  <2>1. /\ Complete(b) => /\ r + 1 \in 1 .. Len(sent)
                          /\ Message(b) = sent[r + 1]
                          /\ ends[r + 1] <= a
                          /\ Rest(b) = Bytes(ends[r + 1], a)
        /\ ~Complete(b) => \A n \in 1 .. Len(sent) : ends[n] <= a => n <= r
    BY <1>0, <1>1, <1>2, <1>4, Turn
  <2> QED
    BY <2>1 DEF Holds
<1>6. stream' = stream /\ sent' = sent /\ ends' = ends
  BY DEF wire
<1>7. Frames' /\ Ascending'
  BY <1>1, <1>6 DEF Frames, Ascending, EndOf
<1>8. CASE Complete(b)
  <2>1. /\ buffer' = Rest(b) /\ open' = below + 1
        /\ received' = Append(received, Message(b)) /\ threw' = FALSE
    BY <1>8 DEF Run
  <2>2. Message(b) \in Payload
    BY <1>1, <1>5, <1>8, ElementOfSeq
  <2>3. /\ received' \in Seq(Payload) /\ Len(received') = r + 1
        /\ \A i \in 1 .. r : received'[i] = received[i]
        /\ received'[r + 1] = Message(b)
    BY <1>0, <1>1, <2>1, <2>2, AppendProperties
  <2>4. EndOf(Len(received))' = ends[r + 1]
    <3>1. r + 1 # 0
      BY SMT
    <3> QED
      BY <1>6, <2>3, <3>1 DEF EndOf
  <2>5. ends[r + 1] \in Nat
    BY <1>1, <1>5, <1>8, ElementOfSeq
  <2>6. Aligned'
    <3>1. Len(received') <= Len(sent')
      BY <1>1, <1>5, <1>6, <1>8, <2>3, SMT
    <3>2. buffer' = SubSeq(stream', EndOf(Len(received))' + 1, arrived')
      BY <1>5, <1>6, <1>8, <2>1, <2>4 DEF Bytes
    <3> QED
      BY <1>5, <1>8, <2>4, <3>1, <3>2 DEF Aligned
  <2>7. buffer' \in Seq(Byte)
    <3>1. ends[r + 1] + 1 \in 1 .. Len(stream) + 1 /\ a \in (ends[r + 1] + 1) - 1 .. Len(stream)
      <4>1. ends[r + 1] <= a /\ a <= Len(stream)
        BY <1>1, <1>4, <1>5, <1>8, SMT
      <4> QED
        BY <1>1, <2>5, <4>1, SMT
    <3> QED
      BY <1>1, <1>5, <1>8, <2>1, <3>1, Stretch DEF Bytes
  <2>8. InOrder'
    <3> SUFFICES ASSUME NEW n \in 1 .. Len(received') PROVE received'[n] = sent[n]
      BY <1>6 DEF InOrder
    <3>1. n \in 1 .. r \/ n = r + 1
      BY <1>1, <2>3, SMT
    <3> QED
      BY <1>0, <1>1, <1>5, <1>8, <2>3, <3>1 DEF InOrder
  <2>9. TypeOK'
    <3>1. open' \in Nat
      BY <2>1, SMT
    <3>2. threw' \in BOOLEAN
      BY <2>1
    <3> QED
      BY <1>1, <1>4, <1>6, <2>3, <2>7, <3>1, <3>2 DEF TypeOK
  <2>10. NothingHeldBack'
    BY <2>1, SMT DEF NothingHeldBack
  <2> QED
    BY <1>7, <2>6, <2>8, <2>9, <2>10 DEF IInv
<1>9. CASE ~Complete(b)
  <2>1. /\ buffer' = b /\ open' = below /\ received' = received /\ threw' = FALSE
    BY <1>9 DEF Run
  <2>2. TypeOK'
    <3>1. open' \in Nat /\ threw' \in BOOLEAN
      BY <2>1
    <3> QED
      BY <1>1, <1>4, <1>5, <1>6, <2>1, <3>1 DEF TypeOK
  <2>3. EndOf(Len(received))' = EndOf(r)
    BY <1>0, <1>6, <2>1 DEF EndOf
  <2>4. b = SubSeq(stream, EndOf(r) + 1, a)
    <3>1. EndOf(r) + 1 \in 1 .. Len(stream) + 1 /\ a \in (EndOf(r) + 1) - 1 .. Len(stream)
      BY <1>1, <1>3, <1>4, SMT
    <3>2. /\ SubSeq(stream, EndOf(r) + 1, a) \in Seq(Byte)
          /\ Len(SubSeq(stream, EndOf(r) + 1, a)) = a - (EndOf(r) + 1) + 1
          /\ \A i \in 1 .. a - (EndOf(r) + 1) + 1 :
                SubSeq(stream, EndOf(r) + 1, a)[i] = stream[(EndOf(r) + 1) + i - 1]
      BY <1>1, <3>1, Stretch
    <3>3. a - (EndOf(r) + 1) + 1 = a - EndOf(r)
      BY <1>1, <1>3, SMT
    <3>4. ASSUME NEW i \in 1 .. a - EndOf(r)
          PROVE  b[i] = SubSeq(stream, EndOf(r) + 1, a)[i]
      <4>1. (EndOf(r) + 1) + i - 1 = EndOf(r) + i
        BY <1>3, SMT
      <4> QED
        BY <1>0, <3>2, <3>3, <4>1 DEF Holds
    <3> QED
      BY <1>0, <3>2, <3>3, <3>4, SeqEqual DEF Holds
  <2>5. Aligned'
    <3>1. EndOf(r) <= a
      BY <1>1, <1>2, <1>3, SMT
    <3> QED
      BY <1>1, <1>6, <2>1, <2>3, <2>4, <3>1 DEF Aligned
  <2>6. InOrder'
    BY <1>1, <1>6, <2>1 DEF InOrder
  <2>7. NothingHeldBack'
    BY <1>0, <1>5, <1>6, <1>9, <2>1 DEF NothingHeldBack
  <2> QED
    BY <1>7, <2>2, <2>5, <2>6, <2>7 DEF IInv
<1> QED
  BY <1>8, <1>9

(* What the buffer holds between two steps, and with the next n bytes.     *)
LEMMA Numbers ==
    ASSUME IInv
    PROVE  /\ stream \in Seq(Byte) /\ Len(stream) \in Nat
           /\ sent \in Seq(Payload) /\ Len(sent) \in Nat
           /\ Len(received) \in 0 .. Len(sent)
           /\ EndOf(Len(received)) \in Nat /\ arrived \in Nat /\ open \in Nat
           /\ EndOf(Len(received)) <= arrived /\ arrived <= Len(stream)
<1>1. /\ stream \in Seq(Byte) /\ Len(stream) \in Nat
      /\ sent \in Seq(Payload) /\ Len(sent) \in Nat
      /\ received \in Seq(Payload) /\ Len(received) \in Nat
      /\ ends \in Seq(Nat) /\ Len(ends) = Len(sent) /\ open \in Nat
  BY LenProperties DEF IInv, TypeOK
<1>2. arrived \in Nat /\ arrived <= Len(stream)
  BY <1>1, SMT DEF IInv, TypeOK
<1>3. Len(received) \in 0 .. Len(sent) /\ EndOf(Len(received)) <= arrived
  BY <1>1, SMT DEF IInv, Aligned
<1>4. EndOf(Len(received)) \in Nat
  BY <1>1, <1>3, ElementOfSeq, SMT DEF EndOf
<1> QED
  BY <1>1, <1>2, <1>3, <1>4

LEMMA BufferHolds ==
    ASSUME IInv
    PROVE  Holds(buffer, EndOf(Len(received)), arrived)
<1>1. PICK e \in Nat : e = EndOf(Len(received))
  BY Numbers
<1>2. stream \in Seq(Byte) /\ Len(stream) \in Nat /\ arrived \in Nat
      /\ e <= arrived /\ arrived <= Len(stream)
  BY <1>1, Numbers
<1>3. buffer = SubSeq(stream, e + 1, arrived)
  BY <1>1 DEF IInv, Aligned
<1>4. PICK k \in 1 .. Len(stream) + 1 : k = e + 1 /\ arrived \in k - 1 .. Len(stream)
  <2>1. e + 1 \in 1 .. Len(stream) + 1 /\ arrived \in (e + 1) - 1 .. Len(stream)
    BY <1>2, SMT
  <2> QED
    BY <2>1
<1>5. /\ SubSeq(stream, k, arrived) \in Seq(Byte)
      /\ Len(SubSeq(stream, k, arrived)) = arrived - k + 1
      /\ \A i \in 1 .. arrived - k + 1 : SubSeq(stream, k, arrived)[i] = stream[k + i - 1]
  BY <1>2, <1>4, Stretch
<1>6. arrived - k + 1 = arrived - e
  BY <1>2, <1>4, SMT
<1>7. ASSUME NEW i \in 1 .. arrived - e
      PROVE  buffer[i] = stream[e + i]
  <2>1. k + i - 1 = e + i
    BY <1>2, <1>4, SMT
  <2> QED
    BY <1>3, <1>4, <1>5, <1>6, <2>1
<1>8. Holds(buffer, e, arrived)
  BY <1>3, <1>4, <1>5, <1>6, <1>7 DEF Holds
<1> QED
  BY <1>1, <1>8

LEMMA ChunkHolds ==
    ASSUME IInv, NEW n \in Nat, arrived + n <= Len(stream)
    PROVE  Holds(buffer \o SubSeq(stream, arrived + 1, arrived + n),
                 EndOf(Len(received)), arrived + n)
<1>1. PICK e \in Nat : e = EndOf(Len(received))
  BY Numbers
<1>2. PICK c \in Nat : c = arrived
  BY Numbers
<1>3. stream \in Seq(Byte) /\ Len(stream) \in Nat
      /\ e <= c /\ c <= Len(stream) /\ c + n <= Len(stream)
  BY <1>1, <1>2, Numbers
<1>4. Holds(buffer, e, c)
  BY <1>1, <1>2, BufferHolds
<1>5. PICK k \in 1 .. Len(stream) + 1 : k = c + 1 /\ c + n \in k - 1 .. Len(stream)
  <2>1. c + 1 \in 1 .. Len(stream) + 1 /\ c + n \in (c + 1) - 1 .. Len(stream)
    BY <1>3, SMT
  <2> QED
    BY <2>1
<1>6. PICK t : t = SubSeq(stream, k, c + n)
  OBVIOUS
<1>7. t \in Seq(Byte) /\ Len(t) = n /\ \A i \in 1 .. n : t[i] = stream[k + i - 1]
  <2>1. PICK x \in k - 1 .. Len(stream) : x = c + n
    BY <1>5
  <2>2. /\ SubSeq(stream, k, x) \in Seq(Byte)
        /\ Len(SubSeq(stream, k, x)) = x - k + 1
        /\ \A i \in 1 .. x - k + 1 : SubSeq(stream, k, x)[i] = stream[k + i - 1]
    BY <1>3, <1>5, Stretch
  <2>3. x - k + 1 = n
    BY <1>3, <1>5, <2>1, SMT
  <2> QED
    BY <1>6, <2>1, <2>2, <2>3
<1>8. buffer \in Seq(Byte) /\ Len(buffer) = c - e
      /\ \A i \in 1 .. c - e : buffer[i] = stream[e + i]
  BY <1>4 DEF Holds
<1>9. /\ buffer \o t \in Seq(Byte)
      /\ Len(buffer \o t) = Len(buffer) + Len(t)
      /\ \A i \in 1 .. Len(buffer) + Len(t) : (buffer \o t)[i] =
            IF i <= Len(buffer) THEN buffer[i] ELSE t[i - Len(buffer)]
  BY <1>7, <1>8, ConcatProperties
<1>10. Len(buffer) + Len(t) = (c + n) - e
  BY <1>3, <1>7, <1>8, SMT
<1>11. ASSUME NEW i \in 1 .. (c + n) - e
       PROVE  (buffer \o t)[i] = stream[e + i]
  <2>1. CASE i <= c - e
    <3>1. i \in 1 .. c - e
      BY <1>3, <2>1, SMT
    <3> QED
      BY <1>8, <1>9, <1>10, <2>1, <3>1
  <2>2. CASE ~(i <= c - e)
    <3>1. i - (c - e) \in 1 .. n /\ k + (i - (c - e)) - 1 = e + i
      BY <1>3, <1>5, <2>2, SMT
    <3>2. t[i - (c - e)] = stream[e + i]
      BY <1>7, <3>1
    <3> QED
      BY <1>8, <1>9, <1>10, <2>2, <3>2
  <2> QED
    BY <2>1, <2>2
<1>12. Holds(buffer \o t, e, c + n)
  BY <1>9, <1>10, <1>11 DEF Holds
<1> QED
  BY <1>1, <1>2, <1>5, <1>6, <1>12

-----------------------------------------------------------------------------
(* Each action keeps the invariant. *)

LEMMA PushInv == ASSUME IInv, NEW n \in Nat, Push(n) PROVE IInv'
<1>1. PICK c : c = buffer \o SubSeq(stream, arrived + 1, arrived + n)
  OBVIOUS
<1>2. Run(c, open) /\ arrived' = arrived + n /\ arrived + n <= Len(stream) /\ UNCHANGED wire
  BY <1>1 DEF Push
<1>3. Holds(c, EndOf(Len(received)), arrived + n)
  BY <1>1, <1>2, ChunkHolds
<1>4. arrived + n \in arrived .. Len(stream)
  BY <1>2, Numbers, SMT
<1>5. open \in Nat
  BY Numbers
<1> QED
  BY <1>2, <1>3, <1>4, <1>5, RunAligned

LEMMA ReturnInv == ASSUME IInv, OnMessageReturns PROVE IInv'
<1>1. Run(buffer, open - 1) /\ arrived' = arrived /\ UNCHANGED wire
  BY DEF OnMessageReturns
<1>2. open - 1 \in Nat /\ arrived \in arrived .. Len(stream)
  BY Numbers, SMT DEF OnMessageReturns
<1> QED
  BY <1>1, <1>2, BufferHolds, RunAligned

LEMMA ThrowInv == ASSUME IInv, OnMessageThrows PROVE IInv'
<1>1. /\ open' = open - 1 /\ threw' = TRUE /\ stream' = stream /\ sent' = sent /\ ends' = ends
      /\ arrived' = arrived /\ buffer' = buffer /\ received' = received
  BY DEF OnMessageThrows, wire
<1>2. open' \in Nat
  BY <1>1, Numbers, SMT DEF OnMessageThrows
<1>3. TypeOK'
  BY <1>1, <1>2 DEF IInv, TypeOK
<1>4. Frames' /\ Ascending' /\ Aligned' /\ InOrder'
  BY <1>1 DEF IInv, Frames, Ascending, Aligned, InOrder, EndOf
<1>5. NothingHeldBack'
  BY <1>1 DEF NothingHeldBack
<1> QED
  BY <1>3, <1>4, <1>5 DEF IInv

LEMMA WriteInv == ASSUME IInv, NEW m \in Payload, Write(m) PROVE IInv'
<1>1. PICK f : f = encodeFrame(m)
  OBVIOUS
<1>2. PICK L \in Nat : L = Len(stream)
  BY Numbers
<1>3. PICK N \in Nat : N = Len(sent)
  BY Numbers
<1>4. /\ f \in Seq(Byte) /\ Len(f) = PrefixBytes + Len(m) /\ Len(m) \in Nat
      /\ PrefixBytes \in Nat \ {0}
  BY <1>1, Encoded, FramerAssumption, LenProperties
<1>5. /\ stream \in Seq(Byte) /\ sent \in Seq(Payload)
      /\ ends \in Seq(Nat) /\ Len(ends) = N
  BY <1>3 DEF IInv, TypeOK
<1>6. /\ stream' = stream \o f /\ sent' = Append(sent, m)
      /\ ends' = Append(ends, Len(stream'))
      /\ arrived' = arrived /\ buffer' = buffer /\ open' = open
      /\ received' = received /\ threw' = threw
  BY <1>1 DEF Write
<1>7. /\ stream' \in Seq(Byte) /\ Len(stream') = L + Len(f)
      /\ \A i \in 1 .. L + Len(f) : stream'[i] = IF i <= L THEN stream[i] ELSE f[i - L]
  <2>1. /\ stream \o f \in Seq(Byte) /\ Len(stream \o f) = Len(stream) + Len(f)
        /\ \A i \in 1 .. Len(stream) + Len(f) :
              (stream \o f)[i] = IF i <= Len(stream) THEN stream[i] ELSE f[i - Len(stream)]
    BY ONLY <1>4, <1>5, ConcatProperties
  <2> QED
    BY <1>2, <1>6, <2>1
<1>8. L + Len(f) \in Nat /\ L < L + Len(f) /\ L + Len(f) = L + PrefixBytes + Len(m)
  BY <1>4, SMT
<1>9. /\ sent' \in Seq(Payload) /\ Len(sent') = N + 1
      /\ \A i \in 1 .. N : sent'[i] = sent[i]
      /\ sent'[N + 1] = m
  BY <1>3, <1>5, <1>6, AppendProperties
<1>10. /\ ends' \in Seq(Nat) /\ Len(ends') = N + 1
       /\ \A i \in 1 .. N : ends'[i] = ends[i]
       /\ ends'[N + 1] = L + Len(f)
  BY <1>5, <1>6, <1>7, <1>8, AppendProperties
<1>11. \A k \in 0 .. N : EndOf(k)' = EndOf(k)
  <2> SUFFICES ASSUME NEW k \in 0 .. N PROVE EndOf(k)' = EndOf(k)
    OBVIOUS
  <2>1. CASE k = 0
    BY <2>1 DEF EndOf
  <2>2. CASE k # 0
    <3>1. k \in 1 .. N
      BY <2>2, SMT
    <3> QED
      BY <2>2, <3>1, <1>10 DEF EndOf
  <2> QED
    BY <2>1, <2>2
<1>12. \A n \in 1 .. N : ends[n] \in Nat /\ ends[n] <= L
  BY <1>2, <1>3, <1>5, ElementOfSeq DEF IInv, Frames
<1>13. \A i \in 1 .. L : stream'[i] = stream[i]
  <2> SUFFICES ASSUME NEW i \in 1 .. L PROVE stream'[i] = stream[i]
    OBVIOUS
  <2>1. i \in 1 .. L + Len(f) /\ i <= L
    BY <1>8, SMT
  <2> QED
    BY <2>1, <1>7
<1>14. \A n \in 1 .. N + 1 : n \in 1 .. N \/ n = N + 1
  BY SMT
<1>15. EndOf(N) = L
  BY <1>2, <1>3 DEF IInv, Frames
<1>16. Frames'
  <2>1. EndOf(Len(sent))' = Len(stream')
    <3>1. N + 1 # 0
      BY SMT
    <3> QED
      BY <3>1, <1>7, <1>9, <1>10 DEF EndOf
  <2>2. ASSUME NEW n \in 1 .. N
        PROVE  /\ ends'[n] = EndOf(n - 1)' + PrefixBytes + Len(sent'[n])
               /\ ends'[n] <= Len(stream')
               /\ \A i \in 1 .. PrefixBytes + Len(sent'[n]) :
                     stream'[EndOf(n - 1)' + i] = encodeFrame(sent'[n])[i]
    <3>1. /\ ends[n] = EndOf(n - 1) + PrefixBytes + Len(sent[n])
          /\ \A i \in 1 .. PrefixBytes + Len(sent[n]) :
                stream[EndOf(n - 1) + i] = encodeFrame(sent[n])[i]
      BY <1>3 DEF IInv, Frames
    <3>2. n - 1 \in 0 .. N
      BY SMT
    <3>3. EndOf(n - 1)' = EndOf(n - 1) /\ sent'[n] = sent[n] /\ ends'[n] = ends[n]
      BY <3>2, <1>9, <1>10, <1>11
    <3>4. ends'[n] <= Len(stream')
      <4>1. ends[n] \in Nat /\ ends[n] <= L
        BY <1>12
      <4> QED
        BY <4>1, <3>3, <1>7, <1>8, SMT
    <3>5. EndOf(n - 1) \in Nat
      <4>1. CASE n - 1 = 0
        BY <4>1 DEF EndOf
      <4>2. CASE n - 1 # 0
        <5>1. n - 1 \in 1 .. N
          BY <4>2, SMT
        <5> QED
          BY <4>2, <5>1, <1>12 DEF EndOf
      <4> QED
        BY <4>1, <4>2
    <3>6. Len(sent[n]) \in Nat
      BY <1>3, <1>5, ElementOfSeq, FramerAssumption, LenProperties
    <3>7. ASSUME NEW i \in 1 .. PrefixBytes + Len(sent[n])
          PROVE  stream'[EndOf(n - 1) + i] = encodeFrame(sent[n])[i]
      <4>1. ends[n] \in Nat /\ ends[n] <= L /\ ends[n] = EndOf(n - 1) + PrefixBytes + Len(sent[n])
        BY <3>1, <1>12
      <4>2. PICK e \in Nat : e = EndOf(n - 1)
        BY <3>5
      <4>3. PICK x \in Nat : x = PrefixBytes + Len(sent[n])
        BY <3>6, <1>4, SMT
      <4>4. ends[n] = e + x
        BY <4>1, <4>2, <4>3, <3>6, <1>4, SMT
      <4>5. i \in 1 .. x /\ e + x <= L
        BY <4>1, <4>3, <4>4
      <4>6. e + i \in 1 .. L
        BY <4>5, SMT
      <4>7. EndOf(n - 1) + i \in 1 .. L
        BY <4>2, <4>6
      <4> QED
        BY <4>7, <3>1, <1>13
    <3> QED
      BY <3>1, <3>3, <3>4, <3>7
  <2>3. /\ ends'[N + 1] = EndOf((N + 1) - 1)' + PrefixBytes + Len(sent'[N + 1])
        /\ ends'[N + 1] <= Len(stream')
        /\ \A i \in 1 .. PrefixBytes + Len(sent'[N + 1]) :
              stream'[EndOf((N + 1) - 1)' + i] = encodeFrame(sent'[N + 1])[i]
    <3>1. (N + 1) - 1 = N /\ N \in 0 .. N
      BY SMT
    <3>2. EndOf((N + 1) - 1)' = L
      BY <3>1, <1>11, <1>15
    <3>3. ends'[N + 1] <= Len(stream')
      BY <1>7, <1>8, <1>10, SMT
    <3>4. ASSUME NEW i \in 1 .. PrefixBytes + Len(m)
          PROVE  stream'[L + i] = encodeFrame(m)[i]
      <4>1. L + i \in 1 .. L + Len(f) /\ ~(L + i <= L) /\ (L + i) - L = i
        BY <1>4, SMT
      <4> QED
        BY <4>1, <1>1, <1>7
    <3> QED
      BY <3>2, <3>3, <3>4, <1>8, <1>9, <1>10
  <2>4. ASSUME NEW n \in 1 .. N + 1
        PROVE  /\ ends'[n] = EndOf(n - 1)' + PrefixBytes + Len(sent'[n])
               /\ ends'[n] <= Len(stream')
               /\ \A i \in 1 .. PrefixBytes + Len(sent'[n]) :
                     stream'[EndOf(n - 1)' + i] = encodeFrame(sent'[n])[i]
    <3>1. CASE n \in 1 .. N
      BY <3>1, <2>2
    <3>2. CASE n = N + 1
      BY <3>2, <2>3
    <3> QED
      BY <3>1, <3>2, <1>14
  <2> QED
    BY <2>1, <2>4, <1>9 DEF Frames
<1>17. Ascending'
  <2> SUFFICES ASSUME NEW k \in 1 .. N + 1, NEW n \in 1 .. N + 1, k <= n
               PROVE  ends'[k] <= ends'[n]
    BY <1>9 DEF Ascending
  <2>1. CASE n \in 1 .. N
    <3>1. k \in 1 .. N
      BY <2>1, SMT
    <3> QED
      BY <2>1, <3>1, <1>3, <1>10 DEF IInv, Ascending
  <2>2. CASE n = N + 1 /\ k \in 1 .. N
    <3>1. ends[k] \in Nat /\ ends[k] <= L /\ ends'[k] = ends[k] /\ ends'[n] = L + Len(f)
      BY <2>2, <1>10, <1>12
    <3> QED
      BY <3>1, <1>8, SMT
  <2>3. CASE n = N + 1 /\ k = N + 1
    BY <2>3, <1>8, <1>10, SMT
  <2> QED
    BY <2>1, <2>2, <2>3, <1>14
<1>18. Len(received) \in 0 .. N
  BY <1>3, Numbers
<1>19. Aligned'
  <2>1. PICK e \in Nat : e = EndOf(Len(received))
    BY Numbers
  <2>2. arrived \in Nat /\ e <= arrived /\ arrived <= L
    BY <2>1, <1>2, Numbers
  <2>3. EndOf(Len(received))' = e
    BY <2>1, <1>6, <1>11, <1>18
  <2>4. Len(received') <= Len(sent')
    BY <1>6, <1>9, <1>18, SMT
  <2>5. buffer \in Seq(Byte) /\ Len(buffer) = arrived - e
        /\ \A i \in 1 .. arrived - e : buffer[i] = stream[e + i]
    BY <2>1, BufferHolds DEF Holds
  <2>6. PICK k \in 1 .. Len(stream') + 1 : k = e + 1 /\ arrived \in k - 1 .. Len(stream')
    <3>1. e + 1 \in 1 .. (L + Len(f)) + 1 /\ arrived \in (e + 1) - 1 .. L + Len(f)
      BY <2>2, <1>8, SMT
    <3> QED
      BY <3>1, <1>7
  <2>7. PICK t : t = SubSeq(stream', k, arrived)
    OBVIOUS
  <2>8. t \in Seq(Byte) /\ Len(t) = arrived - e /\ \A i \in 1 .. arrived - e : t[i] = stream'[k + i - 1]
    <3>1. /\ SubSeq(stream', k, arrived) \in Seq(Byte)
          /\ Len(SubSeq(stream', k, arrived)) = arrived - k + 1
          /\ \A i \in 1 .. arrived - k + 1 : SubSeq(stream', k, arrived)[i] = stream'[k + i - 1]
      BY <2>6, <1>7, Stretch
    <3>2. arrived - k + 1 = arrived - e
      BY <2>2, <2>6, SMT
    <3> QED
      BY <3>1, <3>2, <2>7
  <2>9. ASSUME NEW i \in 1 .. arrived - e
        PROVE  buffer[i] = t[i]
    <3>1. k + i - 1 = e + i /\ e + i \in 1 .. L
      BY <2>2, <2>6, SMT
    <3> QED
      BY <3>1, <2>5, <2>8, <1>13
  <2>10. buffer = t
    BY <2>5, <2>8, <2>9, SeqEqual
  <2> QED
    BY <2>2, <2>3, <2>4, <2>6, <2>7, <2>10, <1>6 DEF Aligned
<1>20. InOrder'
  <2> SUFFICES ASSUME NEW n \in 1 .. Len(received) PROVE received[n] = sent'[n]
    BY <1>6 DEF InOrder
  <2>1. n \in 1 .. N
    BY <1>18, SMT
  <2> QED
    BY <2>1, <1>9 DEF IInv, InOrder
<1>21. TypeOK'
  <2>1. arrived' \in 0 .. Len(stream')
    <3>1. arrived \in Nat /\ arrived <= L
      BY <1>2, Numbers
    <3> QED
      BY <3>1, <1>6, <1>7, <1>8, SMT
  <2> QED
    BY <2>1, <1>6, <1>7, <1>9, <1>10 DEF IInv, TypeOK
<1>22. NothingHeldBack'
  <2> SUFFICES ASSUME open = 0, ~threw, NEW n \in 1 .. N + 1, ends'[n] <= arrived
               PROVE  n <= Len(received)
    BY <1>6, <1>9 DEF NothingHeldBack
  <2>1. CASE n \in 1 .. N
    BY <2>1, <1>3, <1>10 DEF IInv, NothingHeldBack
  <2>2. CASE n = N + 1
    <3>1. arrived \in Nat /\ arrived <= L /\ ends'[n] = L + Len(f)
      BY <2>2, <1>2, <1>10, Numbers
    <3> QED
      BY <3>1, <1>8, SMT
  <2> QED
    BY <2>1, <2>2, <1>14
<1> QED
  BY <1>16, <1>17, <1>19, <1>20, <1>21, <1>22 DEF IInv

LEMMA InitInv == Init => IInv
<1> SUFFICES ASSUME Init PROVE IInv
  OBVIOUS
<1>1. /\ stream = <<>> /\ arrived = 0 /\ buffer = <<>> /\ open = 0
      /\ sent = <<>> /\ ends = <<>> /\ received = <<>> /\ threw = FALSE
  BY DEF Init
<1>2. Len(<<>>) = 0
  BY SMT
<1>3. /\ <<>> \in Seq(Byte) /\ <<>> \in Seq(Payload) /\ <<>> \in Seq(Nat)
  BY SMT
<1>4. 0 \in 0 .. 0 /\ 0 \in Nat /\ 0 <= 0 /\ ~(\E n \in 1 .. 0 : TRUE)
  BY SMT
<1>5. EndOf(0) = 0
  BY DEF EndOf
<1>6. TypeOK
  BY <1>1, <1>2, <1>3, <1>4 DEF TypeOK
<1>7. Frames /\ Ascending /\ InOrder /\ NothingHeldBack
  BY <1>1, <1>2, <1>4, <1>5 DEF Frames, Ascending, InOrder, NothingHeldBack
<1>8. Aligned
  <2>1. SubSeq(<<>>, 0 + 1, 0) = <<>>
    BY SMT
  <2> QED
    BY <2>1, <1>1, <1>2, <1>4, <1>5 DEF Aligned
<1> QED
  BY <1>6, <1>7, <1>8 DEF IInv

LEMMA NextInv == IInv /\ [Next]_vars => IInv'
<1> SUFFICES ASSUME IInv, [Next]_vars PROVE IInv'
  OBVIOUS
<1>1. ASSUME NEW m \in Payload, Write(m) PROVE IInv'
  BY <1>1, WriteInv
<1>2. ASSUME NEW n \in 0 .. Len(stream) - arrived, Push(n) PROVE IInv'
  <2>1. n \in Nat
    BY Numbers, SMT
  <2> QED
    BY <2>1, <1>2, PushInv
<1>3. CASE OnMessageReturns
  BY <1>3, ReturnInv
<1>4. CASE OnMessageThrows
  BY <1>4, ThrowInv
<1>5. CASE UNCHANGED vars
  <2>1. /\ stream' = stream /\ sent' = sent /\ ends' = ends /\ threw' = threw
        /\ arrived' = arrived /\ buffer' = buffer /\ open' = open /\ received' = received
    BY <1>5 DEF vars, wire
  <2> QED
    BY <2>1 DEF IInv, TypeOK, Frames, Ascending, Aligned, InOrder, NothingHeldBack, EndOf
<1> QED
  BY <1>1, <1>2, <1>3, <1>4, <1>5 DEF Next

-----------------------------------------------------------------------------
(* The invariant holds in every reachable state. *)
THEOREM Invariance == Spec => []IInv
<1>1. Init => IInv
  BY InitInv
<1>2. IInv /\ [Next]_vars => IInv'
  BY NextInv
<1> QED
  BY <1>1, <1>2, PTL DEF Spec

(* Only messages of the set that is sent are received, and the counters    *)
(* keep within the stream: framing.ts never reads a length of its own      *)
(* making.                                                                 *)
THEOREM TypeCorrect == Spec => []TypeOK
<1>1. IInv => TypeOK
  BY DEF IInv
<1> QED
  BY <1>1, Invariance, PTL

(* The buffer always starts where a frame starts, however the stream is    *)
(* cut and whatever onMessage does (framing.ts, lines 15-20).              *)
THEOREM Alignment == Spec => []Aligned
<1>1. IInv => Aligned
  BY DEF IInv
<1> QED
  BY <1>1, Invariance, PTL

(* After a push() that ran to its end every message that arrived in full   *)
(* has been handed over (framing.ts, lines 74-85).                         *)
THEOREM HoldsNothingBack == Spec => []NothingHeldBack
<1>1. IInv => NothingHeldBack
  BY DEF IInv
<1> QED
  BY <1>1, Invariance, PTL

(* A turn of the loop either hands over the next message sent, or none.    *)
LEMMA RunReceives ==
    ASSUME IInv, NEW b, NEW below, NEW a \in arrived .. Len(stream),
           Holds(b, EndOf(Len(received)), a), Run(b, below), sent' = sent
    PROVE  Channel!Receive \/ UNCHANGED Channel!channelVars
<1>1. CASE Complete(b)
  <2>1. Len(received) \in 0 .. Len(sent) /\ a \in EndOf(Len(received)) .. Len(stream)
    BY Numbers, SMT
  <2>2. Len(received) + 1 \in 1 .. Len(sent) /\ Message(b) = sent[Len(received) + 1]
    BY <1>1, <2>1, Turn DEF IInv
  <2>3. Len(received) < Len(sent)
    BY <2>1, <2>2, Numbers, SMT
  <2>4. received' = Append(received, Message(b))
    BY <1>1 DEF Run
  <2> QED
    BY <2>2, <2>3, <2>4 DEF Channel!Receive
<1>2. CASE ~Complete(b)
  BY <1>2 DEF Run, Channel!channelVars
<1> QED
  BY <1>1, <1>2

(* The framer implements the message channel: what is handed over is what  *)
(* was sent, whole, once and in order (framing.ts, lines 13-15).           *)
THEOREM Implementation == Spec => ImplementsChannel
<1>1. Init => Channel!Init
  BY DEF Init, Channel!Init
<1>2. IInv /\ [Next]_vars => [Channel!Next]_Channel!channelVars
  <2> SUFFICES ASSUME IInv, [Next]_vars
               PROVE  Channel!Next \/ UNCHANGED Channel!channelVars
    OBVIOUS
  <2>1. ASSUME NEW m \in Payload, Write(m) PROVE Channel!Next
    BY <2>1 DEF Write, Channel!Next, Channel!Send
  <2>2. ASSUME NEW n \in 0 .. Len(stream) - arrived, Push(n)
        PROVE  Channel!Next \/ UNCHANGED Channel!channelVars
    <3>1. PICK c : c = buffer \o SubSeq(stream, arrived + 1, arrived + n)
      OBVIOUS
    <3>2. Run(c, open) /\ arrived + n <= Len(stream) /\ sent' = sent
      BY <2>2, <3>1 DEF Push, wire
    <3>3. n \in Nat /\ arrived + n \in arrived .. Len(stream)
      BY <3>2, Numbers, SMT
    <3>4. Holds(c, EndOf(Len(received)), arrived + n)
      BY <3>1, <3>2, <3>3, ChunkHolds
    <3> QED
      BY <3>2, <3>3, <3>4, RunReceives DEF Channel!Next
  <2>3. CASE OnMessageReturns
    <3>1. Run(buffer, open - 1) /\ sent' = sent
      BY <2>3 DEF OnMessageReturns, wire
    <3>2. arrived \in arrived .. Len(stream)
      BY Numbers, SMT
    <3> QED
      BY <3>1, <3>2, BufferHolds, RunReceives DEF Channel!Next
  <2>4. CASE OnMessageThrows
    BY <2>4 DEF OnMessageThrows, wire, Channel!channelVars
  <2>5. CASE UNCHANGED vars
    BY <2>5 DEF vars, wire, Channel!channelVars
  <2> QED
    BY <2>1, <2>2, <2>3, <2>4, <2>5 DEF Next
<1> QED
  BY <1>1, <1>2, Invariance, PTL DEF Spec, ImplementsChannel, Channel!Spec
=============================================================================
