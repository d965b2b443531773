---------------------------- MODULE PscRecvProofs ----------------------------
(***************************************************************************)
(* Proofs about PscRecv for every set of messages, every length of a body, *)
(* every size of the header and every way to cut the stream into portions. *)
(***************************************************************************)
EXTENDS PscRecvProps, SequenceTheorems, TLAPS

-----------------------------------------------------------------------------
(* Messages and their bytes *)

\* A message is a record of an ID, a length, a content and its framing.
LEMMA MessageFields ==
  ASSUME NEW m \in Message
  PROVE  m.id \in Ids /\ m.len \in Lengths /\ m.len \in Nat /\ m.body \in Bodies
         /\ m.good \in BOOLEAN
  BY LengthAssumption DEF Message

\* A byte is known by its message and its position.
LEMMA ByteFields ==
  ASSUME NEW b \in Byte
  PROVE  b.msg \in Message /\ b.pos \in Nat \ {0}
  BY DEF Byte

\* A message is sent as its header and its body.
LEMMA BytesOfMessage ==
  ASSUME NEW m \in Message
  PROVE  /\ BytesOf(m) \in Seq(Byte)
         /\ Len(BytesOf(m)) = HeaderSize + m.len
         /\ \A k \in 1 .. HeaderSize + m.len : BytesOf(m)[k] = [msg |-> m, pos |-> k]
<1>1. HeaderSize + m.len \in Nat
  BY MessageFields, HeaderAssumption
<1>2. \A k \in 1 .. HeaderSize + m.len : [msg |-> m, pos |-> k] \in Byte
  BY <1>1 DEF Byte
<1> QED
  BY <1>1, <1>2 DEF BytesOf

-----------------------------------------------------------------------------
(* The layout of the stream *)

\* The messages msgs lie one behind the other in bytes, the i-th from start[i] on;
\* of the first one, what lies before 1 is consumed.
Laid(start, first, msgs, bytes) ==
  /\ start \in [1 .. Len(msgs) + 1 -> Int]
  /\ start[1] = first
  /\ start[Len(msgs) + 1] = Len(bytes) + 1
  /\ \A i \in 1 .. Len(msgs) : start[i + 1] = start[i] + HeaderSize + msgs[i].len
  /\ \A i, j \in 1 .. Len(msgs) + 1 : i <= j => start[i] <= start[j]
  /\ \A i \in 1 .. Len(msgs) : \A k \in 1 .. HeaderSize + msgs[i].len :
       start[i] + k > 1 => bytes[start[i] + k - 1] = [msg |-> msgs[i], pos |-> k]

LaidOut(first, msgs, bytes) == \E start : Laid(start, first, msgs, bytes)

\* A stream without messages and bytes is laid out.
LEMMA LaidEmpty == LaidOut(1, <<>>, <<>>)
<1> DEFINE start == [i \in 1 .. 1 |-> 1]
<1>1. Laid(start, 1, <<>>, <<>>)
  BY DEF Laid
<1> QED
  BY <1>1 DEF LaidOut

\* Without a message there is no byte, and none is consumed.
LEMMA LaidNothing ==
  ASSUME NEW bytes \in Seq(Byte), NEW first \in Int, LaidOut(first, <<>>, bytes)
  PROVE  first = Len(bytes) + 1
<1>1. PICK start : Laid(start, first, <<>>, bytes)
  BY DEF LaidOut
<1> QED
  BY <1>1 DEF Laid

\* A byte of a message that ends before the stream does is a byte of the stream,
\* also when bytes are taken off the front.
LEMMA Within ==
  ASSUME NEW s \in Int, NEW h \in Nat, NEW len \in Nat, NEW k \in 1 .. h + len,
         NEW l \in Int, s + h + len <= l + 1, NEW r \in Nat, s - r + k > 1
  PROVE  s - r + k - 1 \in 1 .. l - r /\ s + k > 1
  OBVIOUS

\* Bytes that are appended lie behind the others.
LEMMA ConcatBytes ==
  ASSUME NEW s \in Seq(Byte), NEW t \in Seq(Byte)
  PROVE  /\ Len(s \o t) = Len(s) + Len(t)
         /\ \A k \in 1 .. Len(s) : (s \o t)[k] = s[k]
         /\ \A k \in 1 .. Len(t) : (s \o t)[Len(s) + k] = t[k]
<1>1. ASSUME NEW k \in 1 .. Len(s) PROVE (s \o t)[k] = s[k]
  OBVIOUS
<1>2. ASSUME NEW k \in 1 .. Len(t) PROVE (s \o t)[Len(s) + k] = t[k]
  OBVIOUS
<1> QED
  BY <1>1, <1>2

\* The device sends one more message.
LEMMA LaidAppend ==
  ASSUME NEW first \in Int, NEW msgs \in Seq(Message), NEW bytes \in Seq(Byte),
         LaidOut(first, msgs, bytes), NEW m \in Message
  PROVE  LaidOut(first, Append(msgs, m), bytes \o BytesOf(m))
<1>1. PICK old : Laid(old, first, msgs, bytes)
  BY DEF LaidOut
<1> DEFINE n == Len(msgs)
           l == Len(bytes)
           ms == Append(msgs, m)
           bs == bytes \o BytesOf(m)
           start == [i \in 1 .. n + 2 |->
                       IF i = n + 2 THEN l + 1 + HeaderSize + m.len ELSE old[i]]
<1>2. n \in Nat /\ l \in Nat /\ HeaderSize \in Nat /\ m.len \in Nat
  BY MessageFields, HeaderAssumption
<1>3. /\ Len(ms) = n + 1 /\ ms[n + 1] = m
      /\ \A i \in 1 .. n : ms[i] = msgs[i]
  BY AppendProperties
<1>4. /\ Len(bs) = l + HeaderSize + m.len
      /\ \A k \in 1 .. l : bs[k] = bytes[k]
      /\ \A k \in 1 .. HeaderSize + m.len : bs[l + k] = [msg |-> m, pos |-> k]
  <2>1. PICK t \in Seq(Byte) : t = BytesOf(m)
    BY BytesOfMessage
  <2>2. Len(t) = HeaderSize + m.len
    BY <2>1, BytesOfMessage
  <2>3. /\ Len(bytes \o t) = l + Len(t)
        /\ \A k \in 1 .. l : (bytes \o t)[k] = bytes[k]
        /\ \A k \in 1 .. Len(t) : (bytes \o t)[l + k] = t[k]
    BY ConcatBytes
  <2>4. Len(bytes \o t) = l + HeaderSize + m.len
    BY <1>2, <2>2, <2>3
  <2> QED
    BY <2>1, <2>2, <2>3, <2>4, BytesOfMessage
<1>5. /\ old \in [1 .. n + 1 -> Int] /\ old[1] = first /\ old[n + 1] = l + 1
      /\ \A i \in 1 .. n : old[i + 1] = old[i] + HeaderSize + msgs[i].len
      /\ \A i, j \in 1 .. n + 1 : i <= j => old[i] <= old[j]
      /\ \A i \in 1 .. n : \A k \in 1 .. HeaderSize + msgs[i].len :
           old[i] + k > 1 => bytes[old[i] + k - 1] = [msg |-> msgs[i], pos |-> k]
  BY <1>1 DEF Laid
<1>6. \A i \in 1 .. n : msgs[i].len \in Nat
  BY MessageFields
<1> HIDE DEF n, l, ms, bs
<1>7. /\ start \in [1 .. n + 2 -> Int]
      /\ \A i \in 1 .. n + 1 : start[i] = old[i]
      /\ start[n + 2] = l + 1 + HeaderSize + m.len
  BY <1>2, <1>5
<1> HIDE DEF start
<1>8. start[1] = first /\ start[Len(ms) + 1] = Len(bs) + 1
  BY <1>2, <1>3, <1>4, <1>5, <1>7
<1>9. \A i \in 1 .. n + 1 : start[i + 1] = start[i] + HeaderSize + ms[i].len
  <2>1. ASSUME NEW i \in 1 .. n
        PROVE  start[i + 1] = start[i] + HeaderSize + ms[i].len
    <3>1. i \in 1 .. n + 1 /\ i + 1 \in 1 .. n + 1
      BY <1>2
    <3>2. start[i] = old[i] /\ start[i + 1] = old[i + 1] /\ ms[i] = msgs[i]
      BY <1>3, <1>7, <3>1
    <3> QED
      BY <1>5, <3>2
  <2>2. start[n + 2] = start[n + 1] + HeaderSize + ms[n + 1].len
    BY <1>2, <1>3, <1>5, <1>7
  <2> QED
    BY <1>2, <2>1, <2>2
<1>10. \A i, j \in 1 .. n + 2 : i <= j => start[i] <= start[j]
  <2> SUFFICES ASSUME NEW i \in 1 .. n + 2, NEW j \in 1 .. n + 2, i <= j
               PROVE  start[i] <= start[j]
    OBVIOUS
  <2>1. start[i] \in Int /\ start[j] \in Int
    BY <1>7
  <2>2. CASE j \in 1 .. n + 1
    <3>1. i \in 1 .. n + 1
      BY <1>2, <2>2
    <3>2. old[i] <= old[j]
      BY <1>5, <2>2, <3>1
    <3> QED
      BY <1>7, <2>2, <3>1, <3>2
  <2>3. CASE i \in 1 .. n + 1 /\ j = n + 2
    <3>1. n + 1 \in 1 .. n + 1
      BY <1>2
    <3>2. old[i] <= old[n + 1] /\ start[i] = old[i]
      BY <1>5, <1>7, <2>3, <3>1
    <3> QED
      BY <1>2, <1>5, <1>7, <2>1, <2>3, <3>2
  <2>4. CASE i = n + 2 /\ j = n + 2
    BY <2>1, <2>4
  <2> QED
    BY <1>2, <2>2, <2>3, <2>4
<1>11. ASSUME NEW i \in 1 .. n + 1, NEW k \in 1 .. HeaderSize + ms[i].len, start[i] + k > 1
       PROVE  bs[start[i] + k - 1] = [msg |-> ms[i], pos |-> k]
  <2>1. CASE i = n + 1
    <3>1. start[i] + k - 1 = l + k
      BY <1>2, <1>5, <1>7, <2>1
    <3> QED
      BY <1>3, <1>4, <2>1, <3>1
  <2>2. CASE i \in 1 .. n
    <3>1. ms[i] = msgs[i] /\ start[i] = old[i] /\ start[i] \in Int
      BY <1>2, <1>3, <1>5, <1>7, <2>2
    <3>2. bytes[start[i] + k - 1] = [msg |-> ms[i], pos |-> k]
      BY <1>5, <1>11, <2>2, <3>1
    <3>3. i + 1 \in 1 .. n + 1 /\ n + 1 \in 1 .. n + 1 /\ i + 1 <= n + 1
      BY <1>2, <2>2
    <3>4. old[i + 1] <= old[n + 1] /\ old[i + 1] = old[i] + HeaderSize + msgs[i].len
      BY <1>5, <2>2, <3>3
    <3>5. msgs[i].len \in Nat
      BY <1>6, <2>2
    <3>7. PICK len \in Nat : len = msgs[i].len
      BY <3>5
    <3>8. PICK s \in Int : s = start[i]
      BY <3>1
    <3>9. k \in 1 .. HeaderSize + len /\ s + HeaderSize + len <= l + 1 /\ s - 0 + k > 1
      BY <1>5, <1>11, <3>1, <3>4, <3>7, <3>8
    <3>10. s - 0 + k - 1 \in 1 .. l - 0
      BY <1>2, <3>9, Within
    <3>6. start[i] + k - 1 \in 1 .. l
      BY <1>2, <3>8, <3>10
    <3> QED
      BY <1>4, <3>2, <3>6
  <2> QED
    BY <1>2, <2>1, <2>2
<1>12. Laid(start, first, ms, bs)
  <2>1. start \in [1 .. Len(ms) + 1 -> Int]
    BY <1>2, <1>3, <1>7
  <2> QED
    BY <1>2, <1>3, <1>8, <1>9, <1>10, <1>11, <2>1 DEF Laid
<1> QED
  BY <1>12 DEF LaidOut, ms, bs

\* The first message lies at the front of the stream.
LEMMA LaidFirst ==
  ASSUME NEW first \in Int, NEW msgs \in Seq(Message), NEW bytes \in Seq(Byte),
         LaidOut(first, msgs, bytes), msgs # <<>>
  PROVE  /\ Len(bytes) >= first - 1 + HeaderSize + msgs[1].len
         /\ \A k \in 1 .. HeaderSize + msgs[1].len :
              first + k > 1 => bytes[first + k - 1] = [msg |-> msgs[1], pos |-> k]
<1>1. PICK start : Laid(start, first, msgs, bytes)
  BY DEF LaidOut
<1>2. Len(msgs) \in Nat /\ Len(msgs) >= 1 /\ Len(bytes) \in Nat
  BY EmptySeq
<1>3. 1 \in 1 .. Len(msgs) /\ 2 \in 1 .. Len(msgs) + 1 /\ Len(msgs) + 1 \in 1 .. Len(msgs) + 1
  BY <1>2
<1>4. msgs[1].len \in Nat /\ HeaderSize \in Nat
  BY <1>3, MessageFields, HeaderAssumption
<1>5. start[2] = first + HeaderSize + msgs[1].len /\ start[2] <= Len(bytes) + 1
  BY <1>1, <1>2, <1>3 DEF Laid
<1>6. \A k \in 1 .. HeaderSize + msgs[1].len :
        first + k > 1 => bytes[first + k - 1] = [msg |-> msgs[1], pos |-> k]
  BY <1>1, <1>3 DEF Laid
<1> QED
  BY <1>2, <1>4, <1>5, <1>6

\* Bytes are taken off the front, but no more than there are of the first message.
LEMMA LaidRemove ==
  ASSUME NEW first \in Int, NEW msgs \in Seq(Message), NEW bytes \in Seq(Byte),
         LaidOut(first, msgs, bytes), NEW r \in Nat, r <= Len(bytes)
  PROVE  LaidOut(first - r, msgs, SubSeq(bytes, r + 1, Len(bytes)))
<1>1. PICK old : Laid(old, first, msgs, bytes)
  BY DEF LaidOut
<1> DEFINE n == Len(msgs)
           l == Len(bytes)
           bs == SubSeq(bytes, r + 1, Len(bytes))
           start == [i \in 1 .. n + 1 |-> old[i] - r]
<1>2. n \in Nat /\ l \in Nat /\ HeaderSize \in Nat
  BY HeaderAssumption
<1>3. Len(bs) = l - r /\ \A k \in 1 .. l - r : bs[k] = bytes[k + r]
  BY <1>2
<1>4. /\ old \in [1 .. n + 1 -> Int] /\ old[1] = first /\ old[n + 1] = l + 1
      /\ \A i \in 1 .. n : old[i + 1] = old[i] + HeaderSize + msgs[i].len
      /\ \A i, j \in 1 .. n + 1 : i <= j => old[i] <= old[j]
      /\ \A i \in 1 .. n : \A k \in 1 .. HeaderSize + msgs[i].len :
           old[i] + k > 1 => bytes[old[i] + k - 1] = [msg |-> msgs[i], pos |-> k]
  BY <1>1 DEF Laid
<1>5. \A i \in 1 .. n : msgs[i].len \in Nat
  BY MessageFields
<1> HIDE DEF n, l, bs
<1>6. start \in [1 .. n + 1 -> Int] /\ \A i \in 1 .. n + 1 : start[i] = old[i] - r
  BY <1>4
<1> HIDE DEF start
<1>7. start[1] = first - r /\ start[n + 1] = Len(bs) + 1
  <2>1. 1 \in 1 .. n + 1 /\ n + 1 \in 1 .. n + 1
    BY <1>2
  <2>2. start[1] = old[1] - r /\ start[n + 1] = old[n + 1] - r
    BY <1>6, <2>1
  <2> QED
    BY <1>2, <1>3, <1>4, <2>2
<1>8. ASSUME NEW i \in 1 .. n
      PROVE  start[i + 1] = start[i] + HeaderSize + msgs[i].len
  <2>1. i \in 1 .. n + 1 /\ i + 1 \in 1 .. n + 1
    BY <1>2
  <2>2. /\ start[i] = old[i] - r /\ start[i + 1] = old[i + 1] - r /\ old[i] \in Int
        /\ old[i + 1] = old[i] + HeaderSize + msgs[i].len
    BY <1>4, <1>6, <2>1
  <2> QED
    BY <1>2, <1>5, <2>2
<1>9. ASSUME NEW i \in 1 .. n + 1, NEW j \in 1 .. n + 1, i <= j
      PROVE  start[i] <= start[j]
  <2>1. old[i] <= old[j] /\ old[i] \in Int /\ old[j] \in Int
    BY <1>4, <1>9
  <2> QED
    BY <1>6, <2>1
<1>10. ASSUME NEW i \in 1 .. n, NEW k \in 1 .. HeaderSize + msgs[i].len, start[i] + k > 1
       PROVE  bs[start[i] + k - 1] = [msg |-> msgs[i], pos |-> k]
  <2>1. start[i] = old[i] - r /\ old[i] \in Int /\ i + 1 \in 1 .. n + 1
    BY <1>2, <1>4, <1>6
  <2>2. n + 1 \in 1 .. n + 1 /\ i + 1 <= n + 1 /\ msgs[i].len \in Nat
    BY <1>2, <1>5
  <2>3. old[i + 1] <= l + 1 /\ old[i + 1] = old[i] + HeaderSize + msgs[i].len
    BY <1>4, <2>1, <2>2
  <2>7. PICK len \in Nat : len = msgs[i].len
    BY <2>2
  <2>8. PICK s \in Int : s = old[i]
    BY <2>1
  <2>9. k \in 1 .. HeaderSize + len /\ s + HeaderSize + len <= l + 1 /\ s - r + k > 1
    BY <1>10, <2>1, <2>3, <2>7, <2>8
  <2>10. s - r + k - 1 \in 1 .. l - r /\ s + k > 1
    BY <1>2, <2>9, Within
  <2>4. start[i] + k - 1 \in 1 .. l - r /\ old[i] + k > 1
    BY <2>1, <2>8, <2>10
  <2>6. bytes[old[i] + k - 1] = [msg |-> msgs[i], pos |-> k]
    BY <1>4, <2>4
  <2>5. start[i] + k - 1 + r = old[i] + k - 1
    BY <2>1
  <2> QED
    BY <1>3, <2>4, <2>5, <2>6
<1>11. Laid(start, first - r, msgs, bs)
  BY <1>6, <1>7, <1>8, <1>9, <1>10 DEF Laid, n
<1> QED
  BY <1>11 DEF LaidOut, bs

\* A message of which every byte is consumed is done with.
LEMMA LaidTail ==
  ASSUME NEW first \in Int, NEW msgs \in Seq(Message), NEW bytes \in Seq(Byte),
         LaidOut(first, msgs, bytes), msgs # <<>>
  PROVE  LaidOut(first + HeaderSize + msgs[1].len, Tail(msgs), bytes)
<1>1. PICK old : Laid(old, first, msgs, bytes)
  BY DEF LaidOut
<1> DEFINE n == Len(msgs)
           ms == Tail(msgs)
           start == [i \in 1 .. n |-> old[i + 1]]
<1>2. n \in Nat /\ n >= 1
  BY EmptySeq
<1>3. Len(ms) = n - 1 /\ \A i \in 1 .. n - 1 : ms[i] = msgs[i + 1]
  BY <1>2
<1>4. /\ old \in [1 .. n + 1 -> Int] /\ old[1] = first /\ old[n + 1] = Len(bytes) + 1
      /\ \A i \in 1 .. n : old[i + 1] = old[i] + HeaderSize + msgs[i].len
      /\ \A i, j \in 1 .. n + 1 : i <= j => old[i] <= old[j]
      /\ \A i \in 1 .. n : \A k \in 1 .. HeaderSize + msgs[i].len :
           old[i] + k > 1 => bytes[old[i] + k - 1] = [msg |-> msgs[i], pos |-> k]
  BY <1>1 DEF Laid
<1> HIDE DEF n, ms
<1>5. start \in [1 .. n -> Int] /\ \A i \in 1 .. n : start[i] = old[i + 1]
  BY <1>2, <1>4
<1> HIDE DEF start
<1>6. start[1] = first + HeaderSize + msgs[1].len /\ start[n] = Len(bytes) + 1
  BY <1>2, <1>4, <1>5
<1>7. ASSUME NEW i \in 1 .. n - 1
      PROVE  start[i + 1] = start[i] + HeaderSize + ms[i].len
  <2>1. i \in 1 .. n /\ i + 1 \in 1 .. n
    BY <1>2
  <2>2. start[i] = old[i + 1] /\ start[i + 1] = old[i + 1 + 1] /\ ms[i] = msgs[i + 1]
    BY <1>3, <1>5, <2>1
  <2> QED
    BY <1>4, <2>1, <2>2
<1>8. ASSUME NEW i \in 1 .. n, NEW j \in 1 .. n, i <= j
      PROVE  start[i] <= start[j]
  <2>1. i + 1 \in 1 .. n + 1 /\ j + 1 \in 1 .. n + 1 /\ i + 1 <= j + 1
    BY <1>2, <1>8
  <2> QED
    BY <1>4, <1>5, <2>1
<1>9. ASSUME NEW i \in 1 .. n - 1, NEW k \in 1 .. HeaderSize + ms[i].len, start[i] + k > 1
      PROVE  bytes[start[i] + k - 1] = [msg |-> ms[i], pos |-> k]
  <2>1. i + 1 \in 1 .. n /\ start[i] = old[i + 1] /\ ms[i] = msgs[i + 1]
    BY <1>2, <1>3, <1>5
  <2> QED
    BY <1>4, <1>9, <2>1
<1>10. Laid(start, first + HeaderSize + msgs[1].len, ms, bytes)
  <2>1. Len(ms) + 1 = n
    BY <1>2, <1>3
  <2> QED
    BY <1>2, <1>3, <1>5, <1>6, <1>7, <1>8, <1>9, <2>1 DEF Laid
<1> QED
  BY <1>10 DEF LaidOut, ms

-----------------------------------------------------------------------------
(* The decoder and the stream *)

\* Where the first message owed begins: its header may be consumed.
First == IF have_head THEN 1 - HeaderSize ELSE 1

\* What is left of the stream are the messages owed.
StreamInv ==
  IF connected THEN LaidOut(First, owed, stream) ELSE stream = <<>> /\ owed = <<>>

\* After a header the decoder knows the first message owed.
DecoderInv ==
  connected =>
    IF have_head
      THEN /\ owed # <<>>
           /\ owed[1].good
           /\ header = owed[1].id
           /\ bodylen = owed[1].len
           /\ expect = bodylen
           /\ bodyblock = (header \in RecvBlocks)
      ELSE expect = HeaderSize

\* recvdata() runs on a connection.
RunInv == running => connected

RecvInv == TypeOK /\ StreamInv /\ DecoderInv /\ RunInv

LEMMA InitRecvInv == Init => RecvInv
<1> SUFFICES ASSUME Init PROVE RecvInv
  OBVIOUS
<1>1. {connected, readcb, running, have_head, bodyblock, failed} \subseteq BOOLEAN
  BY Zenon DEF Init
<1>2. /\ stream \in Seq(Byte) /\ arrived \in 0 .. Len(stream) /\ owed \in Seq(Message)
      /\ {low, high, expect, bodylen} \subseteq Nat /\ header \in Ids \cup {Unknown}
      /\ ukncount \in 0 .. CountMod - 1
  BY EmptySeq, HeaderAssumption, CountAssumption DEF Init
<1>3. /\ data \in [RecvBlocks -> Bodies \cup {Unknown}]
      /\ rxtime \in [RecvBlocks -> Bodies \cup {Unknown}]
      /\ count \in [RecvBlocks -> 0 .. CountMod - 1]
      /\ scan \subseteq RecvBlocks \X Readers
  BY DEF Init
<1>4. shown \in [RecvBlocks \X Readers -> [data : Bodies \cup {Unknown}, bad : BOOLEAN]]
  BY DEF Init
<1>5. TypeOK
  BY <1>1, <1>2, <1>3, <1>4, Zenon DEF TypeOK
<1> QED
  BY <1>5 DEF RecvInv, StreamInv, DecoderInv, RunInv, Init

\* A header can only be complete when a message is owed, and then it is in place.
LEMMA AtHeader ==
  ASSUME RecvInv, Loops, ~have_head
  PROVE  /\ connected
         /\ owed # <<>>
         /\ owed[1] \in Message
         /\ Len(stream) >= HeaderSize + owed[1].len
         /\ stream # <<>>
         /\ \A k \in 1 .. HeaderSize + owed[1].len : stream[k] = [msg |-> owed[1], pos |-> k]
         /\ stream[1] = [msg |-> owed[1], pos |-> 1]
         /\ HeaderFound <=> owed[1].good
<1>1. connected /\ expect = HeaderSize /\ LaidOut(1, owed, stream) /\ stream \in Seq(Byte)
      /\ owed \in Seq(Message) /\ arrived >= HeaderSize /\ arrived \in 0 .. Len(stream)
  BY DEF RecvInv, Loops, RunInv, DecoderInv, StreamInv, First, TypeOK
<1>2. Len(stream) \in Nat /\ Len(stream) >= HeaderSize /\ HeaderSize \in Nat \ {0} /\ stream # <<>>
  BY <1>1, HeaderAssumption
<1>3. owed # <<>>
  BY <1>1, <1>2, LaidNothing
<1>4. owed[1] \in Message /\ owed[1].len \in Nat
  BY <1>1, <1>3, EmptySeq, MessageFields
<1>5. /\ Len(stream) >= 1 - 1 + HeaderSize + owed[1].len
      /\ \A k \in 1 .. HeaderSize + owed[1].len :
           1 + k > 1 => stream[1 + k - 1] = [msg |-> owed[1], pos |-> k]
  BY <1>1, <1>3, LaidFirst
<1>6. \A k \in 1 .. HeaderSize + owed[1].len : stream[k] = [msg |-> owed[1], pos |-> k]
  <2> SUFFICES ASSUME NEW k \in 1 .. HeaderSize + owed[1].len
               PROVE  stream[k] = [msg |-> owed[1], pos |-> k]
    OBVIOUS
  <2>1. k \in Nat /\ 1 + k > 1 /\ 1 + k - 1 = k
    BY <1>2, <1>4
  <2> QED
    BY <1>5, <2>1
<1>7. 1 .. HeaderSize \subseteq 1 .. HeaderSize + owed[1].len /\ 1 \in 1 .. HeaderSize
  BY <1>2, <1>4
<1>8. stream[1] = [msg |-> owed[1], pos |-> 1]
  BY <1>6, <1>7
<1>9. HeaderFound <=> owed[1].good
  BY <1>6, <1>7, <1>8 DEF HeaderFound
<1>10. Len(stream) >= HeaderSize + owed[1].len
  BY <1>2, <1>4, <1>5
<1> QED
  BY <1>1, <1>2, <1>3, <1>4, <1>6, <1>8, <1>9, <1>10

\* After a header the body of the first message owed is at the front.
LEMMA AtBody ==
  ASSUME RecvInv, connected, have_head
  PROVE  /\ owed # <<>>
         /\ owed[1] \in Message
         /\ header = owed[1].id
         /\ bodylen = owed[1].len
         /\ expect = bodylen
         /\ bodylen \in Nat
         /\ Len(stream) >= bodylen
         /\ \A k \in 1 .. bodylen : stream[k] = [msg |-> owed[1], pos |-> HeaderSize + k]
<1>1. /\ owed # <<>> /\ header = owed[1].id /\ bodylen = owed[1].len /\ expect = bodylen
      /\ LaidOut(1 - HeaderSize, owed, stream) /\ stream \in Seq(Byte) /\ owed \in Seq(Message)
  BY DEF RecvInv, DecoderInv, StreamInv, First, TypeOK
<1>2. owed[1] \in Message /\ bodylen \in Nat /\ HeaderSize \in Nat \ {0} /\ 1 - HeaderSize \in Int
  BY <1>1, EmptySeq, MessageFields, HeaderAssumption
<1>3. /\ Len(stream) >= 1 - HeaderSize - 1 + HeaderSize + bodylen
      /\ \A k \in 1 .. HeaderSize + bodylen :
           1 - HeaderSize + k > 1 =>
             stream[1 - HeaderSize + k - 1] = [msg |-> owed[1], pos |-> k]
  BY <1>1, <1>2, LaidFirst
<1>4. Len(stream) >= bodylen
  BY <1>1, <1>2, <1>3
<1>5. ASSUME NEW k \in 1 .. bodylen
      PROVE  stream[k] = [msg |-> owed[1], pos |-> HeaderSize + k]
  <2>1. /\ HeaderSize + k \in 1 .. HeaderSize + bodylen /\ 1 - HeaderSize + (HeaderSize + k) > 1
        /\ 1 - HeaderSize + (HeaderSize + k) - 1 = k
    BY <1>2
  <2> QED
    BY <1>3, <2>1
<1> QED
  BY <1>1, <1>2, <1>4, <1>5

\* Bytes that have arrived are consumed.
LEMMA Removed ==
  ASSUME NEW n \in Nat, NEW bytes \in Seq(Byte), NEW a \in 0 .. Len(bytes), n <= a
  PROVE  /\ SubSeq(bytes, n + 1, Len(bytes)) \in Seq(Byte)
         /\ n <= Len(bytes)
         /\ a - n \in 0 .. Len(SubSeq(bytes, n + 1, Len(bytes)))
<1>1. Len(bytes) \in Nat /\ n <= Len(bytes)
  OBVIOUS
<1>2. SubSeq(bytes, n + 1, Len(bytes)) \in Seq(Byte)
  BY <1>1
<1>3. Len(SubSeq(bytes, n + 1, Len(bytes))) = Len(bytes) - n
  BY <1>1
<1> QED
  BY <1>1, <1>2, <1>3

\* The device sends a message.
LEMMA DeviceSendsKeepsRecvInv ==
  ASSUME RecvInv, NEW m \in Message, DeviceSends(m)
  PROVE  RecvInv'
<1>1. /\ connected /\ stream' = stream \o BytesOf(m) /\ owed' = Append(owed, m)
      /\ UNCHANGED <<connected, arrived, low, high, readcb, running, decoder, blocks, records,
                     failed>>
  BY DEF DeviceSends
<1>2. TypeOK /\ stream \in Seq(Byte) /\ owed \in Seq(Message) /\ arrived \in 0 .. Len(stream)
      /\ BytesOf(m) \in Seq(Byte)
  BY BytesOfMessage DEF RecvInv, TypeOK
<1>3. stream' \in Seq(Byte) /\ owed' \in Seq(Message) /\ arrived' \in 0 .. Len(stream')
  <2>1. Len(stream \o BytesOf(m)) = Len(stream) + Len(BytesOf(m)) /\ Len(BytesOf(m)) \in Nat
    BY <1>2, ConcatBytes
  <2> QED
    BY <1>1, <1>2, <2>1
<1>4. TypeOK'
  BY <1>1, <1>2, <1>3 DEF TypeOK, decoder, blocks, records
<1>5. First \in Int /\ First' = First
  BY <1>1, HeaderAssumption DEF First, decoder
<1>6. StreamInv'
  BY <1>1, <1>2, <1>5, LaidAppend DEF RecvInv, StreamInv
<1>7. DecoderInv'
  <2>1. CASE have_head
    <3>1. owed # <<>> /\ owed' # <<>> /\ owed'[1] = owed[1]
      BY <1>1, <1>2, <2>1, EmptySeq DEF RecvInv, DecoderInv
    <3> QED
      BY <1>1, <2>1, <3>1 DEF RecvInv, DecoderInv, decoder
  <2>2. CASE ~have_head
    BY <1>1, <2>2 DEF RecvInv, DecoderInv, decoder
  <2> QED
    BY <2>1, <2>2
<1> QED
  BY <1>1, <1>4, <1>6, <1>7 DEF RecvInv, RunInv

\* A header is consumed.
LEMMA DecodeHeaderKeepsRecvInv ==
  ASSUME RecvInv, DecodeHeader
  PROVE  RecvInv'
<1> DEFINE m == owed[1]
<1>1. /\ connected /\ owed # <<>> /\ m \in Message /\ Len(stream) >= HeaderSize + m.len
      /\ stream[1].msg = m /\ m.good /\ expect = HeaderSize /\ arrived >= HeaderSize
  BY AtHeader DEF DecodeHeader, Loops, RecvInv, DecoderInv
<1>2. /\ ~have_head /\ Remove(HeaderSize)
      /\ have_head' = TRUE /\ header' = m.id /\ bodylen' = m.len /\ expect' = m.len
      /\ bodyblock' = (m.id \in RecvBlocks)
      /\ UNCHANGED <<connected, low, high, readcb, running, data, records, owed, failed>>
  BY <1>1, Zenon DEF DecodeHeader
<1>3. TypeOK /\ stream \in Seq(Byte) /\ owed \in Seq(Message) /\ arrived \in 0 .. Len(stream)
      /\ HeaderSize \in Nat \ {0} /\ m.len \in Nat /\ m.id \in Ids /\ m.body \in Bodies
  BY <1>1, MessageFields, HeaderAssumption DEF RecvInv, TypeOK
<1> HIDE DEF m
<1>4. stream' \in Seq(Byte) /\ arrived' \in 0 .. Len(stream') /\ HeaderSize <= Len(stream)
  BY <1>1, <1>2, <1>3, Removed DEF Remove
<1>5. /\ rxtime' \in [RecvBlocks -> Bodies \cup {Unknown}]
      /\ count' \in [RecvBlocks -> 0 .. CountMod - 1]
      /\ ukncount' \in 0 .. CountMod - 1
  <2>1. CASE m.id \in RecvBlocks
    <3>1. /\ rxtime' = [rxtime EXCEPT ![m.id] = m.body]
          /\ count' = [count EXCEPT ![m.id] = (@ + 1) % CountMod]
          /\ UNCHANGED ukncount
      BY <1>1, <2>1 DEF DecodeHeader
    <3> QED
      BY <1>3, <2>1, <3>1, CountAssumption DEF TypeOK
  <2>2. CASE m.id \notin RecvBlocks
    <3>1. ukncount' = (ukncount + 1) % CountMod /\ UNCHANGED <<rxtime, count>>
      BY <1>1, <2>2 DEF DecodeHeader
    <3> QED
      BY <1>3, <2>2, <3>1, CountAssumption DEF TypeOK
  <2> QED
    BY <2>1, <2>2
<1>6. TypeOK'
  <2>5. bodyblock' \in BOOLEAN
    BY <1>2
  <2>1. {connected', readcb', running', have_head', bodyblock', failed'} \subseteq BOOLEAN
    BY <1>2, <1>3, <2>5, Zenon DEF TypeOK
  <2>2. {low', high', expect', bodylen'} \subseteq Nat
    BY <1>2, <1>3 DEF TypeOK
  <2>3. header' \in Ids \cup {Unknown} /\ owed' \in Seq(Message)
    BY <1>2, <1>3
  <2>4. /\ data' \in [RecvBlocks -> Bodies \cup {Unknown}]
        /\ scan' \subseteq RecvBlocks \X Readers
        /\ shown' \in [RecvBlocks \X Readers -> [data : Bodies \cup {Unknown}, bad : BOOLEAN]]
    BY <1>2, <1>3 DEF TypeOK, records
  <2> QED
    BY <1>4, <1>5, <2>1, <2>2, <2>3, <2>4, Zenon DEF TypeOK
<1>7. StreamInv'
  <2>1. LaidOut(1, owed, stream)
    BY <1>1, <1>2 DEF RecvInv, StreamInv, First
  <2>2. LaidOut(1 - HeaderSize, owed, SubSeq(stream, HeaderSize + 1, Len(stream)))
    BY <1>3, <1>4, <2>1, LaidRemove
  <2> QED
    BY <1>1, <1>2, <2>2 DEF StreamInv, First, Remove
<1>8. DecoderInv'
  BY <1>1, <1>2 DEF DecoderInv, m
<1> QED
  BY <1>1, <1>2, <1>6, <1>7, <1>8 DEF RecvInv, RunInv

\* A body is consumed.
LEMMA DecodeBodyKeepsRecvInv ==
  ASSUME RecvInv, DecodeBody
  PROVE  RecvInv'
<1> DEFINE m == owed[1]
<1>1. connected /\ have_head /\ running /\ arrived >= expect
  BY DEF DecodeBody, Loops, RecvInv, RunInv
<1>2. /\ Remove(bodylen)
      /\ have_head' = FALSE /\ bodyblock' = FALSE /\ expect' = HeaderSize
      /\ failed' = ~(arrived > arrived') /\ owed' = Tail(owed)
      /\ UNCHANGED <<connected, low, high, readcb, running, header, bodylen, rxtime, count,
                     ukncount, shown>>
  BY Zenon DEF DecodeBody
<1>3. /\ owed # <<>> /\ m \in Message /\ header = m.id /\ bodylen = m.len /\ expect = bodylen
      /\ bodylen \in Nat /\ Len(stream) >= bodylen
  BY <1>1, AtBody
<1>4. TypeOK /\ stream \in Seq(Byte) /\ owed \in Seq(Message) /\ arrived \in 0 .. Len(stream)
      /\ HeaderSize \in Nat \ {0} /\ m.id \in Ids /\ m.body \in Bodies
  BY <1>3, MessageFields, HeaderAssumption DEF RecvInv, TypeOK
<1> HIDE DEF m
<1>5. stream' \in Seq(Byte) /\ arrived' \in 0 .. Len(stream') /\ owed' \in Seq(Message)
  <2>1. bodylen <= arrived
    BY <1>1, <1>3
  <2>2. Tail(owed) \in Seq(Message)
    BY <1>3, <1>4
  <2> QED
    BY <1>2, <1>3, <1>4, <2>1, <2>2, Removed DEF Remove
<1>6. Copied \in Bodies \cup {Unknown}
  <2>1. CASE bodylen > 0
    <3>1. stream[1] \in Byte
      BY <1>3, <1>4, <2>1
    <3> QED
      BY <3>1, ByteFields, MessageFields DEF Copied
  <2>2. CASE ~(bodylen > 0)
    BY <2>2 DEF Copied
  <2> QED
    BY <2>1, <2>2
<1>7. /\ data' \in [RecvBlocks -> Bodies \cup {Unknown}]
      /\ scan' \subseteq RecvBlocks \X Readers
  <2>1. CASE bodyblock
    <3>1. data' = [data EXCEPT ![header] = Copied] /\ scan' = scan \cup ({header} \X Readers)
      BY <2>1 DEF DecodeBody, StoreBody
    <3>2. header \in RecvBlocks
      BY <1>1, <2>1 DEF RecvInv, DecoderInv
    <3> QED
      BY <1>4, <1>6, <3>1, <3>2 DEF TypeOK
  <2>2. CASE ~bodyblock
    BY <1>4, <2>2 DEF DecodeBody, TypeOK
  <2> QED
    BY <2>1, <2>2
<1>8. TypeOK'
  <2>1. {connected', readcb', running', have_head', bodyblock', failed'} \subseteq BOOLEAN
    BY <1>2, <1>4, Zenon DEF TypeOK
  <2>2. {low', high', expect', bodylen'} \subseteq Nat
    BY <1>2, <1>4 DEF TypeOK
  <2>3. /\ header' \in Ids \cup {Unknown} /\ ukncount' \in 0 .. CountMod - 1
        /\ rxtime' \in [RecvBlocks -> Bodies \cup {Unknown}]
        /\ count' \in [RecvBlocks -> 0 .. CountMod - 1]
        /\ shown' \in [RecvBlocks \X Readers -> [data : Bodies \cup {Unknown}, bad : BOOLEAN]]
    BY <1>2, <1>4 DEF TypeOK
  <2> QED
    BY <1>5, <1>7, <2>1, <2>2, <2>3, Zenon DEF TypeOK
<1>9. StreamInv'
  <2>1. LaidOut(1 - HeaderSize, owed, stream)
    BY <1>1 DEF RecvInv, StreamInv, First
  <2>2. LaidOut(1 - HeaderSize - bodylen, owed, stream')
    BY <1>2, <1>3, <1>4, <2>1, LaidRemove DEF Remove
  <2>3. LaidOut(1 - HeaderSize - bodylen + HeaderSize + owed[1].len, Tail(owed), stream')
    BY <1>3, <1>4, <1>5, <2>2, LaidTail
  <2>4. 1 - HeaderSize - bodylen + HeaderSize + owed[1].len = 1
    BY <1>3, <1>4 DEF m
  <2> QED
    BY <1>1, <1>2, <2>3, <2>4 DEF StreamInv, First
<1>10. DecoderInv'
  BY <1>2 DEF DecoderInv
<1> QED
  BY <1>1, <1>2, <1>8, <1>9, <1>10 DEF RecvInv, RunInv

\* A stream that begins with a message begins with the first byte of it.
LEMMA FirstByte ==
  ASSUME NEW msgs \in Seq(Message), NEW bytes \in Seq(Byte), LaidOut(1, msgs, bytes),
         bytes # <<>>
  PROVE  msgs # <<>> /\ bytes[1] = [msg |-> msgs[1], pos |-> 1]
<1>1. Len(bytes) \in Nat /\ Len(bytes) # 0 /\ HeaderSize \in Nat \ {0}
  BY HeaderAssumption, EmptySeq
<1>2. msgs # <<>>
  BY <1>1, LaidNothing
<1>3. msgs[1] \in Message
  BY <1>2, EmptySeq
<1>4. 1 \in 1 .. HeaderSize + msgs[1].len
  BY <1>1, <1>3, MessageFields
<1>5. 1 + 1 > 1 => bytes[1 + 1 - 1] = [msg |-> msgs[1], pos |-> 1]
  BY <1>2, <1>4, LaidFirst
<1> QED
  BY <1>2, <1>5

\* Every step of the receive path keeps the invariant.
LEMMA NextRecvInv == RecvInv /\ [Next]_vars => RecvInv'
<1> SUFFICES ASSUME RecvInv, [Next]_vars PROVE RecvInv'
  OBVIOUS
<1>t. TypeOK
  BY DEF RecvInv
<1>h. HeaderSize \in Nat /\ MinMaxBuf \in Nat
  BY HeaderAssumption, BufAssumption
<1>1. ASSUME NEW m \in Message, DeviceSends(m) PROVE RecvInv'
  BY <1>1, DeviceSendsKeepsRecvInv
<1>2. ASSUME NEW n \in 1 .. MaxBytes, BytesArrive(n) PROVE RecvInv'
  <2>1. /\ arrived' = arrived + n /\ arrived + n <= Len(stream)
        /\ readcb' = (readcb \/ arrived' >= low)
        /\ UNCHANGED <<connected, stream, low, high, running, decoder, blocks, records, owed,
                       failed>>
    BY <1>2, Zenon DEF BytesArrive
  <2>2. arrived' \in 0 .. Len(stream')
    BY <1>t, <2>1 DEF TypeOK
  <2>3. readcb' \in BOOLEAN
    BY <2>1
  <2>4. {connected', readcb', running', have_head', bodyblock', failed'} \subseteq BOOLEAN
    BY <1>t, <2>1, <2>3, Zenon DEF TypeOK, decoder
  <2>5. TypeOK'
    BY <1>t, <2>1, <2>2, <2>4 DEF TypeOK, decoder, blocks, records
  <2> QED
    BY <2>1, <2>5, Zenon DEF RecvInv, StreamInv, First, DecoderInv, RunInv, decoder
<1>3. CASE Connect
  <2>1. stream = <<>> /\ owed = <<>> /\ ~running
    BY <1>3 DEF Connect, RecvInv, StreamInv, Idle
  <2>2. TypeOK'
    <3>1. {connected', readcb', running', have_head', bodyblock', failed'} \subseteq BOOLEAN
      BY <1>3, <1>t, Zenon DEF Connect, TypeOK
    <3>2. {low', high', expect', bodylen'} \subseteq Nat /\ header' \in Ids \cup {Unknown}
      BY <1>3, <1>h DEF Connect
    <3> QED
      BY <1>3, <1>t, <3>1, <3>2 DEF Connect, TypeOK, blocks, records
  <2> QED
    BY <1>3, <2>1, <2>2, LaidEmpty DEF Connect, RecvInv, StreamInv, First, DecoderInv, RunInv
<1>4. CASE Disconnect
  <2>2. {connected', readcb', running', have_head', bodyblock', failed'} \subseteq BOOLEAN
    BY <1>4, <1>t, Zenon DEF Disconnect, StartReconnect, TypeOK, decoder
  <2>1. TypeOK'
    BY <1>4, <1>t, <2>2, EmptySeq DEF Disconnect, StartReconnect, TypeOK, decoder, blocks, records
  <2> QED
    BY <1>4, <2>1 DEF Disconnect, StartReconnect, Idle, RecvInv, StreamInv, DecoderInv, RunInv
<1>5. CASE Begin
  <2>2. {connected', readcb', running', have_head', bodyblock', failed'} \subseteq BOOLEAN
    BY <1>5, <1>t, Zenon DEF Begin, TypeOK, decoder
  <2>1. TypeOK'
    BY <1>5, <1>t, <2>2 DEF Begin, TypeOK, decoder, blocks, records
  <2> QED
    BY <1>5, <2>1, Zenon DEF Begin, RecvInv, StreamInv, First, DecoderInv, RunInv, decoder
<1>6. CASE DecodeHeader
  BY <1>6, DecodeHeaderKeepsRecvInv
<1>7. CASE FramingError
  <2>2. {connected', readcb', running', have_head', bodyblock', failed'} \subseteq BOOLEAN
    BY <1>7, <1>t, Zenon DEF FramingError, StartReconnect, TypeOK, decoder
  <2>1. TypeOK'
    BY <1>7, <1>t, <2>2, EmptySeq DEF FramingError, StartReconnect, TypeOK, decoder, blocks, records
  <2> QED
    BY <1>7, <2>1 DEF FramingError, StartReconnect, RecvInv, StreamInv, DecoderInv, RunInv
<1>8. CASE DecodeBody
  BY <1>8, DecodeBodyKeepsRecvInv
<1>9. CASE Finish
  <2>1. low' \in Nat /\ high' \in Nat
    BY <1>9, <1>t, <1>h DEF Finish, TypeOK
  <2>2. TypeOK'
    BY <1>9, <1>t, <2>1 DEF Finish, TypeOK, decoder, blocks, records
  <2> QED
    BY <1>9, <2>2, Zenon DEF Finish, RecvInv, StreamInv, First, DecoderInv, RunInv, decoder
<1>10. CASE BodyWithoutMemory
  <2>1. TypeOK'
    BY <1>10, <1>t DEF BodyWithoutMemory, TypeOK, socket, decoder, blocks, records
  <2> QED
    BY <1>10, <2>1, Zenon
    DEF BodyWithoutMemory, RecvInv, StreamInv, First, DecoderInv, RunInv, decoder, socket
<1>11. ASSUME NEW b \in RecvBlocks, NEW kind \in Readers, ScanBlock(b, kind) PROVE RecvInv'
  <2>1. /\ scan' = scan \ {<<b, kind>>}
        /\ shown' = [shown EXCEPT ![<<b, kind>>] =
             [data |-> IF connected \/ kind = "register" THEN data[b] ELSE shown[<<b, kind>>].data,
              bad |-> ~connected]]
        /\ UNCHANGED <<connected, socket, running, decoder, blocks, owed, failed>>
    BY <1>11 DEF ScanBlock
  <2>2. shown' \in [RecvBlocks \X Readers -> [data : Bodies \cup {Unknown}, bad : BOOLEAN]]
    <3>1. <<b, kind>> \in RecvBlocks \X Readers
      OBVIOUS
    <3>2. shown[<<b, kind>>].data \in Bodies \cup {Unknown} /\ data[b] \in Bodies \cup {Unknown}
      BY <1>t, <3>1 DEF TypeOK
    <3> QED
      BY <1>t, <2>1, <3>1, <3>2 DEF TypeOK
  <2>3. TypeOK'
    BY <1>t, <2>1, <2>2 DEF TypeOK, socket, decoder, blocks
  <2> QED
    BY <2>1, <2>3, Zenon DEF RecvInv, StreamInv, First, DecoderInv, RunInv, decoder, socket
<1>12. CASE UNCHANGED vars
  <2>1. TypeOK'
    BY <1>12, <1>t DEF vars, TypeOK, socket, decoder, blocks, records
  <2> QED
    BY <1>12, <2>1, Zenon DEF vars, RecvInv, StreamInv, First, DecoderInv, RunInv, decoder, socket
<1> QED
  BY <1>1, <1>2, <1>3, <1>4, <1>5, <1>6, <1>7, <1>8, <1>9, <1>10, <1>11, <1>12
  DEF Next, Receive

\* The invariant of the decoder holds in every behaviour.
THEOREM StreamLayout == Spec => []RecvInv
  BY InitRecvInv, NextRecvInv, PTL DEF Spec

\* The state of the receive path keeps its type.
THEOREM RecvTypeCorrectness == Spec => []TypeOK
<1>1. RecvInv => TypeOK
  BY DEF RecvInv
<1> QED
  BY <1>1, StreamLayout, PTL

\* The decoder is in step with the stream, however the bytes are cut into portions
\* and wherever a connection ends, for every size of the header and of the bodies.
THEOREM DecoderInStep == Spec => []InStep
<1>1. RecvInv => InStep
  <2> SUFFICES ASSUME RecvInv, connected, stream # <<>>
               PROVE  IF have_head /\ expect > 0
                        THEN stream[1].pos = HeaderSize + 1 /\ stream[1].msg.len = expect
                             /\ stream[1].msg.id = header
                        ELSE stream[1].pos = 1 /\ (~have_head => expect = HeaderSize)
    BY DEF InStep
  <2>1. /\ LaidOut(First, owed, stream) /\ stream \in Seq(Byte) /\ owed \in Seq(Message)
        /\ Len(stream) \in Nat /\ Len(stream) >= 1 /\ HeaderSize \in Nat \ {0}
    BY HeaderAssumption, EmptySeq DEF RecvInv, StreamInv, TypeOK
  <2>2. CASE have_head /\ expect > 0
    <3>1. stream[1] = [msg |-> owed[1], pos |-> HeaderSize + 1]
      BY <2>2, AtBody
    <3> QED
      BY <2>2, <3>1, AtBody
  <2>3. CASE ~have_head
    <3>1. stream[1] = [msg |-> owed[1], pos |-> 1]
      BY <2>1, <2>3, FirstByte DEF First
    <3> QED
      BY <2>3, <3>1 DEF RecvInv, DecoderInv
  <2>4. CASE have_head /\ ~(expect > 0)
    <3>1. owed # <<>> /\ owed[1].len = 0
      BY <2>4, AtBody
    <3>2. LaidOut(1 - HeaderSize + HeaderSize + owed[1].len, Tail(owed), stream)
      BY <2>1, <2>4, <3>1, LaidTail DEF First
    <3>3. LaidOut(1, Tail(owed), stream) /\ Tail(owed) \in Seq(Message)
      BY <2>1, <3>1, <3>2
    <3>4. stream[1] = [msg |-> Tail(owed)[1], pos |-> 1]
      BY <2>1, <3>3, FirstByte
    <3> QED
      BY <2>4, <3>4
  <2> QED
    BY <2>2, <2>3, <2>4
<1> QED
  BY <1>1, StreamLayout, PTL


-----------------------------------------------------------------------------
(* The watermarks, the records and the framing *)

LEMMA NextWatermarksFit == RecvInv /\ WatermarksFit /\ [Next]_vars => WatermarksFit'
<1> SUFFICES ASSUME RecvInv, WatermarksFit, [Next]_vars PROVE WatermarksFit'
  OBVIOUS
<1> USE DEF WatermarksFit, Idle, decoder
<1>h. /\ HeaderSize \in Nat /\ MinMaxBuf \in Nat /\ HeaderSize < MinMaxBuf
      /\ arrived \in Nat /\ expect \in Nat
  BY HeaderAssumption, BufAssumption DEF RecvInv, TypeOK
<1>1. ASSUME NEW m \in Message, DeviceSends(m) PROVE WatermarksFit'
  BY <1>1 DEF DeviceSends
<1>2. ASSUME NEW n \in 1 .. MaxBytes, BytesArrive(n) PROVE WatermarksFit'
  BY <1>2, <1>h DEF BytesArrive
<1>3. CASE Connect
  BY <1>3, <1>h DEF Connect
<1>4. CASE Disconnect
  BY <1>4 DEF Disconnect, StartReconnect
<1>5. CASE Begin
  BY <1>5 DEF Begin
<1>6. CASE DecodeHeader
  BY <1>6 DEF DecodeHeader, Loops
<1>7. CASE FramingError
  BY <1>7 DEF FramingError, StartReconnect
<1>8. CASE DecodeBody
  BY <1>8 DEF DecodeBody, Loops
<1>9. CASE Finish
  BY <1>9, <1>h DEF Finish
<1>10. CASE BodyWithoutMemory
  BY <1>10 DEF BodyWithoutMemory, Loops, socket
<1>11. ASSUME NEW b \in RecvBlocks, NEW kind \in Readers, ScanBlock(b, kind)
       PROVE  WatermarksFit'
  BY <1>11 DEF ScanBlock, socket
<1>12. CASE UNCHANGED vars
  BY <1>12 DEF vars, socket
<1> QED
  BY <1>1, <1>2, <1>3, <1>4, <1>5, <1>6, <1>7, <1>8, <1>9, <1>10, <1>11, <1>12
  DEF Next, Receive

\* The watermarks fit what the decoder waits for, for every length of a body.
THEOREM WatermarksCorrect == Spec => []WatermarksFit
<1>1. Init => WatermarksFit
  BY DEF Init, WatermarksFit
<1> QED
  BY <1>1, NextWatermarksFit, StreamLayout, PTL DEF Spec

LEMMA NextNewestIsScanned == RecvInv /\ NewestIsScanned /\ [Next]_vars => NewestIsScanned'
<1> SUFFICES ASSUME RecvInv, NewestIsScanned, [Next]_vars PROVE NewestIsScanned'
  OBVIOUS
<1>1. CASE UNCHANGED <<data, scan, shown>>
  BY <1>1 DEF NewestIsScanned
<1>2. CASE DecodeBody
  <2>1. CASE bodyblock
    <3>1. data' = [data EXCEPT ![header] = Copied] /\ scan' = scan \cup ({header} \X Readers)
          /\ shown' = shown
      BY <1>2, <2>1 DEF DecodeBody, StoreBody
    <3>2. data \in [RecvBlocks -> Bodies \cup {Unknown}]
      BY DEF RecvInv, TypeOK
    <3>3. ASSUME NEW b \in RecvBlocks, NEW kind \in Readers, b # header
          PROVE  data'[b] = data[b] /\ (<<b, kind>> \in scan => <<b, kind>> \in scan')
      BY <3>1, <3>2, <3>3
    <3>4. ASSUME NEW b \in RecvBlocks, NEW kind \in Readers, b = header
          PROVE  <<b, kind>> \in scan'
      BY <3>1, <3>4
    <3> QED
      BY <3>1, <3>3, <3>4 DEF NewestIsScanned
  <2>2. CASE ~bodyblock
    BY <1>1, <1>2, <2>2 DEF DecodeBody
  <2> QED
    BY <2>1, <2>2
<1>3. ASSUME NEW b \in RecvBlocks, NEW kind \in Readers, ScanBlock(b, kind)
      PROVE  NewestIsScanned'
  <2>1. /\ scan' = scan \ {<<b, kind>>} /\ data' = data
        /\ shown' = [shown EXCEPT ![<<b, kind>>] =
             [data |-> IF connected \/ kind = "register" THEN data[b] ELSE shown[<<b, kind>>].data,
              bad |-> ~connected]]
    BY <1>3 DEF ScanBlock, blocks
  <2>2. DOMAIN shown = RecvBlocks \X Readers
    BY DEF RecvInv, TypeOK
  <2>3. ASSUME NEW c \in RecvBlocks, NEW k \in Readers, <<c, k>> # <<b, kind>>
        PROVE  shown'[<<c, k>>] = shown[<<c, k>>]
               /\ (<<c, k>> \in scan => <<c, k>> \in scan')
    BY <2>1, <2>2, <2>3
  <2>4. \/ shown'[<<b, kind>>].data = data'[b]
        \/ kind = "waveform" /\ shown'[<<b, kind>>].bad
    <3>1. shown'[<<b, kind>>] =
            [data |-> IF connected \/ kind = "register" THEN data[b] ELSE shown[<<b, kind>>].data,
             bad |-> ~connected]
      BY <2>1, <2>2
    <3>2. kind = "register" \/ kind = "waveform"
      BY ReaderAssumption
    <3>3. shown'[<<b, kind>>].data =
            IF connected \/ kind = "register" THEN data[b] ELSE shown[<<b, kind>>].data
      BY <3>1
    <3>4. shown'[<<b, kind>>].bad = ~connected
      BY <3>1
    <3>5. CASE connected \/ kind = "register"
      BY <2>1, <3>3, <3>5
    <3>6. CASE ~connected /\ kind = "waveform"
      BY <3>4, <3>6
    <3> QED
      BY <3>2, <3>5, <3>6
  <2> QED
    BY <2>1, <2>3, <2>4 DEF NewestIsScanned
<1>4. CASE Connect
  BY <1>1, <1>4 DEF Connect, blocks, records
<1>5. CASE Disconnect
  BY <1>1, <1>5 DEF Disconnect, blocks, records
<1>6. CASE Begin
  BY <1>1, <1>6 DEF Begin, blocks, records
<1>7. CASE DecodeHeader
  BY <1>1, <1>7 DEF DecodeHeader, records
<1>8. CASE FramingError
  BY <1>1, <1>8 DEF FramingError, blocks, records
<1>9. CASE Finish
  BY <1>1, <1>9 DEF Finish, blocks, records
<1>10. CASE BodyWithoutMemory
  BY <1>1, <1>10 DEF BodyWithoutMemory, blocks, records
<1>11. ASSUME NEW m \in Message, DeviceSends(m) PROVE NewestIsScanned'
  BY <1>1, <1>11 DEF DeviceSends, blocks, records
<1>12. ASSUME NEW n \in 1 .. MaxBytes, BytesArrive(n) PROVE NewestIsScanned'
  BY <1>1, <1>12 DEF BytesArrive, blocks, records
<1>13. CASE UNCHANGED vars
  BY <1>1, <1>13 DEF vars, blocks, records
<1> QED
  BY <1>2, <1>3, <1>4, <1>5, <1>6, <1>7, <1>8, <1>9, <1>10, <1>11, <1>12, <1>13
  DEF Next, Receive

\* No record misses the newest message of its block unnoticed, for every set of
\* blocks and kinds of records.
THEOREM NewestShown == Spec => []NewestIsScanned
<1>1. Init => NewestIsScanned
  <2> SUFFICES ASSUME Init, NEW b \in RecvBlocks, NEW kind \in Readers
               PROVE  shown[<<b, kind>>].data = data[b]
    BY DEF NewestIsScanned
  <2> QED
    BY DEF Init
<1> QED
  BY <1>1, NextNewestIsScanned, StreamLayout, PTL DEF Spec

\* The first message of a sequence is its head.
LEMMA HeadIsFirst ==
  ASSUME NEW msgs \in Seq(Message), msgs # <<>>
  PROVE  Head(msgs) = msgs[1]
  OBVIOUS

\* Only a header the device did send is taken for a bad one, wherever the stream
\* was cut.
THEOREM FramingIsFair == Spec => NoFalseFraming
<1>1. RecvInv /\ [Next]_vars => [FramingError => owed # <<>> /\ ~Head(owed).good]_vars
  <2> SUFFICES ASSUME RecvInv, FramingError
               PROVE  owed # <<>> /\ ~Head(owed).good
    OBVIOUS
  <2>1. owed # <<>> /\ ~owed[1].good
    BY AtHeader DEF FramingError
  <2> QED
    BY <2>1, HeadIsFirst DEF RecvInv, TypeOK
<1> QED
  BY <1>1, StreamLayout, PTL DEF Spec, NoFalseFraming


-----------------------------------------------------------------------------
(* The receive path implements MsgStream *)

\* The bytes that are taken for a body are the whole body of the first message owed.
LEMMA CopiedIsBody ==
  ASSUME RecvInv, connected, have_head, bodylen # 0
  PROVE  Copied = owed[1].body
<1>1. /\ bodylen = owed[1].len /\ bodylen \in Nat
      /\ \A k \in 1 .. bodylen : stream[k] = [msg |-> owed[1], pos |-> HeaderSize + k]
  BY AtBody
<1>2. 1 \in 1 .. bodylen /\ bodylen > 0
  BY <1>1
<1>3. stream[1].msg = owed[1]
  <2>1. stream[1] = [msg |-> owed[1], pos |-> HeaderSize + 1]
    BY <1>1, <1>2
  <2> QED
    BY <2>1
<1> QED
  BY <1>1, <1>2, <1>3 DEF Copied

\* A body that is consumed is a message that is delivered.
LEMMA BodyIsDelivered ==
  ASSUME RecvInv, DecodeBody, ~failed'
  PROVE  Messages!Deliver
<1>1. connected /\ have_head /\ UNCHANGED connected
  BY DEF DecodeBody, Loops, RecvInv, RunInv
<1>2. /\ owed # <<>> /\ header = owed[1].id /\ bodylen \in Nat
      /\ owed[1].good /\ bodyblock = (header \in RecvBlocks)
      /\ owed \in Seq(Message) /\ owed' = Tail(owed)
  BY <1>1, AtBody DEF RecvInv, DecoderInv, TypeOK, DecodeBody
<1>3. Head(owed) = owed[1]
  BY <1>2, HeadIsFirst
<1>4. bodylen # 0
  <2>1. arrived' = arrived - bodylen /\ arrived > arrived' /\ arrived \in 0 .. Len(stream)
    BY DEF DecodeBody, Remove, RecvInv, TypeOK
  <2> QED
    BY <1>2, <2>1 DEF RecvInv, TypeOK
<1>5. Copied = owed[1].body
  BY <1>1, <1>4, CopiedIsBody
<1>6. data' = IF owed[1].id \in RecvBlocks THEN [data EXCEPT ![owed[1].id] = owed[1].body] ELSE data
  <2>1. CASE header \in RecvBlocks
    BY <1>2, <1>5, <2>1 DEF DecodeBody, StoreBody
  <2>2. CASE header \notin RecvBlocks
    BY <1>2, <2>2 DEF DecodeBody
  <2> QED
    BY <2>1, <2>2
<1> QED
  BY <1>1, <1>2, <1>3, <1>6 DEF Messages!Deliver

LEMMA MessagesStep == RecvInv /\ [Next]_vars => failed' \/ [Messages!Next]_(Messages!vars)
<1> SUFFICES ASSUME RecvInv, [Next]_vars, ~failed'
             PROVE  Messages!Next \/ UNCHANGED <<connected, owed, data>>
  BY DEF Messages!vars
<1>1. ASSUME NEW m \in Message, DeviceSends(m) PROVE Messages!Send(m)
  BY <1>1 DEF DeviceSends, Messages!Send, blocks
<1>2. ASSUME NEW n \in 1 .. MaxBytes, BytesArrive(n) PROVE UNCHANGED <<connected, owed, data>>
  BY <1>2 DEF BytesArrive, blocks
<1>3. CASE Connect
  BY <1>3, Zenon DEF Connect, blocks, Messages!Next, Messages!Open
<1>4. CASE Disconnect
  BY <1>4, Zenon DEF Disconnect, StartReconnect, blocks, Messages!Next, Messages!Close
<1>5. CASE Begin
  BY <1>5 DEF Begin, blocks
<1>6. CASE DecodeHeader
  BY <1>6 DEF DecodeHeader
<1>7. CASE FramingError
  <2>1. connected
    BY <1>7 DEF FramingError, Loops, RecvInv, RunInv
  <2> QED
    BY <1>7, <2>1, Zenon DEF FramingError, StartReconnect, blocks, Messages!Next, Messages!Close
<1>8. CASE DecodeBody
  BY <1>8, BodyIsDelivered DEF Messages!Next
<1>9. CASE Finish
  BY <1>9 DEF Finish, blocks
<1>10. CASE BodyWithoutMemory
  BY <1>10 DEF BodyWithoutMemory, blocks
<1>11. ASSUME NEW b \in RecvBlocks, NEW kind \in Readers, ScanBlock(b, kind)
       PROVE  UNCHANGED <<connected, owed, data>>
  BY <1>11 DEF ScanBlock, blocks
<1>12. CASE UNCHANGED vars
  BY <1>12 DEF vars, blocks
<1> QED
  BY <1>1, <1>2, <1>3, <1>4, <1>5, <1>6, <1>7, <1>8, <1>9, <1>10, <1>11, <1>12
  DEF Next, Receive, Messages!Next

\* Up to the assertion of the loop every step delivers exactly the messages that
\* were sent, for bodies of every length.
THEOREM DeliversUntilAssertion == Spec => [][failed' \/ [Messages!Next]_(Messages!vars)]_vars
  BY MessagesStep, StreamLayout, PTL DEF Spec

\* The assertion of the loop only fails for an empty body (psc.cpp:353).
LEMMA OnlyEmptyBodyFails ==
  ASSUME 0 \notin Lengths
  PROVE  RecvInv /\ ~failed /\ [Next]_vars => ~failed'
<1> SUFFICES ASSUME RecvInv, ~failed, [Next]_vars PROVE ~failed'
  OBVIOUS
<1>1. CASE DecodeBody
  <2>1. connected /\ have_head /\ failed' = ~(arrived > arrived') /\ arrived' = arrived - bodylen
    BY <1>1 DEF DecodeBody, Remove, Loops, RecvInv, RunInv
  <2>2. owed[1] \in Message /\ bodylen = owed[1].len
    BY <2>1, AtBody
  <2>3. bodylen \in Nat \ {0} /\ arrived \in Nat
    BY <2>2, MessageFields DEF RecvInv, TypeOK
  <2>4. arrived > arrived'
    BY <2>1, <2>3
  <2> QED
    BY <2>1, <2>4
<1>2. CASE ~DecodeBody /\ Next
  BY <1>2 DEF Next, Receive, DeviceSends, BytesArrive, Connect, Disconnect, Begin, DecodeHeader,
              FramingError, Finish, BodyWithoutMemory, ScanBlock
<1>3. CASE UNCHANGED vars
  BY <1>3 DEF vars
<1> QED
  BY <1>1, <1>2, <1>3

\* The decoder of bytes implements the stream of messages when every message has a
\* body; an empty one fails the assertion of the loop.
THEOREM ImplementsStream ==
  ASSUME 0 \notin Lengths
  PROVE  Spec => ImplementsMsgStream
<1>1. Init => ~failed
  BY DEF Init
<1>2. Init => Messages!Init
  BY DEF Init, Messages!Init
<1>3. RecvInv /\ ~failed /\ [Next]_vars => ~failed'
  BY OnlyEmptyBodyFails
<1>4. RecvInv /\ [Next]_vars => failed' \/ [Messages!Next]_(Messages!vars)
  BY MessagesStep
<1> QED
  BY <1>1, <1>2, <1>3, <1>4, StreamLayout, PTL DEF Spec, ImplementsMsgStream, Messages!Spec
=============================================================================
