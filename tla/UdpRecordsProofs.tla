-------------------------- MODULE UdpRecordsProofs --------------------------
(***************************************************************************)
(* Two promises of UdpRecords, for every size of words, headers and        *)
(* buffers, every database and every set of masks and datagrams.           *)
(***************************************************************************)
EXTENDS UdpRecordsProps, SequenceTheorems, WellFoundedInduction, TLAPS

\* The scratch buffer of the send block is a sequence, and each output record
\* finds its setting in it
SendInv ==
  /\ sdata \in Seq(Digits \cup {0})
  /\ lastSet \in [Outs -> Digits \cup {0}]
  /\ SettingsHold

\* A mask has bytes, and all of them are in the word: an empty one stands for all
LEMMA MaskInWord ==
  ASSUME NEW o \in Outs
  PROVE  MaskOf(o) # {} /\ MaskOf(o) \subseteq 1 .. WordSize
  BY SizeAssumption, MaskAssumption DEF MaskOf

\* After a write each byte of the word is the new digit or what it was
LEMMA WrittenByte ==
  ASSUME NEW o \in Outs, NEW d, NEW i \in 1 .. WordSize
  PROVE  NewWord(o, d)[i] = IF i \in MaskOf(o) THEN d ELSE sdata[i]
  BY DEF NewWord, Word

LEMMA InitSend == Init => SendInv
  BY SizeAssumption DEF Init, SendInv, SettingsHold

\* A register record keeps the settings of the others whose masks are disjoint
LEMMA WriteKeepsSettings ==
  ASSUME SendInv, NEW o \in Outs, NEW d \in Digits, WriteRegister(o, d)
  PROVE  SendInv'
<1> DEFINE new == [i \in DOMAIN sdata |-> IF i <= WordSize THEN NewWord(o, d)[i] ELSE sdata[i]]
<1>1. WordSize \in Nat /\ Len(sdata) \in Nat /\ DOMAIN sdata = 1 .. Len(sdata)
  BY SizeAssumption DEF SendInv
<1>2. WordSize <= Len(sdata)
  BY <1>1 DEF WriteRegister, Fits
<1>3. sdata' = new
  BY DEF WriteRegister
<1>4. \A i \in 1 .. Len(sdata) : new[i] \in Digits \cup {0}
  <2> SUFFICES ASSUME NEW i \in 1 .. Len(sdata) PROVE new[i] \in Digits \cup {0}
    OBVIOUS
  <2>1. sdata[i] \in Digits \cup {0}
    BY <1>1 DEF SendInv
  <2>2. i <= WordSize => NewWord(o, d)[i] \in Digits \cup {0}
    BY <1>1, <2>1, WrittenByte
  <2> QED BY <1>1, <2>1, <2>2
<1>5. sdata' \in Seq(Digits \cup {0}) /\ Len(sdata') = Len(sdata)
  BY <1>1, <1>3, <1>4
<1>6. lastSet' = [p \in Outs |-> IF p = o THEN d
                                 ELSE IF MaskOf(p) \cap MaskOf(o) # {} THEN 0 ELSE lastSet[p]]
  BY DEF WriteRegister
<1>7. lastSet' \in [Outs -> Digits \cup {0}]
  BY <1>6 DEF SendInv
<1>8. ASSUME NEW p \in Outs, lastSet'[p] # 0
      PROVE  {sdata'[i] : i \in MaskOf(p)} = {lastSet'[p]}
  <2>1. MaskOf(p) # {} /\ MaskOf(p) \subseteq 1 .. WordSize /\ MaskOf(p) \subseteq DOMAIN sdata
    BY MaskInWord, <1>1, <1>2
  <2>2. ASSUME NEW i \in MaskOf(p) PROVE sdata'[i] = lastSet'[p]
    <3>1. sdata'[i] = IF i \in MaskOf(o) THEN d ELSE sdata[i]
      BY <1>1, <1>3, <2>1, WrittenByte
    <3>2. CASE p = o
      BY <3>1, <3>2, <1>6
    <3>3. CASE p # o
      <4>1. MaskOf(p) \cap MaskOf(o) = {} /\ lastSet'[p] = lastSet[p]
        BY <1>6, <1>8, <3>3
      <4>2. {sdata[j] : j \in MaskOf(p)} = {lastSet[p]}
        BY <1>8, <4>1 DEF SendInv, SettingsHold, ReadBack
      <4> QED BY <3>1, <4>1, <4>2
    <3> QED BY <3>2, <3>3
  <2> QED BY <2>1, <2>2
<1>9. Fits(0, WordSize, sdata')
  BY <1>1, <1>2, <1>5 DEF Fits
<1>10. ASSUME NEW p \in Outs PROVE ReadBack(p)' = {sdata'[i] : i \in MaskOf(p)}
  BY DEF ReadBack, MaskOf
<1>11. SettingsHold'
  BY <1>8, <1>9, <1>10 DEF SettingsHold, Fits
<1> QED
  BY <1>5, <1>7, <1>11 DEF SendInv

LEMMA StringClearsSettings ==
  ASSUME SendInv, NEW len \in 0 .. OutSize, NEW d \in Digits, WriteString(d, len)
  PROVE  SendInv'
<1>1. len \in Nat
  BY SizeAssumption
<1>2. sdata' \in Seq(Digits \cup {0})
  BY <1>1 DEF WriteString
<1>3. lastSet' = [o \in Outs |-> 0]
  BY DEF WriteString
<1> QED
  BY <1>2, <1>3 DEF SendInv, SettingsHold

LEMMA StepKeepsSettings == SendInv /\ [Next]_vars => SendInv'
<1> SUFFICES ASSUME SendInv, [Next]_vars PROVE SendInv'
  OBVIOUS
<1>1. CASE WriteRecord
  BY <1>1, WriteKeepsSettings, StringClearsSettings DEF WriteRecord
<1>2. CASE UNCHANGED send_vars
  BY <1>2 DEF SendInv, SettingsHold, ReadBack, Fits, MaskOf, send_vars
<1>3. Next => WriteRecord \/ UNCHANGED send_vars
  BY DEF Next, Connect, RecvData, ReadRecord, ReadRegister, ReadWaveform, ReadStringLength,
         ReadString
<1> QED
  BY <1>1, <1>2, <1>3 DEF vars, send_vars

\* Registers that share a word of a send block keep their settings
\* (write_from_field(), devPSCReg.cpp), for all masks, words and block sizes.
THEOREM SettingsInvariance == Spec => []SettingsHold
<1>1. SendInv => SettingsHold
  BY DEF SendInv
<1> QED
  BY <1>1, InitSend, StepKeepsSettings, PTL DEF Spec

-----------------------------------------------------------------------------
(* The read buffer of the socket *)

BufInv == buflen \in 0 .. LenMod - 1

LEMMA RoomIsBelow ==
  ASSUME NEW len \in Nat
  PROVE  /\ RoomFor(len) \in 0 .. LenMod - 1
         /\ len + HeaderSize < LenMod => RoomFor(len) = len + HeaderSize
  BY SizeAssumption DEF RoomFor

LEMMA BufInvariance == Spec => []BufInv
<1>1. Init => BufInv
  BY SizeAssumption DEF Init, BufInv
<1>2. BufInv /\ [Next]_vars => BufInv'
  <2> SUFFICES ASSUME BufInv, [Next]_vars PROVE BufInv'
    OBVIOUS
  <2>1. CASE UNCHANGED buflen
    BY <2>1 DEF BufInv
  <2>2. ASSUME NEW d \in Datagrams, Truncated(d) PROVE BufInv'
    <3>1. d.body[1] \in Nat
      BY DatagramAssumption, SizeAssumption
    <3> QED BY <2>2, <3>1, RoomIsBelow, <2>1 DEF Truncated, BufInv
  <2>3. Next => UNCHANGED buflen \/ \E d \in Datagrams : Truncated(d)
    BY DEF Next, Connect, RecvData, Stored, Ignored, ReadRecord, ReadRegister, ReadWaveform,
           ReadStringLength, ReadString, WriteRecord, WriteRegister, WriteString, recv_vars
  <2> QED BY <2>1, <2>2, <2>3 DEF vars, recv_vars
<1> QED
  BY <1>1, <1>2, PTL DEF Spec

\* recvdata() stores a whole datagram of the device, or makes room for the next
\* of its length (pscudp.cpp), or keeps what it has without memory: for every length
\* that does not make the size of the buffer wrap and every buffer that has not
\* wrapped below the size of a header.
THEOREM RoomGrows == Spec => LongOnesFitNextTime
<1>1. ASSUME BufInv, NEW d \in Datagrams PROVE GrowsOrStores(d)
  <2> SUFFICES ASSUME RecvData(d), d.src = "ep", d.magic, d.known, d.body[1] = d.body[2],
                      buflen >= HeaderSize, d.body[1] + HeaderSize < LenMod
               PROVE  \/ last' = [v |-> d.v, len |-> d.body[1], n |-> d.body[1]]
                         /\ Len(data') = d.body[1]
                      \/ TooLong(d) /\ ~(d.body[1] > buflen' - HeaderSize)
                      \/ MemoryMayFail /\ UNCHANGED <<buflen, data, last, scan>>
    BY DEF GrowsOrStores
  <2>1. /\ d.body[1] \in Nat /\ HeaderSize \in Nat /\ LenMod \in Nat /\ buflen \in Nat
        /\ d.body[2] = d.body[1]
    BY <1>1, DatagramAssumption, SizeAssumption DEF BufInv
  <2>2. Usable(d)
    BY <2>1 DEF Usable, IsSmall, Lesser
  <2>3. CASE TooLong(d)
    <3>1. Truncated(d)
      BY <2>2, <2>3 DEF RecvData
    <3>2. CASE buflen' = RoomFor(d.body[1])
      <4>1. buflen' = d.body[1] + HeaderSize
        BY <2>1, <3>2, RoomIsBelow
      <4>2. ~(d.body[1] > buflen' - HeaderSize)
        BY <2>1, <4>1
      <4> QED BY <2>3, <4>2
    <3>3. CASE MemoryMayFail /\ UNCHANGED buflen
      BY <3>1, <3>3 DEF Truncated
    <3> QED BY <3>1, <3>2, <3>3 DEF Truncated
  <2>4. CASE ~TooLong(d)
    <3>1. Stored(d)
      BY <2>2, <2>4 DEF RecvData
    <3>2. CASE UNCHANGED <<data, last, scan>> /\ MemoryMayFail
      BY <3>1, <3>2 DEF Stored
    <3>3. CASE /\ data' = Content(scratch', d.body[1])
               /\ last' = [v |-> d.v, len |-> d.body[1], n |-> Lesser(d.body[1], d.body[2])]
      <4>1. last' = [v |-> d.v, len |-> d.body[1], n |-> d.body[1]]
        BY <2>1, <3>3 DEF Lesser
      <4>2. Len(data') = d.body[1]
        BY <2>1, <3>3 DEF Content
      <4> QED BY <4>1, <4>2
    <3> QED BY <3>1, <3>2, <3>3 DEF Stored
  <2> QED BY <2>3, <2>4
<1>2. BufInv => [GrowOrStore]_vars
  BY <1>1 DEF GrowOrStore
<1> QED
  BY <1>2, BufInvariance, PTL DEF LongOnesFitNextTime


-----------------------------------------------------------------------------
(* The block and the records that read it *)

\* The block holds the last datagram, as far as that was carried, and a string
\* record that took its length while no newer datagram came took the right one.
BlockInv ==
  /\ last \in [v : Values \cup {0}, len : Nat, n : Int]
  /\ Len(scratch) = IF buflen < HeaderSize THEN 0 ELSE buflen - HeaderSize
  /\ scan \subseteq loaded
  /\ last = None => scan = {} /\ copying = -1
  /\ last # None =>
       /\ connected
       /\ Len(data) = last.len /\ last.n <= last.len
       /\ \A p \in 1 .. last.n : data[p] = <<last.v, p>>
       /\ rxtime \in stamps
       /\ copying # -1 /\ "string" \in loaded \ scan =>
            copying = Lesser(last.len, StrSize - 1)

\* The part of the type invariant that is about the reading side
ReadType ==
  /\ loaded \in Databases
  /\ connected \in BOOLEAN
  /\ buflen \in 0 .. LenMod - 1 /\ scratch \in Seq(Byte)
  /\ data \in Seq(Byte) /\ rxtime \in Values \cup {0} /\ stamps \subseteq Values
  /\ scan \subseteq Readers
  /\ DOMAIN shown = Readers /\ \A r \in Readers : shown[r] \in Shown(r)
  /\ copying \in -1 .. StrSize

ReadInv == ReadType /\ BlockInv

\* The sizes are numbers.
LEMMA Sizes ==
  /\ WordSize \in Nat \ {0} /\ HeaderSize \in Nat \ {0} /\ StampSize \in Nat \ {0}
  /\ StrSize \in Nat \ {0} /\ Step \in Nat \ {0} /\ Nelm \in Nat \ {0}
  /\ TsOffset \in Nat /\ OutSize \in Nat /\ LenMod \in Nat
  /\ InitBuf \in Nat /\ HeaderSize <= InitBuf /\ InitBuf < LenMod
  BY SizeAssumption

\* A datagram is a record of a length, the bytes that follow and a content.
LEMMA DatagramFields ==
  ASSUME NEW d \in Datagrams
  PROVE  d.body[1] \in 0 .. LenMod - 1 /\ d.body[2] \in Int /\ d.v \in Values /\ d.v # 0
  BY DatagramAssumption

LEMMA LesserIs ==
  ASSUME NEW m \in Int, NEW n \in Int
  PROVE  /\ Lesser(m, n) \in Int /\ Lesser(m, n) <= m /\ Lesser(m, n) <= n
         /\ Lesser(m, n) = m \/ Lesser(m, n) = n
  BY DEF Lesser

\* A byte of a datagram, a byte that was never written, and one behind the end.
LEMMA Bytewise ==
  /\ \A v \in Values \cup {0}, i \in 0 .. LenMod : <<v, i>> \in Byte
  /\ Zero \in Byte /\ Beyond \in Byte
<1>1. \A v \in Values \cup {0}, i \in 0 .. LenMod : <<v, i>> \in Byte
  BY DEF Byte
<1>2. 0 \in 0 .. LenMod /\ 1 \in 0 .. LenMod
  BY Sizes
<1> QED
  BY <1>1, <1>2 DEF Zero, Beyond

\* What is read from a block are bytes, also behind its end.
LEMMA BytesType ==
  ASSUME data \in Seq(Byte), NEW first \in Nat, NEW n \in Nat
  PROVE  /\ Bytes(first, n) \in Seq(Byte) /\ Len(Bytes(first, n)) = n
         /\ \A i \in 1 .. n : Bytes(first, n)[i] = At(first + i)
<1>1. ASSUME NEW i \in 1 .. n PROVE At(first + i) \in Byte
  <2>1. first + i \in Nat \ {0}
    OBVIOUS
  <2> QED
    BY <2>1, Bytewise DEF At
<1> QED
  BY <1>1 DEF Bytes

\* The time of a record is a sequence of bytes as well.
LEMMA StampType ==
  ASSUME data \in Seq(Byte), rxtime \in Values \cup {0}
  PROVE  Stamp \in Seq(Byte)
<1>1. <<rxtime, 0>> \in Byte
  BY Bytewise, Sizes
<1>2. Bytes(TsOffset, StampSize) \in Seq(Byte)
  BY BytesType, Sizes
<1> QED
  BY <1>1, <1>2 DEF Stamp

LEMMA InitRead == Init => ReadInv
<1> SUFFICES ASSUME Init PROVE ReadInv
  OBVIOUS
<1>1. /\ buflen = InitBuf /\ scratch = [i \in 1 .. InitBuf - HeaderSize |-> Zero]
      /\ InitBuf - HeaderSize \in Nat
  BY Sizes DEF Init
<1>2. scratch \in Seq(Byte) /\ Len(scratch) = InitBuf - HeaderSize
  BY <1>1, Bytewise
<1>3. DOMAIN shown = Readers /\ \A r \in Readers : shown[r] \in Shown(r)
  <2> SUFFICES ASSUME NEW r \in Readers PROVE shown[r] \in Shown(r)
    BY DEF Init
  <2>1. shown[r] = [val |-> <<>>, nord |-> 0, alarm |-> "no", time |-> <<>>]
    BY DEF Init
  <2>2. <<>> \in Seq(Byte) /\ <<>> \in Seq(Seq(Byte))
    OBVIOUS
  <2> QED
    BY <2>1, <2>2 DEF Shown
<1>4. connected \in BOOLEAN
  BY Zenon DEF Init
<1>5. ReadType
  BY <1>1, <1>2, <1>3, <1>4, Sizes DEF Init, ReadType
<1>6. BlockInv
  BY <1>1, <1>2, Sizes DEF Init, BlockInv, None
<1> QED
  BY <1>5, <1>6 DEF ReadInv


\* recvfrom() fills the buffer from the front and keeps its size.
LEMMA Overlaid ==
  ASSUME NEW d \in Datagrams, scratch \in Seq(Byte), Len(scratch) <= LenMod
  PROVE  /\ Overlay(scratch, d) \in Seq(Byte) /\ Len(Overlay(scratch, d)) = Len(scratch)
         /\ \A i \in 1 .. Len(scratch) :
              i <= d.body[2] => Overlay(scratch, d)[i] = <<d.v, i>>
<1>1. ASSUME NEW i \in 1 .. Len(scratch)
      PROVE  (IF i <= d.body[2] THEN <<d.v, i>> ELSE scratch[i]) \in Byte
  <2>1. i \in 0 .. LenMod /\ scratch[i] \in Byte /\ d.v \in Values \cup {0}
    BY DatagramFields, Sizes
  <2> QED
    BY <2>1, Bytewise
<1> QED
  BY <1>1 DEF Overlay

\* A datagram from the device, of a known block and not too long, is the last one;
\* without memory for it the block keeps its body and only gets its time.
LEMMA StoredKeepsRead ==
  ASSUME ReadInv, NEW d \in Datagrams, connected, Usable(d), ~TooLong(d), Stored(d),
         UNCHANGED <<loaded, connected, shown, copying>>
  PROVE  /\ ReadInv'
         /\ \/ scan' = Readers \cap loaded
            \/ stamps \subseteq stamps' /\ UNCHANGED <<data, scan, last>>
<1>1. /\ buflen \in 0 .. LenMod - 1 /\ scratch \in Seq(Byte) /\ Len(scratch) \in Nat
      /\ Len(scratch) = IF buflen < HeaderSize THEN 0 ELSE buflen - HeaderSize
      /\ loaded \in Databases /\ loaded \subseteq Readers \cup {"output"}
  BY DatabaseAssumption DEF ReadInv, ReadType, BlockInv
<1>2. d.body[1] \in Nat /\ d.body[1] < LenMod /\ d.body[2] \in Int /\ d.v \in Values /\ d.v # 0
  BY DatagramFields, Sizes
<1>3. PICK n \in Int : n = Lesser(d.body[1], d.body[2]) /\ n <= d.body[1] /\ n <= d.body[2]
  <2>1. /\ Lesser(d.body[1], d.body[2]) \in Int
        /\ Lesser(d.body[1], d.body[2]) <= d.body[1] /\ Lesser(d.body[1], d.body[2]) <= d.body[2]
    BY <1>2 DEF Lesser
  <2> QED
    BY <2>1, Zenon
<1>4. buflen >= HeaderSize /\ d.body[1] <= Len(scratch)
  <2>1. HeaderSize + d.body[2] \in Int /\ buflen \in Int
    BY <1>1, <1>2, Sizes
  <2>2. Lesser(HeaderSize + d.body[2], buflen) <= buflen
    BY <2>1, LesserIs
  <2>3. ~(Lesser(HeaderSize + d.body[2], buflen) < HeaderSize)
    BY DEF Usable, IsSmall
  <2>4. Lesser(HeaderSize + d.body[2], buflen) \in Int
    BY <2>1, LesserIs
  <2>5. buflen >= HeaderSize
    BY <2>1, <2>2, <2>3, <2>4, Sizes
  <2> QED
    BY <1>1, <1>2, <2>5, Sizes DEF TooLong
<1>5. scratch' = Overlay(scratch, d) /\ rxtime' = d.v /\ buflen' = buflen
  BY DEF Stored
<1>6. /\ scratch' \in Seq(Byte) /\ Len(scratch') = Len(scratch)
      /\ \A i \in 1 .. Len(scratch) : i <= d.body[2] => scratch'[i] = <<d.v, i>>
  <2>1. Len(scratch) <= LenMod
    BY <1>1, <1>4, Sizes
  <2> QED
    BY <1>1, <1>5, <2>1, Overlaid
<1>7. CASE stamps' = stamps \cup {d.v} /\ UNCHANGED <<data, scan, last>>
  <2>1. ReadType'
    BY <1>1, <1>2, <1>5, <1>6, <1>7, Zenon DEF ReadInv, ReadType, Shown
  <2>2. BlockInv'
    BY <1>1, <1>5, <1>6, <1>7 DEF ReadInv, BlockInv
  <2> QED
    BY <1>7, <2>1, <2>2 DEF ReadInv
<1>8. CASE /\ data' = SubSeq(scratch', 1, d.body[1]) /\ scan' = Readers \cap loaded
           /\ last' = [v |-> d.v, len |-> d.body[1], n |-> n] /\ stamps' = {d.v}
  <2>1. /\ data' \in Seq(Byte) /\ Len(data') = d.body[1]
        /\ \A p \in 1 .. d.body[1] : data'[p] = scratch'[p]
    BY <1>2, <1>4, <1>5, <1>6, <1>8
  <2>2. \A p \in 1 .. n : data'[p] = <<d.v, p>>
    <3> SUFFICES ASSUME NEW p \in 1 .. n PROVE data'[p] = <<d.v, p>>
      OBVIOUS
    <3>1. p \in 1 .. d.body[1] /\ p \in 1 .. Len(scratch) /\ p <= d.body[2]
      BY <1>1, <1>2, <1>3, <1>4
    <3> QED
      BY <1>6, <2>1, <3>1
  <2>3. /\ last'.v = d.v /\ last'.len = d.body[1] /\ last'.n = n /\ last' # None
        /\ last' \in [v : Values \cup {0}, len : Nat, n : Int]
    BY <1>2, <1>8 DEF None
  <2>4. scan' \subseteq Readers /\ stamps' \subseteq Values /\ rxtime' \in stamps'
    BY <1>2, <1>5, <1>8
  <2>5. ReadType'
    BY <1>1, <1>2, <1>5, <1>6, <2>1, <2>4, Zenon DEF ReadInv, ReadType, Shown
  <2>6. BlockInv'
    BY <1>1, <1>3, <1>5, <1>6, <1>8, <2>1, <2>2, <2>3, <2>4 DEF BlockInv, ReadInv, ReadType
  <2> QED
    BY <1>8, <2>5, <2>6 DEF ReadInv
<1> QED
  BY <1>3, <1>7, <1>8 DEF Stored, Content

\* A datagram that is not stored leaves the block as it is; one that is too long
\* changes the size of the buffer.
LEMMA UnstoredKeepsRead ==
  ASSUME ReadInv, NEW d \in Datagrams, Truncated(d) \/ Ignored(d),
         UNCHANGED <<loaded, connected, shown, copying>>
  PROVE  ReadInv' /\ UNCHANGED <<data, rxtime, scan, last, stamps>>
<1>1. /\ buflen \in 0 .. LenMod - 1 /\ scratch \in Seq(Byte) /\ Len(scratch) \in Nat
      /\ Len(scratch) = IF buflen < HeaderSize THEN 0 ELSE buflen - HeaderSize
  BY DEF ReadInv, ReadType, BlockInv
<1>2. UNCHANGED <<data, rxtime, scan, last, stamps>>
  BY DEF Truncated, Ignored
<1>3. PICK over \in Seq(Byte) : over = Overlay(scratch, d) /\ Len(over) = Len(scratch)
  <2>1. Len(scratch) <= LenMod
    BY <1>1, Sizes
  <2> QED
    BY <1>1, <2>1, Overlaid
<1>4. /\ buflen' \in 0 .. LenMod - 1 /\ scratch' \in Seq(Byte)
      /\ Len(scratch') = IF buflen' < HeaderSize THEN 0 ELSE buflen' - HeaderSize
  <2>1. CASE Ignored(d)
    BY <1>1, <1>3, <2>1 DEF Ignored
  <2>2. CASE /\ buflen' = RoomFor(d.body[1])
             /\ scratch' = Resized(over, IF buflen' < HeaderSize THEN 0 ELSE buflen' - HeaderSize)
    <3>1. buflen' \in 0 .. LenMod - 1
      <4>1. d.body[1] \in Nat
        BY DatagramFields, Sizes
      <4> QED
        BY <2>2, <4>1, RoomIsBelow
    <3>2. PICK n \in Nat : n = IF buflen' < HeaderSize THEN 0 ELSE buflen' - HeaderSize
      <4>1. PICK b \in Nat : b = buflen'
        BY <3>1, Sizes
      <4>2. (IF b < HeaderSize THEN 0 ELSE b - HeaderSize) \in Nat
        BY Sizes
      <4> QED
        BY <4>1, <4>2, Zenon
    <3>3. scratch' = [i \in 1 .. n |-> IF i <= Len(over) THEN over[i] ELSE Zero]
      BY <2>2, <3>2 DEF Resized
    <3>4. \A i \in 1 .. n : (IF i <= Len(over) THEN over[i] ELSE Zero) \in Byte
      BY Bytewise
    <3>5. scratch' \in Seq(Byte) /\ Len(scratch') = n
      BY <3>3, <3>4
    <3> QED
      BY <3>1, <3>2, <3>5
  <2>3. CASE buflen' = buflen /\ scratch' = over
    BY <1>1, <1>3, <2>3
  <2> QED
    BY <1>3, <2>1, <2>2, <2>3 DEF Truncated
<1>5. ReadType'
  BY <1>2, <1>4, Zenon DEF ReadInv, ReadType, Shown
<1>6. BlockInv'
  BY <1>2, <1>4, Zenon DEF ReadInv, BlockInv
<1> QED
  BY <1>2, <1>5, <1>6 DEF ReadInv

\* What a record reads of a datagram at a place is what that has carried there.
LEMMA BytesCarried ==
  ASSUME ReadInv, last # None, NEW first \in Nat, NEW n \in Nat, NEW i \in 1 .. n
  PROVE  Carries(Bytes(first, n), i, first + i)
<1>1. Bytes(first, n)[i] = At(first + i) /\ first + i \in Nat \ {0}
  <2>1. data \in Seq(Byte)
    BY DEF ReadInv, ReadType
  <2>2. Bytes(first, n)[i] = At(first + i)
    BY <2>1, BytesType
  <2> QED
    BY <2>2
<1>2. first + i <= last.n => At(first + i) = <<last.v, first + i>>
  <2>1. last.n \in Int /\ last.len \in Nat /\ last.n <= last.len /\ Len(data) = last.len
        /\ \A p \in 1 .. last.n : data[p] = <<last.v, p>>
    BY DEF ReadInv, BlockInv
  <2> QED
    BY <1>1, <2>1 DEF At
<1> QED
  BY <1>1, <1>2 DEF Carries

\* The time of a record that is processed now is in or with the last datagram.
LEMMA StampIsLast ==
  ASSUME ReadInv, last # None
  PROVE  StampMatches(Stamp)
<1>1. Len(data) = last.len /\ rxtime \in stamps
  BY DEF ReadInv, BlockInv
<1>2. CASE last.len > TsOffset + StampSize
  <2>1. Stamp = Bytes(TsOffset, StampSize)
    BY <1>1, <1>2 DEF Stamp
  <2>2. \A i \in 1 .. StampSize : Carries(Bytes(TsOffset, StampSize), i, TsOffset + i)
    BY BytesCarried, Sizes
  <2> QED
    BY <1>2, <2>1, <2>2 DEF StampMatches
<1>3. CASE ~(last.len > TsOffset + StampSize)
  BY <1>1, <1>3 DEF Stamp, StampMatches
<1> QED
  BY <1>2, <1>3


\* A record that shows something else changes nothing else.
LEMMA ShownType ==
  ASSUME ReadInv, NEW r \in Readers, NEW s \in Shown(r), shown' = [shown EXCEPT ![r] = s]
  PROVE  /\ DOMAIN shown' = Readers
         /\ \A q \in Readers : shown'[q] \in Shown(q)
         /\ shown'[r] = s
         /\ \A q \in Readers \ {r} : shown'[q] = shown[q]
  BY DEF ReadInv, ReadType

\* A record that is processed: its place in the database, the block and the other
\* records stay as they are.
LEMMA ProcessedKeepsRead ==
  ASSUME ReadInv, NEW r \in Readers, r # "string", r \in scan, scan' = scan \ {r},
         DOMAIN shown' = Readers, \A q \in Readers : shown'[q] \in Shown(q),
         UNCHANGED <<loaded, connected, recv_vars, copying>>
  PROVE  ReadInv' /\ last # None
<1>1. UNCHANGED <<loaded, connected, buflen, scratch, data, rxtime, last, stamps, copying>>
  BY DEF recv_vars
<1>2. \A q : Shown(q)' = Shown(q)
  BY DEF Shown
<1>3. ReadType'
  BY <1>1, <1>2, Zenon DEF ReadInv, ReadType
<1>4. last # None
  BY DEF ReadInv, BlockInv
<1>5. BlockInv'
  BY <1>1, <1>4 DEF ReadInv, BlockInv
<1> QED
  BY <1>3, <1>4, <1>5 DEF ReadInv

LEMMA ReadRegisterKeeps ==
  ASSUME ReadInv, RecordsShowLast, ReadRegister
  PROVE  ReadInv' /\ RecordsShowLast'
<1> DEFINE off == Offset["register"]
           full == [val |-> Bytes(off, WordSize), nord |-> 1,
                    alarm |-> IF connected THEN "no" ELSE "read", time |-> Stamp]
           soft == [shown["register"] EXCEPT !.alarm = "soft"]
<1>1. /\ "register" \in scan /\ scan' = scan \ {"register"}
      /\ UNCHANGED <<loaded, connected, recv_vars, copying>>
      /\ shown' = [shown EXCEPT !["register"] = IF Fits(off, WordSize, data) THEN full ELSE soft]
  BY DEF ReadRegister, Show
<1>2. /\ "register" \in Readers /\ off \in Nat /\ data \in Seq(Byte) /\ Len(data) \in Nat
      /\ shown["register"] \in Shown("register") /\ rxtime \in Values \cup {0}
      /\ last # None /\ connected /\ Len(data) = last.len
  BY <1>1, OffsetAssumption DEF Readers, ReadInv, ReadType, BlockInv
<1>3. full \in Shown("register")
  BY <1>2, StampType, BytesType, Sizes DEF Shown
<1>4. soft \in Shown("register") /\ soft.alarm = "soft"
  BY <1>2 DEF Shown
<1>5. Fits(off, WordSize, data) <=> off + WordSize <= last.len
  BY <1>2, Sizes DEF Fits
<1>6. /\ DOMAIN shown' = Readers /\ \A q \in Readers : shown'[q] \in Shown(q)
      /\ shown'["register"] = IF Fits(off, WordSize, data) THEN full ELSE soft
      /\ \A q \in Readers \ {"register"} : shown'[q] = shown[q]
  <2>1. (IF Fits(off, WordSize, data) THEN full ELSE soft) \in Shown("register")
    BY <1>3, <1>4
  <2> QED
    BY <1>1, <1>2, <2>1, ShownType
<1>7. ReadInv'
  BY <1>1, <1>2, <1>6, ProcessedKeepsRead
<1>8. RegisterMatches(shown'["register"])
  <2>1. CASE Fits(off, WordSize, data)
    <3>1. \A i \in 1 .. WordSize : Carries(Bytes(off, WordSize), i, off + i)
      BY <1>2, BytesCarried, Sizes
    <3>2. StampMatches(Stamp)
      BY <1>2, StampIsLast
    <3> HIDE DEF off
    <3> QED
      BY <1>2, <1>5, <1>6, <2>1, <3>1, <3>2 DEF RegisterMatches, off
  <2>2. CASE ~Fits(off, WordSize, data)
    BY <1>4, <1>5, <1>6, <2>2 DEF RegisterMatches
  <2> QED
    BY <2>1, <2>2
<1>9. RecordsShowLast'
  BY <1>1, <1>6, <1>8
  DEF RecordsShowLast, Readers, recv_vars, RegisterMatches, WaveformMatches, StringMatches,
      StampMatches, Carries
<1> QED
  BY <1>7, <1>9


\* Every set of numbers that is not empty has a least one.
LEMMA LeastNumber ==
  ASSUME NEW S \in SUBSET Nat, S # {}
  PROVE  \E n \in S : \A m \in S : n <= m
<1> DEFINE R == OpToRel(<, Nat)
<1>1. IsWellFoundedOn(R, Nat)
  BY NatLessThanWellFounded
<1>2. PICK n \in S : \A m \in S : ~(<<m, n>> \in R)
  <2> HIDE DEF R
  <2> QED
    BY <1>1, WFMin
<1>3. \A m \in S : ~(m < n)
  BY <1>2 DEF OpToRel
<1> QED
  BY <1>3

\* The elements that begin before the end of the block are the first ones.
LEMMA StartsPrefix ==
  ASSUME data \in Seq(Byte)
  PROVE  \E n \in 0 .. Nelm : Starts = 0 .. n - 1
<1> DEFINE off == Offset["waveform"]
<1>1. off \in Nat /\ Step \in Nat /\ Nelm \in Nat /\ Len(data) \in Nat
  BY OffsetAssumption, Sizes DEF Readers
<1>2. Starts = {k \in 0 .. Nelm - 1 : off + k * Step < Len(data)}
  BY DEF Starts
<1> HIDE DEF off
<1>3. ASSUME NEW j \in Starts, NEW k \in Nat, k <= j
      PROVE  k \in Starts
  <2>1. j \in Nat /\ k \in 0 .. Nelm - 1 /\ j - k \in Nat
    BY <1>1, <1>2, <1>3
  <2>2. j * Step = k * Step + (j - k) * Step /\ (j - k) * Step \in Nat /\ k * Step \in Nat
    BY <1>1, <2>1
  <2> QED
    BY <1>1, <1>2, <2>1, <2>2
<1> DEFINE S == {k \in Nat : k \notin Starts}
<1>4. Nelm \in S
  BY <1>1, <1>2
<1>5. PICK n \in S : \A m \in S : n <= m
  <2> HIDE DEF S
  <2>1. S \subseteq Nat
    BY DEF S
  <2> QED
    BY <1>4, <2>1, LeastNumber
<1>6. n \in 0 .. Nelm
  BY <1>1, <1>4, <1>5
<1>7. \A k \in Nat : k < n => k \in Starts
  BY <1>5
<1>8. ASSUME NEW k \in Starts PROVE k < n
  <2>1. k \in Nat
    BY <1>1, <1>2
  <2> QED
    BY <1>3, <1>5, <2>1
<1>9. Starts = 0 .. n - 1
  <2>1. Starts \subseteq Nat
    BY <1>1, <1>2
  <2>2. Starts \subseteq 0 .. n - 1
    BY <1>1, <1>6, <1>8, <2>1
  <2>3. 0 .. n - 1 \subseteq Starts
    BY <1>1, <1>6, <1>7
  <2> QED
    BY <2>2, <2>3
<1> QED
  BY <1>6, <1>9

LEMMA ReadWaveformKeeps ==
  ASSUME ReadInv, RecordsShowLast, ReadWaveform
  PROVE  ReadInv' /\ RecordsShowLast'
<1> DEFINE off == Offset["waveform"]
<1>1. /\ off \in Nat /\ data \in Seq(Byte) /\ rxtime \in Values \cup {0}
      /\ Step \in Nat /\ WordSize \in Nat /\ Nelm \in Nat /\ Len(data) \in Nat
  BY OffsetAssumption, Sizes DEF Readers, ReadInv, ReadType
<1>2. PICK n \in 0 .. Nelm : Starts = 0 .. n - 1
  BY <1>1, StartsPrefix
<1>3. n = IF Starts = {} THEN 0 ELSE 1 + CHOOSE k \in Starts : \A j \in Starts : j <= k
  <2>1. CASE n = 0
    BY <1>2, <2>1
  <2>2. CASE n # 0
    <3>1. n - 1 \in Starts /\ \A j \in Starts : j <= n - 1
      BY <1>1, <1>2, <2>2
    <3>2. \A k \in Starts : (\A j \in Starts : j <= k) => k = n - 1
      BY <1>1, <1>2, <3>1
    <3> DEFINE c == CHOOSE k \in Starts : \A j \in Starts : j <= k
    <3>3. c \in Starts /\ \A j \in Starts : j <= c
      BY <3>1
    <3>4. c = n - 1
      BY <3>2, <3>3
    <3> HIDE DEF c
    <3>5. n = 1 + c /\ Starts # {}
      BY <1>1, <3>1, <3>4
    <3> QED
      <4>1. n = IF Starts = {} THEN 0 ELSE 1 + c
        BY <3>5
      <4> QED
        BY <4>1, Zenon DEF c
  <2> QED
    BY <2>1, <2>2
<1> DEFINE val == [k \in 1 .. n |-> Bytes(off + (k - 1) * Step, WordSize)]
           s == [val |-> val, nord |-> n, alarm |-> "no", time |-> Stamp]
<1>4. /\ "waveform" \in scan /\ scan' = scan \ {"waveform"}
      /\ UNCHANGED <<loaded, connected, recv_vars, copying>>
      /\ shown' = [shown EXCEPT !["waveform"] = s]
  BY <1>3 DEF ReadWaveform, Show
<1>5. "waveform" \in Readers /\ last # None /\ Len(data) = last.len
  BY <1>4 DEF Readers, ReadInv, BlockInv
<1>6. ASSUME NEW k \in 0 .. n - 1 PROVE off + k * Step \in Nat
  <2>1. k \in Nat
    BY <1>1
  <2>2. k * Step \in Nat
    BY <1>1, <2>1
  <2> QED
    BY <1>1, <2>2
<1> HIDE DEF off
<1>7. val \in Seq(Seq(Byte)) /\ \A k \in 0 .. n - 1 : val[k + 1] = Bytes(off + k * Step, WordSize)
  <2>1. ASSUME NEW k \in 1 .. n PROVE Bytes(off + (k - 1) * Step, WordSize) \in Seq(Byte)
    <3>1. k - 1 \in 0 .. n - 1
      BY <1>1
    <3> QED
      BY <1>1, <1>6, <3>1, BytesType
  <2>2. n \in Nat
    BY <1>1
  <2>3. ASSUME NEW k \in 0 .. n - 1 PROVE val[k + 1] = Bytes(off + k * Step, WordSize)
    <3>1. k + 1 \in 1 .. n /\ k + 1 - 1 = k
      BY <1>1
    <3> QED
      BY <3>1
  <2> QED
    BY <2>1, <2>2, <2>3
<1> HIDE DEF val
<1>8. s \in Shown("waveform")
  BY <1>1, <1>7, StampType DEF Shown
<1>9. /\ DOMAIN shown' = Readers /\ \A q \in Readers : shown'[q] \in Shown(q)
      /\ shown'["waveform"] = s
      /\ \A q \in Readers \ {"waveform"} : shown'[q] = shown[q]
  BY <1>4, <1>5, <1>8, ShownType
<1>10. ReadInv'
  BY <1>4, <1>5, <1>9, ProcessedKeepsRead
<1>11. WaveformMatches(s)
  <2>1. s.nord = n /\ s.val = val /\ s.time = Stamp
    OBVIOUS
  <2> HIDE DEF s
  <2>2. n <= Nelm /\ \A k \in 0 .. Nelm - 1 : k < n <=> off + k * Step < last.len
    <3>1. n <= Nelm
      BY <1>1
    <3>2. \A k \in 0 .. Nelm - 1 : k \in Starts <=> off + k * Step < last.len
      BY <1>5 DEF Starts, off
    <3>3. \A k \in 0 .. Nelm - 1 : k \in Starts <=> k < n
      BY <1>1, <1>2
    <3> QED
      BY <3>1, <3>2, <3>3
  <2>3. ASSUME NEW k \in 0 .. n - 1, NEW i \in 1 .. WordSize
        PROVE  Carries(val[k + 1], i, off + k * Step + i)
    BY <1>1, <1>5, <1>6, <1>7, BytesCarried
  <2>4. StampMatches(Stamp)
    BY <1>5, StampIsLast
  <2> QED
    BY <2>1, <2>2, <2>3, <2>4 DEF WaveformMatches, off
<1>12. RecordsShowLast'
  BY <1>4, <1>9, <1>11
  DEF RecordsShowLast, Readers, recv_vars, RegisterMatches, WaveformMatches, StringMatches,
      StampMatches, Carries
<1> QED
  BY <1>10, <1>12


LEMMA ReadStringLengthKeeps ==
  ASSUME ReadInv, RecordsShowLast, ReadStringLength
  PROVE  ReadInv' /\ RecordsShowLast'
<1>1. /\ "string" \in scan /\ scan' = scan \ {"string"}
      /\ copying' = Lesser(Len(data), StrSize - 1)
      /\ UNCHANGED <<loaded, connected, buflen, scratch, data, rxtime, last, stamps, shown>>
  BY DEF ReadStringLength, recv_vars
<1>2. last # None /\ Len(data) \in Nat /\ Len(data) = last.len
  BY <1>1 DEF ReadInv, BlockInv, ReadType
<1>3. copying' \in -1 .. StrSize /\ copying' # -1
  BY <1>1, <1>2, Sizes DEF Lesser
<1>4. ReadType'
  BY <1>1, <1>3, Zenon DEF ReadInv, ReadType, Shown
<1>5. BlockInv'
  BY <1>1, <1>2 DEF ReadInv, BlockInv
<1>6. RecordsShowLast'
  BY <1>1, <1>3
  DEF RecordsShowLast, RegisterMatches, WaveformMatches, StringMatches, StampMatches, Carries
<1> QED
  BY <1>4, <1>5, <1>6 DEF ReadInv

LEMMA ReadStringKeeps ==
  ASSUME ReadInv, RecordsShowLast, ReadString
  PROVE  ReadInv' /\ RecordsShowLast'
<1> DEFINE off == Offset["string"]
           n == IF off > copying THEN 0 ELSE copying - off
           s == [val |-> Bytes(off, n), nord |-> n, alarm |-> "no", time |-> Stamp]
<1>1. /\ copying # -1 /\ copying' = -1 /\ shown' = [shown EXCEPT !["string"] = s]
      /\ UNCHANGED <<loaded, connected, buflen, scratch, data, rxtime, last, stamps, scan>>
  BY DEF ReadString, Show, recv_vars
<1>2. /\ off \in Nat /\ data \in Seq(Byte) /\ rxtime \in Values \cup {0} /\ copying \in -1 .. StrSize
      /\ StrSize \in Nat \ {0} /\ last # None /\ last.len \in Nat /\ "string" \in Readers
  BY <1>1, OffsetAssumption, Sizes DEF Readers, ReadInv, ReadType, BlockInv
<1>3. n \in Nat
  BY <1>1, <1>2
<1> HIDE DEF off, n
<1>4. s \in Shown("string")
  BY <1>2, <1>3, StampType, BytesType DEF Shown
<1>5. /\ DOMAIN shown' = Readers /\ \A q \in Readers : shown'[q] \in Shown(q)
      /\ shown'["string"] = s
      /\ \A q \in Readers \ {"string"} : shown'[q] = shown[q]
  BY <1>1, <1>2, <1>4, ShownType
<1>6. ReadType'
  <2>1. \A q : Shown(q)' = Shown(q)
    BY DEF Shown
  <2>2. -1 \in -1 .. StrSize
    BY <1>2
  <2> QED
    BY <1>1, <1>5, <2>1, <2>2, Zenon DEF ReadInv, ReadType
<1>7. BlockInv'
  BY <1>1, <1>2 DEF ReadInv, BlockInv
<1>8. ASSUME "string" \in loaded \ scan
      PROVE  StringMatches(s)
  <2>1. copying = Lesser(last.len, StrSize - 1)
    BY <1>1, <1>2, <1>8 DEF ReadInv, BlockInv
  <2>2. n = IF copying - off > 0 THEN copying - off ELSE 0
    BY <1>1, <1>2 DEF n
  <2>3. \A i \in 1 .. n : Carries(Bytes(off, n), i, off + i)
    BY <1>2, <1>3, BytesCarried
  <2>4. StampMatches(Stamp)
    BY <1>2, StampIsLast
  <2>5. s.nord = n /\ s.val = Bytes(off, n) /\ s.time = Stamp
    OBVIOUS
  <2> HIDE DEF s
  <2> QED
    BY <2>1, <2>2, <2>3, <2>4, <2>5 DEF StringMatches, off
<1>9. RecordsShowLast'
  BY <1>1, <1>5, <1>8
  DEF RecordsShowLast, Readers, RegisterMatches, WaveformMatches, StringMatches, StampMatches,
      Carries
<1> QED
  BY <1>6, <1>7, <1>9 DEF ReadInv

\* What changes neither the body of the block nor a record.
LEMMA QuietKeepsShown ==
  ASSUME RecordsShowLast, UNCHANGED <<loaded, scan, shown, copying, last>>,
         stamps \subseteq stamps'
  PROVE  RecordsShowLast'
<1>1. \A t : StampMatches(t) => StampMatches(t)'
  BY DEF StampMatches, Carries
<1>2. \A r : RegisterMatches(r) => RegisterMatches(r)'
  BY <1>1 DEF RegisterMatches, Carries
<1>3. \A r : WaveformMatches(r) => WaveformMatches(r)'
  BY <1>1 DEF WaveformMatches, Carries
<1>4. \A r : StringMatches(r) => StringMatches(r)'
  BY <1>1 DEF StringMatches, Carries
<1> QED
  BY <1>2, <1>3, <1>4 DEF RecordsShowLast

LEMMA RecvDataKeeps ==
  ASSUME ReadInv, RecordsShowLast, NEW d \in Datagrams, RecvData(d)
  PROVE  ReadInv' /\ RecordsShowLast'
<1>1. connected /\ UNCHANGED <<loaded, connected, shown, copying>>
  BY DEF RecvData
<1>2. CASE Usable(d) /\ ~TooLong(d) /\ Stored(d)
  <2>1. /\ ReadInv'
        /\ \/ scan' = Readers \cap loaded
           \/ stamps \subseteq stamps' /\ UNCHANGED <<data, scan, last>>
    BY <1>1, <1>2, StoredKeepsRead
  <2>2. CASE scan' = Readers \cap loaded
    <3>1. {"register", "waveform", "string"} \cap (loaded' \ scan') = {}
      BY <1>1, <2>2 DEF Readers
    <3> QED
      BY <2>1, <3>1 DEF RecordsShowLast
  <2>3. CASE stamps \subseteq stamps' /\ UNCHANGED <<data, scan, last>>
    BY <1>1, <2>1, <2>3, QuietKeepsShown
  <2> QED
    BY <2>1, <2>2, <2>3
<1>3. CASE Truncated(d) \/ Ignored(d)
  BY <1>1, <1>3, UnstoredKeepsRead, QuietKeepsShown
<1> QED
  BY <1>2, <1>3 DEF RecvData

LEMMA StepKeepsShown == ReadInv /\ RecordsShowLast /\ [Next]_vars => ReadInv' /\ RecordsShowLast'
<1> SUFFICES ASSUME ReadInv, RecordsShowLast, [Next]_vars
             PROVE  ReadInv' /\ RecordsShowLast'
  OBVIOUS
<1>1. CASE UNCHANGED <<loaded, buflen, scratch, data, rxtime, last, stamps, scan, shown, copying>>
           /\ (connected' = connected \/ connected' = TRUE)
  <2>1. ReadType'
    BY <1>1, Zenon DEF ReadInv, ReadType, Shown
  <2>2. BlockInv'
    BY <1>1, Zenon DEF ReadInv, BlockInv
  <2> QED
    BY <1>1, <2>1, <2>2, QuietKeepsShown DEF ReadInv
<1>2. CASE Connect
  BY <1>1, <1>2 DEF Connect, recv_vars
<1>3. ASSUME NEW d \in Datagrams, RecvData(d) PROVE ReadInv' /\ RecordsShowLast'
  BY <1>3, RecvDataKeeps
<1>4. CASE ReadRecord
  BY <1>4, ReadRegisterKeeps, ReadWaveformKeeps, ReadStringLengthKeeps, ReadStringKeeps
  DEF ReadRecord
<1>5. CASE WriteRecord
  BY <1>1, <1>5 DEF WriteRecord, WriteRegister, WriteString, recv_vars
<1>6. CASE UNCHANGED vars
  BY <1>1, <1>6 DEF vars, recv_vars
<1> QED
  BY <1>2, <1>3, <1>4, <1>5, <1>6 DEF Next

LEMMA InitShown == Init => RecordsShowLast
  BY DEF Init, RecordsShowLast

LEMMA ReadInvariance == Spec => [](ReadInv /\ RecordsShowLast)
  BY InitRead, InitShown, StepKeepsShown, PTL DEF Spec

\* The records that are processed show the bytes that the last datagram has carried,
\* each in its place (recvdata() and the readers), for every datagram, offset, word,
\* step and size of a string; not said are bytes that no datagram carried, and the
\* time where memory was short.
THEOREM ShowsLast == Spec => []RecordsShowLast
  BY ReadInvariance, PTL

\* The size of the send block stays within its bound.
LEMMA OutSizeInvariance == Spec => [](Len(sdata) \in 0 .. OutSize)
<1>1. Init => Len(sdata) \in 0 .. OutSize
  BY Sizes DEF Init
<1>2. SendInv /\ Len(sdata) \in 0 .. OutSize /\ [Next]_vars => (Len(sdata) \in 0 .. OutSize)'
  <2> SUFFICES ASSUME SendInv, Len(sdata) \in 0 .. OutSize, [Next]_vars
               PROVE  Len(sdata') \in 0 .. OutSize
    OBVIOUS
  <2>1. ASSUME NEW o \in Outs, NEW d \in Digits, WriteRegister(o, d)
        PROVE  Len(sdata') \in 0 .. OutSize
    <3>1. DOMAIN sdata = 1 .. Len(sdata) /\ Len(sdata) \in Nat
      BY DEF SendInv
    <3> QED
      BY <2>1, <3>1 DEF WriteRegister
  <2>2. ASSUME NEW len \in 0 .. OutSize, NEW d \in Digits, WriteString(d, len)
        PROVE  Len(sdata') \in 0 .. OutSize
    BY <2>2, Sizes DEF WriteString
  <2>3. CASE UNCHANGED sdata
    BY <2>3
  <2>4. Next => WriteRecord \/ UNCHANGED sdata
    BY DEF Next, Connect, RecvData, ReadRecord, ReadRegister, ReadWaveform, ReadStringLength,
           ReadString, send_vars
  <2> QED
    BY <2>1, <2>2, <2>3, <2>4 DEF WriteRecord, vars, send_vars
<1>3. Spec => []SendInv
  BY InitSend, StepKeepsSettings, PTL DEF Spec
<1> QED
  BY <1>1, <1>2, <1>3, PTL DEF Spec

\* The state of the UDP device and its records keeps its type.
THEOREM UdpTypeCorrectness == Spec => []TypeOK
<1>1. ReadInv /\ SendInv /\ Len(sdata) \in 0 .. OutSize => TypeOK
  BY Zenon DEF ReadInv, ReadType, SendInv, TypeOK
<1>2. Spec => []SendInv
  BY InitSend, StepKeepsSettings, PTL DEF Spec
<1> QED
  BY <1>1, <1>2, ReadInvariance, OutSizeInvariance, PTL
=============================================================================
