----------------------------- MODULE UdpRecords -----------------------------
(***************************************************************************)
(* A UDP device (coreApp/src/pscudp.cpp) and the records on its blocks:    *)
(* register, waveform and string records that read the block which         *)
(* recvdata() fills (devPSCReg, devPSCWf, devPSCString, with the time      *)
(* stamps of devcommon), and registers that share the scratch buffer of a  *)
(* send block.                                                             *)
(*                                                                         *)
(* One datagram is one step of recvdata(), which holds the lock.  So does  *)
(* each record, but the string record: its guard is a temporary, and the   *)
(* block may change between its look at the size and its copy.             *)
(*                                                                         *)
(* Byte i of the body of a datagram with content v is <<v, i>>.  A word is *)
(* WordSize bytes and a mask is a set of them.  The counters and the text  *)
(* of the status records are left out.                                     *)
(***************************************************************************)
EXTENDS Integers, Sequences

CONSTANTS
  Values,      \* contents of datagrams
  Datagrams,   \* what may arrive: body is the length in the header and what follows it
  HeaderSize, InitBuf, LenMod,  \* 8, 1024, 2^32
  WordSize, StampSize,          \* sizeof(T), 8
  StrSize,     \* MAX_STRING_SIZE
  Databases,   \* which kinds of record there may be
  Offset,      \* the offset in the link of each reading record
  Step, Nelm,  \* step and NELM of the waveform record
  TsOffset,    \* info TimeFromBlock
  MemoryMayFail,   \* a resize may throw std::bad_alloc, which ev_recv() catches
  Outs, OutMask,  \* output records on the send block, and their masks, {} for none
  OutSize, Digits \* the size of the send block, and what is written to it

ASSUME SizeAssumption ==
  /\ {WordSize, HeaderSize, StampSize, StrSize, Step, Nelm} \subseteq Nat \ {0}
  /\ {TsOffset, OutSize, LenMod} \subseteq Nat
  /\ InitBuf \in HeaderSize .. LenMod - 1
ASSUME DatagramAssumption ==
  /\ Datagrams \subseteq [src : {"ep", "other"}, magic : BOOLEAN, known : BOOLEAN,
                           body : (0 .. LenMod - 1) \X Int, v : Values]
  /\ 0 \notin Values

Readers == {"register", "waveform", "string"}
ASSUME MemoryAssumption == MemoryMayFail \in BOOLEAN
ASSUME DatabaseAssumption == Databases \subseteq SUBSET (Readers \cup {"output"})
ASSUME OffsetAssumption == Offset \in [Readers -> Nat]
ASSUME MaskAssumption == OutMask \in [Outs -> SUBSET (1 .. WordSize)]

VARIABLES
  loaded,           \* the kinds of record in the database
  connected,
  buflen, scratch,  \* size of rxscratch, and what it holds behind the header
  data, rxtime,     \* the block
  scan,        \* records requested by scanIoRequest()
  shown,       \* the records: value, alarm and time
  copying,     \* the string record between its two accesses: the length it took
  sdata,       \* the scratch buffer of the send block
  last,        \* history: the datagram that was stored last
  stamps,      \* history: the values that rxtime has had since
  lastSet      \* history: what each output record has set, unless overwritten

recv_vars == <<buflen, scratch, data, rxtime, last, stamps>>
send_vars == <<sdata, lastSet>>
vars == <<loaded, connected, recv_vars, scan, shown, copying, send_vars>>

Zero == <<0, 0>>
Beyond == <<0, 1>>   \* a byte that was read behind the end of a vector
None == [v |-> 0, len |-> 0, n |-> 0]
Lesser(m, n) == IF m < n THEN m ELSE n

Byte == {<<v, i>> : v \in Values \cup {0}, i \in 0 .. LenMod}
Shown(r) == [val : IF r = "waveform" THEN Seq(Seq(Byte)) ELSE Seq(Byte),
             nord : Nat, alarm : {"no", "read", "soft"}, time : Seq(Byte)]

TypeOK ==
  /\ loaded \in Databases
  /\ connected \in BOOLEAN
  /\ buflen \in 0 .. LenMod - 1 /\ scratch \in Seq(Byte)
  /\ data \in Seq(Byte) /\ rxtime \in Values \cup {0} /\ stamps \subseteq Values
  /\ scan \subseteq Readers
  /\ DOMAIN shown = Readers /\ \A r \in Readers : shown[r] \in Shown(r)
  /\ copying \in -1 .. StrSize
  /\ Len(sdata) \in 0 .. OutSize
  /\ lastSet \in [Outs -> Digits \cup {0}]

Init ==
  /\ loaded \in Databases
  /\ connected = FALSE
  /\ buflen = InitBuf /\ scratch = [i \in 1 .. InitBuf - HeaderSize |-> Zero]
  /\ data = <<>> /\ rxtime = 0
  /\ scan = {}
  /\ shown = [r \in Readers |-> [val |-> <<>>, nord |-> 0, alarm |-> "no", time |-> <<>>]]
  /\ copying = -1
  /\ sdata = [i \in 1 .. OutSize |-> 0]
  /\ last = None /\ stamps = {} /\ lastSet = [o \in Outs |-> 0]

-----------------------------------------------------------------------------
(* PSCUDP *)

Connect ==
  /\ ~connected
  /\ connected' = TRUE
  /\ UNCHANGED <<loaded, recv_vars, scan, shown, copying, send_vars>>

\* recvfrom(): what does not fit is lost, what is not overwritten stays
Overlay(old, d) ==
  [i \in 1 .. Len(old) |-> IF i <= d.body[2] THEN <<d.v, i>> ELSE old[i]]

Resized(s, n) == [i \in 1 .. n |-> IF i <= Len(s) THEN s[i] ELSE Zero]

\* ret < 8
IsSmall(d) == Lesser(HeaderSize + d.body[2], buflen) < HeaderSize

\* mutant: the header is forgotten
RoomOfBody(len) == len

\* the new size of rxscratch, in 32 bits
RoomFor(len) == (len + HeaderSize) % LenMod

\* the body is longer than the buffer: it is lost, and the buffer grows, if it can
Truncated(d) ==
  /\ \/ /\ buflen' = RoomFor(d.body[1])
        /\ scratch' = Resized(Overlay(scratch, d),
                              IF buflen' < HeaderSize THEN 0 ELSE buflen' - HeaderSize)
     \/ /\ MemoryMayFail /\ RoomFor(d.body[1]) > buflen
        /\ scratch' = Overlay(scratch, d)
        /\ UNCHANGED buflen
  /\ UNCHANGED <<data, rxtime, scan, last, stamps>>

\* mutant: the block is not resized
ContentKept(s, len) == SubSeq(s, 1, len) \o SubSeq(data, len + 1, Len(data))

\* the block gets as many bytes as the header says
Content(s, len) == SubSeq(s, 1, len)

\* the time is taken, and then the body, if there is memory for it
Stored(d) ==
  /\ scratch' = Overlay(scratch, d)
  /\ rxtime' = d.v
  /\ \/ /\ data' = Content(scratch', d.body[1])
        /\ scan' = Readers \cap loaded
        /\ last' = [v |-> d.v, len |-> d.body[1], n |-> Lesser(d.body[1], d.body[2])]
        /\ stamps' = {d.v}
     \/ /\ MemoryMayFail /\ d.body[1] > Len(data)
        /\ stamps' = stamps \cup {d.v}
        /\ UNCHANGED <<data, scan, last>>
  /\ UNCHANGED buflen

\* from somewhere else, too small, not ours, or of an unknown block
Ignored(d) ==
  /\ scratch' = Overlay(scratch, d)
  /\ UNCHANGED <<buflen, data, rxtime, scan, last, stamps>>

Usable(d) == d.src = "ep" /\ ~IsSmall(d) /\ d.magic
TooLong(d) == d.body[1] > buflen - HeaderSize

\* recvdata(), for one datagram
RecvData(d) ==
  /\ connected
  /\ \/ ~Usable(d) /\ Ignored(d)
     \/ Usable(d) /\ TooLong(d) /\ Truncated(d)
     \/ Usable(d) /\ ~TooLong(d) /\ d.known /\ Stored(d)
     \/ Usable(d) /\ ~TooLong(d) /\ ~d.known /\ Ignored(d)
  /\ UNCHANGED <<loaded, connected, shown, copying, send_vars>>

-----------------------------------------------------------------------------
(* Records that read the block *)

At(i) == IF i <= Len(data) THEN data[i] ELSE Beyond
Bytes(first, n) == [i \in 1 .. n |-> At(first + i)]
Fits(off, size, d) == off <= Len(d) /\ Len(d) - off >= size

\* setRecTimestamp(), with TSE=-2: from the block, when there is more than the stamp
Stamp == IF Len(data) > TsOffset + StampSize THEN Bytes(TsOffset, StampSize)
         ELSE <<<<rxtime, 0>>>>

Show(r, val, nord, alarm) ==
  shown' = [shown EXCEPT ![r] = [val |-> val, nord |-> nord, alarm |-> alarm, time |-> Stamp]]

\* read_to_field(), for read_binary(), read_li(), read_ai() and read_ai_float()
ReadRegister ==
  LET off == Offset["register"] IN
  /\ "register" \in scan
  /\ scan' = scan \ {"register"}
  /\ IF Fits(off, WordSize, data)
       THEN Show("register", Bytes(off, WordSize), 1, IF connected THEN "no" ELSE "read")
       ELSE shown' = [shown EXCEPT !["register"].alarm = "soft"]
  /\ UNCHANGED <<loaded, connected, recv_vars, copying, send_vars>>

\* the first byte of each element that read_wf() takes
Starts == {k \in 0 .. Nelm - 1 : Offset["waveform"] + k * Step < Len(data)}

\* read_wf(): only the first byte of an element is compared with the end
ReadWaveform ==
  LET n == IF Starts = {} THEN 0 ELSE 1 + CHOOSE k \in Starts : \A j \in Starts : j <= k
  IN
  /\ "waveform" \in scan
  /\ scan' = scan \ {"waveform"}
  /\ Show("waveform",
          [k \in 1 .. n |-> Bytes(Offset["waveform"] + (k-1) * Step, WordSize)],
          n, "no")
  /\ UNCHANGED <<loaded, connected, recv_vars, copying, send_vars>>

\* read_si(), with no lock: the length ...
ReadStringLength ==
  /\ "string" \in scan
  /\ copying = -1
  /\ scan' = scan \ {"string"}
  /\ copying' = Lesser(Len(data), StrSize - 1)
  /\ UNCHANGED <<loaded, connected, recv_vars, shown, send_vars>>

\* ... and the copy
ReadString ==
  LET off == Offset["string"]
      n == IF off > copying THEN 0 ELSE copying - off
  IN
  /\ copying # -1
  /\ copying' = -1
  /\ Show("string", Bytes(off, n), n, "no")
  /\ UNCHANGED <<loaded, connected, recv_vars, scan, send_vars>>

-----------------------------------------------------------------------------
(* Records that write the send block; queueSend() and flushSend() are empty *)

Word(d) == [i \in 1 .. WordSize |-> d]
MaskOf(o) == IF OutMask[o] = {} THEN 1 .. WordSize ELSE OutMask[o]

\* mutant: what the mask leaves out is not read back first
NewWordWhole(o, d) == Word(d)

\* write_binary(): the masked part is replaced
NewWord(o, d) == [i \in 1 .. WordSize |-> IF i \in MaskOf(o) THEN d ELSE sdata[i]]

\* write_from_field(), for write_binary(), write_lo(), write_ao(), write_ao_float()
WriteRegister(o, d) ==
  /\ Fits(0, WordSize, sdata)          \* SOFT_ALARM otherwise
  /\ sdata' = [i \in DOMAIN sdata |-> IF i <= WordSize THEN NewWord(o, d)[i] ELSE sdata[i]]
  /\ lastSet' = [p \in Outs |-> IF p = o THEN d
                                ELSE IF MaskOf(p) \cap MaskOf(o) # {} THEN 0 ELSE lastSet[p]]
  /\ UNCHANGED <<loaded, connected, recv_vars, scan, shown, copying>>

\* read_binary() of a record that reads the setting back
ReadBack(o) == {sdata[i] : i \in MaskOf(o)}

\* write_so(): the block is resized to the string
WriteString(d, len) ==
  /\ connected
  /\ sdata' = [i \in 1 .. len |-> d]
  /\ lastSet' = [o \in Outs |-> 0]
  /\ UNCHANGED <<loaded, connected, recv_vars, scan, shown, copying>>

ReadRecord == ReadRegister \/ ReadWaveform \/ ReadStringLength \/ ReadString

WriteRecord ==
  /\ "output" \in loaded
  /\ \E d \in Digits :
       \/ \E o \in Outs : WriteRegister(o, d)
       \/ \E len \in 0 .. OutSize : WriteString(d, len)

Next == Connect \/ (\E d \in Datagrams : RecvData(d)) \/ ReadRecord \/ WriteRecord

Spec == Init /\ [][Next]_vars
=============================================================================
