------------------------------- MODULE PscRecv -------------------------------
(***************************************************************************)
(* The receive path of a PSC: PSC::recvdata() (coreApp/src/psc.cpp) takes  *)
(* messages out of the byte stream of the socket, stores each body in the  *)
(* block of its message ID and has the block's records scanned.            *)
(*                                                                         *)
(* Bytes arrive in any portions.  A byte is known by the message it is     *)
(* part of and its position there: the first HeaderSize bytes are the      *)
(* header.  What the decoder reads at a wrong position is no header.       *)
(*                                                                         *)
(* recvdata() loops with PSC::lock and the lock of the bufferevent held:   *)
(* one action is one round of the loop, and while running is set no byte   *)
(* arrives and no other thread sees the PSC.                               *)
(***************************************************************************)
EXTENDS Integers, Sequences

CONSTANTS
  Ids,           \* message IDs
  RecvBlocks,    \* the IDs some record is interested in
  Readers,       \* kinds of records that read every block
  Bodies,        \* contents of a message body
  Unknown,       \* no such content
  Lengths,       \* lengths of a body
  HeaderSize,    \* HEADER_SIZE
  MinMaxBuf,     \* min_max_buf_size
  CountMod,      \* counters are epicsUInt32: they count modulo CountMod
  BadHeaders,    \* the device may send a header that does not begin with PS
  MemoryMayFail, \* std::vector::resize() may throw
  MaxBytes       \* bound: bytes in transit

ASSUME BlockAssumption == RecvBlocks \subseteq Ids
ASSUME ReaderAssumption == Readers \subseteq {"register", "waveform"}
ASSUME BodyAssumption == Unknown \notin Bodies
ASSUME LengthAssumption == Lengths \subseteq Nat
ASSUME HeaderAssumption == HeaderSize \in Nat \ {0} /\ HeaderSize < MinMaxBuf
ASSUME BufAssumption == MinMaxBuf \in Nat
ASSUME CountAssumption == CountMod \in Nat \ {0}
ASSUME FlagAssumption == {BadHeaders, MemoryMayFail} \subseteq BOOLEAN

VARIABLES
  connected,  \* PSC::connected
  stream,     \* bytes from the device that are not consumed
  arrived,    \* how many of them are in the input buffer
  low, high,  \* read watermarks of the bufferevent
  readcb,     \* the read callback is to be called
  running,    \* recvdata() runs
  have_head, header, bodylen, expect,  \* the members of PSC
  bodyblock,  \* PSC::bodyblock is not NULL
  ukncount,   \* PSC::ukncount
  data,       \* Block::data
  rxtime,     \* Block::rxtime: the message whose header was read at that time
  count,      \* Block::count
  scan,       \* records requested by scanIoRequest() and not yet processed
  shown,      \* the data that every record shows, and whether with an alarm
  owed,       \* messages sent on this connection and not delivered
  failed      \* the assertion of the loop failed

decoder  == <<have_head, header, bodylen, expect, bodyblock>>
socket   == <<stream, arrived, low, high, readcb>>
blocks   == <<data, rxtime, count, ukncount>>
records  == <<scan, shown>>
vars == <<connected, socket, running, decoder, blocks, records, owed, failed>>

Message == [id : Ids, len : Lengths, body : Bodies, good : BOOLEAN]
Byte == [msg : Message, pos : Nat \ {0}]

BytesOf(m) == [k \in 1 .. HeaderSize + m.len |-> [msg |-> m, pos |-> k]]

TypeOK ==
  /\ {connected, readcb, running, have_head, bodyblock, failed} \subseteq BOOLEAN
  /\ stream \in Seq(Byte)
  /\ arrived \in 0 .. Len(stream)
  /\ {low, high, expect, bodylen} \subseteq Nat
  /\ header \in Ids \cup {Unknown}
  /\ ukncount \in 0 .. CountMod - 1
  /\ data \in [RecvBlocks -> Bodies \cup {Unknown}]
  /\ rxtime \in [RecvBlocks -> Bodies \cup {Unknown}]
  /\ count \in [RecvBlocks -> 0 .. CountMod - 1]
  /\ scan \subseteq RecvBlocks \X Readers
  /\ shown \in [RecvBlocks \X Readers -> [data : Bodies \cup {Unknown}, bad : BOOLEAN]]
  /\ owed \in Seq(Message)

\* Block::Block() leaves count as it finds it
Init ==
  /\ connected = FALSE
  /\ stream = <<>> /\ arrived = 0 /\ low = 0 /\ high = 0 /\ readcb = FALSE
  /\ running = FALSE
  /\ have_head = FALSE /\ header = Unknown /\ bodylen = 0
  /\ expect = HeaderSize /\ bodyblock = FALSE
  /\ data = [b \in RecvBlocks |-> Unknown]
  /\ rxtime = [b \in RecvBlocks |-> Unknown]
  /\ count \in [RecvBlocks -> 0 .. CountMod - 1]
  /\ ukncount = 0
  /\ scan = {}
  /\ shown = [br \in RecvBlocks \X Readers |-> [data |-> Unknown, bad |-> FALSE]]
  /\ owed = <<>>
  /\ failed = FALSE

Idle == ~running /\ ~failed

-----------------------------------------------------------------------------
(* The device and the session *)

DeviceSends(m) ==
  /\ ~failed
  /\ connected
  /\ m.good \/ BadHeaders
  /\ Len(stream) + HeaderSize + m.len <= MaxBytes
  /\ stream' = stream \o BytesOf(m)
  /\ owed' = Append(owed, m)
  /\ UNCHANGED <<connected, arrived, low, high, readcb, running, decoder, blocks, records,
                 failed>>

\* libevent stops reading at the high watermark; when bytes came in and there are
\* at least as many as the low watermark says, it calls bev_datacb()
BytesArrive(n) ==
  /\ Idle
  /\ connected
  /\ arrived < high
  /\ arrived + n <= Len(stream)
  /\ arrived + n <= high
  /\ arrived' = arrived + n
  /\ readcb' = (readcb \/ arrived' >= low)
  /\ UNCHANGED <<connected, stream, low, high, running, decoder, blocks, records, owed, failed>>

\* mutant of Connect: the decoder is left as the last connection left it
ConnectKeepsDecoder ==
  /\ Idle
  /\ ~connected
  /\ connected' = TRUE
  /\ low' = HeaderSize
  /\ high' = MinMaxBuf
  /\ UNCHANGED <<stream, arrived, readcb, running, decoder, blocks, records, owed, failed>>

\* PSC::connect() resets the decoder and the watermarks; then the socket connects
Connect ==
  /\ Idle
  /\ ~connected
  /\ connected' = TRUE
  /\ have_head' = FALSE
  /\ header' = Unknown
  /\ bodylen' = 0
  /\ bodyblock' = FALSE
  /\ expect' = HeaderSize
  /\ low' = HeaderSize
  /\ high' = MinMaxBuf
  /\ UNCHANGED <<stream, arrived, readcb, running, blocks, records, owed, failed>>

\* PSC::start_reconnect(): the bufferevent goes with its input buffer
StartReconnect ==
  /\ connected' = FALSE
  /\ stream' = <<>>
  /\ arrived' = 0
  /\ readcb' = FALSE
  /\ owed' = <<>>

\* the connection ends, or a record forces it to
Disconnect ==
  /\ Idle
  /\ connected
  /\ StartReconnect
  /\ UNCHANGED <<low, high, running, decoder, blocks, records, failed>>

-----------------------------------------------------------------------------
(* PSC::recvdata() *)

\* bev_datacb() is called
Begin ==
  /\ Idle
  /\ connected
  /\ readcb
  /\ readcb' = FALSE
  /\ running' = TRUE
  /\ UNCHANGED <<connected, stream, arrived, low, high, decoder, blocks, records, owed, failed>>

\* evbuffer_remove() of the first n bytes
Remove(n) ==
  /\ stream' = SubSeq(stream, n + 1, Len(stream))
  /\ arrived' = arrived - n

\* the first HeaderSize bytes are the header of a message, in place and framed
HeaderFound ==
  /\ stream[1].msg.good
  /\ \A k \in 1 .. HeaderSize : stream[k] = [msg |-> stream[1].msg, pos |-> k]

Loops == running /\ ~failed /\ arrived >= expect

\* psc.cpp:283, the header of a message
DecodeHeader ==
  /\ Loops
  /\ ~have_head
  /\ HeaderFound
  /\ Remove(HeaderSize)
  /\ LET m == stream[1].msg
     IN /\ have_head' = TRUE
        /\ header' = m.id
        /\ bodylen' = m.len
        /\ expect' = m.len
        /\ bodyblock' = (m.id \in RecvBlocks)
        /\ IF m.id \in RecvBlocks
             THEN /\ rxtime' = [rxtime EXCEPT ![m.id] = m.body]
                  /\ count' = [count EXCEPT ![m.id] = (@ + 1) % CountMod]
                  /\ UNCHANGED ukncount
             ELSE /\ ukncount' = (ukncount + 1) % CountMod
                  /\ UNCHANGED <<rxtime, count>>
  /\ UNCHANGED <<connected, low, high, readcb, running, data, records, owed, failed>>

\* psc.cpp:290, the message does not begin with PS
FramingError ==
  /\ Loops
  /\ ~have_head
  /\ ~HeaderFound
  /\ StartReconnect
  /\ running' = FALSE
  /\ UNCHANGED <<low, high, decoder, blocks, records, failed>>

\* what resize() and evbuffer_remove() leave in the block: the content of a
\* message if the bytes are its whole body
Copied ==
  LET m == stream[1].msg
  IN IF /\ bodylen > 0
        /\ bodylen = m.len
        /\ \A k \in 1 .. bodylen : stream[k] = [msg |-> m, pos |-> HeaderSize + k]
       THEN m.body
       ELSE Unknown

\* mutants of StoreBody: no scan is requested; the vector is not resized
StoreBodySilent == data' = [data EXCEPT ![header] = Copied] /\ UNCHANGED scan
StoreBodyReserved == data' = [data EXCEPT ![header] = Unknown] /\ scan' = scan \cup ({header} \X Readers)

\* the block of the message takes the body, and its records are to be scanned
StoreBody ==
  /\ data' = [data EXCEPT ![header] = Copied]
  /\ scan' = scan \cup ({header} \X Readers)

\* psc.cpp:323, the body of a message; psc.cpp:353, assert(some progress)
DecodeBody ==
  /\ Loops
  /\ have_head
  /\ Remove(bodylen)
  /\ IF bodyblock THEN StoreBody ELSE UNCHANGED <<data, scan>>
  /\ have_head' = FALSE
  /\ bodyblock' = FALSE
  /\ expect' = HeaderSize
  /\ failed' = ~(arrived > arrived')
  /\ owed' = Tail(owed)
  /\ UNCHANGED <<connected, low, high, readcb, running, header, bodylen, rxtime, count,
                 ukncount, shown>>

\* resize() throws, bev_datacb() catches: the message waits in the input buffer,
\* and the watermarks stay as they were, until more bytes come in
BodyWithoutMemory ==
  /\ Loops
  /\ MemoryMayFail
  /\ have_head /\ bodyblock
  /\ running' = FALSE
  /\ UNCHANGED <<connected, socket, decoder, blocks, records, owed, failed>>

\* mutant of Finish: the high watermark does not follow a long body
FinishFixedHigh ==
  /\ running /\ ~failed
  /\ arrived < expect
  /\ running' = FALSE
  /\ low' = expect
  /\ UNCHANGED <<connected, stream, arrived, high, readcb, decoder, blocks, records, owed,
                 failed>>

\* psc.cpp:360, wait for the rest
Finish ==
  /\ running /\ ~failed
  /\ arrived < expect
  /\ running' = FALSE
  /\ low' = expect
  /\ high' = IF expect >= MinMaxBuf THEN expect + 1 ELSE MinMaxBuf
  /\ UNCHANGED <<connected, stream, arrived, readcb, decoder, blocks, records, owed, failed>>

-----------------------------------------------------------------------------
\* a record with SCAN "I/O Intr" reads its block, PSC::lock held.  Without a
\* connection a register record takes the data and an alarm (read_to_field()),
\* a waveform record only the alarm (read_wf()).
ScanBlock(b, kind) ==
  /\ Idle
  /\ <<b, kind>> \in scan
  /\ scan' = scan \ {<<b, kind>>}
  /\ shown' = [shown EXCEPT ![<<b, kind>>] =
                 [data |-> IF connected \/ kind = "register" THEN data[b] ELSE @.data,
                  bad |-> ~connected]]
  /\ UNCHANGED <<connected, socket, running, decoder, blocks, owed, failed>>

Receive == Begin \/ DecodeHeader \/ FramingError \/ DecodeBody \/ Finish

Next ==
  \/ \E m \in Message : DeviceSends(m)
  \/ \E n \in 1 .. MaxBytes : BytesArrive(n)
  \/ Connect
  \/ Disconnect
  \/ Receive
  \/ BodyWithoutMemory
  \/ \E b \in RecvBlocks, kind \in Readers : ScanBlock(b, kind)

Spec == Init /\ [][Next]_vars

\* Bytes that were sent arrive, the event loop thread runs its callbacks and the
\* scan threads their records.
Fairness ==
  /\ WF_vars(\E n \in 1 .. MaxBytes : BytesArrive(n))
  /\ WF_vars(Receive)
  /\ \A b \in RecvBlocks, kind \in Readers : WF_vars(ScanBlock(b, kind))

FairSpec == Spec /\ Fairness
=============================================================================
