---------------------------- MODULE PscRecvProps ----------------------------
(* What the receive path of PscRecv promises *)
EXTENDS PscRecv

\* However the bytes are cut into portions, and wherever a connection ends, the
\* decoder is in step with the stream: after a header it stands at the first byte
\* of the body it announced, before it, or when there is no body, at the first
\* byte of a message.
InStep ==
  connected /\ stream # <<>> =>
    IF have_head /\ expect > 0
      THEN stream[1].pos = HeaderSize + 1 /\ stream[1].msg.len = expect
           /\ stream[1].msg.id = header
      ELSE stream[1].pos = 1 /\ (~have_head => expect = HeaderSize)

\* A connection is only given up as badly framed when the device did send a
\* bad header; a header cut in two or left over from an earlier connection is
\* never taken for one.
NoFalseFraming == [][FramingError => owed # <<>> /\ ~Head(owed).good]_vars

\* The low watermark lets exactly the bytes that are needed next trigger the
\* callback, and the high watermark lets them into the buffer, also when a body
\* is longer than the buffer's usual limit.  Only a message that could not be
\* stored for want of memory waits there with the watermarks of an earlier one.
WatermarksFit ==
  connected /\ Idle =>
    \/ low = expect /\ expect <= high
    \/ arrived >= expect /\ have_head /\ bodyblock

\* A record never misses the newest message unnoticed: one that shows older data
\* is requested to be scanned, or shows the alarm of a scan that came only after
\* the connection was lost.
NewestIsScanned ==
  \A b \in RecvBlocks, kind \in Readers :
    shown[<<b, kind>>].data # data[b] =>
      <<b, kind>> \in scan \/ (kind = "waveform" /\ shown[<<b, kind>>].bad)

\* A message that could not be stored waits in the input buffer until more bytes
\* come.
BodyWaits == Idle /\ have_head /\ bodyblock /\ arrived >= expect

\* The stream is never stuck on a connection that stays up: the first message
\* owed is delivered in the end, unless its header is bad or there is no memory
\* for its body.
NoStall ==
  \A n \in 1 .. MaxBytes \div (HeaderSize + 1) :
    (connected /\ Len(owed) = n) ~> (Len(owed) # n \/ ~connected \/ (MemoryMayFail /\ BodyWaits))

-----------------------------------------------------------------------------
(* The receive path implements MsgStream *)

Messages == INSTANCE MsgStream WITH open <- connected, Blocks <- RecvBlocks

\* The decoder of bytes delivers exactly the messages that were sent.
ImplementsMsgStream == Messages!Spec
=============================================================================
