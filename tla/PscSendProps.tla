---------------------------- MODULE PscSendProps ----------------------------
(* What the transmit path of PscSend promises *)
EXTENDS PscSend

IdsOf(buf) == {buf[i].id : i \in DOMAIN buf}

\* The rule of queueSend(), whatever processing.rst:72 says:
\* the shared send buffer holds every message ID at most once, and an ID in it is
\* marked as queued, also across lost connections and flushes that fail.
OnePerBlock ==
  /\ \A i, j \in DOMAIN sendbuf : sendbuf[i].id = sendbuf[j].id => i = j
  /\ \A b \in IdsOf(sendbuf) : queued[b]

\* The queued flags say what waits in the send buffer, so a record is refused
\* only because of a message that is really there, or because a flush without
\* memory lost it: then no accepted content is owed for the block any more.
QueuedAccurate ==
  \A b \in Blocks : queued[b] => b \in IdsOf(sendbuf) \/ accepted[b] = Unknown

\* The flag of a block and the shared send buffer agree, although the buffer is
\* emptied, kept over a lost connection, or emptied by a flush that fails: each
\* message in it has its flag, and a flag without a message owes nothing.
FlagsAreRight == (\A b \in IdsOf(sendbuf) : queued[b]) /\ QueuedAccurate

\* the newest content on its way to the device, or what the device has
Newest(b) ==
  LET way  == tx \o sendbuf
      mine == {i \in DOMAIN way : way[i].id = b}
  IN IF mine = {} THEN device[b]
     ELSE way[CHOOSE i \in mine : \A j \in mine : j <= i].body

\* No accepted write is lost, doubled or overtaken by an older one: what the
\* device ends up with is the last content that queueSend() accepted.
LastWriteWins == \A b \in Blocks : accepted[b] # Unknown => Newest(b) = accepted[b]

\* PSCMaxSendBuffer bounds both buffers.  The checks look before they add, so
\* the send buffer can exceed the limit by one message, and the output buffer
\* by one send buffer.
WithinOneMessage(n, limit) == n <= limit \/ \E b \in Blocks : n <= limit + SizeOf[b]
BuffersBounded ==
  MaxSendBuffer > 0 =>
    /\ WithinOneMessage(Bytes(sendbuf), MaxSendBuffer - 1)
    /\ WithinOneMessage(Bytes(tx), 2 * (MaxSendBuffer - 1))

\* A block that is queued is not refused forever: it is flushed once there is
\* room, unless the connection ends.
QueuedBlocksFlush == \A b \in Blocks : queued[b] ~> (~queued[b] \/ ~connected)

\* On a connection that stays up every flushed message is delivered, and an
\* accepted content reaches the device or is replaced by a newer one.
AcceptedArrives ==
  \A b \in Blocks, v \in Values :
    (connected /\ accepted[b] = v) ~> (device[b] = v \/ accepted[b] # v \/ ~connected)

-----------------------------------------------------------------------------
(* The transmit path implements SendQueue *)

Queue == INSTANCE SendQueue WITH
           open <- connected, queue <- tx \o sendbuf, ready <- Len(tx)

\* Two buffers and a flag per block behave as the one queue of SendQueue.
ImplementsSendQueue == Queue!Spec
=============================================================================
