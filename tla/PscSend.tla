------------------------------- MODULE PscSend -------------------------------
(***************************************************************************)
(* The transmit path of a PSC (coreApp/src/psc.cpp, pscbase.cpp) and the   *)
(* records that drive it: records write registers into the scratch buffer  *)
(* of a message ID, a "PSC Ctrl Send" record queues the buffer, a "PSC     *)
(* Ctrl Send All" record moves the shared send buffer to the buffer of the *)
(* socket, and libevent writes that to the device.                         *)
(*                                                                         *)
(* Every action runs with PSC::lock held.  A message is the ID and the     *)
(* content of its block; its length is SizeOf[ID].                         *)
(***************************************************************************)
EXTENDS Integers, Sequences

CONSTANTS
  Blocks,         \* message IDs with a send block
  Values,         \* contents of a block
  Unknown,        \* a content nobody knows
  SizeOf,         \* bytes of a message, header included
  MaxSendBuffer,  \* PSCMaxSendBuffer; 0 is no limit
  CountMod,       \* counters are epicsUInt32: they count modulo CountMod
  MemoryMayFail   \* libevent may be out of memory

ASSUME UnknownAssumption == Unknown \notin Values
ASSUME SizeAssumption == SizeOf \in [Blocks -> Nat \ {0}]
ASSUME MaxAssumption == MaxSendBuffer \in Nat
ASSUME CountAssumption == CountMod \in Nat \ {0}
ASSUME MemoryAssumption == MemoryMayFail \in BOOLEAN

VARIABLES
  connected,  \* PSC::connected
  scratch,    \* Block::data of every send block
  queued,     \* Block::queued of every send block
  count,      \* Block::count of every send block
  sendbuf,    \* PSC::sendbuf, the shared send buffer
  tx,         \* the output buffer of the session
  device,     \* the content that the device received last for every ID
  alarm,      \* how the last write ended, as the record shows it
  accepted    \* the last content queueSend() accepted that can still arrive

vars == <<connected, scratch, queued, count, sendbuf, tx, device, alarm, accepted>>

Message == [id : Blocks, body : Values]

Alarms == {"none", "busy", "full", "memory", "disconnected"}

TypeOK ==
  /\ connected \in BOOLEAN
  /\ scratch \in [Blocks -> Values]
  /\ queued \in [Blocks -> BOOLEAN]
  /\ count \in [Blocks -> 0 .. CountMod - 1]
  /\ sendbuf \in Seq(Message)
  /\ tx \in Seq(Message)
  /\ device \in [Blocks -> Values \cup {Unknown}]
  /\ alarm \in Alarms
  /\ accepted \in [Blocks -> Values \cup {Unknown}]

\* Block::Block() leaves count as it finds it
Init ==
  /\ connected = FALSE
  /\ scratch \in [Blocks -> Values]
  /\ queued = [b \in Blocks |-> FALSE]
  /\ count \in [Blocks -> 0 .. CountMod - 1]
  /\ sendbuf = <<>>
  /\ tx = <<>>
  /\ device = [b \in Blocks |-> Unknown]
  /\ alarm = "none"
  /\ accepted = [b \in Blocks |-> Unknown]

\* how many bytes the first n messages of a buffer have, for every n
Sums(buf) ==
  LET sum[n \in 0 .. Len(buf)] == IF n = 0 THEN 0 ELSE sum[n - 1] + SizeOf[buf[n].id] IN sum

\* evbuffer_get_length()
Bytes(buf) == Sums(buf)[Len(buf)]

\* mutant of Full: off by one
FullLate(buf) == MaxSendBuffer > 0 /\ Bytes(buf) > MaxSendBuffer

\* PSCMaxSendBuffer is checked before the bytes are added
Full(buf) == MaxSendBuffer > 0 /\ Bytes(buf) >= MaxSendBuffer

-----------------------------------------------------------------------------
(* Records *)

\* write_from_field(): the scratch buffer takes the value, connected or not
WriteField(b, v) ==
  /\ scratch' = [scratch EXCEPT ![b] = v]
  /\ alarm' = IF connected THEN "none" ELSE "disconnected"
  /\ UNCHANGED <<connected, queued, count, sendbuf, tx, device, accepted>>

Refuse(why) ==
  /\ alarm' = why
  /\ UNCHANGED <<connected, scratch, queued, count, sendbuf, tx, device, accepted>>

\* PSC::queueSend() with a connection, in the order of its checks
Enqueue(b, v) ==
  \/ /\ queued[b]
     /\ Refuse("busy")
  \/ /\ ~queued[b] /\ Full(sendbuf)
     /\ Refuse("full")
  \/ /\ ~queued[b] /\ ~Full(sendbuf) /\ MemoryMayFail  \* evbuffer_expand() fails
     /\ Refuse("memory")
  \/ /\ ~queued[b] /\ ~Full(sendbuf)
     /\ sendbuf' = Append(sendbuf, [id |-> b, body |-> v])
     /\ queued' = [queued EXCEPT ![b] = TRUE]
     /\ count' = [count EXCEPT ![b] = (@ + 1) % CountMod]
     /\ accepted' = [accepted EXCEPT ![b] = v]
     /\ alarm' = "none"
     /\ UNCHANGED <<connected, scratch, tx, device>>

\* write_lo_send_block(), PSCBase::send(): silent without a connection
SendBlock(b) ==
  \/ /\ ~connected
     /\ Refuse("none")
  \/ /\ connected
     /\ Enqueue(b, scratch[b])

\* write_wf(), write_wf_bytes(), write_msg(): the record brings its own content
WriteBlock(b, v) ==
  \/ /\ ~connected
     /\ Refuse("disconnected")
  \/ /\ connected
     /\ Enqueue(b, v)

\* mutants of FlushDone: the flags stay; newer messages go first; they are lost
FlushKeepsQueued ==
  /\ connected /\ ~Full(tx)
  /\ tx' = tx \o sendbuf /\ sendbuf' = <<>> /\ alarm' = "none"
  /\ UNCHANGED <<connected, scratch, queued, count, device, accepted>>

FlushPrepends ==
  /\ connected /\ ~Full(tx)
  /\ tx' = sendbuf \o tx /\ sendbuf' = <<>> /\ queued' = [b \in Blocks |-> FALSE]
  /\ alarm' = "none"
  /\ UNCHANGED <<connected, scratch, count, device, accepted>>

FlushLoses ==
  /\ connected /\ ~Full(tx)
  /\ sendbuf' = <<>> /\ queued' = [b \in Blocks |-> FALSE] /\ alarm' = "none"
  /\ UNCHANGED <<connected, scratch, count, tx, device, accepted>>

\* PSC::flushSend() when there is room and memory
FlushDone ==
  /\ connected
  /\ ~Full(tx)
  /\ tx' = tx \o sendbuf
  /\ sendbuf' = <<>>
  /\ queued' = [b \in Blocks |-> FALSE]
  /\ alarm' = "none"
  /\ UNCHANGED <<connected, scratch, count, device, accepted>>

\* write_bo_send_changed(), PSC::flushSend()
SendAll ==
  \/ /\ ~connected
     /\ Refuse("disconnected")
  \/ /\ connected /\ Full(tx)
     /\ Refuse("full")
  \/ /\ connected /\ ~Full(tx) /\ MemoryMayFail   \* evbuffer_add_buffer() fails
     /\ sendbuf' = <<>>                           \* queued stays as it is
     /\ accepted' = [b \in Blocks |-> IF queued[b] THEN Unknown ELSE accepted[b]]
     /\ alarm' = "memory"
     /\ UNCHANGED <<connected, scratch, queued, count, tx, device>>
  \/ FlushDone

-----------------------------------------------------------------------------
(* The session and the device *)

\* eventcb() for BEV_EVENT_CONNECTED; the device may have been powered off
ConnUp ==
  /\ ~connected
  /\ connected' = TRUE
  /\ \/ UNCHANGED device
     \/ device' = [b \in Blocks |-> Unknown]
  /\ UNCHANGED <<scratch, queued, count, sendbuf, tx, alarm, accepted>>

\* mutant of ConnDown: the output buffer outlives the session
ConnDownKeepsOutput ==
  /\ connected
  /\ connected' = FALSE
  /\ UNCHANGED <<tx, scratch, queued, count, sendbuf, device, alarm, accepted>>

\* start_reconnect(): the session goes with its output buffer; the shared
\* send buffer and the queued flags stay
ConnDown ==
  /\ connected
  /\ connected' = FALSE
  /\ tx' = <<>>
  /\ accepted' = [b \in Blocks |-> IF queued[b] THEN accepted[b] ELSE Unknown]
  /\ UNCHANGED <<scratch, queued, count, sendbuf, device, alarm>>

\* libevent writes, the device receives and applies a message
DeviceReceives ==
  /\ connected
  /\ tx # <<>>
  /\ device' = [device EXCEPT ![Head(tx).id] = Head(tx).body]
  /\ tx' = Tail(tx)
  /\ UNCHANGED <<connected, scratch, queued, count, sendbuf, alarm, accepted>>

-----------------------------------------------------------------------------
Records ==
  \/ \E b \in Blocks, v \in Values : WriteField(b, v) \/ WriteBlock(b, v)
  \/ \E b \in Blocks : SendBlock(b)
  \/ SendAll

Next == Records \/ ConnUp \/ ConnDown \/ DeviceReceives

Spec == Init /\ [][Next]_vars

\* "Send All" records are scanned again and again: once there is room one of
\* them flushes.  A connected device reads what is sent (or the write times out).
FairSpec == Spec /\ WF_vars(FlushDone) /\ WF_vars(DeviceReceives)
=============================================================================
