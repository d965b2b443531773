------------------------------ MODULE SendQueue ------------------------------
(***************************************************************************)
(* What the transmit path promises: one first-in first-out queue to the    *)
(* device.  Its first messages are committed and may be delivered, the     *)
(* others wait for a commit, at most one for every message ID.  The end of *)
(* a connection loses the committed messages and no others.                *)
(***************************************************************************)
EXTENDS Integers, Sequences

CONSTANTS Blocks, Values, Unknown

VARIABLES
  open,    \* there is a connection
  queue,   \* messages, the oldest first
  ready,   \* how many of them are committed
  device   \* content that the device received last

vars == <<open, queue, ready, device>>

Init ==
  /\ open = FALSE
  /\ queue = <<>>
  /\ ready = 0
  /\ device = [b \in Blocks |-> Unknown]

Waiting == {queue[i].id : i \in ready + 1 .. Len(queue)}

Accept(b, v) ==
  /\ open
  /\ b \notin Waiting
  /\ queue' = Append(queue, [id |-> b, body |-> v])
  /\ UNCHANGED <<open, ready, device>>

Commit ==
  /\ open
  /\ ready' = Len(queue)
  /\ UNCHANGED <<open, queue, device>>

Deliver ==
  /\ open
  /\ ready > 0
  /\ device' = [device EXCEPT ![queue[1].id] = queue[1].body]
  /\ queue' = Tail(queue)
  /\ ready' = ready - 1
  /\ UNCHANGED open

\* there is no memory: what waits for a commit is given up
Discard ==
  /\ open
  /\ queue' = SubSeq(queue, 1, ready)
  /\ UNCHANGED <<open, ready, device>>

Open ==
  /\ ~open
  /\ open' = TRUE
  /\ device' \in {device, [b \in Blocks |-> Unknown]}
  /\ UNCHANGED <<queue, ready>>

Close ==
  /\ open
  /\ open' = FALSE
  /\ queue' = SubSeq(queue, ready + 1, Len(queue))
  /\ ready' = 0
  /\ UNCHANGED device

Next ==
  \/ \E b \in Blocks, v \in Values : Accept(b, v)
  \/ Commit \/ Deliver \/ Discard \/ Open \/ Close

Spec == Init /\ [][Next]_vars
=============================================================================
