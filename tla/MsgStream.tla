------------------------------ MODULE MsgStream ------------------------------
(***************************************************************************)
(* What the receive path promises, without bytes: the messages of a        *)
(* connection are delivered whole, in order and once, each to the block of *)
(* its ID, and no message survives the end of its connection.              *)
(***************************************************************************)
EXTENDS Sequences

CONSTANTS Message, Blocks, Unknown

VARIABLES
  open,  \* there is a connection
  owed,  \* messages sent on it and not delivered
  data   \* the newest content of every block

vars == <<open, owed, data>>

Init == open = FALSE /\ owed = <<>> /\ data = [b \in Blocks |-> Unknown]

Open ==
  /\ ~open
  /\ open' = TRUE
  /\ UNCHANGED <<owed, data>>

Send(m) ==
  /\ open
  /\ owed' = Append(owed, m)
  /\ UNCHANGED <<open, data>>

Deliver ==
  /\ open
  /\ owed # <<>>
  /\ LET m == Head(owed)
     IN /\ m.good
        /\ data' = IF m.id \in Blocks THEN [data EXCEPT ![m.id] = m.body] ELSE data
  /\ owed' = Tail(owed)
  /\ UNCHANGED open

Close ==
  /\ open
  /\ open' = FALSE
  /\ owed' = <<>>
  /\ UNCHANGED data

Next == Open \/ (\E m \in Message : Send(m)) \/ Deliver \/ Close

Spec == Init /\ [][Next]_vars
=============================================================================
