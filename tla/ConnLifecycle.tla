---------------------------- MODULE ConnLifecycle ----------------------------
(***************************************************************************)
(* What the users of a PSC may rely on, without threads, callbacks and     *)
(* libevent: a device is connecting, connected, or waits to try again.  A  *)
(* connection that ends is never replaced at once: there is a wait in      *)
(* between, and every connection is counted once.                          *)
(***************************************************************************)
EXTENDS Integers

CONSTANT CountMod  \* the counter of connections wraps here

VARIABLES
  phase,  \* of the device
  count   \* connections established, modulo CountMod

TypeOK ==
  /\ phase \in {"new", "waiting", "connecting", "connected", "dead"}
  /\ count \in 0 .. CountMod - 1

Init == phase = "new" /\ count = 0

\* a connection attempt begins
Attempt ==
  /\ phase \in {"new", "waiting"}
  /\ phase' = "connecting"
  /\ UNCHANGED count

\* an attempt cannot begin, fails, or the connection ends: wait
Wait ==
  /\ phase \in {"new", "connecting", "connected"}
  /\ phase' = "waiting"
  /\ UNCHANGED count

Established ==
  /\ phase = "connecting"
  /\ phase' = "connected"
  /\ count' = (count + 1) % CountMod

\* the IOC exits, or has no memory for another attempt
Die ==
  /\ phase' = "dead"
  /\ UNCHANGED count

Next == Attempt \/ Wait \/ Established \/ Die

Spec == Init /\ [][Next]_<<phase, count>>
=============================================================================
