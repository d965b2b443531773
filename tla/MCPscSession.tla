---------------------------- MODULE MCPscSession ----------------------------
(***************************************************************************)
(* The instance of PscSession that TLC checks: forced reconnects, the exit *)
(* handler and failing allocations may all happen, and the history         *)
(* variable past remembers which of them did, so that a promise can be     *)
(* stated for the behaviours that it is made for.                          *)
(***************************************************************************)
EXTENDS PscSessionProps

VARIABLE past  \* disturbances that have happened: "forced", "exit", "starved"

mc_vars == <<vars, past>>

MCInit == Init /\ past = {}

\* connect() has thrown std::bad_alloc: neither a session nor a timer is left
Starves ==
  /\ Start \/ OnTimer
  /\ session' = NULL /\ ~timer_active' /\ message' = message

MCNext ==
  /\ Next
  /\ past' = past \cup {d \in {"forced", "exit", "starved"} :
                          \/ d = "forced" /\ ForceReConnect
                          \/ d = "exit" /\ exiting' # exiting
                          \/ d = "starved" /\ Starves}

MCSpec == MCInit /\ [][MCNext]_mc_vars /\ Fairness

Gone == ~Alive \/ past \cap {"exit", "starved"} # {}

\* Without a forced reconnect, an exit or a failed allocation so far, no
\* assertion of the handlers has failed, no callback meets a null session, and
\* the status records are told of every change of flag and text.
QuietSafe == past = {} => NoStaleCallback /\ StatusAnnounced

\* The driver never gives up, also not after forced reconnects: again and again
\* it has a session, or the reconnect timer runs out and a new attempt is made.
RetriesForever == started ~> (session # NULL \/ cb.kind = "timer" \/ Gone)

\* A lost connection, also one that a record forced down without any
\* announcement, is shown by the connection status record in the end.
LossIsShown == (started /\ ~connected) ~> (~shown.connected \/ connected \/ Gone)

\* Every attempt is decided: a session that is not connected is connected or
\* given up.
AttemptsEnd == (session # NULL /\ ~connected) ~> (connected \/ session = NULL \/ ~Alive)
=============================================================================
