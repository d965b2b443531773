--------------------------- MODULE PscSessionProps ---------------------------
(* What the session life cycle of PscSession promises *)
EXTENDS PscSession

Running == started /\ exiting = "no" /\ Alive

\* While the IOC runs a device is never stranded and never connects twice:
\* it has a session or a pending reconnect, and not both (the assertions of
\* start_reconnect() and reconnect(), required here in every state).  Only
\* the std::bad_alloc of connect() leaves it with neither.
SessionXorTimer ==
  Running => /\ session = NULL \/ ~timer_active
             /\ session # NULL \/ timer_active \/ AllocMayFail

\* timer_active agrees with libevent: the flag is set exactly while the timer
\* is armed, has expired, or its callback waits for the lock.
TimerFlagAccurate ==
  exiting = "no" => (timer_active <=> timer # "idle" \/ cb.kind = "timer")

\* No bufferevent is forgotten: each one that is not freed is the session.
NoLeak == exiting = "no" => \A b \in Bevs : bev[b] # "free" => b = session

\* connected is only set while reading from the socket is enabled, so
\* flushSend() and recvdata() never use a socket that is still connecting.
ConnectedIsOpen ==
  exiting = "no" /\ connected => session # NULL /\ bev[session] \in {"open", "down"}

\* A callback that was picked for one session never runs on the next one: the
\* callbacks use psc->session instead of the bufferevent they are given.
CallbackNeverMisdirected == cb.bev # NULL => session \in {NULL, cb.bev}

\* Without a forced reconnect and before exit, no assertion of the handlers
\* fails and no callback meets a null session.
NoStaleCallback == Alive /\ (cb.bev # NULL => session = cb.bev)

\* The message record and the connection flag tell the same story, and every
\* change is announced: a status record that shows an old value is requested.
StatusAnnounced ==
  /\ connected <=> message = "Connected"
  /\ shown.connected # connected => "connected" \in toScan
  /\ shown.message # message => "message" \in toScan

-----------------------------------------------------------------------------
(* The inductive invariant *)

\* The session is a live bufferevent, it is dropped by stop(), and only live
\* bufferevents have callbacks pending.
SessionLive ==
  /\ session # NULL => bev[session] # "free" /\ exiting = "no"
  /\ \A b \in Bevs : pend[b] # {} => bev[b] # "free"

\* The reconnect timer is not queued again while its callback is picked.
TimerOnce ==
  /\ cb.kind = "timer" => timer = "idle"
  /\ exiting = "done" => cb.kind # "timer" /\ timer = "idle"

\* No callback is run before startAll().
NothingBeforeStart ==
  ~started => /\ session = NULL /\ ~timer_active /\ ~connected
              /\ timer = "idle" /\ cb.kind = "none"
              /\ \A b \in Bevs : bev[b] = "free"

\* A "connected" callback is delivered once, before reading starts.
ConnectedOnce ==
  /\ \A b \in Bevs : "connected" \in pend[b] => bev[b] = "up"
  /\ cb.kind = "connected" /\ cb.bev = session =>
       bev[session] = "up" /\ "connected" \notin pend[session]

\* The inductive strengthening that the proofs of PscSessionProofs rest on: the
\* promises above together hold in every state and are kept by every step.
IInv ==
  /\ CountTypeOK /\ StatusTypeOK /\ BevTypeOK /\ FlagTypeOK
  /\ SessionLive
  /\ NoLeak
  /\ TimerFlagAccurate
  /\ TimerOnce
  /\ SessionXorTimer
  /\ NothingBeforeStart
  /\ ConnectedIsOpen
  /\ ConnectedOnce
  /\ CallbackNeverMisdirected

\* recvdata() only runs on a socket that is connected.
ReadWhileOpen ==
  /\ session # NULL /\ (bev[session] = "open" \/ "read" \in pend[session]) => connected
  /\ cb.kind = "read" => connected

\* The further strengthening while no record forces a reconnect, the IOC does
\* not exit and there is memory.
QuietInv == NoStaleCallback /\ exiting = "no" /\ ReadWhileOpen

-----------------------------------------------------------------------------
(* The life cycle implements ConnLifecycle *)

Phase ==
  CASE exiting # "no" \/ failed = "bad_alloc" -> "dead"
    [] exiting = "no" /\ connected            -> "connected"
    [] exiting = "no" /\ session # NULL /\ ~connected -> "connecting"
    [] exiting = "no" /\ timer_active         -> "waiting"
    [] OTHER -> IF started THEN "dead" ELSE "new"

Life == INSTANCE ConnLifecycle WITH phase <- Phase, count <- conncount

\* Seen through the flags that records read, the device behaves as
\* ConnLifecycle: no connection without an attempt, no attempt without a wait.
ImplementsLifecycle == Life!Spec

-----------------------------------------------------------------------------
(* A statement of the sources that does not hold *)

\* pscwrap.cpp:14: the handlers take the locks in an order that is free of
\* deadlock; the exit handler is not to wait for a callback that waits for it.
NoLockCycle == ~(exiting = "blocked" /\ cb.kind = "timer")
=============================================================================
