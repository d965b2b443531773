----------------------------- MODULE PscSession -----------------------------
(***************************************************************************)
(* The life cycle of the TCP session of one PSC device instance: class PSC *)
(* (coreApp/src/psc.cpp) with its libevent callbacks (pscwrap.cpp).        *)
(*                                                                         *)
(* Every handler runs with PSC::lock held, so a critical section is one    *)
(* action.  What is not atomic is the way to the lock.  The single event   *)
(* loop thread first picks a callback (libevent drops its own lock,        *)
(* BEV_OPT_UNLOCK_CALLBACKS) and only then waits for PSC::lock: a record   *)
(* or the exit handler may take the lock in between and free the session   *)
(* the callback is about.  That thread is the variable cb.                 *)
(*                                                                         *)
(* A bufferevent is an object of the pool Bevs.  An object may be used     *)
(* again once it is freed and no callback holds a reference to it.         *)
(***************************************************************************)
EXTENDS Integers

CONSTANTS
  Bevs,         \* the bufferevent objects of the allocator
  NULL,         \* the null pointer
  CountMod,     \* conncount is an epicsUInt32: it counts modulo CountMod
  Forced,        \* the database has a record that forces a reconnect
  Exit,         \* the IOC may exit while the event loop still runs
  AllocMayFail  \* bufferevent_socket_new() may return NULL

ASSUME NullAssumption == NULL \notin Bevs
ASSUME CountAssumption == CountMod \in Nat \ {0}
ASSUME FlagAssumption == {Forced, Exit, AllocMayFail} \subseteq BOOLEAN

VARIABLES
  session,       \* PSC::session
  connected,     \* PSC::connected
  timer_active,  \* PSC::timer_active
  conncount,     \* PSC::conncount
  message,       \* PSC::message
  toScan,        \* status records requested by scanIoRequest() and not yet processed
  shown,         \* the value each status record last read
  bev,           \* libevent: state of every bufferevent
  pend,          \* libevent: deferred callbacks pending on every bufferevent
  timer,         \* libevent: state of reconnect_timer
  cb,            \* event loop thread: the callback it runs or has picked
  started,       \* startAll() has run
  exiting,       \* the exit handler: not called, blocked in stop(), returned
  failed         \* the assertion or the null pointer that ended the process

session_vars == <<session, connected, timer_active>>
status_vars  == <<message, toScan, shown>>
bev_vars     == <<bev, pend>>
proc_vars    == <<started, exiting, failed>>
vars == <<session_vars, conncount, status_vars, bev_vars, timer, cb, proc_vars>>

Messages == {"Initialize", "Connecting...", "Failed to initiate connection.",
             "Connected", "Framing error!", "Connection lost"}
BevKinds == {"connected", "read", "down"}
StatusRecords == {"connected", "message"}
NoCb == [kind |-> "none", bev |-> NULL]

CountTypeOK == conncount \in 0 .. CountMod - 1

StatusTypeOK ==
  /\ message \in Messages
  /\ toScan \subseteq StatusRecords
  /\ shown \in [connected : BOOLEAN, message : Messages]

BevTypeOK ==
  /\ session \in Bevs \cup {NULL}
  /\ bev \in [Bevs -> {"free", "connecting", "up", "open", "down"}]
  /\ pend \in [Bevs -> SUBSET BevKinds]
  /\ cb \in [kind : BevKinds \cup {"none", "timer"}, bev : Bevs \cup {NULL}]
  /\ cb.kind \in BevKinds <=> cb.bev # NULL

FlagTypeOK ==
  /\ connected \in BOOLEAN
  /\ timer_active \in BOOLEAN
  /\ timer \in {"idle", "armed", "expired"}
  /\ started \in BOOLEAN
  /\ exiting \in {"no", "blocked", "done"}
  /\ failed \in {"no", "eventcb", "recvdata", "start_reconnect", "reconnect",
                 "bad_alloc"}

TypeOK ==
  /\ CountTypeOK
  /\ StatusTypeOK
  /\ BevTypeOK
  /\ FlagTypeOK

Init ==
  /\ session = NULL
  /\ connected = FALSE
  /\ timer_active = FALSE
  /\ conncount = 0
  /\ message = "Initialize"
  /\ toScan = {}
  /\ shown = [connected |-> FALSE, message |-> "Initialize"]
  /\ bev = [b \in Bevs |-> "free"]
  /\ pend = [b \in Bevs |-> {}]
  /\ timer = "idle"
  /\ cb = NoCb
  /\ started = FALSE
  /\ exiting = "no"
  /\ failed = "no"

-----------------------------------------------------------------------------
(* Helpers *)

Alive == failed = "no"

\* PSC::lock can be taken; stop() is the only section that waits inside it
LockFree == exiting # "blocked"

\* an assertion fails, or a null pointer is used: the process ends here
Fail(where) ==
  /\ failed' = where
  /\ UNCHANGED <<session_vars, conncount, status_vars, bev_vars, timer,
                 started, exiting>>

\* scanIoRequest(scan): every status record is to be processed
ScanIoRequest == toScan' = StatusRecords

\* bufferevent_free(): no callback of this object is run any more, except
\* the one that the event loop has already picked
Freed(b) ==
  /\ bev' = [bev EXCEPT ![b] = "free"]
  /\ pend' = [pend EXCEPT ![b] = {}]

\* objects that bufferevent_socket_new() can return while c is the callback
Allocatable(c) == {b \in Bevs : bev[b] = "free" /\ b # c.bev}

\* mutants of StartReconnect: the timer is forgotten; its flag is; the
\* bufferevent is not freed; there is no wait
StartReconnectNoTimer ==
  /\ Freed(session) /\ session' = NULL /\ timer' = timer
  /\ connected' = FALSE /\ timer_active' = FALSE

StartReconnectNoFlag ==
  /\ Freed(session) /\ session' = NULL /\ timer' = "armed"
  /\ connected' = FALSE /\ timer_active' = FALSE

StartReconnectLeaks ==
  /\ UNCHANGED bev_vars /\ session' = NULL /\ timer' = "armed"
  /\ connected' = FALSE /\ timer_active' = TRUE

StartReconnectAtOnce ==
  \E b \in Allocatable(cb) :
    /\ bev' = [bev EXCEPT ![session] = "free", ![b] = "connecting"]
    /\ pend' = [pend EXCEPT ![session] = {}]
    /\ session' = b /\ timer' = timer /\ connected' = FALSE /\ timer_active' = FALSE

\* PSC::start_reconnect(), after its assertion
StartReconnect ==
  /\ Freed(session)
  /\ session' = NULL
  /\ timer' = "armed"
  /\ connected' = FALSE
  /\ timer_active' = TRUE

\* mutant: a failed attempt is not announced
ConnectSilent(c) ==
  /\ Allocatable(c) # {}
  /\ \/ \E b \in Allocatable(c) :
          /\ bev' = [bev EXCEPT ![b] = "connecting"]
          /\ session' = b /\ timer_active' = FALSE
          /\ UNCHANGED <<pend, timer>>
     \/ /\ timer' = "armed" /\ timer_active' = TRUE
        /\ UNCHANGED <<session, bev_vars>>
  /\ message' = "Connecting..."
  /\ UNCHANGED <<toScan, failed>>

\* PSC::connect(), after its assertions; c is the callback that remains
Connect(c) ==
  \/ \E b \in Allocatable(c) :              \* "Connecting..."
       /\ bev' = [bev EXCEPT ![b] = "connecting"]
       /\ session' = b
       /\ message' = "Connecting..."
       /\ ScanIoRequest
       /\ timer_active' = FALSE
       /\ UNCHANGED <<pend, timer, failed>>
  \/ /\ Allocatable(c) # {}                 \* bufferevent_socket_connect_hostname() fails
     /\ timer' = "armed"
     /\ timer_active' = TRUE
     /\ message' = "Failed to initiate connection."
     /\ ScanIoRequest
     /\ UNCHANGED <<session, bev_vars, failed>>
  \/ /\ AllocMayFail                        \* throw std::bad_alloc()
     /\ timer_active' = FALSE
     /\ failed' = IF started THEN "no" ELSE "bad_alloc"  \* caught by bev_reconnect only
     /\ UNCHANGED <<session, bev_vars, timer, message, toScan>>

-----------------------------------------------------------------------------
(* libevent and the network *)

\* a connection attempt succeeds; reading starts only after bufferevent_enable()
SocketConnects(b) ==
  /\ Alive
  /\ bev[b] = "connecting"
  /\ bev' = [bev EXCEPT ![b] = "up"]
  /\ pend' = [pend EXCEPT ![b] = @ \cup {"connected"}]
  /\ UNCHANGED <<session_vars, conncount, status_vars, timer, cb, proc_vars>>

\* as many bytes as the read watermark asks for are in the input buffer
SocketReads(b) ==
  /\ Alive
  /\ bev[b] = "open"
  /\ "read" \notin pend[b]
  /\ pend' = [pend EXCEPT ![b] = @ \cup {"read"}]
  /\ UNCHANGED <<session_vars, conncount, status_vars, bev, timer, cb, proc_vars>>

\* the attempt fails, or the connection ends: error, end of file or timeout
SocketDown(b) ==
  /\ Alive
  /\ bev[b] \in {"connecting", "open"}
  /\ bev' = [bev EXCEPT ![b] = "down"]
  /\ pend' = [pend EXCEPT ![b] = @ \cup {"down"}]
  /\ UNCHANGED <<session_vars, conncount, status_vars, timer, cb, proc_vars>>

TimerExpires ==
  /\ Alive
  /\ timer = "armed"
  /\ timer' = "expired"
  /\ UNCHANGED <<session_vars, conncount, status_vars, bev_vars, cb, proc_vars>>

\* the event loop picks a pending callback: first "connected", then "read",
\* then the other events
PickCallback(b, k) ==
  /\ Alive
  /\ cb = NoCb
  /\ k \in pend[b]
  /\ k # "connected" => "connected" \notin pend[b]
  /\ k = "down" => "read" \notin pend[b]
  /\ cb' = [kind |-> k, bev |-> b]
  /\ pend' = [pend EXCEPT ![b] = @ \ {k}]
  /\ UNCHANGED <<session_vars, conncount, status_vars, bev, timer, proc_vars>>

PickTimer ==
  /\ Alive
  /\ cb = NoCb
  /\ timer = "expired"
  /\ timer' = "idle"
  /\ cb' = [kind |-> "timer", bev |-> NULL]
  /\ UNCHANGED <<session_vars, conncount, status_vars, bev_vars, proc_vars>>

-----------------------------------------------------------------------------
(* Callbacks of the event loop thread, from Guard g(psc->lock) to the return *)

CallbackRuns(k) == Alive /\ cb.kind = k /\ LockFree /\ cb' = NoCb

\* bev_eventcb() for BEV_EVENT_CONNECTED
OnConnected ==
  /\ CallbackRuns("connected")
  /\ \/ /\ session = NULL                   \* BEVGuard h(NULL)
        /\ Fail("eventcb")
     \/ /\ session # NULL
        /\ bev' = [bev EXCEPT ![session] = "open"]
        /\ connected' = TRUE
        /\ message' = "Connected"
        /\ conncount' = (conncount + 1) % CountMod
        /\ ScanIoRequest
        /\ UNCHANGED <<session, timer_active, shown, pend, timer, proc_vars>>

\* mutant: an attempt that fails is ignored
OnDownConnectedOnly ==
  /\ CallbackRuns("down")
  /\ IF connected /\ session # NULL
       THEN /\ StartReconnect
            /\ message' = "Connection lost"
            /\ ScanIoRequest
            /\ UNCHANGED <<conncount, shown, proc_vars>>
       ELSE UNCHANGED <<session_vars, conncount, status_vars, bev_vars, timer, proc_vars>>

\* bev_eventcb() for an error, an end of file or a timeout
OnDown ==
  /\ CallbackRuns("down")
  /\ \/ /\ session = NULL \/ timer_active
        /\ Fail(IF session = NULL THEN "eventcb" ELSE "start_reconnect")
     \/ /\ session # NULL /\ ~timer_active
        /\ StartReconnect
        /\ message' = "Connection lost"
        /\ ScanIoRequest
        /\ UNCHANGED <<conncount, shown, proc_vars>>

\* bev_datacb(): whole messages are decoded (PscRecv), or a bad header is found
OnRead ==
  /\ CallbackRuns("read")
  /\ \/ /\ ~(connected /\ session # NULL)     \* BEVGuard h(NULL), then the assertion
        /\ Fail("recvdata")
     \/ /\ connected /\ session # NULL
        /\ UNCHANGED <<session_vars, conncount, status_vars, bev_vars, timer, proc_vars>>
     \/ /\ connected /\ session # NULL /\ ~timer_active
        /\ StartReconnect
        /\ message' = "Framing error!"
        /\ ScanIoRequest
        /\ UNCHANGED <<conncount, shown, proc_vars>>

\* bev_reconnect(), PSC::reconnect()
OnTimer ==
  /\ CallbackRuns("timer")
  /\ IF connected \/ session # NULL
       THEN Fail("reconnect")
       ELSE /\ Connect(NoCb)
            /\ UNCHANGED <<connected, conncount, shown, started, exiting>>

-----------------------------------------------------------------------------
(* Other threads *)

\* startAll() from the initHookAfterIocRunning hook
Start ==
  /\ Alive
  /\ ~started
  /\ exiting = "no"
  /\ started' = TRUE
  /\ Connect(cb)
  /\ UNCHANGED <<connected, conncount, shown, cb, exiting>>

\* a record with DTYP "PSC Ctrl Reconnect" (write_force_reconnect) is processed
ForceReConnect ==
  /\ Alive /\ Forced
  /\ LockFree
  /\ connected
  /\ \/ /\ session = NULL \/ timer_active
        /\ Fail("start_reconnect")
     \/ /\ session # NULL /\ ~timer_active
        /\ StartReconnect
        /\ UNCHANGED <<conncount, status_vars, proc_vars>>
  /\ UNCHANGED cb

\* ioc_atexit(), PSC::stop(): evtimer_del() waits for a callback of this timer
\* that the event loop has picked; that callback waits for the lock held here
Stop ==
  /\ Alive /\ Exit
  /\ exiting = "no"
  /\ IF connected THEN Freed(session) ELSE UNCHANGED bev_vars
  /\ session' = NULL
  /\ \/ /\ timer_active /\ cb.kind = "timer"
        /\ exiting' = "blocked"
        /\ UNCHANGED <<timer_active, timer>>
     \/ /\ ~(timer_active /\ cb.kind = "timer")
        /\ exiting' = "done"
        /\ timer_active' = FALSE
        /\ timer' = IF timer_active THEN "idle" ELSE timer
  /\ UNCHANGED <<connected, conncount, status_vars, cb, started, failed>>

\* a status record with SCAN "I/O Intr" is processed
ScanRecord(r) ==
  /\ Alive
  /\ LockFree
  /\ r \in toScan
  /\ toScan' = toScan \ {r}
  /\ shown' = IF r = "connected" THEN [shown EXCEPT !.connected = connected]
                                 ELSE [shown EXCEPT !.message = message]
  /\ UNCHANGED <<session_vars, conncount, message, bev_vars, timer, cb, proc_vars>>

-----------------------------------------------------------------------------
Network ==
  \E b \in Bevs : SocketConnects(b) \/ SocketReads(b) \/ SocketDown(b)

Pick == PickTimer \/ \E b \in Bevs, k \in BevKinds : PickCallback(b, k)

Handle == OnConnected \/ OnDown \/ OnRead \/ OnTimer

Scan == \E r \in StatusRecords : ScanRecord(r)

Next ==
  \/ Start
  \/ Network
  \/ TimerExpires
  \/ Pick
  \/ Handle
  \/ ForceReConnect
  \/ Stop
  \/ Scan

Spec == Init /\ [][Next]_vars

\* The event loop and the scan threads keep running, an armed timer expires,
\* and PSCInactivityTime > 0 bounds a connection attempt.  The peer is not
\* obliged to accept, to send or to keep a connection.
Fairness ==
  /\ WF_vars(Start)
  /\ WF_vars(TimerExpires)
  /\ WF_vars(Pick)
  /\ WF_vars(Handle)
  /\ \A r \in StatusRecords : WF_vars(ScanRecord(r))
  /\ \A b \in Bevs : WF_vars(SocketConnects(b) \/ (bev[b] = "connecting" /\ SocketDown(b)))

FairSpec == Spec /\ Fairness
=============================================================================
