-------------------------- MODULE PscSessionProofs --------------------------
(***************************************************************************)
(* Proofs about PscSession for every pool of bufferevents, every counter   *)
(* width and every setting of Forced, Exit and AllocMayFail: the inductive *)
(* invariant IInv of PscSessionProps, one lemma per action.                *)
(***************************************************************************)
EXTENDS MCPscSession, TLAPS

\* The inductive invariant holds at the start.
LEMMA InitIInv == Init => IInv
<1> SUFFICES ASSUME Init PROVE IInv
  OBVIOUS
<1> USE DEF Init
<1>1. CountTypeOK
  BY CountAssumption DEF CountTypeOK
<1>2. StatusTypeOK
  BY DEF StatusTypeOK, Messages
<1>3. BevTypeOK
  BY DEF BevTypeOK, NoCb, BevKinds
<1>4. FlagTypeOK
  BY DEF FlagTypeOK
<1>5. SessionLive /\ NoLeak
  BY DEF SessionLive, NoLeak
<1>6. TimerFlagAccurate /\ TimerOnce /\ SessionXorTimer /\ NothingBeforeStart
  BY DEF TimerFlagAccurate, TimerOnce, SessionXorTimer, Running,
         NothingBeforeStart, NoCb
<1>7. ConnectedIsOpen /\ ConnectedOnce /\ CallbackNeverMisdirected
  BY DEF ConnectedIsOpen, ConnectedOnce, CallbackNeverMisdirected, NoCb
<1> QED
  BY <1>1, <1>2, <1>3, <1>4, <1>5, <1>6, <1>7 DEF IInv

\* startAll() opens the first session or arms the timer.
LEMMA StartStep ==
  ASSUME IInv, Start
  PROVE  IInv'
<1> USE DEF IInv, Start, Connect, Allocatable, ScanIoRequest, Alive,
    session_vars, status_vars, bev_vars, proc_vars
<1>1. CountTypeOK'
  BY DEF CountTypeOK
<1>2. StatusTypeOK'
  BY DEF StatusTypeOK, Messages
<1>3. BevTypeOK'
  BY NullAssumption DEF BevTypeOK
<1>4. FlagTypeOK'
  BY DEF FlagTypeOK
<1>5. SessionLive'
  BY NullAssumption DEF SessionLive, BevTypeOK
<1>6. NoLeak'
  BY NullAssumption DEF NoLeak, BevTypeOK, NothingBeforeStart
<1>7. TimerFlagAccurate'
  BY DEF TimerFlagAccurate, NothingBeforeStart
<1>8. TimerOnce'
  BY DEF TimerOnce, NothingBeforeStart
<1>9. SessionXorTimer'
  BY DEF SessionXorTimer, BevTypeOK, BevKinds, Running, NothingBeforeStart
<1>10. NothingBeforeStart'
  BY DEF NothingBeforeStart
<1>11. ConnectedIsOpen'
  BY DEF ConnectedIsOpen, NothingBeforeStart
<1>12. ConnectedOnce'
  BY DEF ConnectedOnce, BevTypeOK
<1>13. CallbackNeverMisdirected'
  BY NullAssumption DEF CallbackNeverMisdirected, BevTypeOK, BevKinds,
         NothingBeforeStart
<1> QED
  BY <1>1, <1>2, <1>3, <1>4, <1>5, <1>6, <1>7, <1>8, <1>9, <1>10, <1>11, <1>12,
     <1>13

\* A connection attempt succeeds.
LEMMA SocketConnectsStep ==
  ASSUME NEW b \in Bevs, IInv, SocketConnects(b)
  PROVE  IInv'
<1> USE DEF IInv, SocketConnects, Alive, session_vars, status_vars, bev_vars,
    proc_vars
<1>1. (CountTypeOK /\ StatusTypeOK /\ FlagTypeOK /\ TimerFlagAccurate /\
      TimerOnce /\ SessionXorTimer /\ CallbackNeverMisdirected)'
  BY DEF CountTypeOK, StatusTypeOK, FlagTypeOK, TimerFlagAccurate, TimerOnce,
         SessionXorTimer, Running, CallbackNeverMisdirected
<1>2. BevTypeOK'
  BY NullAssumption DEF BevTypeOK, BevKinds
<1>3. SessionLive'
  BY NullAssumption DEF SessionLive
<1>4. NoLeak'
  BY NullAssumption DEF NoLeak
<1>5. NothingBeforeStart'
  BY DEF NothingBeforeStart
<1>6. ConnectedIsOpen'
  BY DEF ConnectedIsOpen
<1>7. ConnectedOnce'
  BY DEF ConnectedOnce, BevTypeOK
<1> QED
  BY <1>1, <1>2, <1>3, <1>4, <1>5, <1>6, <1>7

\* Bytes arrive.
LEMMA SocketReadsStep ==
  ASSUME NEW b \in Bevs, IInv, SocketReads(b)
  PROVE  IInv'
<1> USE DEF IInv, SocketReads, Alive, session_vars, status_vars, bev_vars,
    proc_vars
<1>1. (CountTypeOK /\ StatusTypeOK /\ FlagTypeOK /\ NoLeak /\
      TimerFlagAccurate /\ TimerOnce /\ SessionXorTimer /\ NothingBeforeStart
      /\ ConnectedIsOpen /\ CallbackNeverMisdirected)'
  BY DEF CountTypeOK, StatusTypeOK, FlagTypeOK, NoLeak, TimerFlagAccurate,
         TimerOnce, SessionXorTimer, Running, NothingBeforeStart,
         ConnectedIsOpen, CallbackNeverMisdirected
<1>2. BevTypeOK'
  BY NullAssumption DEF BevTypeOK, BevKinds
<1>3. SessionLive'
  BY NullAssumption DEF SessionLive
<1>4. ConnectedOnce'
  BY DEF ConnectedOnce
<1> QED
  BY <1>1, <1>2, <1>3, <1>4

\* A connection or an attempt ends.
LEMMA SocketDownStep ==
  ASSUME NEW b \in Bevs, IInv, SocketDown(b)
  PROVE  IInv'
<1> USE DEF IInv, SocketDown, Alive, session_vars, status_vars, bev_vars,
    proc_vars
<1>1. (CountTypeOK /\ StatusTypeOK /\ FlagTypeOK /\ TimerFlagAccurate /\
      TimerOnce /\ SessionXorTimer /\ CallbackNeverMisdirected)'
  BY DEF CountTypeOK, StatusTypeOK, FlagTypeOK, TimerFlagAccurate, TimerOnce,
         SessionXorTimer, Running, CallbackNeverMisdirected
<1>2. BevTypeOK'
  BY NullAssumption DEF BevTypeOK, BevKinds
<1>3. SessionLive'
  BY NullAssumption DEF SessionLive
<1>4. NoLeak'
  BY NullAssumption DEF NoLeak
<1>5. NothingBeforeStart'
  BY DEF NothingBeforeStart
<1>6. ConnectedIsOpen'
  BY DEF ConnectedIsOpen
<1>7. ConnectedOnce'
  BY DEF ConnectedOnce
<1> QED
  BY <1>1, <1>2, <1>3, <1>4, <1>5, <1>6, <1>7

\* The reconnect timer runs out.
LEMMA TimerExpiresStep ==
  ASSUME IInv, TimerExpires
  PROVE  IInv'
<1> USE DEF IInv, TimerExpires, Alive, session_vars, status_vars, bev_vars,
    proc_vars
<1>1. (CountTypeOK /\ StatusTypeOK /\ BevTypeOK /\ SessionLive /\ NoLeak /\
      SessionXorTimer /\ ConnectedIsOpen /\ ConnectedOnce /\
      CallbackNeverMisdirected)'
  BY DEF CountTypeOK, StatusTypeOK, BevTypeOK, SessionLive, NoLeak,
         SessionXorTimer, Running, ConnectedIsOpen, ConnectedOnce,
         CallbackNeverMisdirected
<1>2. FlagTypeOK'
  BY DEF FlagTypeOK
<1>3. TimerFlagAccurate'
  BY DEF TimerFlagAccurate
<1>4. TimerOnce'
  BY DEF TimerOnce
<1>5. NothingBeforeStart'
  BY DEF NothingBeforeStart
<1> QED
  BY <1>1, <1>2, <1>3, <1>4, <1>5

\* The event loop picks a callback of the live session.
LEMMA PickCallbackStep ==
  ASSUME NEW b \in Bevs, NEW k \in BevKinds, IInv, PickCallback(b, k)
  PROVE  IInv'
<1> USE DEF IInv, PickCallback, Alive, session_vars, status_vars, bev_vars,
    proc_vars
<1>1. (CountTypeOK /\ StatusTypeOK /\ FlagTypeOK /\ NoLeak /\ SessionXorTimer
      /\ ConnectedIsOpen)'
  BY DEF CountTypeOK, StatusTypeOK, FlagTypeOK, NoLeak, SessionXorTimer,
         Running, ConnectedIsOpen
<1>2. BevTypeOK'
  BY NullAssumption DEF BevTypeOK
<1>3. SessionLive'
  BY NullAssumption DEF SessionLive
<1>4. TimerFlagAccurate'
  <2>1. cb.kind # "timer" /\ cb'.kind # "timer"
    BY DEF NoCb, BevKinds
  <2> QED
    BY <2>1 DEF TimerFlagAccurate
<1>5. TimerOnce'
  BY DEF TimerOnce, BevKinds
<1>6. NothingBeforeStart'
  BY DEF NothingBeforeStart, SessionLive
<1>7. ConnectedOnce'
  BY DEF ConnectedOnce, BevTypeOK
<1>8. CallbackNeverMisdirected'
  BY NullAssumption DEF CallbackNeverMisdirected, SessionLive, NoLeak
<1> QED
  BY <1>1, <1>2, <1>3, <1>4, <1>5, <1>6, <1>7, <1>8

\* The event loop picks the reconnect timer.
LEMMA PickTimerStep ==
  ASSUME IInv, PickTimer
  PROVE  IInv'
<1> USE DEF IInv, PickTimer, Alive, session_vars, status_vars, bev_vars,
    proc_vars
<1>1. (CountTypeOK /\ StatusTypeOK /\ SessionLive /\ NoLeak /\ SessionXorTimer
      /\ ConnectedIsOpen)'
  BY DEF CountTypeOK, StatusTypeOK, SessionLive, NoLeak, SessionXorTimer,
         Running, ConnectedIsOpen
<1>2. BevTypeOK'
  BY NullAssumption DEF BevTypeOK, BevKinds
<1>3. FlagTypeOK'
  BY DEF FlagTypeOK
<1>4. TimerFlagAccurate'
  BY DEF TimerFlagAccurate
<1>5. TimerOnce'
  BY DEF TimerOnce
<1>6. NothingBeforeStart'
  BY DEF NothingBeforeStart
<1>7. ConnectedOnce'
  BY DEF ConnectedOnce
<1>8. CallbackNeverMisdirected'
  BY NullAssumption DEF CallbackNeverMisdirected
<1> QED
  BY <1>1, <1>2, <1>3, <1>4, <1>5, <1>6, <1>7, <1>8

\* The CONNECTED event is handled.
LEMMA OnConnectedStep ==
  ASSUME IInv, OnConnected
  PROVE  IInv'
<1> USE DEF IInv, OnConnected, CallbackRuns, Alive, LockFree, Fail,
    ScanIoRequest, session_vars, status_vars, bev_vars, proc_vars
<1>1. CountTypeOK'
  BY CountAssumption DEF CountTypeOK
<1>2. StatusTypeOK'
  BY DEF StatusTypeOK, Messages
<1>3. BevTypeOK'
  BY NullAssumption DEF BevTypeOK, BevKinds, NoCb
<1>4. FlagTypeOK'
  BY DEF FlagTypeOK
<1>5. SessionLive'
  BY NullAssumption DEF SessionLive, BevTypeOK
<1>6. NoLeak'
  BY NullAssumption DEF NoLeak, BevTypeOK
<1>7. TimerFlagAccurate'
  BY DEF TimerFlagAccurate, NoCb
<1>8. TimerOnce'
  BY DEF TimerOnce, NoCb
<1>9. SessionXorTimer'
  BY DEF SessionXorTimer, Running
<1>10. NothingBeforeStart'
  BY DEF NothingBeforeStart
<1>11. ConnectedIsOpen'
  BY DEF ConnectedIsOpen, BevTypeOK
<1>12. ConnectedOnce'
  BY DEF ConnectedOnce, BevTypeOK, CallbackNeverMisdirected, NoCb
<1>13. CallbackNeverMisdirected'
  BY NullAssumption DEF CallbackNeverMisdirected, NoCb
<1> QED
  BY <1>1, <1>2, <1>3, <1>4, <1>5, <1>6, <1>7, <1>8, <1>9, <1>10, <1>11, <1>12,
     <1>13

\* An error, end of file or timeout is handled.
LEMMA OnDownStep ==
  ASSUME IInv, OnDown
  PROVE  IInv'
<1> USE DEF IInv, OnDown, CallbackRuns, Alive, LockFree, Fail, StartReconnect,
    Freed, ScanIoRequest, session_vars, status_vars, bev_vars, proc_vars
<1>1. CountTypeOK'
  BY DEF CountTypeOK
<1>2. StatusTypeOK'
  BY DEF StatusTypeOK, Messages
<1>3. BevTypeOK'
  BY NullAssumption DEF BevTypeOK, BevKinds, NoCb
<1>4. FlagTypeOK'
  BY DEF FlagTypeOK
<1>5. SessionLive'
  BY NullAssumption DEF SessionLive, BevTypeOK
<1>6. NoLeak'
  BY NullAssumption DEF NoLeak, BevTypeOK
<1>7. TimerFlagAccurate'
  <2>1. CASE timer' = "armed" /\ timer_active'
    BY <2>1 DEF TimerFlagAccurate
  <2>2. CASE UNCHANGED <<timer, timer_active, exiting>>
    BY <2>2 DEF TimerFlagAccurate, NoCb
  <2> QED
    BY <2>1, <2>2
<1>8. TimerOnce'
  BY DEF TimerOnce, SessionLive, NoCb
<1>9. SessionXorTimer'
  BY DEF SessionXorTimer, Running
<1>10. NothingBeforeStart'
  <2>1. started
    BY DEF NothingBeforeStart
  <2> QED
    BY <2>1 DEF NothingBeforeStart
<1>11. ConnectedIsOpen'
  BY DEF ConnectedIsOpen
<1>12. ConnectedOnce'
  BY DEF ConnectedOnce, BevTypeOK, NoCb
<1>13. CallbackNeverMisdirected'
  BY NullAssumption DEF CallbackNeverMisdirected, NoCb
<1> QED
  BY <1>1, <1>2, <1>3, <1>4, <1>5, <1>6, <1>7, <1>8, <1>9, <1>10, <1>11, <1>12,
     <1>13

\* recvdata() runs.
LEMMA OnReadStep ==
  ASSUME IInv, OnRead
  PROVE  IInv'
<1> USE DEF IInv, OnRead, CallbackRuns, Alive, LockFree, Fail, StartReconnect,
    Freed, ScanIoRequest, session_vars, status_vars, bev_vars, proc_vars
<1>1. CountTypeOK'
  BY DEF CountTypeOK
<1>2. StatusTypeOK'
  BY DEF StatusTypeOK, Messages
<1>3. BevTypeOK'
  BY NullAssumption DEF BevTypeOK, BevKinds, NoCb
<1>4. FlagTypeOK'
  BY DEF FlagTypeOK
<1>5. SessionLive'
  BY NullAssumption DEF SessionLive, BevTypeOK
<1>6. NoLeak'
  BY NullAssumption DEF NoLeak, BevTypeOK
<1>7. TimerFlagAccurate'
  <2>1. CASE timer' = "armed" /\ timer_active'
    BY <2>1 DEF TimerFlagAccurate
  <2>2. CASE UNCHANGED <<timer, timer_active, exiting>>
    BY <2>2 DEF TimerFlagAccurate, NoCb
  <2> QED
    BY <2>1, <2>2
<1>8. TimerOnce'
  BY DEF TimerOnce, SessionLive, NoCb
<1>9. SessionXorTimer'
  BY DEF SessionXorTimer, Running
<1>10. NothingBeforeStart'
  <2>1. started
    BY DEF NothingBeforeStart
  <2> QED
    BY <2>1 DEF NothingBeforeStart
<1>11. ConnectedIsOpen'
  BY DEF ConnectedIsOpen
<1>12. ConnectedOnce'
  BY DEF ConnectedOnce, BevTypeOK, NoCb
<1>13. CallbackNeverMisdirected'
  BY NullAssumption DEF CallbackNeverMisdirected, NoCb
<1> QED
  BY <1>1, <1>2, <1>3, <1>4, <1>5, <1>6, <1>7, <1>8, <1>9, <1>10, <1>11, <1>12,
     <1>13

\* reconnect() runs.
LEMMA OnTimerStep ==
  ASSUME IInv, OnTimer
  PROVE  IInv'
<1> USE DEF IInv, OnTimer, CallbackRuns, Alive, LockFree, Fail, Connect,
    Allocatable, ScanIoRequest, session_vars, status_vars, bev_vars, proc_vars
<1>1. CountTypeOK'
  BY DEF CountTypeOK
<1>2. StatusTypeOK'
  BY DEF StatusTypeOK, Messages
<1>3. BevTypeOK'
  BY NullAssumption DEF BevTypeOK, BevKinds, NoCb
<1>4. FlagTypeOK'
  BY DEF FlagTypeOK
<1>5. SessionLive'
  BY NullAssumption DEF SessionLive, BevTypeOK, FlagTypeOK, TimerOnce
<1>6. NoLeak'
  BY NullAssumption DEF NoLeak, BevTypeOK
<1>7. TimerFlagAccurate'
  BY DEF TimerFlagAccurate, TimerOnce, SessionXorTimer, Running,
         ConnectedIsOpen, NothingBeforeStart, NoCb
<1>8. TimerOnce'
  BY DEF TimerOnce, NoCb
<1>9. SessionXorTimer'
  BY DEF SessionXorTimer, Running, NoCb
<1>10. NothingBeforeStart'
  BY DEF NothingBeforeStart
<1>11. ConnectedIsOpen'
  BY DEF ConnectedIsOpen
<1>12. ConnectedOnce'
  BY DEF ConnectedOnce, BevTypeOK, NoCb
<1>13. CallbackNeverMisdirected'
  BY NullAssumption DEF CallbackNeverMisdirected, NoCb
<1> QED
  BY <1>1, <1>2, <1>3, <1>4, <1>5, <1>6, <1>7, <1>8, <1>9, <1>10, <1>11, <1>12,
     <1>13

\* A record forces a reconnect.
LEMMA ForceReConnectStep ==
  ASSUME IInv, ForceReConnect
  PROVE  IInv'
<1> USE DEF IInv, ForceReConnect, Alive, LockFree, Fail, StartReconnect,
    Freed, session_vars, status_vars, bev_vars, proc_vars
<1>1. (CountTypeOK /\ StatusTypeOK)'
  BY DEF CountTypeOK, StatusTypeOK
<1>2. BevTypeOK'
  BY NullAssumption DEF BevTypeOK
<1>3. FlagTypeOK'
  BY DEF FlagTypeOK
<1>4. SessionLive'
  BY NullAssumption DEF SessionLive, BevTypeOK
<1>5. NoLeak'
  BY NullAssumption DEF NoLeak, BevTypeOK
<1>6. TimerFlagAccurate'
  BY DEF TimerFlagAccurate, SessionXorTimer, Running, ConnectedIsOpen,
         NothingBeforeStart
<1>7. TimerOnce'
  BY DEF TimerOnce, TimerFlagAccurate, SessionLive
<1>8. SessionXorTimer'
  BY DEF SessionXorTimer, Running
<1>9. NothingBeforeStart'
  <2>1. started
    BY DEF NothingBeforeStart
  <2> QED
    BY <2>1 DEF NothingBeforeStart
<1>10. ConnectedIsOpen'
  BY DEF ConnectedIsOpen
<1>11. ConnectedOnce'
  BY DEF ConnectedOnce, BevTypeOK
<1>12. CallbackNeverMisdirected'
  BY NullAssumption DEF CallbackNeverMisdirected
<1> QED
  BY <1>1, <1>2, <1>3, <1>4, <1>5, <1>6, <1>7, <1>8, <1>9, <1>10, <1>11, <1>12

\* The exit handler runs.
LEMMA StopStep ==
  ASSUME IInv, Stop
  PROVE  IInv'
<1> USE DEF IInv, Stop, Alive, Freed, session_vars, status_vars, bev_vars,
    proc_vars
<1>1. (CountTypeOK /\ StatusTypeOK)'
  BY DEF CountTypeOK, StatusTypeOK
<1>2. BevTypeOK'
  BY NullAssumption DEF BevTypeOK
<1>3. FlagTypeOK'
  BY DEF FlagTypeOK
<1>4. SessionLive'
  BY NullAssumption DEF SessionLive, BevTypeOK
<1>5. NoLeak'
  BY NullAssumption DEF NoLeak
<1>6. TimerFlagAccurate'
  BY DEF TimerFlagAccurate
<1>7. TimerOnce'
  BY DEF TimerOnce, TimerFlagAccurate
<1>8. SessionXorTimer'
  BY DEF SessionXorTimer, Running
<1>9. NothingBeforeStart'
  BY DEF NothingBeforeStart
<1>10. ConnectedIsOpen'
  BY DEF ConnectedIsOpen
<1>11. ConnectedOnce'
  BY DEF ConnectedOnce, BevTypeOK
<1>12. CallbackNeverMisdirected'
  BY NullAssumption DEF CallbackNeverMisdirected
<1> QED
  BY <1>1, <1>2, <1>3, <1>4, <1>5, <1>6, <1>7, <1>8, <1>9, <1>10, <1>11, <1>12

\* A status record is processed.
LEMMA ScanRecordStep ==
  ASSUME NEW r \in StatusRecords, IInv, ScanRecord(r)
  PROVE  IInv'
<1> USE DEF IInv, ScanRecord, Alive, LockFree, session_vars, status_vars,
    bev_vars, proc_vars
<1>1. (CountTypeOK /\ BevTypeOK /\ FlagTypeOK /\ SessionLive /\ NoLeak /\
      TimerFlagAccurate /\ TimerOnce /\ SessionXorTimer /\ NothingBeforeStart
      /\ ConnectedIsOpen /\ ConnectedOnce /\ CallbackNeverMisdirected)'
  BY DEF CountTypeOK, BevTypeOK, FlagTypeOK, SessionLive, NoLeak,
         TimerFlagAccurate, TimerOnce, SessionXorTimer, Running,
         NothingBeforeStart, ConnectedIsOpen, ConnectedOnce,
         CallbackNeverMisdirected
<1>2. StatusTypeOK'
  BY DEF StatusTypeOK, FlagTypeOK
<1> QED
  BY <1>1, <1>2

\* A step that changes nothing keeps the invariant.
LEMMA StutterStep ==
  ASSUME IInv, UNCHANGED vars
  PROVE  IInv'
<1> USE DEF vars, session_vars, status_vars, bev_vars, proc_vars
<1>1. (CountTypeOK /\ StatusTypeOK /\ BevTypeOK /\ FlagTypeOK)'
  BY DEF IInv, CountTypeOK, StatusTypeOK, BevTypeOK, FlagTypeOK
<1>2. (SessionLive /\ NoLeak /\ TimerFlagAccurate /\ TimerOnce)'
  BY DEF IInv, SessionLive, NoLeak, TimerFlagAccurate, TimerOnce
<1>3. (SessionXorTimer /\ NothingBeforeStart /\ ConnectedIsOpen)'
  BY DEF IInv, SessionXorTimer, Running, Alive, NothingBeforeStart,
         ConnectedIsOpen
<1>4. (ConnectedOnce /\ CallbackNeverMisdirected)'
  BY DEF IInv, ConnectedOnce, CallbackNeverMisdirected
<1> QED
  BY <1>1, <1>2, <1>3, <1>4 DEF IInv

\* Every step keeps the inductive invariant.
LEMMA NextIInv == IInv /\ [Next]_vars => IInv'
<1> SUFFICES ASSUME IInv, [Next]_vars PROVE IInv'
  OBVIOUS
<1>1. CASE Start
  BY <1>1, StartStep
<1>2. CASE Network
  BY <1>2, SocketConnectsStep, SocketReadsStep, SocketDownStep DEF Network
<1>3. CASE TimerExpires
  BY <1>3, TimerExpiresStep
<1>4. CASE Pick
  BY <1>4, PickTimerStep, PickCallbackStep DEF Pick
<1>5. CASE Handle
  BY <1>5, OnConnectedStep, OnDownStep, OnReadStep, OnTimerStep DEF Handle
<1>6. CASE ForceReConnect
  BY <1>6, ForceReConnectStep
<1>7. CASE Stop
  BY <1>7, StopStep
<1>8. CASE Scan
  BY <1>8, ScanRecordStep DEF Scan
<1>9. CASE UNCHANGED vars
  BY <1>9, StutterStep
<1> QED
  BY <1>1, <1>2, <1>3, <1>4, <1>5, <1>6, <1>7, <1>8, <1>9 DEF Next

\* The life cycle keeps its inductive invariant for ever.
THEOREM Invariance == Spec => []IInv
BY InitIInv, NextIInv, PTL DEF Spec

\* Every variable keeps its type.
THEOREM TypeCorrectness == Spec => []TypeOK
<1>1. IInv => TypeOK
  BY DEF IInv, TypeOK
<1> QED
  BY <1>1, Invariance, PTL

\* A running device has a session or a pending reconnect and never both, the
\* flag of the timer is accurate and no bufferevent leaks: whatever records,
\* network and allocator do, no assertion on session and timer_active can fail
\* before the IOC exits for any other reason than a stale callback.
THEOREM NeverStranded == Spec => [](SessionXorTimer /\ TimerFlagAccurate /\ NoLeak)
<1>1. IInv => SessionXorTimer /\ TimerFlagAccurate /\ NoLeak
  BY DEF IInv
<1> QED
  BY <1>1, Invariance, PTL

\* A callback is never run on the session that replaced its own, although it
\* ignores the bufferevent it is given and uses psc->session.
THEOREM CallbacksDirected == Spec => [](CallbackNeverMisdirected /\ ConnectedIsOpen)
<1>1. IInv => CallbackNeverMisdirected /\ ConnectedIsOpen
  BY DEF IInv
<1> QED
  BY <1>1, Invariance, PTL

-----------------------------------------------------------------------------
(* While nothing has forced a reconnect, called the exit handler or been out of *)
(* memory                                                                       *)

\* A step that is none of these
Quiet == ~ForceReConnect /\ exiting' = exiting /\ ~Starves

\* It lets no callback go stale.
LEMMA QuietStep ==
  ASSUME Quiet, IInv, QuietInv, [Next]_vars
  PROVE  QuietInv'
<1> USE NullAssumption DEF QuietInv, NoStaleCallback, ReadWhileOpen,
    session_vars, status_vars, bev_vars, proc_vars, IInv, BevTypeOK,
    FlagTypeOK, SessionLive, TimerFlagAccurate, SessionXorTimer, Running,
    ConnectedIsOpen, ConnectedOnce, NothingBeforeStart, NoLeak, NoCb, BevKinds
<1>1. CASE Start
  BY <1>1 DEF Start, Connect, Allocatable, ScanIoRequest, Alive, Quiet, Starves
<1>2. CASE \E b \in Bevs : SocketConnects(b)
  BY <1>2 DEF SocketConnects, Alive
<1>3. CASE \E b \in Bevs : SocketReads(b)
  BY <1>3 DEF SocketReads, Alive
<1>4. CASE \E b \in Bevs : SocketDown(b)
  BY <1>4 DEF SocketDown, Alive
<1>5. CASE TimerExpires
  BY <1>5 DEF TimerExpires, Alive
<1>6. CASE PickTimer
  BY <1>6 DEF PickTimer, Alive
<1>7. CASE \E b \in Bevs, k \in BevKinds : PickCallback(b, k)
  BY <1>7 DEF PickCallback, Alive
<1>8. CASE OnConnected
  BY <1>8 DEF OnConnected, CallbackRuns, Alive, LockFree, Fail, ScanIoRequest
<1>9. CASE OnDown
  BY <1>9 DEF OnDown, CallbackRuns, Alive, LockFree, Fail, StartReconnect,
      Freed, ScanIoRequest
<1>10. CASE OnRead
  <2>1. connected /\ session # NULL /\ session = cb.bev /\ Alive /\ cb' = NoCb
    BY <1>10 DEF OnRead, CallbackRuns
  <2>2. CASE StartReconnect /\ message' = "Framing error!" /\ ScanIoRequest
             /\ UNCHANGED <<conncount, shown, proc_vars>>
    BY <2>1, <2>2 DEF StartReconnect, Freed, ScanIoRequest, Alive
  <2>3. CASE UNCHANGED <<session_vars, conncount, status_vars, bev_vars, timer,
                         proc_vars>>
    BY <2>1, <2>3 DEF Alive
  <2> QED
    BY <1>10, <2>1, <2>2, <2>3 DEF OnRead
<1>11. CASE OnTimer
  BY <1>11 DEF OnTimer, CallbackRuns, Alive, LockFree, Fail, Connect,
      Allocatable, ScanIoRequest, Quiet, Starves
<1>12. CASE ForceReConnect
  BY <1>12 DEF Quiet
<1>13. CASE Stop
  BY <1>13 DEF Stop, Quiet
<1>14. CASE \E r \in StatusRecords : ScanRecord(r)
  BY <1>14 DEF ScanRecord, Alive, LockFree
<1>20. CASE UNCHANGED vars
  BY <1>20 DEF vars, Alive
<1> QED BY <1>1, <1>2, <1>3, <1>4, <1>5, <1>6, <1>7, <1>8, <1>9, <1>10, <1>11,
    <1>12, <1>13, <1>14, <1>20 DEF Next, Network, Pick, Handle, Scan

\* When it changes the status, it requests the status records.
LEMMA StatusStep ==
  ASSUME Quiet, IInv, QuietInv, StatusAnnounced, [Next]_vars
  PROVE  StatusAnnounced'
<1> USE NullAssumption DEF StatusAnnounced, QuietInv, NoStaleCallback,
    ReadWhileOpen, session_vars, status_vars, bev_vars, proc_vars, IInv,
    FlagTypeOK, StatusTypeOK, TimerFlagAccurate, SessionXorTimer, Running,
    ConnectedIsOpen, NothingBeforeStart, BevTypeOK, BevKinds, StatusRecords
<1>1. CASE Start
  BY <1>1 DEF Start, Connect, Allocatable, ScanIoRequest, Alive, Quiet, Starves
<1>2. CASE \E b \in Bevs : SocketConnects(b)
  BY <1>2 DEF SocketConnects, Alive
<1>3. CASE \E b \in Bevs : SocketReads(b)
  BY <1>3 DEF SocketReads, Alive
<1>4. CASE \E b \in Bevs : SocketDown(b)
  BY <1>4 DEF SocketDown, Alive
<1>5. CASE TimerExpires
  BY <1>5 DEF TimerExpires, Alive
<1>6. CASE PickTimer
  BY <1>6 DEF PickTimer, Alive
<1>7. CASE \E b \in Bevs, k \in BevKinds : PickCallback(b, k)
  BY <1>7 DEF PickCallback, Alive
<1>8. CASE OnConnected
  BY <1>8 DEF OnConnected, CallbackRuns, Alive, LockFree, Fail, ScanIoRequest
<1>9. CASE OnDown
  BY <1>9 DEF OnDown, CallbackRuns, Alive, LockFree, Fail, StartReconnect,
      Freed, ScanIoRequest
<1>10. CASE OnRead
  <2>1. connected /\ session # NULL /\ session = cb.bev /\ Alive /\ cb' = NoCb
    BY <1>10 DEF OnRead, CallbackRuns
  <2>2. CASE StartReconnect /\ message' = "Framing error!" /\ ScanIoRequest
             /\ UNCHANGED <<conncount, shown, proc_vars>>
    BY <2>1, <2>2 DEF StartReconnect, Freed, ScanIoRequest, Alive
  <2>3. CASE UNCHANGED <<session_vars, conncount, status_vars, bev_vars, timer,
                         proc_vars>>
    BY <2>1, <2>3 DEF Alive
  <2> QED
    BY <1>10, <2>1, <2>2, <2>3 DEF OnRead
<1>11. CASE OnTimer
  BY <1>11 DEF OnTimer, CallbackRuns, Alive, LockFree, Fail, Connect,
      Allocatable, ScanIoRequest, Quiet, Starves
<1>12. CASE ForceReConnect
  BY <1>12 DEF Quiet
<1>13. CASE Stop
  BY <1>13 DEF Stop, Quiet
<1>14. CASE \E r \in StatusRecords : ScanRecord(r)
  BY <1>14 DEF ScanRecord, Alive, LockFree
<1>20. CASE UNCHANGED vars
  BY <1>20 DEF vars, Alive
<1> QED BY <1>1, <1>2, <1>3, <1>4, <1>5, <1>6, <1>7, <1>8, <1>9, <1>10, <1>11,
    <1>12, <1>13, <1>14, <1>20 DEF Next, Network, Pick, Handle, Scan

LEMMA QuietInit == Init => QuietInv /\ StatusAnnounced
<1> SUFFICES ASSUME Init PROVE QuietInv /\ StatusAnnounced
  OBVIOUS
<1>1. QuietInv
  BY DEF Init, QuietInv, NoStaleCallback, Alive, ReadWhileOpen, NoCb
<1>2. ~(connected <=> TRUE) /\ message # "Connected"
  BY DEF Init
<1>3. StatusAnnounced
  BY <1>2 DEF Init, StatusAnnounced
<1> QED
  BY <1>1, <1>3

\* Where the database, the IOC and the memory allow none of these, every step is
\* quiet.
LEMMA AlwaysQuiet ==
  ASSUME ~Forced, ~Exit, ~AllocMayFail, IInv, QuietInv, [Next]_vars
  PROVE  Quiet
<1>1. ~ForceReConnect
  BY DEF ForceReConnect
<1>2. exiting' = exiting
  <2>1. ~Stop
    BY DEF Stop
  <2> QED
    BY <1>1, <2>1
    DEF Next, Start, Network, SocketConnects, SocketReads, SocketDown, TimerExpires, Pick,
        PickTimer, PickCallback, Handle, OnConnected, OnDown, OnRead, OnTimer, Fail, Scan,
        ScanRecord, proc_vars, vars
<1>3. ASSUME Start PROVE ~Starves
  BY <1>3, NullAssumption DEF Start, Starves, Connect, Allocatable
<1>4. ASSUME OnTimer PROVE ~Starves
  <2>1. connected => session # NULL
    BY DEF QuietInv, IInv, ConnectedIsOpen
  <2> QED
    BY <1>4, <2>1, NullAssumption
    DEF OnTimer, Starves, Connect, Allocatable, Fail, session_vars
<1> QED
  BY <1>1, <1>2, <1>3, <1>4 DEF Quiet, Starves

\* Without a forced reconnect, before exit and with enough memory no assertion
\* of the handlers fails, no callback meets a freed session, and the status
\* records are never left behind.
THEOREM QuietSafety ==
  ASSUME ~Forced, ~Exit, ~AllocMayFail
  PROVE  Spec => [](NoStaleCallback /\ StatusAnnounced)
<1>1. IInv /\ QuietInv /\ StatusAnnounced /\ [Next]_vars
        => QuietInv' /\ StatusAnnounced'
  BY AlwaysQuiet, QuietStep, StatusStep
<1>2. QuietInv => NoStaleCallback
  BY DEF QuietInv
<1> QED
  BY <1>1, <1>2, QuietInit, Invariance, PTL DEF Spec

\* Where they may happen, the same holds until the first of them has: nothing that
\* the peer, the network or the timers do makes a callback stale or leaves a status
\* record behind, in any order and however often.
THEOREM QuietUntilDisturbed == MCSpec => []QuietSafe
<1> DEFINE Sound == past = {} => QuietInv /\ StatusAnnounced
<1>1. MCInit => IInv /\ Sound
  BY InitIInv, QuietInit DEF MCInit
<1>2. [MCNext]_mc_vars => [Next]_vars
  BY DEF MCNext, mc_vars
<1>3. IInv /\ [MCNext]_mc_vars => IInv'
  BY <1>2, NextIInv
<1>4. IInv /\ Sound /\ [MCNext]_mc_vars => Sound'
  <2> SUFFICES ASSUME IInv, Sound, [MCNext]_mc_vars, past' = {}
               PROVE  QuietInv' /\ StatusAnnounced'
    OBVIOUS
  <2>1. CASE MCNext
    <3>1. past = {} /\ Quiet
      BY <2>1 DEF MCNext, Quiet
    <3> QED
      BY <1>2, <3>1, QuietStep, StatusStep
  <2>2. CASE UNCHANGED mc_vars
    <3>1. UNCHANGED vars /\ past = {}
      BY <2>2 DEF mc_vars
    <3> QED
      BY <3>1 DEF vars, session_vars, status_vars, bev_vars, proc_vars, QuietInv,
                  NoStaleCallback, Alive, ReadWhileOpen, StatusAnnounced
  <2> QED
    BY <2>1, <2>2
<1>5. Sound => QuietSafe
  BY DEF QuietInv, QuietSafe
<1> QED
  BY <1>1, <1>3, <1>4, <1>5, PTL DEF MCSpec

-----------------------------------------------------------------------------
(* Refinement *)

\* Every step of the life cycle is a step of ConnLifecycle or changes nothing
\* that ConnLifecycle sees.
LEMMA LifeStep == IInv /\ [Next]_vars => [Life!Next]_<<Phase, conncount>>
<1> SUFFICES ASSUME IInv, [Next]_vars PROVE [Life!Next]_<<Phase, conncount>>
  OBVIOUS
<1> USE NullAssumption DEF Phase, Life!Next, Life!Attempt, Life!Wait,
    Life!Established, Life!Die, session_vars, status_vars, bev_vars,
    proc_vars, IInv, BevTypeOK, FlagTypeOK, CountTypeOK, SessionLive,
    TimerFlagAccurate, SessionXorTimer, Running, ConnectedIsOpen,
    ConnectedOnce, NothingBeforeStart, CallbackNeverMisdirected
<1>1. CASE Start
  BY <1>1 DEF Start, Connect, Allocatable, ScanIoRequest, Alive
<1>2. CASE \E b \in Bevs : SocketConnects(b)
  BY <1>2 DEF SocketConnects, Alive
<1>3. CASE \E b \in Bevs : SocketReads(b)
  BY <1>3 DEF SocketReads, Alive
<1>4. CASE \E b \in Bevs : SocketDown(b)
  BY <1>4 DEF SocketDown, Alive
<1>5. CASE TimerExpires
  BY <1>5 DEF TimerExpires, Alive
<1>6. CASE PickTimer
  BY <1>6 DEF PickTimer, Alive
<1>7. CASE \E b \in Bevs, k \in BevKinds : PickCallback(b, k)
  BY <1>7 DEF PickCallback, Alive
<1>8. CASE OnConnected
  BY <1>8 DEF OnConnected, CallbackRuns, Alive, LockFree, Fail, ScanIoRequest
<1>9. CASE OnDown
  <2>1. CASE session # NULL /\ StartReconnect
    <3>1. exiting = "no" /\ exiting' = "no" /\ failed' # "bad_alloc" /\ Phase'
        = "waiting"
      BY <1>9, <2>1 DEF OnDown, CallbackRuns, Alive, Fail, StartReconnect
    <3>2. UNCHANGED conncount /\ Phase \in {"connecting", "connected"}
      BY <1>9, <2>1, <3>1 DEF OnDown, CallbackRuns, Alive, Fail
    <3> QED BY <3>1, <3>2 DEF Life!Next, Life!Wait
  <2>2. CASE UNCHANGED <<session, connected, timer_active, exiting, started,
      conncount>> /\ failed' # "bad_alloc"
    BY <1>9, <2>2 DEF OnDown, CallbackRuns, Alive
  <2> QED BY <1>9, <2>1, <2>2 DEF OnDown, Fail, CallbackRuns, Alive
<1>10. CASE OnRead
  <2>1. CASE session # NULL /\ StartReconnect
    <3>1. exiting = "no" /\ exiting' = "no" /\ failed' # "bad_alloc" /\ Phase'
        = "waiting"
      BY <1>10, <2>1 DEF OnRead, CallbackRuns, Alive, Fail, StartReconnect
    <3>2. UNCHANGED conncount /\ Phase \in {"connecting", "connected"}
      BY <1>10, <2>1, <3>1 DEF OnRead, CallbackRuns, Alive, Fail
    <3> QED BY <3>1, <3>2 DEF Life!Next, Life!Wait
  <2>2. CASE UNCHANGED <<session, connected, timer_active, exiting, started,
      conncount>> /\ failed' # "bad_alloc"
    BY <1>10, <2>2 DEF OnRead, CallbackRuns, Alive
  <2> QED BY <1>10, <2>1, <2>2 DEF OnRead, Fail, CallbackRuns, Alive
<1>11. CASE OnTimer
  BY <1>11 DEF OnTimer, CallbackRuns, Alive, LockFree, Fail, Connect,
      Allocatable, ScanIoRequest
<1>12. CASE ForceReConnect
  BY <1>12 DEF ForceReConnect, Alive, LockFree, Fail, StartReconnect, Freed
<1>13. CASE Stop
  BY <1>13 DEF Stop, Alive, Freed
<1>14. CASE \E r \in StatusRecords : ScanRecord(r)
  BY <1>14 DEF ScanRecord, Alive, LockFree
<1>20. CASE UNCHANGED vars
  BY <1>20 DEF vars
<1> QED BY <1>1, <1>2, <1>3, <1>4, <1>5, <1>6, <1>7, <1>8, <1>9, <1>10, <1>11,
    <1>12, <1>13, <1>14, <1>20 DEF Next, Network, Pick, Handle, Scan

\* The life cycle implements ConnLifecycle: connections are counted once, and
\* a lost connection is only replaced after a wait.
THEOREM LifecycleRefinement == Spec => ImplementsLifecycle
<1>1. Init => Life!Init
  BY DEF Init, Phase, Life!Init
<1> QED
  BY <1>1, LifeStep, Invariance, PTL DEF Spec, ImplementsLifecycle, Life!Spec
=============================================================================
