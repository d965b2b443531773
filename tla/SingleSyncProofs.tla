-------------------------- MODULE SingleSyncProofs --------------------------
(***************************************************************************)
(* Proofs about SingleSync: the inductive invariant SyncInv and what       *)
(* follows from it, for every set of values and sizes, with or without     *)
(* overflowing callback queues and disabled records.                       *)
(***************************************************************************)
EXTENDS SingleSyncProps, TLAPS

LEMMA InitSyncInv == Init => SyncInv
<1> SUFFICES ASSUME Init PROVE SyncInv
  OBVIOUS
<1> USE DEF Init, Storing, Alive
<1>1. TypeOK
  <2>1. already \in BOOLEAN
    BY Zenon
  <2>2. queued \in 0 .. 1
    OBVIOUS
  <2> QED
    BY <2>1, <2>2, Zenon DEF TypeOK
<1>2. NeverReadsEmpty /\ OneResponsible /\ Responsible /\ NewestOnItsWay
  BY DEF NeverReadsEmpty, OneResponsible, Responsible, NewestOnItsWay
<1>3. ForeignWhileOverlap
  BY ValueAssumption DEF ForeignWhileOverlap
<1> QED
  BY <1>1, <1>2, <1>3 DEF SyncInv

LEMMA ReceivedBlockStep ==
  ASSUME SyncInv, NEW m \in Message, ReceivedBlock(m)
  PROVE  SyncInv'
<1> USE EmptyAssumption, ValueAssumption DEF SyncInv, ReceivedBlock, Message, Copies, Storing, Alive
<1>1. TypeOK'
  BY DEF TypeOK
<1>2. NeverReadsEmpty' /\ Responsible' /\ ForeignWhileOverlap'
  BY DEF NeverReadsEmpty, Responsible, ForeignWhileOverlap, OneResponsible
<1>3. OneResponsible'
  BY DEF OneResponsible, Responsible, NeverReadsEmpty, TypeOK
<1>4. NewestOnItsWay'
  BY DEF NewestOnItsWay, TypeOK
<1> QED
  BY <1>1, <1>2, <1>3, <1>4

LEMMA ResizeCopyStep == SyncInv /\ ResizeCopy => SyncInv'
<1> SUFFICES ASSUME SyncInv, ResizeCopy PROVE SyncInv'
  OBVIOUS
<1> USE EmptyAssumption, ValueAssumption DEF SyncInv, ResizeCopy, Message, Copies, Storing, Alive
<1>1. data \in Message /\ syncData' \in Copies
  BY DEF TypeOK, OneResponsible
<1>2. TypeOK'
  BY <1>1 DEF TypeOK
<1>3. NeverReadsEmpty' /\ OneResponsible'
  BY <1>1 DEF NeverReadsEmpty, OneResponsible, TypeOK
<1>4. Responsible'
  BY <1>1 DEF Responsible, OneResponsible, NeverReadsEmpty, TypeOK
<1>5. NewestOnItsWay' /\ ForeignWhileOverlap'
  BY DEF NewestOnItsWay, ForeignWhileOverlap, OneResponsible, TypeOK
<1> QED
  BY <1>2, <1>3, <1>4, <1>5

LEMMA StoreCopyStep == SyncInv /\ StoreCopy => SyncInv'
<1> SUFFICES ASSUME SyncInv, StoreCopy PROVE SyncInv'
  OBVIOUS
<1> USE EmptyAssumption, ValueAssumption DEF SyncInv, StoreCopy, Message, Copies, Storing, Alive
<1>1. TypeOK'
  BY DEF TypeOK
<1>2. NeverReadsEmpty' /\ OneResponsible'
  BY DEF NeverReadsEmpty, OneResponsible, TypeOK
<1>3. Responsible'
  BY DEF Responsible, OneResponsible, TypeOK
<1>4. NewestOnItsWay'
  BY DEF NewestOnItsWay, OneResponsible, NeverReadsEmpty, TypeOK
<1>5. ForeignWhileOverlap'
  BY DEF ForeignWhileOverlap, OneResponsible, NeverReadsEmpty, TypeOK
<1> QED
  BY <1>1, <1>2, <1>3, <1>4, <1>5

LEMMA RequestCallbackStep == SyncInv /\ RequestCallback => SyncInv'
<1> SUFFICES ASSUME SyncInv, RequestCallback PROVE SyncInv'
  OBVIOUS
<1> USE EmptyAssumption, ValueAssumption DEF SyncInv, RequestCallback, Message, Copies, Storing, Alive
<1>1. TypeOK'
  BY DEF TypeOK, OneResponsible
<1>2. NeverReadsEmpty' /\ OneResponsible' /\ Responsible'
  BY DEF NeverReadsEmpty, OneResponsible, Responsible, TypeOK
<1>3. NewestOnItsWay' /\ ForeignWhileOverlap'
  BY DEF NewestOnItsWay, ForeignWhileOverlap, OneResponsible, TypeOK
<1> QED
  BY <1>1, <1>2, <1>3

LEMMA RunCallbackStep == SyncInv /\ RunCallback => SyncInv'
<1> SUFFICES ASSUME SyncInv, RunCallback PROVE SyncInv'
  OBVIOUS
<1> USE EmptyAssumption, ValueAssumption DEF SyncInv, RunCallback, Message, Copies, Storing, Alive
<1>1. TypeOK'
  BY DEF TypeOK
<1>2. NeverReadsEmpty' /\ OneResponsible' /\ Responsible'
  BY DEF NeverReadsEmpty, OneResponsible, Responsible, TypeOK
<1>3. NewestOnItsWay' /\ ForeignWhileOverlap'
  BY DEF NewestOnItsWay, ForeignWhileOverlap, OneResponsible, TypeOK
<1> QED
  BY <1>1, <1>2, <1>3

LEMMA TooShortStep == SyncInv /\ TooShort => SyncInv'
<1> SUFFICES ASSUME SyncInv, TooShort PROVE SyncInv'
  OBVIOUS
<1> USE EmptyAssumption, ValueAssumption DEF SyncInv, TooShort, Message, Copies, Storing, Alive
<1>1. TypeOK'
  BY DEF TypeOK
<1>2. NeverReadsEmpty' /\ OneResponsible' /\ Responsible'
  BY DEF NeverReadsEmpty, OneResponsible, Responsible, TypeOK
<1>3. NewestOnItsWay' /\ ForeignWhileOverlap'
  BY DEF NewestOnItsWay, ForeignWhileOverlap
<1> QED
  BY <1>1, <1>2, <1>3

LEMMA AddressFailsStep == SyncInv /\ AddressFails => SyncInv'
<1> SUFFICES ASSUME SyncInv, AddressFails PROVE SyncInv'
  OBVIOUS
<1> USE DEF SyncInv, AddressFails, Storing, Alive
<1>1. TypeOK' /\ NewestOnItsWay' /\ ForeignWhileOverlap'
  BY DEF TypeOK, NewestOnItsWay, ForeignWhileOverlap
<1>2. NeverReadsEmpty' /\ OneResponsible' /\ Responsible'
  BY DEF NeverReadsEmpty, OneResponsible, Responsible, TypeOK
<1> QED
  BY <1>1, <1>2

LEMMA CopyValueStep == SyncInv /\ CopyValue => SyncInv'
<1> SUFFICES ASSUME SyncInv, CopyValue PROVE SyncInv'
  OBVIOUS
<1> USE EmptyAssumption, ValueAssumption DEF SyncInv, CopyValue, Message, Copies, Storing, Alive
<1>1. TypeOK'
  BY DEF TypeOK, OneResponsible, NeverReadsEmpty
<1>2. NeverReadsEmpty' /\ OneResponsible' /\ Responsible'
  BY DEF NeverReadsEmpty, OneResponsible, Responsible, TypeOK
<1>3. NewestOnItsWay'
  BY DEF NewestOnItsWay, OneResponsible, NeverReadsEmpty, TypeOK
<1>4. ForeignWhileOverlap'
  BY DEF ForeignWhileOverlap, OneResponsible, NeverReadsEmpty, TypeOK
<1> QED
  BY <1>1, <1>2, <1>3, <1>4

LEMMA ClearCopyStep == SyncInv /\ ClearCopy => SyncInv'
<1> SUFFICES ASSUME SyncInv, ClearCopy PROVE SyncInv'
  OBVIOUS
<1> USE EmptyAssumption, ValueAssumption DEF SyncInv, ClearCopy, Message, Copies, Storing, Alive
<1>1. TypeOK'
  BY DEF TypeOK
<1>2. NeverReadsEmpty' /\ OneResponsible' /\ Responsible'
  BY DEF NeverReadsEmpty, OneResponsible, Responsible, TypeOK
<1>3. NewestOnItsWay' /\ ForeignWhileOverlap'
  BY DEF NewestOnItsWay, ForeignWhileOverlap, OneResponsible, NeverReadsEmpty, TypeOK
<1> QED
  BY <1>1, <1>2, <1>3

LEMMA UserWriteStep ==
  ASSUME SyncInv, NEW v \in Values, UserWrite(v)
  PROVE  SyncInv'
<1> USE EmptyAssumption, ValueAssumption DEF SyncInv, UserWrite, Message, Copies, Storing, Alive
<1>1. TypeOK'
  BY DEF TypeOK
<1>2. NeverReadsEmpty' /\ OneResponsible' /\ Responsible'
  BY DEF NeverReadsEmpty, OneResponsible, Responsible
<1>3. NewestOnItsWay' /\ ForeignWhileOverlap'
  BY DEF NewestOnItsWay, ForeignWhileOverlap
<1> QED
  BY <1>1, <1>2, <1>3

LEMMA NextSyncInv == SyncInv /\ [Next]_vars => SyncInv'
<1> SUFFICES ASSUME SyncInv, [Next]_vars PROVE SyncInv'
  OBVIOUS
<1>1. CASE UNCHANGED vars
  BY <1>1 DEF vars, SyncInv, TypeOK, NeverReadsEmpty, OneResponsible, Responsible,
              NewestOnItsWay, ForeignWhileOverlap, Storing, Alive
<1>2. CASE \E m \in Message : ReceivedBlock(m)
  BY <1>2, ReceivedBlockStep
<1>3. CASE EventLoop
  BY <1>3, ResizeCopyStep, StoreCopyStep, RequestCallbackStep DEF EventLoop
<1>4. CASE CallbackThread
  BY <1>4, RunCallbackStep, TooShortStep, CopyValueStep, AddressFailsStep, ClearCopyStep
     DEF CallbackThread
<1>5. CASE \E v \in Values : UserWrite(v)
  BY <1>5, UserWriteStep
<1> QED
  BY <1>1, <1>2, <1>3, <1>4, <1>5 DEF Next

-----------------------------------------------------------------------------
\* SyncInv holds in every state: a copy always has exactly one step of the two
\* threads responsible for it, or was missed for a known reason.
THEOREM SyncInvariance == Spec => []SyncInv
  BY InitSyncInv, NextSyncInv, PTL DEF Spec

\* The state of both threads keeps its type; the callback is queued once at most.
THEOREM SyncTypeCorrectness == Spec => []TypeOK
<1>1. SyncInv => TypeOK
  BY DEF SyncInv
<1> QED
  BY <1>1, SyncInvariance, PTL

\* However received_block() and sync_callback() interleave, the callback is
\* requested once for a copy and read_msg() always finds one.
THEOREM ReaderHasCopy == Spec => [](CallbackOnce /\ NeverReadsEmpty)
<1>1. SyncInv => CallbackOnce /\ NeverReadsEmpty
  BY DEF SyncInv, TypeOK, OneResponsible, NeverReadsEmpty, CallbackOnce
<1> QED
  BY <1>1, SyncInvariance, PTL

\* A copy is left behind only for one of the known causes: a message shorter than
\* a value, an overlap, a full callback queue, or a disabled record.
THEOREM LossOnlyWithCause == Spec => []LossHasCause
<1>1. SyncInv => LossHasCause
  BY DEF SyncInv, TypeOK, Responsible, LossHasCause, Quiescent, Storing
<1> QED
  BY <1>1, SyncInvariance, PTL

\* Without such a cause the record ends with the newest value of the device, and
\* it only ever shows values that the device or the user gave it.  A read behind
\* the end of a copy is one of the causes.
THEOREM RecordFollowsDevice == Spec => [](NewestShown /\ ForeignValueHasCause)
<1>1. SyncInv => NewestShown
  BY DEF SyncInv, TypeOK, NewestOnItsWay, Responsible, NewestShown, Quiescent, Storing
<1>2. SyncInv => ForeignValueHasCause
  BY DEF SyncInv, ForeignWhileOverlap, ForeignValueHasCause
<1> QED
  BY <1>1, <1>2, SyncInvariance, PTL
=============================================================================
