------------------------------ MODULE SingleSync ------------------------------
(***************************************************************************)
(* An output record with DTYP "PSC Single" and info(SYNC, "SAME")          *)
(* (coreApp/src/devPSCSingle.cpp): a message with the address of the       *)
(* record makes it take the value of the device without sending anything.  *)
(*                                                                         *)
(* Two threads hand the value over in SinglePriv::syncData.  The event     *)
(* loop, with PSC::lock held, stores a copy of the block and requests a    *)
(* callback, unless an earlier copy still waits.  The callback thread,     *)
(* with the lock of the record held, processes the record, which reads     *)
(* and clears the copy.  No lock is common to both, so an action here is   *)
(* one access, and accesses of both threads mix.                           *)
(***************************************************************************)
EXTENDS Integers

CONSTANTS
  Values,       \* register values
  Torn,         \* a value of bytes from two messages
  Zero,         \* the value 0, which the device does not send here
  Empty,        \* no message
  Unknown,      \* no value
  Sizes,        \* sizes of a message body
  FrameSize,    \* bytes of msg<T>, address and value
  MayOverflow,  \* the callback queue may be full
  MayDisable    \* the record may be disabled (DISA) when the callback runs

ASSUME ValueAssumption == {Torn, Zero, Unknown} \cap Values = {}
ASSUME SizeAssumption == Sizes \subseteq Nat /\ FrameSize \in Nat
ASSUME EmptyAssumption ==
  Empty \notin [mine : BOOLEAN, size : Sizes, val : Values \cup {Torn}]
ASSUME FlagAssumption == {MayOverflow, MayDisable} \subseteq BOOLEAN

VARIABLES
  data,      \* Block::data, the body of the last message
  syncData,  \* SinglePriv::syncData
  already,   \* received_block(): alreadyQueued
  rx,        \* event loop thread, where it is in received_block()
  queued,    \* how often syncCB is in the queue of the callback threads
  sync,      \* callback thread, where it is in sync_callback(), or the process ended
  val,       \* the value of the record
  newest,    \* the value the device sent last, unless the user wrote since
  missed     \* why a message was missed

vars == <<data, syncData, already, rx, queued, sync, val, newest, missed>>

\* mine: it has the address of the record
Message == [mine : BOOLEAN, size : Sizes, val : Values]

\* what is in syncData, also while it is filled
Copies == [mine : BOOLEAN, size : Sizes, val : Values \cup {Torn}]

TypeOK ==
  /\ data \in Message \cup {Empty}
  /\ syncData \in Copies \cup {Empty}
  /\ already \in BOOLEAN
  /\ rx \in {"idle", "resize", "copy", "request"}
  /\ queued \in 0 .. 1
  /\ sync \in {"idle", "read", "clear", "aborted"}
  /\ val \in Values \cup {Torn, Zero}
  /\ newest \in Values \cup {Unknown}
  /\ missed \in {"no", "short", "overread", "overlap", "overflow", "disabled"}

Init ==
  /\ data = Empty
  /\ syncData = Empty
  /\ already = FALSE
  /\ rx = "idle"
  /\ queued = 0
  /\ sync = "idle"
  /\ val \in Values
  /\ newest = Unknown
  /\ missed = "no"

\* no assertion has failed
Alive == sync # "aborted"

\* a value stands in a message that is long enough for it
Whole(m) == m.size >= FrameSize

\* received_block() is at the bytes of syncData
Storing == rx \in {"resize", "copy"}

-----------------------------------------------------------------------------
(* Event loop thread, in received_block() with PSC::lock held *)

\* recvdata() has the body of a message and calls the listeners of the block
ReceivedBlock(m) ==
  /\ rx = "idle" /\ Alive
  /\ data' = m
  /\ \/ /\ m.size < 8 \/ ~m.mine
        /\ UNCHANGED <<already, rx, newest>>
     \/ /\ m.size >= 8 /\ m.mine
        /\ already' = (syncData # Empty)
        /\ rx' = "resize"
        /\ newest' = m.val
  /\ UNCHANGED <<syncData, queued, sync, val, missed>>

\* syncData.resize(): old bytes stay, new ones are 0
ResizeCopy ==
  /\ rx = "resize" /\ Alive
  /\ syncData' = [data EXCEPT !.val =
       IF syncData # Empty /\ Whole(data) /\ Whole(syncData) THEN syncData.val ELSE Torn]
  /\ rx' = "copy"
  /\ UNCHANGED <<data, already, queued, sync, val, newest, missed>>

\* std::copy(): into nothing if the reader has cleared syncData since; a reader
\* that is at it will clear this copy
StoreCopy ==
  /\ rx = "copy" /\ Alive
  /\ syncData' = IF syncData = Empty THEN Empty ELSE data
  /\ rx' = IF already THEN "idle" ELSE "request"
  /\ missed' = IF already /\ sync = "clear" THEN "overlap" ELSE missed
  /\ UNCHANGED <<data, already, queued, sync, val, newest>>

\* callbackRequest(); that the queue is full is only printed
RequestCallback ==
  /\ rx = "request" /\ Alive
  /\ rx' = "idle"
  /\ \/ queued' = queued + 1 /\ UNCHANGED missed
     \/ MayOverflow /\ missed' = "overflow" /\ UNCHANGED queued
  /\ UNCHANGED <<data, syncData, already, sync, val, newest>>

-----------------------------------------------------------------------------
(* Callback thread, in sync_callback() with the lock of the record held *)

\* dbScanLock(); syncNow is TRUE from here until sync is idle again
RunCallback ==
  /\ queued > 0
  /\ sync = "idle"
  /\ queued' = queued - 1
  /\ \/ sync' = "read" /\ UNCHANGED missed
     \/ MayDisable /\ missed' = "disabled" /\ UNCHANGED sync  \* dbProcess() does nothing
  /\ UNCHANGED <<data, syncData, already, rx, val, newest>>

\* mutant of CopyValue: the value is taken from the block
CopyLate ==
  /\ sync = "read"
  /\ data.size >= FrameSize
  /\ val' = data.val
  /\ sync' = "clear"
  /\ UNCHANGED <<data, syncData, already, rx, queued, newest, missed>>

\* read_msg() looks at the size of the block, not of the copy.  If it is too small,
\* bo, mbbo and floating point ao records take 0, the others keep their value.
TooShort ==
  /\ sync = "read" /\ ~Whole(data)
  /\ sync' = "idle"
  /\ missed' = "short"
  /\ val' \in {val, Zero}
  /\ UNCHANGED <<data, syncData, already, rx, queued, newest>>

\* If the block is long enough, a value is copied from syncData, however short that
\* is: behind its end stands what memory has there.  Bytes that are being stored
\* are read in any state.
CopyValue ==
  /\ sync = "read" /\ Whole(data)
  /\ sync' = "clear"
  /\ \/ /\ Whole(syncData)
        /\ val' \in IF Storing THEN {syncData.val, data.val, Torn} ELSE {syncData.val}
        /\ UNCHANGED missed
     \/ /\ ~Whole(syncData)
        /\ val' \in Values \cup {Torn, Zero}
        /\ missed' = "overread"
  /\ UNCHANGED <<data, syncData, already, rx, queued, newest>>

\* A vector that grows may move its bytes: a reader that is at the old ones may
\* find another address there, and its assertion ends the process.
AddressFails ==
  /\ sync = "read" /\ Whole(data)
  /\ rx = "resize" /\ data.size > syncData.size
  /\ sync' = "aborted"
  /\ missed' = "overlap"
  /\ UNCHANGED <<data, syncData, already, rx, queued, val, newest>>

\* mutant of ClearCopy: the copy is not cleared
ClearNothing ==
  /\ sync = "clear"
  /\ sync' = "idle"
  /\ UNCHANGED <<data, syncData, already, rx, queued, val, newest, missed>>

\* syncData.clear(), and the record is unlocked
ClearCopy ==
  /\ sync = "clear"
  /\ syncData' = Empty
  /\ sync' = "idle"
  /\ missed' = IF Storing THEN "overlap" ELSE missed
  /\ UNCHANGED <<data, already, rx, queued, val, newest>>

-----------------------------------------------------------------------------
\* write_msg(): the user gives the record a value, both locks held; whether it
\* is queued is the business of PscSend
UserWrite(v) ==
  /\ sync = "idle" /\ rx = "idle"
  /\ val' = v
  /\ newest' = Unknown
  /\ UNCHANGED <<data, syncData, already, rx, queued, sync, missed>>

EventLoop == ResizeCopy \/ StoreCopy \/ RequestCallback
CallbackThread == RunCallback \/ TooShort \/ CopyValue \/ AddressFails \/ ClearCopy

Next ==
  \/ \E m \in Message : ReceivedBlock(m)
  \/ EventLoop
  \/ CallbackThread
  \/ \E v \in Values : UserWrite(v)

Spec == Init /\ [][Next]_vars

\* both threads keep running
FairSpec == Spec /\ WF_vars(EventLoop) /\ WF_vars(CallbackThread)
=============================================================================
