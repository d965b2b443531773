--------------------------- MODULE SingleSyncProps ---------------------------
(* What the synchronisation of SingleSync promises *)
EXTENDS SingleSync

Quiescent == rx = "idle" /\ sync = "idle" /\ queued = 0

\* The callback is requested once for a copy: it never is in the queue twice,
\* and never again while a reader has still to take the copy.
CallbackOnce == queued + (IF sync = "read" THEN 1 ELSE 0) <= 1

\* read_msg() never looks into an empty syncData, however the threads mix, so
\* that its assertion on the address can hold.
NeverReadsEmpty == queued > 0 \/ sync # "idle" => syncData # Empty

\* A copy that nobody will ever read is only left behind in the known ways: the
\* newest message is shorter than a value, a copy was read behind its end, both
\* threads were at syncData at once, the callback queue was full, or the record
\* was disabled.
LossHasCause == Quiescent /\ syncData # Empty => missed # "no"

\* When everything is quiet the record has the value that the device sent last,
\* unless a message was missed: a burst of messages ends with the newest.  All that
\* excuses it is a message shorter than a value, both threads at syncData at once,
\* a full callback queue, or a disabled record.
NewestShown == Quiescent /\ missed = "no" /\ newest # Unknown => val = newest

\* A record shows a value that neither the user nor the device gave it (bytes of
\* two messages, from behind a copy, or 0) only after a message shorter than a
\* value, or an overlap.
ForeignValueHasCause == val \in {Torn, Zero} => Storing \/ missed # "no"

\* A copy that waits is read, unless a message was missed.
CopyIsRead == syncData # Empty ~> (syncData = Empty \/ missed # "no")

-----------------------------------------------------------------------------
(* The inductive invariant *)

\* Who is responsible for a copy: a request that is still to be made, one callback
\* in the queue, or the callback that runs, and never two of them.
OneResponsible ==
  /\ sync # "idle" => queued = 0
  /\ rx # "idle" \/ syncData # Empty => data # Empty
  /\ rx = "request" => syncData # Empty /\ queued = 0 /\ sync = "idle"
  /\ ~Storing /\ syncData # Empty => syncData.val \in Values
  /\ rx = "resize" /\ ~already => syncData = Empty
  /\ rx = "copy" /\ ~already => syncData # Empty /\ queued = 0 /\ sync = "idle"
  /\ Storing /\ already /\ syncData = Empty => missed # "no"

\* A copy for which nobody is responsible was missed.
Responsible ==
  /\ syncData # Empty /\ queued = 0 /\ sync = "idle" /\ rx # "request" =>
       missed # "no" \/ (rx = "copy" /\ ~already)
  /\ ~Alive => missed # "no"

\* The newest value is on its way: in the block, in the copy, or in the record.
NewestOnItsWay ==
  missed = "no" /\ newest # Unknown =>
    /\ Storing => data # Empty /\ data.val = newest
    /\ ~Storing /\ syncData # Empty /\ sync # "clear" => syncData.val = newest
    /\ ~Storing /\ (syncData = Empty \/ sync = "clear") => val = newest

\* A foreign value is only seen before the overlap that caused it is over.
ForeignWhileOverlap ==
  val \in {Torn, Zero} => missed # "no" \/ (Storing /\ sync = "clear")

\* The strengthening that the proofs of SingleSyncProofs rest on.
SyncInv ==
  /\ TypeOK
  /\ NeverReadsEmpty
  /\ OneResponsible
  /\ Responsible
  /\ NewestOnItsWay
  /\ ForeignWhileOverlap

-----------------------------------------------------------------------------
(* A statement of the documentation that does not hold *)

\* devsup.rst:116: when a message for the record is received, "this record will
\* be updated": a copy for it does not wait forever.
SyncArrives == syncData # Empty ~> syncData = Empty
=============================================================================
