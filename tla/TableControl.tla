---------------------------- MODULE TableControl ----------------------------
(***************************************************************************)
(* The controller of one ramp table of a power supply                      *)
(* (pscApp/src/psctbl.cpp): a waveform record offers a target table, the   *)
(* controller checks it against the table that the device plays and sends  *)
(* it, in automatic mode behind a transient table that joins the two.      *)
(*                                                                         *)
(* proc_update_target() takes the lock of the receiving PSC to read the    *)
(* polarity, drops it, and takes the lock of the sending PSC for the rest: *)
(* the steps of one update are Begin, ReadPolarity, Check and one Send for *)
(* each message.  From Check on the sending PSC is locked.                 *)
(*                                                                         *)
(* A table is a sequence of volts.  The quintic that calcTransientTable()  *)
(* fits runs through the point of the old table where it starts; its other *)
(* points are any volts.                                                   *)
(***************************************************************************)
EXTENDS Integers, Sequences

CONSTANTS
  Tables,       \* the tables that the record may offer
  Volts,        \* the values of a point
  Top,          \* the largest value that the device can set
  Deltas1, Deltas2,  \* values of the two delta records
  StartPoints,  \* values of the start point record
  MayFail       \* the send buffer, the output buffer or the memory may be exhausted

ASSUME TopAssumption == Volts \subseteq Int /\ 0 \in Volts /\ Top \in Nat
ASSUME TableAssumption == \A t \in Tables : t \in Seq(Volts) /\ Len(t) >= 2
ASSUME DeltaAssumption == Deltas1 \cup Deltas2 \subseteq Nat /\ StartPoints \subseteq Nat
ASSUME FlagAssumption == MayFail \in BOOLEAN

VARIABLES
  curmode, max_delta1, max_delta2, start_point,  \* parameters of the controller
  prev_tg,      \* TableController::prev_tg; next_tg is update.table
  alarmBits,    \* TableController::alarmBits
  errorscan,    \* the alarm record is requested to be scanned
  told,         \* the alarm record has read the present alarmBits
  severity,     \* the alarm of the last processing of the waveform record (nsta)
  unipolar,     \* block 64 of the receiving PSC: its polarity, or not received
  update,       \* the thread in proc_update_target()
  connected,    \* the sending PSC
  queued,       \* Block::queued of this table
  aborted,      \* the GSL error handler has ended the process
  playing,      \* history: the table handed to the socket last on this connection
  tightened,    \* history: a delta was reduced since that table was sent
  left,         \* history: the message of this table that waits in the send buffer
  apart         \* history: why prev_tg is not what plays

params == <<curmode, max_delta1, max_delta2, start_point>>
status == <<alarmBits, errorscan, told, severity>>
link   == <<connected, queued>>
history == <<playing, tightened, left, apart>>
vars   == <<params, prev_tg, status, unipolar, update, link, aborted, history>>

Modes == {"imm", "auto", "man"}
AlarmBits == {"decline", "cantSend", "targetTableWrong", "transientTableWrong",
              "transientTableUsed", "unexplainable"}

Message == [kind : {"immediate", "transient", "target"}, table : Seq(Volts)]
NoTable == <<>>
Unknown == [kind |-> "none", table |-> NoTable]
Idle == [pc |-> "idle", uni |-> FALSE, table |-> NoTable, todo |-> <<>>]

TypeOK ==
  /\ curmode \in Modes
  /\ max_delta1 \in Deltas1 /\ max_delta2 \in Deltas2 /\ start_point \in StartPoints
  /\ prev_tg \in Seq(Volts)
  /\ alarmBits \subseteq AlarmBits
  /\ {errorscan, told, connected, queued, aborted, tightened} \subseteq BOOLEAN
  /\ severity \in {"no", "write", "comm", "busy"}
  /\ unipolar \in {"unknown", "yes", "no"}
  /\ update \in [pc : {"idle", "begin", "checking", "sending"}, uni : BOOLEAN,
                  table : Tables \cup {NoTable}, todo : Seq(Message)]
  /\ playing \in Message \cup {Unknown} /\ left \in Message \cup {Unknown}
  /\ apart \in {"no", "resized", "halfsent", "late"}

\* the constructor leaves mode, deltas and start point as it finds them
Init ==
  /\ curmode \in Modes
  /\ max_delta1 \in Deltas1 /\ max_delta2 \in Deltas2 /\ start_point \in StartPoints
  /\ prev_tg = NoTable
  /\ alarmBits = {} /\ errorscan = FALSE /\ told = TRUE /\ severity = "no"
  /\ unipolar = "unknown"
  /\ update = Idle
  /\ connected = FALSE /\ queued = FALSE
  /\ aborted = FALSE
  /\ playing = Unknown /\ tightened = FALSE /\ left = Unknown /\ apart = "no"

-----------------------------------------------------------------------------
(* check_ramp_function() *)

Abs(x) == IF x < 0 THEN -x ELSE x

OutOfRange(v, uni) == v > Top \/ v < (IF uni THEN 0 ELSE -Top)

\* the first complaint about v1 followed by the first two points of v2: none
\* (0), the ends do not meet (negative results), or v1 is wrong (positive ones)
CheckRamp(v1, v2, uni, d1, d2) ==
  LET w == v1 \o <<v2[1], v2[2]>>
      n == Len(v1)
      Jump(i) == Abs(w[i+1] - w[i]) > d1
      Bend(i) == Abs((w[i+1] - w[i]) - (w[i+2] - w[i+1])) > d2
      Bad(i) == OutOfRange(w[i], uni) \/ Jump(i) \/ Bend(i)
      AtEnd(i) == /\ ~OutOfRange(w[i], uni)
                  /\ IF Jump(i) THEN i = n ELSE i >= n - 1
  IN IF \A i \in 1 .. n : ~Bad(i) THEN "ok"
     ELSE LET i == CHOOSE k \in 1 .. n : Bad(k) /\ \A j \in 1 .. k-1 : ~Bad(j)
          IN IF AtEnd(i) THEN "gap" ELSE "wrong"

\* std::vector::resize(): the table is cut, or filled with zeros
Resize(t, n) == [i \in 1 .. n |-> IF i <= Len(t) THEN t[i] ELSE 0]

\* mutant: the points before the start are not copied
TransientTablesFresh(old) == [1 .. Len(old) -> Volts]

\* calcTransientTable(): what next_tr may become for the old table.  Nothing is
\* done when the start lies behind the end: next_tr is left over from another
\* update, or zero
TransientTables(old) ==
  {t \in [1 .. Len(old) -> Volts] :
     start_point > Len(old) \/ \A i \in DOMAIN t : i <= start_point + 1 => t[i] = old[i]}

-----------------------------------------------------------------------------
(* The records *)

PscUnlocked == ~aborted /\ update.pc # "sending"

\* proc_set_mode(), proc_set_max_delta1(), ...: invalid values change nothing
SetMode(m) ==
  /\ PscUnlocked
  /\ curmode' = m
  /\ UNCHANGED <<max_delta1, max_delta2, start_point, prev_tg, status, unipolar, update, link,
                 aborted, history>>

SetMaxDeltas(d1, d2) ==
  /\ PscUnlocked
  /\ max_delta1 = d1 \/ max_delta2 = d2       \* one record at a time
  /\ max_delta1' = d1 /\ max_delta2' = d2
  /\ tightened' = (playing # Unknown /\ (tightened \/ d1 < max_delta1 \/ d2 < max_delta2))
  /\ UNCHANGED <<curmode, start_point, prev_tg, status, unipolar, update, link,
                 aborted, playing, left, apart>>

SetStartPoint(p) ==
  /\ PscUnlocked
  /\ start_point' = p
  /\ UNCHANGED <<curmode, max_delta1, max_delta2, prev_tg, status, unipolar, update, link,
                 aborted, history>>

\* proc_read_alarms(), processed for errorscan
ReadAlarms ==
  /\ PscUnlocked
  /\ errorscan
  /\ errorscan' = FALSE
  /\ told' = TRUE
  /\ UNCHANGED <<params, prev_tg, alarmBits, severity, unipolar, update, link, aborted, history>>

\* proc_update_target(): alarmBits is cleared with no lock held
Begin ==
  /\ ~aborted
  /\ update.pc = "idle"
  /\ update' = [Idle EXCEPT !.pc = "begin"]
  /\ alarmBits' = {}
  /\ told' = FALSE
  /\ severity' = "no"
  /\ UNCHANGED <<params, prev_tg, errorscan, unipolar, link, aborted, history>>

\* mutant: the alarm record is not told
DeclineSilently(bit) ==
  /\ alarmBits' = alarmBits \cup {"decline", bit}
  /\ severity' = "write"
  /\ update' = Idle
  /\ told' = FALSE
  /\ UNCHANGED errorscan

\* the record returns with WRITE_ALARM, the table is declined
Decline(bit) ==
  /\ alarmBits' = alarmBits \cup {"decline", bit}
  /\ errorscan' = TRUE
  /\ severity' = "write"
  /\ update' = Idle
  /\ told' = FALSE

\* ... the polarity is read with rxpsc->lock
ReadPolarity ==
  /\ ~aborted
  /\ update.pc = "begin"
  /\ IF unipolar = "unknown"
       THEN Decline("cantSend")
       ELSE /\ update' = [update EXCEPT !.pc = "checking", !.uni = (unipolar = "yes")]
            /\ UNCHANGED status
  /\ UNCHANGED <<params, prev_tg, unipolar, link, aborted, history>>

\* ... what is to be sent
Program(tr, t) ==
  IF tr = NoTable THEN <<[kind |-> "immediate", table |-> t]>>
  ELSE <<[kind |-> "transient", table |-> tr], [kind |-> "target", table |-> t]>>

Accept(tr, t) ==
  /\ update' = [update EXCEPT !.pc = "sending", !.table = t, !.todo = Program(tr, t)]
  /\ alarmBits' = alarmBits \cup IF tr = NoTable THEN {} ELSE {"transientTableUsed"}
  /\ told' = FALSE
  /\ UNCHANGED <<errorscan, severity>>

\* modeMan: the record returns without an alarm, and nothing is sent
Ignore ==
  /\ update' = Idle
  /\ errorscan' = TRUE
  /\ severity' = "no"
  /\ UNCHANGED <<alarmBits, told>>

\* mutant: the exception is swallowed
ThrowNothing(sevr) ==
  /\ update' = Idle
  /\ severity' = "no"
  /\ UNCHANGED <<alarmBits, errorscan, told>>

\* CATCH: the record returns with an alarm, and errorscan is not requested
Throw(sevr) ==
  /\ update' = Idle
  /\ severity' = sevr
  /\ UNCHANGED <<alarmBits, errorscan, told>>

\* ... with psc->lock: the tables get the length of the new one, then the checks,
\* which copy tables, and the buffer of the message
Compare(t) ==
  LET Checked(v1) == CheckRamp(v1, t, update.uni, max_delta1, max_delta2)
      old == Resize(prev_tg, Len(t))
  IN
  /\ prev_tg' = old
  /\ apart' = IF old = prev_tg \/ playing = Unknown THEN apart ELSE "resized"
  /\ \/ /\ MayFail                           \* std::bad_alloc
        /\ Throw("comm")
        /\ UNCHANGED aborted
     \/ /\ Checked(t) # "ok"
        /\ Decline("targetTableWrong")
        /\ UNCHANGED aborted
     \/ /\ Checked(t) = "ok" /\ curmode # "man" /\ Checked(old) = "wrong"
        /\ Decline("unexplainable")
        /\ UNCHANGED aborted
     \/ /\ Checked(t) = "ok"
        /\ \/ curmode = "imm" /\ Checked(old) # "wrong"
           \/ curmode = "auto" /\ Checked(old) = "ok"
        /\ Accept(NoTable, t)
        /\ UNCHANGED aborted
     \/ /\ Checked(t) = "ok" /\ curmode = "auto" /\ Checked(old) = "gap"
        /\ \/ \E tr \in TransientTables(old) :
                /\ IF Checked(tr) = "ok" THEN Accept(tr, t) ELSE Decline("transientTableWrong")
                /\ UNCHANGED aborted
           \/ /\ start_point = Len(t)   \* gsl_linalg_LU_solve(): a singular matrix
              /\ aborted' = TRUE
              /\ UNCHANGED <<status, update>>
     \/ /\ Checked(t) = "ok" /\ curmode = "man"
        /\ Ignore
        /\ UNCHANGED aborted

Check(t) ==
  /\ ~aborted
  /\ update.pc = "checking"
  /\ \/ Compare(t)
     \/ /\ MayFail                           \* std::bad_alloc, before prev_tg is resized
        /\ Throw("comm")
        /\ UNCHANGED <<prev_tg, aborted, apart>>
  /\ UNCHANGED <<params, unipolar, link, playing, tightened, left>>

\* mutant: the old table stays the previous one
FinishForgets ==
  /\ update' = Idle /\ errorscan' = TRUE /\ severity' = "no"
  /\ UNCHANGED <<prev_tg, alarmBits, told>>

\* the last message is out: the table becomes the previous one
Finish ==
  /\ update' = Idle
  /\ prev_tg' = update.table
  /\ errorscan' = TRUE
  /\ severity' = "no"
  /\ UNCHANGED <<alarmBits, told>>

Proceed ==
  IF Len(update.todo) = 1 THEN Finish
  ELSE /\ update' = [update EXCEPT !.todo = Tail(@)]
       /\ UNCHANGED <<prev_tg, status>>

\* the update ends here: a target that is refused leaves its transient playing
Refuse(sevr) ==
  /\ Throw(sevr)
  /\ apart' = IF Head(update.todo).kind = "target" THEN "halfsent" ELSE apart
  /\ UNCHANGED <<prev_tg, playing, tightened>>

\* ... queueSend() and flushSend() for the next message
Send ==
  /\ ~aborted
  /\ update.pc = "sending"
  /\ \/ /\ ~connected                       \* both return at once
        /\ Proceed
        /\ UNCHANGED <<link, history>>
     \/ /\ connected /\ queued              \* recAlarm
        /\ Refuse("busy")
        /\ UNCHANGED <<link, left>>
     \/ /\ connected /\ ~queued
        /\ Proceed
        /\ playing' = Head(update.todo)
        /\ tightened' = FALSE
        /\ apart' = "no"
        /\ UNCHANGED <<link, left>>
     \/ /\ connected /\ ~queued /\ MayFail
        /\ Refuse("comm")
        /\ \/ UNCHANGED <<queued, left>>       \* no room in the send buffer,
           \/ /\ queued' = TRUE               \* or in the output buffer, or no memory
              /\ left' \in {Head(update.todo), Unknown}
        /\ UNCHANGED connected
  /\ UNCHANGED <<params, unipolar, aborted>>

-----------------------------------------------------------------------------
(* The two PSCs *)

\* block 64 is received, long enough to hold the polarity or not
RegistersArrive(uni) ==
  /\ ~aborted
  /\ unipolar' = uni
  /\ UNCHANGED <<params, prev_tg, status, update, link, aborted, history>>

\* another record flushes the sending PSC: what a failed update has left in its
\* send buffer goes out, or is given up without memory
FlushSend ==
  /\ PscUnlocked
  /\ connected /\ queued
  /\ left' = Unknown
  /\ \/ /\ queued' = FALSE
        /\ \/ left = Unknown /\ UNCHANGED <<playing, apart>>
           \/ left # Unknown /\ playing' = left /\ apart' = "late"
     \/ MayFail /\ UNCHANGED <<queued, playing, apart>>
  /\ UNCHANGED <<params, prev_tg, status, unipolar, update, connected, aborted, tightened>>

ConnUp ==
  /\ PscUnlocked
  /\ ~connected
  /\ connected' = TRUE
  /\ UNCHANGED <<params, prev_tg, status, unipolar, update, queued, aborted, history>>

ConnDown ==
  /\ PscUnlocked
  /\ connected
  /\ connected' = FALSE
  /\ playing' = Unknown /\ tightened' = FALSE /\ apart' = "no"
  /\ UNCHANGED <<params, prev_tg, status, unipolar, update, queued, aborted, left>>

UpdateTarget == ReadPolarity \/ (\E t \in Tables : Check(t)) \/ Send

SetParameter ==
  \/ \E m \in Modes : SetMode(m)
  \/ \E d1 \in Deltas1, d2 \in Deltas2 : SetMaxDeltas(d1, d2)
  \/ \E p \in StartPoints : SetStartPoint(p)

Next ==
  \/ SetParameter
  \/ Begin
  \/ UpdateTarget
  \/ ReadAlarms
  \/ \E uni \in {"unknown", "yes", "no"} : RegistersArrive(uni)
  \/ FlushSend \/ ConnUp \/ ConnDown

Spec == Init /\ [][Next]_vars
FairSpec == Spec /\ WF_vars(UpdateTarget) /\ WF_vars(ReadAlarms)
=============================================================================
