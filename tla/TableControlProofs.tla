------------------------- MODULE TableControlProofs -------------------------
(***************************************************************************)
(* What the controller reports is what it did; as long as nothing has      *)
(* parted them, the table it compares with is the one the device plays and *)
(* the tables it sends join: for every set of tables, values and           *)
(* parameters.                                                             *)
(***************************************************************************)
EXTENDS TableControlProps, TLAPS

\* What is left to be sent ends with the target, and only begins with a transient
ProgramInv ==
  update.pc = "sending" =>
    \/ \E k \in {"immediate", "target"} : update.todo = <<[kind |-> k, table |-> update.table]>>
    \/ \E tr \in Seq(Volts) :
         update.todo = <<[kind |-> "transient", table |-> tr],
                         [kind |-> "target", table |-> update.table]>>

PlaysPrev ==
  playing # Unknown /\ apart = "no" => playing.kind # "transient" /\ prev_tg = playing.table

\* Until the first message of an update is out the device plays the previous table,
\* and without a connection nothing is known of it
PlayingInv ==
  /\ update.pc = "sending" /\ Head(update.todo).kind # "target" => PlaysPrev
  /\ ~connected => playing = Unknown

TableInv == TypeOK /\ ProgramInv /\ PrevIsPlaying /\ PlayingInv

-----------------------------------------------------------------------------
(* Lemmas about the operators *)

LEMMA ResizedType ==
  ASSUME NEW t \in Seq(Volts), NEW n \in Nat
  PROVE  Resize(t, n) \in Seq(Volts) /\ Len(Resize(t, n)) = n
<1>1. \A i \in 1 .. n : (IF i <= Len(t) THEN t[i] ELSE 0) \in Volts
  BY TopAssumption
<1> QED
  BY <1>1 DEF Resize

LEMMA TransientType ==
  ASSUME NEW old \in Seq(Volts), NEW tr \in TransientTables(old)
  PROVE  tr \in Seq(Volts)
  BY DEF TransientTables

LEMMA NothingIsPlaying == Unknown.kind = "none" /\ Unknown \notin Message
  BY DEF Unknown, Message

\* One message is left when the transient is out
LEMMA TailOfTwo ==
  ASSUME NEW a \in Message, NEW b \in Message
  PROVE  /\ Len(<<a>>) = 1 /\ Head(<<a>>) = a
         /\ Len(<<a, b>>) = 2 /\ Head(<<a, b>>) = a /\ Tail(<<a, b>>) = <<b>>
         /\ <<a>> \in Seq(Message) /\ <<a, b>> \in Seq(Message)
  OBVIOUS

-----------------------------------------------------------------------------
(* The invariant *)

LEMMA InitTable == Init => TableInv
<1> SUFFICES ASSUME Init PROVE TableInv
  OBVIOUS
<1>1. <<>> \in Seq(Volts) /\ <<>> \in Seq(Message)
  OBVIOUS
<1>2. TypeOK
  BY <1>1 DEF Init, TypeOK, Idle, NoTable, AlarmBits
<1> QED
  BY <1>2 DEF Init, TableInv, ProgramInv, PrevIsPlaying, PlayingInv, Idle

\* The end of an update leaves the table that is playing in prev_tg
LEMMA DeclineType ==
  ASSUME TypeOK, NEW bit \in AlarmBits, Decline(bit)
  PROVE  /\ alarmBits' \subseteq AlarmBits /\ errorscan' \in BOOLEAN /\ told' \in BOOLEAN
         /\ severity' \in {"no", "write", "comm", "busy"}
         /\ update' = Idle
  BY DEF TypeOK, Decline, AlarmBits

LEMMA IdleType ==
  /\ Idle \in [pc : {"idle", "begin", "checking", "sending"}, uni : BOOLEAN,
               table : Tables \cup {NoTable}, todo : Seq(Message)]
  /\ Idle.pc = "idle"
  BY DEF Idle, NoTable

LEMMA CheckKeeps ==
  ASSUME TableInv, NEW t \in Tables, Check(t)
  PROVE  TableInv'
<1> DEFINE old == Resize(prev_tg, Len(t))
<1>1. TypeOK /\ update.pc = "checking" /\ PrevIsPlaying
  BY DEF TableInv, Check
<1>2. t \in Seq(Volts) /\ Len(t) \in Nat /\ old \in Seq(Volts)
  BY <1>1, TableAssumption, ResizedType DEF TypeOK
<1>3. UNCHANGED <<params, unipolar, link, playing, tightened, left>>
  BY DEF Check
<1>4. /\ prev_tg' \in Seq(Volts) /\ apart' \in {"no", "resized", "halfsent", "late"}
      /\ playing # Unknown /\ apart' = "no" => apart = "no" /\ prev_tg' = prev_tg
  BY <1>1, <1>2 DEF Check, Compare, TypeOK
<1>5. PlaysPrev' /\ (~connected' => playing' = Unknown)
  BY <1>1, <1>3, <1>4 DEF PrevIsPlaying, PlaysPrev, TableInv, PlayingInv, link
<1> DEFINE Good == /\ alarmBits' \subseteq AlarmBits
                   /\ errorscan' \in BOOLEAN /\ told' \in BOOLEAN /\ aborted' \in BOOLEAN
                   /\ severity' \in {"no", "write", "comm", "busy"}
                   /\ update' \in [pc : {"idle", "begin", "checking", "sending"}, uni : BOOLEAN,
                                   table : Tables \cup {NoTable}, todo : Seq(Message)]
                   /\ ProgramInv'
<1>6. ASSUME NEW bit \in AlarmBits, Decline(bit), UNCHANGED aborted PROVE Good
  BY <1>1, <1>6, DeclineType, IdleType DEF TypeOK, ProgramInv
<1>7. ASSUME NEW tr, tr = NoTable \/ tr \in Seq(Volts), Accept(tr, t), UNCHANGED aborted
      PROVE  Good
  <2>1. /\ update' = [update EXCEPT !.pc = "sending", !.table = t, !.todo = Program(tr, t)]
        /\ update'.pc = "sending" /\ update'.table = t /\ update'.todo = Program(tr, t)
    BY <1>1, <1>7 DEF Accept, TypeOK
  <2>2. ProgramInv' /\ Program(tr, t) \in Seq(Message)
    <3>1. CASE tr = NoTable
      <4>1. Program(tr, t) = <<[kind |-> "immediate", table |-> t]>>
        BY <3>1 DEF Program
      <4>2. [kind |-> "immediate", table |-> t] \in Message
        BY <1>2 DEF Message
      <4> QED BY <2>1, <4>1, <4>2, TailOfTwo DEF ProgramInv
    <3>2. CASE tr # NoTable
      <4>1. Program(tr, t) = <<[kind |-> "transient", table |-> tr],
                               [kind |-> "target", table |-> t]>>
        BY <3>2 DEF Program
      <4>2. /\ tr \in Seq(Volts) /\ [kind |-> "transient", table |-> tr] \in Message
            /\ [kind |-> "target", table |-> t] \in Message
        BY <1>2, <1>7, <3>2 DEF Message
      <4> QED BY <2>1, <4>1, <4>2, TailOfTwo DEF ProgramInv
    <3> QED BY <3>1, <3>2
  <2>3. alarmBits' \subseteq AlarmBits /\ told' \in BOOLEAN /\ UNCHANGED <<errorscan, severity>>
    BY <1>1, <1>7 DEF Accept, TypeOK, AlarmBits
  <2> QED BY <1>1, <1>7, <2>1, <2>2, <2>3 DEF TypeOK
<1>8. ASSUME Ignore, UNCHANGED aborted PROVE Good
  BY <1>1, <1>8, IdleType DEF Ignore, TypeOK, ProgramInv
<1>9. ASSUME UNCHANGED <<status, update>>, aborted' = TRUE PROVE Good
  BY <1>1, <1>9 DEF status, TypeOK, ProgramInv
<1>12. ASSUME NEW sevr \in {"comm"}, Throw(sevr), UNCHANGED aborted PROVE Good
  BY <1>1, <1>12, IdleType DEF Throw, TypeOK, ProgramInv
<1>10. Good
  <2>1. {"targetTableWrong", "unexplainable", "transientTableWrong"} \subseteq AlarmBits
    BY DEF AlarmBits
  <2>2. \A tr \in TransientTables(old) : tr \in Seq(Volts)
    BY <1>2, TransientType
  <2>3. \/ \E bit \in AlarmBits : Decline(bit) /\ UNCHANGED aborted
        \/ \E tr \in Seq(Volts) \cup {NoTable} : Accept(tr, t) /\ UNCHANGED aborted
        \/ Ignore /\ UNCHANGED aborted
        \/ Throw("comm") /\ UNCHANGED aborted
        \/ UNCHANGED <<status, update>> /\ aborted' = TRUE
    BY <2>1, <2>2 DEF Check, Compare
  <2> QED BY <1>6, <1>7, <1>8, <1>9, <1>12, <2>3
<1>11. TypeOK'
  BY <1>1, <1>3, <1>4, <1>10 DEF TypeOK, params, link
<1> QED
  BY <1>5, <1>10, <1>11 DEF TableInv, PrevIsPlaying, PlayingInv, PlaysPrev

\* The two shapes of what is left, with the messages named
LEMMA WhatIsLeft ==
  ASSUME TableInv, update.pc = "sending"
  PROVE  \/ \E m \in Message : /\ update.todo = <<m>> /\ m.table = update.table
                              /\ m.kind # "transient"
         \/ \E a, m \in Message : /\ update.todo = <<a, m>> /\ a.kind = "transient"
                                 /\ m = [kind |-> "target", table |-> update.table]
<1>1. update.todo \in Seq(Message) /\ ProgramInv
  BY DEF TableInv, TypeOK
<1>2. CASE \E k \in {"immediate", "target"} :
             update.todo = <<[kind |-> k, table |-> update.table]>>
  <2>1. PICK k \in {"immediate", "target"} :
          update.todo = <<[kind |-> k, table |-> update.table]>>
    BY <1>2
  <2> DEFINE m == [kind |-> k, table |-> update.table]
  <2>2. Len(update.todo) = 1 /\ update.todo[1] = m
    BY <2>1
  <2>3. m \in Message
    BY <1>1, <2>2
  <2>4. m.table = update.table /\ m.kind # "transient"
    BY <2>1
  <2> QED BY <2>1, <2>3, <2>4
<1>3. CASE \E tr \in Seq(Volts) :
             update.todo = <<[kind |-> "transient", table |-> tr],
                             [kind |-> "target", table |-> update.table]>>
  <2>1. PICK tr \in Seq(Volts) :
          update.todo = <<[kind |-> "transient", table |-> tr],
                          [kind |-> "target", table |-> update.table]>>
    BY <1>3
  <2> DEFINE a == [kind |-> "transient", table |-> tr]
             m == [kind |-> "target", table |-> update.table]
  <2>2. Len(update.todo) = 2 /\ update.todo[1] = a /\ update.todo[2] = m
    BY <2>1
  <2>3. a \in Message /\ m \in Message
    BY <1>1, <2>2
  <2> QED BY <2>1, <2>3
<1> QED
  BY <1>1, <1>2, <1>3 DEF ProgramInv

\* One message goes out, or is passed over without a connection
LEMMA ProceedKeeps ==
  ASSUME TableInv, update.pc = "sending", Proceed,
         UNCHANGED <<params, unipolar, aborted, link, left>>, tightened' \in BOOLEAN,
         apart' \in {"no", "resized", "halfsent", "late"},
         playing' = Unknown \/ (connected /\ playing' = Head(update.todo))
  PROVE  /\ TableInv'
         /\ update' = Idle => severity' = "no" /\ playing' \in {Unknown} \cup [
                 kind : {"immediate", "target"}, table : {update.table}]
<1>1. TypeOK
  BY DEF TableInv
<1>2. CASE \E m \in Message : /\ update.todo = <<m>> /\ m.table = update.table
                             /\ m.kind # "transient"
  <2>1. PICK m \in Message : /\ update.todo = <<m>> /\ m.table = update.table
                            /\ m.kind # "transient"
    BY <1>2
  <2>2. Len(update.todo) = 1 /\ Head(update.todo) = m
    BY <2>1
  <2>3. Finish
    BY <2>2 DEF Proceed
  <2>4. m.table \in Seq(Volts) /\ m.kind \in {"immediate", "target"}
    BY <2>1 DEF Message
  <2>5. /\ update' = Idle /\ update'.pc = "idle" /\ prev_tg' = m.table /\ severity' = "no"
        /\ errorscan' = TRUE /\ UNCHANGED <<alarmBits, told>> /\ playing' \in {Unknown, m}
    BY <2>1, <2>2, <2>3, IdleType DEF Finish
  <2>6. TypeOK'
    BY <1>1, <2>4, <2>5, IdleType DEF TypeOK, params, link
  <2>8. ~connected' => playing' = Unknown
    BY DEF link
  <2>7. m \in [kind : {"immediate", "target"}, table : {update.table}]
    BY <2>1, <2>4 DEF Message
  <2> QED BY <2>1, <2>5, <2>6, <2>7, <2>8 DEF TableInv, ProgramInv, PrevIsPlaying, PlayingInv
<1>3. CASE \E a, m \in Message : /\ update.todo = <<a, m>>
                                /\ m = [kind |-> "target", table |-> update.table]
  <2>1. PICK a \in Message, m \in Message :
          update.todo = <<a, m>> /\ m = [kind |-> "target", table |-> update.table]
    BY <1>3
  <2>2. /\ Len(update.todo) = 2 /\ Head(update.todo) = a /\ Tail(update.todo) = <<m>>
        /\ <<m>> \in Seq(Message)
    BY <2>1, TailOfTwo
  <2>3. update' = [update EXCEPT !.todo = <<m>>] /\ UNCHANGED <<prev_tg, status>>
    <3>1. Len(update.todo) # 1
      BY <2>2
    <3>2. update' = [update EXCEPT !.todo = Tail(update.todo)] /\ UNCHANGED <<prev_tg, status>>
      BY <3>1, Zenon DEF Proceed
    <3> QED BY <2>2, <3>2, Zenon
  <2>4. /\ update'.pc = "sending" /\ update'.table = update.table /\ update'.todo = <<m>>
        /\ update' # Idle
    BY <1>1, <2>3, IdleType DEF TypeOK
  <2>5. TypeOK'
    BY <1>1, <2>1, <2>2, <2>3 DEF TypeOK, params, link, status
  <2>6. Head(update'.todo).kind = "target" /\ (~connected' => playing' = Unknown)
    BY <2>1, <2>4, TailOfTwo DEF link
  <2> QED BY <2>1, <2>4, <2>5, <2>6 DEF TableInv, ProgramInv, PrevIsPlaying, PlayingInv
<1> QED
  BY <1>2, <1>3, WhatIsLeft

LEMMA SendKeeps ==
  ASSUME TableInv, Send
  PROVE  TableInv' /\ ReportsItsEnd
<1>1. TypeOK /\ update.pc = "sending" /\ UNCHANGED <<params, unipolar, aborted>>
  BY DEF TableInv, Send
<1>2. ASSUME ~connected, Proceed, UNCHANGED <<link, history>>
      PROVE  TableInv' /\ ReportsItsEnd
  <2>1. /\ tightened' \in BOOLEAN /\ apart' \in {"no", "resized", "halfsent", "late"}
        /\ left' = left /\ playing' = Unknown
    BY <1>1, <1>2 DEF TypeOK, history, TableInv, PlayingInv
  <2> QED BY <1>1, <1>2, <2>1, ProceedKeeps DEF ReportsItsEnd
<1>3. ASSUME connected, NEW sevr \in {"comm", "busy"}, Refuse(sevr), queued' \in BOOLEAN,
             UNCHANGED connected, left' \in {left, Head(update.todo), Unknown},
             sevr = "comm" => MayFail, sevr = "busy" => queued
      PROVE  TableInv' /\ ReportsItsEnd
  <2>1. /\ update' = Idle /\ update'.pc = "idle" /\ severity' = sevr
        /\ UNCHANGED <<prev_tg, playing, tightened, alarmBits, errorscan, told>>
        /\ apart' = IF Head(update.todo).kind = "target" THEN "halfsent" ELSE apart
    BY <1>3, IdleType DEF Refuse, Throw
  <2>2. left' \in Message \cup {Unknown}
    BY <1>1, <1>3, WhatIsLeft, TailOfTwo DEF TypeOK
  <2>3. TypeOK'
    BY <1>1, <1>3, <2>1, <2>2, IdleType DEF TypeOK, params
  <2>4. PlaysPrev'
    BY <1>1, <2>1 DEF TableInv, PlayingInv, PlaysPrev
  <2>5. ReportsItsEnd
    BY <1>3, <2>1 DEF ReportsItsEnd
  <2> QED BY <1>3, <2>1, <2>3, <2>4, <2>5
          DEF TableInv, ProgramInv, PrevIsPlaying, PlayingInv, PlaysPrev
<1>4. ASSUME connected, Proceed, playing' = Head(update.todo), tightened' = FALSE, apart' = "no",
             UNCHANGED <<link, left>>
      PROVE  TableInv' /\ ReportsItsEnd
  <2>1. Head(update.todo) # Unknown
    BY <1>1, WhatIsLeft, TailOfTwo, NothingIsPlaying
  <2>2. /\ TableInv'
        /\ update' = Idle => severity' = "no" /\ playing' \in {Unknown} \cup [
               kind : {"immediate", "target"}, table : {update.table}]
    BY <1>1, <1>4, ProceedKeeps
  <2> QED BY <1>4, <2>1, <2>2 DEF ReportsItsEnd
<1> QED
  BY <1>1, <1>2, <1>3, <1>4 DEF Send, TypeOK, link, Refuse

\* Check reports what it did not accept
LEMMA CheckReports ==
  ASSUME TableInv, NEW t \in Tables, Check(t)
  PROVE  ReportsItsEnd
<1>1. playing' = playing
  BY DEF Check
<1>2. ASSUME NEW bit, Decline(bit) PROVE ReportsItsEnd
  BY <1>1, <1>2 DEF Decline, ReportsItsEnd
<1>3. ASSUME NEW tr, Accept(tr, t) PROVE update' # Idle
  <2>1. update'.pc = "sending"
    BY <1>3 DEF Accept, TableInv, TypeOK
  <2> QED BY <2>1, IdleType
<1>4. ASSUME UNCHANGED <<status, update>> PROVE update' # Idle
  BY <1>4, IdleType DEF Check
<1>5. ASSUME Ignore, curmode = "man" PROVE ReportsItsEnd
  BY <1>5 DEF Ignore, ReportsItsEnd
<1>7. ASSUME MayFail, Throw("comm") PROVE ReportsItsEnd
  BY <1>1, <1>7 DEF Throw, ReportsItsEnd
<1>6. \/ \E bit : Decline(bit)
      \/ \E tr : Accept(tr, t)
      \/ UNCHANGED <<status, update>>
      \/ Ignore /\ curmode = "man"
      \/ MayFail /\ Throw("comm")
  BY DEF Check, Compare
<1> QED
  BY <1>2, <1>3, <1>4, <1>5, <1>6, <1>7 DEF ReportsItsEnd

\* The steps of everything else leave an update that is being checked or sent
LEMMA OthersKeep ==
  ASSUME TableInv, SetParameter \/ Begin \/ ReadPolarity \/ ReadAlarms \/ FlushSend
                   \/ ConnUp \/ ConnDown
                   \/ (\E uni \in {"unknown", "yes", "no"} : RegistersArrive(uni))
  PROVE  TableInv' /\ ReportsItsEnd
<1>1. TypeOK /\ ProgramInv /\ PrevIsPlaying /\ PlayingInv
  BY DEF TableInv
<1>2. ASSUME UNCHANGED <<prev_tg, update>>, playing' = Unknown \/ apart' # "no"
                                             \/ UNCHANGED <<playing, apart>>,
             connected' \/ playing' = Unknown, TypeOK'
      PROVE  TableInv' /\ ReportsItsEnd
  BY <1>1, <1>2, IdleType DEF TableInv, ProgramInv, PrevIsPlaying, PlayingInv, PlaysPrev,
                              ReportsItsEnd
<1>11. ASSUME UNCHANGED <<prev_tg, update, playing, apart, connected>>, TypeOK'
       PROVE  TableInv' /\ ReportsItsEnd
  BY <1>1, <1>2, <1>11 DEF PlayingInv
<1>3. CASE SetParameter
  <2>1. TypeOK' /\ UNCHANGED <<prev_tg, update, playing, apart, connected>>
    <3>1. ASSUME NEW m \in Modes, SetMode(m)
          PROVE  TypeOK' /\ UNCHANGED <<prev_tg, update, playing, apart, connected>>
      BY <1>1, <3>1 DEF SetMode, TypeOK, status, link, history
    <3>2. ASSUME NEW d1 \in Deltas1, NEW d2 \in Deltas2, SetMaxDeltas(d1, d2)
          PROVE  TypeOK' /\ UNCHANGED <<prev_tg, update, playing, apart, connected>>
      <4>1. tightened' \in BOOLEAN
        BY <1>1, <3>2 DEF SetMaxDeltas, TypeOK
      <4> QED BY <1>1, <3>2, <4>1 DEF SetMaxDeltas, TypeOK, status, link
    <3>3. ASSUME NEW q \in StartPoints, SetStartPoint(q)
          PROVE  TypeOK' /\ UNCHANGED <<prev_tg, update, playing, apart, connected>>
      BY <1>1, <3>3 DEF SetStartPoint, TypeOK, status, link, history
    <3> QED BY <1>3, <3>1, <3>2, <3>3 DEF SetParameter
  <2> QED BY <1>11, <2>1
<1>4. CASE Begin
  <2>1. TypeOK'
    BY <1>1, <1>4, IdleType DEF Begin, TypeOK, params, link, history
  <2>2. /\ update'.pc = "begin" /\ update.pc = "idle"
        /\ UNCHANGED <<prev_tg, playing, apart, connected>>
    BY <1>4 DEF Begin, Idle, history, link
  <2> QED BY <1>1, <2>1, <2>2 DEF TableInv, ProgramInv, PrevIsPlaying, PlayingInv, ReportsItsEnd
<1>5. CASE ReadPolarity
  <2>1. update.pc = "begin" /\ UNCHANGED <<params, prev_tg, unipolar, link, aborted, history>>
    BY <1>5 DEF ReadPolarity
  <2>2. CASE Decline("cantSend")
    <3>1. TypeOK'
      BY <1>1, <2>1, <2>2, DeclineType, IdleType
      DEF TypeOK, params, link, history, AlarmBits
    <3> QED BY <1>1, <2>1, <2>2, <3>1, IdleType
            DEF Decline, TableInv, ProgramInv, PrevIsPlaying, PlayingInv, ReportsItsEnd, history,
                link
  <2>3. CASE /\ update' = [update EXCEPT !.pc = "checking", !.uni = (unipolar = "yes")]
             /\ UNCHANGED status
    <3>1. update'.pc = "checking"
      BY <1>1, <2>3 DEF TypeOK
    <3>2. TypeOK'
      BY <1>1, <2>1, <2>3 DEF TypeOK, params, link, history, status
    <3> QED BY <1>1, <2>1, <3>1, <3>2
            DEF TableInv, ProgramInv, PrevIsPlaying, PlayingInv, ReportsItsEnd, history, link
  <2> QED BY <1>5, <2>2, <2>3 DEF ReadPolarity
<1>6. CASE ReadAlarms
  <2>1. /\ errorscan' \in BOOLEAN /\ told' \in BOOLEAN
        /\ UNCHANGED <<curmode, max_delta1, max_delta2, start_point, prev_tg, alarmBits, severity,
                       unipolar, update, connected, queued, aborted, playing, tightened, left,
                       apart>>
    BY <1>6 DEF ReadAlarms, params, link, history
  <2>2. TypeOK'
    BY <1>1, <2>1 DEF TypeOK
  <2> QED BY <1>11, <2>1, <2>2
<1>7. CASE FlushSend
  <2>3. UNCHANGED <<params, prev_tg, status, unipolar, update, connected, aborted, tightened>>
    BY <1>7, Zenon DEF FlushSend
  <2>4. /\ queued' = FALSE \/ queued' = queued
        /\ left' = Unknown /\ connected
        /\ playing' = playing \/ playing' = left
        /\ apart' = apart \/ apart' = "late"
    BY <1>7, Zenon DEF FlushSend
  <2>5. /\ queued' \in BOOLEAN
        /\ left' \in Message \cup {Unknown} /\ playing' \in Message \cup {Unknown}
        /\ apart' \in {"no", "resized", "halfsent", "late"}
    BY <1>1, <2>4 DEF TypeOK
  <2>1. TypeOK' /\ UNCHANGED <<prev_tg, update, connected>> /\ connected
    BY <1>1, <2>3, <2>4, <2>5 DEF TypeOK, params, status
  <2>2. UNCHANGED <<playing, apart>> \/ apart' # "no"
    <3>1. UNCHANGED <<playing, apart>> \/ apart' = "late"
      BY <1>7, Zenon DEF FlushSend
    <3> QED BY <3>1
  <2> QED BY <1>2, <2>1, <2>2
<1>8. CASE ConnUp
  <2>1. TypeOK' /\ UNCHANGED <<prev_tg, update, playing, apart>> /\ connected'
    BY <1>1, <1>8 DEF ConnUp, TypeOK, params, status, history
  <2> QED BY <1>2, <2>1
<1>9. CASE ConnDown
  <2>1. TypeOK' /\ UNCHANGED <<prev_tg, update>> /\ playing' = Unknown
    BY <1>1, <1>9 DEF ConnDown, TypeOK, params, status
  <2> QED BY <1>2, <2>1
<1>10. CASE \E uni \in {"unknown", "yes", "no"} : RegistersArrive(uni)
  <2>1. TypeOK' /\ UNCHANGED <<prev_tg, update, playing, apart, connected>>
    BY <1>1, <1>10 DEF RegistersArrive, TypeOK, params, link, status, history
  <2> QED BY <1>11, <2>1
<1> QED
  BY <1>3, <1>4, <1>5, <1>6, <1>7, <1>8, <1>9, <1>10

LEMMA StepKeeps == TableInv /\ [Next]_vars => TableInv' /\ [ReportsItsEnd]_vars
<1> SUFFICES ASSUME TableInv, [Next]_vars PROVE TableInv' /\ [ReportsItsEnd]_vars
  OBVIOUS
<1>1. CASE UNCHANGED vars
  BY <1>1 DEF vars, params, status, link, history, TableInv, TypeOK, ProgramInv, PrevIsPlaying,
                 PlayingInv, PlaysPrev
<1>2. CASE UpdateTarget
  BY <1>2, CheckKeeps, CheckReports, SendKeeps, OthersKeep DEF UpdateTarget
<1>3. CASE Next /\ ~UpdateTarget
  BY <1>3, OthersKeep DEF Next
<1> QED BY <1>1, <1>2, <1>3

LEMMA TableInvariance == Spec => []TableInv
<1>1. TableInv /\ [Next]_vars => TableInv'
  BY StepKeeps
<1> QED BY <1>1, InitTable, PTL DEF Spec

-----------------------------------------------------------------------------
(* The ramps *)

\* What check_ramp_function() found of the tables that are waiting to be sent
ProgramJoins ==
  LET first == Head(update.todo)
      J(v1, v2) == Joins(v1, v2, max_delta1, max_delta2)
  IN /\ update.table \in Tables /\ J(update.table, update.table)
     /\ \A i \in 1 .. Len(update.todo) : InRange(update.todo[i].table, update.uni)
     /\ first.kind = "immediate" /\ curmode = "auto" => J(prev_tg, update.table)
     /\ first.kind = "transient" =>
          /\ J(first.table, update.table)
          /\ start_point \in 1 .. Len(prev_tg) =>
               first.table[1] = prev_tg[1] /\ first.table[2] = prev_tg[2]
     /\ first.kind = "target" /\ playing # Unknown => J(playing.table, update.table)

\* A table that is played over and over joins its own beginning, with the deltas
\* it was checked with and with larger ones.
PlayingJoins ==
  playing # Unknown /\ playing.kind # "transient" /\ apart = "no" =>
    /\ Len(playing.table) >= 2
    /\ ~tightened => Joins(playing.table, playing.table, max_delta1, max_delta2)

RampInv == PlayingJoins /\ (update.pc = "sending" => ProgramJoins)

LEMMA Differences ==
  ASSUME NEW v1 \in Seq(Volts), NEW a \in Volts, NEW b \in Volts, NEW i \in 1 .. Len(v1)
  PROVE  LET w == v1 \o <<a, b>>
         IN /\ Abs(w[i+1] - w[i]) \in Int
            /\ Abs((w[i+1] - w[i]) - (w[i+2] - w[i+1])) \in Int
<1> DEFINE w == v1 \o <<a, b>>
<1>1. w[i] \in Int /\ w[i+1] \in Int /\ w[i+2] \in Int
  <2>1. <<a, b>> \in Seq(Volts) /\ Len(<<a, b>>) = 2
    OBVIOUS
  <2>2. w \in Seq(Volts) /\ Len(w) = Len(v1) + 2 /\ Len(v1) \in Nat
    BY <2>1
  <2>3. i \in 1 .. Len(w) /\ i+1 \in 1 .. Len(w) /\ i+2 \in 1 .. Len(w)
    BY <2>2
  <2> HIDE DEF w
  <2>4. w[i] \in Volts /\ w[i+1] \in Volts /\ w[i+2] \in Volts
    BY <2>2, <2>3
  <2> QED BY <2>4, TopAssumption
<1> HIDE DEF w
<1>2. \A x \in Int : Abs(x) \in Int
  BY DEF Abs
<1>3. w[i+1] - w[i] \in Int /\ (w[i+1] - w[i]) - (w[i+2] - w[i+1]) \in Int
  BY <1>1
<1> QED BY <1>2, <1>3 DEF w

\* A table passes the check only if it joins the other one and is in range.
LEMMA CheckedJoins ==
  ASSUME NEW v1 \in Seq(Volts), NEW v2 \in Seq(Volts), Len(v2) >= 2, NEW uni,
         NEW d1 \in Nat, NEW d2 \in Nat, CheckRamp(v1, v2, uni, d1, d2) = "ok"
  PROVE  Joins(v1, v2, d1, d2) /\ InRange(v1, uni)
<1> DEFINE w == v1 \o <<v2[1], v2[2]>>
           Bad(i) == \/ OutOfRange(w[i], uni) \/ Abs(w[i+1] - w[i]) > d1
                     \/ Abs((w[i+1] - w[i]) - (w[i+2] - w[i+1])) > d2
<1>1. \A i \in 1 .. Len(v1) : ~Bad(i)
  <2> SUFFICES ASSUME ~ \A i \in 1 .. Len(v1) : ~Bad(i) PROVE FALSE
    OBVIOUS
  <2>1. CheckRamp(v1, v2, uni, d1, d2) \in {"gap", "wrong"}
    BY Zenon DEF CheckRamp
  <2> QED BY <2>1
<1>2. v2[1] \in Volts /\ v2[2] \in Volts
  OBVIOUS
<1>3. ASSUME NEW i \in 1 .. Len(v1)
      PROVE  /\ Abs(w[i+1] - w[i]) <= d1
             /\ Abs((w[i+1] - w[i]) - (w[i+2] - w[i+1])) <= d2
  <2>1. /\ Abs(w[i+1] - w[i]) \in Int
        /\ Abs((w[i+1] - w[i]) - (w[i+2] - w[i+1])) \in Int
    BY <1>2, Differences
  <2>2. ~(Abs(w[i+1] - w[i]) > d1) /\ ~(Abs((w[i+1] - w[i]) - (w[i+2] - w[i+1])) > d2)
    BY <1>1
  <2> HIDE DEF w
  <2> QED BY <2>1, <2>2
<1>4. \A i \in 1 .. Len(v1) : w[i] = v1[i]
  OBVIOUS
<1>5. DOMAIN v1 = 1 .. Len(v1)
  OBVIOUS
<1>6. Joins(v1, v2, d1, d2)
  BY <1>3 DEF Joins
<1>7. InRange(v1, uni)
  BY <1>1, <1>4, <1>5 DEF InRange
<1> QED BY <1>6, <1>7

\* Larger deltas allow what smaller ones do, and the beginning of the second table
\* is all that counts of it.
LEMMA JoinsMore ==
  ASSUME NEW v1 \in Seq(Volts), NEW v2 \in Seq(Volts), Len(v2) >= 2,
         NEW d1 \in Nat, NEW d2 \in Nat, NEW e1 \in Nat, NEW e2 \in Nat,
         d1 <= e1, d2 <= e2, Joins(v1, v2, d1, d2)
  PROVE  Joins(v1, v2, e1, e2)
<1> DEFINE w == v1 \o <<v2[1], v2[2]>>
<1>1. v2[1] \in Volts /\ v2[2] \in Volts
  OBVIOUS
<1>2. ASSUME NEW i \in 1 .. Len(v1)
      PROVE  /\ Abs(w[i+1] - w[i]) <= e1
             /\ Abs((w[i+1] - w[i]) - (w[i+2] - w[i+1])) <= e2
  <2>1. /\ Abs(w[i+1] - w[i]) \in Int
        /\ Abs((w[i+1] - w[i]) - (w[i+2] - w[i+1])) \in Int
    BY <1>1, Differences
  <2>2. /\ Abs(w[i+1] - w[i]) <= d1
        /\ Abs((w[i+1] - w[i]) - (w[i+2] - w[i+1])) <= d2
    BY DEF Joins
  <2> HIDE DEF w
  <2> QED BY <2>1, <2>2
<1> QED BY <1>2 DEF Joins

LEMMA JoinsPrefix ==
  ASSUME NEW v1, NEW v2, NEW u2, NEW d1, NEW d2, v2[1] = u2[1], v2[2] = u2[2],
         Joins(v1, v2, d1, d2)
  PROVE  Joins(v1, u2, d1, d2)
  BY DEF Joins

LEMMA InitRamps == Init => RampInv
  BY DEF Init, RampInv, PlayingJoins, Idle

\* What Check() lets pass
LEMMA CheckJoins ==
  ASSUME TableInv, RampInv, NEW t \in Tables, Check(t)
  PROVE  RampInv'
<1> DEFINE old == Resize(prev_tg, Len(t))
           Checked(v1) == CheckRamp(v1, t, update.uni, max_delta1, max_delta2)
           J(v1) == Joins(v1, t, max_delta1, max_delta2)
<1>1. /\ TypeOK /\ update.pc = "checking" /\ PrevIsPlaying /\ PlayingJoins
      /\ UNCHANGED <<curmode, max_delta1, max_delta2, start_point, tightened>>
  BY DEF TableInv, RampInv, Check, params
<1>2. t \in Seq(Volts) /\ Len(t) \in Nat /\ Len(t) >= 2 /\ old \in Seq(Volts) /\ Len(old) = Len(t)
  <2>1. prev_tg \in Seq(Volts)
    BY <1>1 DEF TypeOK
  <2>2. t \in Seq(Volts) /\ Len(t) \in Nat /\ Len(t) >= 2
    BY TableAssumption
  <2> QED BY <2>1, <2>2, ResizedType
<1>3. playing' = playing /\ (update'.pc = "sending" => prev_tg' = old)
  <2>1. playing' = playing /\ (Compare(t) \/ Throw("comm"))
    BY DEF Check
  <2>2. Compare(t) => prev_tg' = old
    BY DEF Compare
  <2>3. Throw("comm") => update' = Idle
    BY DEF Throw
  <2>4. Idle.pc # "sending"
    BY IdleType
  <2> QED BY <2>1, <2>2, <2>3, <2>4
<1>4. playing # Unknown /\ apart' = "no" => apart = "no"
  BY DEF Check, Compare
<1>5. PlayingJoins'
  BY <1>1, <1>3, <1>4 DEF PlayingJoins
<1>6. max_delta1 \in Nat /\ max_delta2 \in Nat
  BY <1>1, DeltaAssumption DEF TypeOK
<1>7. ASSUME NEW v1 \in Seq(Volts), Checked(v1) = "ok" PROVE J(v1) /\ InRange(v1, update.uni)
  BY <1>2, <1>6, <1>7, CheckedJoins
<1>8. ASSUME Checked(t) = "ok", curmode = "imm" \/ (curmode = "auto" /\ Checked(old) = "ok"),
             Accept(NoTable, t)
      PROVE  ProgramJoins'
  <2>1. J(t) /\ InRange(t, update.uni) /\ (curmode = "auto" => J(old))
    BY <1>2, <1>7, <1>8
  <2> DEFINE m == [kind |-> "immediate", table |-> t]
  <2>2. update'.table = t /\ update'.todo = <<m>> /\ update'.uni = update.uni
    BY <1>1, <1>8 DEF Accept, Program, TypeOK
  <2>3. /\ Head(update'.todo).kind = "immediate"
        /\ \A i \in 1 .. Len(update'.todo) : update'.todo[i].table = t
    BY <2>2
  <2>4. prev_tg' = old
    BY <1>1, <1>3, <1>8 DEF Accept, TypeOK
  <2> QED BY <1>1, <1>3, <2>1, <2>2, <2>3, <2>4 DEF ProgramJoins
<1>9. ASSUME NEW tr \in TransientTables(old), Checked(t) = "ok", Checked(tr) = "ok", Accept(tr, t)
      PROVE  ProgramJoins'
  <2>1. tr \in Seq(Volts) /\ Len(tr) = Len(t) /\ tr # NoTable
    BY <1>2 DEF TransientTables, NoTable
  <2>2. J(t) /\ InRange(t, update.uni) /\ J(tr) /\ InRange(tr, update.uni)
    BY <1>2, <1>7, <1>9, <2>1
  <2>3. start_point \in 1 .. Len(old) => tr[1] = old[1] /\ tr[2] = old[2]
    BY <1>2, <2>1 DEF TransientTables
  <2> DEFINE a == [kind |-> "transient", table |-> tr]
             m == [kind |-> "target", table |-> t]
  <2>4. update'.table = t /\ update'.todo = <<a, m>> /\ update'.uni = update.uni
    BY <1>1, <1>9, <2>1 DEF Accept, Program, TypeOK
  <2>5. /\ Head(update'.todo) = a /\ a.kind = "transient" /\ a.table = tr
        /\ \A i \in 1 .. Len(update'.todo) : update'.todo[i].table \in {tr, t}
    BY <2>4
  <2>6. prev_tg' = old
    BY <1>1, <1>3, <1>9 DEF Accept, TypeOK
  <2> QED BY <1>1, <1>3, <2>2, <2>3, <2>4, <2>5, <2>6 DEF ProgramJoins
<1>10. ASSUME update' = Idle \/ update' = update PROVE update'.pc # "sending"
  BY <1>1, <1>10, IdleType
<1>11. \/ update' = Idle \/ update' = update
       \/ /\ Checked(t) = "ok" /\ (curmode = "imm" \/ (curmode = "auto" /\ Checked(old) = "ok"))
          /\ Accept(NoTable, t)
       \/ /\ Checked(t) = "ok"
          /\ \E tr \in TransientTables(old) : Checked(tr) = "ok" /\ Accept(tr, t)
  <2>1. Compare(t) \/ Throw("comm")
    BY DEF Check
  <2>2. CASE Throw("comm")
    BY <2>2 DEF Throw
  <2>3. CASE Compare(t)
    <3>1. \/ Throw("comm") \/ Ignore \/ UNCHANGED update
          \/ \E bit \in AlarmBits : Decline(bit)
          \/ /\ Checked(t) = "ok" /\ (curmode = "imm" \/ (curmode = "auto" /\ Checked(old) = "ok"))
             /\ Accept(NoTable, t)
          \/ /\ Checked(t) = "ok"
             /\ \E tr \in TransientTables(old) : Checked(tr) = "ok" /\ Accept(tr, t)
      BY <2>3 DEF Compare, AlarmBits
    <3> QED BY <3>1 DEF Throw, Ignore, Decline
  <2> QED BY <2>1, <2>2, <2>3
<1> QED
  BY <1>5, <1>8, <1>9, <1>10, <1>11 DEF RampInv

\* A message goes out, and joins the one before.
LEMMA SendJoins ==
  ASSUME TableInv, RampInv, Send
  PROVE  RampInv' /\ JoinsWhatPlays
<1> DEFINE J(v1, v2) == Joins(v1, v2, max_delta1, max_delta2)
<1>1. /\ TypeOK /\ update.pc = "sending" /\ ProgramJoins /\ PlayingJoins /\ PlayingInv
      /\ UNCHANGED <<curmode, max_delta1, max_delta2, start_point>>
  BY DEF TableInv, RampInv, Send, params
<1>2. update.table \in Seq(Volts) /\ Len(update.table) >= 2
  BY <1>1, TableAssumption DEF ProgramJoins
<1>3. ASSUME UNCHANGED <<playing, tightened>>, apart' \in {apart, "halfsent"}, update' = Idle
      PROVE  RampInv' /\ JoinsWhatPlays
  BY <1>1, <1>3, IdleType DEF RampInv, PlayingJoins, JoinsWhatPlays
<1>4. ASSUME Proceed, playing' = Unknown \/ (playing' = Head(update.todo) /\ tightened' = FALSE)
      PROVE  RampInv' /\ JoinsWhatPlays
  <2>1. CASE \E m \in Message : /\ update.todo = <<m>> /\ m.table = update.table
                               /\ m.kind # "transient"
    <3>1. PICK m \in Message : /\ update.todo = <<m>> /\ m.table = update.table
                              /\ m.kind # "transient"
      BY <2>1
    <3>2. /\ Len(update.todo) = 1 /\ Head(update.todo) = m /\ update.todo[1] = m
          /\ update' = Idle /\ m.kind \in {"immediate", "target"}
      BY <1>4, <3>1 DEF Proceed, Finish, Message
    <3>3. InRange(m.table, update.uni) /\ J(m.table, m.table) /\ Len(m.table) >= 2
      BY <1>1, <1>2, <3>1, <3>2 DEF ProgramJoins
    <3>4. RampInv'
      BY <1>1, <1>4, <3>2, <3>3, IdleType DEF RampInv, PlayingJoins
    <3>5. curmode = "auto" /\ playing # Unknown /\ apart = "no" => J(playing.table, m.table)
      <4>1. CASE m.kind = "immediate"
        <5>1. Head(update.todo).kind # "target"
          BY <3>2, <4>1
        <5> QED BY <1>1, <3>1, <3>2, <4>1, <5>1 DEF ProgramJoins, PlayingInv, PlaysPrev
      <4>2. CASE m.kind = "target"
        BY <1>1, <3>1, <3>2, <4>2 DEF ProgramJoins
      <4> QED BY <3>2, <4>1, <4>2
    <3> QED BY <1>4, <3>2, <3>3, <3>4, <3>5 DEF JoinsWhatPlays
  <2>2. CASE \E a, m \in Message : /\ update.todo = <<a, m>> /\ a.kind = "transient"
                                  /\ m = [kind |-> "target", table |-> update.table]
    <3>1. PICK a \in Message, m \in Message :
            /\ update.todo = <<a, m>> /\ a.kind = "transient"
            /\ m = [kind |-> "target", table |-> update.table]
      BY <2>2
    <3>2. /\ Len(update.todo) = 2 /\ Head(update.todo) = a /\ Tail(update.todo) = <<m>>
          /\ update.todo[1] = a /\ update.todo[2] = m /\ m.kind = "target"
          /\ m.table = update.table
      BY <3>1
    <3>3. update' = [update EXCEPT !.todo = <<m>>] /\ UNCHANGED <<prev_tg, status>>
      <4>1. Len(update.todo) # 1
        BY <3>2
      <4>2. update' = [update EXCEPT !.todo = Tail(update.todo)] /\ UNCHANGED <<prev_tg, status>>
        BY <1>4, <4>1, Zenon DEF Proceed
      <4> QED BY <3>2, <4>2, Zenon
    <3>4. /\ update'.pc = "sending" /\ update'.table = update.table /\ update'.uni = update.uni
          /\ update'.todo = <<m>> /\ Len(update'.todo) = 1 /\ update'.todo[1] = m
          /\ Head(update'.todo) = m
      BY <1>1, <3>3 DEF TypeOK
    <3>5. /\ InRange(a.table, update.uni) /\ InRange(m.table, update.uni)
          /\ J(a.table, update.table) /\ J(update.table, update.table)
      BY <1>1, <3>1, <3>2 DEF ProgramJoins
    <3>6. PlayingJoins'
      BY <1>4, <3>1, <3>2 DEF PlayingJoins
    <3>7. ProgramJoins'
      BY <1>1, <1>4, <3>2, <3>4, <3>5 DEF ProgramJoins
    <3>8. ASSUME ~tightened, start_point \in 1 .. Len(prev_tg), playing # Unknown, apart = "no"
          PROVE  J(playing.table, a.table)
      <4>1. /\ playing.kind # "transient" /\ playing.table = prev_tg
            /\ a.table[1] = prev_tg[1] /\ a.table[2] = prev_tg[2]
        BY <1>1, <3>1, <3>2, <3>8 DEF ProgramJoins, PlayingInv, PlaysPrev
      <4>2. J(playing.table, playing.table)
        BY <1>1, <3>8, <4>1 DEF PlayingJoins
      <4> QED BY <4>1, <4>2, JoinsPrefix
    <3>9. JoinsWhatPlays
      BY <1>4, <3>2, <3>5, <3>8 DEF JoinsWhatPlays
    <3> QED BY <3>6, <3>7, <3>9 DEF RampInv
  <2> QED BY <1>1, <2>1, <2>2, WhatIsLeft
<1>5. ASSUME ~connected, Proceed, UNCHANGED history PROVE RampInv' /\ JoinsWhatPlays
  <2>1. playing' = Unknown
    BY <1>1, <1>5 DEF PlayingInv, history
  <2> QED BY <1>4, <1>5, <2>1
<1> QED
  BY <1>3, <1>4, <1>5 DEF Send, Refuse, Throw

LEMMA StepJoins == TableInv /\ RampInv /\ [Next]_vars => RampInv' /\ [JoinsWhatPlays]_vars
<1> SUFFICES ASSUME TableInv, RampInv, [Next]_vars PROVE RampInv' /\ [JoinsWhatPlays]_vars
  OBVIOUS
<1>1. TypeOK /\ PlayingJoins
  BY DEF TableInv, RampInv
<1>2. ASSUME NEW t \in Tables, Check(t) PROVE RampInv' /\ JoinsWhatPlays
  <2>1. update.pc = "checking"
    BY <1>2 DEF Check
  <2> QED BY <1>2, <2>1, CheckJoins DEF JoinsWhatPlays
<1>3. CASE Send
  BY <1>3, SendJoins
<1>4. ASSUME NEW d1 \in Deltas1, NEW d2 \in Deltas2, SetMaxDeltas(d1, d2)
      PROVE  RampInv' /\ JoinsWhatPlays
  <2>1. /\ update.pc # "sending" /\ UNCHANGED <<update, playing>>
        /\ max_delta1' = d1 /\ max_delta2' = d2
        /\ apart' = apart
        /\ tightened' = (playing # Unknown
                          /\ (tightened \/ d1 < max_delta1 \/ d2 < max_delta2))
    BY <1>4 DEF SetMaxDeltas, PscUnlocked
  <2>2. d1 \in Nat /\ d2 \in Nat /\ max_delta1 \in Nat /\ max_delta2 \in Nat
    BY <1>1, DeltaAssumption DEF TypeOK
  <2>3. PlayingJoins'
    <3> SUFFICES ASSUME playing # Unknown, playing.kind # "transient", apart = "no"
                 PROVE  /\ Len(playing.table) >= 2
                        /\ ~tightened' => Joins(playing.table, playing.table, d1, d2)
      BY <2>1 DEF PlayingJoins
    <3>1. Len(playing.table) >= 2 /\ playing.table \in Seq(Volts)
      BY <1>1 DEF PlayingJoins, TypeOK, Message
    <3>2. ASSUME ~tightened' PROVE Joins(playing.table, playing.table, d1, d2)
      <4>1. ~tightened /\ max_delta1 <= d1 /\ max_delta2 <= d2
        <5>1. ~tightened /\ ~(d1 < max_delta1) /\ ~(d2 < max_delta2)
          BY <2>1, <3>2, Zenon
        <5> QED BY <2>2, <5>1
      <4>2. Joins(playing.table, playing.table, max_delta1, max_delta2)
        BY <1>1, <4>1 DEF PlayingJoins
      <4> QED BY <2>2, <3>1, <4>1, <4>2, JoinsMore
    <3> QED BY <3>1, <3>2
  <2> QED BY <2>1, <2>3 DEF RampInv, JoinsWhatPlays
<1>5. ASSUME Begin \/ ReadPolarity PROVE RampInv' /\ JoinsWhatPlays
  <2>1. /\ update.pc # "sending" /\ update'.pc # "sending"
        /\ UNCHANGED <<max_delta1, max_delta2, tightened, playing, apart>>
    BY <1>1, <1>5, IdleType DEF Begin, ReadPolarity, Decline, TypeOK, params, history, Idle
  <2> QED BY <1>1, <2>1 DEF RampInv, PlayingJoins, JoinsWhatPlays
<1>6. ASSUME UNCHANGED <<params, update, prev_tg, history>>
      PROVE  RampInv' /\ JoinsWhatPlays
  BY <1>6 DEF RampInv, PlayingJoins, ProgramJoins, JoinsWhatPlays, params, history
<1>7. ASSUME UNCHANGED <<max_delta1, max_delta2, update>>, update.pc # "sending",
             \/ playing' = Unknown \/ apart' = "late"
             \/ UNCHANGED <<playing, apart, tightened>>
      PROVE  RampInv' /\ JoinsWhatPlays
  BY <1>7 DEF RampInv, PlayingJoins, JoinsWhatPlays
<1>8. ASSUME ReadAlarms \/ FlushSend \/ ConnUp \/ ConnDown
               \/ (\E m \in Modes : SetMode(m)) \/ (\E q \in StartPoints : SetStartPoint(q))
      PROVE  RampInv' /\ JoinsWhatPlays
  <2>1. /\ UNCHANGED <<max_delta1, max_delta2, update>> /\ update.pc # "sending"
        /\ \/ playing' = Unknown \/ apart' = "late"
           \/ UNCHANGED <<playing, apart, tightened>>
    BY <1>8, Zenon DEF ReadAlarms, FlushSend, ConnUp, ConnDown, SetMode, SetStartPoint, PscUnlocked,
                params, history
  <2> QED BY <1>7, <2>1
<1>9. ASSUME NEW uni \in {"unknown", "yes", "no"}, RegistersArrive(uni) PROVE RampInv' /\ JoinsWhatPlays
  BY <1>6, <1>9 DEF RegistersArrive
<1>10. CASE UNCHANGED vars
  BY <1>6, <1>10 DEF vars
<1> QED
  BY <1>2, <1>3, <1>4, <1>5, <1>8, <1>9, <1>10 DEF Next, UpdateTarget, SetParameter

-----------------------------------------------------------------------------
(* The theorems *)

\* The state of the controller keeps its types
THEOREM TypeCorrectness == Spec => []TypeOK
<1>1. TableInv => TypeOK
  BY DEF TableInv
<1> QED BY <1>1, TableInvariance, PTL

\* proc_update_target() keeps prev_tg in step with the device between two updates,
\* through every change of mode, polarity and connection, every declined table of the
\* same length and every message refused before the target.  The three ways in which
\* the code loses it are named by apart and excluded: a table of another length was
\* offered, a target was refused behind its transient, and a message that was left
\* in the send buffer went out later.
THEOREM ComparesWithWhatPlays == Spec => []PrevIsPlaying
<1>1. TableInv => PrevIsPlaying
  BY DEF TableInv
<1> QED BY <1>1, TableInvariance, PTL

\* An update that ends without an alarm in automatic or immediate mode has sent
\* its table to a connected device; any other end is announced by the record.
THEOREM EndsAreReported == Spec => NoAlarmMeansSent
<1>1. TableInv /\ [Next]_vars => [ReportsItsEnd]_vars
  BY StepKeeps
<1> QED BY <1>1, TableInvariance, PTL DEF Spec, NoAlarmMeansSent

\* While prev_tg is what the device plays (apart = "no"), what proc_update_target()
\* sends joins it, whatever tables and deltas there are and for start points inside
\* of the table: a table is checked against its own beginning
\* too, and a transient begins with the first points of the table before it, so the
\* three checks of the code are enough.  The polarity may change in between: what
\* is sent is in the new range.
THEOREM SentTablesJoin == Spec => RampsJoin
<1>1. TableInv /\ RampInv /\ [Next]_vars => RampInv' /\ [JoinsWhatPlays]_vars
  BY StepJoins
<1> QED BY <1>1, InitRamps, TableInvariance, PTL DEF Spec, RampsJoin
=============================================================================
