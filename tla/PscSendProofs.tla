---------------------------- MODULE PscSendProofs ----------------------------
(***************************************************************************)
(* Proofs about PscSend for every set of blocks and contents, every limit  *)
(* of the buffers, and with or without failing memory.                     *)
(***************************************************************************)
EXTENDS PscSendProps, SequenceTheorems, WellFoundedInduction, TLAPS

\* A message is a record of a block and a content.
LEMMA MessageFields ==
  ASSUME NEW m \in Message
  PROVE  m.id \in Blocks /\ m.body \in Values
  BY DEF Message

LEMMA InitTypeOK == Init => TypeOK
<1> SUFFICES ASSUME Init PROVE TypeOK
  OBVIOUS
<1>1. connected \in BOOLEAN
  BY Zenon DEF Init
<1>2. /\ scratch \in [Blocks -> Values] /\ queued \in [Blocks -> BOOLEAN]
      /\ count \in [Blocks -> 0 .. CountMod - 1]
      /\ device \in [Blocks -> Values \cup {Unknown}]
      /\ accepted \in [Blocks -> Values \cup {Unknown}]
  BY DEF Init
<1>3. sendbuf \in Seq(Message) /\ tx \in Seq(Message) /\ alarm \in Alarms
  BY DEF Init, Alarms
<1> QED
  BY <1>1, <1>2, <1>3 DEF TypeOK

LEMMA NextTypeOK == TypeOK /\ [Next]_vars => TypeOK'
<1> SUFFICES ASSUME TypeOK, [Next]_vars PROVE TypeOK'
  OBVIOUS
<1> USE DEF TypeOK, Alarms
<1>1. ASSUME NEW b \in Blocks, NEW v \in Values, WriteField(b, v)
      PROVE  TypeOK'
  BY <1>1 DEF WriteField
<1>2. ASSUME NEW b \in Blocks, NEW v \in Values, Enqueue(b, v)
      PROVE  TypeOK'
  <2>1. ASSUME sendbuf' = Append(sendbuf, [id |-> b, body |-> v]),
               queued' = [queued EXCEPT ![b] = TRUE],
               count' = [count EXCEPT ![b] = (@ + 1) % CountMod],
               accepted' = [accepted EXCEPT ![b] = v],
               alarm' = "none",
               UNCHANGED <<connected, scratch, tx, device>>
        PROVE  TypeOK'
    <3>1. sendbuf' \in Seq(Message)
      BY <2>1 DEF Message
    <3>2. count' \in [Blocks -> 0 .. CountMod - 1]
      BY <2>1, CountAssumption
    <3> QED
      BY <2>1, <3>1, <3>2
  <2>2. CASE \E why \in {"busy", "full", "memory"} : Refuse(why)
    BY <2>2 DEF Refuse
  <2> QED
    BY <1>2, <2>1, <2>2 DEF Enqueue
<1>3. ASSUME NEW why \in Alarms, Refuse(why)
      PROVE  TypeOK'
  BY <1>3 DEF Refuse
<1>4. ASSUME NEW b \in Blocks, SendBlock(b)
      PROVE  TypeOK'
  BY <1>2, <1>3, <1>4 DEF SendBlock
<1>5. ASSUME NEW b \in Blocks, NEW v \in Values, WriteBlock(b, v)
      PROVE  TypeOK'
  BY <1>2, <1>3, <1>5 DEF WriteBlock
<1>6. CASE FlushDone
  <2>1. tx \o sendbuf \in Seq(Message)
    OBVIOUS
  <2> QED
    BY <1>6, <2>1 DEF FlushDone
<1>7. CASE SendAll
  <2>1. CASE sendbuf' = <<>> /\ alarm' = "memory"
             /\ accepted' = [b \in Blocks |-> IF queued[b] THEN Unknown ELSE accepted[b]]
             /\ UNCHANGED <<connected, scratch, queued, count, tx, device>>
    BY <2>1
  <2> QED
    BY <1>3, <1>6, <1>7, <2>1 DEF SendAll
<1>8. CASE ConnUp
  BY <1>8 DEF ConnUp
<1>9. CASE ConnDown
  <2>1. accepted' \in [Blocks -> Values \cup {Unknown}] /\ tx' \in Seq(Message)
    BY <1>9 DEF ConnDown
  <2>2. connected' \in BOOLEAN
    BY <1>9, Zenon DEF ConnDown
  <2> QED
    BY <1>9, <2>1, <2>2, Zenon DEF ConnDown
<1>10. CASE DeviceReceives
  <2>1. Head(tx) \in Message /\ Tail(tx) \in Seq(Message)
    BY <1>10 DEF DeviceReceives
  <2>2. Head(tx).body \in Values
    BY <2>1, MessageFields
  <2> QED
    BY <1>10, <2>1, <2>2 DEF DeviceReceives
<1>11. CASE UNCHANGED vars
  BY <1>11 DEF vars
<1> QED
  BY <1>1, <1>4, <1>5, <1>7, <1>8, <1>9, <1>10, <1>11 DEF Next, Records

\* The state of the transmit path keeps its type.
THEOREM SendTypeCorrectness == Spec => []TypeOK
  BY InitTypeOK, NextTypeOK, PTL DEF Spec

-----------------------------------------------------------------------------
(* The queued flags *)

\* The flags and the shared send buffer agree.
SendInv == TypeOK /\ OnePerBlock /\ QueuedAccurate

\* An appended message adds its ID and nothing else.
LEMMA IdsOfAppend ==
  ASSUME NEW s \in Seq(Message), NEW m \in Message
  PROVE  /\ IdsOf(Append(s, m)) = IdsOf(s) \cup {m.id}
         /\ m.id \notin IdsOf(s) /\ (\A i, j \in DOMAIN s : s[i].id = s[j].id => i = j) =>
              \A i, j \in DOMAIN Append(s, m) : Append(s, m)[i].id = Append(s, m)[j].id => i = j
<1> DEFINE t == Append(s, m)
<1>1. /\ t \in Seq(Message) /\ Len(t) = Len(s) + 1
      /\ \A i \in 1 .. Len(s) : t[i] = s[i]
      /\ t[Len(s) + 1] = m
  BY AppendProperties
<1>2. DOMAIN s = 1 .. Len(s) /\ DOMAIN t = 1 .. Len(s) + 1 /\ Len(s) \in Nat
  BY <1>1, LenProperties
<1> HIDE DEF t
<1>3. IdsOf(t) \subseteq IdsOf(s) \cup {m.id}
  BY <1>1, <1>2 DEF IdsOf
<1>4. IdsOf(s) \cup {m.id} \subseteq IdsOf(t)
  <2>1. Len(s) + 1 \in DOMAIN t
    BY <1>2
  <2> QED
    BY <1>1, <1>2, <2>1 DEF IdsOf
<1>5. ASSUME m.id \notin IdsOf(s), \A i, j \in DOMAIN s : s[i].id = s[j].id => i = j,
             NEW i \in DOMAIN t, NEW j \in DOMAIN t, t[i].id = t[j].id
      PROVE  i = j
  BY <1>1, <1>2, <1>5 DEF IdsOf
<1> QED
  BY <1>3, <1>4, <1>5 DEF t

\* An empty buffer holds no ID.
LEMMA IdsOfEmpty == IdsOf(<<>>) = {}
  BY DEF IdsOf

LEMMA InitSendInv == Init => SendInv
<1> SUFFICES ASSUME Init PROVE SendInv
  OBVIOUS
<1>1. OnePerBlock
  BY IdsOfEmpty DEF Init, OnePerBlock
<1>2. QueuedAccurate
  BY DEF Init, QueuedAccurate
<1> QED
  BY <1>1, <1>2, InitTypeOK DEF SendInv

\* A message that is accepted.
LEMMA AcceptedKeepsSendInv ==
  ASSUME SendInv, NEW b \in Blocks, NEW v \in Values,
         ~queued[b],
         sendbuf' = Append(sendbuf, [id |-> b, body |-> v]),
         queued' = [queued EXCEPT ![b] = TRUE],
         accepted' = [accepted EXCEPT ![b] = v]
  PROVE  (OnePerBlock /\ QueuedAccurate)'
<1> DEFINE m == [id |-> b, body |-> v]
<1>1. m \in Message /\ m.id = b /\ sendbuf \in Seq(Message)
  BY DEF Message, SendInv, TypeOK
<1>2. b \notin IdsOf(sendbuf)
  BY DEF SendInv, OnePerBlock
<1>3. IdsOf(sendbuf') = IdsOf(sendbuf) \cup {b}
  BY <1>1, IdsOfAppend
<1>4. \A c \in Blocks : /\ queued'[c] <=> queued[c] \/ c = b
                        /\ c # b => accepted'[c] = accepted[c]
  BY DEF SendInv, TypeOK
<1>5. OnePerBlock'
  <2>1. \A i, j \in DOMAIN sendbuf' : sendbuf'[i].id = sendbuf'[j].id => i = j
    BY <1>1, <1>2, IdsOfAppend DEF SendInv, OnePerBlock
  <2>2. IdsOf(sendbuf) \subseteq Blocks
    BY <1>1, MessageFields, ElementOfSeq DEF IdsOf
  <2>3. \A c \in IdsOf(sendbuf') : queued'[c]
    BY <1>3, <1>4, <2>2 DEF SendInv, OnePerBlock
  <2> QED
    BY <2>1, <2>3 DEF OnePerBlock, IdsOf
<1>6. QueuedAccurate'
  <2>1. \A c \in Blocks : queued'[c] => c \in IdsOf(sendbuf') \/ accepted'[c] = Unknown
    BY <1>3, <1>4 DEF SendInv, QueuedAccurate
  <2> QED
    BY <2>1 DEF QueuedAccurate, IdsOf
<1> QED
  BY <1>5, <1>6

\* A step that leaves the buffer, the flags and what was accepted alone.
LEMMA OthersKeepSendInv ==
  ASSUME SendInv, UNCHANGED <<sendbuf, queued, accepted>>
  PROVE  (OnePerBlock /\ QueuedAccurate)'
  BY DEF SendInv, OnePerBlock, QueuedAccurate, IdsOf

LEMMA NextSendInv == SendInv /\ [Next]_vars => SendInv'
<1> SUFFICES ASSUME SendInv, [Next]_vars PROVE (OnePerBlock /\ QueuedAccurate)'
  BY NextTypeOK DEF SendInv
<1>1. ASSUME NEW why, Refuse(why)
      PROVE  (OnePerBlock /\ QueuedAccurate)'
  BY <1>1, OthersKeepSendInv DEF Refuse
<1>2. ASSUME NEW b \in Blocks, NEW v \in Values, Enqueue(b, v)
      PROVE  (OnePerBlock /\ QueuedAccurate)'
  BY <1>1, <1>2, AcceptedKeepsSendInv DEF Enqueue
<1>3. CASE \E b \in Blocks, v \in Values : WriteField(b, v) \/ WriteBlock(b, v)
  BY <1>1, <1>2, <1>3, OthersKeepSendInv DEF WriteField, WriteBlock
<1>4. CASE \E b \in Blocks : SendBlock(b)
  BY <1>1, <1>2, <1>4 DEF SendBlock, SendInv, TypeOK
<1>5. CASE SendAll
  <2>1. CASE FlushDone
    BY <2>1, IdsOfEmpty DEF FlushDone, OnePerBlock, QueuedAccurate, IdsOf
  <2>2. CASE sendbuf' = <<>> /\ queued' = queued
             /\ accepted' = [b \in Blocks |-> IF queued[b] THEN Unknown ELSE accepted[b]]
    BY <2>2, IdsOfEmpty DEF OnePerBlock, QueuedAccurate, IdsOf
  <2> QED
    BY <1>1, <1>5, <2>1, <2>2 DEF SendAll
<1>6. CASE ConnUp \/ DeviceReceives \/ UNCHANGED vars
  BY <1>6, OthersKeepSendInv DEF ConnUp, DeviceReceives, vars
<1>7. CASE ConnDown
  BY <1>7 DEF ConnDown, SendInv, OnePerBlock, QueuedAccurate, IdsOf
<1> QED
  BY <1>3, <1>4, <1>5, <1>6, <1>7 DEF Next, Records

\* A queued flag is set for exactly the messages in the shared send buffer, or
\* for those that a flush without memory gave up; none is there twice.
THEOREM FlagsAgree == Spec => [](OnePerBlock /\ FlagsAreRight)
<1>1. SendInv => OnePerBlock /\ FlagsAreRight
  BY DEF SendInv, OnePerBlock, FlagsAreRight
<1> QED
  BY <1>1, InitSendInv, NextSendInv, PTL DEF Spec

-----------------------------------------------------------------------------
(* Refinement of SendQueue *)

\* Where the messages of two buffers are when one follows the other.
LEMMA TwoBuffers ==
  ASSUME NEW s \in Seq(Message), NEW t \in Seq(Message)
  PROVE  /\ Len(s) \in Nat /\ Len(t) \in Nat
         /\ s \o t \in Seq(Message) /\ Len(s \o t) = Len(s) + Len(t)
         /\ DOMAIN t = 1 .. Len(t)
         /\ DOMAIN (s \o t) = 1 .. Len(s) + Len(t)
         /\ \A i \in 1 .. Len(s) : (s \o t)[i] = s[i]
         /\ \A i \in 1 .. Len(t) : (s \o t)[Len(s) + i] = t[i]
  BY ConcatProperties, LenProperties

\* What waits for a commit are the messages of the shared send buffer.
LEMMA WaitingIsSendbuf ==
  ASSUME TypeOK
  PROVE  Queue!Waiting = IdsOf(sendbuf)
<1> DEFINE way == tx \o sendbuf
<1>1. tx \in Seq(Message) /\ sendbuf \in Seq(Message)
  BY DEF TypeOK
<1>2. /\ Len(tx) \in Nat /\ Len(sendbuf) \in Nat /\ DOMAIN sendbuf = 1 .. Len(sendbuf)
      /\ Len(way) = Len(tx) + Len(sendbuf)
      /\ \A i \in 1 .. Len(sendbuf) : way[Len(tx) + i] = sendbuf[i]
  BY <1>1, TwoBuffers
<1> HIDE DEF way
<1>3. {way[i].id : i \in Len(tx) + 1 .. Len(way)} \subseteq IdsOf(sendbuf)
  <2> SUFFICES ASSUME NEW i \in Len(tx) + 1 .. Len(way)
               PROVE  way[i].id \in IdsOf(sendbuf)
    OBVIOUS
  <2>1. i - Len(tx) \in 1 .. Len(sendbuf) /\ i = Len(tx) + (i - Len(tx))
    BY <1>2
  <2>2. way[i] = sendbuf[i - Len(tx)]
    BY <1>2, <2>1
  <2> QED
    BY <1>2, <2>1, <2>2 DEF IdsOf
<1>4. IdsOf(sendbuf) \subseteq {way[i].id : i \in Len(tx) + 1 .. Len(way)}
  <2> SUFFICES ASSUME NEW i \in 1 .. Len(sendbuf)
               PROVE  sendbuf[i].id \in {way[k].id : k \in Len(tx) + 1 .. Len(way)}
    BY <1>2 DEF IdsOf
  <2>1. Len(tx) + i \in Len(tx) + 1 .. Len(way)
    BY <1>2
  <2> QED
    BY <1>2, <2>1
<1> QED
  BY <1>3, <1>4 DEF Queue!Waiting, way

\* A message that queueSend() accepts is accepted by the queue.
LEMMA AcceptStep ==
  ASSUME SendInv, connected, NEW b \in Blocks, NEW v \in Values, ~queued[b],
         sendbuf' = Append(sendbuf, [id |-> b, body |-> v]),
         UNCHANGED <<connected, tx, device>>
  PROVE  Queue!Next
<1>1. tx \in Seq(Message) /\ sendbuf \in Seq(Message) /\ [id |-> b, body |-> v] \in Message
  BY DEF SendInv, TypeOK, Message
<1>2. b \notin Queue!Waiting
  BY WaitingIsSendbuf DEF SendInv, OnePerBlock
<1>3. tx \o Append(sendbuf, [id |-> b, body |-> v]) = Append(tx \o sendbuf, [id |-> b, body |-> v])
  BY <1>1
<1>4. Queue!Accept(b, v)
  BY <1>2, <1>3 DEF Queue!Accept
<1> QED
  BY <1>4 DEF Queue!Next

\* Every step of the transmit path is a step of the queue or none.
LEMMA QueueStep == SendInv /\ [Next]_vars => [Queue!Next]_Queue!vars
<1> SUFFICES ASSUME SendInv, [Next]_vars PROVE Queue!Next \/ UNCHANGED Queue!vars
  OBVIOUS
<1>1. ASSUME UNCHANGED <<connected, sendbuf, tx, device>>
      PROVE  UNCHANGED Queue!vars
  BY <1>1 DEF Queue!vars
<1>2. tx \in Seq(Message) /\ sendbuf \in Seq(Message) /\ Len(tx) \in Nat
  BY DEF SendInv, TypeOK
<1>3. ASSUME NEW why, Refuse(why)
      PROVE  UNCHANGED Queue!vars
  BY <1>1, <1>3 DEF Refuse
<1>4. ASSUME NEW b \in Blocks, NEW v \in Values, connected, Enqueue(b, v)
      PROVE  Queue!Next \/ UNCHANGED Queue!vars
  BY <1>3, <1>4, AcceptStep DEF Enqueue
<1>5. CASE \E b \in Blocks, v \in Values : WriteField(b, v) \/ WriteBlock(b, v)
  BY <1>1, <1>3, <1>4, <1>5 DEF WriteField, WriteBlock
<1>6. CASE \E b \in Blocks : SendBlock(b)
  BY <1>3, <1>4, <1>6 DEF SendBlock, SendInv, TypeOK
<1>7. CASE FlushDone
  <2>1. (tx \o sendbuf) \o <<>> = tx \o sendbuf
    BY <1>2
  <2>2. Queue!Commit
    BY <1>7, <2>1 DEF FlushDone, Queue!Commit
  <2> QED
    BY <2>2 DEF Queue!Next
<1>8. CASE connected /\ sendbuf' = <<>> /\ UNCHANGED <<connected, tx, device>>
  <2>1. tx \o <<>> = SubSeq(tx \o sendbuf, 1, Len(tx))
    BY <1>2, SubSeqOfConcat1, SubSeqFull, ConcatEmptySeq
  <2>2. Queue!Discard
    BY <1>8, <2>1 DEF Queue!Discard
  <2> QED
    BY <2>2 DEF Queue!Next
<1>9. CASE SendAll
  BY <1>3, <1>7, <1>8, <1>9 DEF SendAll
<1>10. CASE ConnUp
  <2>1. Queue!Open
    BY <1>10 DEF ConnUp, Queue!Open
  <2> QED
    BY <2>1 DEF Queue!Next
<1>11. CASE ConnDown
  <2>1. <<>> \o sendbuf = SubSeq(tx \o sendbuf, Len(tx) + 1, Len(tx \o sendbuf))
    BY <1>2, SubSeqOfConcat2, SubSeqFull, ConcatEmptySeq, TwoBuffers
  <2>2. Queue!Close
    BY <1>11, <2>1 DEF ConnDown, Queue!Close
  <2> QED
    BY <2>2 DEF Queue!Next
<1>12. CASE DeviceReceives
  <2>1. Len(tx) > 0 /\ Len(Tail(tx)) = Len(tx) - 1 /\ Head(tx) = tx[1]
    BY <1>2, <1>12 DEF DeviceReceives
  <2>2. (tx \o sendbuf)[1] = Head(tx)
    BY <1>2, <2>1, TwoBuffers
  <2>3. Tail(tx) \o sendbuf = Tail(tx \o sendbuf)
    BY <1>2, <2>1
  <2>4. Queue!Deliver
    BY <1>12, <2>1, <2>2, <2>3 DEF DeviceReceives, Queue!Deliver
  <2> QED
    BY <2>4 DEF Queue!Next
<1>13. CASE UNCHANGED vars
  BY <1>1, <1>13 DEF vars
<1> QED
  BY <1>5, <1>6, <1>9, <1>10, <1>11, <1>12, <1>13 DEF Next, Records

\* The two buffers and the flags behave as the one queue of SendQueue, whatever
\* connections, flushes and allocations do.
THEOREM QueueRefinement == Spec => ImplementsSendQueue
<1>1. Init => Queue!Init
  BY DEF Init, Queue!Init
<1> QED
  BY <1>1, InitSendInv, NextSendInv, QueueStep, PTL
  DEF Spec, ImplementsSendQueue, Queue!Spec

-----------------------------------------------------------------------------
(* No accepted write is lost or overtaken *)

Way == tx \o sendbuf

\* Where the messages of block b are in w
Mine(w, b) == {i \in DOMAIN w : w[i].id = b}

IsLast(w, b, i) == i \in Mine(w, b) /\ \A j \in Mine(w, b) : j <= i

\* What is owed for block b when w is on the way, d is what the device has, and
\* a was accepted last
Owed(w, d, a, b) ==
  /\ Mine(w, b) = {} => d = a
  /\ \A i : IsLast(w, b, i) => w[i].body = a

\* Without a connection only queued contents are owed: the others went with the
\* session.
WriteInv ==
  \A b \in Blocks : accepted[b] # Unknown =>
    /\ Owed(Way, device[b], accepted[b], b)
    /\ connected \/ queued[b]

\* Every set of positions that is not empty has a last one.
LEMMA LastExists ==
  ASSUME NEW n \in Nat, NEW S \in SUBSET (1 .. n), S # {}
  PROVE  \E i \in S : \A j \in S : j <= i
<1> DEFINE T == {n - i : i \in S}
           R == OpToRel(<, Nat)
<1>1. T \subseteq Nat /\ T # {}
  <2>1. \A i \in S : n - i \in Nat
    OBVIOUS
  <2>2. \E i \in S : n - i \in T
    OBVIOUS
  <2> QED
    BY <2>1, <2>2
<1>2. IsWellFoundedOn(R, Nat)
  BY NatLessThanWellFounded
<1>3. PICK x \in T : \A y \in T : ~(<<y, x>> \in R)
  <2> HIDE DEF T, R
  <2> QED
    BY <1>1, <1>2, WFMin
<1>4. \A y \in T : ~(y < x)
  BY <1>1, <1>3 DEF OpToRel
<1>5. PICK i \in S : x = n - i
  OBVIOUS
<1>6. \A j \in S : j <= i
  BY <1>4, <1>5
<1> QED
  BY <1>6

\* The invariant says what LastWriteWins says.
LEMMA WriteInvEnough == TypeOK /\ WriteInv => LastWriteWins
<1> SUFFICES ASSUME TypeOK, WriteInv, NEW b \in Blocks, accepted[b] # Unknown
             PROVE  Newest(b) = accepted[b]
  BY DEF LastWriteWins
<1>1. Owed(Way, device[b], accepted[b], b)
  BY DEF WriteInv
<1>2. Newest(b) = IF Mine(Way, b) = {} THEN device[b]
                  ELSE Way[CHOOSE i \in Mine(Way, b) : \A j \in Mine(Way, b) : j <= i].body
  BY DEF Newest, Mine, Way
<1>3. CASE Mine(Way, b) = {}
  BY <1>1, <1>2, <1>3 DEF Owed
<1>4. CASE Mine(Way, b) # {}
  <2>1. Mine(Way, b) \in SUBSET (1 .. Len(Way)) /\ Len(Way) \in Nat
    BY TwoBuffers DEF TypeOK, Mine, Way
  <2>2. \E i \in Mine(Way, b) : \A j \in Mine(Way, b) : j <= i
    BY <1>4, <2>1, LastExists
  <2> DEFINE k == CHOOSE i \in Mine(Way, b) : \A j \in Mine(Way, b) : j <= i
  <2>3. IsLast(Way, b, k)
    BY <2>2 DEF IsLast
  <2> QED
    BY <1>1, <1>2, <1>4, <2>3 DEF Owed
<1> QED
  BY <1>3, <1>4

\* A message that is appended is what is owed for its block from then on.
LEMMA OwedAppend ==
  ASSUME NEW w \in Seq(Message), NEW m \in Message, NEW b, NEW d, NEW a,
         m.id # b => Owed(w, d, a, b)
  PROVE  Owed(Append(w, m), d, IF m.id = b THEN m.body ELSE a, b)
<1> DEFINE t == Append(w, m)
<1>1. /\ Len(w) \in Nat /\ DOMAIN w = 1 .. Len(w) /\ DOMAIN t = 1 .. Len(w) + 1
      /\ \A i \in 1 .. Len(w) : t[i] = w[i]
      /\ t[Len(w) + 1] = m
  BY AppendProperties, LenProperties
<1> HIDE DEF t
<1>2. CASE m.id = b
  <2>1. Len(w) + 1 \in Mine(t, b)
    BY <1>1, <1>2 DEF Mine
  <2>2. \A i : IsLast(t, b, i) => i = Len(w) + 1
    BY <1>1, <2>1 DEF IsLast, Mine
  <2> QED
    BY <1>1, <1>2, <2>1, <2>2 DEF Owed, t
<1>3. CASE m.id # b
  <2>1. Mine(t, b) = Mine(w, b)
    BY <1>1, <1>3 DEF Mine
  <2>2. \A i \in Mine(w, b) : t[i] = w[i]
    BY <1>1 DEF Mine
  <2> QED
    BY <1>3, <2>1, <2>2 DEF Owed, IsLast, t
<1> QED
  BY <1>2, <1>3

\* The front of the way is delivered.
LEMMA OwedTail ==
  ASSUME NEW w \in Seq(Message), w # <<>>, NEW b, NEW d, NEW a, Owed(w, d, a, b)
  PROVE  Owed(Tail(w), IF Head(w).id = b THEN Head(w).body ELSE d, a, b)
<1> DEFINE t == Tail(w)
<1>1. /\ Len(w) \in Nat \ {0} /\ DOMAIN w = 1 .. Len(w) /\ DOMAIN t = 1 .. Len(w) - 1
      /\ Head(w) = w[1]
      /\ \A i \in 1 .. Len(w) - 1 : t[i] = w[i + 1]
  BY HeadTailProperties, LenProperties
<1> HIDE DEF t
<1>2. \A i \in Mine(w, b) : i = 1 \/ i - 1 \in Mine(t, b)
  BY <1>1 DEF Mine
<1>3. \A i : IsLast(t, b, i) => IsLast(w, b, i + 1) /\ t[i] = w[i + 1]
  <2> SUFFICES ASSUME NEW i, IsLast(t, b, i)
               PROVE  IsLast(w, b, i + 1) /\ t[i] = w[i + 1]
    OBVIOUS
  <2>1. i \in 1 .. Len(w) - 1 /\ t[i].id = b /\ t[i] = w[i + 1]
    BY <1>1 DEF IsLast, Mine
  <2>2. i + 1 \in Mine(w, b)
    BY <1>1, <2>1 DEF Mine
  <2>3. \A j \in Mine(w, b) : j <= i + 1
    BY <1>1, <1>2, <2>1 DEF IsLast, Mine
  <2> QED
    BY <2>1, <2>2, <2>3 DEF IsLast
<1>4. ASSUME Mine(t, b) = {}
      PROVE  (IF Head(w).id = b THEN Head(w).body ELSE d) = a
  <2>1. CASE Head(w).id = b
    <3>1. IsLast(w, b, 1)
      BY <1>1, <1>2, <1>4, <2>1 DEF IsLast, Mine
    <3> QED
      BY <1>1, <2>1, <3>1 DEF Owed
  <2>2. CASE Head(w).id # b
    <3>1. Mine(w, b) = {}
      BY <1>1, <1>2, <1>4, <2>2 DEF Mine
    <3> QED
      BY <2>2, <3>1 DEF Owed
  <2> QED
    BY <2>1, <2>2
<1> QED
  BY <1>3, <1>4 DEF Owed, t

\* The end of the way, with nothing of the block in it, is given up.
LEMMA OwedFront ==
  ASSUME NEW s \in Seq(Message), NEW t \in Seq(Message), NEW b, NEW d, NEW a,
         b \notin IdsOf(t), Owed(s \o t, d, a, b)
  PROVE  Owed(s, d, a, b)
<1> DEFINE w == s \o t
<1>1. /\ Len(s) \in Nat /\ Len(t) \in Nat
      /\ DOMAIN s = 1 .. Len(s) /\ DOMAIN t = 1 .. Len(t)
      /\ DOMAIN w = 1 .. Len(s) + Len(t)
      /\ \A i \in 1 .. Len(s) : w[i] = s[i]
      /\ \A i \in 1 .. Len(t) : w[Len(s) + i] = t[i]
  BY TwoBuffers, LenProperties
<1> HIDE DEF w
<1>2. \A i \in Len(s) + 1 .. Len(s) + Len(t) : w[i].id # b
  <2> SUFFICES ASSUME NEW i \in Len(s) + 1 .. Len(s) + Len(t)
               PROVE  w[i].id # b
    OBVIOUS
  <2>1. i - Len(s) \in 1 .. Len(t) /\ i = Len(s) + (i - Len(s))
    BY <1>1
  <2>2. w[i] = t[i - Len(s)]
    BY <1>1, <2>1
  <2> QED
    BY <1>1, <2>1, <2>2 DEF IdsOf
<1>3. Mine(w, b) = Mine(s, b)
  BY <1>1, <1>2 DEF Mine
<1>4. \A i \in Mine(s, b) : w[i] = s[i]
  BY <1>1 DEF Mine
<1> QED
  BY <1>3, <1>4 DEF Owed, IsLast, w

\* The front of the way is lost, but the block is in the rest.
LEMMA OwedRest ==
  ASSUME NEW s \in Seq(Message), NEW t \in Seq(Message), NEW b, NEW d, NEW a,
         b \in IdsOf(t), Owed(s \o t, d, a, b), NEW e
  PROVE  Owed(t, e, a, b)
<1> DEFINE w == s \o t
<1>1. /\ Len(s) \in Nat /\ Len(t) \in Nat
      /\ DOMAIN t = 1 .. Len(t)
      /\ DOMAIN w = 1 .. Len(s) + Len(t)
      /\ \A i \in 1 .. Len(t) : w[Len(s) + i] = t[i]
  BY TwoBuffers
<1> HIDE DEF w
<1>2. \A i : IsLast(t, b, i) => IsLast(w, b, Len(s) + i) /\ w[Len(s) + i] = t[i]
  <2> SUFFICES ASSUME NEW i, IsLast(t, b, i)
               PROVE  IsLast(w, b, Len(s) + i) /\ w[Len(s) + i] = t[i]
    OBVIOUS
  <2>1. i \in 1 .. Len(t) /\ t[i].id = b /\ w[Len(s) + i] = t[i]
    BY <1>1 DEF IsLast, Mine
  <2>2. Len(s) + i \in Mine(w, b)
    BY <1>1, <2>1 DEF Mine
  <2>3. ASSUME NEW j \in Mine(w, b), j > Len(s)
        PROVE  j <= Len(s) + i
    <3>1. j - Len(s) \in 1 .. Len(t) /\ j = Len(s) + (j - Len(s)) /\ w[j].id = b
      BY <1>1, <2>3 DEF Mine
    <3>2. j - Len(s) \in Mine(t, b)
      BY <1>1, <3>1 DEF Mine
    <3> QED
      BY <1>1, <2>1, <3>1, <3>2 DEF IsLast
  <2>4. \A j \in Mine(w, b) : j <= Len(s) + i
    BY <1>1, <2>1, <2>3 DEF Mine
  <2> QED
    BY <2>1, <2>2, <2>4 DEF IsLast
<1>3. Mine(t, b) # {}
  BY <1>1 DEF Mine, IdsOf
<1> QED
  BY <1>2, <1>3 DEF Owed, w

LEMMA InitWriteInv == Init => WriteInv
  BY DEF Init, WriteInv

\* A step that leaves the way, the device, the flags and what was accepted alone.
LEMMA OthersKeepWriteInv ==
  ASSUME WriteInv, UNCHANGED <<connected, queued, sendbuf, tx, device, accepted>>
  PROVE  WriteInv'
  BY DEF WriteInv, Way, Owed, IsLast, Mine

\* A message that is accepted goes to the end of the way.
LEMMA AcceptedKeepsWriteInv ==
  ASSUME SendInv, WriteInv, connected, NEW b \in Blocks, NEW v \in Values,
         sendbuf' = Append(sendbuf, [id |-> b, body |-> v]),
         queued' = [queued EXCEPT ![b] = TRUE],
         accepted' = [accepted EXCEPT ![b] = v],
         UNCHANGED <<connected, tx, device>>
  PROVE  WriteInv'
<1> DEFINE m == [id |-> b, body |-> v]
<1>1. m \in Message /\ m.id = b /\ m.body = v
  BY DEF Message
<1>2. tx \in Seq(Message) /\ sendbuf \in Seq(Message) /\ Way \in Seq(Message)
  BY DEF SendInv, TypeOK, Way
<1>3. Way' = Append(Way, m)
  BY <1>1, <1>2 DEF Way
<1>4. ASSUME NEW c \in Blocks, accepted'[c] # Unknown
      PROVE  Owed(Append(Way, m), device[c], accepted'[c], c)
  <2>1. b # c => accepted'[c] = accepted[c] /\ Owed(Way, device[c], accepted[c], c)
    BY <1>4 DEF WriteInv, SendInv, TypeOK
  <2>2. accepted'[c] = IF m.id = c THEN m.body ELSE accepted[c]
    BY <1>1, <2>1 DEF SendInv, TypeOK
  <2>3. Owed(Append(Way, m), device[c], IF m.id = c THEN m.body ELSE accepted[c], c)
    BY <1>1, <1>2, <2>1, OwedAppend
  <2> QED
    BY <2>2, <2>3
<1> HIDE DEF m
<1>5. \A c \in Blocks : accepted'[c] # Unknown => Owed(Way', device'[c], accepted'[c], c)
  BY <1>3, <1>4
<1> QED
  BY <1>5 DEF WriteInv, Owed, IsLast, Mine

LEMMA NextWriteInv == SendInv /\ WriteInv /\ [Next]_vars => WriteInv'
<1> SUFFICES ASSUME SendInv, WriteInv, [Next]_vars PROVE WriteInv'
  OBVIOUS
<1>1. /\ tx \in Seq(Message) /\ sendbuf \in Seq(Message) /\ Way \in Seq(Message)
      /\ connected \in BOOLEAN /\ scratch \in [Blocks -> Values]
      /\ accepted \in [Blocks -> Values \cup {Unknown}]
  BY DEF SendInv, TypeOK, Way
<1>2. ASSUME NEW way, NEW dev, Way' = way, device' = dev,
             \A b \in Blocks : accepted'[b] # Unknown =>
               Owed(way, dev[b], accepted'[b], b) /\ (connected' \/ queued'[b])
      PROVE  WriteInv'
  BY <1>2 DEF WriteInv, Owed, IsLast, Mine
<1>3. ASSUME NEW why, Refuse(why)
      PROVE  WriteInv'
  BY <1>3, OthersKeepWriteInv DEF Refuse
<1>4. ASSUME NEW b \in Blocks, NEW v \in Values, connected, Enqueue(b, v)
      PROVE  WriteInv'
  BY <1>3, <1>4, AcceptedKeepsWriteInv DEF Enqueue
<1>5. CASE \E b \in Blocks, v \in Values : WriteField(b, v) \/ WriteBlock(b, v)
  BY <1>3, <1>4, <1>5, OthersKeepWriteInv DEF WriteField, WriteBlock
<1>6. CASE \E b \in Blocks : SendBlock(b)
  BY <1>1, <1>3, <1>4, <1>6 DEF SendBlock
<1>7. CASE FlushDone
  <2>1. Way' = Way
    BY <1>1, <1>7 DEF FlushDone, Way
  <2> QED
    BY <1>2, <1>7, <2>1 DEF FlushDone, WriteInv
<1>8. CASE /\ connected /\ sendbuf' = <<>>
           /\ accepted' = [b \in Blocks |-> IF queued[b] THEN Unknown ELSE accepted[b]]
           /\ UNCHANGED <<connected, queued, tx, device>>
  <2>1. Way' = tx
    BY <1>1, <1>8 DEF Way
  <2>2. ASSUME NEW b \in Blocks, accepted'[b] # Unknown
        PROVE  Owed(tx, device[b], accepted'[b], b)
    <3>1. ~queued[b] /\ accepted'[b] = accepted[b]
      BY <1>8, <2>2
    <3>2. b \notin IdsOf(sendbuf)
      BY <3>1 DEF SendInv, OnePerBlock
    <3>3. Owed(tx \o sendbuf, device[b], accepted[b], b)
      BY <2>2, <3>1 DEF WriteInv, Way
    <3> QED
      BY <1>1, <3>1, <3>2, <3>3, OwedFront
  <2> QED
    BY <1>2, <1>8, <2>1, <2>2
<1>9. CASE SendAll
  BY <1>3, <1>7, <1>8, <1>9 DEF SendAll
<1>10. CASE ConnUp
  <2>1. Way' = <<>> \o Way
    BY <1>1, <1>10 DEF ConnUp, Way
  <2>2. ASSUME NEW b \in Blocks, accepted[b] # Unknown
        PROVE  Owed(Way, device'[b], accepted[b], b)
    <3>1. queued[b] /\ Owed(Way, device[b], accepted[b], b)
      BY <1>10, <2>2 DEF ConnUp, WriteInv
    <3>2. b \in IdsOf(Way)
      <4>1. b \in IdsOf(sendbuf)
        BY <2>2, <3>1 DEF SendInv, QueuedAccurate
      <4>2. PICK i \in 1 .. Len(sendbuf) : sendbuf[i].id = b
        BY <1>1, <4>1, TwoBuffers DEF IdsOf
      <4>3. Len(tx) + i \in DOMAIN Way /\ Way[Len(tx) + i].id = b
        BY <1>1, <4>2, TwoBuffers DEF Way
      <4> QED
        BY <4>3 DEF IdsOf
    <3>3. Owed(<<>> \o Way, device[b], accepted[b], b)
      BY <1>1, <3>1, ConcatEmptySeq
    <3> QED
      BY <1>1, <3>2, <3>3, OwedRest, EmptySeq
  <2>3. Way' = Way
    BY <1>1, <2>1, ConcatEmptySeq
  <2> QED
    BY <1>2, <1>10, <2>2, <2>3 DEF ConnUp
<1>11. CASE ConnDown
  <2>1. Way' = sendbuf
    BY <1>1, <1>11 DEF ConnDown, Way
  <2>2. ASSUME NEW b \in Blocks, accepted'[b] # Unknown
        PROVE  Owed(sendbuf, device[b], accepted'[b], b) /\ queued'[b]
    <3>1. queued[b] /\ queued'[b] /\ accepted'[b] = accepted[b]
      BY <1>11, <2>2 DEF ConnDown
    <3>2. b \in IdsOf(sendbuf)
      BY <2>2, <3>1 DEF SendInv, QueuedAccurate
    <3>3. Owed(tx \o sendbuf, device[b], accepted[b], b)
      BY <2>2, <3>1 DEF WriteInv, Way
    <3> QED
      BY <1>1, <3>1, <3>2, <3>3, OwedRest
  <2> QED
    BY <1>2, <1>11, <2>1, <2>2 DEF ConnDown
<1>12. CASE DeviceReceives
  <2>1. tx # <<>> /\ Way # <<>> /\ Head(Way) = Head(tx) /\ Way' = Tail(Way)
    BY <1>1, <1>12 DEF DeviceReceives, Way
  <2>2. ASSUME NEW b \in Blocks, accepted[b] # Unknown
        PROVE  Owed(Tail(Way), device'[b], accepted[b], b)
    <3>1. device'[b] = IF Head(Way).id = b THEN Head(Way).body ELSE device[b]
      BY <1>12, <2>1 DEF DeviceReceives, SendInv, TypeOK
    <3>2. Owed(Way, device[b], accepted[b], b)
      BY <2>2 DEF WriteInv
    <3> QED
      BY <1>1, <2>1, <3>1, <3>2, OwedTail
  <2> QED
    BY <1>2, <1>12, <2>1, <2>2 DEF DeviceReceives
<1>13. CASE UNCHANGED vars
  BY <1>13, OthersKeepWriteInv DEF vars
<1> QED
  BY <1>5, <1>6, <1>9, <1>10, <1>11, <1>12, <1>13 DEF Next, Records

\* What the device ends up with is the last content that queueSend() accepted, in
\* every state in which it is still owed.
THEOREM NoLostWrite == Spec => []LastWriteWins
<1>1. SendInv /\ WriteInv => LastWriteWins
  BY WriteInvEnough DEF SendInv
<1> QED
  BY <1>1, InitSendInv, NextSendInv, InitWriteInv, NextWriteInv, PTL DEF Spec


-----------------------------------------------------------------------------
(* The lengths of the buffers *)

\* f sums up the sizes of the messages of buf from the front.
IsSum(f, buf) ==
  /\ f \in [0 .. Len(buf) -> Nat]
  /\ f[0] = 0
  /\ \A n \in 1 .. Len(buf) : f[n] = f[n - 1] + SizeOf[buf[n].id]

\* A message has a size.
LEMMA MessageSize ==
  ASSUME NEW m \in Message
  PROVE  SizeOf[m.id] \in Nat
  BY MessageFields, SizeAssumption

\* Every set of numbers that is not empty has a least one.
LEMMA LeastExists ==
  ASSUME NEW S \in SUBSET Nat, S # {}
  PROVE  \E n \in S : \A k \in S : n <= k
<1> DEFINE R == OpToRel(<, Nat)
<1>1. IsWellFoundedOn(R, Nat)
  BY NatLessThanWellFounded
<1>2. PICK n \in S : \A k \in S : ~(<<k, n>> \in R)
  <2> HIDE DEF R
  <2> QED
    BY <1>1, WFMin
<1>3. \A k \in S : ~(k < n)
  BY <1>2 DEF OpToRel
<1> QED
  BY <1>3

\* Every buffer has its sums: a shortest part of it that had none could be
\* extended from the part before.
LEMMA SumExists ==
  ASSUME NEW buf \in Seq(Message)
  PROVE  \E f : IsSum(f, buf)
<1> DEFINE P(n, f) == /\ f \in [0 .. n -> Nat]
                      /\ f[0] = 0
                      /\ \A i \in 1 .. n : f[i] = f[i - 1] + SizeOf[buf[i].id]
           S == {n \in 0 .. Len(buf) : ~ \E f : P(n, f)}
<1>1. Len(buf) \in Nat
  OBVIOUS
<1>2. S = {}
  <2> SUFFICES ASSUME S # {} PROVE FALSE
    OBVIOUS
  <2>1. PICK n \in S : \A k \in S : n <= k
    <3>1. S \subseteq Nat
      BY <1>1
    <3> HIDE DEF S
    <3> QED
      BY <3>1, LeastExists
  <2>2. n \in 0 .. Len(buf) /\ ~ \E f : P(n, f)
    BY <2>1
  <2>3. n # 0
    <3> DEFINE z == [i \in 0 .. 0 |-> 0]
    <3>1. P(0, z)
      OBVIOUS
    <3> QED
      BY <2>2, <3>1
  <2>4. PICK f : P(n - 1, f)
    <3>1. n - 1 \in 0 .. Len(buf) /\ ~(n <= n - 1)
      BY <1>1, <2>2, <2>3
    <3> QED
      BY <2>1, <3>1
  <2> DEFINE g == [i \in 0 .. n |-> IF i = n THEN f[n - 1] + SizeOf[buf[n].id] ELSE f[i]]
  <2>5. n \in 1 .. Len(buf) /\ SizeOf[buf[n].id] \in Nat
    BY <1>1, <2>2, <2>3, MessageSize
  <2>6. /\ g \in [0 .. n -> Nat] /\ \A i \in 0 .. n - 1 : g[i] = f[i]
        /\ g[n] = f[n - 1] + SizeOf[buf[n].id]
    BY <1>1, <2>4, <2>5
  <2>7. ASSUME NEW i \in 1 .. n PROVE g[i] = g[i - 1] + SizeOf[buf[i].id]
    <3>1. i - 1 \in 0 .. n - 1 /\ (i = n \/ i \in 1 .. n - 1)
      BY <1>1, <2>5
    <3> HIDE DEF g
    <3>2. CASE i = n
      BY <2>6, <3>1, <3>2
    <3>3. CASE i \in 1 .. n - 1
      <4>1. i \in 0 .. n - 1
        BY <1>1, <2>5, <3>3
      <4> QED
        BY <2>4, <2>6, <3>1, <3>3, <4>1
    <3> QED
      BY <3>1, <3>2, <3>3
  <2>8. g[0] = 0
    <3>1. 0 \in 0 .. n - 1
      BY <1>1, <2>5
    <3> QED
      BY <2>4, <2>6, <3>1
  <2>9. P(n, g)
    BY <2>6, <2>7, <2>8
  <2> QED
    BY <2>2, <2>9
<1>3. PICK f : P(Len(buf), f)
  <2>1. Len(buf) \in 0 .. Len(buf)
    BY <1>1
  <2> QED
    BY <1>2, <2>1
<1> QED
  BY <1>3 DEF IsSum

\* The recursive definition of the sums has the sums it says.
LEMMA SumsAre ==
  ASSUME NEW buf \in Seq(Message)
  PROVE  IsSum(Sums(buf), buf) /\ Bytes(buf) = Sums(buf)[Len(buf)] /\ Bytes(buf) \in Nat
<1> DEFINE Eq(f) ==
             f = [n \in 0 .. Len(buf) |-> IF n = 0 THEN 0 ELSE f[n - 1] + SizeOf[buf[n].id]]
<1>1. Len(buf) \in Nat
  OBVIOUS
<1>2. PICK f : IsSum(f, buf)
  BY SumExists
<1>3. Eq(f)
  <2>1. \A n \in 0 .. Len(buf) :
          f[n] = IF n = 0 THEN 0 ELSE f[n - 1] + SizeOf[buf[n].id]
    BY <1>1, <1>2 DEF IsSum
  <2> QED
    BY <1>2, <2>1 DEF IsSum
<1>4. Sums(buf) = CHOOSE g : Eq(g)
  BY Zenon DEF Sums
<1>5. Eq(Sums(buf))
  <2> HIDE DEF Eq
  <2> QED
    BY <1>3, <1>4, Zenon
<1> DEFINE s == Sums(buf)
<1>6. /\ DOMAIN s = 0 .. Len(buf) /\ s = [n \in 0 .. Len(buf) |-> s[n]]
      /\ \A n \in 0 .. Len(buf) : s[n] = IF n = 0 THEN 0 ELSE s[n - 1] + SizeOf[buf[n].id]
  BY <1>5
<1> HIDE DEF s
<1>7. \A n \in 0 .. Len(buf) : s[n] = f[n]
  <2> DEFINE S == {n \in 0 .. Len(buf) : s[n] # f[n]}
  <2> SUFFICES ASSUME S # {} PROVE FALSE
    OBVIOUS
  <2>1. PICK n \in S : \A k \in S : n <= k
    <3>1. S \subseteq Nat
      BY <1>1
    <3> HIDE DEF S
    <3> QED
      BY <3>1, LeastExists
  <2>2. n # 0
    BY <1>1, <1>2, <1>6, <2>1 DEF IsSum
  <2>3. n - 1 \in 0 .. Len(buf) /\ n \in 1 .. Len(buf) /\ n \in 0 .. Len(buf) /\ ~(n <= n - 1)
    BY <1>1, <2>1, <2>2
  <2>4. s[n - 1] = f[n - 1]
    BY <2>1, <2>3
  <2>5. s[n] = s[n - 1] + SizeOf[buf[n].id]
    BY <1>6, <2>2, <2>3
  <2>6. f[n] = f[n - 1] + SizeOf[buf[n].id]
    BY <1>2, <2>3 DEF IsSum
  <2> QED
    BY <2>1, <2>4, <2>5, <2>6
<1>8. s = f
  BY <1>2, <1>6, <1>7 DEF IsSum
<1>9. f[Len(buf)] \in Nat
  BY <1>1, <1>2 DEF IsSum
<1> QED
  BY <1>2, <1>8, <1>9 DEF Bytes, s

\* The sums of a part of a buffer are those of the buffer, less what lies before.
LEMMA SumsOfPart ==
  ASSUME NEW s \in Seq(Message), NEW t \in Seq(Message), NEW k \in Nat,
         k + Len(t) <= Len(s), \A i \in 1 .. Len(t) : s[k + i] = t[i]
  PROVE  \A n \in 0 .. Len(t) : Sums(s)[k + n] = Sums(s)[k] + Sums(t)[n]
<1> DEFINE f == Sums(s)
           g == Sums(t)
           S == {n \in 0 .. Len(t) : f[k + n] # f[k] + g[n]}
<1>1. Len(s) \in Nat /\ Len(t) \in Nat
  OBVIOUS
<1>2. IsSum(f, s) /\ IsSum(g, t)
  BY SumsAre
<1> HIDE DEF f, g
<1> SUFFICES ASSUME S # {} PROVE FALSE
  BY DEF f, g
<1>3. PICK n \in S : \A j \in S : n <= j
  <2>1. S \subseteq Nat
    BY <1>1
  <2> HIDE DEF S
  <2> QED
    BY <2>1, LeastExists
<1>4. n \in 0 .. Len(t) /\ f[k + n] # f[k] + g[n]
  BY <1>3
<1>5. n # 0
  <2>1. k \in 0 .. Len(s) /\ k + 0 = k
    BY <1>1
  <2>2. f[k] \in Nat
    BY <1>2, <2>1 DEF IsSum
  <2>3. g[0] = 0
    BY <1>2 DEF IsSum
  <2> QED
    BY <1>4, <2>1, <2>2, <2>3
<1>6. /\ n - 1 \in 0 .. Len(t) /\ n \in 1 .. Len(t) /\ ~(n <= n - 1)
      /\ k + n \in 1 .. Len(s) /\ k + n - 1 = k + (n - 1) /\ k \in 0 .. Len(s)
      /\ k + n - 1 \in 0 .. Len(s)
  BY <1>1, <1>4, <1>5
<1>7. f[k + (n - 1)] = f[k] + g[n - 1]
  BY <1>3, <1>6
<1>8. g[n] = g[n - 1] + SizeOf[t[n].id]
  BY <1>2, <1>6 DEF IsSum
<1>9. f[k + n] = f[k + (n - 1)] + SizeOf[t[n].id]
  <2>1. s[k + n] = t[n]
    BY <1>6
  <2>2. f[k + n] = f[k + n - 1] + SizeOf[s[k + n].id]
    BY <1>2, <1>6 DEF IsSum
  <2> QED
    BY <1>6, <2>1, <2>2
<1>10. f[k] \in Nat /\ g[n - 1] \in Nat /\ SizeOf[t[n].id] \in Nat
  <2>1. f \in [0 .. Len(s) -> Nat] /\ g \in [0 .. Len(t) -> Nat]
    BY <1>2 DEF IsSum
  <2>2. t[n] \in Message
    BY <1>6
  <2> QED
    BY <1>6, <2>1, <2>2, MessageSize
<1> QED
  BY <1>4, <1>7, <1>8, <1>9, <1>10


\* What bytes an empty buffer has, one more message, two buffers in a row, and a
\* buffer without its first message.
LEMMA BytesEmpty == Bytes(<<>>) = 0
<1>1. <<>> \in Seq(Message) /\ Len(<<>>) = 0
  OBVIOUS
<1> QED
  BY <1>1, SumsAre DEF IsSum

LEMMA BytesConcat ==
  ASSUME NEW s \in Seq(Message), NEW t \in Seq(Message)
  PROVE  Bytes(s \o t) = Bytes(s) + Bytes(t)
<1> DEFINE u == s \o t
<1>1. /\ u \in Seq(Message) /\ Len(u) = Len(s) + Len(t) /\ Len(s) \in Nat /\ Len(t) \in Nat
      /\ \A i \in 1 .. Len(s) : u[0 + i] = s[i]
      /\ \A i \in 1 .. Len(t) : u[Len(s) + i] = t[i]
  <2>1. u \in Seq(Message) /\ Len(u) = Len(s) + Len(t)
    BY ConcatProperties
  <2>2. ASSUME NEW i \in 1 .. Len(s) PROVE u[0 + i] = s[i]
    OBVIOUS
  <2>3. ASSUME NEW i \in 1 .. Len(t) PROVE u[Len(s) + i] = t[i]
    OBVIOUS
  <2> QED
    BY <2>1, <2>2, <2>3
<1> HIDE DEF u
<1>2. \A n \in 0 .. Len(s) : Sums(u)[0 + n] = Sums(u)[0] + Sums(s)[n]
  BY <1>1, SumsOfPart
<1>3. \A n \in 0 .. Len(t) : Sums(u)[Len(s) + n] = Sums(u)[Len(s)] + Sums(t)[n]
  <2>1. PICK k \in Nat : k = Len(s)
    BY <1>1
  <2>2. k + Len(t) <= Len(u) /\ \A i \in 1 .. Len(t) : u[k + i] = t[i]
    BY <1>1, <2>1
  <2>3. \A n \in 0 .. Len(t) : Sums(u)[k + n] = Sums(u)[k] + Sums(t)[n]
    BY <1>1, <2>2, SumsOfPart
  <2> QED
    BY <2>1, <2>3
<1>4. Sums(u)[0] = 0 /\ Bytes(s) \in Nat /\ Bytes(t) \in Nat
  BY <1>1, SumsAre DEF IsSum
<1>5. Bytes(u) = Sums(u)[Len(s) + Len(t)] /\ Bytes(s) = Sums(s)[Len(s)] /\ Bytes(t) = Sums(t)[Len(t)]
  BY <1>1, SumsAre
<1>6. Sums(u)[Len(s)] = Bytes(s)
  <2>1. Len(s) \in 0 .. Len(s) /\ 0 + Len(s) = Len(s)
    BY <1>1
  <2> QED
    BY <1>2, <1>4, <1>5, <2>1
<1>7. Sums(u)[Len(s) + Len(t)] = Sums(u)[Len(s)] + Bytes(t)
  <2>1. Len(t) \in 0 .. Len(t)
    BY <1>1
  <2> QED
    BY <1>3, <1>5, <2>1
<1> QED
  BY <1>5, <1>6, <1>7 DEF u

LEMMA BytesOne ==
  ASSUME NEW m \in Message
  PROVE  Bytes(<<m>>) = SizeOf[m.id]
<1>1. <<m>> \in Seq(Message) /\ Len(<<m>>) = 1 /\ <<m>>[1] = m
  OBVIOUS
<1>2. IsSum(Sums(<<m>>), <<m>>) /\ Bytes(<<m>>) = Sums(<<m>>)[1]
  BY <1>1, SumsAre
<1>3. Sums(<<m>>)[1] = Sums(<<m>>)[1 - 1] + SizeOf[<<m>>[1].id]
  <2>1. 1 \in 1 .. Len(<<m>>)
    BY <1>1
  <2> QED
    BY <1>2, <2>1 DEF IsSum
<1>4. Sums(<<m>>)[0] = 0 /\ SizeOf[m.id] \in Nat
  BY <1>2, MessageSize DEF IsSum
<1> QED
  BY <1>1, <1>2, <1>3, <1>4

LEMMA BytesAppend ==
  ASSUME NEW s \in Seq(Message), NEW m \in Message
  PROVE  Bytes(Append(s, m)) = Bytes(s) + SizeOf[m.id]
<1>1. Append(s, m) = s \o <<m>> /\ <<m>> \in Seq(Message)
  OBVIOUS
<1> QED
  BY <1>1, BytesConcat, BytesOne

LEMMA BytesTail ==
  ASSUME NEW s \in Seq(Message), s # <<>>
  PROVE  Bytes(Tail(s)) \in Nat /\ Bytes(Tail(s)) <= Bytes(s)
<1>1. Head(s) \in Message /\ Tail(s) \in Seq(Message) /\ s = <<Head(s)>> \o Tail(s)
      /\ <<Head(s)>> \in Seq(Message)
  OBVIOUS
<1>2. Bytes(s) = Bytes(<<Head(s)>>) + Bytes(Tail(s))
  BY <1>1, BytesConcat
<1>3. Bytes(<<Head(s)>>) \in Nat /\ Bytes(Tail(s)) \in Nat
  BY <1>1, SumsAre
<1> QED
  BY <1>2, <1>3

\* A buffer that is not full is below the limit.
LEMMA NotFull ==
  ASSUME NEW buf \in Seq(Message), ~Full(buf), MaxSendBuffer > 0
  PROVE  Bytes(buf) \in Nat /\ Bytes(buf) <= MaxSendBuffer - 1
  BY SumsAre, MaxAssumption DEF Full

LEMMA InitBounded == Init => BuffersBounded
<1> SUFFICES ASSUME Init, MaxSendBuffer > 0
             PROVE  /\ WithinOneMessage(Bytes(sendbuf), MaxSendBuffer - 1)
                    /\ WithinOneMessage(Bytes(tx), 2 * (MaxSendBuffer - 1))
  BY DEF BuffersBounded
<1>1. Bytes(sendbuf) = 0 /\ Bytes(tx) = 0
  BY BytesEmpty DEF Init
<1> QED
  BY <1>1, MaxAssumption DEF WithinOneMessage

\* A message that is accepted.
LEMMA EnqueueBounded ==
  ASSUME TypeOK, BuffersBounded, NEW b \in Blocks, NEW v \in Values, Enqueue(b, v)
  PROVE  BuffersBounded'
<1> SUFFICES ASSUME MaxSendBuffer > 0 PROVE BuffersBounded'
  BY DEF BuffersBounded
<1>1. WithinOneMessage(Bytes(tx), 2 * (MaxSendBuffer - 1)) /\ tx' = tx
  BY DEF BuffersBounded, Enqueue, Refuse
<1>2. CASE sendbuf' = sendbuf
  BY <1>1, <1>2 DEF BuffersBounded, WithinOneMessage
<1>3. CASE ~Full(sendbuf) /\ sendbuf' = Append(sendbuf, [id |-> b, body |-> v])
  <2>1. sendbuf \in Seq(Message) /\ [id |-> b, body |-> v] \in Message
    BY DEF TypeOK, Message
  <2>2. Bytes(sendbuf) \in Nat /\ Bytes(sendbuf) <= MaxSendBuffer - 1
    BY <1>3, <2>1, NotFull
  <2>3. Bytes(sendbuf') = Bytes(sendbuf) + SizeOf[b]
    BY <1>3, <2>1, BytesAppend
  <2>4. WithinOneMessage(Bytes(sendbuf'), MaxSendBuffer - 1)
    BY <2>2, <2>3, SizeAssumption, MaxAssumption DEF WithinOneMessage
  <2> QED
    BY <1>1, <2>4 DEF BuffersBounded, WithinOneMessage
<1> QED
  BY <1>2, <1>3 DEF Enqueue, Refuse

\* A flush adds one send buffer to an output buffer below the limit.
LEMMA FlushBounded ==
  ASSUME TypeOK, BuffersBounded, FlushDone
  PROVE  BuffersBounded'
<1> SUFFICES ASSUME MaxSendBuffer > 0 PROVE BuffersBounded'
  BY DEF BuffersBounded
<1>1. /\ sendbuf \in Seq(Message) /\ tx \in Seq(Message) /\ ~Full(tx)
      /\ tx' = tx \o sendbuf /\ sendbuf' = <<>>
  BY DEF FlushDone, TypeOK
<1>2. Bytes(tx) \in Nat /\ Bytes(tx) <= MaxSendBuffer - 1
  BY <1>1, NotFull
<1>3. Bytes(tx') = Bytes(tx) + Bytes(sendbuf) /\ Bytes(sendbuf) \in Nat /\ Bytes(sendbuf') = 0
  BY <1>1, BytesConcat, BytesEmpty, SumsAre
<1>4. WithinOneMessage(Bytes(sendbuf), MaxSendBuffer - 1)
  BY DEF BuffersBounded
<1>5. WithinOneMessage(Bytes(tx'), 2 * (MaxSendBuffer - 1))
  BY <1>2, <1>3, <1>4, SizeAssumption, MaxAssumption DEF WithinOneMessage
<1>6. WithinOneMessage(Bytes(sendbuf'), MaxSendBuffer - 1)
  BY <1>3, MaxAssumption DEF WithinOneMessage
<1> QED
  BY <1>5, <1>6 DEF BuffersBounded, WithinOneMessage

\* A buffer that only loses messages stays within its bound.
LEMMA LessBounded ==
  ASSUME TypeOK, BuffersBounded, sendbuf' = sendbuf \/ sendbuf' = <<>>,
         tx' = tx \/ tx' = <<>> \/ (tx # <<>> /\ tx' = Tail(tx))
  PROVE  BuffersBounded'
<1> SUFFICES ASSUME MaxSendBuffer > 0 PROVE BuffersBounded'
  BY DEF BuffersBounded
<1>1. sendbuf \in Seq(Message) /\ tx \in Seq(Message)
  BY DEF TypeOK
<1>2. /\ Bytes(sendbuf) \in Nat /\ Bytes(sendbuf') \in Nat /\ Bytes(sendbuf') <= Bytes(sendbuf)
      /\ Bytes(tx) \in Nat /\ Bytes(tx') \in Nat /\ Bytes(tx') <= Bytes(tx)
  <2>1. Bytes(sendbuf) \in Nat /\ Bytes(tx) \in Nat
    BY <1>1, SumsAre
  <2>2. Bytes(sendbuf') \in Nat /\ Bytes(sendbuf') <= Bytes(sendbuf)
    <3>1. CASE sendbuf' = sendbuf
      BY <2>1, <3>1
    <3>2. CASE sendbuf' = <<>>
      BY <2>1, <3>2, BytesEmpty
    <3> QED
      BY <3>1, <3>2
  <2>3. Bytes(tx') \in Nat /\ Bytes(tx') <= Bytes(tx)
    <3>1. CASE tx' = tx
      BY <2>1, <3>1
    <3>2. CASE tx' = <<>>
      BY <2>1, <3>2, BytesEmpty
    <3>3. CASE tx # <<>> /\ tx' = Tail(tx)
      BY <1>1, <3>3, BytesTail
    <3> QED
      BY <3>1, <3>2, <3>3
  <2> QED
    BY <2>1, <2>2, <2>3
<1>3. ASSUME NEW n \in Nat, NEW k \in Nat, k <= n, NEW limit \in Nat, WithinOneMessage(n, limit)
      PROVE  WithinOneMessage(k, limit)
  BY <1>3, SizeAssumption DEF WithinOneMessage
<1>4. MaxSendBuffer - 1 \in Nat /\ 2 * (MaxSendBuffer - 1) \in Nat
  BY MaxAssumption
<1>5. /\ WithinOneMessage(Bytes(sendbuf'), MaxSendBuffer - 1)
      /\ WithinOneMessage(Bytes(tx'), 2 * (MaxSendBuffer - 1))
  BY <1>2, <1>3, <1>4 DEF BuffersBounded
<1> QED
  BY <1>5 DEF BuffersBounded, WithinOneMessage

LEMMA NextBounded == TypeOK /\ BuffersBounded /\ [Next]_vars => BuffersBounded'
<1> SUFFICES ASSUME TypeOK, BuffersBounded, [Next]_vars PROVE BuffersBounded'
  OBVIOUS
<1>1. ASSUME NEW b \in Blocks, NEW v \in Values, WriteField(b, v) PROVE BuffersBounded'
  BY <1>1, LessBounded DEF WriteField
<1>2. ASSUME NEW b \in Blocks, NEW v \in Values, WriteBlock(b, v) PROVE BuffersBounded'
  BY <1>2, EnqueueBounded, LessBounded DEF WriteBlock, Refuse
<1>3. ASSUME NEW b \in Blocks, SendBlock(b) PROVE BuffersBounded'
  <2>1. scratch[b] \in Values
    BY DEF TypeOK
  <2> QED
    BY <1>3, <2>1, EnqueueBounded, LessBounded DEF SendBlock, Refuse
<1>4. CASE SendAll
  BY <1>4, FlushBounded, LessBounded DEF SendAll, Refuse
<1>5. CASE ConnUp
  BY <1>5, LessBounded DEF ConnUp
<1>6. CASE ConnDown
  BY <1>6, LessBounded DEF ConnDown
<1>7. CASE DeviceReceives
  BY <1>7, LessBounded DEF DeviceReceives
<1>8. CASE UNCHANGED vars
  BY <1>8, LessBounded DEF vars
<1> QED
  BY <1>1, <1>2, <1>3, <1>4, <1>5, <1>6, <1>7, <1>8 DEF Next, Records

\* PSCMaxSendBuffer bounds both buffers, however long the messages are and in
\* whatever order they are queued and flushed (queueSend(), flushSend()).
THEOREM BoundedBuffers == Spec => []BuffersBounded
  BY InitBounded, NextBounded, SendTypeCorrectness, PTL DEF Spec
=============================================================================
