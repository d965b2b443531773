------------------------ MODULE TargetListenerProofs ------------------------
(***************************************************************************)
(* What a peer receives, how the clients are counted and what the list of  *)
(* clients holds, for every number of clients, descriptors and memory      *)
(* blocks.  The first two do not rest on the list, which may be broken.    *)
(***************************************************************************)
EXTENDS TargetListenerProps, SequenceTheorems, FiniteSetTheorems, WellFoundedInduction, TLAPS

\* What TypeOK says without the list
Shape ==
  /\ acceptor \in Clients \cup {Null}
  /\ active \in [Clients -> BOOLEAN] /\ sock \in [Clients -> Fds \cup {Null}]
  /\ pc \in [Clients -> {"none", "hello", "count", "recv", "echo", "unlink", "close"}]
  /\ conn \in [Fds -> Clients \cup {Null}]
  /\ stream \in [Clients -> {"whole", "partial", "mixed"}]

\* A descriptor stands for the connection of the client that holds it or for that
\* of one that got it later; a connection with a broken message has none
SockInv ==
  /\ \A c \in Clients : ~IsFree(c) => sock[c] \in Fds
  /\ \A f \in Fds, c \in Clients : conn[f] = c => sock[c] = f /\ ~IsFree(c)
  /\ \A c \in Clients : stream[c] # "whole" =>
       stream[c] = "partial" /\ ~IsFree(c) /\ \A f \in Fds : conn[f] # c

PeerInv == Shape /\ SockInv

\* The clients that are in the count, or about to be
Here == {c \in Clients : pc[c] \notin {"none", "close"}}
Uncounted == IF acceptor = Null THEN 0 ELSE 1

-----------------------------------------------------------------------------
(* Sending *)

LEMMA SendKeeps ==
  ASSUME PeerInv, NEW good \in SUBSET Clients, NEW bad \in SUBSET Clients,
         \A c \in good \cup bad : ~IsFree(c), Send(good, bad),
         UNCHANGED <<acceptor, sock>>,
         pc' \in [Clients -> {"none", "hello", "count", "recv", "echo", "unlink", "close"}],
         \A c \in Clients : IsFree(c)' <=> IsFree(c)
  PROVE  PeerInv'
<1> DEFINE Peers(S) == {conn[sock[c]] : c \in S} \ {Null}
<1>1. /\ \A c \in good : conn[sock[c]] # Null
      /\ stream' = [d \in Clients |->
                     IF d \in Peers(bad) THEN "partial"
                     ELSE IF d \in Peers(good) /\ stream[d] # "whole" THEN "mixed" ELSE stream[d]]
      /\ active' = [c \in Clients |-> active[c] /\ c \notin bad]
      /\ conn' = [f \in Fds |-> IF f \in {sock[c] : c \in bad} THEN Null ELSE conn[f]]
  BY DEF Send, IsClosed
<1>2. \A c \in good \cup bad : sock[c] \in Fds
  BY DEF PeerInv, SockInv
<1>3. \A d \in Clients : d \in Peers(good) => stream[d] = "whole"
  BY <1>2 DEF PeerInv, SockInv
<1>4. stream' = [d \in Clients |-> IF d \in Peers(bad) THEN "partial" ELSE stream[d]]
  BY <1>1, <1>3
<1>5. Shape'
  BY <1>1, <1>4 DEF PeerInv, Shape
<1>6. \A d \in Clients : d \in Peers(bad) => ~IsFree(d) /\ \A f \in Fds : conn'[f] # d
  <2> SUFFICES ASSUME NEW d \in Clients, d \in Peers(bad)
               PROVE  ~IsFree(d) /\ \A f \in Fds : conn'[f] # d
    OBVIOUS
  <2>1. PICK c \in bad : d = conn[sock[c]]
    OBVIOUS
  <2>2. sock[d] = sock[c] /\ ~IsFree(d)
    BY <1>2, <2>1 DEF PeerInv, SockInv
  <2>3. ASSUME NEW f \in Fds, conn'[f] = d PROVE FALSE
    <3>1. d # Null
      BY NullAssumption
    <3>2. conn[f] = d /\ f # sock[c]
      BY <1>1, <2>3, <3>1
    <3> QED BY <2>2, <3>2 DEF PeerInv, SockInv
  <2> QED BY <2>2, <2>3
<1>7. \A f \in Fds, c \in Clients : conn'[f] = c => conn[f] = c
  BY <1>1, NullAssumption
<1>8. SockInv'
  BY <1>4, <1>6, <1>7 DEF PeerInv, SockInv
<1> QED
  BY <1>5, <1>8 DEF PeerInv

\* A client's thread moves on and stays alive
LEMMA GotoKeeps ==
  ASSUME Shape, NEW c \in Clients,
         NEW l \in {"none", "hello", "count", "recv", "echo", "unlink", "close"}, Goto(c, l)
  PROVE  /\ pc' \in [Clients -> {"none", "hello", "count", "recv", "echo", "unlink", "close"}]
         /\ pc'[c] = l /\ \A d \in Clients \ {c} : pc'[d] = pc[d]
         /\ ~IsFree(c) /\ l # "none" => \A d \in Clients : IsFree(d)' <=> IsFree(d)
  BY DEF Shape, Goto, IsFree

LEMMA SendAllKeeps ==
  ASSUME PeerInv, SendAll, UNCHANGED <<acceptor, sock>>,
         pc' \in [Clients -> {"none", "hello", "count", "recv", "echo", "unlink", "close"}],
         \A c \in Clients : IsFree(c)' <=> IsFree(c)
  PROVE  PeerInv'
<1>1. CASE ~WalkIsSafe
  <2>1. UNCHANGED <<stream, active, conn>>
    BY <1>1 DEF SendAll
  <2> QED BY <2>1 DEF PeerInv, Shape, SockInv
<1>2. CASE WalkIsSafe
  <2> DEFINE reached == {c \in Walk : active[c]}
  <2>1. PICK bad \in SUBSET reached : Send(reached \ bad, bad)
    BY <1>2 DEF SendAll
  <2>2. Walk \subseteq Clients /\ \A c \in Walk : ~IsFree(c)
    BY <1>2 DEF Walk, WalkIsSafe
  <2> QED BY <2>1, <2>2, SendKeeps
<1> QED BY <1>1, <1>2

-----------------------------------------------------------------------------
(* The peers *)

LEMMA InitPeers == Init => PeerInv
  BY NullAssumption DEF Init, PeerInv, Shape, SockInv, IsFree

LEMMA ThreadKeepsPeers ==
  ASSUME PeerInv, NEW c \in Clients, Thread(c)
  PROVE  PeerInv'
<1>1. Shape
  BY DEF PeerInv
<1>2. CASE Greet(c)
  <2>1. PICK l \in {"count", "recv"} : Goto(c, l)
    BY <1>2 DEF Greet
  <2>2. ~IsFree(c) /\ SendOne(c) /\ UNCHANGED <<acceptor, sock>>
    BY <1>2 DEF Greet, IsFree, list_vars
  <2>3. /\ pc' \in [Clients -> {"none", "hello", "count", "recv", "echo", "unlink", "close"}]
        /\ \A d \in Clients : IsFree(d)' <=> IsFree(d)
    BY <1>1, <2>1, <2>2, GotoKeeps
  <2>4. Send({c}, {}) \/ Send({}, {c})
    BY <2>2 DEF SendOne
  <2>5. {} \in SUBSET Clients /\ {c} \in SUBSET Clients
    OBVIOUS
  <2>6. CASE Send({c}, {})
    BY <2>2, <2>3, <2>5, <2>6, SendKeeps
  <2>7. CASE Send({}, {c})
    BY <2>2, <2>3, <2>5, <2>7, SendKeeps
  <2> QED BY <2>4, <2>6, <2>7
<1>3. CASE Receive(c) \/ ReceiveFails(c)
  <2>1. UNCHANGED <<acceptor, active, sock, conn, stream>> /\ pc[c] = "recv"
    BY <1>3 DEF Receive, ReceiveFails, sock_vars
  <2>2. (\E l \in {"echo", "unlink"} : Goto(c, l)) \/ UNCHANGED pc
    BY <1>3 DEF Receive, ReceiveFails
  <2>3. ~IsFree(c)
    BY <2>1 DEF IsFree
  <2>4. /\ pc' \in [Clients -> {"none", "hello", "count", "recv", "echo", "unlink", "close"}]
        /\ \A d \in Clients : IsFree(d)' <=> IsFree(d)
    BY <1>1, <2>2, <2>3, GotoKeeps DEF Shape, IsFree
  <2> QED BY <2>1, <2>4 DEF PeerInv, Shape, SockInv
<1>4. CASE Echo(c)
  <2>1. Goto(c, "recv") /\ pc[c] = "echo" /\ SendAll /\ UNCHANGED <<acceptor, sock>>
    BY <1>4 DEF Echo
  <2>2. ~IsFree(c)
    BY <2>1 DEF IsFree
  <2> QED BY <1>1, <2>1, <2>2, GotoKeeps, SendAllKeeps
<1>5. CASE Unlink(c)
  <2>1. Goto(c, "close") /\ pc[c] = "unlink" /\ UNCHANGED <<acceptor, active, sock, conn, stream>>
    BY <1>5 DEF Unlink, sock_vars
  <2>2. ~IsFree(c)
    BY <2>1 DEF IsFree
  <2>3. /\ pc' \in [Clients -> {"none", "hello", "count", "recv", "echo", "unlink", "close"}]
        /\ \A d \in Clients : IsFree(d)' <=> IsFree(d)
    BY <1>1, <2>1, <2>2, GotoKeeps
  <2> QED BY <2>1, <2>3 DEF PeerInv, Shape, SockInv
<1>6. CASE CloseAndFree(c)
  <2>1. /\ pc[c] = "close" /\ UNCHANGED acceptor
        /\ conn' = [conn EXCEPT ![sock[c]] = Null]
        /\ active' = [active EXCEPT ![c] = FALSE] /\ sock' = [sock EXCEPT ![c] = Null]
        /\ stream' = [stream EXCEPT ![c] = "whole"]
    BY <1>6 DEF CloseAndFree
  <2>2. /\ pc' \in [Clients -> {"none", "hello", "count", "recv", "echo", "unlink", "close"}]
        /\ pc'[c] = "none" /\ \A d \in Clients \ {c} : pc'[d] = pc[d]
    BY <1>1, <1>6, GotoKeeps DEF CloseAndFree
  <2>3. sock[c] \in Fds
    BY <2>1 DEF PeerInv, SockInv, IsFree
  <2>4. Shape'
    BY <1>1, <2>1, <2>2 DEF Shape
  <2>5. \A f \in Fds, d \in Clients : conn'[f] = d => conn[f] = d /\ d # c
    BY <1>1, <2>1, <2>3, NullAssumption DEF PeerInv, SockInv, Shape
  <2> QED BY <1>1, <2>1, <2>2, <2>4, <2>5 DEF PeerInv, SockInv, IsFree, Shape
<1> QED
  BY <1>2, <1>3, <1>4, <1>5, <1>6 DEF Thread

LEMMA PeerInvariance == Spec => []PeerInv
<1>1. PeerInv /\ [Next]_vars => PeerInv'
  <2> SUFFICES ASSUME PeerInv, [Next]_vars PROVE PeerInv'
    OBVIOUS
  <2>1. CASE UNCHANGED vars
    BY <2>1 DEF vars, sock_vars, PeerInv, Shape, SockInv, IsFree
  <2>2. ASSUME NEW c \in Clients, NEW f \in Fds, Accept(c, f) PROVE PeerInv'
    <3>1. /\ IsFree(c) /\ conn[f] = Null /\ acceptor' = c
          /\ sock' = [sock EXCEPT ![c] = f] /\ conn' = [conn EXCEPT ![f] = c]
          /\ UNCHANGED <<active, stream>>
      BY <2>2 DEF Accept
    <3>2. /\ pc' \in [Clients -> {"none", "hello", "count", "recv", "echo", "unlink", "close"}]
          /\ pc'[c] = "hello" /\ \A d \in Clients \ {c} : pc'[d] = pc[d]
      BY <2>2, GotoKeeps DEF Accept, PeerInv
    <3>3. Shape'
      BY <3>1, <3>2 DEF PeerInv, Shape
    <3>4. \A g \in Fds, d \in Clients : conn'[g] = d => (d = c /\ g = f) \/ (d # c /\ conn[g] = d)
      BY <3>1 DEF PeerInv, Shape, SockInv
    <3>5. stream[c] = "whole"
      BY <3>1 DEF PeerInv, SockInv
    <3> QED BY <3>1, <3>2, <3>3, <3>4, <3>5 DEF PeerInv, SockInv, IsFree, Shape
  <2>3. CASE Link
    <3>1. acceptor \in Clients /\ acceptor' = Null /\ UNCHANGED <<sock, pc, conn, stream>>
      BY <2>3 DEF Link, sock_vars, PeerInv, Shape
    <3>2. active' \in [Clients -> BOOLEAN]
      BY <2>3 DEF Link, PeerInv, Shape
    <3> QED BY <3>1, <3>2 DEF PeerInv, Shape, SockInv, IsFree
  <2>4. CASE Periodic
    <3>1. SendAll /\ UNCHANGED <<acceptor, sock, pc>>
      BY <2>4 DEF Periodic
    <3> QED BY <3>1, SendAllKeeps DEF PeerInv, Shape, IsFree
  <2> QED BY <2>1, <2>2, <2>3, <2>4, ThreadKeepsPeers DEF Next
<1> QED BY <1>1, InitPeers, PTL DEF Spec

-----------------------------------------------------------------------------
(* The count *)

LEMMA RemainderIsUnique ==
  ASSUME NEW q \in Int, NEW r \in Nat, NEW m \in Nat \ {0}, r < m
  PROVE  (m * q + r) % m = r
  OBVIOUS

LEMMA Division ==
  ASSUME NEW x \in Int, NEW m \in Nat \ {0}
  PROVE  x \div m \in Int /\ x % m \in 0 .. m-1 /\ x = m * (x \div m) + (x % m)
  OBVIOUS

\* Counting up and down, modulo 2^32
LEMMA CountUp ==
  ASSUME NEW x \in Int, NEW m \in Nat \ {0}
  PROVE  ((x % m) + 1) % m = (x + 1) % m
<1> DEFINE q == x \div m
           r == x % m
<1>1. q \in Int /\ r \in 0 .. m-1 /\ x = m * q + r
  BY Division
<1> HIDE DEF q, r
<1>2. CASE r + 1 < m
  <2>1. x + 1 = m * q + (r + 1) /\ r + 1 = m * 0 + (r + 1)
    BY <1>1
  <2>2. (m * q + (r + 1)) % m = r + 1 /\ (m * 0 + (r + 1)) % m = r + 1
    BY <1>1, <1>2, RemainderIsUnique
  <2> QED BY <2>1, <2>2 DEF r
<1>3. CASE r + 1 = m
  <2>1. x + 1 = m * (q + 1) + 0 /\ r + 1 = m * 1 + 0
    BY <1>1, <1>3
  <2>2. (m * (q + 1) + 0) % m = 0 /\ (m * 1 + 0) % m = 0
    BY <1>1, RemainderIsUnique
  <2> QED BY <2>1, <2>2 DEF r
<1> QED BY <1>1, <1>2, <1>3

LEMMA CountDown ==
  ASSUME NEW x \in Int, NEW m \in Nat \ {0}
  PROVE  ((x % m) + m - 1) % m = (x - 1) % m
<1> DEFINE q == x \div m
           r == x % m
<1>1. q \in Int /\ r \in 0 .. m-1 /\ x = m * q + r
  BY Division
<1> HIDE DEF q, r
<1>2. CASE r > 0
  <2>1. x - 1 = m * q + (r - 1) /\ r + m - 1 = m * 1 + (r - 1)
    BY <1>1
  <2>2. (m * q + (r - 1)) % m = r - 1 /\ (m * 1 + (r - 1)) % m = r - 1
    BY <1>1, <1>2, RemainderIsUnique
  <2> QED BY <2>1, <2>2 DEF r
<1>3. CASE r = 0
  <2>1. x - 1 = m * (q - 1) + (m - 1) /\ r + m - 1 = m * 0 + (m - 1)
    BY <1>1, <1>3
  <2>2. (m * (q - 1) + (m - 1)) % m = m - 1 /\ (m * 0 + (m - 1)) % m = m - 1
    BY <1>1, RemainderIsUnique
  <2> QED BY <2>1, <2>2 DEF r
<1> QED BY <1>1, <1>2, <1>3

LEMMA HereIsFinite ==
  /\ IsFiniteSet(Here) /\ Cardinality(Here) \in Nat
  /\ \A c \in Here : Cardinality(Here \ {c}) = Cardinality(Here) - 1
  /\ \A c \in Clients \ Here : Cardinality(Here \cup {c}) = Cardinality(Here) + 1
  BY FiniteAssumption, FS_Subset, FS_CardinalityType, FS_AddElement, FS_RemoveElement DEF Here

LEMMA CountSteps ==
  ASSUME PeerInv, CountIsExact, [Next]_vars
  PROVE  CountIsExact'
<1> DEFINE N == Cardinality(Here)
<1> USE DEF Here
<1>1. CountMod \in Nat \ {0} /\ N \in Int /\ Shape
  BY CountAssumption, HereIsFinite DEF PeerInv
<1>2. ASSUME ~wild PROVE client_count = (N - Uncounted) % CountMod
  BY <1>2 DEF CountIsExact, Uncounted
<1>3. ASSUME UNCHANGED <<acceptor, client_count>>, wild' \/ ~wild, Here' = Here
      PROVE  CountIsExact'
  BY <1>3 DEF CountIsExact
<1>4. ASSUME NEW c \in Clients, NEW f \in Fds, Accept(c, f) PROVE CountIsExact'
  <2>1. /\ ~wild /\ acceptor = Null /\ acceptor' = c /\ c # Null /\ IsFree(c)
        /\ client_count' = client_count
    BY <1>4, NullAssumption DEF Accept, list_vars
  <2>2. pc'[c] = "hello" /\ \A d \in Clients \ {c} : pc'[d] = pc[d]
    BY <1>1, <1>4, GotoKeeps DEF Accept
  <2>3. Here' = Here \cup {c} /\ c \notin Here
    BY <2>1, <2>2 DEF IsFree
  <2>4. Cardinality(Here') = N + 1
    BY <2>3, HereIsFinite
  <2> QED BY <1>1, <1>2, <2>1, <2>4 DEF CountIsExact, Uncounted
<1>5. CASE Link
  <2>1. ~wild /\ acceptor # Null /\ acceptor' = Null /\ UNCHANGED pc
    BY <1>5 DEF Link
  <2>2. wild' \/ client_count' = (client_count + 1) % CountMod
    BY <1>5 DEF Link
  <2>3. client_count = (N - 1) % CountMod
    BY <1>2, <2>1 DEF Uncounted
  <2>4. (((N - 1) % CountMod) + 1) % CountMod = (N - 1 + 1) % CountMod
    BY <1>1, CountUp
  <2> QED BY <1>1, <2>1, <2>2, <2>3, <2>4 DEF CountIsExact
<1>6. ASSUME NEW c \in Clients, Unlink(c) PROVE CountIsExact'
  <2>1. ~wild /\ pc[c] = "unlink" /\ UNCHANGED acceptor
    BY <1>6 DEF Unlink
  <2>2. wild' \/ client_count' = (client_count + CountMod - 1) % CountMod
    BY <1>6 DEF Unlink, CountLess
  <2>3. pc'[c] = "close" /\ \A d \in Clients \ {c} : pc'[d] = pc[d]
    BY <1>1, <1>6, GotoKeeps DEF Unlink
  <2>4. Here' = Here \ {c} /\ c \in Here
    BY <2>1, <2>3
  <2>5. Cardinality(Here') = N - 1
    BY <2>4, HereIsFinite
  <2>6. Uncounted \in Int /\ Uncounted' = Uncounted
    BY <2>1 DEF Uncounted
  <2>7. (((N - Uncounted) % CountMod) + CountMod - 1) % CountMod = (N - Uncounted - 1) % CountMod
    BY <1>1, <2>6, CountDown
  <2>8. N - Uncounted - 1 = Cardinality(Here') - Uncounted'
    BY <1>1, <2>5, <2>6
  <2> QED BY <1>2, <2>1, <2>2, <2>7, <2>8 DEF CountIsExact, Uncounted
<1>7. ASSUME NEW c \in Clients, Greet(c) \/ Receive(c) \/ Echo(c) \/ ReceiveFails(c)
                               \/ CloseAndFree(c)
      PROVE  CountIsExact'
  <2>1. /\ ~wild /\ UNCHANGED <<acceptor, client_count>>
    BY <1>7 DEF Greet, Receive, Echo, ReceiveFails, CloseAndFree, list_vars
  <2>2. \/ UNCHANGED pc
        \/ pc[c] = "close" /\ Goto(c, "none")
        \/ /\ pc[c] \in {"hello", "count", "recv", "echo"}
           /\ \E l \in {"count", "recv", "echo", "unlink"} : Goto(c, l)
    BY <1>7 DEF Greet, Receive, Echo, ReceiveFails, CloseAndFree
  <2>3. Here' = Here
    BY <1>1, <2>2, GotoKeeps
  <2> QED BY <1>3, <2>1, <2>3
<1>8. CASE Periodic \/ UNCHANGED vars
  <2>1. UNCHANGED <<acceptor, client_count, pc>> /\ (wild' \/ ~wild)
    BY <1>8 DEF Periodic, vars, list_vars
  <2> QED BY <1>3, <2>1
<1> QED
  BY <1>4, <1>5, <1>6, <1>7, <1>8 DEF Next, Thread

LEMMA InitCount == Init => CountIsExact
<1> SUFFICES ASSUME Init PROVE CountIsExact
  OBVIOUS
<1>1. {c \in Clients : pc[c] \notin {"none", "close"}} = {}
  BY DEF Init
<1>2. 0 % CountMod = 0
  <2>1. CountMod \in Nat \ {0} /\ CountMod * 0 + 0 = 0
    BY CountAssumption
  <2> QED BY <2>1, RemainderIsUnique
<1>3. Cardinality({c \in Clients : pc[c] \notin {"none", "close"}}) = 0
  BY <1>1, FS_EmptySet
<1>4. acceptor = Null /\ client_count = 0
  BY DEF Init
<1> QED
  BY <1>2, <1>3, <1>4 DEF CountIsExact

-----------------------------------------------------------------------------
(* The list *)

\* The list from its end to its head, as it grows and shrinks
IsStack(s) ==
  /\ linked = {s[i] : i \in 1 .. Len(s)}
  /\ \A i, j \in 1 .. Len(s) : s[i] = s[j] => i = j
  /\ client_head = IF Len(s) = 0 THEN Null ELSE s[Len(s)]
  /\ \A i \in 1 .. Len(s) : next[s[i]] = IF i = 1 THEN Null ELSE s[i - 1]

\* The list is a stack as long as only its head leaves it.  prev is never set: a
\* client that is not the head is taken out as if it were.
ListInv ==
  /\ client_head \in Clients \cup {Null}
  /\ next \in [Clients -> Clients \cup {Null}]
  /\ prev = [c \in Clients |-> Null]
  /\ ~astray =>
       /\ ~wild
       /\ linked = Here \ {acceptor}
       /\ acceptor # Null => acceptor \in Here /\ next[acceptor] = Null
       /\ \A c \in Clients : IsFree(c) => next[c] = Null
       /\ \E s \in Seq(Clients) : IsStack(s)

\* Every set of numbers that is not empty has a least one.
LEMMA LeastExists ==
  ASSUME NEW S \in SUBSET Nat, S # {}
  PROVE  \E n \in S : \A k \in S : n <= k
<1> DEFINE R == OpToRel(<, Nat)
<1>1. IsWellFoundedOn(R, Nat)
  BY NatLessThanWellFounded
<1>2. PICK n \in S : \A k \in S : ~(<<k, n>> \in R)
  <2> HIDE DEF R
  <2> QED BY <1>1, WFMin
<1>3. \A k \in S : ~(k < n)
  BY <1>2 DEF OpToRel
<1> QED BY <1>3

\* A stack without doubles is not higher than there are clients.
LEMMA StackIsLow ==
  ASSUME NEW s \in Seq(Clients), IsStack(s)
  PROVE  Len(s) \in Nat /\ Cardinality(Clients) \in Nat /\ Len(s) <= Cardinality(Clients)
<1> DEFINE n == Len(s)
<1>1. n \in Nat /\ s \in [1 .. n -> Clients] /\ Cardinality(Clients) \in Nat
  BY FiniteAssumption, FS_CardinalityType
<1>2. IsFiniteSet(1 .. n) /\ Cardinality(1 .. n) = n
  <2>1. 1 \in Int /\ n \in Int
    BY <1>1
  <2>2. IsFiniteSet(1 .. n) /\ Cardinality(1 .. n) = IF 1 > n THEN 0 ELSE n - 1 + 1
    <3> HIDE DEF n
    <3> QED BY <2>1, FS_Interval
  <2> QED BY <1>1, <2>2
<1>3. ~(Cardinality(Clients) < Cardinality(1 .. n))
  <2> SUFFICES ASSUME Cardinality(Clients) < Cardinality(1 .. n) PROVE FALSE
    OBVIOUS
  <2>1. PICK x, y \in 1 .. n : x # y /\ s[x] = s[y]
    BY <1>1, <1>2, FiniteAssumption, FS_PigeonHole
  <2> QED BY <2>1 DEF IsStack
<1> QED BY <1>1, <1>2, <1>3

\* After k steps a walk has come to the k + 1 newest clients, and to the end of
\* the list when there are not more.
LEMMA WalkSteps ==
  ASSUME NEW s \in Seq(Clients), IsStack(s), NEW k \in 0 .. Cardinality(Clients)
  PROVE  Reached[k] = {s[i] : i \in {j \in 1 .. Len(s) : j >= Len(s) - k}}
                        \cup {x \in {Null} : k >= Len(s)}
<1> DEFINE N == Cardinality(Clients)
           n == Len(s)
           At(m) == {s[i] : i \in {j \in 1 .. n : j >= n - m}} \cup {x \in {Null} : m >= n}
           Step(f, m) == IF m = 0 THEN {client_head}
                         ELSE f[m - 1] \cup {next[c] : c \in f[m - 1] \ {Null}}
           Eq(f) == f = [m \in 0 .. N |-> Step(f, m)]
           g == [m \in 0 .. N |-> At(m)]
<1>1. n \in Nat /\ N \in Nat /\ n <= N
  BY StackIsLow
<1>2. \A i \in 1 .. n : s[i] \in Clients /\ s[i] # Null
  BY <1>1, NullAssumption
<1>3. At(0) = {client_head}
  BY <1>1 DEF IsStack
<1>4. ASSUME NEW m \in 1 .. N
      PROVE  At(m) = At(m - 1) \cup {next[c] : c \in At(m - 1) \ {Null}}
  <2> DEFINE I(l) == {j \in 1 .. n : j >= n - l}
  <2>1. At(m - 1) \ {Null} = {s[i] : i \in I(m - 1)}
    BY <1>2
  <2>2. {next[c] : c \in At(m - 1) \ {Null}} = {next[s[i]] : i \in I(m - 1)}
    BY <2>1
  <2>3. ASSUME NEW x \in At(m) PROVE x \in At(m - 1) \/ x \in {next[s[i]] : i \in I(m - 1)}
    <3>1. CASE x \in {s[i] : i \in I(m)}
      <4>1. PICK i \in I(m) : x = s[i]
        BY <3>1
      <4>2. CASE i \in I(m - 1)
        BY <4>1, <4>2
      <4>3. CASE i \notin I(m - 1)
        <5>1. i = n - m /\ i + 1 \in 1 .. n /\ i + 1 >= n - (m - 1) /\ i + 1 # 1
          BY <1>1, <4>1, <4>3
        <5>2. next[s[i + 1]] = s[i]
          <6>1. (i + 1) - 1 = i
            BY <1>1, <4>1
          <6> QED BY <5>1, <6>1 DEF IsStack
        <5> QED BY <4>1, <5>1, <5>2
      <4> QED BY <4>2, <4>3
    <3>2. CASE x = Null /\ m >= n
      <4>1. CASE m - 1 >= n
        BY <3>2, <4>1
      <4>2. CASE ~(m - 1 >= n)
        <5>1. m = n /\ 1 \in 1 .. n /\ 1 >= n - (m - 1)
          BY <1>1, <3>2, <4>2
        <5>2. next[s[1]] = Null
          BY <5>1 DEF IsStack
        <5> QED BY <3>2, <5>1, <5>2
      <4> QED BY <4>1, <4>2
    <3> QED BY <3>1, <3>2
  <2>4. \A x \in At(m - 1) : x \in At(m)
    BY <1>1
  <2>5. ASSUME NEW i \in I(m - 1) PROVE next[s[i]] \in At(m)
    <3>1. CASE i = 1
      <4>1. m >= n /\ next[s[i]] = Null
        BY <1>1, <3>1 DEF IsStack
      <4> QED BY <4>1
    <3>2. CASE i # 1
      <4>1. i - 1 \in 1 .. n /\ i - 1 >= n - m /\ next[s[i]] = s[i - 1]
        BY <1>1, <3>2 DEF IsStack
      <4> QED BY <4>1
    <3> QED BY <3>1, <3>2
  <2> HIDE DEF At, I
  <2> QED BY <2>2, <2>3, <2>4, <2>5
<1>5. Eq(g)
  <2> SUFFICES \A m \in 0 .. N : At(m) = Step(g, m)
    OBVIOUS
  <2> SUFFICES ASSUME NEW m \in 0 .. N PROVE At(m) = Step(g, m)
    OBVIOUS
  <2>1. CASE m = 0
    <3> HIDE DEF At
    <3> QED BY <1>3, <2>1
  <2>2. CASE m # 0
    <3>1. m \in 1 .. N /\ m - 1 \in 0 .. N
      BY <1>1, <2>2
    <3>2. g[m - 1] = At(m - 1)
      <4> HIDE DEF At
      <4> QED BY <3>1
    <3> HIDE DEF At, g
    <3> QED BY <1>4, <2>2, <3>1, <3>2
  <2> QED BY <2>1, <2>2
<1>6. Reached = CHOOSE f : Eq(f)
  BY Zenon DEF Reached
<1>7. Eq(Reached)
  <2> HIDE DEF Eq, g
  <2> QED BY <1>5, <1>6, Zenon
<1>8. \A m \in 0 .. N : Reached[m] = Step(Reached, m)
  <2> DEFINE r == Reached
  <2>1. r = [m \in 0 .. N |-> Step(r, m)]
    BY <1>7
  <2> HIDE DEF r
  <2>2. \A m \in 0 .. N : r[m] = Step(r, m)
    BY <2>1
  <2> QED BY <2>2 DEF r
<1>9. \A m \in 0 .. N : Reached[m] = At(m)
  <2> DEFINE S == {m \in 0 .. N : Reached[m] # At(m)}
  <2> SUFFICES ASSUME S # {} PROVE FALSE
    OBVIOUS
  <2>1. PICK m \in S : \A l \in S : m <= l
    <3>1. S \subseteq Nat
      BY <1>1
    <3> HIDE DEF S
    <3> QED BY <3>1, LeastExists
  <2>2. m \in 0 .. N /\ Reached[m] # At(m) /\ \A l \in 0 .. N : Reached[l] # At(l) => m <= l
    BY <2>1
  <2> HIDE DEF At, S
  <2>3. m # 0
    BY <1>3, <1>8, <2>2
  <2>4. m \in 1 .. N /\ m - 1 \in 0 .. N /\ ~(m <= m - 1)
    BY <1>1, <2>2, <2>3
  <2>5. Reached[m - 1] = At(m - 1)
    BY <2>2, <2>4
  <2> QED BY <1>4, <1>8, <2>2, <2>3, <2>4, <2>5
<1> QED
  BY <1>9

\* A walk through a stack comes to all of it and ends.
LEMMA WalkIsStack ==
  ASSUME NEW s \in Seq(Clients), IsStack(s)
  PROVE  Walk = linked /\ (Walk # {} => \E c \in Walk : next[c] = Null)
<1> DEFINE N == Cardinality(Clients)
           n == Len(s)
<1>1. n \in Nat /\ N \in Nat /\ n <= N
  BY StackIsLow
<1>2. Reached[N] = {s[i] : i \in {j \in 1 .. n : j >= n - N}} \cup {x \in {Null} : N >= n}
  <2>1. N \in 0 .. N
    BY <1>1
  <2> QED BY <2>1, WalkSteps
<1>3. {j \in 1 .. n : j >= n - N} = 1 .. n
  BY <1>1
<1>4. Reached[N] \cap Clients = {s[i] : i \in 1 .. n}
  <2>1. \A i \in 1 .. n : s[i] \in Clients
    OBVIOUS
  <2> QED BY <1>2, <1>3, <2>1, NullAssumption
<1>5. Walk = linked
  BY <1>4 DEF Walk, IsStack
<1>6. ASSUME linked # {} PROVE \E c \in linked : next[c] = Null
  <2>1. 1 \in 1 .. n /\ s[1] \in linked
    BY <1>1, <1>6 DEF IsStack
  <2>2. next[s[1]] = Null
    BY <2>1 DEF IsStack
  <2> QED BY <2>1, <2>2
<1> QED BY <1>5, <1>6

LEMMA InitList == Init => ListInv
<1> SUFFICES ASSUME Init PROVE ListInv
  OBVIOUS
<1>1. /\ next = [c \in Clients |-> Null] /\ prev = [c \in Clients |-> Null]
      /\ ~wild /\ linked = {} /\ Here = {} /\ acceptor = Null /\ client_head = Null
  BY DEF Init, Here
<1>2. <<>> \in Seq(Clients) /\ Len(<<>>) = 0 /\ IsStack(<<>>)
  BY <1>1 DEF IsStack
<1> QED BY <1>1, <1>2 DEF ListInv

\* While the list is a stack, a walk through it uses no memory that was freed.
LEMMA ListMeans ==
  ASSUME ListInv
  PROVE  ~astray => Walk = linked /\ WalkIsSafe /\ ~wild
<1> SUFFICES ASSUME ~astray PROVE Walk = linked /\ WalkIsSafe /\ ~wild
  OBVIOUS
<1>1. PICK s \in Seq(Clients) : IsStack(s)
  BY DEF ListInv
<1>2. Walk = linked /\ (Walk # {} => \E c \in Walk : next[c] = Null)
  BY <1>1, WalkIsStack
<1>3. \A c \in linked : ~IsFree(c)
  BY DEF ListInv, Here, IsFree
<1> QED BY <1>2, <1>3 DEF WalkIsSafe, ListInv

\* A step that neither links a client nor takes one out
LEMMA OtherKeepsList ==
  ASSUME ListInv, UNCHANGED <<acceptor, list_vars>>, astray \/ ~wild', Here' = Here,
         \A c \in Clients : IsFree(c) <=> IsFree(c)'
  PROVE  ListInv'
<1>1. UNCHANGED <<client_head, next, prev, linked, astray>>
  BY DEF list_vars
<1>2. \A s : IsStack(s) => IsStack(s)'
  BY <1>1 DEF IsStack
<1> QED BY <1>1, <1>2 DEF ListInv

\* Linking puts a client on the stack.
LEMMA LinkKeepsList ==
  ASSUME ListInv, Shape, Link
  PROVE  ListInv'
<1>1. /\ acceptor \in Clients /\ acceptor # Null /\ acceptor' = Null /\ UNCHANGED pc
  BY DEF Link, Shape
<1>2. CASE astray
  <2>1. /\ astray' /\ prev' = prev /\ next' \in [Clients -> Clients \cup {Null}]
        /\ client_head' \in Clients \cup {Null}
    BY <1>1, <1>2 DEF Link, list_vars, ListInv
  <2> QED BY <2>1 DEF ListInv
<1>3. CASE ~astray
  <2>1. /\ ~IsFree(acceptor) /\ acceptor \in Here /\ linked = Here \ {acceptor} /\ ~wild
    BY <1>1, <1>3 DEF ListInv, Here, IsFree
  <2>2. /\ next' = [next EXCEPT ![acceptor] = client_head] /\ client_head' = acceptor
        /\ linked' = linked \cup {acceptor} /\ UNCHANGED <<prev, astray, wild>>
    BY <2>1 DEF Link
  <2>3. PICK s \in Seq(Clients) : IsStack(s)
    BY <1>3 DEF ListInv
  <2>t. PICK t \in Seq(Clients) : t = Append(s, acceptor)
    <3>1. Append(s, acceptor) \in Seq(Clients)
      BY <1>1
    <3> QED BY <3>1, Zenon
  <2>4. /\ t \in Seq(Clients) /\ Len(t) = Len(s) + 1 /\ Len(s) \in Nat
        /\ t[Len(s) + 1] = acceptor /\ \A i \in 1 .. Len(s) : t[i] = s[i] /\ s[i] \in Clients
    BY <1>1, <2>t
  <2>5. \A i \in 1 .. Len(s) : s[i] # acceptor
    BY <2>1, <2>3 DEF IsStack
  <2>6. client_head \in Clients \cup {Null}
    BY <2>3, <2>4 DEF IsStack
  <2>7. linked' = {t[i] : i \in 1 .. Len(t)}
    <3>1. linked = {s[i] : i \in 1 .. Len(s)}
      BY <2>3 DEF IsStack
    <3>2. \A x : x \in {t[i] : i \in 1 .. Len(t)} <=> x \in {s[i] : i \in 1 .. Len(s)} \/ x = acceptor
      <4>1. \A i \in 1 .. Len(t) : i \in 1 .. Len(s) \/ i = Len(s) + 1
        BY <2>4
      <4>2. Len(s) + 1 \in 1 .. Len(t) /\ \A i \in 1 .. Len(s) : i \in 1 .. Len(t)
        BY <2>4
      <4> QED BY <2>4, <4>1, <4>2
    <3> QED BY <2>2, <3>1, <3>2
  <2>8. \A i, j \in 1 .. Len(t) : t[i] = t[j] => i = j
    <3> SUFFICES ASSUME NEW i \in 1 .. Len(t), NEW j \in 1 .. Len(t), t[i] = t[j] PROVE i = j
      OBVIOUS
    <3>1. (i \in 1 .. Len(s) \/ i = Len(s) + 1) /\ (j \in 1 .. Len(s) \/ j = Len(s) + 1)
      BY <2>4
    <3> QED BY <2>3, <2>4, <2>5, <3>1 DEF IsStack
  <2>9. client_head' = IF Len(t) = 0 THEN Null ELSE t[Len(t)]
    BY <2>2, <2>4
  <2>10. \A i \in 1 .. Len(t) : next'[t[i]] = IF i = 1 THEN Null ELSE t[i - 1]
    <3> SUFFICES ASSUME NEW i \in 1 .. Len(t)
                 PROVE  next'[t[i]] = IF i = 1 THEN Null ELSE t[i - 1]
      OBVIOUS
    <3>1. CASE i = Len(s) + 1
      <4>1. next'[t[i]] = client_head
        BY <1>1, <2>2, <2>4, <3>1 DEF ListInv
      <4>2. CASE Len(s) = 0
        BY <2>3, <2>4, <3>1, <4>1, <4>2 DEF IsStack
      <4>3. CASE Len(s) # 0
        <5>1. i - 1 = Len(s) /\ Len(s) \in 1 .. Len(s) /\ i # 1
          BY <2>4, <3>1, <4>3
        <5> QED BY <2>3, <2>4, <4>1, <4>3, <5>1 DEF IsStack
      <4> QED BY <4>2, <4>3
    <3>2. CASE i \in 1 .. Len(s)
      <4>1. next'[t[i]] = next[s[i]]
        BY <2>2, <2>4, <2>5, <3>2 DEF ListInv
      <4>2. i = 1 \/ i - 1 \in 1 .. Len(s)
        BY <2>4, <3>2
      <4> QED BY <2>3, <2>4, <3>2, <4>1, <4>2 DEF IsStack
    <3> QED BY <2>4, <3>1, <3>2
  <2>11. IsStack(t)'
    BY <2>7, <2>8, <2>9, <2>10 DEF IsStack
  <2>12. Here' = Here /\ linked' = Here' \ {acceptor'}
    BY <1>1, <2>1, <2>2, NullAssumption DEF Here
  <2>13. \A c \in Clients : IsFree(c)' => next'[c] = Null
    BY <1>1, <1>3, <2>1, <2>2 DEF ListInv, IsFree
  <2>14. next' \in [Clients -> Clients \cup {Null}] /\ client_head' \in Clients \cup {Null}
    BY <1>1, <2>2, <2>6 DEF ListInv
  <2> QED BY <1>1, <2>1, <2>2, <2>4, <2>11, <2>12, <2>13, <2>14 DEF ListInv
<1> QED BY <1>2, <1>3

\* The head leaves the stack; another client that leaves makes the list go astray.
LEMMA UnlinkKeepsList ==
  ASSUME ListInv, Shape, NEW c \in Clients, Unlink(c)
  PROVE  ListInv'
<1>1. /\ ~wild /\ pc[c] = "unlink" /\ UNCHANGED acceptor
      /\ pc' \in [Clients -> {"none", "hello", "count", "recv", "echo", "unlink", "close"}]
      /\ pc'[c] = "close" /\ \A d \in Clients \ {c} : pc'[d] = pc[d]
  BY GotoKeeps DEF Unlink
<1>2. c \in Here /\ Here' = Here \ {c} /\ ~IsFree(c)
  BY <1>1 DEF Here, IsFree
<1>3. \A d \in Clients : IsFree(d)' <=> IsFree(d)
  BY <1>1 DEF IsFree
<1>4. CASE UNCHANGED list_vars /\ \E d \in {next[c], prev[c]} \ {Null} : IsFree(d)
  <2>1. prev[c] = Null
    BY DEF ListInv
  <2>2. next[c] # Null /\ IsFree(next[c])
    BY <1>4, <2>1
  <2>3. CASE astray
    BY <1>4, <2>3 DEF ListInv, list_vars
  <2>4. CASE ~astray
    <3>1. c \in linked
      BY <1>2, <2>2, <2>4, NullAssumption DEF ListInv
    <3>2. PICK s \in Seq(Clients) : IsStack(s)
      BY <2>4 DEF ListInv
    <3>3. PICK i \in 1 .. Len(s) : c = s[i]
      BY <3>1, <3>2 DEF IsStack
    <3>4. next[c] \in linked
      <4>1. i # 1 /\ i - 1 \in 1 .. Len(s) /\ next[c] = s[i - 1]
        BY <2>2, <3>2, <3>3 DEF IsStack
      <4> QED BY <3>2, <4>1 DEF IsStack
    <3>5. ~IsFree(next[c])
      BY <2>4, <3>4 DEF ListInv, Here, IsFree
    <3> QED BY <2>2, <3>5
  <2> QED BY <2>3, <2>4
<1>5. CASE /\ prev' = [d \in Clients |-> IF d = next[c] THEN prev[c] ELSE prev[d]]
           /\ next' = [d \in Clients |-> IF d = prev[c] THEN next[c] ELSE next[d]]
           /\ client_head' = HeadWithout(c) /\ linked' = linked \ {c}
           /\ astray' = (astray \/ client_head # c) /\ UNCHANGED wild
  <2>1. prev[c] = Null /\ prev' = prev /\ next' = next /\ client_head' = next[c]
    BY <1>5, NullAssumption DEF ListInv, HeadWithout
  <2>2. client_head' \in Clients \cup {Null}
    BY <2>1 DEF ListInv
  <2>3. CASE astray'
    BY <2>1, <2>2, <2>3 DEF ListInv
  <2>4. CASE ~astray'
    <3>1. ~astray /\ client_head = c
      BY <1>5, <2>4
    <3>2. PICK s \in Seq(Clients) : IsStack(s)
      BY <3>1 DEF ListInv
    <3>3. PICK n \in Nat : n = Len(s)
      BY Zenon, LenProperties
    <3>4. n # 0 /\ s[n] = c /\ n \in 1 .. n
      BY <3>1, <3>2, <3>3, NullAssumption DEF IsStack
    <3>5. PICK t \in Seq(Clients) : Len(t) = n - 1 /\ \A i \in 1 .. n - 1 : t[i] = s[i]
      <4> DEFINE f == SubSeq(s, 1, n - 1)
      <4>1. f \in Seq(Clients) /\ Len(f) = n - 1 /\ \A i \in 1 .. n - 1 : f[i] = s[i]
        BY <3>3, <3>4
      <4> QED BY <4>1
    <3>6. \A i \in 1 .. n - 1 : i \in 1 .. n /\ s[i] # c
      BY <3>2, <3>3, <3>4 DEF IsStack
    <3>7. linked' = {t[i] : i \in 1 .. Len(t)}
      <4>1. \A i \in 1 .. n : i \in 1 .. n - 1 \/ i = n
        BY <3>3
      <4>2. {s[i] : i \in 1 .. n} \ {c} = {s[i] : i \in 1 .. n - 1}
        BY <3>4, <3>6, <4>1
      <4>3. {t[i] : i \in 1 .. n - 1} = {s[i] : i \in 1 .. n - 1}
        BY <3>5
      <4> QED BY <1>5, <3>2, <3>3, <3>5, <4>2, <4>3 DEF IsStack
    <3>8. \A i, j \in 1 .. Len(t) : t[i] = t[j] => i = j
      BY <3>2, <3>3, <3>5, <3>6 DEF IsStack
    <3>9. client_head' = IF Len(t) = 0 THEN Null ELSE t[Len(t)]
      <4>1. next[c] = IF n = 1 THEN Null ELSE s[n - 1]
        BY <3>2, <3>3, <3>4 DEF IsStack
      <4>2. n # 1 => n - 1 \in 1 .. n - 1
        BY <3>4
      <4> QED BY <2>1, <3>5, <4>1, <4>2
    <3>10. \A i \in 1 .. Len(t) : next'[t[i]] = IF i = 1 THEN Null ELSE t[i - 1]
      <4> SUFFICES ASSUME NEW i \in 1 .. n - 1
                   PROVE  next[t[i]] = IF i = 1 THEN Null ELSE t[i - 1]
        BY <2>1, <3>5
      <4>1. next[s[i]] = IF i = 1 THEN Null ELSE s[i - 1]
        BY <3>2, <3>3, <3>6 DEF IsStack
      <4>2. i # 1 => i - 1 \in 1 .. n - 1
        BY <3>4
      <4> QED BY <3>5, <4>1, <4>2
    <3>11. IsStack(t)'
      BY <3>7, <3>8, <3>9, <3>10 DEF IsStack
    <3>12. acceptor # c
      <4>1. c \in linked
        BY <3>2, <3>3, <3>4 DEF IsStack
      <4> QED BY <3>1, <4>1 DEF ListInv
    <3>13. linked' = Here' \ {acceptor'} /\ (acceptor' # Null => acceptor' \in Here')
      BY <1>1, <1>2, <1>5, <3>1, <3>12 DEF ListInv
    <3>14. \A d \in Clients : IsFree(d)' => next'[d] = Null
      BY <1>3, <2>1, <3>1 DEF ListInv
    <3> QED BY <1>1, <1>5, <2>1, <2>2, <3>1, <3>11, <3>13, <3>14 DEF ListInv
  <2> QED BY <2>3, <2>4
<1> QED BY <1>4, <1>5 DEF Unlink

\* A new client is not in the list yet, and one that is freed not any more.
LEMMA NextKeepsList == ListInv /\ Shape /\ [Next]_vars => ListInv'
<1> SUFFICES ASSUME ListInv, Shape, [Next]_vars PROVE ListInv'
  OBVIOUS
<1>1. ASSUME NEW c \in Clients, NEW f \in Fds, Accept(c, f) PROVE ListInv'
  <2>1. /\ ~wild /\ acceptor = Null /\ IsFree(c) /\ acceptor' = c /\ UNCHANGED <<list_vars, wild>>
    BY <1>1 DEF Accept
  <2>2. pc'[c] = "hello" /\ \A d \in Clients \ {c} : pc'[d] = pc[d]
    BY <1>1, GotoKeeps DEF Accept
  <2>3. c \notin Here /\ Here' = Here \cup {c} /\ Null \notin Here
    BY <2>1, <2>2, NullAssumption DEF Here, IsFree
  <2>4. \A d \in Clients : IsFree(d)' => IsFree(d)
    BY <2>1, <2>2 DEF IsFree
  <2>5. UNCHANGED <<client_head, next, prev, linked, astray>>
    BY <2>1 DEF list_vars
  <2>6. \A s : IsStack(s) => IsStack(s)'
    BY <2>5 DEF IsStack
  <2> QED BY <2>1, <2>3, <2>4, <2>5, <2>6 DEF ListInv
<1>2. ASSUME NEW c \in Clients, CloseAndFree(c) PROVE ListInv'
  <2>1. /\ ~wild /\ pc[c] = "close" /\ next' = [next EXCEPT ![c] = Null]
        /\ prev' = [prev EXCEPT ![c] = Null]
        /\ UNCHANGED <<acceptor, client_head, linked, astray, wild>>
    BY <1>2 DEF CloseAndFree
  <2>2. pc'[c] = "none" /\ \A d \in Clients \ {c} : pc'[d] = pc[d]
    BY <1>2, GotoKeeps DEF CloseAndFree
  <2>3. c \notin Here /\ Here' = Here
    BY <2>1, <2>2 DEF Here
  <2>4. \A d \in Clients : d # c => (IsFree(d)' <=> IsFree(d))
    BY <2>2 DEF IsFree
  <2>5. /\ prev' = prev /\ next' \in [Clients -> Clients \cup {Null}] /\ next'[c] = Null
        /\ \A d \in Clients \ {c} : next'[d] = next[d]
    BY <2>1 DEF ListInv
  <2>6. ASSUME ~astray, NEW s \in Seq(Clients), IsStack(s) PROVE IsStack(s)'
    <3>1. c \notin linked
      BY <2>3, <2>6 DEF ListInv
    <3>2. \A i \in 1 .. Len(s) : s[i] \in Clients \ {c}
      BY <2>6, <3>1 DEF IsStack
    <3> QED BY <2>1, <2>5, <2>6, <3>2 DEF IsStack
  <2>7. ~astray /\ acceptor # Null => acceptor # c
    BY <2>3 DEF ListInv
  <2>8. acceptor # Null => acceptor \in Clients
    BY DEF Shape
  <2> QED BY <2>1, <2>3, <2>4, <2>5, <2>6, <2>7, <2>8 DEF ListInv
<1>3. ASSUME NEW c \in Clients, Greet(c) \/ Receive(c) \/ Echo(c) \/ ReceiveFails(c)
      PROVE  ListInv'
  <2>1. UNCHANGED <<acceptor, list_vars>>
    BY <1>3 DEF Greet, Receive, Echo, ReceiveFails
  <2>2. \/ UNCHANGED pc
        \/ /\ pc[c] \in {"hello", "count", "recv", "echo"}
           /\ \E l \in {"count", "recv", "echo", "unlink"} : Goto(c, l)
    BY <1>3 DEF Greet, Receive, Echo, ReceiveFails
  <2>3. Here' = Here /\ \A d \in Clients : IsFree(d)' <=> IsFree(d)
    <3>1. CASE UNCHANGED pc
      BY <3>1 DEF Here, IsFree
    <3>2. CASE /\ pc[c] \in {"hello", "count", "recv", "echo"}
               /\ \E l \in {"count", "recv", "echo", "unlink"} : Goto(c, l)
      <4>1. /\ pc'[c] \in {"count", "recv", "echo", "unlink"}
            /\ \A d \in Clients \ {c} : pc'[d] = pc[d]
        BY <3>2, GotoKeeps
      <4> QED BY <3>2, <4>1 DEF Here, IsFree
    <3> QED BY <2>2, <3>1, <3>2
  <2>4. astray \/ ~wild'
    <3>1. WalkIsSafe \/ astray
      BY ListMeans
    <3>2. ~wild
      BY <1>3 DEF Greet, Receive, Echo, ReceiveFails
    <3> QED BY <1>3, <3>1, <3>2 DEF Greet, SendOne, Receive, Echo, SendAll, ReceiveFails
  <2> QED BY <2>1, <2>3, <2>4, OtherKeepsList
<1>4. CASE Periodic
  <2>1. UNCHANGED <<acceptor, list_vars, pc>> /\ (astray \/ ~wild')
    BY <1>4, ListMeans DEF Periodic, SendAll
  <2> QED BY <2>1, OtherKeepsList DEF Here, IsFree
<1>5. CASE UNCHANGED vars
  <2>1. UNCHANGED <<acceptor, list_vars, pc, wild>>
    BY <1>5 DEF vars
  <2> QED BY <2>1, OtherKeepsList DEF Here, IsFree, ListInv
<1> QED
  BY <1>1, <1>2, <1>3, <1>4, <1>5, LinkKeepsList, UnlinkKeepsList DEF Next, Thread

-----------------------------------------------------------------------------
(* The theorems *)

\* psc_send() and psc_send_one() close a socket after a message that was broken,
\* and no message follows it to that peer, although the descriptor is used on by
\* its client's thread and may be another connection by then.
THEOREM NothingAfterABrokenMessage == Spec => []WholeMessages
<1>1. PeerInv => WholeMessages
  BY DEF PeerInv, SockInv, WholeMessages
<1> QED BY <1>1, PeerInvariance, PTL

\* psc_run() counts a client after its thread was started, and handle_client()
\* takes it off the count: a client that has left before it was counted does not
\* make the count wrong, even where it passes zero.
THEOREM EveryClientCounts == Spec => []CountIsExact
<1>1. PeerInv /\ CountIsExact /\ [Next]_vars => CountIsExact'
  BY CountSteps
<1> QED BY <1>1, InitCount, PeerInvariance, PTL DEF Spec

\* While only the newest client leaves, the list that psc_send() walks through is
\* exactly the connected clients and no freed memory is used, for any number of
\* them: each is linked before the ones that came before it, a walk comes to the
\* end in as many steps as there are clients, and psc_run() never links a client
\* that its thread has freed.
THEOREM NewestFirstIsExact == Spec => []ListIsExact
<1>1. PeerInv => Shape
  BY DEF PeerInv
<1>2. ListInv => ListIsExact
  BY ListMeans DEF ListIsExact
<1> QED BY <1>1, <1>2, InitList, NextKeepsList, PeerInvariance, PTL DEF Spec
=============================================================================
