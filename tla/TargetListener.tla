--------------------------- MODULE TargetListener ---------------------------
(***************************************************************************)
(* The server that runs in a device (targetApp/listener.c) with its        *)
(* example application (pscapp.c): psc_run() accepts clients and starts a  *)
(* thread for each, the threads receive messages and echo them to all, a   *)
(* periodic thread sends to all.                                           *)
(*                                                                         *)
(* The list of clients and all sending are guarded by sendguard: what runs *)
(* with it held is one step.  Messages are opaque; a connection remembers  *)
(* whether its peer has got whole messages only.  psc_client blocks and    *)
(* descriptors are reused after free() and close(), and the program keeps  *)
(* using some that it has given back.                                      *)
(***************************************************************************)
EXTENDS Integers, FiniteSets

CONSTANTS
  Clients,     \* the memory blocks that calloc() may return for a psc_client
  Fds,         \* the descriptors that accept() may return
  MaxClients,  \* PSC_MAX_CLIENTS
  CountMod,    \* 2^32, the range of client_count
  Null         \* no client, no descriptor

ASSUME FiniteAssumption == IsFiniteSet(Clients)
ASSUME NullAssumption == Null \notin Clients \cup Fds
ASSUME CountAssumption == CountMod \in Nat /\ MaxClients \in 1 .. CountMod - 1

VARIABLES
  acceptor,      \* psc_run(): the client whose thread runs and that is not yet linked
  client_head, client_count,
  next, prev, active, sock,  \* the fields of each psc_client
  pc,            \* the thread in handle_client(), "none" for a block that is free
  conn,          \* the connection that a descriptor stands for, named for the
                 \* client that accept() made it for
  stream,        \* what the peer of a connection has received
  sendperiodic,
  linked,        \* history: clients put into the list and not taken out
  astray,        \* history: one left that was not the head of the list
  wild           \* freed memory was used, or the list is circular: what the
                 \* program does from here on is undefined

list_vars == <<client_head, client_count, next, prev, linked, astray>>
sock_vars == <<conn, stream>>
vars == <<acceptor, list_vars, active, sock, pc, sock_vars, sendperiodic, wild>>

TypeOK ==
  /\ acceptor \in Clients \cup {Null} /\ client_head \in Clients \cup {Null}
  /\ client_count \in 0 .. CountMod - 1
  /\ {next, prev} \subseteq [Clients -> Clients \cup {Null}]
  /\ active \in [Clients -> BOOLEAN] /\ sock \in [Clients -> Fds \cup {Null}]
  /\ pc \in [Clients -> {"none", "hello", "count", "recv", "echo", "unlink", "close"}]
  /\ conn \in [Fds -> Clients \cup {Null}]
  /\ stream \in [Clients -> {"whole", "partial", "mixed"}]
  /\ linked \subseteq Clients
  /\ {sendperiodic, astray, wild} \subseteq BOOLEAN

Init ==
  /\ acceptor = Null
  /\ client_head = Null /\ client_count = 0
  /\ next = [c \in Clients |-> Null] /\ prev = [c \in Clients |-> Null]
  /\ active = [c \in Clients |-> FALSE]
  /\ sock = [c \in Clients |-> Null]
  /\ pc = [c \in Clients |-> "none"]
  /\ conn = [f \in Fds |-> Null]
  /\ stream = [c \in Clients |-> "whole"]
  /\ sendperiodic = TRUE
  /\ linked = {} /\ astray = FALSE /\ wild = FALSE

IsFree(c) == pc[c] = "none"
Goto(c, l) == pc' = [pc EXCEPT ![c] = l]

-----------------------------------------------------------------------------
(* Sending, with sendguard held *)

\* where a walk through the list has come to after at most n steps, for every n
Reached ==
  LET R[n \in 0 .. Cardinality(Clients)] ==
        IF n = 0 THEN {client_head} ELSE R[n-1] \cup {next[c] : c \in R[n-1] \ {Null}}
  IN R

\* the clients that a walk through the list comes to
Walk == Reached[Cardinality(Clients)] \cap Clients

WalkIsSafe ==
  /\ \A c \in Walk : ~IsFree(c)
  /\ Walk # {} => \E c \in Walk : next[c] = Null

\* the descriptor of c stands for nothing: send() and recv() fail
IsClosed(c) == conn[sock[c]] = Null

\* mutant: a failed send leaves the socket open
SendLeavesOpen(good, bad) ==
  LET Peers(S) == {conn[sock[c]] : c \in S} \ {Null}
  IN /\ stream' = [d \in Clients |->
                     IF d \in Peers(bad) THEN "partial"
                     ELSE IF d \in Peers(good) /\ stream[d] # "whole" THEN "mixed" ELSE stream[d]]
     /\ active' = [c \in Clients |-> active[c] /\ c \notin bad]
     /\ UNCHANGED conn

\* psc_sendmsg() succeeds for the clients good and fails for the clients bad,
\* which become inactive and whose sockets are closed
Send(good, bad) ==
  LET Peers(S) == {conn[sock[c]] : c \in S} \ {Null}
  IN /\ \A c \in good : ~IsClosed(c)
     /\ stream' = [d \in Clients |->
                     IF d \in Peers(bad) THEN "partial"
                     ELSE IF d \in Peers(good) /\ stream[d] # "whole" THEN "mixed" ELSE stream[d]]
     /\ active' = [c \in Clients |-> active[c] /\ c \notin bad]
     /\ conn' = [f \in Fds |-> IF f \in {sock[c] : c \in bad} THEN Null ELSE conn[f]]

\* psc_send(): to all active clients of the list
SendAll ==
  IF WalkIsSafe
    THEN /\ \E bad \in SUBSET {c \in Walk : active[c]} :
              Send({c \in Walk : active[c]} \ bad, bad)
         /\ UNCHANGED wild
    ELSE /\ wild' = TRUE
         /\ UNCHANGED <<stream, active, conn>>

\* psc_send_one(): it does not ask whether the client is active
SendOne(c) ==
  /\ Send({c}, {}) \/ Send({}, {c})
  /\ UNCHANGED wild

-----------------------------------------------------------------------------
(* psc_run() *)

\* accept(), and a thread is started for the client; where there is no room, no
\* memory or no thread the connection is closed and nothing changes
Accept(c, f) ==
  /\ ~wild
  /\ acceptor = Null
  /\ client_count < MaxClients
  /\ IsFree(c) /\ conn[f] = Null
  /\ acceptor' = c
  /\ Goto(c, "hello")
  /\ sock' = [sock EXCEPT ![c] = f]
  /\ conn' = [conn EXCEPT ![f] = c]
  /\ UNCHANGED <<list_vars, active, stream, sendperiodic, wild>>

\* the client becomes the head of the list; its successor is not told
Link ==
  /\ ~wild
  /\ acceptor # Null
  /\ acceptor' = Null
  /\ IF IsFree(acceptor)
       THEN /\ wild' = TRUE
            /\ UNCHANGED <<list_vars, active>>
       ELSE /\ next' = [next EXCEPT ![acceptor] = client_head]
            /\ client_head' = acceptor
            /\ client_count' = (client_count + 1) % CountMod
            /\ active' = [active EXCEPT ![acceptor] = TRUE]
            /\ linked' = linked \cup {acceptor}
            /\ UNCHANGED <<prev, astray, wild>>
  /\ UNCHANGED <<sock, pc, sock_vars, sendperiodic>>

-----------------------------------------------------------------------------
(* handle_client(), with the application's callbacks *)

\* onconn(): two messages
Greet(c) ==
  /\ ~wild
  /\ \/ pc[c] = "hello" /\ Goto(c, "count")
     \/ pc[c] = "count" /\ Goto(c, "recv")
  /\ SendOne(c)
  /\ UNCHANGED <<acceptor, list_vars, sock, sendperiodic>>

\* psc_recvmsg() returns a message: rxmsg() echoes it, or sets sendperiodic
Receive(c) ==
  /\ ~wild
  /\ pc[c] = "recv"
  /\ ~IsClosed(c)
  /\ \/ Goto(c, "echo") /\ UNCHANGED sendperiodic
     \/ sendperiodic' \in BOOLEAN /\ UNCHANGED pc
  /\ UNCHANGED <<acceptor, list_vars, active, sock, sock_vars, wild>>

Echo(c) ==
  /\ ~wild
  /\ pc[c] = "echo"
  /\ Goto(c, "recv")
  /\ SendAll
  /\ UNCHANGED <<acceptor, list_vars, sock, sendperiodic>>

\* mutant: the thread waits until the peer ends the connection
RecvErrorOfPeer(c) == ~IsClosed(c)

\* psc_recvmsg() may always fail: the socket is closed, the peer is gone or too
\* late, or has sent something else than a header
RecvError(c) == TRUE

ReceiveFails(c) ==
  /\ ~wild
  /\ pc[c] = "recv"
  /\ RecvError(c)
  /\ Goto(c, "unlink")
  /\ UNCHANGED <<acceptor, list_vars, active, sock, sock_vars, sendperiodic, wild>>

\* mutant: the head of the list stays
HeadStays(c) == client_head

\* what becomes the head when c is taken out
HeadWithout(c) == IF prev[c] = Null THEN next[c] ELSE client_head

\* mutant: the counter stops at zero
CountLessOrZero == IF client_count = 0 THEN 0 ELSE client_count - 1

CountLess == (client_count + CountMod - 1) % CountMod

\* the client takes itself out of the list
Unlink(c) ==
  /\ ~wild
  /\ pc[c] = "unlink"
  /\ Goto(c, "close")
  /\ IF \E d \in {next[c], prev[c]} \ {Null} : IsFree(d)
       THEN /\ wild' = TRUE
            /\ UNCHANGED list_vars
       ELSE /\ prev' = [d \in Clients |-> IF d = next[c] THEN prev[c] ELSE prev[d]]
            /\ next' = [d \in Clients |-> IF d = prev[c] THEN next[c] ELSE next[d]]
            /\ client_head' = HeadWithout(c)
            /\ client_count' = CountLess
            /\ linked' = linked \ {c}
            /\ astray' = (astray \/ client_head # c)
            /\ UNCHANGED wild
  /\ UNCHANGED <<acceptor, active, sock, sock_vars, sendperiodic>>

\* the socket is closed, also when it was before, and the memory is freed: what
\* was in it is not modelled any more
CloseAndFree(c) ==
  /\ ~wild
  /\ pc[c] = "close"
  /\ Goto(c, "none")
  /\ conn' = [conn EXCEPT ![sock[c]] = Null]
  /\ next' = [next EXCEPT ![c] = Null] /\ prev' = [prev EXCEPT ![c] = Null]
  /\ active' = [active EXCEPT ![c] = FALSE] /\ sock' = [sock EXCEPT ![c] = Null]
  /\ stream' = [stream EXCEPT ![c] = "whole"]
  /\ UNCHANGED <<acceptor, client_head, client_count, linked, astray, sendperiodic, wild>>

-----------------------------------------------------------------------------
\* periodic()
Periodic ==
  /\ ~wild
  /\ sendperiodic
  /\ SendAll
  /\ UNCHANGED <<acceptor, list_vars, sock, pc, sendperiodic>>

Thread(c) ==
  Greet(c) \/ Receive(c) \/ Echo(c) \/ ReceiveFails(c) \/ Unlink(c) \/ CloseAndFree(c)

Next ==
  \/ \E c \in Clients, f \in Fds : Accept(c, f)
  \/ Link
  \/ \E c \in Clients : Thread(c)
  \/ Periodic

Spec == Init /\ [][Next]_vars

\* the threads are scheduled; the peers need not send
Fairness ==
  /\ WF_vars(Link)
  /\ \A c \in Clients :
       /\ WF_vars(Greet(c) \/ Echo(c) \/ Unlink(c) \/ CloseAndFree(c))
       /\ WF_vars(ReceiveFails(c) /\ IsClosed(c))

FairSpec == Spec /\ Fairness
=============================================================================
