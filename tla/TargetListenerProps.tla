------------------------- MODULE TargetListenerProps -------------------------
(* What the device's server of TargetListener promises *)
EXTENDS TargetListener

\* However many threads send to a client at the same time, and although
\* psc_send_one() uses a socket that a failed send has closed or that another
\* client has got since, every peer receives whole messages and at most one
\* broken one, the last.
WholeMessages == \A c \in Clients : stream[c] # "mixed"

\* The counter that admits clients is the number of those that have not left,
\* also when one leaves before psc_run() has counted it and the counter wraps: so
\* there are never more than PSC_MAX_CLIENTS, and room for as many again.
CountIsExact ==
  ~wild =>
    client_count = (  Cardinality({c \in Clients : pc[c] \notin {"none", "close"}})
                    - IF acceptor = Null THEN 0 ELSE 1) % CountMod

\* The list is exactly the clients that are connected as long as each that leaves
\* is the newest; only when another has left is one forgotten or freed memory used.
ListIsExact ==
  ~astray =>
    /\ Walk = linked
    /\ ~wild

\* A client whose socket is closed under it leaves and is freed, unless the
\* descriptor has become another client's, whose messages it then receives.
ClosedClientsLeave ==
  \A c \in Clients :
    (pc[c] # "none" /\ IsClosed(c)) ~> (pc[c] = "none" \/ ~IsClosed(c) \/ wild)
=============================================================================
