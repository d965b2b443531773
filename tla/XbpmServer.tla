----------------------------- MODULE XbpmServer -----------------------------
(***************************************************************************)
(* The server of the X-ray beam position monitor (xbpmApp/target/main.c    *)
(* and app.c): one libevent loop that keeps a list of connections, decodes *)
(* what they send and pings all of them once a second.                     *)
(*                                                                         *)
(* The peers send well formed messages, in pieces of any size.  A message  *)
(* is the first byte of its header, which tells its length, the rest of    *)
(* the header, and its body.  connread() is one step for each turn of its  *)
(* loop, and nothing else runs meanwhile.                                  *)
(***************************************************************************)
EXTENDS Integers, Sequences

CONSTANTS
  Conns,       \* the connections there may be
  Lengths,     \* body lengths that a peer sends
  HeaderSize,  \* 8
  MAXMSG, MAXOUT,
  MaxSent,     \* bound: bytes that a peer may send ahead
  MemoryMayFail

VARIABLES
  list,        \* the connections from server.conn_first on
  rx,          \* bytes in each bufferevent's input buffer
  coming,      \* bytes that the peer has sent and the server has not yet read
  watermark,   \* when the read callback is due
  havehead, msglen,  \* connection.havehead, connection.msglen
  reading,     \* connections whose connread() is in its loop, at most one
  out,         \* bytes in the output buffer
  conn_fail_cnt,  \* whether it is still zero
  aborted,     \* the function in which an assertion has failed, or "no"
  wild         \* a connection was used after it was freed

decoder == <<rx, coming, watermark, havehead, msglen, reading>>
vars == <<list, decoder, out, conn_fail_cnt, aborted, wild>>

First(len) == [len |-> len]
Message(len) == <<First(len)>> \o [i \in 1 .. HeaderSize - 1 + len |-> [len |-> -1]]

All(v) == [c \in Conns |-> v]
Listed == {list[i] : i \in DOMAIN list}

Init ==
  /\ list = <<>>
  /\ rx = All(<<>>) /\ coming = All(<<>>) /\ watermark = All(HeaderSize)
  /\ havehead = All(FALSE) /\ msglen = All(0)
  /\ reading = {}
  /\ out = All(0)
  /\ conn_fail_cnt = 0 /\ aborted = "no" /\ wild = FALSE

Dispatching == reading = {} /\ aborted = "no" /\ ~wild

-----------------------------------------------------------------------------
(* Connections *)

\* freeconn(): the connection leaves the list
Freed(c) == /\ list' = SelectSeq(list, LAMBDA d : d # c)
            /\ rx' = [rx EXCEPT ![c] = <<>>] /\ coming' = [coming EXCEPT ![c] = <<>>]
            /\ watermark' = [watermark EXCEPT ![c] = HeaderSize]
            /\ havehead' = [havehead EXCEPT ![c] = FALSE] /\ msglen' = [msglen EXCEPT ![c] = 0]
            /\ reading' = reading \ {c}
            /\ out' = [out EXCEPT ![c] = 0]

\* txconn(): a message that finds too much in the buffer, or no memory, is
\* dropped.  Where the body cannot be added txconn() frees the connection, which
\* each caller goes on to use
Queued(S, size) ==
  \E full \in SUBSET {c \in S : out[c] > MAXOUT \/ MemoryMayFail} :
    /\ {c \in S : out[c] > MAXOUT} \subseteq full
    /\ out' = [c \in Conns |-> IF c \in S \ full THEN out[c] + HeaderSize + size ELSE out[c]]

BodyFails == MemoryMayFail /\ conn_fail_cnt' = 1 /\ wild' = TRUE

\* onconn() with on_connect(): the hello is sent before the connection is linked;
\* freeconn() then finds another connection, or none, at the head of the list
OnConn(c) ==
  /\ Dispatching
  /\ c \notin Listed
  /\ \/ /\ Queued({c}, 4)
        /\ list' = <<c>> \o list
        /\ UNCHANGED <<conn_fail_cnt, aborted>>
     \/ /\ MemoryMayFail
        /\ conn_fail_cnt' = 1
        /\ aborted' \in {"no", "freeconn"}   \* no connection is made, or no hello
        /\ UNCHANGED <<list, out>>
  /\ UNCHANGED <<decoder, wild>>

\* connevent(): error, end of file, timeout or anything else
ConnEvent(c) ==
  /\ Dispatching
  /\ c \in Listed
  /\ Freed(c)
  /\ UNCHANGED <<conn_fail_cnt, aborted, wild>>

\* onping(), and txall()
OnPing ==
  /\ Dispatching
  /\ \/ Queued(Listed, 12) /\ UNCHANGED <<conn_fail_cnt, wild>>
     \/ Listed # {} /\ BodyFails /\ UNCHANGED out
  /\ UNCHANGED <<list, decoder, aborted>>

\* libevent sends the output
Written(c) ==
  /\ Dispatching
  /\ out[c] > 0
  /\ out' = [out EXCEPT ![c] = 0]
  /\ UNCHANGED <<list, decoder, conn_fail_cnt, aborted, wild>>

-----------------------------------------------------------------------------
(* connread() *)

\* the peer sends a message
PeerSends(c) ==
  /\ Dispatching
  /\ c \in Listed
  /\ \E len \in Lengths :
       /\ Len(coming[c]) + HeaderSize + len <= MaxSent
       /\ coming' = [coming EXCEPT ![c] = @ \o Message(len)]
  /\ UNCHANGED <<list, rx, watermark, havehead, msglen, reading, out, conn_fail_cnt, aborted, wild>>

\* some of it arrives; no more is read than the high watermark
Arrive(c) ==
  /\ Dispatching
  /\ \E n \in 1 .. Len(coming[c]) :
       /\ Len(rx[c]) + n <= MAXMSG + 1
       /\ rx' = [rx EXCEPT ![c] = @ \o SubSeq(coming[c], 1, n)]
       /\ coming' = [coming EXCEPT ![c] = SubSeq(@, n + 1, Len(@))]
       /\ reading' = IF Len(rx[c]) + n >= watermark[c] THEN {c} ELSE {}
  /\ UNCHANGED <<list, watermark, havehead, msglen, out, conn_fail_cnt, aborted, wild>>

Expect(c) == IF havehead[c] THEN HeaderSize ELSE msglen[c]

\* not enough: wait for as much
Wait(c) ==
  /\ Len(rx[c]) < Expect(c)
  /\ IF Expect(c) < MAXMSG + 1
       THEN /\ watermark' = [watermark EXCEPT ![c] = Expect(c)]
            /\ reading' = {}
            /\ UNCHANGED aborted
       ELSE aborted' = "connread" /\ UNCHANGED <<watermark, reading>>
  /\ UNCHANGED <<list, rx, coming, havehead, msglen, out, conn_fail_cnt, wild>>

\* assert(mlen>=8), then the header is removed
ReadHeader(c) ==
  /\ Len(rx[c]) >= Expect(c)
  /\ ~havehead[c]
  /\ IF Len(rx[c]) < HeaderSize
       THEN aborted' = "connread" /\ UNCHANGED <<list, decoder, out>>
       ELSE /\ IF Head(rx[c]).len \in 0 .. MAXMSG
                 THEN /\ rx' = [rx EXCEPT ![c] = SubSeq(@, HeaderSize + 1, Len(@))]
                      /\ havehead' = [havehead EXCEPT ![c] = TRUE]
                      /\ msglen' = [msglen EXCEPT ![c] = Head(rx[c]).len]
                      /\ UNCHANGED <<list, coming, watermark, reading, out>>
                 ELSE Freed(c)
            /\ UNCHANGED aborted
  /\ UNCHANGED <<conn_fail_cnt, wild>>

\* assert(mlen>=conn->msglen), then the body is removed, and as many bytes again
ReadBody(c) ==
  /\ Len(rx[c]) >= Expect(c)
  /\ havehead[c]
  /\ IF Len(rx[c]) < msglen[c]
       THEN aborted' = "connread" /\ UNCHANGED <<rx, havehead>>
       ELSE /\ rx' = [rx EXCEPT ![c] = SubSeq(@, 2 * msglen[c] + 1, Len(@))]
            /\ havehead' = [havehead EXCEPT ![c] = FALSE]
            /\ UNCHANGED aborted
  /\ UNCHANGED <<list, coming, watermark, msglen, reading, out, conn_fail_cnt, wild>>

ConnRead(c) == c \in reading /\ aborted = "no" /\ (Wait(c) \/ ReadHeader(c) \/ ReadBody(c))

Next ==
  \/ OnPing
  \/ \E c \in Conns :
       OnConn(c) \/ ConnEvent(c) \/ Written(c) \/ PeerSends(c) \/ Arrive(c) \/ ConnRead(c)

Spec == Init /\ [][Next]_vars

-----------------------------------------------------------------------------
\* connread() asserts that a whole header, or a whole body, is there when it
\* removes it (main.c, lines 112 and 137).  The number of bytes to wait for is
\* chosen the wrong way round, and a body that comes in two pieces is enough.
ConnReadAssertions == aborted # "connread"
=============================================================================
