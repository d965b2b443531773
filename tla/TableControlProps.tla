-------------------------- MODULE TableControlProps --------------------------
(* What the table controller of TableControl promises *)
EXTENDS TableControl

\* v1 followed by the beginning of v2 keeps the limits of step and bend
Joins(v1, v2, d1, d2) ==
  LET w == v1 \o <<v2[1], v2[2]>>
  IN \A i \in 1 .. Len(v1) :
       /\ Abs(w[i+1] - w[i]) <= d1
       /\ Abs((w[i+1] - w[i]) - (w[i+2] - w[i+1])) <= d2

InRange(t, uni) == \A i \in DOMAIN t : ~OutOfRange(t[i], uni)

\* Every table that goes out, transient or target, is one that the supply can
\* set, and in automatic mode it carries on from the one that the device plays
\* within the limits of step and bend, as long as that is prev_tg (PrevIsPlaying).
\* The transient must start inside of the table, behind its first point, and its
\* beginning was checked against the deltas of the last update.
JoinsWhatPlays ==
  update.pc = "sending" /\ playing' \notin {playing, Unknown} =>
    /\ InRange(playing'.table, update.uni)
    /\ curmode = "auto" /\ ~tightened /\ start_point \in 1 .. Len(prev_tg)
         /\ playing # Unknown /\ apart = "no" =>
       Joins(playing.table, playing'.table, max_delta1, max_delta2)

RampsJoin == [][JoinsWhatPlays]_vars

\* prev_tg, which the next table is compared with, is what was handed to the
\* socket last on this connection.  There are three ways to come apart: a table of
\* another length was offered (even if it was declined), a target was refused
\* behind its transient, or a message that an update left behind was flushed later.
\* Each of them lasts until the next table is sent.
PrevIsPlaying ==
  playing # Unknown /\ update.pc # "sending" /\ apart = "no" =>
    playing.kind # "transient" /\ prev_tg = playing.table

\* An update that ends without an alarm has sent its table, unless the mode was
\* manual or there was no connection; one that declines leaves the device as it
\* is and says why; one that is refused sends nothing more.
ReportsItsEnd ==
  update.pc \in {"checking", "sending"} /\ update' = Idle =>
    \/ severity' = "no" /\ (curmode = "man" \/ ~connected \/ playing'.table = update.table)
    \/ severity' = "write" /\ "decline" \in alarmBits' /\ playing' = playing
    \/ severity' = "busy" /\ connected /\ queued /\ playing' = playing
    \/ severity' = "comm" /\ MayFail /\ playing' = playing

NoAlarmMeansSent == [][ReportsItsEnd]_vars

\* The alarm record shows the bits of the last update in the end, unless that
\* update was ended by an exception, which requests no scan.
AlarmsAreShown ==
  ~told ~> (told \/ update.pc # "idle" \/ severity \in {"comm", "busy"} \/ aborted)
=============================================================================
