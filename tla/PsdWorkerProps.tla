--------------------------- MODULE PsdWorkerProps ---------------------------
(* What the power spectrum calculation of PsdWorker promises, although the *)
(* records change parameters and data with no lock held                    *)
EXTENDS PsdWorker

\* No record is between a write and its event, and the worker has nothing to do
Settled ==
  /\ started /\ input.pc = "idle"
  /\ worker.pc = "wait" /\ ~wake

\* When all is settled the results are of the present input and parameters,
\* whatever was copied torn, missed or done twice before, with three exceptions: the
\* first calculation after the plans were renewed may be of what the planner left in
\* the input array; a change of the window, and the data of an empty input, are not
\* calculated.
NewestComputed ==
  Settled /\ valid =>
    /\ ~Incomplete
    /\ timeout = timein
    /\ valin.len # 0 =>
         /\ valout.data = valin.data \/ (calc.planned /\ valout.data = Overwritten)
         /\ valout.nfft = par.nfft /\ valout.fsamp = par.fsamp /\ valout.mult = par.mult

\* The scale record ends with the scale of the spectrum that the output record shows,
\* or with an alarm: although valid, the values and the scale are stored one after the
\* other under the eyes of the records, and the scale is only stored and announced
\* when one of five comparisons says that it changed.
ScaleMatches ==
  Settled /\ ~valueScan /\ ~scaleScan /\ reader = "idle" /\ ~shown.bad /\ ~shownScale.bad =>
    /\ shownScale.scale.size = shown.output.size
    /\ shownScale.scale.fsamp = shown.output.fsamp

\* The output record ends with the newest result and its own time stamp, however
\* its two reads and the worker's stores are interleaved.
OutputFollows ==
  Settled /\ ~valueScan /\ reader = "idle" =>
    /\ shown.bad = ~valid
    /\ valid => shown.output = valout /\ shown.time = timeout

\* Each input reaches the results, unless it is replaced by a newer one or the
\* parameters are incomplete: no event is lost, although one signal may stand for
\* several.
InputIsProcessed ==
  \A v \in Inputs :
    (input.data = v) ~> (timeout = v \/ timein # v \/ Incomplete)
=============================================================================
