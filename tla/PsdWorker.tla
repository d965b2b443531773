------------------------------ MODULE PsdWorker ------------------------------
(***************************************************************************)
(* The power spectrum calculation (sigApp/src/fftcalc.cpp, fftwrap.cpp):   *)
(* records set parameters and input data and wake a worker thread, which   *)
(* copies them, calculates, stores the results and has the output records  *)
(* scanned.                                                                *)
(*                                                                         *)
(* The worker holds the lock while it copies in and while it stores.  The  *)
(* records only create a temporary guard, which unlocks at once: a record  *)
(* is not excluded by anything, and its steps come between any two of the  *)
(* copies of the worker.  An array that is being replaced is Torn: so is   *)
(* what a copy finds that overlaps with the replacement.  The calculation  *)
(* is the worker's own affair, and one step with the last copy.            *)
(*                                                                         *)
(* Data are opaque: a result is known by the input and the parameters that *)
(* it was calculated from.                                                 *)
(***************************************************************************)
EXTENDS Integers

CONSTANTS
  Inputs,     \* the waveforms that the input record may read
  LenOf,      \* how many samples each of them has
  Params,     \* the values that the parameter records may have together
  Torn,       \* data copied while they were replaced
  Overwritten,  \* what the FFTW planner leaves in the input array
  NoData,     \* not calculated
  MaxChanges  \* bound: how often the records change a parameter or the input

ASSUME InputAssumption == {Torn, Overwritten, NoData} \cap Inputs = {}
ASSUME LenAssumption == LenOf \in [Inputs -> Nat]
ASSUME ParamAssumption ==
  Params \subseteq [nfft : Nat, fsamp : Nat, mult : Nat \ {0}, win : {"None", "Hann"}]

ASSUME ChangesAssumption == MaxChanges \in Nat

VARIABLES
  changes,   \* bounds the model: the changes so far
  started,   \* startWorkers() has run
  par,       \* Calc::nfft, fsamp, mult, windowtype
  input,     \* the thread in set_wf_input(): where it is and what it copies
  timein, valin,   \* Calc::timein and valin
  wake,      \* Calc::wake
  worker,    \* the worker thread in Calc::run()
  calc,      \* Calc::calc, the worker's own PSDCalc; history: planned, the plans of
             \* the output were made for it
  timeout, valout, scaleout, valid,  \* the results in Calc
  valueScan, scaleScan,  \* the output record and the scale record are requested
  reader,    \* the thread in get_wf_output()
  shown, shownScale      \* the output record and the scale record

in_vars   == <<changes, par, input, timein, valin>>
out_vars  == <<timeout, valout, scaleout, valid>>
rec_vars  == <<valueScan, scaleScan, reader, shown, shownScale>>
vars == <<started, in_vars, wake, worker, calc, out_vars, rec_vars>>

Data == Inputs \cup {Torn, Overwritten, NoData}

Buffer == [data : Inputs \cup {Torn, NoData}, len : Nat]
Output == [data : Data, nfft : Nat, fsamp : Nat, mult : Nat, size : Nat]
Scale == [fsamp : Nat, size : Nat]
NoOutput == [data |-> NoData, nfft |-> 0, fsamp |-> 0, mult |-> 0, size |-> 0]
NoScale == [fsamp |-> 0, size |-> 0]
NoInput == [data |-> NoData, len |-> 0]
TornScale == NoScale
Waiting == [pc |-> "wait", time |-> NoData, scalchange |-> FALSE]

\* copying in, and storing
Loading == {"window", "fsamp", "nfft", "input", "data", "time"}
Stores == {"valid", "value", "values", "scale", "scales", "stamp", "scan"}

TypeOK ==
  /\ {started, wake, valid, valueScan, scaleScan} \subseteq BOOLEAN
  /\ changes \in 0 .. MaxChanges
  /\ par \in Params
  /\ input.pc \in {"idle", "copying"} /\ input.data \in Inputs \cup {NoData}
  /\ {timein, timeout} \subseteq Inputs \cup {NoData}
  /\ valin \in Buffer
  /\ worker.pc \in {"wait"} \cup Loading \cup Stores
  /\ worker.time \in Inputs \cup {NoData} /\ worker.scalchange \in BOOLEAN
  /\ calc.len \in Nat /\ calc.input \in Data /\ calc.output \in Output
  /\ calc.fscale \in Scale /\ {calc.replan, calc.planned} \subseteq BOOLEAN
  /\ valout \in Output /\ scaleout \in Scale
  /\ reader \in {"idle", "copied"}
  /\ shown \in [output : Output, time : Inputs \cup {NoData}, bad : BOOLEAN]
  /\ shownScale \in [scale : Scale, bad : BOOLEAN]

\* windowtype is left as it is found, in Calc and in PSDCalc
Init ==
  /\ changes = 0
  /\ started = FALSE
  /\ par \in {p \in Params : p.nfft = 0 /\ p.fsamp = 0 /\ p.mult = 1}
  /\ input = [pc |-> "idle", data |-> NoData]
  /\ timein = NoData /\ valin = NoInput
  /\ wake = FALSE
  /\ worker = Waiting
  /\ calc \in [nfft : {0}, fsamp : {0}, mult : {0}, win : {"None", "Hann"}, len : {0},
               replan : {TRUE}, planned : {FALSE}, input : {NoData}, output : {NoOutput},
               fscale : {NoScale}]
  /\ timeout = NoData /\ valout = NoOutput /\ scaleout = NoScale /\ valid = FALSE
  /\ valueScan = FALSE /\ scaleScan = FALSE
  /\ reader = "idle"
  /\ shown = [output |-> NoOutput, time |-> NoData, bad |-> TRUE]
  /\ shownScale = [scale |-> NoScale, bad |-> TRUE]

-----------------------------------------------------------------------------
(* Records that set parameters and input *)

StartWorkers ==
  /\ ~started
  /\ started' = TRUE
  /\ UNCHANGED <<in_vars, wake, worker, calc, out_vars, rec_vars>>

\* mutant: a worker that does not wait misses the event
PokeNow == wake' = (wake \/ worker.pc = "wait")

\* Calc::poke(): the event remembers one signal
Poke == wake' = TRUE

Change == changes < MaxChanges /\ changes' = changes + 1

\* set_nfft(), set_fsamp(), set_scale(): nothing happens unless the value changes
SetParam(p) ==
  /\ \E field \in {"nfft", "fsamp", "mult"} :
       p[field] # par[field] /\ p = [par EXCEPT ![field] = p[field]]
  /\ Change
  /\ par' = p
  /\ Poke
  /\ UNCHANGED <<started, input, timein, valin, worker, calc, out_vars, rec_vars>>

\* set_windtype(): the worker is not woken
SetWindow(p) ==
  /\ p = [par EXCEPT !.win = p.win]
  /\ Change
  /\ par' = p
  /\ UNCHANGED <<started, input, timein, valin, wake, worker, calc, out_vars, rec_vars>>

\* set_wf_input(), after dbGetLink(): the time stamp, and the data are replaced
InputBegins(v) ==
  /\ input.pc = "idle"
  /\ Change
  /\ input' = [pc |-> "copying", data |-> v]
  /\ timein' = v
  /\ valin' = [data |-> Torn, len |-> LenOf[v]]
  /\ UNCHANGED <<started, par, wake, worker, calc, out_vars, rec_vars>>

InputEnds ==
  /\ input.pc = "copying"
  /\ input' = [pc |-> "idle", data |-> NoData]
  /\ valin' = [valin EXCEPT !.data = input.data]
  /\ Poke
  /\ UNCHANGED <<changes, started, par, timein, worker, calc, out_vars, rec_vars>>

-----------------------------------------------------------------------------
(* The worker, Calc::run() *)

Incomplete == par.fsamp = 0 \/ par.nfft = 0

\* the event is taken; an incomplete set of parameters makes the results invalid
Take ==
  /\ started
  /\ worker.pc = "wait"
  /\ wake
  /\ wake' = FALSE
  /\ \/ /\ Incomplete
        /\ valid' = FALSE
        /\ valueScan' = TRUE
        /\ UNCHANGED worker
     \/ /\ ~Incomplete
        /\ worker' = [Waiting EXCEPT !.pc = "window"]
        /\ UNCHANGED <<valid, valueScan>>
  /\ UNCHANGED <<started, in_vars, calc, timeout, valout, scaleout, scaleScan, reader, shown,
                 shownScale>>

\* mutant: scalchange is assigned by each call instead of collected
CollectLast(changed) == changed

Collect(changed) == worker.scalchange \/ changed

\* one field is copied: a change is collected in scalchange and asks for new plans
LoadField(pc, next, changed) ==
  /\ worker.pc = pc
  /\ worker' = [worker EXCEPT !.pc = next, !.scalchange = Collect(changed)]
  /\ UNCHANGED <<started, in_vars, wake, out_vars, rec_vars>>

LoadWindow ==
  /\ LoadField("window", "fsamp", calc.win # par.win)
  /\ calc' = [calc EXCEPT !.win = par.win, !.replan = @ \/ calc.win # par.win]

LoadFsamp ==
  /\ LoadField("fsamp", "nfft", calc.fsamp # par.fsamp)
  /\ calc' = [calc EXCEPT !.fsamp = par.fsamp, !.replan = @ \/ calc.fsamp # par.fsamp]

LoadNfft ==
  /\ LoadField("nfft", "input", calc.nfft # par.nfft)
  /\ calc' = [calc EXCEPT !.nfft = par.nfft, !.replan = @ \/ calc.nfft # par.nfft]

\* set_input(): first the length and the factor, then the data
LoadInput ==
  LET changed == calc.len # valin.len \/ calc.mult # par.mult
  IN /\ LoadField("input", "data", changed)
     /\ calc' = [calc EXCEPT !.len = valin.len, !.mult = par.mult, !.replan = @ \/ changed]

LoadData ==
  /\ worker.pc = "data"
  /\ worker' = [worker EXCEPT !.pc = "time"]
  /\ calc' = [calc EXCEPT !.input = valin.data]
  /\ UNCHANGED <<started, in_vars, wake, out_vars, rec_vars>>

Smaller(m, n) == IF m < n THEN m ELSE n

\* mutant: the input is only transformed when there are new plans
SpectrumOnce(d) ==
  IF ~calc.replan THEN calc.output
  ELSE [data |-> d, nfft |-> calc.nfft, fsamp |-> calc.fsamp, mult |-> calc.mult,
        size |-> Smaller(calc.nfft, calc.len) \div 2]

\* the spectrum without its first line
Spectrum(d) == [data |-> d, nfft |-> calc.nfft, fsamp |-> calc.fsamp, mult |-> calc.mult,
                size |-> Smaller(calc.nfft, calc.len) \div 2]

\* PSDCalc::calculate(): with no input the results stay as they are; new plans may
\* overwrite the input that they are made for
Calculate ==
  IF calc.len = 0 \/ calc.nfft = 0 THEN UNCHANGED calc
  ELSE \E d \in {calc.input} \cup IF calc.replan THEN {Overwritten} ELSE {} :
         calc' = [calc EXCEPT
                    !.input = NoData, !.replan = FALSE,
                    !.planned = calc.replan,
                    !.output = Spectrum(d),
                    !.fscale = IF calc.replan
                                 THEN [fsamp |-> calc.fsamp, size |-> Spectrum(d).size] ELSE @]

LoadTime ==
  /\ worker.pc = "time"
  /\ worker' = [worker EXCEPT !.pc = "valid", !.time = timein]
  /\ Calculate
  /\ UNCHANGED <<started, in_vars, wake, out_vars, rec_vars>>

\* the results are stored one after the other, the scale only when it changed; one
\* line is put in where there is none
Storing(pc, next) ==
  /\ worker.pc = pc
  /\ worker' = [worker EXCEPT !.pc = next]
  /\ UNCHANGED <<started, in_vars, wake, calc, rec_vars>>

StoreValid ==
  /\ Storing("valid", "value")
  /\ valid' = TRUE
  /\ UNCHANGED <<timeout, valout, scaleout>>

StoreValue ==
  \/ /\ Storing("value", "values")
     /\ valout' = [calc.output EXCEPT !.data = Torn]
     /\ UNCHANGED <<timeout, scaleout, valid>>
  \/ /\ Storing("values", IF worker.scalchange THEN "scale" ELSE "stamp")
     /\ valout' = calc.output
     /\ valid' = (valid /\ calc.output.size # 0)
     /\ UNCHANGED <<timeout, scaleout>>

StoreScale ==
  \/ /\ Storing("scale", "scales")
     /\ scaleout' = TornScale
     /\ UNCHANGED <<timeout, valout, valid>>
  \/ /\ Storing("scales", "stamp")
     /\ scaleout' = calc.fscale
     /\ valid' = (valid /\ calc.fscale.size # 0)
     /\ UNCHANGED <<timeout, valout>>

StoreTime ==
  /\ Storing("stamp", "scan")
  /\ timeout' = worker.time
  /\ UNCHANGED <<valout, scaleout, valid>>

\* mutant: the output records are not scanned
AnnounceNothing == UNCHANGED <<valueScan, scaleScan>>

Announce == valueScan' = TRUE /\ scaleScan' = (scaleScan \/ worker.scalchange)

Finish ==
  /\ worker.pc = "scan"
  /\ worker' = Waiting
  /\ Announce
  /\ UNCHANGED <<started, in_vars, wake, calc, out_vars, reader, shown, shownScale>>

-----------------------------------------------------------------------------
(* Output records *)

\* get_wf_output(): first the values, then the time stamp
ReadValue ==
  /\ valueScan
  /\ reader = "idle"
  /\ valueScan' = FALSE
  /\ IF valid
       THEN /\ shown' = [shown EXCEPT !.output = valout, !.bad = FALSE]
            /\ reader' = "copied"
       ELSE /\ shown' = [shown EXCEPT !.bad = TRUE]
            /\ UNCHANGED reader
  /\ UNCHANGED <<started, in_vars, wake, worker, calc, out_vars, scaleScan, shownScale>>

ReadTime ==
  /\ reader = "copied"
  /\ reader' = "idle"
  /\ shown' = [shown EXCEPT !.time = timeout]
  /\ UNCHANGED <<started, in_vars, wake, worker, calc, out_vars, valueScan, scaleScan, shownScale>>

\* get_wf_fscale()
ReadScale ==
  /\ scaleScan
  /\ scaleScan' = FALSE
  /\ shownScale' = IF valid THEN [scale |-> scaleout, bad |-> FALSE]
                            ELSE [shownScale EXCEPT !.bad = TRUE]
  /\ UNCHANGED <<started, in_vars, wake, worker, calc, out_vars, valueScan, reader, shown>>

SetInput == (\E v \in Inputs : InputBegins(v)) \/ InputEnds

SetParameter == \E p \in Params : SetParam(p) \/ SetWindow(p)

Load == LoadWindow \/ LoadFsamp \/ LoadNfft \/ LoadInput \/ LoadData \/ LoadTime

Store == StoreValid \/ StoreValue \/ StoreScale \/ StoreTime

Run == Take \/ Load \/ Store \/ Finish

Read == ReadValue \/ ReadTime \/ ReadScale

Next == StartWorkers \/ SetParameter \/ SetInput \/ Run \/ Read

Spec == Init /\ [][Next]_vars

\* a record that has begun to process goes on, the worker is scheduled
Fairness ==
  /\ WF_vars(StartWorkers)
  /\ WF_vars(InputEnds)
  /\ WF_vars(Run)

FairSpec == Spec /\ Fairness
=============================================================================
