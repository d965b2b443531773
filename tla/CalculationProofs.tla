-------------------------- MODULE CalculationProofs --------------------------
(***************************************************************************)
(* Proofs about what is calculated from the data of the devices: by the    *)
(* worker of the power spectra (PsdWorker), for every set of inputs and    *)
(* parameters and every interleaving of the records with the worker; and   *)
(* by the subroutines of records (Routines), for arrays and numbers of     *)
(* links of every size, and for the links and parameters that each         *)
(* property names.                                                         *)
(***************************************************************************)
EXTENDS PsdWorkerProps, RoutinesProps, FiniteSetTheorems, WellFoundedInduction, TLAPS

-----------------------------------------------------------------------------
(* The worker of the power spectra: when all is settled, the results, the scale *)
(* and the output records are of the present parameters and input.         *)

Fits(scale, output) == scale.size = output.size /\ scale.fsamp = output.fsamp

\* The worker's own state: its scale fits its output, and plans exist for the
\* length and parameters that it has, unless a change was just collected
CalcInv ==
  /\ Fits(calc.fscale, calc.output)
  /\ calc.replan => \/ calc.len = 0 \/ calc.nfft = 0
                    \/ worker.pc \in Loading /\ worker.scalchange
  /\ ~calc.replan =>
       /\ calc.output.size = Smaller(calc.nfft, calc.len) \div 2
       /\ calc.output.fsamp = calc.fsamp

\* The stored scale fits the output that is or will be stored, unless a new scale
\* is stored with it
ScaleInv ==
  /\ worker.pc \in {"scale", "scales"} => worker.scalchange
  /\ worker.pc \in {"wait", "stamp", "scan"} \cup Loading \/ ~worker.scalchange =>
       Fits(scaleout, calc.output)
  /\ worker.pc \in {"scale", "scales", "stamp", "scan"} => valout = calc.output
  /\ worker.pc = "scan" => timeout = worker.time
  /\ worker.pc \notin {"value", "values", "scale", "scales"} /\ valid => Fits(scaleout, valout)

Current(result) ==
  valin.len # 0 =>
    /\ result.data = valin.data \/ (calc.planned /\ result.data = Overwritten)
    /\ result.nfft = par.nfft /\ result.fsamp = par.fsamp /\ result.mult = par.mult

\* With no event to come and no input half way, what the worker has copied is current,
\* and so are the results while they are stored and after
ResultInv ==
  ~wake /\ input.pc = "idle" =>
    /\ worker.pc # "wait" => ~Incomplete
    /\ worker.pc \in {"nfft", "input", "data", "time"} => calc.fsamp = par.fsamp
    /\ worker.pc \in {"input", "data", "time"} => calc.nfft = par.nfft
    /\ worker.pc \in {"data", "time"} => calc.len = valin.len /\ calc.mult = par.mult
    /\ worker.pc = "time" => calc.input = valin.data
    /\ worker.pc \in Stores => worker.time = timein /\ Current(calc.output)
    /\ worker.pc = "wait" /\ valid => ~Incomplete /\ timeout = timein /\ Current(valout)

\* The same for the output record and the results, and for the scale record
ReadInv ==
  /\ ~valueScan /\ worker.pc \notin Stores \ {"valid"} =>
       /\ reader = "idle" =>
            shown.bad = ~valid /\ (valid => shown.output = valout /\ shown.time = timeout)
       /\ reader = "copied" => shown.bad = FALSE /\ valid /\ shown.output = valout
  /\ ~scaleScan /\ ~(worker.pc \in {"scales", "stamp", "scan"} /\ worker.scalchange) =>
       shownScale.bad \/ shownScale.scale = scaleout

Pcs == {"wait"} \cup Loading \cup Stores

\* What the parts above need of the types
Shape ==
  /\ par \in Params
  /\ worker \in [pc : Pcs, time : Data, scalchange : BOOLEAN]
  /\ reader \in {"idle", "copied"}
  /\ valid \in BOOLEAN /\ scaleScan \in BOOLEAN
  /\ shown \in [output : Output, time : Data, bad : BOOLEAN]
  /\ shownScale \in [scale : Scale, bad : BOOLEAN]
  /\ calc \in [nfft : Nat, fsamp : Nat, mult : Nat, win : {"None", "Hann"}, len : Nat,
               replan : BOOLEAN, planned : BOOLEAN, input : Data, output : Output,
               fscale : Scale]
  /\ valout \in Output /\ scaleout \in Scale
  /\ timeout \in Data /\ timein \in Data
  /\ valin \in [data : Data, len : Nat] /\ input.data \in Data

WorkerInv == Shape /\ CalcInv /\ ScaleInv /\ ResultInv /\ ReadInv

-----------------------------------------------------------------------------
LEMMA InitWorker == Init => WorkerInv
<1> SUFFICES ASSUME Init PROVE WorkerInv
  OBVIOUS
<1>1. /\ calc.output = NoOutput /\ calc.fscale = NoScale /\ calc.replan = TRUE /\ calc.len = 0
      /\ par \in Params
  BY DEF Init
<1>2. NoOutput \in Output /\ NoOutput.size = 0 /\ NoOutput.fsamp = 0 /\ NoScale \in Scale
      /\ NoScale.size = 0 /\ NoScale.fsamp = 0
  BY DEF NoOutput, Output, NoScale, Scale, Data
<1>3. Waiting \in [pc : Pcs, time : Data, scalchange : BOOLEAN] /\ Waiting.pc = "wait"
  BY DEF Waiting, Pcs, Data
<1>4. calc \in [nfft : Nat, fsamp : Nat, mult : Nat, win : {"None", "Hann"}, len : Nat,
               replan : BOOLEAN, planned : BOOLEAN, input : Data, output : Output,
               fscale : Scale]
  <2>1. NoData \in Data
    BY DEF Data
  <2>2. calc \in [nfft : {0}, fsamp : {0}, mult : {0}, win : {"None", "Hann"}, len : {0},
                 replan : {TRUE}, planned : {FALSE}, input : {NoData}, output : {NoOutput},
                 fscale : {NoScale}]
    BY DEF Init
  <2>3. /\ {0} \subseteq Nat /\ {TRUE} \subseteq BOOLEAN /\ {FALSE} \subseteq BOOLEAN
        /\ {NoData} \subseteq Data /\ {NoOutput} \subseteq Output /\ {NoScale} \subseteq Scale
    BY <1>2, <2>1
  <2> QED BY <2>2, <2>3, Zenon
<1>5. /\ shown \in [output : Output, time : Data, bad : BOOLEAN] /\ shown.bad = TRUE
      /\ shownScale \in [scale : Scale, bad : BOOLEAN] /\ shownScale.bad = TRUE
  BY <1>2 DEF Init, Data
<1>6. Shape
  BY <1>1, <1>2, <1>3, <1>4, <1>5 DEF Init, Shape, NoInput, Data
<1>7. CalcInv /\ ScaleInv
  BY <1>1, <1>2, <1>3 DEF Init, CalcInv, ScaleInv, Fits
<1>8. ResultInv /\ ReadInv
  BY <1>3, <1>5 DEF Init, ResultInv, ReadInv, Stores
<1> QED
  BY <1>6, <1>7, <1>8 DEF WorkerInv

\* The records that write: every change of a parameter leaves an event, and the
\* input is half way until it has left one
LEMMA WritersKeep ==
  ASSUME WorkerInv, StartWorkers \/ SetParameter \/ SetInput
  PROVE  WorkerInv'
<1>1. UNCHANGED <<worker, calc, out_vars, rec_vars>>
  BY DEF StartWorkers, SetParameter, SetParam, SetWindow, SetInput, InputBegins, InputEnds
<1>2. CalcInv' /\ ScaleInv' /\ ReadInv'
  BY <1>1 DEF WorkerInv, CalcInv, ScaleInv, ReadInv, Fits, out_vars, rec_vars
<1> USE DEF WorkerInv, Shape, ResultInv, Current, Incomplete, in_vars, out_vars, rec_vars
<1>3. CASE StartWorkers
  BY <1>2, <1>3 DEF StartWorkers
<1>4. ASSUME NEW p \in Params, SetParam(p) PROVE WorkerInv'
  BY <1>1, <1>2, <1>4 DEF SetParam, Poke
<1>5. ASSUME NEW p \in Params, SetWindow(p) PROVE WorkerInv'
  <2>1. par'.nfft = par.nfft /\ par'.fsamp = par.fsamp /\ par'.mult = par.mult /\ par' \in Params
    BY <1>5, ParamAssumption DEF SetWindow
  <2> QED BY <1>1, <1>2, <1>5, <2>1 DEF SetWindow
<1>6. ASSUME NEW v \in Inputs, InputBegins(v) PROVE WorkerInv'
  <2>1. /\ input'.pc = "copying" /\ input'.data = v /\ timein' = v
        /\ valin'.data = Torn /\ valin'.len = LenOf[v] /\ LenOf[v] \in Nat
    BY <1>6, LenAssumption DEF InputBegins
  <2> QED BY <1>1, <1>2, <1>6, <2>1 DEF InputBegins, Data
<1>7. CASE InputEnds
  <2>1. /\ input'.data = NoData /\ wake' = TRUE
        /\ valin'.data \in Data /\ valin'.len \in Nat
    BY <1>7 DEF InputEnds, Poke
  <2>2. Shape'
    BY <1>1, <1>7, <2>1 DEF InputEnds, Data
  <2> QED BY <1>2, <1>7, <2>1, <2>2 DEF InputEnds
<1> QED
  BY <1>3, <1>4, <1>5, <1>6, <1>7 DEF SetParameter, SetInput

\* The fields of the worker's records, for the steps that change some of them
LEMMA WorkerFields ==
  ASSUME Shape
  PROVE  /\ worker.pc \in Pcs /\ worker.time \in Data /\ worker.scalchange \in BOOLEAN
         /\ calc.nfft \in Nat /\ calc.fsamp \in Nat /\ calc.len \in Nat
         /\ calc.replan \in BOOLEAN /\ calc.output \in Output /\ calc.fscale \in Scale
         /\ par.nfft \in Nat /\ par.fsamp \in Nat /\ par.mult \in Nat
         /\ par.win \in {"None", "Hann"} /\ valin.len \in Nat /\ valin.data \in Data
  BY ParamAssumption DEF Shape

LEMMA TakeKeeps ==
  ASSUME WorkerInv, Take
  PROVE  WorkerInv'
<1>1. /\ worker.pc = "wait" /\ wake' = FALSE
      /\ UNCHANGED <<started, in_vars, calc, timeout, valout, scaleout, scaleScan, reader, shown,
                     shownScale>>
  BY DEF Take
<1>2. CASE Incomplete /\ valid' = FALSE /\ valueScan' = TRUE /\ UNCHANGED worker
  BY <1>1, <1>2 DEF WorkerInv, Shape, CalcInv, ScaleInv, ResultInv, ReadInv, in_vars, Stores, Fits
<1>3. CASE /\ ~Incomplete /\ worker' = [Waiting EXCEPT !.pc = "window"]
           /\ UNCHANGED <<valid, valueScan>>
  <2>1. /\ worker'.pc = "window" /\ worker'.scalchange = FALSE
        /\ worker' \in [pc : Pcs, time : Data, scalchange : BOOLEAN]
    BY <1>3 DEF Waiting, Pcs, Loading, Data
  <2>2. Shape' /\ CalcInv'
    BY <1>1, <1>3, <2>1 DEF WorkerInv, Shape, CalcInv, in_vars, Fits, Loading
  <2>3. ScaleInv'
    BY <1>1, <1>3, <2>1 DEF WorkerInv, ScaleInv, Fits
  <2>4. ResultInv' /\ ReadInv'
    BY <1>1, <1>3, <2>1 DEF WorkerInv, ResultInv, ReadInv, in_vars, Incomplete, Stores
  <2> QED BY <2>2, <2>3, <2>4 DEF WorkerInv
<1> QED
  BY <1>2, <1>3 DEF Take

\* A field is copied: nothing that was calculated or stored changes
LEMMA LoadKeeps ==
  ASSUME WorkerInv, NEW next \in Loading, NEW changed \in BOOLEAN,
         worker.pc \in Loading, worker'.pc = next,
         worker' \in [pc : Pcs, time : Data, scalchange : BOOLEAN],
         worker'.scalchange = (worker.scalchange \/ changed),
         UNCHANGED <<started, in_vars, wake, out_vars, rec_vars>>,
         calc' \in [nfft : Nat, fsamp : Nat, mult : Nat, win : {"None", "Hann"}, len : Nat,
                    replan : BOOLEAN, planned : BOOLEAN, input : Data, output : Output,
                    fscale : Scale],
         calc'.output = calc.output, calc'.fscale = calc.fscale,
         calc'.replan = (calc.replan \/ changed),
         ~changed => calc'.nfft = calc.nfft /\ calc'.fsamp = calc.fsamp /\ calc'.len = calc.len
  PROVE  Shape' /\ CalcInv' /\ ScaleInv' /\ ReadInv'
<1>1. Shape'
  BY DEF WorkerInv, Shape, in_vars, out_vars, rec_vars
<1>2. CalcInv'
  BY DEF WorkerInv, CalcInv, Fits
<1>3. ScaleInv' /\ ReadInv'
  BY DEF WorkerInv, ScaleInv, ReadInv, Fits, out_vars, rec_vars, Loading, Stores
<1> QED
  BY <1>1, <1>2, <1>3

LEMMA LoadsKeep ==
  ASSUME WorkerInv, LoadWindow \/ LoadFsamp \/ LoadNfft \/ LoadInput \/ LoadData
  PROVE  WorkerInv'
<1>1. Shape
  BY DEF WorkerInv
<1> DEFINE Frame == UNCHANGED <<started, in_vars, wake, out_vars, rec_vars>>
           W(next, s) == /\ worker'.pc = next /\ worker'.scalchange = (worker.scalchange \/ s)
                         /\ worker' \in [pc : Pcs, time : Data, scalchange : BOOLEAN]
           C == calc' \in [nfft : Nat, fsamp : Nat, mult : Nat, win : {"None", "Hann"}, len : Nat,
                           replan : BOOLEAN, planned : BOOLEAN, input : Data, output : Output,
                           fscale : Scale]
           Kept == /\ C /\ calc'.output = calc.output /\ calc'.fscale = calc.fscale
                   /\ calc'.planned = calc.planned
<1>2. ASSUME NEW pc \in Loading, NEW next \in Loading, NEW s \in BOOLEAN, LoadField(pc, next, s)
      PROVE  worker.pc = pc /\ W(next, s) /\ Frame
  BY <1>1, <1>2 DEF LoadField, Collect, Shape, Pcs
<1>3. CASE LoadWindow
  <2>1. worker.pc = "window" /\ W("fsamp", calc.win # par.win) /\ Frame
    BY <1>2, <1>3 DEF LoadWindow, Loading
  <2>2. /\ Kept /\ calc'.replan = (calc.replan \/ calc.win # par.win)
        /\ calc'.nfft = calc.nfft /\ calc'.fsamp = calc.fsamp /\ calc'.len = calc.len
    BY <1>1, <1>3, WorkerFields DEF LoadWindow, Shape
  <2>3. Shape' /\ CalcInv' /\ ScaleInv' /\ ReadInv'
    BY <2>1, <2>2, LoadKeeps DEF Loading
  <2>4. ResultInv'
    BY <2>1, <2>2 DEF WorkerInv, ResultInv, Incomplete, in_vars, Stores
  <2> QED BY <2>3, <2>4 DEF WorkerInv
<1>4. CASE LoadFsamp
  <2>1. worker.pc = "fsamp" /\ W("nfft", calc.fsamp # par.fsamp) /\ Frame
    BY <1>2, <1>4 DEF LoadFsamp, Loading
  <2>2. /\ Kept /\ calc'.replan = (calc.replan \/ calc.fsamp # par.fsamp)
        /\ calc'.nfft = calc.nfft /\ calc'.fsamp = par.fsamp /\ calc'.len = calc.len
    BY <1>1, <1>4, WorkerFields DEF LoadFsamp, Shape
  <2>3. Shape' /\ CalcInv' /\ ScaleInv' /\ ReadInv'
    BY <2>1, <2>2, LoadKeeps DEF Loading
  <2>4. ResultInv'
    BY <2>1, <2>2 DEF WorkerInv, ResultInv, Incomplete, in_vars, Stores
  <2> QED BY <2>3, <2>4 DEF WorkerInv
<1>5. CASE LoadNfft
  <2>1. worker.pc = "nfft" /\ W("input", calc.nfft # par.nfft) /\ Frame
    BY <1>2, <1>5 DEF LoadNfft, Loading
  <2>2. /\ Kept /\ calc'.replan = (calc.replan \/ calc.nfft # par.nfft)
        /\ calc'.nfft = par.nfft /\ calc'.fsamp = calc.fsamp /\ calc'.len = calc.len
    BY <1>1, <1>5, WorkerFields DEF LoadNfft, Shape
  <2>3. Shape' /\ CalcInv' /\ ScaleInv' /\ ReadInv'
    BY <2>1, <2>2, LoadKeeps DEF Loading
  <2>4. ResultInv'
    BY <2>1, <2>2 DEF WorkerInv, ResultInv, Incomplete, in_vars, Stores
  <2> QED BY <2>3, <2>4 DEF WorkerInv
<1>6. CASE LoadInput
  <2> DEFINE changed == calc.len # valin.len \/ calc.mult # par.mult
  <2>1. worker.pc = "input" /\ W("data", changed) /\ Frame
    BY <1>2, <1>6 DEF LoadInput, Loading
  <2>2. /\ Kept /\ calc'.replan = (calc.replan \/ changed)
        /\ calc'.nfft = calc.nfft /\ calc'.fsamp = calc.fsamp /\ calc'.len = valin.len
        /\ calc'.mult = par.mult
    BY <1>1, <1>6, WorkerFields DEF LoadInput, Shape
  <2>3. Shape' /\ CalcInv' /\ ScaleInv' /\ ReadInv'
    BY <2>1, <2>2, LoadKeeps DEF Loading
  <2>4. ResultInv'
    BY <2>1, <2>2 DEF WorkerInv, ResultInv, Incomplete, in_vars, Stores
  <2> QED BY <2>3, <2>4 DEF WorkerInv
<1>7. CASE LoadData
  <2>1. worker.pc = "data" /\ W("time", FALSE) /\ Frame
    BY <1>1, <1>7 DEF LoadData, Shape, Pcs, Loading
  <2>2. /\ Kept /\ calc'.replan = (calc.replan \/ FALSE) /\ calc'.nfft = calc.nfft
        /\ calc'.fsamp = calc.fsamp /\ calc'.len = calc.len /\ calc'.mult = calc.mult
        /\ calc'.input = valin.data
    BY <1>1, <1>7, WorkerFields DEF LoadData, Shape
  <2>3. Shape' /\ CalcInv' /\ ScaleInv' /\ ReadInv'
    BY <2>1, <2>2, LoadKeeps DEF Loading
  <2>4. ResultInv'
    BY <2>1, <2>2 DEF WorkerInv, ResultInv, Incomplete, in_vars, Stores
  <2> QED BY <2>3, <2>4 DEF WorkerInv
<1> QED
  BY <1>3, <1>4, <1>5, <1>6, <1>7

\* The calculation: its scale belongs to its spectrum, and only changes with scalchange
LEMMA TimeKeeps ==
  ASSUME WorkerInv, LoadTime
  PROVE  WorkerInv'
<1>1. /\ Shape /\ CalcInv /\ ScaleInv /\ worker.pc = "time"
      /\ UNCHANGED <<started, in_vars, wake, out_vars, rec_vars>>
  BY DEF WorkerInv, LoadTime
<1>2. /\ worker'.pc = "valid" /\ worker'.time = timein /\ worker'.scalchange = worker.scalchange
      /\ worker' \in [pc : Pcs, time : Data, scalchange : BOOLEAN]
  BY <1>1 DEF LoadTime, Shape, Pcs, Stores
<1>3. ReadInv'
  BY <1>1, <1>2 DEF WorkerInv, ReadInv, out_vars, rec_vars, Stores
<1> DEFINE S == Smaller(calc.nfft, calc.len) \div 2
           Rest == /\ calc' \in [nfft : Nat, fsamp : Nat, mult : Nat, win : {"None", "Hann"},
                                 len : Nat, replan : BOOLEAN, planned : BOOLEAN, input : Data,
                                 output : Output, fscale : Scale]
                   /\ calc'.nfft = calc.nfft /\ calc'.fsamp = calc.fsamp /\ calc'.len = calc.len
<1>4. CASE (calc.len = 0 \/ calc.nfft = 0) /\ UNCHANGED calc
  <2>1. Shape' /\ CalcInv' /\ ScaleInv'
    BY <1>1, <1>2, <1>4 DEF Shape, CalcInv, ScaleInv, Fits, in_vars, out_vars, rec_vars, Loading
  <2>2. ResultInv'
    BY <1>1, <1>2, <1>4 DEF WorkerInv, ResultInv, Current, Incomplete, in_vars, out_vars, Stores
  <2> QED BY <1>3, <2>1, <2>2 DEF WorkerInv
<1>5. CASE ~(calc.len = 0 \/ calc.nfft = 0)
  <2>1. PICK d \in {calc.input} \cup IF calc.replan THEN {Overwritten} ELSE {} :
          calc' = [calc EXCEPT
                     !.input = NoData, !.replan = FALSE,
                     !.planned = calc.replan,
                     !.output = Spectrum(d),
                     !.fscale = IF calc.replan
                                  THEN [fsamp |-> calc.fsamp, size |-> Spectrum(d).size] ELSE @]
    BY <1>5 DEF LoadTime, Calculate
  <2>2. d \in Data /\ (d = calc.input \/ (d = Overwritten /\ calc.replan))
    BY <1>1, <2>1 DEF Shape, Data
  <2>3. S \in Nat
    <3>1. Smaller(calc.nfft, calc.len) \in Nat
      BY <1>1, WorkerFields DEF Smaller
    <3> QED BY <3>1
  <2>4. /\ Spectrum(d) \in Output /\ Spectrum(d).data = d /\ Spectrum(d).nfft = calc.nfft
        /\ Spectrum(d).fsamp = calc.fsamp /\ Spectrum(d).mult = calc.mult /\ Spectrum(d).size = S
    BY <1>1, <2>2, <2>3 DEF Spectrum, Output, Shape
  <2>5. [fsamp |-> calc.fsamp, size |-> Spectrum(d).size] \in Scale
    BY <1>1, <2>3, <2>4, WorkerFields DEF Scale
  <2>6. /\ Rest /\ calc'.output = Spectrum(d) /\ calc'.replan = FALSE /\ calc'.planned = calc.replan
        /\ calc'.fscale = IF calc.replan THEN [fsamp |-> calc.fsamp, size |-> S] ELSE calc.fscale
    BY <1>1, <2>1, <2>4, <2>5 DEF Shape, Data
  <2>7. ~calc.replan => Fits(calc.fscale, Spectrum(d)) /\ Fits(calc.output, Spectrum(d))
    BY <1>1, <2>4 DEF CalcInv, Fits
  <2>8. CalcInv'
    BY <2>4, <2>6, <2>7 DEF CalcInv, Fits
  <2>9. ScaleInv'
    <3>1. ~worker.scalchange => ~calc.replan
      BY <1>1, <1>5 DEF CalcInv
    <3>2. ~worker.scalchange => Fits(scaleout, Spectrum(d))
      BY <1>1, <2>7, <3>1 DEF ScaleInv, Fits
    <3> QED BY <1>1, <1>2, <2>6, <3>2 DEF ScaleInv, Fits, out_vars, Loading
  <2>10. Shape'
    BY <1>1, <1>2, <2>6 DEF Shape, in_vars, out_vars, rec_vars
  <2>11. ResultInv'
    BY <1>1, <1>2, <2>2, <2>4, <2>6
    DEF WorkerInv, ResultInv, Current, Incomplete, in_vars, out_vars, Stores
  <2> QED BY <1>3, <2>8, <2>9, <2>10, <2>11 DEF WorkerInv
<1> QED
  BY <1>4, <1>5 DEF LoadTime, Calculate

\* The results are stored: what a record sees meanwhile is of no consequence, because
\* the records are scanned after
LEMMA StoreKeeps ==
  ASSUME WorkerInv, Store
  PROVE  WorkerInv'
<1>1. /\ Shape /\ CalcInv /\ ScaleInv /\ ResultInv /\ ReadInv
      /\ UNCHANGED <<started, in_vars, wake, calc, rec_vars>>
  BY DEF WorkerInv, Store, StoreValid, StoreValue, StoreScale, StoreTime, Storing
<1> DEFINE W(next) == /\ worker'.pc = next /\ worker'.time = worker.time
                      /\ worker'.scalchange = worker.scalchange
                      /\ worker' \in [pc : Pcs, time : Data, scalchange : BOOLEAN]
<1>2. ASSUME NEW pc \in Stores, NEW next \in Stores, Storing(pc, next)
      PROVE  worker.pc = pc /\ W(next)
  BY <1>1, <1>2 DEF Storing, Shape, Pcs
<1>3. ASSUME NEW pc \in Stores, NEW next \in Stores, worker.pc = pc, W(next),
             valid' \in BOOLEAN, valout' \in Output, scaleout' \in Scale, timeout' \in Data
      PROVE  Shape' /\ CalcInv'
  BY <1>1, <1>3 DEF Shape, CalcInv, Fits, in_vars, rec_vars, Loading, Stores
<1>4. CASE StoreValid
  <2>1. worker.pc = "valid" /\ W("value") /\ valid' = TRUE /\ UNCHANGED <<timeout, valout, scaleout>>
    BY <1>2, <1>4 DEF StoreValid, Stores
  <2>2. Shape' /\ CalcInv'
    BY <1>1, <1>3, <2>1 DEF Shape, Stores
  <2>3. ScaleInv' /\ ReadInv'
    BY <1>1, <2>1 DEF ScaleInv, ReadInv, Fits, Loading, Stores, rec_vars
  <2>4. ResultInv'
    BY <1>1, <2>1 DEF ResultInv, Current, Incomplete, Stores, in_vars
  <2> QED BY <2>2, <2>3, <2>4 DEF WorkerInv
<1>5. CASE /\ Storing("value", "values") /\ valout' = [calc.output EXCEPT !.data = Torn]
           /\ UNCHANGED <<timeout, scaleout, valid>>
  <2>1. worker.pc = "value" /\ W("values") /\ UNCHANGED <<timeout, scaleout, valid>>
    BY <1>2, <1>5 DEF Stores
  <2>2. valout' \in Output
    BY <1>1, <1>5 DEF Shape, Output, Data
  <2>3. Shape' /\ CalcInv'
    BY <1>1, <1>3, <2>1, <2>2 DEF Shape, Stores
  <2>4. ScaleInv' /\ ReadInv'
    BY <1>1, <2>1 DEF ScaleInv, ReadInv, Fits, Loading, Stores, rec_vars
  <2>5. ResultInv'
    BY <1>1, <2>1 DEF ResultInv, Current, Incomplete, Stores, in_vars
  <2> QED BY <2>3, <2>4, <2>5 DEF WorkerInv
<1>6. CASE /\ Storing("values", IF worker.scalchange THEN "scale" ELSE "stamp")
           /\ valout' = calc.output /\ valid' = (valid /\ calc.output.size # 0)
           /\ UNCHANGED <<timeout, scaleout>>
  <2>1. worker.pc = "values" /\ W(IF worker.scalchange THEN "scale" ELSE "stamp")
    BY <1>2, <1>6 DEF Stores
  <2>2. Shape' /\ CalcInv'
    BY <1>1, <1>3, <1>6, <2>1 DEF Shape, Stores
  <2>3. ScaleInv'
    BY <1>1, <1>6, <2>1 DEF ScaleInv, Fits, Loading
  <2>4. ReadInv'
    BY <1>1, <1>6, <2>1 DEF ReadInv, Stores, rec_vars
  <2>5. ResultInv'
    BY <1>1, <1>6, <2>1 DEF ResultInv, Current, Incomplete, Stores, in_vars
  <2> QED BY <2>2, <2>3, <2>4, <2>5 DEF WorkerInv
<1>7. CASE Storing("scale", "scales") /\ scaleout' = TornScale /\ UNCHANGED <<timeout, valout, valid>>
  <2>1. worker.pc = "scale" /\ W("scales")
    BY <1>2, <1>7 DEF Stores
  <2>2. scaleout' \in Scale
    BY <1>7 DEF TornScale, NoScale, Scale
  <2>3. Shape' /\ CalcInv'
    BY <1>1, <1>3, <1>7, <2>1, <2>2 DEF Shape, Stores
  <2>4. ScaleInv' /\ ReadInv'
    BY <1>1, <1>7, <2>1 DEF ScaleInv, ReadInv, Fits, Loading, Stores, rec_vars
  <2>5. ResultInv'
    BY <1>1, <1>7, <2>1 DEF ResultInv, Current, Incomplete, Stores, in_vars
  <2> QED BY <2>3, <2>4, <2>5 DEF WorkerInv
<1>8. CASE /\ Storing("scales", "stamp") /\ scaleout' = calc.fscale
           /\ valid' = (valid /\ calc.fscale.size # 0) /\ UNCHANGED <<timeout, valout>>
  <2>1. worker.pc = "scales" /\ W("stamp")
    BY <1>2, <1>8 DEF Stores
  <2>2. Shape' /\ CalcInv'
    BY <1>1, <1>3, <1>8, <2>1 DEF Shape, Stores
  <2>3. ScaleInv'
    BY <1>1, <1>8, <2>1 DEF ScaleInv, CalcInv, Fits, Loading
  <2>4. ReadInv'
    BY <1>1, <1>8, <2>1 DEF ScaleInv, ReadInv, Stores, rec_vars
  <2>5. ResultInv'
    BY <1>1, <1>8, <2>1 DEF ResultInv, Current, Incomplete, Stores, in_vars
  <2> QED BY <2>2, <2>3, <2>4, <2>5 DEF WorkerInv
<1>9. CASE StoreTime
  <2>1. /\ worker.pc = "stamp" /\ W("scan") /\ timeout' = worker.time
        /\ UNCHANGED <<valout, scaleout, valid>>
    BY <1>2, <1>9 DEF StoreTime, Stores
  <2>2. Shape' /\ CalcInv'
    BY <1>1, <1>3, <2>1 DEF Shape, Stores
  <2>3. ScaleInv' /\ ReadInv'
    BY <1>1, <2>1 DEF ScaleInv, ReadInv, Fits, Loading, Stores, rec_vars
  <2>4. ResultInv'
    BY <1>1, <2>1 DEF ResultInv, Current, Incomplete, Stores, in_vars
  <2> QED BY <2>2, <2>3, <2>4 DEF WorkerInv
<1> QED
  BY <1>4, <1>5, <1>6, <1>7, <1>8, <1>9 DEF Store, StoreValue, StoreScale

LEMMA FinishKeeps ==
  ASSUME WorkerInv, Finish
  PROVE  WorkerInv'
<1>1. /\ worker.pc = "scan" /\ worker' = Waiting /\ valueScan' = TRUE
      /\ scaleScan' = (scaleScan \/ worker.scalchange)
      /\ UNCHANGED <<started, in_vars, wake, calc, out_vars, reader, shown, shownScale>>
  BY DEF Finish, Announce
<1>2. /\ Waiting \in [pc : Pcs, time : Data, scalchange : BOOLEAN] /\ Waiting.pc = "wait"
      /\ Waiting.scalchange = FALSE
  BY DEF Waiting, Pcs, Data
<1>3. scaleScan' \in BOOLEAN
  BY <1>1
<1>4. Shape' /\ CalcInv'
  BY <1>1, <1>2, <1>3 DEF WorkerInv, Shape, CalcInv, Fits, in_vars, out_vars, Loading
<1>5. ScaleInv'
  BY <1>1, <1>2 DEF WorkerInv, ScaleInv, Fits, out_vars
<1>6. ReadInv'
  BY <1>1, <1>2 DEF WorkerInv, Shape, ReadInv, Stores, out_vars
<1>7. ResultInv'
  BY <1>1, <1>2 DEF WorkerInv, ScaleInv, ResultInv, Current, Incomplete, Stores, in_vars, out_vars
<1> QED
  BY <1>4, <1>5, <1>6, <1>7 DEF WorkerInv

LEMMA ReadersKeep ==
  ASSUME WorkerInv, Read
  PROVE  WorkerInv'
<1>1. UNCHANGED <<in_vars, wake, worker, calc, out_vars>>
  BY DEF Read, ReadValue, ReadTime, ReadScale
<1>2. CalcInv' /\ ScaleInv' /\ ResultInv'
  BY <1>1 DEF WorkerInv, CalcInv, ScaleInv, ResultInv, Fits, Current, Incomplete, in_vars, out_vars
<1>3. CASE ReadValue /\ valid
  <2>1. /\ shown' = [shown EXCEPT !.output = valout, !.bad = FALSE] /\ reader' = "copied"
        /\ UNCHANGED <<scaleScan, shownScale>>
    BY <1>3 DEF ReadValue
  <2>2. shown'.bad = FALSE /\ shown'.output = valout
        /\ shown' \in [output : Output, time : Data, bad : BOOLEAN]
    BY <2>1 DEF WorkerInv, Shape
  <2>3. Shape'
    BY <1>1, <2>1, <2>2 DEF WorkerInv, Shape, in_vars, out_vars
  <2>4. ReadInv'
    BY <1>1, <1>3, <2>1, <2>2 DEF WorkerInv, ReadInv, out_vars
  <2> QED BY <1>2, <2>3, <2>4 DEF WorkerInv
<1>4. CASE ReadValue /\ ~valid
  <2>1. /\ shown' = [shown EXCEPT !.bad = TRUE] /\ reader = "idle" /\ reader' = "idle"
        /\ UNCHANGED <<scaleScan, shownScale>>
    BY <1>4 DEF ReadValue
  <2>2. shown'.bad = TRUE /\ shown' \in [output : Output, time : Data, bad : BOOLEAN]
    BY <2>1 DEF WorkerInv, Shape
  <2>3. Shape'
    BY <1>1, <2>1, <2>2 DEF WorkerInv, Shape, in_vars, out_vars
  <2>4. ReadInv'
    BY <1>1, <1>4, <2>1, <2>2 DEF WorkerInv, Shape, ReadInv, out_vars
  <2> QED BY <1>2, <2>3, <2>4 DEF WorkerInv
<1>5. CASE ReadTime
  <2>1. /\ shown' = [shown EXCEPT !.time = timeout] /\ reader = "copied" /\ reader' = "idle"
        /\ UNCHANGED <<valueScan, scaleScan, shownScale>>
    BY <1>5 DEF ReadTime
  <2>2. /\ shown'.bad = shown.bad /\ shown'.output = shown.output /\ shown'.time = timeout
        /\ shown' \in [output : Output, time : Data, bad : BOOLEAN]
    BY <2>1 DEF WorkerInv, Shape
  <2>3. Shape'
    BY <1>1, <2>1, <2>2 DEF WorkerInv, Shape, in_vars, out_vars
  <2>4. ReadInv'
    BY <1>1, <2>1, <2>2 DEF WorkerInv, Shape, ReadInv, out_vars
  <2> QED BY <1>2, <2>3, <2>4 DEF WorkerInv
<1>6. CASE ReadScale
  <2>1. /\ scaleScan' = FALSE /\ UNCHANGED <<valueScan, reader, shown>>
        /\ shownScale' = IF valid THEN [scale |-> scaleout, bad |-> FALSE]
                                  ELSE [shownScale EXCEPT !.bad = TRUE]
    BY <1>6 DEF ReadScale
  <2>2. /\ shownScale' \in [scale : Scale, bad : BOOLEAN]
        /\ shownScale'.bad \/ shownScale'.scale = scaleout
    BY <2>1 DEF WorkerInv, Shape
  <2>3. Shape'
    BY <1>1, <2>1, <2>2 DEF WorkerInv, Shape, in_vars, out_vars
  <2>4. ReadInv'
    BY <1>1, <2>1, <2>2 DEF WorkerInv, ReadInv, out_vars
  <2> QED BY <1>2, <2>3, <2>4 DEF WorkerInv
<1> QED
  BY <1>3, <1>4, <1>5, <1>6 DEF Read, ReadValue

LEMMA WorkerInvariance == Spec => []WorkerInv
<1>1. WorkerInv /\ [Next]_vars => WorkerInv'
  <2> SUFFICES ASSUME WorkerInv, [Next]_vars PROVE WorkerInv'
    OBVIOUS
  <2>1. CASE UNCHANGED vars
    <3>1. UNCHANGED <<started, in_vars, wake, worker, calc, out_vars, rec_vars>>
      BY <2>1 DEF vars
    <3>2. Shape' /\ CalcInv' /\ ScaleInv'
      BY <3>1 DEF WorkerInv, Shape, CalcInv, ScaleInv, Fits, in_vars, out_vars, rec_vars
    <3>3. ResultInv' /\ ReadInv'
      BY <3>1 DEF WorkerInv, ResultInv, ReadInv, Current, Incomplete, in_vars, out_vars, rec_vars
    <3> QED BY <3>2, <3>3 DEF WorkerInv
  <2>2. CASE Next
    BY <2>2, WritersKeep, TakeKeeps, LoadsKeep, TimeKeeps, StoreKeeps, FinishKeeps, ReadersKeep
    DEF Next, Run, Load
  <2> QED BY <2>1, <2>2
<1> QED BY <1>1, InitWorker, PTL DEF Spec

-----------------------------------------------------------------------------
(* The theorems *)

\* Calc::run(), woken by poke(): no parameter and no input that was complete when
\* the last event was taken is missing from the results, and they are of that input
\* unless the plans were renewed with it, which may overwrite it.
THEOREM ResultsAreNewest == Spec => []NewestComputed
<1>1. WorkerInv => NewestComputed
  BY DEF WorkerInv, ResultInv, NewestComputed, Settled, Current
<1> QED BY <1>1, WorkerInvariance, PTL

\* Calc::run() stores and announces the scale only when one of five setters reports a
\* change: that is often enough for the two records to fit, also after an empty input
\* has put the plans off, whatever they have seen of results half stored.
THEOREM ScaleFitsSpectrum == Spec => []ScaleMatches
<1>1. ASSUME WorkerInv PROVE ScaleMatches
  <2> SUFFICES ASSUME Settled, ~valueScan, ~scaleScan, reader = "idle", ~shown.bad,
                      ~shownScale.bad
               PROVE  Fits(shownScale.scale, shown.output)
    BY DEF ScaleMatches, Fits
  <2>1. worker.pc = "wait"
    BY DEF Settled
  <2>2. valid /\ shown.output = valout /\ shownScale.scale = scaleout
    BY <1>1, <2>1 DEF WorkerInv, Shape, ReadInv, Stores
  <2> QED BY <1>1, <2>1, <2>2 DEF WorkerInv, ScaleInv
<1> QED BY <1>1, WorkerInvariance, PTL

\* get_wf_output() is scanned once more whenever the worker stored between its two
\* reads: the record ends with one result and the time stamp of that result.
THEOREM RecordsEndWithResults == Spec => []OutputFollows
<1>1. WorkerInv => OutputFollows
  BY DEF WorkerInv, ReadInv, OutputFollows, Settled, Stores
<1> QED BY <1>1, WorkerInvariance, PTL

-----------------------------------------------------------------------------
(* Numbers *)

\* Every set of numbers that is not empty has a least one.
LEMMA LeastExists ==
  ASSUME NEW S \in SUBSET Nat, S # {}
  PROVE  \E n \in S : \A k \in S : n <= k
<1> DEFINE R == OpToRel(<, Nat)
<1>1. IsWellFoundedOn(R, Nat)
  BY NatLessThanWellFounded
<1>2. PICK n \in S : \A k \in S : ~(<<k, n>> \in R)
  <2> HIDE DEF R
  <2> QED BY <1>1, WFMin
<1>3. \A k \in S : ~(k < n)
  BY <1>2 DEF OpToRel
<1> QED BY <1>3

-----------------------------------------------------------------------------
(* The alarm summaries *)

LEMMA Sizes == Pairs \in Nat \ {0} /\ Nelm \in Nat \ {0} /\ Shift \in Nat \ {0}
               /\ FirstSample \in Nat \ {0}
  BY SizeAssumption

\* What two inputs have, two of more inputs have.
LEMMA TwoOfMore ==
  ASSUME NEW S \in SUBSET Fields, NEW T \in SUBSET S, Two(T)
  PROVE  Two(S)
<1>1. IsFiniteSet(Fields)
  BY Sizes, FS_Interval DEF Fields
<1>2. IsFiniteSet(S) /\ IsFiniteSet(T)
  BY <1>1, FS_Subset
<1>3. Cardinality(T) \in Nat /\ Cardinality(S) \in Nat /\ Cardinality(T) <= Cardinality(S)
  BY <1>2, FS_Subset, FS_CardinalityType
<1> QED BY <1>3 DEF Two

LEMMA NotTwoOfNone == ~Two({})
  BY FS_EmptySet DEF Two

\* The pointers of subAlarmCalcProc(), when the links are set from the front
LEMMA PlacesOfPairs ==
  ASSUME NEW f, NEW n \in 0 .. Pairs, linked = 1 .. 2 * n
  PROVE  \A i \in 0 .. Pairs : Place(f)[i] = IF i <= n THEN 2 * i + 1 ELSE n + i + 1
<1> DEFINE At(i) == IF i <= n THEN 2 * i + 1 ELSE n + i + 1
           Step(p, i) == IF i = 0 THEN 1
                         ELSE p[i-1] + IF p[i-1] \in linked THEN 2 ELSE 1
           Eq(p) == p = [i \in 0 .. Pairs |-> Step(p, i)]
           g == [i \in 0 .. Pairs |-> At(i)]
<1>1. Pairs \in Nat /\ n \in Nat /\ n <= Pairs
  BY Sizes
<1>2. \A i \in 1 .. Pairs : At(i) = At(i - 1) + IF At(i - 1) \in linked THEN 2 ELSE 1
  BY <1>1
<1>3. At(0) = 1
  BY <1>1
<1>4. Eq(g)
  <2>1. \A i \in 0 .. Pairs : g[i] = Step(g, i)
    <3> TAKE i \in 0 .. Pairs
    <3>1. CASE i = 0
      BY <1>3, <3>1
    <3>2. CASE i # 0
      <4>1. i \in 1 .. Pairs /\ i - 1 \in 0 .. Pairs
        BY <1>1, <3>2
      <4>2. g[i] = At(i) /\ g[i - 1] = At(i - 1)
        BY <4>1
      <4> HIDE DEF At, g
      <4> QED BY <1>2, <3>2, <4>1, <4>2
    <3> QED BY <3>1, <3>2
  <2>2. DOMAIN g = 0 .. Pairs /\ g = [i \in 0 .. Pairs |-> g[i]]
    OBVIOUS
  <2> HIDE DEF g
  <2> QED BY <2>1, <2>2
<1>5. Place(f) = CHOOSE p : Eq(p)
  BY Zenon DEF Place
<1>6. Eq(Place(f))
  <2> HIDE DEF Eq, g
  <2> QED BY <1>4, <1>5, Zenon
<1>7. \A i \in 0 .. Pairs : Place(f)[i] = Step(Place(f), i)
  <2> DEFINE r == Place(f)
  <2>1. r = [m \in 0 .. Pairs |-> Step(r, m)]
    BY <1>6
  <2> HIDE DEF r
  <2>2. \A m \in 0 .. Pairs : r[m] = Step(r, m)
    BY <2>1
  <2> QED BY <2>2 DEF r
<1>8. \A i \in 0 .. Pairs : Place(f)[i] = At(i)
  <2> DEFINE S == {i \in 0 .. Pairs : Place(f)[i] # At(i)}
  <2> SUFFICES ASSUME S # {} PROVE FALSE
    OBVIOUS
  <2>1. PICK m \in S : \A l \in S : m <= l
    <3>1. S \subseteq Nat
      BY <1>1
    <3> HIDE DEF S
    <3> QED BY <3>1, LeastExists
  <2>2. m \in 0 .. Pairs /\ Place(f)[m] # At(m)
        /\ \A l \in 0 .. Pairs : Place(f)[l] # At(l) => m <= l
    BY <2>1
  <2> HIDE DEF At, S
  <2>3. m # 0
    BY <1>3, <1>7, <2>2
  <2>4. m \in 1 .. Pairs /\ m - 1 \in 0 .. Pairs /\ ~(m <= m - 1)
    BY <1>1, <2>2, <2>3
  <2>5. Place(f)[m - 1] = At(m - 1)
    BY <2>2, <2>4
  <2> QED BY <1>2, <1>7, <2>2, <2>3, <2>4, <2>5
<1> QED BY <1>8

\* ... so it sees just the pairs that have links.
LEMMA SeesPairs ==
  ASSUME NEW f, Aligned
  PROVE  Seen(f) = {p \in Fields : InPair(p)}
<1>1. PICK n \in 0 .. Pairs : linked = 1 .. 2 * n
  BY DEF Aligned
<1>2. Pairs \in Nat /\ n \in Nat /\ n <= Pairs
  BY Sizes
<1>3. \A i \in 0 .. Pairs - 1 : Place(f)[i] = IF i <= n THEN 2 * i + 1 ELSE n + i + 1
  BY <1>1, <1>2, PlacesOfPairs
<1>4. ASSUME NEW i \in 0 .. Pairs - 1, Place(f)[i] \in linked
      PROVE  Place(f)[i] \in Fields /\ InPair(Place(f)[i])
  <2>1. i < n /\ Place(f)[i] = 2 * i + 1
    BY <1>1, <1>2, <1>3, <1>4
  <2>2. (2 * i + 1) % 2 = 1 /\ 2 * i + 1 \in 1 .. 2 * Pairs
    BY <1>2, <2>1
  <2> QED BY <1>4, <2>1, <2>2 DEF InPair, Fields
<1>5. ASSUME NEW p \in Fields, InPair(p)
      PROVE  \E i \in 0 .. Pairs - 1 : Place(f)[i] = p
  <2>1. p \in 1 .. 2 * n /\ p % 2 = 1
    BY <1>1, <1>5 DEF InPair
  <2> DEFINE i == (p - 1) \div 2
  <2>2. i \in 0 .. Pairs - 1 /\ i <= n /\ p = 2 * i + 1
    BY <1>2, <2>1
  <2> QED BY <1>3, <2>2
<1>6. Seen(f) \subseteq {p \in Fields : InPair(p)}
  BY <1>4 DEF Seen
<1>7. {p \in Fields : InPair(p)} \subseteq Seen(f)
  BY <1>5 DEF Seen, InPair
<1> QED BY <1>6, <1>7

\* The invariant behind AlarmsHaveCause
AlarmInv == linked \subseteq Fields /\ field \in [Fields -> 0 .. 3] /\ AlarmsHaveCause

\* asubAlarmCalcProc() shows a level of two inputs, the highest of them.
LEMMA ASubHasCause ==
  ASSUME linked \subseteq Fields, NEW f
  PROVE  /\ ASubSummary(f) # 0 => ASubSummary(f) \in Levels(f)
         /\ Two(Severity(f, 2)) => ASubSummary(f) = 2
         /\ Two(Severity(f, 1)) /\ ~Two(Severity(f, 2)) => ASubSummary(f) = 1
<1> DEFINE Has(s) == {p \in ASubConnected(f) : f[p + 1] = s}
<1>1. \A s : Has(s) = Severity(f, s)
  BY DEF ASubConnected, Severity, InPair
<1>2. ASubSummary(f) = IF Two(Severity(f, 2)) THEN 2 ELSE IF Two(Severity(f, 1)) THEN 1
                       ELSE IF Two(Severity(f, 3)) THEN 3 ELSE 0
  BY <1>1, Zenon DEF ASubSummary
<1>3. Two(Severity(f, 3)) => Two(Severity(f, 3) \cup Lost(f))
  <2>1. Severity(f, 3) \cup Lost(f) \subseteq Fields
    BY DEF Severity, Lost
  <2> QED BY <2>1, TwoOfMore
<1> QED BY <1>2, <1>3 DEF Levels

\* subAlarmCalcProc() does so too, or keeps the level it had.
LEMMA SubHasCause ==
  ASSUME linked \subseteq Fields, Aligned, NEW f \in [Fields -> 0 .. 3]
  PROVE  /\ \/ SubSummary(f) \in Levels(f) \cup {0}
            \/ SubSummary(f) = level["sub"] /\ ~AllWell(f)
         /\ Two(Severity(f, 2)) => SubSummary(f) = 2
         /\ Two(Severity(f, 1)) /\ ~Two(Severity(f, 2)) => SubSummary(f) = 1
         /\ AllWell(f) /\ ~Two(Lost(f)) => SubSummary(f) = 0
<1>1. Connected(f) = {p \in Fields : InPair(p) /\ f[p] # 0}
  BY SeesPairs DEF Connected
<1>2. Seen(f) \ Connected(f) = Lost(f)
  BY <1>1, SeesPairs DEF Lost
<1>3. /\ Having(f, 0) = Severity(f, 0) /\ Having(f, 1) = Severity(f, 1)
      /\ Having(f, 2) = Severity(f, 2)
      /\ Having(f, 3) \cup (Seen(f) \ Connected(f)) = Severity(f, 3) \cup Lost(f)
  BY <1>1, <1>2 DEF Having, Severity
<1>4. SubSummary(f) = IF Two(Severity(f, 2)) THEN 2 ELSE IF Two(Severity(f, 1)) THEN 1
                      ELSE IF Two(Severity(f, 3) \cup Lost(f)) THEN 3
                      ELSE IF Severity(f, 0) = Connected(f) THEN 0 ELSE level["sub"]
  BY <1>3, Zenon DEF SubSummary
<1>5. ASSUME AllWell(f)
      PROVE  /\ Severity(f, 0) = Connected(f)
             /\ Severity(f, 1) = {} /\ Severity(f, 2) = {} /\ Severity(f, 3) = {}
  BY <1>1, <1>5 DEF AllWell, Severity
<1>6. AllWell(f) => ~Two(Severity(f, 1)) /\ ~Two(Severity(f, 2))
                    /\ Severity(f, 3) \cup Lost(f) = Lost(f)
  BY <1>5, NotTwoOfNone, Zenon
<1> QED BY <1>4, <1>5, <1>6 DEF Levels

\* subCalcAlarm() shows the highest level of the fields that have links.
LEMMA CalcHasCause ==
  ASSUME linked \subseteq Fields, NEW f \in [Fields -> 0 .. 3]
  PROVE  /\ CalcSummary(f) # 0 => \E p \in linked : CalcSummary(f) = f[p]
         /\ \A p \in linked : Rank(f[p]) <= Rank(CalcSummary(f))
<1>1. /\ Rank(0) = 0 /\ Rank(3) = 1 /\ Rank(1) = 2 /\ Rank(2) = 3
  BY DEF Rank
<1>2. \A p \in linked : f[p] \in {0, 1, 2, 3}
  OBVIOUS
<1> DEFINE Some(s) == \E p \in linked : f[p] = s
<1>3. CalcSummary(f) = IF Some(2) THEN 2 ELSE IF Some(1) THEN 1 ELSE IF Some(3) THEN 3 ELSE 0
  BY Zenon DEF CalcSummary
<1> QED BY <1>1, <1>2, <1>3

LEMMA InitAlarms == RoutinesInit => AlarmInv
<1> SUFFICES ASSUME RoutinesInit PROVE AlarmInv
  OBVIOUS
<1>1. linked \subseteq Fields /\ field \in [Fields -> 0 .. 3]
      /\ level["sub"] = 0 /\ level["asub"] = 0 /\ level["calc"] = 0
      /\ \A p \in linked : field[p] = 0
  BY LinkAssumption DEF RoutinesInit
<1>2. Severity(field, 1) = {} /\ Severity(field, 2) = {}
  BY DEF RoutinesInit, Severity
<1>3. ~Two(Severity(field, 1)) /\ ~Two(Severity(field, 2))
  BY <1>2, NotTwoOfNone, Zenon
<1> QED BY <1>1, <1>3 DEF AlarmInv, AlarmsHaveCause, Rank

LEMMA NextAlarms == AlarmInv /\ [RoutinesNext]_routines_vars => AlarmInv'
<1> SUFFICES ASSUME AlarmInv, [RoutinesNext]_routines_vars PROVE AlarmInv'
  OBVIOUS
<1>1. CASE ProcessAlarms
  <2>1. linked' = linked
    BY <1>1 DEF ProcessAlarms
  <2>2. field' \in [Fields -> 0 .. 3]
    <3>1. PICK p \in linked, s \in 0 .. 3 : field' = [field EXCEPT ![p] = s]
      BY <1>1 DEF ProcessAlarms
    <3> QED BY <3>1 DEF AlarmInv
  <2>3. /\ level'["sub"] = SubSummary(field') /\ level'["asub"] = ASubSummary(field')
        /\ level'["calc"] = CalcSummary(field')
    BY <1>1 DEF ProcessAlarms
  <2>4. had' = (IF AllWell(field') THEN {} ELSE had) \cup Levels(field')
    BY <1>1 DEF ProcessAlarms
  <2>5. /\ \A s : Severity(field, s)' = Severity(field', s)
        /\ Lost(field)' = Lost(field')
        /\ AllWell(field)' = AllWell(field')
        /\ Aligned' = Aligned
    BY <2>1 DEF Severity, Lost, AllWell, Aligned, InPair
  <2>6. Levels(field)' = Levels(field')
    BY <2>5 DEF Levels
  <2>7. linked \subseteq Fields
    BY DEF AlarmInv
  <2> DEFINE f == field'
  <2>8. AlarmsHaveCause'
    <3>1. /\ level'["asub"] # 0 => level'["asub"] \in Levels(f)
          /\ Two(Severity(f, 2)) => level'["asub"] = 2
          /\ Two(Severity(f, 1)) /\ ~Two(Severity(f, 2)) => level'["asub"] = 1
      BY <2>3, <2>7, ASubHasCause
    <3>2. Aligned =>
            /\ \/ level'["sub"] \in Levels(f) \cup {0}
               \/ level'["sub"] = level["sub"] /\ ~AllWell(f)
            /\ Two(Severity(f, 2)) => level'["sub"] = 2
            /\ Two(Severity(f, 1)) /\ ~Two(Severity(f, 2)) => level'["sub"] = 1
            /\ AllWell(f) /\ ~Two(Lost(f)) => level'["sub"] = 0
      BY <2>2, <2>3, <2>7, SubHasCause
    <3>3. Aligned => (level["sub"] # 0 => level["sub"] \in had)
      BY DEF AlarmInv, AlarmsHaveCause
    <3>4. Aligned => (level'["sub"] # 0 => level'["sub"] \in had')
      BY <2>4, <3>2, <3>3
    <3>5. /\ level'["calc"] # 0 => \E p \in linked : level'["calc"] = f[p]
          /\ \A p \in linked : Rank(f[p]) <= Rank(level'["calc"])
      BY <2>2, <2>3, <2>7, CalcHasCause
    <3> QED
      BY <2>1, <2>5, <2>6, <3>1, <3>2, <3>4, <3>5 DEF AlarmsHaveCause, Two, Rank
  <2> QED BY <2>1, <2>2, <2>7, <2>8 DEF AlarmInv
<1>2. CASE \E c \in Calls : ProcessWaveform(c)
  BY <1>2 DEF ProcessWaveform, alarm_vars, AlarmInv, AlarmsHaveCause, Aligned, Levels,
              Severity, Lost, AllWell, InPair, Two
<1>3. CASE UNCHANGED routines_vars
  BY <1>3 DEF routines_vars, alarm_vars, AlarmInv, AlarmsHaveCause, Aligned, Levels,
              Severity, Lost, AllWell, InPair, Two
<1> QED BY <1>1, <1>2, <1>3 DEF RoutinesNext

\* The alarm summaries show no level that no input, or not two of them, have had, for
\* every number of pairs (subCalcAlarm.c): subCalcAlarm() and asubAlarmCalcProc() for
\* every set of links, subAlarmCalcProc() for links that are set pair by pair from
\* the front.
THEOREM SummariesHaveCause == RoutinesSpec => []AlarmsHaveCause
<1>1. AlarmInv => AlarmsHaveCause
  BY DEF AlarmInv
<1> QED BY <1>1, InitAlarms, NextAlarms, PTL DEF RoutinesSpec

-----------------------------------------------------------------------------
(* The waveform routines *)

\* subADCWfProc(): its loop ends on a whole pair of words, when there is one.
LEMMA AdcLoop ==
  ASSUME NEW c \in Calls, c.f = "subADCWfProc", out = SubADCWfProc(c)
  PROVE  AdcMatches(c)
<1> DEFINE shift == IF c.read > ShiftAbove THEN Shift ELSE 0
           n == c.read - shift
           filled == n + IF c.length > n THEN c.length - n ELSE 0
           top == Larger(Nelm, filled)
           In(i) == IF i < c.noa THEN Swapped(i) ELSE Beyond
           Of(i) == In(shift + IF i % 2 = 0 THEN i + 1 ELSE i - 1)
<1> SUFFICES ASSUME n > 0, n % 2 = 0, c.read <= c.noa
             PROVE  /\ \A k \in DOMAIN out :
                         out[k] = IF k < n THEN Swapped(shift + 4 * (k \div 2) + 1 - k)
                                  ELSE IF k < c.length THEN out[n - 1] ELSE Old
                    /\ n <= Nelm /\ c.length <= Nelm => DOMAIN out = Outputs
  BY DEF AdcMatches
<1>1. /\ c.read \in Int /\ c.length \in Int /\ c.noa \in Nat /\ shift \in Nat /\ n \in Nat
      /\ Nelm \in Nat
  BY CallAssumption, Sizes
<1>2. 2 * (n \div 2) = n
  BY <1>1
<1>3. /\ DOMAIN out = 0 .. top - 1
      /\ \A i \in 0 .. top - 1 :
           out[i] = IF i < n THEN Of(i) ELSE IF i >= filled THEN Old
                    ELSE IF n = 0 THEN Beyond ELSE Of(n - 1)
  BY <1>2 DEF SubADCWfProc
<1>4. filled \in Nat /\ top \in Nat /\ filled <= top /\ n <= filled /\ Nelm <= top
      /\ (n <= Nelm /\ c.length <= Nelm => top = Nelm)
  BY <1>1 DEF Larger
<1>5. ASSUME NEW k \in 0 .. top - 1
      PROVE  out[k] = IF k < n THEN Swapped(shift + 4 * (k \div 2) + 1 - k)
                      ELSE IF k < c.length THEN out[n - 1] ELSE Old
  <2>1. k \in Nat
    BY <1>4
  <2>2. CASE k < n
    <3>1. (IF k % 2 = 0 THEN k + 1 ELSE k - 1) = 4 * (k \div 2) + 1 - k
      BY <2>1
    <3>2. (IF k % 2 = 0 THEN k + 1 ELSE k - 1) < n
      BY <1>1, <2>1, <2>2
    <3>3. shift + (IF k % 2 = 0 THEN k + 1 ELSE k - 1) = shift + 4 * (k \div 2) + 1 - k
      BY <1>1, <2>1, <3>1
    <3>4. shift + (IF k % 2 = 0 THEN k + 1 ELSE k - 1) < c.noa
      BY <1>1, <2>1, <3>2
    <3> HIDE DEF n
    <3> QED BY <1>3, <1>5, <2>2, <3>3, <3>4
  <2>3. CASE k >= n
    <3>1. n - 1 \in 0 .. top - 1 /\ n - 1 < n
      BY <1>1, <1>4
    <3>2. out[n - 1] = Of(n - 1)
      BY <1>3, <3>1
    <3>3. (k >= filled) <=> ~(k < c.length)
      BY <1>1, <2>1, <2>3
    <3>4. ~(k < n) /\ n # 0
      BY <1>1, <2>1, <2>3
    <3> HIDE DEF n, Of, filled, top
    <3> QED BY <1>3, <1>5, <3>2, <3>3, <3>4
  <2> QED BY <1>1, <2>1, <2>2, <2>3
<1> HIDE DEF n, top
<1> QED BY <1>3, <1>4, <1>5 DEF Outputs

LEMMA Division ==
  ASSUME NEW i \in Int, NEW d \in Nat \ {0}
  PROVE  i \div d \in Int /\ i = d * (i \div d) + (i % d) /\ i % d \in 0 .. d - 1
  OBVIOUS

\* A multiple of d that is smaller than d is 0.
LEMMA SmallMultiple ==
  ASSUME NEW t \in Int, NEW d \in Nat \ {0}, d * t < d, 0 - d < d * t
  PROVE  t = 0
<1>1. CASE t >= 1
  BY <1>1
<1>2. CASE t <= -1
  BY <1>2
<1> QED BY <1>1, <1>2

\* subSampling(): what is taken for k is one of the k-th step.
LEMMA SamplingLoop ==
  ASSUME NEW c \in Calls, c.f = "subSampling", out = SubSampling(c)
  PROVE  SamplesMatch(c)
<1> SUFFICES ASSUME NEW k \in Outputs, out[k] # Old
             PROVE  /\ out[k] \in k * c.divider .. (k + 1) * c.divider - 1
                    /\ out[k] % c.divider = FirstSample % c.divider
  BY DEF SamplesMatch
<1> DEFINE d == c.divider
           I == {i \in FirstSample .. c.noa - 1 : (i - FirstSample) % d = 0 /\ i \div d = k}
<1>1. c.noa \in Nat /\ d \in Nat \ {0} /\ FirstSample \in Nat
  BY CallAssumption, Sizes
<1>2. k \in 0 .. Nelm - 1 /\ k \in Nat
  BY Sizes DEF Outputs
<1>3. out[k] = IF I = {} THEN Old ELSE CHOOSE i \in I : TRUE
  BY <1>2 DEF SubSampling
<1>4. out[k] \in I
  <2> HIDE DEF I
  <2> QED BY <1>3
<1> DEFINE i == out[k]
<1>5. i \in Int /\ (i - FirstSample) % d = 0 /\ i \div d = k
  BY <1>1, <1>4
<1> HIDE DEF I, i, d
<1>6. i = d * k + (i % d) /\ i % d \in 0 .. d - 1
  BY <1>1, <1>5, Division
<1>7. i \in k * d .. (k + 1) * d - 1
  <2>1. d * k = k * d /\ (k + 1) * d = k * d + d /\ k * d \in Int
    BY <1>1, <1>2
  <2> QED BY <1>1, <1>5, <1>6, <2>1
<1>8. i % d = FirstSample % d
  <2> DEFINE a == (i - FirstSample) \div d
             b == FirstSample \div d
             r == FirstSample % d
  <2>1. a \in Int /\ i - FirstSample = d * a
    BY <1>1, <1>5, Division
  <2>2. b \in Int /\ FirstSample = d * b + r /\ r \in 0 .. d - 1
    BY <1>1, Division
  <2> HIDE DEF a, b, r
  <2> DEFINE s == i % d
             t == k - a - b
  <2>3. s \in 0 .. d - 1 /\ i = d * k + s
    BY <1>6
  <2> HIDE DEF s
  <2>4. d * t = d * k - d * a - d * b /\ d * t \in Int /\ t \in Int
    BY <1>1, <1>2, <2>1, <2>2
  <2>5. {d * k, d * a, d * b, s, r} \subseteq Int
    BY <1>1, <1>2, <2>1, <2>2, <2>3
  <2>6. d * t = r - s
    BY <1>1, <1>5, <2>1, <2>2, <2>3, <2>4, <2>5
  <2>7. t = 0
    <3>1. d * t < d /\ 0 - d < d * t
      BY <1>1, <2>2, <2>3, <2>6
    <3> HIDE DEF t
    <3> QED BY <1>1, <2>4, <3>1, SmallMultiple
  <2>8. d * t = 0
    BY <1>1, <2>7
  <2> QED BY <2>5, <2>6, <2>8 DEF s, r
<1> QED BY <1>7, <1>8 DEF i, d

\* subArrayMovingAverage(): the cuts keep the window centred.
LEMMA AverageIsCentred ==
  ASSUME NEW half \in Nat \ {0}, 2 * half <= Nelm, NEW i \in 0 .. Nelm - 1,
         NEW d \in 0 .. Nelm, d <= half, i - d >= 0, i + d < Nelm,
         d = half \/ i - d = 0 \/ i + d = Nelm - 1
  PROVE  Average(i, half, Nelm) = <<i - d, i + d>>
<1>1. Nelm \in Nat
  BY Sizes
<1> QED BY <1>1 DEF Average, LeftOf

LEMMA AverageLoop ==
  ASSUME NEW c \in Calls, c.f = "subArrayMovingAverage", out = SubArrayMovingAverage(c)
  PROVE  AveragesAreCentred(c)
<1>0. c.window \in Int /\ c.noa \in Nat /\ Nelm \in Nat \ {0}
  BY CallAssumption, Sizes
<1>a. c.noa # Nelm \/ c.window < -1 => \A i \in Outputs : out[i] = Old
  <2>1. c.window < -1 => Half(c.window) < 0
    BY <1>0 DEF Half
  <2> QED BY <2>1 DEF SubArrayMovingAverage, Outputs
<1> DEFINE half == c.window \div 2
<1> SUFFICES ASSUME c.noa = Nelm, c.window >= 0, 2 * half <= Nelm, NEW i \in Outputs
             PROVE  LET d == CHOOSE m \in 0 .. Nelm :
                               /\ m <= half /\ i - m >= 0 /\ i + m < Nelm
                               /\ m = half \/ i - m = 0 \/ i + m = Nelm - 1
                    IN out[i] = <<i - d, i + d>>
  BY <1>a DEF AveragesAreCentred
<1>b. Half(c.window) = half
  BY <1>0 DEF Half
<1> DEFINE Centred(m) == /\ m <= half /\ i - m >= 0 /\ i + m < Nelm
                         /\ m = half \/ i - m = 0 \/ i + m = Nelm - 1
           d == CHOOSE m \in 0 .. Nelm : Centred(m)
<1>1. half \in Nat /\ Nelm \in Nat \ {0} /\ i \in 0 .. Nelm - 1
  BY <1>0 DEF Outputs
<1>2. \E m \in 0 .. Nelm : Centred(m)
  <2> HIDE DEF half
  <2>1. CASE half <= i /\ i + half < Nelm
    <3>1. half \in 0 .. Nelm /\ Centred(half)
      BY <1>1, <2>1
    <3> QED BY <3>1
  <2>2. CASE i < half /\ 2 * i < Nelm
    <3>1. i \in 0 .. Nelm /\ Centred(i)
      BY <1>1, <2>2
    <3> QED BY <3>1
  <2>3. CASE i + half >= Nelm /\ 2 * i >= Nelm - 1
    <3>1. Nelm - 1 - i \in 0 .. Nelm /\ Centred(Nelm - 1 - i)
      BY <1>1, <2>3
    <3> QED BY <3>1
  <2> QED BY <1>1, <2>1, <2>2, <2>3
<1>3. d \in 0 .. Nelm /\ Centred(d)
  <2> HIDE DEF Centred
  <2> QED BY <1>2
<1>4. out[i] = IF half = 0 THEN <<i, i>> ELSE Average(i, half, Nelm)
  BY <1>1, <1>b DEF SubArrayMovingAverage
<1> HIDE DEF d, half
<1>5. CASE half = 0
  <2>1. d = 0
    BY <1>1, <1>3, <1>5
  <2>2. i - d = i /\ i + d = i
    BY <1>1, <2>1
  <2>3. out[i] = <<i - d, i + d>>
    BY <1>4, <1>5, <2>2
  <2> QED BY <2>3 DEF d, half
<1>6. CASE half # 0
  <2>1. out[i] = <<i - d, i + d>>
    BY <1>1, <1>3, <1>4, <1>6, AverageIsCentred
  <2> QED BY <2>1 DEF d, half
<1> QED BY <1>5, <1>6

\* What the loop of subArrayCompare() finds of sample i
Wrong(c, i) == c.tol[i] <= 0
Above(c, i) == c.tol[i] < c.diff[i]
FarAbove(c, i) == c.tol[i] * c.coeff < c.diff[i]
StopsAt(c, i) == /\ Wrong(c, i) \/ FarAbove(c, i)
                 /\ \A j \in 1 .. i - 1 : ~Wrong(c, j) /\ ~FarAbove(c, j)

\* The status after i samples
Found(c, i) ==
  IF \E j \in 1 .. i : StopsAt(c, j) /\ Wrong(c, j) THEN -2
  ELSE IF \E j \in 1 .. i : StopsAt(c, j) THEN 2
  ELSE IF \E j \in 1 .. i : Above(c, j) THEN 1 ELSE 0

\* A loop that has not stopped has met nothing to stop at, and it stops once.
LEMMA StopsOnce ==
  ASSUME NEW c, NEW n \in Nat
  PROVE  /\ (\A j \in 1 .. n : ~StopsAt(c, j)) => \A j \in 1 .. n : ~Wrong(c, j) /\ ~FarAbove(c, j)
         /\ \A j, k \in 1 .. n : StopsAt(c, j) /\ StopsAt(c, k) => j = k
<1>1. ASSUME \A j \in 1 .. n : ~StopsAt(c, j),
             NEW k \in 1 .. n, Wrong(c, k) \/ FarAbove(c, k)
      PROVE  FALSE
  <2> DEFINE S == {j \in 1 .. n : Wrong(c, j) \/ FarAbove(c, j)}
  <2>1. S \in SUBSET Nat /\ S # {}
    BY <1>1
  <2>2. PICK m \in S : \A l \in S : m <= l
    <3> HIDE DEF S
    <3> QED BY <2>1, LeastExists
  <2>3. \A j \in 1 .. m - 1 : j \in 1 .. n /\ ~(m <= j)
    BY <2>2
  <2>4. StopsAt(c, m)
    BY <2>2, <2>3 DEF StopsAt
  <2> QED BY <1>1, <2>2, <2>4
<1>2. ASSUME NEW j \in 1 .. n, NEW k \in 1 .. n, StopsAt(c, j), StopsAt(c, k), j < k
      PROVE  FALSE
  <2>1. j \in 1 .. k - 1
    BY <1>2
  <2> QED BY <1>2, <2>1 DEF StopsAt
<1> QED BY <1>1, <1>2

\* The status follows from the one before as the loop has it.
LEMMA FoundStep ==
  ASSUME NEW c, NEW i \in Nat \ {0}
  PROVE  Found(c, i) = IF Found(c, i - 1) \in {-2, 2} THEN Found(c, i - 1)
                       ELSE IF Wrong(c, i) THEN -2 ELSE IF FarAbove(c, i) THEN 2
                       ELSE IF Above(c, i) THEN 1 ELSE Found(c, i - 1)
<1>1. i - 1 \in Nat /\ \A j : j \in 1 .. i <=> j \in 1 .. i - 1 \/ j = i
  OBVIOUS
<1>2. CASE \E j \in 1 .. i - 1 : StopsAt(c, j)
  <2>1. PICK j \in 1 .. i - 1 : StopsAt(c, j)
    BY <1>2
  <2>2. \A k \in 1 .. i : StopsAt(c, k) <=> k = j
    <3>1. \A k, l \in 1 .. i : StopsAt(c, k) /\ StopsAt(c, l) => k = l
      BY StopsOnce
    <3> QED BY <1>1, <2>1, <3>1
  <2>3. Found(c, i) = IF Wrong(c, j) THEN -2 ELSE 2
    BY <1>1, <2>1, <2>2 DEF Found
  <2>4. Found(c, i - 1) = IF Wrong(c, j) THEN -2 ELSE 2
    BY <1>1, <2>1, <2>2 DEF Found
  <2> QED BY <2>3, <2>4
<1>3. CASE \A j \in 1 .. i - 1 : ~StopsAt(c, j)
  <2>1. \A j \in 1 .. i - 1 : ~Wrong(c, j) /\ ~FarAbove(c, j)
    BY <1>1, <1>3, StopsOnce
  <2>2. StopsAt(c, i) <=> Wrong(c, i) \/ FarAbove(c, i)
    BY <2>1 DEF StopsAt
  <2>3. Found(c, i - 1) = IF \E j \in 1 .. i - 1 : Above(c, j) THEN 1 ELSE 0
    BY <1>3 DEF Found
  <2>4. Found(c, i) = IF Wrong(c, i) THEN -2 ELSE IF FarAbove(c, i) THEN 2
                      ELSE IF (\E j \in 1 .. i - 1 : Above(c, j)) \/ Above(c, i) THEN 1 ELSE 0
    BY <1>1, <1>3, <2>2 DEF Found
  <2> QED BY <2>3, <2>4
<1> QED BY <1>2, <1>3

\* subArrayCompare() returns what there is to find in all samples of two arrays.
LEMMA CompareFinds ==
  ASSUME NEW c \in Calls, c.f = "subArrayCompare", Len(c.tol) = Len(c.diff)
  PROVE  SubArrayCompare(c) = Found(c, Len(c.tol))
<1> DEFINE n == Len(c.tol)
           Step(s, i) == IF i = 0 THEN 0
                         ELSE IF s[i-1] \in {-2, 2} THEN s[i-1]
                         ELSE IF c.tol[i] <= 0 THEN -2
                         ELSE IF c.tol[i] * c.coeff < c.diff[i] THEN 2
                         ELSE IF c.tol[i] < c.diff[i] THEN 1
                         ELSE s[i-1]
           Eq(s) == s = [i \in 0 .. n |-> Step(s, i)]
           g == [i \in 0 .. n |-> Found(c, i)]
           r == CHOOSE s : Eq(s)
<1>1. n \in Nat
  BY CallAssumption
<1>2. SubArrayCompare(c) = r[n]
  BY Zenon DEF SubArrayCompare
<1> HIDE DEF n
<1>3. Found(c, 0) = 0
  BY DEF Found
<1>4. \A i \in 1 .. n : \A s : s[i-1] = Found(c, i - 1) => Step(s, i) = Found(c, i)
  <2> TAKE i \in 1 .. n
  <2>1. i \in Nat \ {0}
    BY <1>1
  <2>2. Found(c, i) = IF Found(c, i - 1) \in {-2, 2} THEN Found(c, i - 1)
                      ELSE IF c.tol[i] <= 0 THEN -2
                      ELSE IF c.tol[i] * c.coeff < c.diff[i] THEN 2
                      ELSE IF c.tol[i] < c.diff[i] THEN 1 ELSE Found(c, i - 1)
    BY <2>1, FoundStep, Zenon DEF Wrong, FarAbove, Above
  <2> QED BY <2>1, <2>2
<1>5. Eq(g)
  <2>1. \A i \in 0 .. n : g[i] = Step(g, i)
    <3> TAKE i \in 0 .. n
    <3>1. CASE i = 0
      BY <1>3, <3>1
    <3>2. CASE i # 0
      <4>1. i \in 1 .. n /\ i - 1 \in 0 .. n
        BY <1>1, <3>2
      <4>2. g[i] = Found(c, i) /\ g[i - 1] = Found(c, i - 1)
        BY <4>1
      <4> HIDE DEF Step, g
      <4> QED BY <1>4, <4>1, <4>2
    <3> QED BY <3>1, <3>2
  <2>2. DOMAIN g = 0 .. n /\ g = [i \in 0 .. n |-> g[i]]
    OBVIOUS
  <2> HIDE DEF g, Step
  <2> QED BY <2>1, <2>2
<1>6. Eq(r)
  <2> HIDE DEF Eq, g
  <2> QED BY <1>5, Zenon
<1>7. \A i \in 0 .. n : r[i] = Step(r, i)
  <2>1. r = [i \in 0 .. n |-> Step(r, i)]
    BY <1>6
  <2> HIDE DEF r, Step
  <2> QED BY <2>1
<1>8. \A i \in 0 .. n : r[i] = Found(c, i)
  <2> DEFINE S == {i \in 0 .. n : r[i] # Found(c, i)}
  <2> SUFFICES ASSUME S # {} PROVE FALSE
    OBVIOUS
  <2> HIDE DEF r, Step
  <2>1. PICK m \in S : \A l \in S : m <= l
    <3>1. S \in SUBSET Nat
      BY <1>1
    <3> HIDE DEF S
    <3> QED BY <3>1, LeastExists
  <2>2. m \in 0 .. n /\ r[m] # Found(c, m)
        /\ \A l \in 0 .. n : r[l] # Found(c, l) => m <= l
    BY <2>1
  <2> HIDE DEF S
  <2>3. m # 0
    BY <1>3, <1>7, <2>2 DEF Step
  <2>4. m \in 1 .. n /\ m - 1 \in 0 .. n /\ ~(m <= m - 1)
    BY <1>1, <2>2, <2>3
  <2>5. r[m - 1] = Found(c, m - 1)
    BY <2>2, <2>4
  <2> QED BY <1>4, <1>7, <2>2, <2>4, <2>5
<1>9. n \in 0 .. n
  BY <1>1
<1> QED BY <1>2, <1>8, <1>9 DEF n

LEMMA CompareLoop ==
  ASSUME NEW c \in Calls, c.f = "subArrayCompare", out = SubArrayCompare(c)
  PROVE  ComparisonMatches(c)
<1>0. CASE Len(c.tol) # Len(c.diff)
  BY <1>0, Zenon DEF ComparisonMatches, SubArrayCompare
<1> SUFFICES ASSUME Len(c.tol) = Len(c.diff) PROVE ComparisonMatches(c)
  BY <1>0
<1> DEFINE n == Len(c.tol)
           Far(i, f) == c.tol[i] * f < c.diff[i]
           First(i) == \A j \in 1 .. i - 1 : ~Wrong(c, j) /\ ~Far(j, c.coeff)
<1>1. n \in Nat /\ DOMAIN c.tol = 1 .. n /\ \A i \in 1 .. n : c.tol[i] \in Int /\ c.diff[i] \in Int
  BY CallAssumption
<1>2. out = Found(c, n)
  BY CompareFinds
<1>3. \A i \in 1 .. n : Above(c, i) <=> Far(i, 1)
  BY <1>1 DEF Above
<1>4. \A i : Far(i, c.coeff) <=> FarAbove(c, i)
  BY DEF FarAbove
<1>5. \A i : StopsAt(c, i) <=> First(i) /\ (Wrong(c, i) \/ Far(i, c.coeff))
  BY <1>4 DEF StopsAt
<1>6. \A j, k \in 1 .. n : StopsAt(c, j) /\ StopsAt(c, k) => j = k
  BY <1>1, StopsOnce
<1> HIDE DEF n
<1>7. ComparisonMatches(c) <=>
        /\ out = -2 <=> \E i \in 1 .. n : Wrong(c, i) /\ First(i)
        /\ out = 2 <=> \E i \in 1 .. n : ~Wrong(c, i) /\ Far(i, c.coeff) /\ First(i)
        /\ out = 1 => \E i \in 1 .. n : Far(i, 1)
        /\ out = 0 => \A i \in 1 .. n : ~Far(i, 1)
  BY <1>1, Zenon DEF ComparisonMatches, Wrong
<1> HIDE DEF Far, First
<1> QED BY <1>2, <1>3, <1>5, <1>6, <1>7 DEF Found

\* Times that decrease nowhere from one sample to the next decrease nowhere.
LEMMA TimesRise ==
  ASSUME NEW n \in Nat, NEW t, \A i \in 1 .. n : t[i] \in Int,
         \A i \in 1 .. n - 1 : t[i] <= t[i + 1]
  PROVE  \A i, j \in 1 .. n : i <= j => t[i] <= t[j]
<1> SUFFICES ASSUME NEW i \in 1 .. n, NEW k \in i .. n, ~(t[i] <= t[k]) PROVE FALSE
  OBVIOUS
<1> DEFINE S == {j \in i .. n : ~(t[i] <= t[j])}
<1>1. S \in SUBSET Nat /\ S # {}
  OBVIOUS
<1>2. PICK m \in S : \A l \in S : m <= l
  <2> HIDE DEF S
  <2> QED BY <1>1, LeastExists
<1>3. m \in i .. n /\ ~(t[i] <= t[m]) /\ m # i
  BY <1>2
<1>4. m - 1 \in i .. n /\ m - 1 \in 1 .. n - 1 /\ ~(m <= m - 1) /\ (m - 1) + 1 = m
  BY <1>3
<1>5. t[i] <= t[m - 1]
  BY <1>2, <1>4
<1>6. t[m - 1] <= t[m]
  <2>1. t[m - 1] <= t[(m - 1) + 1]
    BY <1>4
  <2> QED BY <1>4, <2>1
<1> QED BY <1>3, <1>4, <1>5, <1>6

\* wf_stats(): when the times rise the loop stops behind the window that is given.
LEMMA StatisticsLoop ==
  ASSUME NEW c \in Calls, c.f = "wf_stats", out = WfStats(c)
  PROVE  StatisticsMatch(c)
<1> SUFFICES ASSUME c.start > 0 \/ c.width > 0 PROVE StatisticsMatch(c)
  BY Zenon DEF StatisticsMatch
<1> DEFINE usetime == Len(c.time) > 1
           t == IF usetime THEN c.time ELSE [i \in 1 .. c.nea |-> i - 1]
           n == Lesser(Len(t), c.nea)
           w == <<c.start, c.start + c.width>>
           Within == {i \in 0 .. n - 1 : t[i + 1] >= w[1] /\ t[i + 1] < w[2]}
           At(i) == IF usetime THEN c.time[i + 1] ELSE i
           Left(i) == At(i) >= w[2] /\ At(i) >= w[1]
           N == {i \in 0 .. n - 1 : At(i) >= w[1] /\ \A j \in 0 .. i : ~Left(j)}
<1>1. /\ c.nea \in Nat /\ c.time \in Seq(Int) /\ c.start \in Int /\ c.width \in Int
      /\ Len(c.time) \in Nat
  BY CallAssumption
<1>2. w[1] \in Int /\ w[2] \in Int /\ w[1] = c.start /\ w[2] = c.start + c.width
      /\ Window(c) = w
  BY <1>1 DEF Window
<1>3. /\ n \in Nat /\ n = IF usetime THEN Lesser(Len(c.time), c.nea) ELSE c.nea
      /\ \A i \in 0 .. n - 1 : At(i) = t[i + 1] /\ t[i + 1] \in Int
      /\ \A i \in 1 .. n : t[i] \in Int
  <2>1. CASE usetime
    <3>1. t = c.time
      BY <2>1
    <3>2. n \in Nat /\ n <= Len(c.time)
      BY <1>1, <3>1 DEF Lesser
    <3>3. \A i \in 1 .. n : c.time[i] \in Int
      BY <1>1, <3>2
    <3> HIDE DEF n
    <3>4. \A i \in 0 .. n - 1 : i + 1 \in 1 .. n
      BY <3>2
    <3> QED BY <2>1, <3>1, <3>2, <3>3, <3>4 DEF n
  <2>2. CASE ~usetime
    <3>1. t = [i \in 1 .. c.nea |-> i - 1] /\ Len(t) = c.nea
      BY <1>1, <2>2
    <3>2. n = c.nea
      BY <1>1, <3>1 DEF Lesser
    <3> QED BY <1>1, <2>2, <3>1, <3>2
  <2> QED BY <2>1, <2>2
<1>4. out = IF N = {} THEN Old ELSE N
  BY <1>2, <1>3, Zenon DEF WfStats
<1>5. ASSUME \A i \in 1 .. n - 1 : t[i] <= t[i + 1]
      PROVE  N = Within
  <2>1. \A i, j \in 1 .. n : i <= j => t[i] <= t[j]
    <3> HIDE DEF n, t
    <3> QED BY <1>3, <1>5, TimesRise
  <2> HIDE DEF n, t, w, At
  <2>2. ASSUME NEW i \in N PROVE i \in Within
    <3>1. i \in 0 .. n - 1 /\ i \in 0 .. i /\ ~Left(i)
      BY <1>3
    <3> QED BY <1>2, <1>3, <3>1
  <2>3. ASSUME NEW i \in Within, NEW j \in 0 .. i PROVE ~Left(j)
    <3>1. i \in 0 .. n - 1 /\ j \in 0 .. n - 1 /\ i + 1 \in 1 .. n /\ j + 1 \in 1 .. n
          /\ j + 1 <= i + 1
      BY <1>3
    <3>2. t[j + 1] <= t[i + 1] /\ t[i + 1] < w[2]
      BY <2>1, <3>1
    <3> QED BY <1>2, <1>3, <3>1, <3>2
  <2>4. Within \subseteq N
    BY <1>3, <2>3
  <2> QED BY <2>2, <2>4
<1>6. StatisticsMatch(c) <=>
        ((\A i \in 1 .. n - 1 : t[i] <= t[i + 1]) => out = IF Within = {} THEN Old ELSE Within)
  BY <1>2, Zenon DEF StatisticsMatch
<1> HIDE DEF n, t, w, At, N, Within
<1> QED BY <1>4, <1>5, <1>6

\* The last call of a waveform routine has left its result.
WaveInv == call.f # "none" => call \in Calls /\ out = Result(call)

LEMMA WaveInvariance == RoutinesSpec => []WaveInv
<1>1. RoutinesInit => WaveInv
  BY DEF RoutinesInit, WaveInv
<1>2. WaveInv /\ [RoutinesNext]_routines_vars => WaveInv'
  <2> SUFFICES ASSUME WaveInv, [RoutinesNext]_routines_vars PROVE WaveInv'
    OBVIOUS
  <2>1. CASE ProcessAlarms
    BY <2>1 DEF ProcessAlarms, wave_vars, WaveInv
  <2>2. CASE \E c \in Calls : ProcessWaveform(c)
    BY <2>2, Zenon DEF ProcessWaveform, WaveInv
  <2>3. CASE UNCHANGED routines_vars
    BY <2>3 DEF routines_vars, wave_vars, WaveInv
  <2> QED BY <2>1, <2>2, <2>3 DEF RoutinesNext
<1> QED BY <1>1, <1>2, PTL DEF RoutinesSpec

\* The waveform routines deliver what they are defined to, for arrays of every length
\* and the parameters that each definition names (aSubOperations.cpp, slicer2.c,
\* asubwf.c).
THEOREM WaveformsAreAsDefined == RoutinesSpec => []WaveformsAsDefined
<1>1. WaveInv => WaveformsAsDefined
  <2> SUFFICES ASSUME WaveInv PROVE WaveformsAsDefined
    OBVIOUS
  <2>1. CASE call.f = "subADCWfProc"
    <3>1. out = SubADCWfProc(call) /\ call \in Calls
      BY <2>1 DEF WaveInv, Result
    <3> QED BY <2>1, <3>1, AdcLoop DEF WaveformsAsDefined
  <2>2. CASE call.f = "subSampling"
    <3>1. out = SubSampling(call) /\ call \in Calls
      BY <2>2 DEF WaveInv, Result
    <3> QED BY <2>2, <3>1, SamplingLoop DEF WaveformsAsDefined
  <2>3. CASE call.f = "subSlice2"
    <3>1. out = SubSlice2(call) /\ call \in Calls
      BY <2>3 DEF WaveInv, Result
    <3>2. call.noa \in Nat /\ call.index \in Nat /\ call.index # Beyond /\ Old # Beyond
      BY <2>3, <3>1, CallAssumption, ResultAssumption
    <3>3. call.noa # 0 => out # Beyond
      BY <3>1, <3>2 DEF SubSlice2, SubSlice
    <3> QED BY <2>3, <3>3 DEF WaveformsAsDefined
  <2>4. CASE call.f = "subArrayMovingAverage"
    <3>1. out = SubArrayMovingAverage(call) /\ call \in Calls
      BY <2>4 DEF WaveInv, Result
    <3> QED BY <2>4, <3>1, AverageLoop DEF WaveformsAsDefined
  <2>5. CASE call.f = "subArrayCompare"
    <3>1. out = SubArrayCompare(call) /\ call \in Calls
      BY <2>5 DEF WaveInv, Result
    <3> QED BY <2>5, <3>1, CompareLoop DEF WaveformsAsDefined
  <2>6. CASE call.f = "wf_stats"
    <3>1. out = WfStats(call) /\ call \in Calls
      BY <2>6 DEF WaveInv, Result
    <3> QED BY <2>6, <3>1, StatisticsLoop DEF WaveformsAsDefined
  <2>7. CASE call.f = "subArraySubtraction"
    <3>1. out = SubArraySubtraction(call)
      BY <2>7 DEF WaveInv, Result
    <3>2. \A i \in Outputs : out[i] = Old <=> ~SameSize(call)
      BY <3>1, ResultAssumption DEF SubArraySubtraction, Outputs
    <3> QED BY <2>7, <3>2 DEF WaveformsAsDefined
  <2>8. CASE call.f = "subCopyWaveform"
    <3>1. out = SubCopyWaveform(call)
      BY <2>8 DEF WaveInv, Result
    <3>2. \A i \in Outputs : out[i] = Old <=> ~(SameSize(call) /\ call.sel \in {1, 2})
      BY <3>1, ResultAssumption DEF SubCopyWaveform, Outputs
    <3> QED BY <2>8, <3>2 DEF WaveformsAsDefined
  <2> QED
    BY <2>1, <2>2, <2>3, <2>4, <2>5, <2>6, <2>7, <2>8 DEF WaveformsAsDefined
<1> QED BY <1>1, WaveInvariance, PTL
=============================================================================
