------------------------------ MODULE Routines ------------------------------
(***************************************************************************)
(* The subroutines of sub and aSub records: the three alarm summaries of   *)
(* pscApp/src/subCalcAlarm.c, the waveform routines of aSubOperations.cpp  *)
(* and slicer2.c, and wf_stats() of sigApp/src/asubwf.c.                   *)
(*                                                                         *)
(* A routine is called with the inputs of its record and leaves its result *)
(* in the record.  A waveform routine has no state but the output it may   *)
(* leave as it was, so one call of each is enough.                         *)
(*                                                                         *)
(* A sample is known by its index; the average over the samples i..j is    *)
(* <<i, j>>; the statistics over a set of samples are that set.  Arrays    *)
(* start at 0.                                                             *)
(***************************************************************************)
EXTENDS Integers, Sequences, FiniteSets

CONSTANTS
  Databases,   \* which kinds of record there may be
  Links,       \* which fields have a link, in the databases there are
  Pairs,       \* iterations of the alarm routines, 6
  Calls,       \* calls of waveform routines
  Nelm,        \* size of an output waveform
  Shift, ShiftAbove, FirstSample,  \* 4, 1500, 5
  Old,         \* what the record held before
  Beyond       \* what was read outside of an input

ASSUME SizeAssumption ==
  /\ {Pairs, Nelm, Shift, FirstSample} \subseteq Nat \ {0} /\ ShiftAbove >= Shift
ASSUME DatabaseAssumption == Databases \subseteq {"alarms", "waveforms"}

Fields == 1 .. 2 * Pairs   \* INPA, INPB, ... and A, B, ...
ASSUME LinkAssumption == Links \subseteq SUBSET Fields

\* the parameters of each routine; subSampling() does not survive a divider of 0
ASSUME CallAssumption ==
  \A c \in Calls :
    /\ c.f = "subADCWfProc" => c.noa \in Nat /\ {c.read, c.length} \subseteq Int
    /\ c.f = "subSampling" => c.noa \in Nat /\ c.divider \in Nat \ {0}
    /\ c.f = "subSlice2" => {c.noa, c.index} \subseteq Nat
    /\ c.f = "subArrayMovingAverage" => c.noa \in Nat /\ c.window \in Int
    /\ c.f = "subArrayCompare" =>
         c.tol \in Seq(Int) /\ c.diff \in Seq(Nat) /\ c.coeff \in Int
    /\ c.f = "wf_stats" =>
         c.nea \in Nat /\ c.time \in Seq(Int) /\ {c.start, c.width} \subseteq Int
    /\ c.f # "none"

\* no result is taken for none, or for what was read outside of an input
ASSUME ResultAssumption ==
  /\ Old # Beyond
  /\ \A i \in 0 .. Nelm - 1 : Old \notin {<<i, "-", i>>, <<i, 1>>, <<i, 2>>}
  /\ \A c \in Calls : c.f = "subSlice2" => c.index # Beyond

VARIABLES
  loaded,
  linked,      \* fields with a DB or a CA link
  field,       \* A, B, ...: whether a PV is connected, and its severity, by turns
  level,       \* VAL or VALA of the alarm records
  had,         \* history: levels of two inputs at once, since all were well
  call, out    \* the last call of a waveform routine, and the result by routine

alarm_vars == <<field, level, had>>
wave_vars == <<call, out>>
routines_vars == <<loaded, linked, alarm_vars, wave_vars>>

Lesser(m, n) == IF m < n THEN m ELSE n
Larger(m, n) == IF m < n THEN n ELSE m
Two(S) == Cardinality(S) >= 2

-----------------------------------------------------------------------------
(* Alarm summaries, as functions of the fields *)

\* mutant: the second field of a pair is never skipped
PlaceOfField(f) == [i \in 0 .. Pairs |-> i + 1]

\* pvalue and plink before each iteration: they move on once more for a link
Place(f) ==
  LET p[i \in 0 .. Pairs] ==
        IF i = 0 THEN 1 ELSE p[i-1] + IF p[i-1] \in linked THEN 2 ELSE 1
  IN p

Seen(f) == {Place(f)[i] : i \in 0 .. Pairs - 1} \cap linked
Connected(f) == {p \in Seen(f) : f[p] # 0}
Having(f, s) == {p \in Connected(f) : f[p + 1] = s}

\* subAlarmCalcProc(): a PV that is not connected counts as invalid
SubSummary(f) ==
  IF Two(Having(f, 2)) THEN 2
  ELSE IF Two(Having(f, 1)) THEN 1
  ELSE IF Two(Having(f, 3) \cup (Seen(f) \ Connected(f))) THEN 3
  ELSE IF Having(f, 0) = Connected(f) THEN 0
  ELSE level["sub"]

\* asubAlarmCalcProc(): the pairs are fields of their own; it does not count
ASubConnected(f) == {p \in linked : p % 2 = 1 /\ f[p] # 0}
ASubSummary(f) ==
  LET Has(s) == {p \in ASubConnected(f) : f[p + 1] = s}
  IN IF Two(Has(2)) THEN 2 ELSE IF Two(Has(1)) THEN 1 ELSE IF Two(Has(3)) THEN 3 ELSE 0

\* subCalcAlarm(), for as many fields as K says, here all: one is enough
CalcSummary(f) ==
  LET Some(s) == \E p \in linked : f[p] = s
  IN IF Some(2) THEN 2 ELSE IF Some(1) THEN 1 ELSE IF Some(3) THEN 3 ELSE 0

\* The pairs as the records mean them: a link for the connection and one for the severity
InPair(p) == p % 2 = 1 /\ p \in linked
Severity(f, s) == {p \in Fields : InPair(p) /\ f[p] # 0 /\ f[p + 1] = s}
Lost(f) == {p \in Fields : InPair(p) /\ f[p] = 0}
Levels(f) ==
  {s \in {1, 2} : Two(Severity(f, s))} \cup (IF Two(Severity(f, 3) \cup Lost(f)) THEN {3} ELSE {})
AllWell(f) == \A p \in Fields : InPair(p) => f[p] = 0 \/ f[p + 1] = 0

\* an input changes, and the records that read it are processed
ProcessAlarms ==
  /\ "alarms" \in loaded
  /\ \E p \in linked :
       field' \in {[field EXCEPT ![p] = s] : s \in IF p % 2 = 1 THEN {0, 1} ELSE 0 .. 3}
  /\ level' = [sub |-> SubSummary(field'), asub |-> ASubSummary(field'),
               calc |-> CalcSummary(field')]
  /\ had' = (IF AllWell(field') THEN {} ELSE had) \cup Levels(field')
  /\ UNCHANGED <<loaded, linked, wave_vars>>

-----------------------------------------------------------------------------
(* Waveform routines *)

\* a word of the device, which has the bytes the other way round
Word(i) == <<i, "hi", "lo">>
Swapped(i) == <<i, "lo", "hi">>

\* subADCWfProc(): pairs of words are swapped, as are their bytes, and the end of
\* the output is filled with the word before it; neither is compared with the sizes
\* of the arrays, so there may be more elements than the output has
SubADCWfProc(c) ==
  LET shift == IF c.read > ShiftAbove THEN Shift ELSE 0
      n == c.read - shift
      done == IF n > 0 THEN 2 * (n \div 2) ELSE 0
      filled == done + IF c.length > n THEN c.length - n ELSE 0
      In(i) == IF i < c.noa THEN Swapped(i) ELSE Beyond
      Of(k) == In(shift + IF k % 2 = 0 THEN k + 1 ELSE k - 1)
  IN [k \in 0 .. Larger(Nelm, filled) - 1 |-> IF k < done THEN Of(k)
                                              ELSE IF k >= filled THEN Old
                                              ELSE IF done = 0 THEN Beyond ELSE Of(done - 1)]

\* subSampling(): i goes from FirstSample on in steps
SubSampling(c) ==
  [k \in 0 .. Nelm - 1 |->
     LET I == {i \in FirstSample .. c.noa - 1 :
                 (i - FirstSample) % c.divider = 0 /\ i \div c.divider = k}
     IN IF I = {} THEN Old ELSE CHOOSE i \in I : TRUE]

\* subSlice() and, with the check, subSlice2(), where noa - 1 is unsigned
SubSlice(c) == IF c.index < c.noa THEN c.index ELSE Beyond
SubSlice2(c) ==
  IF c.noa # 0 /\ c.index > c.noa - 1 THEN Old ELSE SubSlice(c)

\* mutant: the left end is not moved when the right one is cut
Moved(left, cut) == left

\* the left end follows the right one, to keep the window centred
LeftOf(left, cut) == left + cut

\* one output of subArrayMovingAverage(): the window is cut at both ends
Average(i, half, count) ==
  LET left == IF i - half > 0 THEN i - half ELSE 0
      l == IF i - half > 0 THEN 0 ELSE half - i
      right == IF i + half < count THEN i + half ELSE count - 1
      r == IF i + half < count THEN 0 ELSE i + half - (count - 1)
  IN IF l > r THEN <<left, right - l>> ELSE <<LeftOf(left, r), right>>

\* window / 2, in C
Half(window) == IF window < 0 THEN -((-window) \div 2) ELSE window \div 2

\* ... of which there are as many as inputs, or none is changed
SubArrayMovingAverage(c) ==
  [i \in 0 .. Nelm - 1 |->
     IF Half(c.window) < 0 \/ c.noa # Nelm THEN Old
     ELSE IF Half(c.window) = 0 THEN <<i, i>>
     ELSE Average(i, Half(c.window), c.noa)]

\* subArrayCompare(): the loop ends at a bad tolerance or at a large difference;
\* arrays of two sizes are not compared
SubArrayCompare(c) ==
  LET status[i \in 0 .. Len(c.tol)] ==
        IF i = 0 THEN 0
        ELSE IF status[i-1] \in {-2, 2} THEN status[i-1]
        ELSE IF c.tol[i] <= 0 THEN -2
        ELSE IF c.tol[i] * c.coeff < c.diff[i] THEN 2
        ELSE IF c.tol[i] < c.diff[i] THEN 1
        ELSE status[i-1]
  IN IF Len(c.tol) # Len(c.diff) THEN Old ELSE status[Len(c.tol)]

\* wf_stats(): its window, and the loop with its continue and break
Window(c) ==
  LET neb == Len(c.time)
  IN IF c.start <= 0 /\ c.width <= 0
       THEN <<0, IF neb > 1 THEN c.time[neb] ELSE neb>>
       ELSE <<c.start, c.start + c.width>>

WfStats(c) ==
  LET usetime == Len(c.time) > 1
      len == IF usetime THEN Lesser(Len(c.time), c.nea) ELSE c.nea
      At(i) == IF usetime THEN c.time[i + 1] ELSE i
      Left(i) == At(i) >= Window(c)[2] /\ At(i) >= Window(c)[1]
      N == {i \in 0 .. len - 1 : At(i) >= Window(c)[1] /\ \A j \in 0 .. i : ~Left(j)}
  IN IF N = {} THEN Old ELSE N

\* subArraySubtraction() and subCopyWaveform(): two inputs of the output's size
SameSize(c) == c.noa = Nelm /\ c.nob = Nelm
SubArraySubtraction(c) == [i \in 0 .. Nelm - 1 |-> IF SameSize(c) THEN <<i, "-", i>> ELSE Old]
SubCopyWaveform(c) ==
  [i \in 0 .. Nelm - 1 |-> IF SameSize(c) /\ c.sel \in {1, 2} THEN <<i, c.sel>> ELSE Old]

Result(c) ==
  CASE c.f = "subADCWfProc" -> SubADCWfProc(c)
    [] c.f = "subSampling" -> SubSampling(c)
    [] c.f = "subSlice" -> SubSlice(c)
    [] c.f = "subSlice2" -> SubSlice2(c)
    [] c.f = "subArrayMovingAverage" -> SubArrayMovingAverage(c)
    [] c.f = "subArrayCompare" -> SubArrayCompare(c)
    [] c.f = "wf_stats" -> WfStats(c)
    [] c.f = "subArraySubtraction" -> SubArraySubtraction(c)
    [] c.f = "subCopyWaveform" -> SubCopyWaveform(c)

ProcessWaveform(c) ==
  /\ "waveforms" \in loaded /\ call.f = "none"
  /\ call' = c
  /\ out' = Result(c)
  /\ UNCHANGED <<loaded, linked, alarm_vars>>

RoutinesInit ==
  /\ loaded \in {{k} : k \in Databases}
  /\ linked \in IF "alarms" \in loaded THEN Links ELSE {{}}
  /\ field = [p \in Fields |-> 0]
  /\ level = [sub |-> 0, asub |-> 0, calc |-> 0]
  /\ had = {}
  /\ call = [f |-> "none"] /\ out = Old

RoutinesNext == ProcessAlarms \/ \E c \in Calls : ProcessWaveform(c)

RoutinesSpec == RoutinesInit /\ [][RoutinesNext]_routines_vars
=============================================================================
