---------------------------- MODULE RoutinesProps ----------------------------
(* What the subroutines of sub and aSub records promise *)
EXTENDS Routines

\* The pairs of links are whole, and no pair without links stands before another
Aligned ==
  \E n \in 0 .. Pairs : linked = 1 .. 2 * n

\* subCalcAlarm() counts minor above invalid
Rank(s) == CASE s = 0 -> 0 [] s = 3 -> 1 [] s = 1 -> 2 [] s = 2 -> 3

\* subCalcAlarm() shows the highest level of its inputs: "if any bpm cause alarm it
\* display alarm" (subCalcAlarm.c).  The others show major when two inputs are major,
\* and minor when two are minor only, and no level that two inputs have not had at
\* once: the one of the array record those that they have now, subAlarmCalcProc(),
\* which keeps its value when no rule applies, those that they have had since all
\* inputs were well.  For this one nothing is said unless the links are set from the
\* front and pair by pair, since its pointers skip a field for each link they find.
AlarmsHaveCause ==
  LET top == IF Two(Severity(field, 2)) THEN {2} ELSE IF Two(Severity(field, 1)) THEN {1} ELSE {}
  IN /\ level["asub"] # 0 => level["asub"] \in Levels(field)
     /\ top # {} => level["asub"] \in top
     /\ Aligned => /\ level["sub"] # 0 => level["sub"] \in had
                   /\ top # {} => level["sub"] \in top
                   /\ AllWell(field) /\ ~Two(Lost(field)) => level["sub"] = 0
     /\ level["calc"] # 0 => \E p \in linked : level["calc"] = field[p]
     /\ \A p \in linked : Rank(field[p]) <= Rank(level["calc"])

-----------------------------------------------------------------------------
Outputs == 0 .. Nelm - 1

\* subADCWfProc(), when it is told to read whole pairs that the input has: all the
\* words after the shift, in the order of the device's pairs, and the last of them up
\* to the length that is asked for; nothing behind an output that is large enough
AdcMatches(c) ==
  LET shift == IF c.read > ShiftAbove THEN Shift ELSE 0
      n == c.read - shift
  IN n > 0 /\ n % 2 = 0 /\ c.read <= c.noa =>
       /\ \A k \in DOMAIN out :
            out[k] = IF k < n THEN Swapped(shift + 4 * (k \div 2) + 1 - k)
                     ELSE IF k < c.length THEN out[n - 1] ELSE Old
       /\ n <= Nelm /\ c.length <= Nelm => DOMAIN out = Outputs

\* subSampling(): one sample of each step, the same in each, none twice
SamplesMatch(c) ==
  \A k \in Outputs :
    out[k] # Old => /\ out[k] \in k * c.divider .. (k + 1) * c.divider - 1
                    /\ out[k] % c.divider = FirstSample % c.divider

\* subArrayMovingAverage(): nothing for a negative window or an output of another
\* size, and else each average is over the widest window that is centred and within
\* the array, of those that are not wider than was asked; windows that are cut at
\* both ends are left out
AveragesAreCentred(c) ==
  /\ c.noa # Nelm \/ c.window < -1 => \A i \in Outputs : out[i] = Old
  /\ c.noa = Nelm /\ c.window >= 0 /\ 2 * (c.window \div 2) <= Nelm =>
    \A i \in Outputs :
      LET d == CHOOSE m \in 0 .. Nelm :
                 /\ m <= c.window \div 2 /\ i - m >= 0 /\ i + m < Nelm
                 /\ m = c.window \div 2 \/ i - m = 0 \/ i + m = Nelm - 1
      IN out[i] = <<i - d, i + d>>

\* subArrayCompare(): nothing for two arrays of different size, and else the worst
\* difference before the first wrong tolerance, or that tolerance, unless a large
\* difference comes first
ComparisonMatches(c) ==
  LET Wrong(i) == c.tol[i] <= 0
      Above(i, f) == c.tol[i] * f < c.diff[i]
      First(i) == \A j \in 1 .. i - 1 : ~Wrong(j) /\ ~Above(j, c.coeff)
  IN IF Len(c.tol) # Len(c.diff) THEN out = Old
     ELSE /\ out = -2 <=> \E i \in DOMAIN c.tol : Wrong(i) /\ First(i)
          /\ out = 2 <=> \E i \in DOMAIN c.tol : ~Wrong(i) /\ Above(i, c.coeff) /\ First(i)
          /\ out = 1 => \E i \in DOMAIN c.tol : Above(i, 1)
          /\ out = 0 => \A i \in DOMAIN c.tol : ~Above(i, 1)

\* wf_stats(): when a window is given and the times do not decrease, the statistics
\* are over just the samples in that window.  When none is given nothing is said: the
\* "entire range" (asubwf.c:74) leaves out the last sample.
StatisticsMatch(c) ==
  LET t == IF Len(c.time) > 1 THEN c.time ELSE [i \in 1 .. c.nea |-> i - 1]
      n == Lesser(Len(t), c.nea)
      Within == {i \in 0 .. n - 1 : t[i + 1] >= c.start /\ t[i + 1] < c.start + c.width}
  IN (c.start > 0 \/ c.width > 0) /\ (\A i \in 1 .. n - 1 : t[i] <= t[i + 1]) =>
       out = IF Within = {} THEN Old ELSE Within

\* The loops of the waveform routines, with their shifts, breaks and cut windows,
\* deliver what the definitions above say, each for the calls that it names;
\* subSlice2() reads nothing behind an input that has elements, and a routine whose
\* arrays do not match writes none of its output.
WaveformsAsDefined ==
  CASE call.f = "subADCWfProc" -> AdcMatches(call)
    [] call.f = "subSampling" -> SamplesMatch(call)
    [] call.f = "subSlice2" -> call.noa # 0 => out # Beyond
    [] call.f = "subArrayMovingAverage" -> AveragesAreCentred(call)
    [] call.f = "subArrayCompare" -> ComparisonMatches(call)
    [] call.f = "wf_stats" -> StatisticsMatch(call)
    [] call.f \in {"subArraySubtraction", "subCopyWaveform"} ->
         \A i, j \in Outputs : out[i] = Old <=> out[j] = Old
    [] OTHER -> TRUE
=============================================================================
