----------------------------- MODULE MCRoutines -----------------------------
EXTENDS RoutinesProps

\* links set from the front, a gap between pairs, and a pair with one link
MCLinks == {1 .. 4, 1 .. 6, {3, 4, 5, 6}, {1, 3, 4, 5, 6}}

SeqsOf(S, n) == UNION {[1 .. m -> S] : m \in 0 .. n}

MCCalls ==
  [f : {"subADCWfProc"}, noa : {6, 12}, read : -1 .. 12, length : 0 .. 10]
  \cup [f : {"subSampling"}, noa : 0 .. 12, divider : 1 .. 4]
  \cup [f : {"subSlice", "subSlice2"}, noa : 0 .. 3, index : 0 .. 3]
  \cup [f : {"subArrayMovingAverage"}, noa : {7, 8}, window : -3 .. 12]
  \cup {[f |-> "subArrayCompare", tol |-> p[1], diff |-> p[2], coeff |-> 2] :
          p \in [1 .. 3 -> 0 .. 2] \X ([1 .. 3 -> 0 .. 5] \cup [1 .. 2 -> {1}])}
  \cup [f : {"wf_stats"}, nea : 0 .. 3, time : SeqsOf(-1 .. 2, 3), start : -1 .. 2,
        width : 0 .. 2]
  \cup [f : {"subArraySubtraction"}, noa : {7, 8}, nob : {7, 8}]
  \cup [f : {"subCopyWaveform"}, noa : {7, 8}, nob : {7, 8}, sel : 0 .. 2]
=============================================================================
