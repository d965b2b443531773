----------------------------- MODULE MCPsdWorker -----------------------------
EXTENDS PsdWorkerProps, TLC

CONSTANTS a, e  \* a waveform of some length, and an empty one

MCInputs == {a, e}
MCLenOf == a :> 4 @@ e :> 0

Setting(n, f, w) == [nfft |-> n, fsamp |-> f, mult |-> 1, win |-> w]
\* nothing set, half of it, everything, and a change of the length or the window
MCParams == {Setting(0, 0, "None"), Setting(4, 0, "None"), Setting(4, 1, "None"),
             Setting(2, 1, "None"), Setting(4, 1, "Hann")}
=============================================================================
