--------------------------- MODULE MCTableControl ---------------------------
EXTENDS TableControlProps

\* two ramps that one intermediate point can join, one of them for a bipolar supply
\* only and with an end that is not checked against a new polarity, and a shorter one
MCTables == {<<1, 1, 1>>, <<0, 0, -1>>, <<1, 1>>}
MCVolts == -1 .. 1
=============================================================================
