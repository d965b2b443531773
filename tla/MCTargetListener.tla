-------------------------- MODULE MCTargetListener --------------------------
EXTENDS TargetListenerProps

CONSTANTS c1, c2, f1, f2

MCClients == {c1, c2}
MCFds == {f1, f2}
=============================================================================
