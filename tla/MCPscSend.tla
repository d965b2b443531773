------------------------------ MODULE MCPscSend ------------------------------
(* Small instances of PscSend: message a is one unit long, b is two *)
EXTENDS PscSendProps, TLC

CONSTANTS a, b

MCBlocks == {a, b}
MCSizeOf == a :> 1 @@ b :> 2
=============================================================================
