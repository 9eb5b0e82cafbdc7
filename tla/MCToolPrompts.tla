--------------------------- MODULE MCToolPrompts ---------------------------
(* Instances of ToolPrompts for TLC. Every call asks under one key.        *)
EXTENDS ToolPrompts, TLC
CONSTANTS t1, t2, b1, s1, k1

OneKey == [c \in Calls |-> k1]
=============================================================================
