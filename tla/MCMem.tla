------------------------------- MODULE MCMem -------------------------------
(* Model-checking instance of Mem: the callers are model values.         *)
EXTENDS Mem, TLC

CONSTANTS h1, h2, h3, g1

MCObjs == {h1, h2, h3}
MCPgs == {g1}
====
