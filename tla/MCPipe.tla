------------------------------- MODULE MCPipe -------------------------------
(* Model-checking instance of Pipe: a ring of two bytes, so that the       *)
(* buffer fills and wraps within a few calls.                              *)
EXTENDS Pipe, TLC

CONSTANTS w, r, none
====
