------------------------------- MODULE MCProc -------------------------------
(* Proc instantiated for TLC: root_proc, the init process and one or two  *)
(* more Proc slots, which a reaped child frees and the next fork reuses.  *)
EXTENDS Proc, TLC

CONSTANTS root, u1, u2, u3, none

MCUsers == {u1, u2}
MCUsers3 == {u1, u2, u3}
=============================================================================
