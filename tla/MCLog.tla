------------------------------- MODULE MCLog -------------------------------
(* Model-checking instance of Log: three kernel threads (so that one can   *)
(* sleep in cache_begin_op while others are inside operations), and one    *)
(* data block more than the log has slots, so that a log that admitted too *)
(* many operations would overflow.                                         *)
EXTENDS Log, TLC

CONSTANTS t1, t2, t3, b1, b2, b3

MCThreads == {t1, t2, t3}
MCDataBlocks == {b1, b2, b3}
====
