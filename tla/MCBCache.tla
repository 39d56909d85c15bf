------------------------------ MODULE MCBCache ------------------------------
(* Model-checking instance of BCache: threads, block numbers and Block    *)
(* object identities are model values.                                     *)
EXTENDS BCache, TLC

CONSTANTS t1, t2, n1, n2, n3, o1, o2, o3, o4

MCThreads2 == {t1, t2}
MCThreads1 == {t1}
MCBlockNos2 == {n1, n2}
MCBlockNos3 == {n1, n2, n3}
MCObjs == {o1, o2, o3, o4}
MCBlockNos1 == {n1}
====
