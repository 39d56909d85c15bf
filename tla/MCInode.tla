------------------------------ MODULE MCInode -------------------------------
(* Model values and small constants for Inode: the root directory (inode  *)
(* 1) holds ".", ".." and one regular file a (inode 2).                  *)
EXTENDS Inode, TLC

CONSTANTS t1, t2, r, o1

MCNames == {".", "..", "a"}
MCINos == 0..2
MCInitDir == [x \in MCNames |-> IF x = "a" THEN 2 ELSE 1]
MCObjs == {r, o1}
====
