------------------------------- MODULE AbsMem -------------------------------
(* What the kernel's memory allocators promise their callers, stated      *)
(* without free lists or headers.  kalloc(sz) hands out a region of at    *)
(* least sz bytes, and kalloc_page a page, that overlaps no region or     *)
(* page still held by anyone; kfree and kfree_page give them back.  A     *)
(* region stays where it is for as long as it is held.                    *)
EXTENDS Naturals

CONSTANTS
    Objs,        \* callers of kalloc, one object each
    Pgs,         \* callers of kalloc_page, one page each
    Sizes,       \* byte sizes passed to kalloc
    PAGE_SIZE,
    MemSize,     \* bytes of memory the allocators can reach
    NoRegion

VARIABLES
    obj,   \* the region each caller of kalloc holds
    pg,    \* the page each caller of kalloc_page holds
    req    \* the size each holder of a region asked kalloc for, 0 if none

vars == <<obj, pg, req>>

(* A region: its first byte and its length, both multiples of 8.          *)
Region == [base : {8 * k : k \in 0..(MemSize \div 8 - 1)},
           len  : {8 * k : k \in 1..(MemSize \div 8)}]

(* The 8-byte words a region covers.                                      *)
Words(r) == {r.base + 8 * k : k \in 0..(r.len \div 8 - 1)}

(* Every word held by a caller of either allocator, except caller x's.    *)
HeldWords(x) ==
    UNION {Words(obj[h]) : h \in {h \in Objs : obj[h] /= NoRegion /\ h /= x}}
    \cup UNION {Words(pg[g]) : g \in {g \in Pgs : pg[g] /= NoRegion /\ g /= x}}

TypeOK ==
    /\ obj \in [Objs -> Region \cup {NoRegion}]
    /\ pg \in [Pgs -> Region \cup {NoRegion}]
    /\ req \in [Objs -> Sizes \cup {0}]

Init ==
    /\ obj = [h \in Objs |-> NoRegion]
    /\ pg = [g \in Pgs |-> NoRegion]
    /\ req = [h \in Objs |-> 0]

Kalloc(h, sz) ==
    /\ obj[h] = NoRegion
    /\ \E r \in Region :
          /\ obj' = [obj EXCEPT ![h] = r]
          /\ r.len >= sz
          /\ Words(r) \cap HeldWords(h) = {}
    /\ req' = [req EXCEPT ![h] = sz]
    /\ UNCHANGED pg

Kfree(h) ==
    /\ obj[h] /= NoRegion
    /\ obj' = [obj EXCEPT ![h] = NoRegion]
    /\ req' = [req EXCEPT ![h] = 0]
    /\ UNCHANGED pg

KallocPage(g) ==
    /\ pg[g] = NoRegion
    /\ \E b \in {PAGE_SIZE * k : k \in 0..(MemSize \div PAGE_SIZE - 1)} :
          LET r == [base |-> b, len |-> PAGE_SIZE]
          IN /\ pg' = [pg EXCEPT ![g] = r]
             /\ Words(r) \cap HeldWords(g) = {}
    /\ UNCHANGED <<obj, req>>

KfreePage(g) ==
    /\ pg[g] /= NoRegion
    /\ pg' = [pg EXCEPT ![g] = NoRegion]
    /\ UNCHANGED <<obj, req>>

Next ==
    \/ \E h \in Objs, sz \in Sizes : Kalloc(h, sz)
    \/ \E h \in Objs : Kfree(h)
    \/ \E g \in Pgs : KallocPage(g)
    \/ \E g \in Pgs : KfreePage(g)

Spec == Init /\ [][Next]_vars
=============================================================================
