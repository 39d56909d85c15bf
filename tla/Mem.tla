-------------------------------- MODULE Mem --------------------------------
(* The kernel's memory allocators, src/kernel/mem.c.                      *)
(*                                                                         *)
(* kalloc_page hands out pages from `top` upwards; kfree_page only        *)
(* decrements kalloc_page_cnt, so a freed page is never handed out again  *)
(* and the `pages` free list stays empty.  kalloc is a first-fit          *)
(* allocator over the list `mems` of free blocks, each with an 8-byte     *)
(* MemBlock header {nxt, size} in front of it: a request is rounded up    *)
(* to a multiple of 8 plus the header, a block too small for it is        *)
(* skipped, a fresh page is appended when none fits, and a block is       *)
(* split when more than a header's worth would be left over.  kfree walks *)
(* the list to the last block whose successor lies below the freed one,   *)
(* merges it with that block or inserts it after it, and then merges      *)
(* every pair of list neighbours that touch from there to the end.        *)
(*                                                                         *)
(* Each function runs under page_lock or alloc_lock (kalloc holds          *)
(* alloc_lock across its kalloc_page), so each call is one atomic step.   *)
(* Addresses are byte offsets from the first page after zero_page; the    *)
(* list is a sequence in list order and `size` the header's size word of  *)
(* every block start (the words of merged-away headers are data).         *)
EXTENDS Naturals, Sequences, SequencesExt, Functions

CONSTANTS
    PAGE_SIZE,
    MaxPages,    \* bound on the pages taken from top
    Sizes,       \* byte sizes passed to kalloc
    Objs,        \* callers of kalloc, one object each
    Pgs,         \* callers of kalloc_page, one page each
    NoAddr

ASSUME PAGE_SIZE % 8 = 0 /\ MaxPages \in Nat \ {0}

MemSize == MaxPages * PAGE_SIZE
Addrs == {8 * k : k \in 0..(MemSize \div 8 - 1)}

(* sizeof(MemBlock): the header in front of every kalloc block.           *)
offset == 8

VARIABLES
    top,        \* the next page kalloc_page takes
    cnt,        \* kalloc_page_cnt
    mems,       \* the free list, in list order
    size,       \* the size word of the header at each block start
    live,       \* the header address of each caller's kalloc block
    pages,      \* the page each kalloc_page caller holds
    heap,       \* ghost: the pages kalloc took for itself
    asked       \* ghost: the sz each holder of a kalloc block passed, 0 if none

vars == <<top, cnt, mems, size, live, pages, heap, asked>>

TypeOK ==
    /\ top \in {PAGE_SIZE * k : k \in 0..MaxPages}
    /\ cnt \in 0..MaxPages
    /\ mems \in Seq(Addrs)
    /\ size \in [Addrs -> 0..MemSize]
    /\ live \in [Objs -> Addrs \cup {NoAddr}]
    /\ pages \in [Pgs -> Addrs \cup {NoAddr}]
    /\ heap \subseteq Addrs
    /\ asked \in [Objs -> Sizes \cup {0}]

(* kinit: no free blocks, no pages handed out.                            *)
Init ==
    /\ top = 0
    /\ cnt = 0
    /\ mems = <<>>
    /\ size = [a \in Addrs |-> 0]
    /\ live = [h \in Objs |-> NoAddr]
    /\ pages = [g \in Pgs |-> NoAddr]
    /\ heap = {}
    /\ asked = [h \in Objs |-> 0]

(* Mutant: the rounding leaves out the header.                            *)
RoundedNoHeader(sz) == sz + ((8 - (sz % 8)) % 8)

(* The size kalloc rounds a request to: sz += offset + ((8 - (sz & 7)) & 7). *)
Rounded(sz) == sz + offset + ((8 - (sz % 8)) % 8)

(* kfree's final loop: from list position k to the end, a block whose     *)
(* successor starts where it ends absorbs that successor.                 *)
RECURSIVE Coalesce(_, _, _)
Coalesce(fl, sz, k) ==
    IF k >= Len(fl) THEN [fl |-> fl, sz |-> sz]
    ELSE LET p == fl[k]
             n == fl[k + 1]
         IN IF n = p + sz[p]
            THEN Coalesce(RemoveAt(fl, k + 1),
                          [sz EXCEPT ![p] = @ + sz[n], ![n] = 0], k)
            ELSE Coalesce(fl, sz, k + 1)

(* kalloc_page: pages.nxt is always NULL, so the page is taken from top.  *)
kalloc_page(g) ==
    /\ pages[g] = NoAddr
    /\ top < MemSize
    /\ pages' = [pages EXCEPT ![g] = top]
    /\ top' = top + PAGE_SIZE
    /\ cnt' = cnt + 1
    /\ UNCHANGED <<mems, size, live, heap, asked>>

(* Mutant: kfree_page without the test that the caller holds a page.   *)
kfree_pageUnchecked(g) ==
    /\ pages' = [pages EXCEPT ![g] = NoAddr]
    /\ cnt' = cnt - 1
    /\ UNCHANGED <<top, mems, size, live, heap, asked>>

(* kfree_page: only the counter goes down.                                *)
kfree_page(g) ==
    /\ pages[g] /= NoAddr
    /\ pages' = [pages EXCEPT ![g] = NoAddr]
    /\ cnt' = cnt - 1
    /\ UNCHANGED <<top, mems, size, live, heap, asked>>

(* Mutant: kalloc splits even when only a bare header would be left.   *)
kallocSplitNoHeader(h, sz) ==
    LET need == Rounded(sz)
        fit == SelectInSeq(mems, LAMBDA b : size[b] >= need)
        fresh == fit = 0
        fl == IF fresh THEN Append(mems, top) ELSE mems
        sz0 == IF fresh THEN [size EXCEPT ![top] = PAGE_SIZE] ELSE size
        i == IF fresh THEN Len(fl) ELSE fit
        p == fl[i]
    IN /\ live[h] = NoAddr
       /\ fresh => top < MemSize
       /\ IF sz0[p] > need
          THEN /\ mems' = [fl EXCEPT ![i] = p + need]
               /\ size' = [sz0 EXCEPT ![p + need] = sz0[p] - need, ![p] = need]
          ELSE /\ mems' = RemoveAt(fl, i)
               /\ size' = sz0
       /\ live' = [live EXCEPT ![h] = p]
       /\ asked' = [asked EXCEPT ![h] = sz]
       /\ top' = IF fresh THEN top + PAGE_SIZE ELSE top
       /\ cnt' = IF fresh THEN cnt + 1 ELSE cnt
       /\ heap' = IF fresh THEN heap \cup {top} ELSE heap
       /\ UNCHANGED pages

(* kalloc(sz): the first block of at least the rounded size; if there is  *)
(* none, a page from kalloc_page appended after the last block.  The      *)
(* block is split when its size exceeds the request by more than a       *)
(* header, the rest staying in its place in the list; otherwise it leaves *)
(* the list whole.                                                         *)
kalloc(h, sz) ==
    LET need == Rounded(sz)
        fit == SelectInSeq(mems, LAMBDA b : size[b] >= need)
        fresh == fit = 0
        fl == IF fresh THEN Append(mems, top) ELSE mems
        sz0 == IF fresh THEN [size EXCEPT ![top] = PAGE_SIZE] ELSE size
        i == IF fresh THEN Len(fl) ELSE fit
        p == fl[i]
    IN /\ live[h] = NoAddr
       /\ fresh => top < MemSize
       /\ IF sz0[p] > need + offset
          THEN /\ mems' = [fl EXCEPT ![i] = p + need]
               /\ size' = [sz0 EXCEPT ![p + need] = sz0[p] - need, ![p] = need]
          ELSE /\ mems' = RemoveAt(fl, i)
               /\ size' = sz0
       /\ live' = [live EXCEPT ![h] = p]
       /\ asked' = [asked EXCEPT ![h] = sz]
       /\ top' = IF fresh THEN top + PAGE_SIZE ELSE top
       /\ cnt' = IF fresh THEN cnt + 1 ELSE cnt
       /\ heap' = IF fresh THEN heap \cup {top} ELSE heap
       /\ UNCHANGED pages

(* kfree: into an empty list the block goes alone.  Otherwise the walk    *)
(* stops at the first block whose successor is missing or lies above the  *)
(* freed block; the freed block is merged into it if it ends where the     *)
(* freed block starts, and inserted after it if not, and coalescing runs   *)
(* on from there.                                                          *)
kfree(h) ==
    LET pt == live[h]
        above == SelectInSeq(Tail(mems), LAMBDA b : b > pt)
        j == IF above = 0 THEN Len(mems) ELSE above
        p == mems[j]
        c == IF p + size[p] = pt
             THEN Coalesce(mems, [size EXCEPT ![p] = @ + size[pt], ![pt] = 0], j)
             ELSE Coalesce(InsertAt(mems, j + 1, pt), size, j + 1)
    IN /\ pt /= NoAddr
       /\ live' = [live EXCEPT ![h] = NoAddr]
       /\ asked' = [asked EXCEPT ![h] = 0]
       /\ IF mems = <<>>
          THEN /\ mems' = <<pt>>
               /\ UNCHANGED size
          ELSE /\ mems' = c.fl
               /\ size' = c.sz
       /\ UNCHANGED <<top, cnt, pages, heap>>

Next ==
    \/ \E h \in Objs, sz \in Sizes : kalloc(h, sz)
    \/ \E h \in Objs : kfree(h)
    \/ \E g \in Pgs : kalloc_page(g)
    \/ \E g \in Pgs : kfree_page(g)

Spec == Init /\ [][Next]_vars

-----------------------------------------------------------------------------
(* The words of the pages kalloc took, and of the block at address b.    *)
HeapWords == UNION {{b + 8 * k : k \in 0..(PAGE_SIZE \div 8 - 1)} : b \in heap}
BlockWords(b) == {b + 8 * k : k \in 0..(size[b] \div 8 - 1)}
Held == {h \in Objs : live[h] /= NoAddr}
Blocks == ToSet(mems) \cup {live[h] : h \in Held}

(* The kalloc heap is exactly partitioned: every word of every page       *)
(* kalloc took lies in exactly one block, free or handed out, no block    *)
(* is listed twice or both free and handed out, and every block has room  *)
(* for its header and at least one word (kalloc's split and kfree's       *)
(* merges keep the sizes in the headers right).                           *)
HeapExact ==
    /\ IsInjective(mems)
    /\ \A h \in Held : live[h] \notin ToSet(mems)
    /\ \A h, h2 \in Held : h /= h2 => live[h] /= live[h2]
    /\ \A b \in Blocks : size[b] >= 2 * offset /\ BlockWords(b) \subseteq HeapWords
    /\ \A w \in HeapWords : \E b \in Blocks : w \in BlockWords(b)
    /\ \A b, b2 \in Blocks : b /= b2 => BlockWords(b) \cap BlockWords(b2) = {}


(* The refinement mapping: a caller of kalloc holds the bytes after its   *)
(* block's header, up to the block's end; a caller of kalloc_page its     *)
(* page.                                                                   *)
MemAbs == INSTANCE AbsMem WITH
    obj <- [h \in Objs |-> IF live[h] = NoAddr THEN NoAddr
                           ELSE [base |-> live[h] + offset, len |-> size[live[h]] - offset]],
    pg <- [g \in Pgs |-> IF pages[g] = NoAddr THEN NoAddr
                         ELSE [base |-> pages[g], len |-> PAGE_SIZE]],
    req <- asked, MemSize <- MemSize, NoRegion <- NoAddr

(* kalloc and kalloc_page implement the abstract allocator: each hands    *)
(* out a region at least as large as the sz it was passed (the header and *)
(* rounding come on top) that overlaps nothing another caller holds, and  *)
(* a held region never moves or shrinks.                                  *)
AllocSafe == MemAbs!Spec
=============================================================================
