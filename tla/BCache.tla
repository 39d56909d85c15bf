------------------------------- MODULE BCache -------------------------------
(***************************************************************************)
(* The block cache of src/fs/cache.c: cache_acquire with its hit path,    *)
(* its miss path (eviction from the LRU tail, kalloc, device_read, insert  *)
(* at the head) and cache_release.  Block objects are a small pool of     *)
(* identities: kalloc hands out any identity not allocated, so memory an   *)
(* eviction freed may come back as a new block.  Each object keeps its     *)
(* fields after kfree, as freed memory does until it is reused.            *)
(*                                                                         *)
(* Every step of a thread is one critical section of the spinlock `lock`   *)
(* or one semaphore operation; the per-block sleep-lock is a semaphore    *)
(* with one credit (credit count plus sleepers, as in Log).  A thread      *)
(* holding a block may also pin it (cache_sync with a context) or unpin it *)
(* (the install loop of cache_end_op).                                     *)
(***************************************************************************)
EXTENDS Naturals, Sequences, FiniteSets, SequencesExt

CONSTANTS
    Threads,            \* kernel threads calling cache_acquire
    BlockNos,           \* block numbers they acquire
    Objs,               \* identities of Block objects kalloc can hand out
    EVICTION_THRESHOLD, \* the cache evicts when blocknum reaches it
    MaxAcquires,        \* bound on the cache_acquire calls in a behaviour
    NoObj               \* a thread's block pointer when it holds none

ASSUME EVICTION_THRESHOLD \in Nat /\ MaxAcquires \in Nat /\ NoObj \notin Objs

VARIABLES
    pc,        \* where each thread is in cache_acquire / holding / release
    obj,       \* the Block object a thread is acquiring or holds
    alloc,     \* objects currently allocated by kalloc
    no,        \* block->block_no of each object
    acquired,  \* block->acquired
    pinned,    \* block->pinned
    lk,        \* block->lock: [cnt, sl]
    lru,       \* the list at head, most recently used first
    blocknum,  \* the counter blocknum
    acquires   \* cache_acquire calls so far

vars == <<pc, obj, alloc, no, acquired, pinned, lk, lru, blocknum, acquires>>

PCs == {"idle", "wait", "sleep", "move", "read", "hold"}

TypeOK ==
    /\ pc \in [Threads -> PCs]
    /\ obj \in [Threads -> Objs \cup {NoObj}]
    /\ alloc \subseteq Objs
    /\ no \in [Objs -> BlockNos]
    /\ acquired \in [Objs -> BOOLEAN] /\ pinned \in [Objs -> BOOLEAN]
    /\ lk \in [Objs -> [cnt : Nat, sl : SUBSET Threads]]
    /\ lru \in Seq(Objs)
    /\ blocknum \in Nat /\ acquires \in 0..MaxAcquires

(* init_bcache: an empty list and blocknum = 0. *)
Init ==
    /\ pc = [t \in Threads |-> "idle"]
    /\ obj = [t \in Threads |-> NoObj]
    /\ alloc = {}
    /\ no = [o \in Objs |-> CHOOSE n \in BlockNos : TRUE]
    /\ acquired = [o \in Objs |-> FALSE] /\ pinned = [o \in Objs |-> FALSE]
    /\ lk = [o \in Objs |-> [cnt |-> 1, sl |-> {}]]
    /\ lru = <<>> /\ blocknum = 0 /\ acquires = 0

-----------------------------------------------------------------------------
(* The eviction loop of cache_acquire: from the tail towards the head,    *)
(* free every block neither acquired nor pinned, until blocknum falls      *)
(* below EVICTION_THRESHOLD.  s is the part of the list still to walk.    *)
RECURSIVE Evicted(_, _)
Evicted(s, cnt) ==
    IF s = <<>> \/ cnt < EVICTION_THRESHOLD THEN {}
    ELSE LET o == Last(s) IN
         IF ~acquired[o] /\ ~pinned[o] THEN {o} \cup Evicted(Front(s), cnt - 1)
                                       ELSE Evicted(Front(s), cnt)

(* The first block of the list, from the head, whose block_no is n; 0 if  *)
(* there is none (the _for_in_list search).                                *)
Lookup(n) == SelectInSeq(lru, LAMBDA o : no[o] = n)

(* The hit path of cache_acquire, under `lock`: the block is marked        *)
(* acquired and `lock` released to wait on its sleep-lock.                 *)
AcquireHit(t, o) ==
    /\ acquired' = [acquired EXCEPT ![o] = TRUE]
    /\ obj' = [obj EXCEPT ![t] = o]
    /\ pc' = [pc EXCEPT ![t] = "wait"]
    /\ UNCHANGED <<alloc, no, pinned, lk, lru, blocknum>>

(* Fault: the fresh block's sleep-lock is initialised but not taken.      *)
AcquireMissNoLockWait(t, n) ==
    LET ev == IF blocknum >= EVICTION_THRESHOLD THEN Evicted(lru, blocknum) ELSE {}
    IN \E o \in Objs \ (alloc \ ev) :
         /\ alloc' = (alloc \ ev) \cup {o}
         /\ lru' = SelectSeq(lru, LAMBDA x : x \notin ev)
         /\ blocknum' = blocknum - Cardinality(ev) + 1
         /\ no' = [no EXCEPT ![o] = n]
         /\ acquired' = [acquired EXCEPT ![o] = TRUE]
         /\ pinned' = [pinned EXCEPT ![o] = FALSE]
         /\ lk' = [lk EXCEPT ![o] = [cnt |-> 1, sl |-> {}]]
         /\ obj' = [obj EXCEPT ![t] = o]
         /\ pc' = [pc EXCEPT ![t] = "read"]

(* The miss path of cache_acquire, under `lock`: the eviction loop when    *)
(* blocknum has reached the threshold, then kalloc and init_block of a     *)
(* fresh block, an uncontended wait_sem on its new lock, ++blocknum,       *)
(* block_no, acquired and valid; `lock` is released to read it in.         *)
AcquireMiss(t, n) ==
    LET ev == IF blocknum >= EVICTION_THRESHOLD THEN Evicted(lru, blocknum) ELSE {}
    IN \E o \in Objs \ (alloc \ ev) :
         /\ alloc' = (alloc \ ev) \cup {o}
         /\ lru' = SelectSeq(lru, LAMBDA x : x \notin ev)
         /\ blocknum' = blocknum - Cardinality(ev) + 1
         /\ no' = [no EXCEPT ![o] = n]
         /\ acquired' = [acquired EXCEPT ![o] = TRUE]
         /\ pinned' = [pinned EXCEPT ![o] = FALSE]
         /\ lk' = [lk EXCEPT ![o] = [cnt |-> 0, sl |-> {}]]
         /\ obj' = [obj EXCEPT ![t] = o]
         /\ pc' = [pc EXCEPT ![t] = "read"]

(* cache_acquire(n): search the list under `lock` for block n.             *)
cache_acquire(t, n) ==
    /\ pc[t] = "idle" /\ acquires < MaxAcquires
    /\ acquires' = acquires + 1
    /\ IF Lookup(n) /= 0 THEN AcquireHit(t, lru[Lookup(n)]) ELSE AcquireMiss(t, n)

(* The miss path after `lock` is released: device_read, then under `lock`  *)
(* insert_into_list at the head; cache_acquire returns.                    *)
ReadIn(t) ==
    /\ pc[t] = "read"
    /\ lru' = <<obj[t]>> \o lru
    /\ pc' = [pc EXCEPT ![t] = "hold"]
    /\ UNCHANGED <<obj, alloc, no, acquired, pinned, lk, blocknum, acquires>>

(* Fault: the hit path takes the sleep-lock without testing for a credit. *)
WaitLockNoCheck(t) ==
    /\ pc[t] = "wait"
    /\ lk' = [lk EXCEPT ![obj[t]].cnt = @ - 1]
    /\ pc' = [pc EXCEPT ![t] = "move"]
    /\ UNCHANGED <<obj, alloc, no, acquired, pinned, lru, blocknum, acquires>>

(* wait_sem(&ans->lock) on the hit path, after `lock` is released: a      *)
(* credit lets the thread on at once, otherwise it sleeps until a post.    *)
WaitLock(t) ==
    /\ pc[t] = "wait"
    /\ LET o == obj[t] IN
       \/ /\ lk[o].cnt > 0
          /\ lk' = [lk EXCEPT ![o].cnt = @ - 1]
          /\ pc' = [pc EXCEPT ![t] = "move"]
       \/ /\ lk[o].cnt = 0
          /\ lk' = [lk EXCEPT ![o].sl = @ \cup {t}]
          /\ pc' = [pc EXCEPT ![t] = "sleep"]
    /\ UNCHANGED <<obj, alloc, no, acquired, pinned, lru, blocknum, acquires>>

(* Fault: movetohead inserts the block at the head without detaching it.  *)
MoveToHeadNoDetach(t) ==
    /\ pc[t] = "move"
    /\ lru' = <<obj[t]>> \o lru
    /\ pc' = [pc EXCEPT ![t] = "hold"]
    /\ UNCHANGED <<obj, alloc, no, acquired, pinned, lk, blocknum, acquires>>

(* The hit path once the sleep-lock is taken: under `lock`, movetohead     *)
(* detaches the block and inserts it at the head; cache_acquire returns.   *)
MoveToHead(t) ==
    /\ pc[t] = "move"
    /\ lru' = <<obj[t]>> \o Remove(lru, obj[t])
    /\ pc' = [pc EXCEPT ![t] = "hold"]
    /\ UNCHANGED <<obj, alloc, no, acquired, pinned, lk, blocknum, acquires>>

(* The holder syncs the block under an OpContext: cache_sync sets          *)
(* block->pinned (the log now names it), or the commit's install loop      *)
(* clears it (now->pinned = 0) on a block it has acquired.                 *)
SetPinned(t) ==
    /\ pc[t] = "hold"
    /\ \E v \in BOOLEAN : pinned' = [pinned EXCEPT ![obj[t]] = v]
    /\ UNCHANGED <<pc, obj, alloc, no, acquired, lk, lru, blocknum, acquires>>

(* Fault: cache_release clears acquired but forgets post_sem.             *)
ReleaseNoPost(t) ==
    /\ pc[t] = "hold"
    /\ acquired' = [acquired EXCEPT ![obj[t]] = FALSE]
    /\ pc' = [pc EXCEPT ![t] = "idle"]
    /\ obj' = [obj EXCEPT ![t] = NoObj]
    /\ UNCHANGED <<alloc, no, pinned, lk, lru, blocknum, acquires>>

(* cache_release: under `lock`, acquired = 0 and post_sem(&block->lock),   *)
(* which wakes one sleeper (it goes on to movetohead) or leaves a credit.  *)
cache_release(t) ==
    /\ pc[t] = "hold"
    /\ LET o == obj[t] IN
       /\ acquired' = [acquired EXCEPT ![o] = FALSE]
       /\ \/ /\ lk[o].sl = {}
             /\ lk' = [lk EXCEPT ![o].cnt = @ + 1]
             /\ pc' = [pc EXCEPT ![t] = "idle"]
          \/ \E w \in lk[o].sl :
                /\ lk' = [lk EXCEPT ![o].sl = @ \ {w}]
                /\ pc' = [pc EXCEPT ![t] = "idle", ![w] = "move"]
    /\ obj' = [obj EXCEPT ![t] = NoObj]
    /\ UNCHANGED <<alloc, no, pinned, lru, blocknum, acquires>>

Thread(t) ==
    \/ \E n \in BlockNos : cache_acquire(t, n)
    \/ ReadIn(t) \/ WaitLock(t) \/ MoveToHead(t)
    \/ SetPinned(t) \/ cache_release(t)

(* Every thread has called cache_acquire as often as the bound allows and  *)
(* released what it held.                                                  *)
Done ==
    /\ acquires = MaxAcquires /\ \A t \in Threads : pc[t] = "idle"
    /\ UNCHANGED vars

Next == (\E t \in Threads : Thread(t)) \/ Done

(* The round-robin scheduler runs every runnable thread; a woken sleeper  *)
(* is runnable.  Every caller of cache_acquire releases the block when it  *)
(* is done with it (the cache.h contract), so holding is not for ever.     *)
Fairness == \A t \in Threads : WF_vars(Thread(t)) /\ WF_vars(cache_release(t))

Spec == Init /\ [][Next]_vars /\ Fairness

-----------------------------------------------------------------------------
(* Threads that have returned from cache_acquire, or whose wait_sem has    *)
(* succeeded: they own the block's sleep-lock.                             *)
Owns(t) == pc[t] \in {"read", "move", "hold"}

(* The sleep-lock of each Block object excludes: two threads never own the *)
(* same object, whatever the order of acquire, release and the wakeups.    *)
ObjectExclusion ==
    \A t, u \in Threads : t /= u /\ Owns(t) /\ Owns(u) => obj[t] /= obj[u]

(* What spec.md promises of acquire: on return the caller has exclusive    *)
(* access to the block number -- at most one thread owns a copy of it.     *)
BlockExclusion ==
    \A t, u \in Threads :
        t /= u /\ Owns(t) /\ Owns(u) => no[obj[t]] /= no[obj[u]]

(* The LRU list and the counter describe the allocated blocks: the list    *)
(* holds each allocated block once, except those still being read in, and *)
(* blocknum counts them all.                                               *)
ListConsistent ==
    /\ IsInjective(lru)
    /\ ToSet(lru) = alloc \ {obj[t] : t \in {u \in Threads : pc[u] = "read"}}
    /\ blocknum = Cardinality(alloc)

(* No thread uses a Block object that an eviction has freed: the block a   *)
(* thread waits on, moves to the head or holds is allocated.               *)
NoUseAfterFree ==
    \A t \in Threads : pc[t] \in {"wait", "sleep", "move", "hold"} => obj[t] \in alloc

(* Every cache_acquire returns: a thread waiting on a sleep-lock is        *)
(* eventually woken by the holder's cache_release.                         *)
AcquireCompletes ==
    \A t \in Threads : pc[t] \in {"wait", "sleep", "move", "read"} ~> pc[t] = "hold"
=============================================================================
