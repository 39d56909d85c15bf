-------------------------------- MODULE Log --------------------------------
(***************************************************************************)
(* The write-ahead log of src/fs/cache.c: cache_begin_op, cache_sync,      *)
(* cache_end_op with its group commit, and the replay done by init_bcache  *)
(* after a crash.                                                          *)
(*                                                                         *)
(* Data is abstracted to the identity of the operation that last wrote a   *)
(* block: mem[b] is the content of the cached copy of data block b,        *)
(* disk[b] the content on the device, logDisk[i] the content of log slot   *)
(* i (block log_start + i) and diskHeader the LogHeader block on disk.     *)
(* The cache itself (eviction, sleep-locks) is modelled in BCache; here a  *)
(* cached block is always the latest written value, which holds because a *)
(* block an operation modified is pinned until the commit installs it.     *)
(*                                                                         *)
(* The semaphores of common/sem.c (not part of the repository) are        *)
(* modelled as a credit count plus a set of sleepers: post_sem wakes one   *)
(* sleeper or adds a credit, post_all_sem wakes every sleeper (spec.md     *)
(* 4.1 (f): "wake all") and leaves no credit.                              *)
(***************************************************************************)
EXTENDS Naturals, Sequences, FiniteSets, SequencesExt

CONSTANTS
    Threads,            \* kernel threads running file-system operations
    DataBlocks,         \* block numbers of data blocks the operations write
    LOG_MAX_SIZE,       \* number of log slots (header.block_no capacity)
    OP_MAX_NUM_BLOCKS,  \* blocks one OpContext may add to the log
    MaxOps,             \* bound on the operations started in a behaviour
    MaxCrashes          \* bound on the crashes in a behaviour

ASSUME /\ LOG_MAX_SIZE \in Nat \ {0}
       /\ OP_MAX_NUM_BLOCKS \in 1..LOG_MAX_SIZE
       /\ MaxOps \in Nat /\ MaxCrashes \in Nat

VARIABLES
    pc,          \* where each thread is in begin_op / end_op / commit
    opId,        \* the operation a thread is running (its written value)
    rm,          \* ctx->rm of the thread's OpContext
    wrote,       \* blocks the thread's operation has written so far
    opCount,     \* operations started so far (bounded by MaxOps)
    header,      \* in-memory LogHeader: sequence of block_no
    outstanding, \* log.outstanding
    iscommit,    \* log.iscommit
    ci,          \* loop index of the running commit or replay
    mem,         \* content of the cached copy of each data block
    disk,        \* content of each data block on the device
    logDisk,     \* content of each log slot on the device
    diskHeader,  \* the LogHeader block on the device
    logsem,      \* log.logsem  [cnt, sl]
    check,       \* log.check   [cnt, sl]
    recovering,  \* init_bcache has not finished its replay
    crashes,     \* crashes so far
    panicked,    \* cache_sync reached PANIC()
    durable      \* ghost: the image the last durable commit point defines

vars == <<pc, opId, rm, wrote, opCount, header, outstanding, iscommit, ci, mem,
          disk, logDisk, diskHeader, logsem, check, recovering, crashes,
          panicked, durable>>

Slots == 1..LOG_MAX_SIZE
Values == 0..MaxOps          \* 0 is the content before any operation
NoSem == [cnt |-> 0, sl |-> {}]
PCs == {"idle", "begin", "beginWait", "sleepBegin", "active", "endWait", "sleepEnd",
        "copy", "install", "finish"}

-----------------------------------------------------------------------------
(* The image a reboot restores: init_bcache copies log slot i to block     *)
(* diskHeader[i] for every i, and leaves every other block as it is.       *)
SlotOf(b) == CHOOSE i \in DOMAIN diskHeader : diskHeader[i] = b

Recovered ==
    [b \in DataBlocks |-> IF b \in ToSet(diskHeader) THEN logDisk[SlotOf(b)]
                                                      ELSE disk[b]]

TypeOK ==
    /\ pc \in [Threads -> PCs]
    /\ opId \in [Threads -> Values]
    /\ rm \in [Threads -> 0..OP_MAX_NUM_BLOCKS]
    /\ wrote \in [Threads -> SUBSET DataBlocks]
    /\ opCount \in 0..MaxOps
    /\ header \in BoundedSeq(DataBlocks, LOG_MAX_SIZE)
    /\ diskHeader \in BoundedSeq(DataBlocks, LOG_MAX_SIZE)
    /\ outstanding \in 0..Cardinality(Threads)
    /\ iscommit \in BOOLEAN
    /\ ci \in 1..LOG_MAX_SIZE + 1
    /\ mem \in [DataBlocks -> Values] /\ disk \in [DataBlocks -> Values]
    /\ durable \in [DataBlocks -> Values]
    /\ logDisk \in [Slots -> Values]
    /\ logsem \in [cnt : Nat, sl : SUBSET Threads]
    /\ check \in [cnt : Nat, sl : SUBSET Threads]
    /\ recovering \in BOOLEAN /\ panicked \in BOOLEAN
    /\ crashes \in 0..MaxCrashes

-----------------------------------------------------------------------------
(* init_bcache: the device holds a clean file system and an empty log; the *)
(* replay loop then has nothing to copy.                                   *)
Init ==
    /\ pc = [t \in Threads |-> "idle"]
    /\ opId = [t \in Threads |-> 0]
    /\ rm = [t \in Threads |-> 0]
    /\ wrote = [t \in Threads |-> {}]
    /\ opCount = 0
    /\ header = <<>> /\ diskHeader = <<>>
    /\ outstanding = 0 /\ iscommit = FALSE /\ ci = 1
    /\ mem = [b \in DataBlocks |-> 0] /\ disk = [b \in DataBlocks |-> 0]
    /\ durable = [b \in DataBlocks |-> 0]
    /\ logDisk = [i \in Slots |-> 0]
    /\ logsem = NoSem /\ check = NoSem
    /\ recovering = FALSE /\ crashes = 0 /\ panicked = FALSE

-----------------------------------------------------------------------------
(* Fault: the begin condition forgets the running commit.               *)
BeginBlockedIgnoresCommit ==
    Len(header) + (outstanding + 1) * OP_MAX_NUM_BLOCKS > LOG_MAX_SIZE

(* The condition cache_begin_op waits on: a commit is running, or the      *)
(* caller's reservation of OP_MAX_NUM_BLOCKS slots would overflow the log. *)
BeginBlocked ==
    \/ iscommit
    \/ Len(header) + (outstanding + 1) * OP_MAX_NUM_BLOCKS > LOG_MAX_SIZE

(* Fault: the while of cache_begin_op is an if: a thread woken from        *)
(* wait_sem joins without testing the condition again.                     *)
BeginNoRecheck(t) ==
    /\ ~recovering
    /\ \/ /\ pc[t] = "idle" /\ opCount < MaxOps
          /\ opCount' = opCount + 1
          /\ opId' = [opId EXCEPT ![t] = opCount + 1]
          /\ rm' = [rm EXCEPT ![t] = 0]
          /\ wrote' = [wrote EXCEPT ![t] = {}]
          /\ \/ /\ ~BeginBlocked
                /\ outstanding' = outstanding + 1
                /\ pc' = [pc EXCEPT ![t] = "active"]
             \/ /\ BeginBlocked
                /\ pc' = [pc EXCEPT ![t] = "beginWait"]
                /\ UNCHANGED outstanding
       \/ /\ pc[t] = "begin"
          /\ outstanding' = outstanding + 1
          /\ pc' = [pc EXCEPT ![t] = "active"]
          /\ UNCHANGED <<opCount, opId, rm, wrote>>
    /\ UNCHANGED <<header, iscommit, ci, mem, disk, logDisk, diskHeader,
                   logsem, check, recovering, crashes, panicked, durable>>

(* cache_begin_op(ctx): a fresh operation enters from "idle" (ctx->rm =   *)
(* 0), a thread back from wait_sem re-enters the while loop from "begin".  *)
(* Under log_lock it tests the loop condition: either it joins the         *)
(* operation (++log.outstanding) or it releases the lock to wait.          *)
cache_begin_op(t) ==
    /\ ~recovering
    /\ \/ /\ pc[t] = "idle" /\ opCount < MaxOps
          /\ opCount' = opCount + 1
          /\ opId' = [opId EXCEPT ![t] = opCount + 1]
          /\ rm' = [rm EXCEPT ![t] = 0]
          /\ wrote' = [wrote EXCEPT ![t] = {}]
       \/ /\ pc[t] = "begin"
          /\ UNCHANGED <<opCount, opId, rm, wrote>>
    /\ \/ /\ ~BeginBlocked
          /\ outstanding' = outstanding + 1
          /\ pc' = [pc EXCEPT ![t] = "active"]
       \/ /\ BeginBlocked
          /\ pc' = [pc EXCEPT ![t] = "beginWait"]
          /\ UNCHANGED outstanding
    /\ UNCHANGED <<header, iscommit, ci, mem, disk, logDisk, diskHeader,
                   logsem, check, recovering, crashes, panicked, durable>>

(* Fault: wait_sem returns without taking a credit that is there.         *)
BeginWaitNoCredit(t) ==
    /\ pc[t] = "beginWait"
    /\ logsem' = [logsem EXCEPT !.cnt = @ - 1]
    /\ pc' = [pc EXCEPT ![t] = "begin"]
    /\ UNCHANGED <<opId, rm, wrote, opCount, header, outstanding, iscommit, ci,
                   mem, disk, logDisk, diskHeader, check, recovering, crashes,
                   panicked, durable>>

(* wait_sem(&log.logsem) in the loop of cache_begin_op, after log_lock is  *)
(* released: a credit lets it retry at once, otherwise it sleeps until a   *)
(* post.                                                                   *)
BeginWait(t) ==
    /\ pc[t] = "beginWait"
    /\ \/ /\ logsem.cnt > 0
          /\ logsem' = [logsem EXCEPT !.cnt = @ - 1]
          /\ pc' = [pc EXCEPT ![t] = "begin"]
       \/ /\ logsem.cnt = 0
          /\ logsem' = [logsem EXCEPT !.sl = @ \cup {t}]
          /\ pc' = [pc EXCEPT ![t] = "sleepBegin"]
    /\ UNCHANGED <<opId, rm, wrote, opCount, header, outstanding, iscommit, ci,
                   mem, disk, logDisk, diskHeader, check, recovering, crashes,
                   panicked, durable>>

(* The caller writes block b of its cached copy and calls cache_sync(ctx,  *)
(* b), which pins it.  A block the header already names costs nothing;     *)
(* otherwise it is appended and ctx->rm grows, and a full header or an     *)
(* operation past its OP_MAX_NUM_BLOCKS share is PANIC().  The callers     *)
(* modify at most OP_MAX_NUM_BLOCKS blocks per operation (the contract of  *)
(* OpContext); writing a block twice in one operation changes nothing in   *)
(* this abstraction, so an operation writes each block at most once.       *)
cache_sync(t, b) ==
    /\ pc[t] = "active" /\ b \notin wrote[t]
    /\ Cardinality(wrote[t]) < OP_MAX_NUM_BLOCKS
    /\ wrote' = [wrote EXCEPT ![t] = @ \cup {b}]
    /\ mem' = [mem EXCEPT ![b] = opId[t]]
    /\ \/ /\ b \in ToSet(header)
          /\ UNCHANGED <<header, rm, panicked>>
       \/ /\ b \notin ToSet(header)
          /\ IF rm[t] >= OP_MAX_NUM_BLOCKS \/ Len(header) >= LOG_MAX_SIZE
               THEN /\ panicked' = TRUE
                    /\ UNCHANGED <<header, rm>>
               ELSE /\ header' = Append(header, b)
                    /\ rm' = [rm EXCEPT ![t] = @ + 1]
                    /\ UNCHANGED panicked
    /\ UNCHANGED <<pc, opId, opCount, outstanding, iscommit, ci, disk,
                   logDisk, diskHeader, logsem, check, recovering, crashes,
                   durable>>

(* cache_end_op(ctx), first part: --log.outstanding.  A thread that is not *)
(* the last one posts log.logsem (waking one begin_op sleeper, or leaving  *)
(* a credit) and goes on to wait on log.check; the last one starts the     *)
(* commit with log.iscommit = 1.                                           *)
cache_end_op(t) ==
    /\ pc[t] = "active"
    /\ outstanding' = outstanding - 1
    /\ \/ /\ outstanding > 1 /\ logsem.sl = {}
          /\ logsem' = [logsem EXCEPT !.cnt = @ + 1]
          /\ pc' = [pc EXCEPT ![t] = "endWait"]
          /\ UNCHANGED <<iscommit, ci>>
       \/ /\ outstanding > 1
          /\ \E w \in logsem.sl :
                /\ logsem' = [logsem EXCEPT !.sl = @ \ {w}]
                /\ pc' = [pc EXCEPT ![t] = "endWait", ![w] = "begin"]
          /\ UNCHANGED <<iscommit, ci>>
       \/ /\ outstanding = 1
          /\ iscommit' = TRUE /\ ci' = 1
          /\ pc' = [pc EXCEPT ![t] = "copy"]
          /\ UNCHANGED logsem
    /\ UNCHANGED <<opId, rm, wrote, opCount, header, mem, disk, logDisk, diskHeader,
                   check, recovering, crashes, panicked, durable>>

(* unalertable_wait_sem(&log.check) of a thread that was not the last: it  *)
(* returns at once on a credit, or sleeps until a commit's post_all_sem.   *)
EndWait(t) ==
    /\ pc[t] = "endWait"
    /\ \/ /\ check.cnt > 0
          /\ check' = [check EXCEPT !.cnt = @ - 1]
          /\ pc' = [pc EXCEPT ![t] = "idle"]
       \/ /\ check.cnt = 0
          /\ check' = [check EXCEPT !.sl = @ \cup {t}]
          /\ pc' = [pc EXCEPT ![t] = "sleepEnd"]
    /\ UNCHANGED <<opId, rm, wrote, opCount, header, outstanding, iscommit, ci, mem,
                   disk, logDisk, diskHeader, logsem, recovering, crashes,
                   panicked, durable>>

(* Commit step (a): copyblockdata(header.block_no[i], log_start + i + 1)   *)
(* writes the cached content of the i-th logged block to log slot i.       *)
CommitCopy(t) ==
    /\ pc[t] = "copy" /\ ci <= Len(header)
    /\ logDisk' = [logDisk EXCEPT ![ci] = mem[header[ci]]]
    /\ ci' = ci + 1
    /\ UNCHANGED <<pc, opId, rm, wrote, opCount, header, outstanding, iscommit, mem,
                   disk, diskHeader, logsem, check, recovering, crashes,
                   panicked, durable>>

(* Fault: write_header() is issued before the copy loop has finished.     *)
CommitHeaderBeforeCopy(t) ==
    /\ pc[t] = "copy"
    /\ diskHeader' = header
    /\ durable' = [b \in DataBlocks |->
                      IF b \in ToSet(header) THEN mem[b] ELSE durable[b]]
    /\ ci' = 1
    /\ pc' = [pc EXCEPT ![t] = "install"]
    /\ UNCHANGED <<opId, rm, wrote, opCount, header, outstanding, iscommit,
                   mem, disk, logDisk, logsem, check, recovering, crashes,
                   panicked>>

(* Commit step (b): write_header() persists the header.  This single block *)
(* write is the commit point: from here a reboot restores the new image,   *)
(* which the ghost durable records.                                        *)
CommitHeader(t) ==
    /\ pc[t] = "copy" /\ ci > Len(header)
    /\ diskHeader' = header
    /\ durable' = [b \in DataBlocks |->
                      IF b \in ToSet(header) THEN mem[b] ELSE durable[b]]
    /\ ci' = 1
    /\ pc' = [pc EXCEPT ![t] = "install"]
    /\ UNCHANGED <<opId, rm, wrote, opCount, header, outstanding, iscommit, mem, disk,
                   logDisk, logsem, check, recovering, crashes, panicked>>

(* Commit step (c): cache_acquire the i-th logged block, write it in place *)
(* with cache_sync(NULL, ...), unpin it and release it.                    *)
CommitInstall(t) ==
    /\ pc[t] = "install" /\ ci <= Len(header)
    /\ disk' = [disk EXCEPT ![header[ci]] = mem[header[ci]]]
    /\ ci' = ci + 1
    /\ UNCHANGED <<pc, opId, rm, wrote, opCount, header, outstanding, iscommit, mem,
                   logDisk, diskHeader, logsem, check, recovering, crashes,
                   panicked, durable>>

(* Commit step (d): header.num_blocks = 0 and write_header().  The cleared *)
(* in-memory header is observable by nobody before the write (iscommit     *)
(* keeps begin_op out), so the two are one step.                           *)
CommitClear(t) ==
    /\ pc[t] = "install" /\ ci > Len(header)
    /\ header' = <<>> /\ diskHeader' = <<>>
    /\ pc' = [pc EXCEPT ![t] = "finish"]
    /\ UNCHANGED <<opId, rm, wrote, opCount, outstanding, iscommit, ci, mem, disk,
                   logDisk, logsem, check, recovering, crashes, panicked,
                   durable>>

(* Commit step (f): log.iscommit = 0, post_all_sem on log.logsem and on    *)
(* log.check; the committing thread returns from cache_end_op.             *)
CommitFinish(t) ==
    /\ pc[t] = "finish"
    /\ iscommit' = FALSE
    /\ pc' = [u \in Threads |->
                 CASE u = t \/ u \in check.sl -> "idle"
                   [] u \in logsem.sl         -> "begin"
                   [] OTHER                   -> pc[u]]
    /\ logsem' = [logsem EXCEPT !.sl = {}]
    /\ check' = [check EXCEPT !.sl = {}]
    /\ UNCHANGED <<opId, rm, wrote, opCount, header, outstanding, ci, mem, disk,
                   logDisk, diskHeader, recovering, crashes, panicked,
                   durable>>

-----------------------------------------------------------------------------
(* A crash loses everything in memory: every thread, the cache, the log's  *)
(* counters and semaphores.  The device keeps its blocks.  The reboot runs *)
(* init_bcache, which resets the log and loads the header with             *)
(* read_header().                                                          *)
Crash ==
    /\ crashes < MaxCrashes
    /\ crashes' = crashes + 1
    /\ recovering' = TRUE
    /\ pc' = [t \in Threads |-> "idle"]
    /\ rm' = [t \in Threads |-> 0]
    /\ wrote' = [t \in Threads |-> {}]
    /\ header' = diskHeader
    /\ outstanding' = 0 /\ iscommit' = FALSE /\ ci' = 1
    /\ mem' = disk
    /\ logsem' = NoSem /\ check' = NoSem
    /\ UNCHANGED <<opId, opCount, disk, logDisk, diskHeader, panicked,
                   durable>>

(* init_bcache, the replay loop: copyblockdata(log_start + i + 1,          *)
(* header.block_no[i]) writes log slot i through the cache to its block.   *)
Replay ==
    /\ recovering /\ ci <= Len(header)
    /\ disk' = [disk EXCEPT ![header[ci]] = logDisk[ci]]
    /\ mem' = [mem EXCEPT ![header[ci]] = logDisk[ci]]
    /\ ci' = ci + 1
    /\ UNCHANGED <<pc, opId, rm, wrote, opCount, header, outstanding, iscommit,
                   logDisk, diskHeader, logsem, check, recovering, crashes,
                   panicked, durable>>

(* init_bcache, the end: header.num_blocks = 0 and write_header().         *)
ReplayDone ==
    /\ recovering /\ ci > Len(header)
    /\ header' = <<>> /\ diskHeader' = <<>>
    /\ recovering' = FALSE
    /\ ci' = 1
    /\ UNCHANGED <<pc, opId, rm, wrote, opCount, outstanding, iscommit, mem,
                   disk, logDisk, logsem, check, crashes, panicked, durable>>

(* Every operation of the bounded run has finished: the system is idle.    *)
Quiescent ==
    /\ opCount = MaxOps /\ ~recovering
    /\ \A t \in Threads : pc[t] = "idle"
    /\ UNCHANGED vars

Thread(t) ==
    \/ cache_begin_op(t)
    \/ BeginWait(t)
    \/ \E b \in DataBlocks : cache_sync(t, b)
    \/ cache_end_op(t)
    \/ EndWait(t)
    \/ CommitCopy(t) \/ CommitHeader(t) \/ CommitInstall(t)
    \/ CommitClear(t) \/ CommitFinish(t)

Next ==
    \/ \E t \in Threads : Thread(t)
    \/ Crash \/ Replay \/ ReplayDone
    \/ Quiescent

(* The kernel's round-robin scheduler runs every runnable thread, and the  *)
(* boot code always runs init_bcache to its end.  Crashes are not fair.    *)
Fairness ==
    /\ \A t \in Threads : WF_vars(Thread(t))
    /\ WF_vars(Replay \/ ReplayDone)

Spec == Init /\ [][Next]_vars /\ Fairness

-----------------------------------------------------------------------------
(* Crash atomicity (cache.c commit and init_bcache replay): at every       *)
(* moment, what a reboot would restore is exactly the image defined by the *)
(* last commit whose header reached the disk -- never a mix of a commit's  *)
(* blocks with older contents, whatever the point the crash hits.          *)
CrashAtomicity == Recovered = durable

(* The reservation made by cache_begin_op is enough: no cache_sync ever    *)
(* finds the header full and reaches its PANIC().                          *)
NoSyncPanic == ~panicked

(* No operation spans a commit boundary (spec.md 4.1 invariant (iii)):    *)
(* while a commit runs no thread is inside an operation, so the PANIC of   *)
(* cache_end_op on log.iscommit is never reached and cache_sync never      *)
(* adds to a header that is being copied or installed.                     *)
OpWithinCommit == \A t \in Threads : pc[t] = "active" => ~iscommit

(* Every file-system operation that begins eventually returns from         *)
(* cache_end_op (or is cut off by a crash): no thread waits for ever on    *)
(* log.check.                                                              *)
OpsComplete == \A t \in Threads : (pc[t] /= "idle") ~> (pc[t] = "idle")
====
