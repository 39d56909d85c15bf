-------------------------------- MODULE Pipe --------------------------------
(***************************************************************************)
(* The pipe object of src/fs/pipe.c: pipe_write, pipe_read and pipe_close  *)
(* on a pipe fresh from init_pipe, called by one writer thread and one     *)
(* reader thread (as file_write and file_read call them on the two ends).  *)
(*                                                                         *)
(* A byte is abstracted to its ordinal: the k-th byte the writer puts in   *)
(* the pipe has the value k, and 0 is the content init_pipe's memset       *)
(* leaves.                                                                 *)
(* The spinlock pi->lock is an owner (or NoThread); release_spinlock       *)
(* frees it whoever holds it.  The semaphores are a credit count plus a    *)
(* set of sleepers, as in Log.  After unalertable_wait_sem both loops go   *)
(* on without taking pi->lock again, exactly as the code does.             *)
(***************************************************************************)
EXTENDS Naturals, Sequences, FiniteSets

CONSTANTS
    PIPE_SIZE,   \* bytes in the ring buffer
    Writer,      \* the thread writing to the pipe
    Reader,      \* the thread reading from it
    NoThread,    \* owner of pi->lock when it is free
    WriteLens,   \* the n of a pipe_write call
    ReadLens,    \* the n of a pipe_read call
    MaxBytes,    \* bound on the bytes the writer asks to write
    MaxReads     \* bound on the pipe_read calls of the reader

ASSUME PIPE_SIZE \in Nat \ {0} /\ MaxBytes \in Nat /\ MaxReads \in Nat
ASSUME WriteLens \subseteq Nat \ {0} /\ ReadLens \subseteq Nat \ {0}

Threads == {Writer, Reader}
Idx == 0..PIPE_SIZE - 1

VARIABLES
    data, nread, nwrite, readopen, writeopen,   \* the Pipe struct
    rlock, wlock,  \* pi->rlock, pi->wlock: [cnt, sl]
    spin,          \* holder of pi->lock
    pc,            \* where each thread is
    i, n,          \* the loop index and the n argument of the running call
    asked,         \* bytes the writer has asked to write so far
    reads,         \* pipe_read calls so far
    killed,        \* thisproc()->killed of each thread
    freed          \* pipe_close has kfree'd the pipe

vars == <<data, nread, nwrite, readopen, writeopen, rlock, wlock, spin, pc, i, n,
          asked, reads, killed, freed>>

PCs == {"idle", "wloop", "wwait", "wsleep", "rloop", "rwait", "rsleep", "rcopy",
        "closed"}

TypeOK ==
    /\ data \in [Idx -> 0..MaxBytes]
    /\ nread \in Nat /\ nwrite \in Nat
    /\ readopen \in BOOLEAN /\ writeopen \in BOOLEAN
    /\ rlock \in [cnt : Nat, sl : SUBSET Threads]
    /\ wlock \in [cnt : Nat, sl : SUBSET Threads]
    /\ spin \in Threads \cup {NoThread}
    /\ pc \in [Threads -> PCs]
    /\ i \in [Threads -> Nat] /\ n \in [Threads -> Nat]
    /\ asked \in 0..MaxBytes /\ reads \in 0..MaxReads
    /\ killed \in [Threads -> BOOLEAN] /\ freed \in BOOLEAN

(* init_pipe: empty buffer, both ends open, both semaphores at 0. *)
Init ==
    /\ data = [k \in Idx |-> 0]
    /\ nread = 0 /\ nwrite = 0
    /\ readopen = TRUE /\ writeopen = TRUE
    /\ rlock = [cnt |-> 0, sl |-> {}] /\ wlock = [cnt |-> 0, sl |-> {}]
    /\ spin = NoThread
    /\ pc = [t \in Threads |-> "idle"]
    /\ i = [t \in Threads |-> 0] /\ n = [t \in Threads |-> 0]
    /\ asked = 0 /\ reads = 0
    /\ killed = [t \in Threads |-> FALSE] /\ freed = FALSE

(* post_sem: wake one sleeper, who goes back to the loop at `back`, or     *)
(* leave a credit.  Yields the new semaphore and the new pc.               *)
Post(s, back) ==
    IF s.sl = {} THEN [sem |-> [s EXCEPT !.cnt = @ + 1], pc |-> pc]
    ELSE LET w == CHOOSE x \in s.sl : TRUE
         IN [sem |-> [s EXCEPT !.sl = @ \ {w}], pc |-> [pc EXCEPT ![w] = back]]

Release == spin' = NoThread

(* pipe_write(pi, addr, k), entry: acquire_spinlock(&pi->lock).            *)
PipeWriteCall(k) ==
    /\ pc[Writer] = "idle" /\ asked + k <= MaxBytes /\ spin = NoThread
    /\ spin' = Writer
    /\ pc' = [pc EXCEPT ![Writer] = "wloop"]
    /\ i' = [i EXCEPT ![Writer] = 0] /\ n' = [n EXCEPT ![Writer] = k]
    /\ asked' = asked + k
    /\ UNCHANGED <<data, nread, nwrite, readopen, writeopen, rlock, wlock, reads, killed,
                   freed>>

(* Fault: the full test of pipe_write is one past the ring's size.      *)
PipeWriteStepOffByOne ==
    /\ pc[Writer] = "wloop"
    /\ LET full == nwrite = nread + PIPE_SIZE + 1
           p == Post(rlock, "rloop")
       IN \/ /\ i[Writer] = n[Writer]
             /\ rlock' = p.sem /\ pc' = [p.pc EXCEPT ![Writer] = "idle"]
             /\ Release
             /\ UNCHANGED <<data, nwrite, i>>
          \/ /\ i[Writer] < n[Writer] /\ full
             /\ ~readopen \/ killed[Writer]
             /\ Release /\ pc' = [pc EXCEPT ![Writer] = "idle"]
             /\ UNCHANGED <<data, nwrite, i, rlock>>
          \/ /\ i[Writer] < n[Writer] /\ full
             /\ readopen /\ ~killed[Writer]
             /\ rlock' = p.sem /\ pc' = [p.pc EXCEPT ![Writer] = "wwait"]
             /\ Release
             /\ UNCHANGED <<data, nwrite, i>>
          \/ /\ i[Writer] < n[Writer] /\ ~full
             /\ data' = [data EXCEPT ![nwrite % PIPE_SIZE] = nwrite + 1]
             /\ nwrite' = nwrite + 1
             /\ i' = [i EXCEPT ![Writer] = @ + 1]
             /\ UNCHANGED <<rlock, pc, spin>>
    /\ UNCHANGED <<nread, readopen, writeopen, wlock, n, asked, reads, killed, freed>>

(* One turn of the loops of pipe_write: with all n bytes in, post_sem      *)
(* (&pi->rlock), release and return n; on a full buffer return -1 if the   *)
(* reader is gone or the writer killed, else post rlock, release and wait; *)
(* otherwise store the next byte at data[nwrite++ % PIPE_SIZE].            *)
PipeWriteStep ==
    /\ pc[Writer] = "wloop"
    /\ LET full == nwrite = nread + PIPE_SIZE
           p == Post(rlock, "rloop")
       IN \/ /\ i[Writer] = n[Writer]
             /\ rlock' = p.sem /\ pc' = [p.pc EXCEPT ![Writer] = "idle"]
             /\ Release
             /\ UNCHANGED <<data, nwrite, i>>
          \/ /\ i[Writer] < n[Writer] /\ full
             /\ ~readopen \/ killed[Writer]
             /\ Release /\ pc' = [pc EXCEPT ![Writer] = "idle"]
             /\ UNCHANGED <<data, nwrite, i, rlock>>
          \/ /\ i[Writer] < n[Writer] /\ full
             /\ readopen /\ ~killed[Writer]
             /\ rlock' = p.sem /\ pc' = [p.pc EXCEPT ![Writer] = "wwait"]
             /\ Release
             /\ UNCHANGED <<data, nwrite, i>>
          \/ /\ i[Writer] < n[Writer] /\ ~full
             /\ data' = [data EXCEPT ![nwrite % PIPE_SIZE] = nwrite + 1]
             /\ nwrite' = nwrite + 1
             /\ i' = [i EXCEPT ![Writer] = @ + 1]
             /\ UNCHANGED <<rlock, pc, spin>>
    /\ UNCHANGED <<nread, readopen, writeopen, wlock, n, asked, reads, killed, freed>>

(* Fault: the writer's wait returns without a credit being there.         *)
PipeWriteWaitNoCredit ==
    /\ pc[Writer] = "wwait"
    /\ wlock' = [wlock EXCEPT !.cnt = @ - 1]
    /\ pc' = [pc EXCEPT ![Writer] = "wloop"]
    /\ UNCHANGED <<data, nread, nwrite, readopen, writeopen, rlock, spin, i, n,
                   asked, reads, killed, freed>>

(* unalertable_wait_sem(&pi->wlock): a credit sends the writer back to the *)
(* while test at once (pi->lock is not taken again), else it sleeps.       *)
PipeWriteWait ==
    /\ pc[Writer] = "wwait"
    /\ \/ /\ wlock.cnt > 0
          /\ wlock' = [wlock EXCEPT !.cnt = @ - 1]
          /\ pc' = [pc EXCEPT ![Writer] = "wloop"]
       \/ /\ wlock.cnt = 0
          /\ wlock' = [wlock EXCEPT !.sl = @ \cup {Writer}]
          /\ pc' = [pc EXCEPT ![Writer] = "wsleep"]
    /\ UNCHANGED <<data, nread, nwrite, readopen, writeopen, rlock, spin, i, n,
                   asked, reads, killed, freed>>

(* pipe_read(pi, addr, k), entry: acquire_spinlock(&pi->lock).             *)
PipeReadCall(k) ==
    /\ pc[Reader] = "idle" /\ reads < MaxReads /\ spin = NoThread
    /\ reads' = reads + 1
    /\ spin' = Reader
    /\ pc' = [pc EXCEPT ![Reader] = "rloop"]
    /\ n' = [n EXCEPT ![Reader] = k]
    /\ UNCHANGED <<data, nread, nwrite, readopen, writeopen, rlock, wlock, i,
                   asked, killed, freed>>

(* The while of pipe_read: on an empty pipe with the writer open, return   *)
(* -1 if killed, else release pi->lock and wait; otherwise go copy.        *)
PipeReadLoop ==
    /\ pc[Reader] = "rloop"
    /\ \/ /\ nread = nwrite /\ writeopen /\ killed[Reader]
          /\ Release /\ pc' = [pc EXCEPT ![Reader] = "idle"]
          /\ UNCHANGED i
       \/ /\ nread = nwrite /\ writeopen /\ ~killed[Reader]
          /\ Release /\ pc' = [pc EXCEPT ![Reader] = "rwait"]
          /\ UNCHANGED i
       \/ /\ ~(nread = nwrite /\ writeopen)
          /\ pc' = [pc EXCEPT ![Reader] = "rcopy"]
          /\ i' = [i EXCEPT ![Reader] = 0]
          /\ UNCHANGED spin
    /\ UNCHANGED <<data, nread, nwrite, readopen, writeopen, rlock, wlock, n,
                   asked, reads, killed, freed>>

(* unalertable_wait_sem(&pi->rlock), back to the while test without        *)
(* pi->lock, or sleep.                                                     *)
PipeReadWait ==
    /\ pc[Reader] = "rwait"
    /\ \/ /\ rlock.cnt > 0
          /\ rlock' = [rlock EXCEPT !.cnt = @ - 1]
          /\ pc' = [pc EXCEPT ![Reader] = "rloop"]
       \/ /\ rlock.cnt = 0
          /\ rlock' = [rlock EXCEPT !.sl = @ \cup {Reader}]
          /\ pc' = [pc EXCEPT ![Reader] = "rsleep"]
    /\ UNCHANGED <<data, nread, nwrite, readopen, writeopen, wlock, spin, i, n,
                   asked, reads, killed, freed>>

(* Fault: pipe_read returns without post_sem(&pi->wlock).                *)
PipeReadCopyNoPost ==
    /\ pc[Reader] = "rcopy"
    /\ \/ /\ i[Reader] < n[Reader] /\ nread /= nwrite
          /\ nread' = nread + 1
          /\ i' = [i EXCEPT ![Reader] = @ + 1]
          /\ UNCHANGED <<pc, spin>>
       \/ /\ i[Reader] = n[Reader] \/ nread = nwrite
          /\ pc' = [pc EXCEPT ![Reader] = "idle"]
          /\ Release
          /\ UNCHANGED <<nread, i>>
    /\ UNCHANGED <<data, nwrite, readopen, writeopen, rlock, wlock, n, asked, reads,
                   killed, freed>>

(* The copy loop of pipe_read: while i < n and the pipe is not empty, copy *)
(* data[++pi->nread % PIPE_SIZE]; then post_sem(&pi->wlock), release and  *)
(* return i.                                                               *)
PipeReadCopy ==
    /\ pc[Reader] = "rcopy"
    /\ \/ /\ i[Reader] < n[Reader] /\ nread /= nwrite
          /\ nread' = nread + 1
          /\ i' = [i EXCEPT ![Reader] = @ + 1]
          /\ UNCHANGED <<wlock, pc, spin>>
       \/ /\ i[Reader] = n[Reader] \/ nread = nwrite
          /\ LET p == Post(wlock, "wloop")
             IN wlock' = p.sem /\ pc' = [p.pc EXCEPT ![Reader] = "idle"]
          /\ Release
          /\ UNCHANGED <<nread, i>>
    /\ UNCHANGED <<data, nwrite, readopen, writeopen, rlock, n, asked, reads, killed, freed>>

(* Fault: closing the write end does not post_sem(&pi->rlock).          *)
PipeCloseNoPost(t, writable) ==
    /\ pc[t] = "idle" /\ spin = NoThread
    /\ pc' = [pc EXCEPT ![t] = "closed"]
    /\ IF writable
         THEN writeopen' = FALSE /\ freed' = ~readopen /\ UNCHANGED readopen
         ELSE readopen' = FALSE /\ freed' = ~writeopen /\ UNCHANGED writeopen
    /\ UNCHANGED <<data, nread, nwrite, rlock, wlock, spin, i, n, asked, reads,
                   killed>>

(* pipe_close(pi, writable), called by file_close on the thread's end:     *)
(* under pi->lock, mark the end closed and post the other side's           *)
(* semaphore; kfree the pipe once both ends are closed.                    *)
pipe_close(t, writable) ==
    /\ pc[t] = "idle" /\ spin = NoThread
    /\ IF writable
         THEN LET p == Post(rlock, "rloop") IN
              /\ writeopen' = FALSE /\ rlock' = p.sem
              /\ pc' = [p.pc EXCEPT ![t] = "closed"]
              /\ freed' = ~readopen
              /\ UNCHANGED <<readopen, wlock>>
         ELSE LET p == Post(wlock, "wloop") IN
              /\ readopen' = FALSE /\ wlock' = p.sem
              /\ pc' = [p.pc EXCEPT ![t] = "closed"]
              /\ freed' = ~writeopen
              /\ UNCHANGED <<writeopen, rlock>>
    /\ UNCHANGED <<data, nread, nwrite, spin, i, n, asked, reads, killed>>

(* kill(pid) of the thread's process sets its killed flag. *)
Kill(t) ==
    /\ ~killed[t]
    /\ killed' = [killed EXCEPT ![t] = TRUE]
    /\ UNCHANGED <<data, nread, nwrite, readopen, writeopen, rlock, wlock, spin,
                   pc, i, n, asked, reads, freed>>

(* The writer writes until its bound, the reader reads; either closes its  *)
(* end when it is done (file_close on the last reference).                 *)
WriterStep ==
    \/ \E k \in WriteLens : PipeWriteCall(k)
    \/ PipeWriteStep \/ PipeWriteWait
    \/ pipe_close(Writer, TRUE)

ReaderStep ==
    \/ \E k \in ReadLens : PipeReadCall(k)
    \/ PipeReadLoop \/ PipeReadWait \/ PipeReadCopy
    \/ pipe_close(Reader, FALSE)

(* Both ends are closed: nothing is left to do. *)
Finished ==
    /\ pc[Writer] = "closed" /\ pc[Reader] = "closed"
    /\ UNCHANGED vars

Next == WriterStep \/ ReaderStep \/ (\E t \in Threads : Kill(t)) \/ Finished

(* Both threads are scheduled round-robin; kill is not bound to happen.    *)
Fairness == WF_vars(WriterStep) /\ WF_vars(ReaderStep)

Spec == Init /\ [][Next]_vars /\ Fairness

-----------------------------------------------------------------------------
Writing == pc[Writer] \in {"wloop", "wwait", "wsleep"}
Reading == pc[Reader] \in {"rloop", "rwait", "rsleep", "rcopy"}

(* The ring buffer never holds more than PIPE_SIZE bytes nor fewer than    *)
(* none (spec.md, Pipe: 0 <= nwrite - nread <= PIPE_SIZE), whatever the    *)
(* interleaving of the two loops that run without pi->lock after a wait.  *)
BufferBound == nread <= nwrite /\ nwrite <= nread + PIPE_SIZE

(* Every pipe_read returns: a reader waiting on an empty pipe is woken by  *)
(* a write or by the close of the write end (EOF).                         *)
ReadReturns == Reading ~> pc[Reader] = "idle"

(* Every pipe_write returns: a writer waiting on a full pipe is woken by   *)
(* a read or by the close of the read end.                                 *)
WriteReturns == Writing ~> pc[Writer] = "idle"
=============================================================================
