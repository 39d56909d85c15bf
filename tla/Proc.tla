-------------------------------- MODULE Proc --------------------------------
(***************************************************************************)
(* Processes and the scheduler: src/kernel/proc.c (get_pid, fork, exit,    *)
(* wait, search, kill) and src/kernel/sched.c (_activate_proc,             *)
(* update_this_state, pick_next, sched, the timer handler), composed with  *)
(* the per-process open-file tables and the reference counts of the       *)
(* global file pool (src/fs/file.c, the fd calls of src/kernel/sysfile.c)  *)
(* that fork duplicates and exit closes.                                   *)
(*                                                                         *)
(* One CPU runs `cur`.  A step of a process is a region the code runs      *)
(* under plock, the scheduler lock or ftable.lock, so the timer can        *)
(* preempt it only between steps; with every region atomic, one CPU gives  *)
(* the same interleavings of those regions as several.  root_proc runs     *)
(* kernel_entry's loop: it only yields, so it is always on the run queue   *)
(* and the CPU's idle proc is never picked.  A Proc struct is a slot of    *)
(* Users; kfree and kalloc free and reuse slots.                           *)
(*                                                                         *)
(* The semaphore childexit is [cnt, sl] as in the other modules, plus the  *)
(* `up` flag of the sleeper's WaitData: post_sem wakes a sleeper, sets up  *)
(* and activates it; a sleeper that runs again without up was alerted, and *)
(* wait_sem returns false.                                                 *)
(***************************************************************************)
EXTENDS Integers, Sequences, FiniteSets, SequencesExt

CONSTANTS
    Root,        \* root_proc, running kernel_entry
    Users,       \* slots for user Proc structs
    InitProc,    \* the first user process, started by kernel_entry
    NoProc,      \* NULL
    NFILE,       \* entries of ftable.filelist
    NOFILE,      \* entries of a process's oftable
    KillPids,    \* pids a kill call may name
    MaxForks,    \* bound on fork calls
    MaxFdOps,    \* bound on open and dup calls
    MaxKills     \* bound on kill calls

ASSUME InitProc \in Users /\ Root \notin Users /\ NoProc \notin Users \cup {Root}
ASSUME NFILE \in Nat \ {0} /\ NOFILE \in Nat \ {0}
ASSUME KillPids \subseteq Nat \ {1}   \* pid 1 is root_proc's

Procs == {Root} \cup Users
Files == 1..NFILE
NoFile == 0
FDs == 0..NOFILE - 1
States == {"UNUSED", "RUNNABLE", "RUNNING", "SLEEPING", "DEEPSLEEPING", "ZOMBIE"}
FileTypes == {"none", "pipe", "inode"}   \* FD_NONE, FD_PIPE, FD_INODE
\* a pipe2 call that kallocs a Pipe takes one of the MaxFdOps calls
PipeIds == 1..MaxFdOps
NoPipe == 0
NoPipeObj == [readopen |-> 0, writeopen |-> 0, st |-> "unused"]
PCs == {"user", "wsleep", "wscan", "kill2", "exiting", "dead"}
NoSem == [cnt |-> 0, sl |-> {}]

VARIABLES
    state,      \* p->state
    rq,         \* the run queue, head first
    cur,        \* the process the CPU runs (cpus[0].sched.this)
    alloc,      \* the user Proc structs that are kalloc'd
    parent,     \* p->parent; children lists are the inverse of it
    pid,        \* p->pid
    nextpid,    \* the static counter pid
    freepid,    \* the freepid list, first element first
    killed,     \* p->killed
    childexit,  \* p->childexit: [cnt, sl]
    up,         \* the up flag of a process's WaitData
    pc,         \* where each process is in its system call
    target,     \* the Proc kill found in search, used after plock is released
    ofile,      \* p->oftable.openfile, NoFile for NULL
    ref,        \* ftable.filelist[f].ref
    ftype,      \* ftable.filelist[f].type
    fpipe,      \* ftable.filelist[f].pipe, NoPipe for NULL
    pipe,       \* the Pipe objects pipe_alloc kalloc'd, by allocation
    forks, fdops, kills   \* calls made, against the bounds

fvars == <<ftype, fpipe, pipe>>
vars == <<state, rq, cur, alloc, parent, pid, nextpid, freepid, killed, childexit,
          up, pc, target, ofile, ref, fvars, forks, fdops, kills>>

TypeOK ==
    /\ state \in [Procs -> States]
    /\ rq \in Seq(Procs) /\ cur \in Procs
    /\ alloc \subseteq Users
    /\ parent \in [Procs -> Procs \cup {NoProc}]
    /\ pid \in [Procs -> Nat] /\ nextpid \in Nat /\ freepid \in Seq(Nat)
    /\ killed \in [Procs -> BOOLEAN]
    /\ childexit \in [Procs -> [cnt : Nat, sl : SUBSET Procs]]
    /\ up \in [Procs -> BOOLEAN]
    /\ pc \in [Procs -> PCs]
    /\ target \in [Procs -> Procs \cup {NoProc}]
    /\ ofile \in [Procs -> [FDs -> Files \cup {NoFile}]]
    /\ ref \in [Files -> Nat]
    /\ ftype \in [Files -> FileTypes] /\ fpipe \in [Files -> PipeIds \cup {NoPipe}]
    /\ pipe \in [PipeIds -> [readopen : {0, 1}, writeopen : {0, 1},
                             st : {"unused", "live", "freed"}]]
    /\ forks \in 0..MaxForks /\ fdops \in 0..MaxFdOps /\ kills \in 0..MaxKills

Children(p) == {q \in alloc : parent[q] = p}
Zombies(p) == {q \in Children(p) : state[q] = "ZOMBIE"}
OpenFds(p) == {fd \in FDs : ofile[p][fd] # NoFile}
FreeFds(p) == FDs \ OpenFds(p)
\* the processes search can reach from root_proc: linked into a children list
InTree == {Root} \cup {q \in alloc : parent[q] # NoProc}

(* The state after init_kproc and kernel_entry: root_proc (pid 1) runs     *)
(* its loop; the init process (pid 2) was made by create_proc, linked     *)
(* under root by set_parent_to_this and put at the front of the queue by  *)
(* start_proc's activate_proc.                                            *)
Init ==
    /\ state = [p \in Procs |-> CASE p = Root -> "RUNNING"
                                  [] p = InitProc -> "RUNNABLE"
                                  [] OTHER -> "UNUSED"]
    /\ rq = <<InitProc, Root>>
    /\ cur = Root
    /\ alloc = {InitProc}
    /\ parent = [p \in Procs |-> IF p \in {Root, InitProc} THEN Root ELSE NoProc]
    /\ pid = [p \in Procs |-> CASE p = Root -> 1 [] p = InitProc -> 2 [] OTHER -> 0]
    /\ nextpid = 2 /\ freepid = <<>>
    /\ killed = [p \in Procs |-> FALSE]
    /\ childexit = [p \in Procs |-> NoSem]
    /\ up = [p \in Procs |-> FALSE]
    /\ pc = [p \in Procs |-> IF p = InitProc THEN "user" ELSE "dead"]
    /\ target = [p \in Procs |-> NoProc]
    /\ ofile = [p \in Procs |-> [fd \in FDs |-> NoFile]]
    /\ ref = [f \in Files |-> 0]
    /\ ftype = [f \in Files |-> "none"] /\ fpipe = [f \in Files |-> NoPipe]
    /\ pipe = [i \in PipeIds |-> NoPipeObj]
    /\ forks = 0 /\ fdops = 0 /\ kills = 0

(* _activate_proc(p, onalert) on the state function st and queue q: a     *)
(* SLEEPING or UNUSED process, or a DEEPSLEEPING one when not on alert,   *)
(* becomes RUNNABLE and is inserted right after the queue head.           *)
Activate(st, q, p, onalert) ==
    IF st[p] \in {"SLEEPING", "UNUSED"} \/ (st[p] = "DEEPSLEEPING" /\ ~onalert)
    THEN [st |-> [st EXCEPT ![p] = "RUNNABLE"], rq |-> <<p>> \o q]
    ELSE [st |-> st, rq |-> q]

(* Mutant: the process sched puts back goes to the queue head instead of *)
(* after rq.prev, so pick_next finds it again first.                     *)
UpdateThisStateAtHead(st, q, ns) ==
    LET q1 == IF st[cur] \in {"RUNNING", "RUNNABLE"} THEN Remove(q, cur) ELSE q
    IN [st |-> [st EXCEPT ![cur] = ns],
        rq |-> IF ns \in {"RUNNING", "RUNNABLE"} THEN <<cur>> \o q1 ELSE q1]

(* Mutant: the process is put back on the queue whatever its new state.  *)
UpdateThisStateKeepsSleeper(st, q, ns) ==
    LET q1 == IF st[cur] \in {"RUNNING", "RUNNABLE"} THEN Remove(q, cur) ELSE q
    IN [st |-> [st EXCEPT ![cur] = ns], rq |-> Append(q1, cur)]

(* update_this_state: detach cur if it was on the queue, set its new      *)
(* state, and put it back at the tail if it stays RUNNING or RUNNABLE.    *)
UpdateThisState(st, q, ns) ==
    LET q1 == IF st[cur] \in {"RUNNING", "RUNNABLE"} THEN Remove(q, cur) ELSE q
    IN [st |-> [st EXCEPT ![cur] = ns],
        rq |-> IF ns \in {"RUNNING", "RUNNABLE"} THEN Append(q1, cur) ELSE q1]

(* pick_next: the first RUNNABLE process from the head, moved to the      *)
(* tail.  root_proc never sleeps, so one is always found.                 *)
PickNext(st, q) == q[SelectInSeq(q, LAMBDA x : st[x] = "RUNNABLE")]

(* sched(ns) from state st and queue q: yields the new state function,    *)
(* queue and running process.                                             *)
Sched(st, q, ns) ==
    LET u == UpdateThisState(st, q, ns)
        nx == PickNext(u.st, u.rq)
    IN [st |-> [u.st EXCEPT ![nx] = "RUNNING"],
        rq |-> Append(Remove(u.rq, nx), nx),
        cur |-> nx]

(* Mutant: post_sem only adds a credit, never waking the sleeper.       *)
PostChildexitNoWake(par, st, q) ==
    [ce |-> [childexit EXCEPT ![par].cnt = @ + 1], up |-> up, st |-> st, rq |-> q]

(* post_sem(&par->childexit): the one process that can sleep on it is par *)
(* itself; wake it (up, activate_proc) or leave a credit.                 *)
PostChildexit(par, st, q) ==
    IF childexit[par].sl = {}
    THEN [ce |-> [childexit EXCEPT ![par].cnt = @ + 1], up |-> up, st |-> st, rq |-> q]
    ELSE LET a == Activate(st, q, par, FALSE)
         IN [ce |-> [childexit EXCEPT ![par].sl = {}],
             up |-> [up EXCEPT ![par] = TRUE], st |-> a.st, rq |-> a.rq]

(* Mutant: get_pid reads the head of freepid without list_erase.        *)
GetPidNoErase(c) ==
    IF freepid # <<>>
    THEN /\ pid' = [pid EXCEPT ![c] = Head(freepid)]
         /\ UNCHANGED <<freepid, nextpid>>
    ELSE /\ pid' = [pid EXCEPT ![c] = nextpid + 1]
         /\ nextpid' = nextpid + 1 /\ UNCHANGED freepid

(* get_pid for the new Proc c: the first pid of freepid, erased from the *)
(* list, or else ++pid.                                                 *)
GetPid(c) ==
    IF freepid # <<>>
    THEN /\ pid' = [pid EXCEPT ![c] = Head(freepid)]
         /\ freepid' = Tail(freepid) /\ UNCHANGED nextpid
    ELSE /\ pid' = [pid EXCEPT ![c] = nextpid + 1]
         /\ nextpid' = nextpid + 1 /\ UNCHANGED freepid

(* list_insert(&freepid, l): the recycled pid goes right after the head. *)
ListInsert(x) == <<x>> \o freepid

(* file_alloc: the first entry of the file table with ref 0.            *)
FileAlloc == IF \E f \in Files : ref[f] = 0
             THEN Min({f \in Files : ref[f] = 0}) ELSE NoFile

(* fdalloc: the lowest free slot of p's open-file table, or -1.         *)
FdAlloc(p) == IF FreeFds(p) # {} THEN Min(FreeFds(p)) ELSE -1

(* file_dup: one more reference under ftable.lock.                      *)
FileDup(f) == ref' = [ref EXCEPT ![f] = @ + 1]

(* The file table as one value, for calls that close several files.      *)
FT == [ref |-> ref, ftype |-> ftype, fpipe |-> fpipe, pipe |-> pipe]

SetFT(t) == ref' = t.ref /\ ftype' = t.ftype /\ fpipe' = t.fpipe /\ pipe' = t.pipe

(* pipe_close(pi, writable) under pi->lock: clear the flag of the end     *)
(* being closed (posting the other end's semaphore, which wakes no one    *)
(* here), and kfree the pipe once both flags are 0.                       *)
PipeClosed(ps, pi, writable) ==
    LET o == IF writable THEN [ps[pi] EXCEPT !.writeopen = 0]
                         ELSE [ps[pi] EXCEPT !.readopen = 0]
    IN [ps EXCEPT ![pi] = IF o.readopen = 0 /\ o.writeopen = 0
                          THEN [o EXCEPT !.st = "freed"] ELSE o]

(* file_close(f) on table t: drop one reference under ftable.lock; the    *)
(* last one copies the entry, sets its type to FD_NONE and, for a pipe,   *)
(* calls pipe_close(tmp.pipe, tmp.writable).  The inode branch's put is   *)
(* the Inode module's; here it leaves the table alone.  Every pipe file   *)
(* was made by init_read_pipe, so tmp.writable is false.                  *)
FileClosed(t, f) ==
    IF t.ref[f] > 1 THEN [t EXCEPT !.ref[f] = @ - 1]
    ELSE [t EXCEPT !.ref[f] = 0, !.ftype[f] = "none",
                   !.pipe = IF t.ftype[f] = "pipe"
                            THEN PipeClosed(t.pipe, t.fpipe[f], FALSE) ELSE @]

FileClose(f) == SetFT(FileClosed(FT, f))

(* Mutant: fork copies the open-file table without file_dup.           *)
ForkNoFileDup(p, c) ==
    /\ cur = p /\ pc[p] = "user" /\ ~killed[p]
    /\ forks < MaxForks /\ c \in Users \ alloc
    /\ GetPid(c)
    /\ alloc' = alloc \cup {c}
    /\ killed' = [killed EXCEPT ![c] = FALSE]
    /\ childexit' = [childexit EXCEPT ![c] = NoSem]
    /\ up' = [up EXCEPT ![c] = FALSE]
    /\ forks' = forks + 1
    /\ LET a == Activate(state, rq, c, FALSE)
       IN /\ parent' = [parent EXCEPT ![c] = p]
          /\ state' = a.st /\ rq' = a.rq
          /\ pc' = [pc EXCEPT ![c] = "user"]
          /\ ofile' = [ofile EXCEPT ![c] = ofile[p]]
          /\ UNCHANGED <<ref, fvars>>
    /\ UNCHANGED <<cur, target, fdops, kills>>

(* fork: create_proc (init_proc with get_pid: the head of freepid, else   *)
(* ++pid), then vm_copy.  vm_copy never returns NULL (kalloc and          *)
(* kalloc_page never fail, and init_pgdir runs before the test), so the   *)
(* failure branch is dead: the child gets the parent, file_dup of every   *)
(* open file, a place in the parent's children and start_proc's           *)
(* activate_proc.                                                          *)
fork(p, c) ==
    /\ cur = p /\ pc[p] = "user" /\ ~killed[p]
    /\ forks < MaxForks /\ c \in Users \ alloc
    /\ GetPid(c)
    /\ alloc' = alloc \cup {c}
    /\ killed' = [killed EXCEPT ![c] = FALSE]
    /\ childexit' = [childexit EXCEPT ![c] = NoSem]
    /\ up' = [up EXCEPT ![c] = FALSE]
    /\ forks' = forks + 1
    /\ LET a == Activate(state, rq, c, FALSE)
       IN /\ parent' = [parent EXCEPT ![c] = p]
          /\ state' = a.st /\ rq' = a.rq
          /\ pc' = [pc EXCEPT ![c] = "user"]
          /\ ofile' = [ofile EXCEPT ![c] = ofile[p]]
          /\ ref' = [f \in Files |->
                       ref[f] + Cardinality({fd \in FDs : ofile[p][fd] = f})]
          /\ UNCHANGED fvars
    /\ UNCHANGED <<cur, target, fdops, kills>>

(* Mutant: exit reparents the children without posting root for the    *)
(* zombies among them.                                                 *)
ExitCallNoRootPost(p) ==
    /\ cur = p /\ pc[p] = "user"
    /\ parent' = [q \in Procs |-> IF q \in Children(p) THEN Root ELSE parent[q]]
    /\ pc' = [pc EXCEPT ![p] = "exiting"]
    /\ UNCHANGED <<state, rq, cur, alloc, pid, nextpid, freepid, killed, childexit, up,
                   target, ofile, ref, fvars, forks, fdops, kills>>

(* exit, first plock region: every child gets root_proc as parent and     *)
(* joins its children, and root's childexit is posted once per child that *)
(* is already a zombie (root never waits on it, so each post is a credit). *)
ExitCall(p) ==
    /\ cur = p /\ pc[p] = "user"
    /\ parent' = [q \in Procs |-> IF q \in Children(p) THEN Root ELSE parent[q]]
    /\ childexit' = [childexit EXCEPT ![Root].cnt = @ + Cardinality(Zombies(p))]
    /\ pc' = [pc EXCEPT ![p] = "exiting"]
    /\ UNCHANGED <<state, rq, cur, alloc, pid, nextpid, freepid, killed, up, target,
                   ofile, ref, fvars, forks, fdops, kills>>

(* exit's loop over the open-file table: file_close the lowest open fd    *)
(* with plock released, then clear the slot.                              *)
ExitClose(p) ==
    /\ cur = p /\ pc[p] = "exiting" /\ OpenFds(p) # {}
    /\ LET fd == Min(OpenFds(p))
       IN /\ FileClose(ofile[p][fd])
          /\ ofile' = [ofile EXCEPT ![p][fd] = NoFile]
    /\ UNCHANGED <<state, rq, cur, alloc, parent, pid, nextpid, freepid, killed,
                   childexit, up, pc, target, forks, fdops, kills>>

(* exit, last plock region: post the parent's childexit and sched(ZOMBIE). *)
ExitFinish(p) ==
    /\ cur = p /\ pc[p] = "exiting" /\ OpenFds(p) = {}
    /\ LET po == PostChildexit(parent[p], state, rq)
           s == Sched(po.st, po.rq, "ZOMBIE")
       IN /\ childexit' = po.ce /\ up' = po.up
          /\ state' = s.st /\ rq' = s.rq /\ cur' = s.cur
    /\ pc' = [pc EXCEPT ![p] = "dead"]
    /\ UNCHANGED <<alloc, parent, pid, nextpid, freepid, killed, target, ofile, ref, fvars,
                   forks, fdops, kills>>

(* Mutant: wait_sem takes a credit when the count is 0 as well.        *)
WaitCallOffByOne(p) ==
    /\ cur = p /\ pc[p] = "user" /\ ~killed[p]
    /\ Children(p) # {}
    /\ childexit[p].cnt >= 0
    /\ childexit' = [childexit EXCEPT ![p].cnt = @ - 1]
    /\ pc' = [pc EXCEPT ![p] = "wscan"]
    /\ UNCHANGED <<state, rq, cur, up, alloc, parent, pid, nextpid, freepid, killed,
                   target, ofile, ref, fvars, forks, fdops, kills>>

(* wait with children (with none it returns -1 at once): wait_sem on     *)
(* childexit takes a credit, or sleeps with sched(SLEEPING).              *)
WaitCall(p) ==
    /\ cur = p /\ pc[p] = "user" /\ ~killed[p]
    /\ Children(p) # {}
    /\ \/ /\ childexit[p].cnt > 0
          /\ childexit' = [childexit EXCEPT ![p].cnt = @ - 1]
          /\ pc' = [pc EXCEPT ![p] = "wscan"]
          /\ UNCHANGED <<state, rq, cur, up>>
       \/ /\ childexit[p].cnt = 0
          /\ LET s == Sched(state, rq, "SLEEPING")
             IN /\ state' = s.st /\ rq' = s.rq /\ cur' = s.cur
          /\ childexit' = [childexit EXCEPT ![p].sl = {p}]
          /\ up' = [up EXCEPT ![p] = FALSE]
          /\ pc' = [pc EXCEPT ![p] = "wsleep"]
    /\ UNCHANGED <<alloc, parent, pid, nextpid, freepid, killed, target, ofile, ref, fvars,
                   forks, fdops, kills>>

(* wait_sem after sched returns: posted (up) it returns true and wait     *)
(* scans; alerted, it leaves the sleep list and wait returns -1.          *)
WaitWake(p) ==
    /\ cur = p /\ pc[p] = "wsleep"
    /\ \/ /\ up[p]
          /\ pc' = [pc EXCEPT ![p] = "wscan"]
          /\ UNCHANGED childexit
       \/ /\ ~up[p]
          /\ childexit' = [childexit EXCEPT ![p].sl = @ \ {p}]
          /\ pc' = [pc EXCEPT ![p] = "user"]
    /\ up' = [up EXCEPT ![p] = FALSE]
    /\ UNCHANGED <<state, rq, cur, alloc, parent, pid, nextpid, freepid, killed,
                   target, ofile, ref, fvars, forks, fdops, kills>>

(* wait's scan under plock: reap a ZOMBIE child (detach it, push its pid *)
(* at the front of freepid, kfree it) and return its pid; with none,      *)
(* return -1.                                                             *)
WaitScan(p) ==
    /\ cur = p /\ pc[p] = "wscan"
    /\ \/ \E z \in Zombies(p) :
             /\ alloc' = alloc \ {z}
             /\ parent' = [parent EXCEPT ![z] = NoProc]
             /\ state' = [state EXCEPT ![z] = "UNUSED"]
             /\ pc' = [pc EXCEPT ![p] = "user", ![z] = "dead"]
             /\ freepid' = ListInsert(pid[z])
       \/ /\ Zombies(p) = {}
          /\ pc' = [pc EXCEPT ![p] = "user"]
          /\ UNCHANGED <<alloc, parent, state, freepid>>
    /\ UNCHANGED <<rq, cur, pid, nextpid, killed, childexit, up, target, ofile, ref, fvars,
                   forks, fdops, kills>>

(* kill, the plock region: search the tree depth first from root_proc for *)
(* a process with the pid that is not UNUSED and set its killed flag; not *)
(* found, kill returns -1.                                                *)
KillSearch(p, k) ==
    /\ cur = p /\ pc[p] = "user" /\ ~killed[p]
    /\ kills < MaxKills
    /\ kills' = kills + 1
    /\ LET found == {q \in InTree : pid[q] = k /\ state[q] # "UNUSED"}
       IN \/ \E q \in found :
                /\ killed' = [killed EXCEPT ![q] = TRUE]
                /\ target' = [target EXCEPT ![p] = q]
                /\ pc' = [pc EXCEPT ![p] = "kill2"]
          \/ /\ found = {}
             /\ UNCHANGED <<killed, target, pc>>
    /\ UNCHANGED <<state, rq, cur, alloc, parent, pid, nextpid, freepid, childexit,
                   up, ofile, ref, fvars, forks, fdops>>

(* kill after plock is released: the target of a user pid is alerted      *)
(* (activate_proc with onalert) through the pointer search returned.      *)
KillAlert(p) ==
    /\ cur = p /\ pc[p] = "kill2"
    /\ LET a == Activate(state, rq, target[p], TRUE)
       IN state' = a.st /\ rq' = a.rq
    /\ pc' = [pc EXCEPT ![p] = "user"]
    /\ target' = [target EXCEPT ![p] = NoProc]
    /\ UNCHANGED <<cur, alloc, parent, pid, nextpid, freepid, killed, childexit, up,
                   ofile, ref, fvars, forks, fdops, kills>>

(* The file-table part of openat: file_alloc takes the first entry with   *)
(* ref 0 (none: -1); fdalloc gives it the lowest free fd, and with none   *)
(* openat's error path file_closes it again.                              *)
OpenCall(p) ==
    /\ cur = p /\ pc[p] = "user" /\ ~killed[p]
    /\ fdops < MaxFdOps
    /\ fdops' = fdops + 1
    /\ \/ /\ FileAlloc = NoFile \/ FdAlloc(p) = -1
          /\ UNCHANGED <<ofile, ref, fvars>>
       \/ /\ FileAlloc # NoFile /\ FdAlloc(p) # -1
          /\ ofile' = [ofile EXCEPT ![p][FdAlloc(p)] = FileAlloc]
          /\ ref' = [ref EXCEPT ![FileAlloc] = 1]
          /\ ftype' = [ftype EXCEPT ![FileAlloc] = "inode"]
          /\ UNCHANGED <<fpipe, pipe>>
    /\ UNCHANGED <<state, rq, cur, alloc, parent, pid, nextpid, freepid, killed,
                   childexit, up, pc, target, forks, kills>>

(* sys_dup: fdalloc the file of an open fd, then file_dup it.             *)
DupCall(p, fd) ==
    /\ cur = p /\ pc[p] = "user" /\ ~killed[p]
    /\ fdops < MaxFdOps /\ ofile[p][fd] # NoFile
    /\ fdops' = fdops + 1
    /\ \/ /\ FdAlloc(p) = -1
          /\ UNCHANGED <<ofile, ref>>
       \/ /\ FdAlloc(p) # -1
          /\ ofile' = [ofile EXCEPT ![p][FdAlloc(p)] = ofile[p][fd]]
          /\ FileDup(ofile[p][fd])
    /\ UNCHANGED fvars
    /\ UNCHANGED <<state, rq, cur, alloc, parent, pid, nextpid, freepid, killed,
                   childexit, up, pc, target, forks, kills>>

(* init_pipe: a kalloc'd Pipe with both ends open. *)
NewPipe == [readopen |-> 1, writeopen |-> 1, st |-> "live"]

(* init_read_pipe(f, pi) on table t: an FD_PIPE file on pi, read-only.  *)
InitReadPipe(t, f, pi) == [t EXCEPT !.ftype[f] = "pipe", !.fpipe[f] = pi]

(* pipe_alloc's success: f0 and f1 came from file_alloc with ref 1, the    *)
(* Pipe from kalloc, and init_read_pipe is applied to both files.          *)
PipeAlloc(f0, f1, pi) ==
    LET t == [FT EXCEPT !.ref = [@ EXCEPT ![f0] = 1, ![f1] = 1],
                        !.pipe[pi] = NewPipe]
    IN InitReadPipe(InitReadPipe(t, f0, pi), f1, pi)

(* sys_pipe2 with pipe_alloc: nonzero flags fail at once; pipe_alloc     *)
(* takes two entries with file_alloc, failing (and file_closing the first *)
(* if it got one) when the table is full, then kallocs a Pipe, which never *)
(* fails, and init_read_pipe gives it to both files; fdalloc(rf) takes     *)
(* the lowest free fd and fdalloc(wf) the next, and if either fails the    *)
(* slot of fdr is cleared and both files are file_closed.                 *)
Pipe2Call(p) ==
    /\ cur = p /\ pc[p] = "user" /\ ~killed[p]
    /\ LET f0 == FileAlloc
           Rest == {f \in Files : ref[f] = 0} \ {f0}
           f1 == IF Rest # {} THEN Min(Rest) ELSE NoFile
           pi == fdops + 1
           fdr == FdAlloc(p)
           Others == FreeFds(p) \ {fdr}
           fdw == IF Others # {} THEN Min(Others) ELSE -1
           made == PipeAlloc(f0, f1, pi)
       IN \/ UNCHANGED <<ofile, ref, fvars, fdops>>         \* flags # 0
          \/ /\ f0 = NoFile
             /\ UNCHANGED <<ofile, ref, fvars, fdops>>
          \/ /\ f0 # NoFile /\ f1 = NoFile
             /\ SetFT(FileClosed([FT EXCEPT !.ref[f0] = 1], f0))
             /\ UNCHANGED <<ofile, fdops>>
          \/ /\ f1 # NoFile /\ fdops < MaxFdOps /\ fdops' = fdops + 1
             /\ fdw = -1
             /\ SetFT(FileClosed(FileClosed(made, f0), f1))
             /\ UNCHANGED ofile
          \/ /\ f1 # NoFile /\ fdops < MaxFdOps /\ fdops' = fdops + 1
             /\ fdw # -1
             /\ ofile' = [ofile EXCEPT ![p][fdr] = f0, ![p][fdw] = f1]
             /\ SetFT(made)
    /\ UNCHANGED <<state, rq, cur, alloc, parent, pid, nextpid, freepid, killed,
                   childexit, up, pc, target, forks, kills>>

(* sys_close of an open fd: clear the slot, then file_close.              *)
CloseCall(p, fd) ==
    /\ cur = p /\ pc[p] = "user" /\ ~killed[p]
    /\ ofile[p][fd] # NoFile
    /\ ofile' = [ofile EXCEPT ![p][fd] = NoFile]
    /\ FileClose(ofile[p][fd])
    /\ UNCHANGED <<state, rq, cur, alloc, parent, pid, nextpid, freepid, killed,
                   childexit, up, pc, target, forks, fdops, kills>>

(* The timer handler's sched(RUNNABLE); sched returns at once, keeping    *)
(* the CPU, when the running process is killed.                           *)
Tick ==
    /\ ~killed[cur]
    /\ LET s == Sched(state, rq, "RUNNABLE")
       IN state' = s.st /\ rq' = s.rq /\ cur' = s.cur
    /\ UNCHANGED <<alloc, parent, pid, nextpid, freepid, killed, childexit, up, pc,
                   target, ofile, ref, fvars, forks, fdops, kills>>

(* The steps a process takes in the kernel once a call has begun; a       *)
(* killed process in user mode is made to exit on its next trap return.   *)
KernelStep(p) ==
    \/ WaitWake(p) \/ WaitScan(p) \/ KillAlert(p) \/ ExitClose(p) \/ ExitFinish(p)
    \/ killed[p] /\ ExitCall(p)

(* The system calls a user process may make. *)
SysCall(p) ==
    \/ \E c \in Users : fork(p, c)
    \/ ~killed[p] /\ ExitCall(p)
    \/ WaitCall(p) \/ OpenCall(p) \/ Pipe2Call(p)
    \/ \E k \in KillPids : KillSearch(p, k)
    \/ \E fd \in FDs : DupCall(p, fd) \/ CloseCall(p, fd)

Next == Tick \/ \E p \in Users : SysCall(p) \/ KernelStep(p)

(* The timer fires every few ticks, and a process given the CPU runs a    *)
(* whole quantum, so a kernel step of a process that is picked again and  *)
(* again is eventually taken.                                             *)
Fairness == WF_vars(Tick) /\ \A p \in Users : SF_vars(KernelStep(p))

Spec == Init /\ [][Next]_vars /\ Fairness

-----------------------------------------------------------------------------
(* Properties *)

(* The invariant spec.md gives the run queue, as update_this_state,       *)
(* pick_next and activate_proc keep it: a live process is on the queue    *)
(* exactly when it is RUNNABLE or RUNNING, once, and only the process the *)
(* CPU runs is RUNNING.                                                   *)
RqConsistent ==
    /\ IsInjective(rq)
    /\ ToSet(rq) \subseteq {Root} \cup alloc
    /\ \A q \in {Root} \cup alloc :
          q \in ToSet(rq) <=> state[q] \in {"RUNNABLE", "RUNNING"}
    /\ \A q \in Procs : state[q] = "RUNNING" <=> q = cur

(* childexit counts the zombie children a wait has not yet claimed:       *)
(* exit's post to the parent, the posts to root for reparented zombies    *)
(* and wait's reaping keep the credits (plus one held by a wait between   *)
(* wait_sem and its scan) equal to the zombie children, so a wait that    *)
(* wakes always finds one.                                                *)
ChildexitCredits ==
    \A q \in {Root} \cup {r \in alloc : pc[r] \in {"user", "wsleep", "wscan", "kill2"}} :
        childexit[q].cnt + (IF pc[q] = "wscan" \/ (pc[q] = "wsleep" /\ up[q]) THEN 1 ELSE 0)
            = Cardinality(Zombies(q))

(* spec.md's pid uniqueness: get_pid and wait's recycling never give two  *)
(* Proc structs the same pid, and a pid on freepid belongs to nobody.     *)
PidUnique ==
    /\ \A a, b \in {Root} \cup alloc : a # b => pid[a] # pid[b]
    /\ \A q \in {Root} \cup alloc : pid[q] \notin ToSet(freepid)
    /\ IsInjective(freepid)

(* A file's ref is the number of open-file slots of all processes that    *)
(* point at it: fork's file_dup, sys_dup, sys_close, openat and exit's    *)
(* close loop never leave a slot on a freed file or a file unreachable.   *)
FdRefs ==
    \A f \in Files :
        ref[f] = Cardinality({<<q, fd>> \in alloc \X FDs : ofile[q][fd] = f})

(* Round-robin: every RUNNABLE process eventually runs (spec.md's         *)
(* scheduler liveness).                                                   *)
RunnableRuns == \A q \in Procs : state[q] = "RUNNABLE" ~> state[q] = "RUNNING"

(* A process sleeping in wait while it has a zombie child is woken and    *)
(* returns from wait.                                                     *)
WaitReturns ==
    \A q \in Users : (pc[q] = "wsleep" /\ Zombies(q) # {}) ~> pc[q] = "user"

(* kill uses the Proc that search returned after releasing plock: that    *)
(* Proc is still the live process with the pid kill was given.            *)
KillTargetLive ==
    \A q \in Users : pc[q] = "kill2" => target[q] \in {Root} \cup alloc

====
