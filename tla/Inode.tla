------------------------------- MODULE Inode --------------------------------
(***************************************************************************)
(* The in-memory inode cache of src/fs/inode.c (inode_get, inode_lock,    *)
(* inode_unlock, inode_put with its clear-and-free path) under the        *)
(* system calls of src/kernel/sysfile.c that resolve, create and remove  *)
(* names: sys_openat (namei, or create with O_CREAT), sys_unlinkat,       *)
(* sys_mkdirat and sys_chdir, and file_close, file_read and file_write of *)
(* an inode file (src/fs/file.c).  A write                                 *)
(* maps its block with inode_map, which takes blocks from the bitmap      *)
(* allocator cache_alloc (src/fs/cache.c); the last put of an unlinked    *)
(* inode gives them back with inode_clear and cache_free.                 *)
(*                                                                         *)
(* The file system is the root directory and the inodes it names; paths   *)
(* are "/name", so namex walks one component.  Directory contents are     *)
(* the function dirent (name -> inode_no, 0 for none).  Sizes and        *)
(* offsets count blocks; what a block holds is left out, except the block *)
(* numbers an indirect block holds.  The log is left out: every system   *)
(* call runs between begin_op and end_op, which Log models.  The block    *)
(* map of an inode is kept by inode number: inode_map and inode_clear     *)
(* inode_sync the entry in the step that changes it, and one Inode at a   *)
(* time caches an inode number.                                            *)
(*                                                                         *)
(* Inode objects are a small pool of identities, as Blocks are in BCache.  *)
(* A step is one critical section of the spinlock `lock`, or the code     *)
(* between two waits on a sleep-lock.  The sleep-lock (a semaphore with   *)
(* one credit in the code) is a mutex here: a waiter proceeds when no one  *)
(* holds it.                                                               *)
(***************************************************************************)
EXTENDS Integers, FiniteSets, Functions, FiniteSetsExt, Bitwise

CONSTANTS
    Threads,      \* processes making file-system calls
    Names,        \* names in the root directory, "." and ".." among them
    INos,         \* inode numbers, 0 (no inode) and ROOT_INODE_NO among them
    ROOT_INODE_NO,
    InitDir,      \* the root directory as mkfs leaves it: Names -> INos
    RootObj,      \* the Inode object of inodes.root
    Objs,         \* identities kalloc can hand out, RootObj among them
    NoObj,
    NoThread,
    MaxCalls,     \* bound on the system calls of a behaviour
    NDIRECT,      \* INODE_NUM_DIRECT
    NINDIRECT,    \* INODE_NUM_INDIRECT
    NumBlocks,    \* sblock->num_blocks, at most 8: one bitmap byte
    NumMeta       \* boot, super, log, inode and bitmap blocks, in use from mkfs

ASSUME /\ 0 \in INos /\ ROOT_INODE_NO \in INos \ {0}
       /\ {".", ".."} \subseteq Names /\ InitDir \in [Names -> INos]
       /\ RootObj \in Objs /\ NoObj \notin Objs /\ NoThread \notin Threads
       /\ NumBlocks \in 1..8 /\ NumMeta < NumBlocks

(* INODE_MAX_BYTES, in blocks. *)
MaxBytes == NDIRECT + NINDIRECT
BlockNos == 0..(NumBlocks - 1)

VARIABLES
    dtype, dlinks,   \* on-disk InodeEntry: type and num_links
    dirent,          \* the root directory's DirEntry array
    alloc,           \* Inode objects kalloc'd
    list,            \* the cache list at head
    ino, rc,         \* inode->inode_no, inode->rc.count
    etype, elinks,   \* inode->entry (the in-memory copy)
    holder,          \* who holds inode->lock
    pc, op, nm,      \* each thread's position, call and name
    ip, dp, po, ret, \* its Inode pointers, the one being put, where put returns
    fds,             \* open inode files of each thread: Objs -> count
    calls, panicked,
    nbytes,          \* entry.num_bytes of each inode number, in blocks
    addrs,           \* entry.addrs, the direct block numbers (0 for none)
    indirect,        \* entry.indirect
    blk,             \* the block numbers each block holds as an indirect block
    bm               \* the bitmap byte: bit b set when block b is in use

mapVars == <<nbytes, addrs, indirect, blk, bm>>
diskVars == <<dtype, dlinks, dirent, mapVars>>
cacheVars == <<alloc, list, ino, rc, etype, elinks>>
thrVars == <<pc, op, nm, ip, dp, po, ret, fds>>
vars == <<diskVars, cacheVars, holder, thrVars, calls, panicked>>

Types == {"invalid", "regular", "directory"}
Ops == {"open", "create", "unlink", "mkdir", "chdir"}
PCs == {"idle", "nx", "cr_lock", "cr_lockip", "op_lock", "op_file", "ch_lock",
        "ul_lock", "ul_lockip", "ul_links", "put", "put_detach"}

TypeOK ==
    /\ dtype \in [INos -> Types] /\ dlinks \in [INos -> Nat]
    /\ dirent \in [Names -> INos]
    /\ alloc \subseteq Objs /\ list \subseteq Objs
    /\ ino \in [Objs -> INos] /\ rc \in [Objs -> Nat]
    /\ etype \in [Objs -> Types] /\ elinks \in [Objs -> Nat]
    /\ holder \in [Objs -> Threads \cup {NoThread}]
    /\ pc \in [Threads -> PCs] /\ op \in [Threads -> Ops]
    /\ nm \in [Threads -> Names]
    /\ \A v \in {ip, dp, po} : v \in [Threads -> Objs \cup {NoObj}]
    /\ ret \in [Threads -> PCs] /\ fds \in [Threads -> [Objs -> Nat]]
    /\ calls \in 0..MaxCalls /\ panicked \in BOOLEAN
    /\ nbytes \in [INos -> 0..MaxBytes]
    /\ addrs \in [INos -> [0..(NDIRECT - 1) -> BlockNos]]
    /\ indirect \in [INos -> BlockNos]
    /\ blk \in [BlockNos -> [0..(NINDIRECT - 1) -> BlockNos]]
    /\ bm \in 0..255

(* The file system mkfs leaves: the root directory, and one regular file  *)
(* for every other inode number its entries name.  init_inodes has done   *)
(* inodes.get(ROOT_INODE_NO), and every process's cwd shares it.  The     *)
(* root's entries fill its first block, block NumMeta; the files are      *)
(* empty; the bitmap marks the metadata blocks and the root's block.       *)
Files == Range(InitDir) \ {0, ROOT_INODE_NO}

Init ==
    /\ dtype = [n \in INos |-> IF n = ROOT_INODE_NO THEN "directory"
                               ELSE IF n \in Files THEN "regular" ELSE "invalid"]
    /\ dlinks = [n \in INos |-> IF n = ROOT_INODE_NO THEN 2
                                ELSE Cardinality({x \in Names : InitDir[x] = n})]
    /\ dirent = InitDir
    /\ alloc = {RootObj} /\ list = {RootObj}
    /\ ino = [o \in Objs |-> ROOT_INODE_NO]
    /\ rc = [o \in Objs |-> IF o = RootObj THEN 1 + Cardinality(Threads) ELSE 0]
    /\ etype = [o \in Objs |-> "directory"] /\ elinks = [o \in Objs |-> 2]
    /\ holder = [o \in Objs |-> NoThread]
    /\ pc = [t \in Threads |-> "idle"] /\ op = [t \in Threads |-> "open"]
    /\ nm = [t \in Threads |-> "."]
    /\ ip = [t \in Threads |-> NoObj] /\ dp = ip /\ po = ip
    /\ ret = [t \in Threads |-> "idle"]
    /\ fds = [t \in Threads |-> [o \in Objs |-> 0]]
    /\ calls = 0 /\ panicked = FALSE
    /\ nbytes = [n \in INos |-> IF n = ROOT_INODE_NO THEN 1 ELSE 0]
    /\ addrs = [n \in INos |-> [k \in 0..(NDIRECT - 1) |->
                   IF n = ROOT_INODE_NO /\ k = 0 THEN NumMeta ELSE 0]]
    /\ indirect = [n \in INos |-> 0]
    /\ blk = [b \in BlockNos |-> [k \in 0..(NINDIRECT - 1) |-> 0]]
    /\ bm = 2^(NumMeta + 1) - 1

-----------------------------------------------------------------------------
(* inode_lookup(dir, name): the inode_no of the first entry that is in use *)
(* and carries name, or 0.                                                  *)
inode_lookup(name) == dirent[name]

(* The objects inode_get(n) may return: the cached Inode of n if the list *)
(* holds one, otherwise any object kalloc can hand out.                   *)
GetObj(n) ==
    IF \E o \in list : ino[o] = n THEN {o \in list : ino[o] = n}
    ELSE Objs \ alloc

(* Fault: the miss path inserts the new Inode without increment_rc. *)
GetInodeMissNoRef(n, o) ==
    IF o \in list
    THEN /\ rc' = [rc EXCEPT ![o] = @ + 1]
         /\ UNCHANGED <<alloc, list, ino, etype, elinks>>
    ELSE /\ alloc' = alloc \cup {o} /\ list' = list \cup {o}
         /\ ino' = [ino EXCEPT ![o] = n] /\ rc' = [rc EXCEPT ![o] = 0]
         /\ etype' = [etype EXCEPT ![o] = dtype[n]]
         /\ elinks' = [elinks EXCEPT ![o] = dlinks[n]]

(* Fault: the hit path returns the cached Inode without increment_rc. *)
GetInodeHitNoRef(n, o) ==
    IF o \in list
    THEN UNCHANGED <<alloc, list, ino, rc, etype, elinks>>
    ELSE /\ alloc' = alloc \cup {o} /\ list' = list \cup {o}
         /\ ino' = [ino EXCEPT ![o] = n] /\ rc' = [rc EXCEPT ![o] = 1]
         /\ etype' = [etype EXCEPT ![o] = dtype[n]]
         /\ elinks' = [elinks EXCEPT ![o] = dlinks[n]]

(* inode_get(n) returning o, all under `lock`: a hit takes a reference;   *)
(* a miss kallocs o, reads the on-disk entry (inode_sync) and inserts it. *)
GetInode(n, o) ==
    IF o \in list
    THEN /\ rc' = [rc EXCEPT ![o] = @ + 1]
         /\ UNCHANGED <<alloc, list, ino, etype, elinks>>
    ELSE /\ alloc' = alloc \cup {o} /\ list' = list \cup {o}
         /\ ino' = [ino EXCEPT ![o] = n] /\ rc' = [rc EXCEPT ![o] = 1]
         /\ etype' = [etype EXCEPT ![o] = dtype[n]]
         /\ elinks' = [elinks EXCEPT ![o] = dlinks[n]]

-----------------------------------------------------------------------------
(* The block map and the bitmap, as one record, so that inode_map can be  *)
(* written as a function of it.                                            *)
MapState == [nbytes |-> nbytes, addrs |-> addrs, indirect |-> indirect,
             blk |-> blk, bm |-> bm]

Bit(m, b) == (m \div 2^b) % 2

(* cache_alloc's scan: the first block whose bit is clear. *)
FirstFree(m) == CHOOSE b \in BlockNos : Bit(m, b) = 0 /\ \A c \in 0..(b - 1) : Bit(m, c) = 1

(* cache_alloc: under bitmaplock, set the first clear bit (|=) and sync   *)
(* the bitmap block, then zero the new block (memset) and sync it.        *)
cache_alloc(s) ==
    LET b == FirstFree(s.bm)
    IN [no |-> b,
        s |-> [s EXCEPT !.bm = s.bm | 2^b,
                        !.blk[b] = [k \in 0..(NINDIRECT - 1) |-> 0]]]

(* inode_map(ctx, inode, k): the direct slot k, or slot k - NDIRECT of    *)
(* the indirect block, allocating the indirect block and then the slot   *)
(* when they are 0; each change is synced (inode_sync, cache->sync).       *)
inode_map(s, n, k) ==
    IF k < NDIRECT
    THEN IF s.addrs[n][k] /= 0 THEN s
         ELSE LET a == cache_alloc(s) IN [a.s EXCEPT !.addrs[n][k] = a.no]
    ELSE LET s1 == IF s.indirect[n] /= 0 THEN s
                   ELSE LET a == cache_alloc(s) IN [a.s EXCEPT !.indirect[n] = a.no]
             ib == s1.indirect[n]
         IN IF s1.blk[ib][k - NDIRECT] /= 0 THEN s1
            ELSE LET a == cache_alloc(s1) IN [a.s EXCEPT !.blk[ib][k - NDIRECT] = a.no]

(* cache_free: under bitmaplock, data[idx / 8] -= (1 << (idx % 8)) on    *)
(* the u8 bitmap byte, and sync the bitmap block.  w is the sum of the    *)
(* bits of the blocks freed; subtractions modulo 256 add up.              *)
cache_free(m, w) == (m - w) % 256

(* The blocks inode n owns: its direct blocks, its indirect block and the *)
(* blocks that one lists.                                                  *)
DirectSlots(n) == {k \in 0..(NDIRECT - 1) : addrs[n][k] /= 0}
IndirectSlots(n) ==
    IF indirect[n] = 0 THEN {} ELSE {k \in 0..(NINDIRECT - 1) : blk[indirect[n]][k] /= 0}

(* inode_write of one block at off: num_bytes grows to off + 1 and is     *)
(* synced, then the block at off is mapped and written.                    *)
inode_write(s, n, off) ==
    inode_map([s EXCEPT !.nbytes[n] = IF @ < off + 1 THEN off + 1 ELSE @], n, off)

(* inode_read of one block at off: the count is cut to num_bytes - off,  *)
(* and each block of the range is found with inode_map(NULL, ...), which  *)
(* in the code allocates an unmapped slot although ctx is NULL.            *)
inode_read(s, n, off) == IF off < s.nbytes[n] THEN inode_map(s, n, off) ELSE s

(* Fault: inode_clear frees the indirect block but not the blocks it     *)
(* lists.                                                                  *)
inode_clearKeepsListed(n) ==
    LET freed == (IF indirect[n] /= 0 THEN 2^indirect[n] ELSE 0)
                 + MapThenSumSet(LAMBDA k : 2^addrs[n][k], DirectSlots(n))
    IN /\ bm' = cache_free(bm, freed)
       /\ addrs' = [addrs EXCEPT ![n] = [k \in 0..(NDIRECT - 1) |-> 0]]
       /\ indirect' = [indirect EXCEPT ![n] = 0]
       /\ nbytes' = [nbytes EXCEPT ![n] = 0]
       /\ UNCHANGED blk

(* inode_clear: cache_free every block listed in the indirect block, then *)
(* the indirect block, then every direct block, and set num_bytes to 0;   *)
(* inode_sync.                                                            *)
inode_clear(n) ==
    LET freed == MapThenSumSet(LAMBDA k : 2^blk[indirect[n]][k], IndirectSlots(n))
                 + (IF indirect[n] /= 0 THEN 2^indirect[n] ELSE 0)
                 + MapThenSumSet(LAMBDA k : 2^addrs[n][k], DirectSlots(n))
    IN /\ bm' = cache_free(bm, freed)
       /\ addrs' = [addrs EXCEPT ![n] = [k \in 0..(NDIRECT - 1) |-> 0]]
       /\ indirect' = [indirect EXCEPT ![n] = 0]
       /\ nbytes' = [nbytes EXCEPT ![n] = 0]
       /\ UNCHANGED blk

(* ASSERT(inode_no > 0) in inode_get fails: PANIC stops every CPU. *)
Panic ==
    /\ panicked' = TRUE
    /\ UNCHANGED <<diskVars, cacheVars, holder, thrVars, calls>>

(* Call inode_put(ctx, o), to go on at r when it returns. *)
CallPut(t, o, r) ==
    /\ po' = [po EXCEPT ![t] = o] /\ ret' = [ret EXCEPT ![t] = r]
    /\ pc' = [pc EXCEPT ![t] = "put"]

Free(o) == holder[o] = NoThread

(* Thread t is at l and the kernel is still running. *)
At(t, l) == pc[t] = l /\ ~panicked

(* A system call starts: sys_openat (op "open", or "create" with O_CREAT), *)
(* sys_unlinkat, sys_mkdirat ("mkdir") or sys_chdir of "/name".  namex,   *)
(* or nameiparent, begins with ans = inode_get(ROOT_INODE_NO).             *)
SysCall(t, o, name) ==
    /\ At(t, "idle") /\ calls < MaxCalls
    /\ calls' = calls + 1
    /\ op' = [op EXCEPT ![t] = o] /\ nm' = [nm EXCEPT ![t] = name]
    /\ \E r \in GetObj(ROOT_INODE_NO) :
          GetInode(ROOT_INODE_NO, r) /\ dp' = [dp EXCEPT ![t] = r]
    /\ pc' = [pc EXCEPT ![t] = "nx"]
    /\ UNCHANGED <<diskVars, holder, ip, po, ret, fds, panicked>>

(* The one iteration of namex's loop: inode_lock(ans); ans is a           *)
(* directory.  nameiparent with the last element: inode_unlock and return *)
(* ans to create or unlinkat.  namei: nxt = inode_get(inode_lookup(ans,   *)
(* name)), inode_unlock(ans), inode_put(ctx, ans); namei returns nxt and   *)
(* sys_openat or sys_chdir goes on to inodes.lock(ip).                     *)
Namex(t) ==
    /\ At(t, "nx") /\ Free(dp[t])
    /\ \/ /\ op[t] \in {"create", "mkdir", "unlink"}
          /\ pc' = [pc EXCEPT ![t] = IF op[t] = "unlink" THEN "ul_lock" ELSE "cr_lock"]
          /\ UNCHANGED <<diskVars, cacheVars, holder, op, nm, ip, dp, po, ret, fds,
                         calls, panicked>>
       \/ /\ op[t] \in {"open", "chdir"} /\ inode_lookup(nm[t]) = 0
          /\ Panic
       \/ /\ op[t] \in {"open", "chdir"} /\ inode_lookup(nm[t]) /= 0
          /\ \E o \in GetObj(inode_lookup(nm[t])) :
                GetInode(inode_lookup(nm[t]), o) /\ ip' = [ip EXCEPT ![t] = o]
          /\ dp' = [dp EXCEPT ![t] = NoObj]
          /\ CallPut(t, dp[t], IF op[t] = "open" THEN "op_lock" ELSE "ch_lock")
          /\ UNCHANGED <<diskVars, holder, op, nm, fds, calls, panicked>>

(* create: inodes.lock(dir); ip = inodes.get(inodes.lookup(dir, name));   *)
(* inodes.unlock(dir); inodes.put(ctx, dir); then inodes.lock(ip).        *)
cr_lock(t) ==
    /\ At(t, "cr_lock") /\ Free(dp[t])
    /\ \/ inode_lookup(nm[t]) = 0 /\ Panic
       \/ /\ inode_lookup(nm[t]) /= 0
          /\ \E o \in GetObj(inode_lookup(nm[t])) :
                GetInode(inode_lookup(nm[t]), o) /\ ip' = [ip EXCEPT ![t] = o]
          /\ dp' = [dp EXCEPT ![t] = NoObj]
          /\ CallPut(t, dp[t], "cr_lockip")
          /\ UNCHANGED <<diskVars, holder, op, nm, fds, calls, panicked>>

(* create, with ip locked: a REGULAR inode asked for as REGULAR is       *)
(* returned locked and sys_openat goes on to file_alloc; otherwise ip is  *)
(* unlocked and put, and create (so the system call) fails.                *)
(* The type create is called with: INODE_REGULAR by sys_openat, and      *)
(* INODE_DIRECTORY by sys_mkdirat, which returns -1 when create fails and  *)
(* otherwise unlocks and puts the new inode.  (sys_mknodat is sys_mkdirat *)
(* with INODE_DEVICE, and takes the same paths.)                          *)
CreateType == [o \in {"create", "mkdir"} |-> IF o = "create" THEN "regular" ELSE "directory"]

cr_lockip(t) ==
    /\ At(t, "cr_lockip") /\ Free(ip[t])
    /\ \/ /\ CreateType[op[t]] = "regular" /\ etype[ip[t]] = "regular"
          /\ holder' = [holder EXCEPT ![ip[t]] = t]
          /\ pc' = [pc EXCEPT ![t] = "op_file"]
          /\ UNCHANGED <<po, ret, ip>>
       \/ /\ ~(CreateType[op[t]] = "regular" /\ etype[ip[t]] = "regular")
          /\ ip' = [ip EXCEPT ![t] = NoObj]
          /\ CallPut(t, ip[t], "idle")
          /\ UNCHANGED holder
    /\ UNCHANGED <<diskVars, cacheVars, op, nm, dp, fds, calls, panicked>>

(* sys_chdir with ip locked: a directory replaces cur->cwd, whose        *)
(* reference is put (the root, the only directory: cwd stays the root's   *)
(* Inode, and ip's reference becomes the cwd's); anything else is         *)
(* unlocked and put, and chdir returns -1.                                 *)
ch_lock(t) ==
    /\ At(t, "ch_lock") /\ Free(ip[t])
    /\ ip' = [ip EXCEPT ![t] = NoObj]
    /\ \/ etype[ip[t]] /= "directory" /\ CallPut(t, ip[t], "idle")
       \/ etype[ip[t]] = "directory" /\ CallPut(t, RootObj, "idle")
    /\ UNCHANGED <<diskVars, cacheVars, holder, op, nm, dp, fds, calls, panicked>>

(* sys_openat without O_CREAT: inodes.lock(ip) on what namei returned. *)
op_lock(t) ==
    /\ At(t, "op_lock") /\ Free(ip[t])
    /\ holder' = [holder EXCEPT ![ip[t]] = t]
    /\ pc' = [pc EXCEPT ![t] = "op_file"]
    /\ UNCHANGED <<diskVars, cacheVars, op, nm, ip, dp, po, ret, fds, calls, panicked>>

(* sys_openat with ip locked: file_alloc and fdalloc succeed, ip is       *)
(* unlocked and the new file keeps the reference; or one of them fails    *)
(* (the file table or the descriptor table is full), ip is unlocked and   *)
(* put.                                                                    *)
op_file(t) ==
    /\ At(t, "op_file")
    /\ holder' = [holder EXCEPT ![ip[t]] = NoThread]
    /\ ip' = [ip EXCEPT ![t] = NoObj]
    /\ \/ /\ fds' = [fds EXCEPT ![t][ip[t]] = @ + 1]
          /\ pc' = [pc EXCEPT ![t] = "idle"]
          /\ UNCHANGED <<po, ret>>
       \/ /\ CallPut(t, ip[t], "idle")
          /\ UNCHANGED fds
    /\ UNCHANGED <<diskVars, cacheVars, op, nm, dp, calls, panicked>>
(* sys_unlinkat: inodes.lock(dp).  "." and "..", or a name lookup does    *)
(* not find, go to bad (unlock and put dp, fail).  Otherwise              *)
(* ip = inodes.get(inumber) with dp still locked.                          *)
ul_lock(t) ==
    /\ At(t, "ul_lock") /\ Free(dp[t])
    /\ \/ /\ nm[t] \in {".", ".."} \/ inode_lookup(nm[t]) = 0
          /\ dp' = [dp EXCEPT ![t] = NoObj]
          /\ CallPut(t, dp[t], "idle")
          /\ UNCHANGED <<cacheVars, holder, ip>>
       \/ /\ nm[t] \notin {".", ".."} /\ inode_lookup(nm[t]) /= 0
          /\ holder' = [holder EXCEPT ![dp[t]] = t]
          /\ \E o \in GetObj(inode_lookup(nm[t])) :
                GetInode(inode_lookup(nm[t]), o) /\ ip' = [ip EXCEPT ![t] = o]
          /\ pc' = [pc EXCEPT ![t] = "ul_lockip"]
          /\ UNCHANGED <<dp, po, ret>>
    /\ UNCHANGED <<diskVars, op, nm, fds, calls, panicked>>

(* Fault: unlinkat puts dp without inodes.unlock(dp) first. *)
ul_lockipKeepsDir(t) ==
    /\ At(t, "ul_lockip") /\ Free(ip[t])
    /\ \/ elinks[ip[t]] < 1 /\ Panic
       \/ /\ elinks[ip[t]] >= 1
          /\ dirent' = [dirent EXCEPT ![nm[t]] = 0]
          /\ holder' = [holder EXCEPT ![ip[t]] = t]
          /\ dp' = [dp EXCEPT ![t] = NoObj]
          /\ CallPut(t, dp[t], "ul_links")
          /\ UNCHANGED <<dtype, dlinks, mapVars, cacheVars, op, nm, ip, fds, calls, panicked>>

(* sys_unlinkat: inodes.lock(ip); num_links < 1 panics.  The entry is     *)
(* zeroed with inodes.write(dp), dp is unlocked and put while ip stays     *)
(* locked.  (The root holds no directory but itself, so the isdirempty    *)
(* and directory-link branches are not taken.)                            *)
ul_lockip(t) ==
    /\ At(t, "ul_lockip") /\ Free(ip[t])
    /\ \/ elinks[ip[t]] < 1 /\ Panic
       \/ /\ elinks[ip[t]] >= 1
          /\ dirent' = [dirent EXCEPT ![nm[t]] = 0]
          /\ holder' = [holder EXCEPT ![ip[t]] = t, ![dp[t]] = NoThread]
          /\ dp' = [dp EXCEPT ![t] = NoObj]
          /\ CallPut(t, dp[t], "ul_links")
          /\ UNCHANGED <<dtype, dlinks, mapVars, cacheVars, op, nm, ip, fds, calls, panicked>>

(* Fault: unlinkat drops the link and unlocks ip but never puts it. *)
ul_linksNoPut(t) ==
    /\ At(t, "ul_links")
    /\ elinks' = [elinks EXCEPT ![ip[t]] = @ - 1]
    /\ dlinks' = [dlinks EXCEPT ![ino[ip[t]]] = elinks[ip[t]] - 1]
    /\ holder' = [holder EXCEPT ![ip[t]] = NoThread]
    /\ ip' = [ip EXCEPT ![t] = NoObj]
    /\ pc' = [pc EXCEPT ![t] = "idle"]
    /\ UNCHANGED <<dtype, dirent, mapVars, alloc, list, ino, rc, etype, op, nm, dp, po, ret,
                   fds, calls, panicked>>

(* sys_unlinkat: ip->entry.num_links--; inodes.sync(ctx, ip, true);       *)
(* inodes.unlock(ip); inodes.put(ctx, ip).                                 *)
ul_links(t) ==
    /\ At(t, "ul_links")
    /\ elinks' = [elinks EXCEPT ![ip[t]] = @ - 1]
    /\ dlinks' = [dlinks EXCEPT ![ino[ip[t]]] = elinks[ip[t]] - 1]
    /\ holder' = [holder EXCEPT ![ip[t]] = NoThread]
    /\ ip' = [ip EXCEPT ![t] = NoObj]
    /\ CallPut(t, ip[t], "idle")
    /\ UNCHANGED <<dtype, dirent, mapVars, alloc, list, ino, rc, etype, op, nm, dp, fds,
                   calls, panicked>>

(* file_close of the last reference to an inode file: inodes.put. *)
CloseCall(t, o) ==
    /\ At(t, "idle") /\ fds[t][o] > 0
    /\ fds' = [fds EXCEPT ![t][o] = @ - 1]
    /\ CallPut(t, o, "idle")
    /\ UNCHANGED <<diskVars, cacheVars, holder, op, nm, ip, dp, calls, panicked>>

(* file_write of one block at f->off on an inode file: begin_op,         *)
(* inodes.lock(ip), inode_write, advance f->off, inodes.unlock(ip),       *)
(* end_op.  The sleep-lock is held throughout, so the call is one step    *)
(* while no one holds ip.  Nothing truncates a file, so f->off of any     *)
(* file on ip is at most num_bytes; it is chosen from 0..num_bytes.        *)
(* inode_write: ASSERT(end <= INODE_MAX_BYTES) fails, or num_bytes grows  *)
(* to end and is synced, and the block at off is mapped.  Only regular    *)
(* files are written here (sys_openat lets a directory be opened for     *)
(* writing, which would overwrite its entries).                           *)
WriteCall(t, o) ==
    /\ At(t, "idle") /\ calls < MaxCalls /\ fds[t][o] > 0 /\ Free(o)
    /\ etype[o] = "regular"
    /\ \E off \in 0..nbytes[ino[o]] :
          \/ off + 1 > MaxBytes /\ Panic
          \/ /\ off + 1 <= MaxBytes
             /\ calls' = calls + 1
             /\ LET n == ino[o]
                    s == inode_write(MapState, n, off)
                IN /\ nbytes' = s.nbytes /\ addrs' = s.addrs
                   /\ indirect' = s.indirect /\ blk' = s.blk /\ bm' = s.bm
             /\ UNCHANGED <<dtype, dlinks, dirent, cacheVars, holder, thrVars, panicked>>

(* file_read of one block at f->off on an inode file: inodes.lock(ip),    *)
(* inode_read, advance f->off, inodes.unlock(ip); one step while no one   *)
(* holds ip.  f->off is chosen from 0..num_bytes, as in WriteCall.         *)
ReadCall(t, o) ==
    /\ At(t, "idle") /\ calls < MaxCalls /\ fds[t][o] > 0 /\ Free(o)
    /\ calls' = calls + 1
    /\ \E off \in 0..nbytes[ino[o]] :
          LET s == inode_read(MapState, ino[o], off)
          IN /\ nbytes' = s.nbytes /\ addrs' = s.addrs
             /\ indirect' = s.indirect /\ blk' = s.blk /\ bm' = s.bm
    /\ UNCHANGED <<dtype, dlinks, dirent, cacheVars, holder, thrVars, panicked>>

(* Fault: the free test is made on the count before decrement_rc. *)
putOffByOne(t) ==
    /\ At(t, "put") /\ Free(po[t])
    /\ LET o == po[t] IN
       /\ rc' = [rc EXCEPT ![o] = @ - 1]
       /\ \/ /\ rc[o] - 1 <= 1 /\ elinks[o] = 0
             /\ etype' = [etype EXCEPT ![o] = "invalid"]
             /\ dtype' = [dtype EXCEPT ![ino[o]] = "invalid"]
             /\ holder' = [holder EXCEPT ![o] = t]
             /\ inode_clear(ino[o])
             /\ pc' = [pc EXCEPT ![t] = "put_detach"]
             /\ UNCHANGED po
          \/ /\ ~(rc[o] - 1 <= 1 /\ elinks[o] = 0)
             /\ pc' = [pc EXCEPT ![t] = ret[t]]
             /\ po' = [po EXCEPT ![t] = NoObj]
             /\ UNCHANGED <<etype, dtype, holder, mapVars>>
    /\ UNCHANGED <<dlinks, dirent, alloc, list, ino, elinks, op, nm, ip, dp, ret,
                   fds, calls, panicked>>

(* Fault: put frees an Inode with no reference left whatever its links. *)
putIgnoringLinks(t) ==
    /\ At(t, "put") /\ Free(po[t])
    /\ LET o == po[t] IN
       /\ rc' = [rc EXCEPT ![o] = @ - 1]
       /\ \/ /\ rc[o] - 1 = 0
             /\ etype' = [etype EXCEPT ![o] = "invalid"]
             /\ dtype' = [dtype EXCEPT ![ino[o]] = "invalid"]
             /\ holder' = [holder EXCEPT ![o] = t]
             /\ inode_clear(ino[o])
             /\ pc' = [pc EXCEPT ![t] = "put_detach"]
             /\ UNCHANGED po
          \/ /\ rc[o] - 1 /= 0
             /\ pc' = [pc EXCEPT ![t] = ret[t]]
             /\ po' = [po EXCEPT ![t] = NoObj]
             /\ UNCHANGED <<etype, dtype, holder, mapVars>>
    /\ UNCHANGED <<dlinks, dirent, alloc, list, ino, elinks, op, nm, ip, dp, ret,
                   fds, calls, panicked>>

(* inode_put: unalertable_wait_sem(&inode->lock); decrement_rc.  With no  *)
(* reference and no link left, the entry's type becomes INODE_INVALID,    *)
(* inode_clear frees the blocks and inode_sync writes the entry (the      *)
(* lock still held); otherwise post_sem and return.                       *)
put(t) ==
    /\ At(t, "put") /\ Free(po[t])
    /\ LET o == po[t] IN
       /\ rc' = [rc EXCEPT ![o] = @ - 1]
       /\ \/ /\ rc[o] - 1 = 0 /\ elinks[o] = 0
             /\ etype' = [etype EXCEPT ![o] = "invalid"]
             /\ dtype' = [dtype EXCEPT ![ino[o]] = "invalid"]
             /\ holder' = [holder EXCEPT ![o] = t]
             /\ inode_clear(ino[o])
             /\ pc' = [pc EXCEPT ![t] = "put_detach"]
             /\ UNCHANGED po
          \/ /\ ~(rc[o] - 1 = 0 /\ elinks[o] = 0)
             /\ pc' = [pc EXCEPT ![t] = ret[t]]
             /\ po' = [po EXCEPT ![t] = NoObj]
             /\ UNCHANGED <<etype, dtype, holder, mapVars>>
    /\ UNCHANGED <<dlinks, dirent, alloc, list, ino, elinks, op, nm, ip, dp, ret,
                   fds, calls, panicked>>

(* inode_put's free path, after the clear: under `lock`, detach_from_list; *)
(* post_sem(&inode->lock); kfree.                                          *)
put_detach(t) ==
    /\ At(t, "put_detach")
    /\ list' = list \ {po[t]} /\ alloc' = alloc \ {po[t]}
    /\ holder' = [holder EXCEPT ![po[t]] = NoThread]
    /\ pc' = [pc EXCEPT ![t] = ret[t]]
    /\ po' = [po EXCEPT ![t] = NoObj]
    /\ UNCHANGED <<diskVars, ino, rc, etype, elinks, op, nm, ip, dp, ret, fds,
                   calls, panicked>>

(* The steps of a call in progress. *)
Step(t) ==
    \/ Namex(t) \/ cr_lock(t) \/ cr_lockip(t) \/ op_lock(t) \/ op_file(t) \/ ch_lock(t)
    \/ ul_lock(t) \/ ul_lockip(t) \/ ul_links(t) \/ put(t) \/ put_detach(t)

(* The kernel has panicked, or every call has returned and the bound is   *)
(* reached with every file closed: nothing is left to do.                  *)
Halt ==
    /\ \/ panicked
       \/ calls = MaxCalls /\ \A t \in Threads : pc[t] = "idle"
    /\ UNCHANGED vars

Next ==
    \/ \E t \in Threads, o \in Ops, name \in Names : SysCall(t, o, name)
    \/ \E t \in Threads, o \in Objs : CloseCall(t, o)
    \/ \E t \in Threads, o \in Objs : WriteCall(t, o)
    \/ \E t \in Threads, o \in Objs : ReadCall(t, o)
    \/ \E t \in Threads : Step(t)
    \/ Halt

(* Every process is scheduled round robin, and a sleep-lock is held only  *)
(* across a call's own steps; a process need not make another call.      *)
Spec == Init /\ [][Next]_vars /\ \A t \in Threads : WF_vars(Step(t))
-----------------------------------------------------------------------------
(* The references thread t holds on o: its open files, the Inode pointers *)
(* of the call in progress, and the one a put has yet to drop.             *)
Held(t, o) ==
    fds[t][o] + (IF ip[t] = o THEN 1 ELSE 0) + (IF dp[t] = o THEN 1 ELSE 0)
    + (IF po[t] = o /\ pc[t] = "put" THEN 1 ELSE 0)

Refs(o) ==
    MapThenSumSet(LAMBDA t : Held(t, o), Threads)
    + (IF o = RootObj THEN 1 + Cardinality(Threads) ELSE 0)

(* inode_get, inode_put and the callers' pairing of them keep every cached *)
(* Inode's rc.count equal to the references the processes hold (with      *)
(* inodes.root and every cwd on the root), across every interleaving of   *)
(* namei, create, unlinkat and close.                                      *)
RcExact == \A o \in list : rc[o] = Refs(o)

(* No process holds a reference to an Inode that inode_put has kfree'd:   *)
(* a file unlinked while open stays usable until its last close.           *)
NoUseAfterFree == \A t \in Threads, o \in Objs : Held(t, o) > 0 => o \in alloc

(* No directory entry names an inode that inode_put has cleared to        *)
(* INODE_INVALID on disk (unlinkat zeroes the entry before the link count  *)
(* drops, and put frees only with no link left).                           *)
NoDanglingEntry ==
    \A x \in Names : dirent[x] /= 0 => dtype[dirent[x]] /= "invalid"

(* An inode no directory entry links is in use only as long as someone     *)
(* holds it: once unlinkat and the last close have put it, it is free on   *)
(* disk (spec scenario 4, unlink while open).                              *)
OrphanFreed ==
    \A n \in INos \ {0} :
        dtype[n] /= "invalid" /\ dlinks[n] = 0 =>
            \E o \in list : ino[o] = n /\ Refs(o) > 0

(* Every sys_openat, sys_unlinkat and file_close returns (or the kernel    *)
(* has panicked): the sleep-locks of the directory and the file are never  *)
(* waited on in a cycle, and no call waits on a lock it holds itself.     *)
CallsReturn ==
    \A t \in Threads : pc[t] /= "idle" ~> (pc[t] = "idle" \/ panicked)

(* The blocks inode n owns, and how many slots name them. *)
Owned(n) ==
    {addrs[n][k] : k \in DirectSlots(n)} \cup ({indirect[n]} \ {0})
    \cup {blk[indirect[n]][k] : k \in IndirectSlots(n)}
Slots(n) == Cardinality(DirectSlots(n)) + (IF indirect[n] /= 0 THEN 1 ELSE 0)
            + Cardinality(IndirectSlots(n))

(* The block holding byte offset k of inode n, 0 if unmapped. *)
Slot(n, k) ==
    IF k < NDIRECT THEN addrs[n][k]
    ELSE IF indirect[n] = 0 THEN 0 ELSE blk[indirect[n]][k - NDIRECT]

(* The bitmap and the block maps agree, across concurrent writes to one    *)
(* file, unlink while it is open and the last put's inode_clear: a block's *)
(* bit is set exactly when it is a metadata block or some inode owns it,   *)
(* no block is owned twice (no double allocation, so no cache_free of a   *)
(* clear bit borrowing from its neighbours), and every block below        *)
(* num_bytes is mapped, so inode_read never reaches inode_map's           *)
(* allocation with ctx NULL.                                              *)
BlocksExact ==
    LET inUse == UNION {Owned(n) : n \in INos \ {0}}
    IN /\ \A b \in BlockNos : Bit(bm, b) = 1 <=> (b < NumMeta \/ b \in inUse)
       /\ MapThenSumSet(Slots, INos \ {0}) = Cardinality(inUse)
       /\ \A n \in INos \ {0} : \A k \in 0..(nbytes[n] - 1) : Slot(n, k) /= 0
====
