------------------------------- MODULE Console -------------------------------
(***************************************************************************)
(* The console input path of src/kernel/console.c: console_intr, run by   *)
(* the UART interrupt for each key, and console_read, called by one reader *)
(* process through file_read/inode_read on the console device.            *)
(*                                                                         *)
(* The ring buf[128] with its indexes rid (next to read), wid (end of the  *)
(* input handed to readers) and eid (end of the line being edited) is kept *)
(* as the code has it, with BUF slots.  console_intr takes no lock, so the *)
(* reader's loop and the handler interleave at will; each turn of the      *)
(* reader's loop and each interrupt is one step, except that a ^D's ++rid  *)
(* and its put-back --rid are two: the handler reads rid in its full test  *)
(* and its hand-over test, and can run between them.  Only the reader      *)
(* writes rid, and only the handler writes buf, wid and eid.  conssem is a *)
(* credit count plus the sleeping reader.  Echo through the UART          *)
(* (console_putchar) is output only and left out.                          *)
(***************************************************************************)
EXTENDS Naturals, Sequences, FiniteSetsExt

CONSTANTS
    BUF,        \* slots of the ring (128 in the code)
    Chars,      \* ordinary characters a key can produce
    ReadLens,   \* the n of a console_read call
    MaxKeys,    \* bound on the keys typed
    MaxReads    \* bound on the console_read calls

ASSUME BUF \in Nat \ {0} /\ ReadLens \subseteq Nat /\ MaxKeys \in Nat /\ MaxReads \in Nat

\* The characters console_intr treats apart.
NL == "NL"      \* '\n'
CR == "CR"      \* '\r', stored as '\n'
EOT == "EOT"    \* C('D')
ETX == "ETX"    \* C('C')
NAK == "NAK"    \* C('U')
DEL == "DEL"    \* '\x7f', backspace
NUL == "NUL"    \* 0: ignored, and the content of the static buf at boot

Slots == 0..(BUF - 1)
Stored == Chars \cup {NL, EOT, NUL}

VARIABLES
    buf, rid, wid, eid,   \* the ring and its indexes
    cnt,                  \* conssem's credits
    pc,        \* the reader: "user", "loop" in console_read, "wait" before
               \* unalertable_wait_sem, "sleep" in it, "eot" past a ^D's ++rid
    m, n,      \* console_read's m and n
    got,       \* every character console_read has copied to dst, in order
    killed,    \* thisproc()->killed of the reader
    panicked,  \* an ASSERT has stopped the kernel
    keys,      \* keys typed so far
    reads      \* console_read calls so far

ringVars == <<buf, rid, wid, eid>>
vars == <<buf, rid, wid, eid, cnt, pc, m, n, got, killed, panicked, keys, reads>>

TypeOK ==
    /\ buf \in [Slots -> Stored]
    /\ rid \in Nat /\ wid \in Nat /\ eid \in Nat
    /\ cnt \in Nat
    /\ pc \in {"user", "loop", "wait", "sleep", "eot"}
    /\ m \in Nat /\ n \in Nat
    /\ got \in Seq(Chars \cup {NL})
    /\ killed \in BOOLEAN /\ panicked \in BOOLEAN
    /\ keys \in 0..MaxKeys /\ reads \in 0..MaxReads

(* Static storage starts zeroed; console_init sets conssem to 0.           *)
Init ==
    /\ buf = [s \in Slots |-> NUL]
    /\ rid = 0 /\ wid = 0 /\ eid = 0
    /\ cnt = 0
    /\ pc = "user" /\ m = 0 /\ n = 0 /\ got = <<>>
    /\ killed = FALSE /\ panicked = FALSE
    /\ keys = 0 /\ reads = 0

(* Fault: a post with nobody asleep is lost, as with a wakeup that keeps  *)
(* no count.                                                               *)
PostNoCredit ==
    IF pc = "sleep" THEN pc' = "loop" /\ UNCHANGED cnt
    ELSE UNCHANGED <<cnt, pc>>

(* post_sem(&conssem): wake the sleeping reader or leave a credit.         *)
Post ==
    IF pc = "sleep" THEN pc' = "loop" /\ UNCHANGED cnt
    ELSE cnt' = cnt + 1 /\ UNCHANGED pc

(* console_read(ip, dst, k), entry: m = n = k under conslock.  A killed    *)
(* process does not get back to user mode to make the call (trap.c).      *)
ConsoleRead(k) ==
    /\ ~panicked /\ pc = "user" /\ ~killed /\ reads < MaxReads
    /\ pc' = "loop" /\ m' = k /\ n' = k
    /\ reads' = reads + 1
    /\ UNCHANGED <<ringVars, cnt, got, killed, panicked, keys>>

(* One turn of console_read's loops.  With n = 0 it returns m - n.  With   *)
(* nothing handed over it returns -1 if killed, else it releases conslock *)
(* to wait on conssem.                                                     *)
(* Otherwise it takes buf[rid % 128] and increments rid: a ^D ends the    *)
(* read (ConsoleEot); any other character is copied, and a newline ends   *)
(* the read.                                                               *)
ConsoleReadStep ==
    /\ ~panicked /\ pc = "loop"
    /\ \/ /\ n = 0
          /\ pc' = "user" /\ UNCHANGED <<rid, cnt, n, got>>
       \/ /\ n > 0 /\ rid = wid /\ killed
          /\ pc' = "user" /\ UNCHANGED <<rid, cnt, n, got>>
       \/ /\ n > 0 /\ rid = wid /\ ~killed
          /\ pc' = "wait" /\ UNCHANGED <<rid, cnt, n, got>>
       \/ /\ n > 0 /\ rid /= wid /\ buf[rid % BUF] = EOT
          /\ rid' = rid + 1
          /\ pc' = "eot" /\ UNCHANGED <<cnt, n, got>>
       \/ /\ n > 0 /\ rid /= wid /\ buf[rid % BUF] /= EOT
          /\ LET c == buf[rid % BUF]
             IN /\ got' = Append(got, c)
                /\ pc' = IF c = NL THEN "user" ELSE "loop"
          /\ rid' = rid + 1 /\ n' = n - 1
          /\ UNCHANGED cnt
    /\ UNCHANGED <<buf, wid, eid, m, killed, panicked, keys, reads>>

(* After a ^D: put it back (--rid) if something was read already, so the  *)
(* next read returns 0, and return.                                        *)
ConsoleEot ==
    /\ ~panicked /\ pc = "eot"
    /\ rid' = IF n < m THEN rid - 1 ELSE rid
    /\ pc' = "user"
    /\ UNCHANGED <<buf, wid, eid, cnt, m, n, got, killed, panicked, keys, reads>>

(* unalertable_wait_sem(&conssem): take a credit and test rid == wid      *)
(* again, or sleep until a post.                                           *)
ConsoleWait ==
    /\ ~panicked /\ pc = "wait"
    /\ \/ cnt > 0 /\ cnt' = cnt - 1 /\ pc' = "loop"
       \/ cnt = 0 /\ pc' = "sleep" /\ UNCHANGED cnt
    /\ UNCHANGED <<ringVars, m, n, got, killed, panicked, keys, reads>>

(* Every call of console_intr is one key.                                  *)
Key == ~panicked /\ keys < MaxKeys /\ keys' = keys + 1

(* ^C: ASSERT(kill(thisproc()->pid) == 0).  The interrupted process is the *)
(* reader, another user process, or the CPU's idle Proc, whose pid kalloc *)
(* left uninitialised: kill then marks whichever process has that pid, or *)
(* finds none and returns -1, and the ASSERT panics.                       *)
IntrKill ==
    /\ Key
    /\ \/ killed' = TRUE /\ UNCHANGED panicked
       \/ UNCHANGED <<killed, panicked>>
       \/ panicked' = TRUE /\ UNCHANGED killed
    /\ UNCHANGED <<ringVars, cnt, pc, m, n, got, reads>>

(* ^U: erase back to wid or to the last newline, whichever comes first.    *)
IntrKillLine ==
    /\ Key
    /\ eid' = Max({e \in wid..eid : e = wid \/ buf[(e - 1) % BUF] = NL})
    /\ UNCHANGED <<buf, rid, wid, cnt, pc, m, n, got, killed, panicked, reads>>

(* Backspace: erase one character if the line being edited has one.       *)
IntrErase ==
    /\ Key
    /\ eid' = IF eid /= wid THEN eid - 1 ELSE eid
    /\ UNCHANGED <<buf, rid, wid, cnt, pc, m, n, got, killed, panicked, reads>>

(* Fault: '\r' is stored as it comes.                                      *)
IntrCharNoCR(k) ==
    /\ Key
    /\ \/ /\ k = NUL \/ eid - rid >= BUF
          /\ UNCHANGED <<ringVars, cnt, pc>>
       \/ /\ k /= NUL /\ eid - rid < BUF
          /\ buf' = [buf EXCEPT ![eid % BUF] = k]
          /\ eid' = eid + 1
          /\ IF k \in {NL, EOT} \/ eid + 1 = rid + BUF
             THEN wid' = eid + 1 /\ Post
             ELSE UNCHANGED <<wid, cnt, pc>>
          /\ UNCHANGED rid
    /\ UNCHANGED <<m, n, got, killed, panicked, reads>>

(* Fault: the full test lets a key in when the ring already holds 128    *)
(* characters not yet read.                                                *)
IntrCharOverfull(k) ==
    /\ Key
    /\ \/ /\ k = NUL \/ eid - rid > BUF
          /\ UNCHANGED <<ringVars, cnt, pc>>
       \/ /\ k /= NUL /\ eid - rid <= BUF
          /\ LET c == IF k = CR THEN NL ELSE k
             IN /\ buf' = [buf EXCEPT ![eid % BUF] = c]
                /\ eid' = eid + 1
                /\ IF c \in {NL, EOT} \/ eid + 1 = rid + BUF
                   THEN wid' = eid + 1 /\ Post
                   ELSE UNCHANGED <<wid, cnt, pc>>
          /\ UNCHANGED rid
    /\ UNCHANGED <<m, n, got, killed, panicked, reads>>

(* Any other key: dropped if it is 0 or the ring holds 128 characters not *)
(* yet read; else stored ('\r' as '\n') at eid, and on a newline, a ^D or *)
(* a full ring the line is handed over (wid = eid) and conssem posted.    *)
IntrChar(k) ==
    /\ Key
    /\ \/ /\ k = NUL \/ eid - rid >= BUF
          /\ UNCHANGED <<ringVars, cnt, pc>>
       \/ /\ k /= NUL /\ eid - rid < BUF
          /\ LET c == IF k = CR THEN NL ELSE k
             IN /\ buf' = [buf EXCEPT ![eid % BUF] = c]
                /\ eid' = eid + 1
                /\ IF c \in {NL, EOT} \/ eid + 1 = rid + BUF
                   THEN wid' = eid + 1 /\ Post
                   ELSE UNCHANGED <<wid, cnt, pc>>
          /\ UNCHANGED rid
    /\ UNCHANGED <<m, n, got, killed, panicked, reads>>

(* kill(pid) of the reader by another process: alert_proc does not wake a *)
(* process in unalertable_wait_sem (DEEPSLEEPING).                         *)
KillReader ==
    /\ ~panicked /\ ~killed
    /\ killed' = TRUE
    /\ UNCHANGED <<ringVars, cnt, pc, m, n, got, panicked, keys, reads>>

Next ==
    \/ \E k \in ReadLens : ConsoleRead(k)
    \/ ConsoleReadStep
    \/ ConsoleEot
    \/ ConsoleWait
    \/ IntrKill
    \/ IntrKillLine
    \/ IntrErase
    \/ \E k \in Chars \cup {NL, CR, EOT, NUL} : IntrChar(k)
    \/ KillReader

(* The scheduler runs a runnable reader: its steps are weakly fair.       *)
(* Nobody has to type, and nobody has to call console_read.               *)
Spec == Init /\ [][Next]_vars /\ WF_vars(ConsoleReadStep) /\ WF_vars(ConsoleEot)
             /\ WF_vars(ConsoleWait)

-----------------------------------------------------------------------------
(* The input handed over and the line being edited, read off the ring; a  *)
(* ^D about to be put back counts as not yet taken.                        *)
ReadFrom == IF pc = "eot" /\ n < m THEN rid - 1 ELSE rid
Unread == [i \in 1..(wid - ReadFrom) |-> buf[(ReadFrom + i - 1) % BUF]]
Line == [i \in 1..(eid - wid) |-> buf[(wid + i - 1) % BUF]]

Abs == INSTANCE AbsConsole WITH unread <- Unread, line <- Line, out <- got

ReadProgress ==
    (pc /= "user" /\ rid /= wid) ~> (pc = "user" \/ rid = wid \/ panicked)
=============================================================================
