\* proc_core: fork, exit, wait, kill of the init process, open, dup and
\* close, with timer preemption anywhere between locked regions.
CONSTANTS
    root = root
    u1 = u1
    u2 = u2
    u3 = u3
    none = none
    Root <- root
    Users <- MCUsers
    InitProc <- u1
    NoProc <- none
    NFILE = 3
    NOFILE = 2
    KillPids = {2, 3}
    MaxForks = 3
    MaxFdOps = 2
    MaxKills = 1
SPECIFICATION Spec
INVARIANT TypeOK
INVARIANT RqConsistent
INVARIANT ChildexitCredits
INVARIANT PidUnique
INVARIANT FdRefs
PROPERTY RunnableRuns
PROPERTY WaitReturns
