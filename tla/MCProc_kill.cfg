\* proc_kill_uaf: init forks two children; one kills the other (pid 3)
\* while init reaps it.
CONSTANTS
    root = root
    u1 = u1
    u2 = u2
    u3 = u3
    none = none
    Root <- root
    Users <- MCUsers3
    InitProc <- u1
    NoProc <- none
    NFILE = 1
    NOFILE = 1
    KillPids = {3}
    MaxForks = 2
    MaxFdOps = 0
    MaxKills = 1
SPECIFICATION Spec
INVARIANT KillTargetLive
