CONSTANTS
    h1 = h1  h2 = h2  h3 = h3  g1 = g1  NoAddr = NoAddr
    Objs <- MCObjs
    Pgs <- MCPgs
    PAGE_SIZE = 64
    MaxPages = 3
    Sizes = {16, 40}
SPECIFICATION Spec
INVARIANT TypeOK
INVARIANT HeapExact
PROPERTY AllocSafe
CHECK_DEADLOCK FALSE
