CONSTANTS
    w = w  r = r  none = none
    Writer <- w
    Reader <- r
    NoThread <- none
    PIPE_SIZE = 2
    WriteLens = {1, 3}
    ReadLens = {1, 2}
    MaxBytes = 4
    MaxReads = 4
SPECIFICATION Spec
INVARIANT TypeOK
INVARIANT BufferBound
PROPERTY ReadReturns
PROPERTY WriteReturns
