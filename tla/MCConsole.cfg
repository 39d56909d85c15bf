CONSTANTS
    BUF = 3
    Chars = {"a", "b"}
    ReadLens = {1, 3}
    MaxKeys = 5
    MaxReads = 3
SPECIFICATION Spec
INVARIANT TypeOK
PROPERTY ReadProgress
\* The console waits for keys forever once nobody types: a state with no
\* step is the reader asleep on conssem, or a panic.
CHECK_DEADLOCK FALSE
