CONSTANTS
    Data = {a, b}
    Zero = Zero
    Garbage = Garbage
    W = 3
    MaxSize = 2
    MaxSpans = 2
    MaxBuf = 2
SPECIFICATION Spec

INVARIANT NoForeignBytes
