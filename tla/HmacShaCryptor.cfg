\* Three goroutines hash two inputs, and may destroy the cryptor.
SPECIFICATION Spec
CONSTANTS
    p1 = p1  p2 = p2  p3 = p3  x1 = x1  x2 = x2
    Procs <- MCProcs
    Inputs <- MCInputs
    NoProc = NoProc
SYMMETRY Sym
INVARIANTS DigestOfOwnInput DestroyedIsUnusable
