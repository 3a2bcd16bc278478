CONSTANTS
    NatLines <- MC_NatLines
    FilterLines <- MC_FilterLines
    MaxLines = 2
SPECIFICATION Spec
INVARIANT AppliedAsWritten
