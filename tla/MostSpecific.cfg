SPECIFICATION Spec
CONSTANTS
    n1 = n1
    n2 = n2
    n3 = n3
    Maps <- MCMaps
    Paths <- MCPaths
    Lines = {2, 4}
    Chars = {0, 2}
    NativeIds <- MCNativeIds
    Failed = Failed
    MaxBreakpoints = 2
CHECK_DEADLOCK FALSE
SYMMETRY MCSymmetry
INVARIANT MostSpecific
