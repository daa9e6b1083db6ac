SPECIFICATION Spec
CONSTANTS
    None = None
    Keys = {"k1", "k2"}
    Setups <- MCSetups
    Programs <- MCPrograms
    MaxFaults = 0
INVARIANT
    InvokedDataSealed
