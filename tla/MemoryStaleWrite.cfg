SPECIFICATION MemorySpec
CONSTANTS
    Extractors = {w1, w2}
    Sources = {1, 2}
    Values = {x, y}
    NoRow = NoRow
    Operators = {o1}
    Omitted = Omitted
    Payloads <- ValueAndMark
    MaxRows = 2
    MaxRuns = 2
    MaxOperations = 1
INVARIANT OnlyApprovedInferences
CHECK_DEADLOCK FALSE
