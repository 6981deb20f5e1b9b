SPECIFICATION Spec
CONSTANTS
    MaxIndex = 3
    MaxSafe = 1000
    NotIdentifiers = {"$.index"}
INVARIANT RangeSelects
