\* Two sign-ups, two rotations, deletions and a limit that changes.
SPECIFICATION Spec
CONSTANTS
    Signups = {r1, r2}
    Rotations = {q1, q2}
    Addresses = {x, y}
    NoAddress = NoAddress
    MaxLimit = 2
    MaxDeletions = 1
    MaxTraffic = 1
SYMMETRY Symmetry
INVARIANTS TypeOK LimitOnlyInARace PairOrNothing OldKeysRevoked OneKeyUnlessTangled KeylessOnlyWhile DeletedWholeUnlessTouched
CHECK_DEADLOCK FALSE
