\* Two pages, a mail, and an address that is deleted and taken again.
SPECIFICATION Spec
CONSTANTS
    Pages = {p1, p2}
    Mails = {m1}
    Contacts = {c1, c2}
    Nothing = Nothing
    MaxRows = 2
    MaxLost = 1
SYMMETRY Symmetry
INVARIANTS TypeOK AgreesWhenSettled ChecksDifferOnlyInARace
CHECK_DEADLOCK FALSE
