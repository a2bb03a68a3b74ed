\* Three texts of two importances over two entries, two calls at once.
SPECIFICATION Spec
CONSTANTS
    Texts = {a, b, c}
    Top = 2
    Cap = 2
    Calls = {x, y}
    MaxRestarts = 2
SYMMETRY Symmetry
INVARIANTS
    TypeOK
    OneEntryPerText
    ImportantStays
    ForgottenStays
