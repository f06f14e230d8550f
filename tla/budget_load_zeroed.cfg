CONSTANTS
    Cats = {food}
    Lines = {trip}
    Amounts <- UserAmounts
    Seed <- KnownGood
    Clients = {c1, c2}
    TableRows = 2
    None = None
SYMMETRY Symmetry
SPECIFICATION Spec
INVARIANTS
    LoadsAreRecovered
