SPECIFICATION FairSpec
CONSTANTS
    Edits = {e1, e2}
    Households = {e2}
    NoPlan = NoPlan
    MaxFaults = 2
INVARIANTS
    TypeOK
    VerifiedOrUntouched
    DoneMeansInstalled
    EditsSurvive
PROPERTIES
    ConversionFinishes
    ImplementsUpgrade
