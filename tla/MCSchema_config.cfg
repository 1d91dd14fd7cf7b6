CONSTANTS
    None = None
    Gone = Gone
    Designers = {d1, d2}
    Seeds <- MCSeeds
    Foreign <- Legacy
    Example <- ExampleFile
    Files <- CutFiles
SPECIFICATION MCSpec
SYMMETRY DesignerSymmetry
CHECK_DEADLOCK FALSE
INVARIANTS
    CatalogueSound
    SidesAgree
    ReportsComplete
    ExportsFaithful
    ForeignKept
