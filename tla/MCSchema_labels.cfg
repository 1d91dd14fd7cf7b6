CONSTANTS
    None = None
    Gone = Gone
    Designers = {d1}
    Seeds <- LabelSeeds
    Foreign <- Legacy
    Example <- ExampleFile
    Files <- CutFiles
SPECIFICATION Spec
CHECK_DEADLOCK FALSE
INVARIANT
  LabelsRoundTrip
