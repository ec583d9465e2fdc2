SPECIFICATION LiveSpec
CONSTANTS
    Operations = {o1, o2, o3}
    Projects = {j1, j2}
    Resources = {k1, k2}
    Coordinators = {c1, c2}
    None = None
INVARIANTS
    MapsFit
PROPERTIES
    ImplementsAccess
    WriterNotOvertaken
    EveryOperationRuns
