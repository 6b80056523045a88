SPECIFICATION Spec
CONSTANTS
    Suites = {s1, s2}
    NoSuite = NoSuite
    Outcomes <- MCOutcomes
    Nameless = {"leak"}
    ExitCodes = 256
    Configurations <- MCConfigurations
    OperatingSystems = {"ubuntu"}
    Plans <- MCPlans
INVARIANTS
    BaseImagesAreTheirOwn
    ImagesAreComplete
    SuccessMeansClean
    EveryLinterReports
PROPERTY
    RefinesTestSession
CHECK_DEADLOCK FALSE
