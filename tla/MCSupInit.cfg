\* The answer of initialize.
CONSTANTS
    HAConnections = 2
    None = None
SPECIFICATION Spec
PROPERTIES
    NilMeansStarted
