SPECIFICATION GroupSpec
CONSTANTS
    N = 2
PROPERTIES
    PhasesInOrder
