SPECIFICATION Spec
CONSTANTS
    Names = {j1, j2}
INVARIANTS TypeOK RemovedStaysRemoved
PROPERTIES ImplementsDemoNames
