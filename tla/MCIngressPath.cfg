\* Every setting, after an earlier run or not, and beside somebody else or not.
CONSTANTS
    Settings <- AllSettings
SPECIFICATION Spec
INVARIANTS
    TypeOK
    PassMeansReached
