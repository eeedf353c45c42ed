\* Every check, fresh and reused namespaces, and the contract it keeps.
CONSTANTS
    Confs <- AllConfs
    Timeout = 2
SPECIFICATION Spec
INVARIANTS
    TypeOK
    LeakIsReported
    PassMeansApplied
PROPERTIES
    ReverseTeardown
    NoApplyAfterCancel
    KeepsContract
