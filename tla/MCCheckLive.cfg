\* Termination and clean-up under fairness.
CONSTANTS
    Confs <- LiveConfs
    Timeout = 2
SPECIFICATION FairSpec
PROPERTIES
    HangsOnlyInRequests
    CleansUp
    DoomedFails
