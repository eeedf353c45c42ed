\* Five attempts, as in the manifest, killed at any point.
CONSTANTS
    Confs <- JobConfs
    Timeout = 2
    BackoffLimit = 4
SPECIFICATION JobSpec
INVARIANTS
    JobTypeOK
    JobPassMeansApplied
    JobLeakIsReported
PROPERTIES
    LastAttemptCleansUp
