\* Fresh and reused namespaces, one to three replicas.
CONSTANTS
    NodeCounts <- MCNodeCounts
SPECIFICATION Spec
INVARIANTS
    TypeOK
    PassMeansPodsRan
