\* The comment above CreateNamespace: Create stands in for Apply.
CONSTANTS
    Confs <- ReusedConfs
    Timeout = 2
SPECIFICATION Spec
INVARIANTS
    CreateActsAsApply
