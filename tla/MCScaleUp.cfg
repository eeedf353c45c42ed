\* Any number of labelled nodes up to three, coming and going.
CONSTANTS
    Nodes = {n1, n2, n3}
    Pending = pending
SYMMETRY Symmetry
SPECIFICATION Spec
INVARIANTS
    TypeOK
    PassMeansScaledUp
    Scheduling
