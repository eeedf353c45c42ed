\* A page of one key and two names: a prefix may outgrow its page.
CONSTANTS
    Names <- MCNames
    Page = 1
    Timeout = 3
    LastWait = 2
SPECIFICATION Spec
INVARIANTS
    TypeOK
    PassMeansShipped
    TimeoutMeansMisplaced
