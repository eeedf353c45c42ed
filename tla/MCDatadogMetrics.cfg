\* Two agents, good and bad keys of the client and of the environment: what a pass, a refusal and a timeout mean.
CONSTANTS
    Agents = {own, other}
    Own = own
    Logins <- MCLogins
    Delay = 2
    Timeout = 2
    LastStart = 1
SPECIFICATION Spec
INVARIANTS
    TypeOK
    PassMeansAlive
    TimeoutMeansSilence
    OwnKeysPrevail
