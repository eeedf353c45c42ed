\* The log line of the signal handler: "Exiting...".
CONSTANTS
    Confs <- LiveConfs
    Timeout = 2
SPECIFICATION FairSpec
PROPERTIES
    ExitsWhenSignalled
