SPECIFICATION FairSpec
CONSTANTS
    ProbeSets = {{"startup"}, {"readiness"}, {"startup", "readiness"}, {"startup", "liveness"}}
    Exec = {"liveness"}
    SuccessThreshold <- MCSuccess
    FailureThreshold <- MCFailure
    MaxBoots = 2
    MaxFaults = 1
PROPERTIES  ReadinessConverges
