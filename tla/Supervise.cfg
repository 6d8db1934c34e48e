CONSTANTS
    MaxMishaps <- MCMaxMishaps
SPECIFICATION ServiceSpec
INVARIANTS ServiceTypeOK StackedOnlyByOverlap
PROPERTIES SparesLiveMount ServersRecover MountRecovers
CHECK_DEADLOCK FALSE
