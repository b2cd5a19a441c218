\* Every deployment, with one kill; another node beside this one.
CONSTANTS
    Deployments <- MCDeployments
    Words <- MCWords
    SocketAddress <- MCSocketAddress
    Others <- MCOthers
    MaxCrashes = 1
SPECIFICATION Spec
INVARIANTS
    TypeOK Authenticated BrainNeverRegisters OnlyOthersCounted
    NeverDiesSilently ServesLocally OneRegion
PROPERTIES AcceptedServes BridgeRegisters
