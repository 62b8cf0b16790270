CONSTANTS
    c0 = c0
    c1 = c1
    Workers <- MCTwoWorkers
    MaxDeaths <- MCMaxDeaths

SPECIFICATION Spec

INVARIANT NoNullProxyDeref
