CONSTANTS
    a1 = a1
    a2 = a2
    NULL = NULL
    FwStreams <- MCFwStreams
    FrameworkFormats <- MCFrameworkFormats
    MaxObjs <- MCMaxObjs
    Consumers <- MCConsumers
    MaxListLen <- MCMaxListLen

SPECIFICATION Spec

INVARIANT ReuseRoundTrip
