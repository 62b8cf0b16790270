CONSTANTS
    NULL = NULL
    NStatic <- MCNStatic
    MaxOpens <- MCMaxOpens
    MaxInits <- MCMaxInits

SPECIFICATION Spec

INVARIANT DefaultSettingsCorrect
