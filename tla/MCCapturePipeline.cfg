CONSTANTS
    NULL = NULL
    Settings <- MCSettings
    MaxRequests <- MCMaxRequests
    MaxOpens <- MCMaxOpens
    MaxOutputBuffers <- MCMaxOutputBuffers


SPECIFICATION Spec

INVARIANT ResultsInSubmissionOrder
INVARIANT ShutterPrecedesResult
