CONSTANTS
    NULL = NULL
    HalFormats <- MCHalFormats
    Widths <- MCWidths
    Heights <- MCHeights
    MaxPad <- MCMaxPad
    BlobLen <- MCBlobLen
    MaxBuffers <- MCMaxBuffers
SPECIFICATION Spec
INVARIANT MapsPaired
