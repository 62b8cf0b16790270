------------------------- MODULE MCCameraStreams -------------------------
(* Model-checking instance of CameraStreams: two framework streams, four  *)
(* Stream objects, lists of up to two streams.                           *)
EXTENDS CameraStreams

CONSTANTS a1, a2

MCFwStreams == {a1, a2}
MCFrameworkFormats == {"IMPL", "BLOB"}
MCMaxObjs == 3
MCConsumers == {"texture", "other"}
MCMaxListLen == 2
=============================================================================
