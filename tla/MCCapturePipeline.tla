------------------------ MODULE MCCapturePipeline ------------------------
(* Model-checking instance of CapturePipeline: two settings blobs, three  *)
(* accepted requests, two open sessions, one output buffer per request.  *)
EXTENDS CapturePipeline

MCSettings == {"s1", "s2"}
MCMaxRequests == 3
MCMaxOpens == 2
MCMaxOutputBuffers == 1
=============================================================================
