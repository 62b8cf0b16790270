----------------------------- MODULE MCFrameFill -----------------------------
(* Constants of the TLC runs of FrameFill: a BLOB, a flexible YUV, an RGBA *)
(* and an RGB_888 stream, two widths so that raw frame and buffer may     *)
(* differ in size, ashmem regions up to one byte larger than the frame,   *)
(* and requests of up to two output buffers.                              *)
EXTENDS FrameFill

MCHalFormats == {"BLOB", "YCbCr_420_888", "RGBA_8888", "RGB_888"}
MCWidths == {2, 4}
MCHeights == {2}
MCMaxPad == 1
MCBlobLen == 64
MCMaxBuffers == 2
=============================================================================
