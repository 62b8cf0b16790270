------------------------------ MODULE FrameFill ------------------------------
(***************************************************************************)
(* The buffer-filling loop of VirtualCamera::enqueueRequestBuffers: for    *)
(* each output buffer of the request the worker holds, fetch a raw frame   *)
(* (VirtualCameraService::getCameraBuffer, a CameraFrameBuffer), wrap the  *)
(* framework's buffer in a GrallocFrameBuffer, Map it, fill it by copy,    *)
(* scale or conversion, and unmap it when the frame goes out of scope;     *)
(* then notify the shutter and send the result, and take the next request. *)
(*                                                                         *)
(* The worker is one thread and the frame buffers are its locals, so each  *)
(* step is the code between two calls whose outcome matters.  Pixel data   *)
(* is abstracted away: a buffer is its format and size, a raw frame its    *)
(* size and the byte length of its ashmem region.  The outcomes of the     *)
(* service, of gralloc locking and of the image processor are inputs.     *)
(***************************************************************************)
EXTENDS Naturals, Sequences

CONSTANTS
    HalFormats,   \* HAL pixel formats of the configured output streams
    Widths,       \* frame widths
    Heights,      \* frame heights
    MaxPad,       \* bytes an ashmem region may hold beyond the frame
    BlobLen,      \* byte length of the gralloc buffer of a BLOB stream
    MaxBuffers,   \* bound on the output buffers of one request
    NULL

ASSUME FrameFillAssumption ==
    /\ HalFormats \subseteq {"BLOB", "IMPL", "RGBA_8888", "YCbCr_420_888",
                             "YCbCr_422_I", "YCrCb_420_SP", "YV12", "RGB_888"}
    /\ Widths \subseteq Nat \ {0} /\ Heights \subseteq Nat \ {0}
    /\ MaxPad \in Nat /\ BlobLen \in Nat /\ MaxBuffers \in Nat \ {0}

(* The numeric HAL_PIXEL_FORMAT_* codes (system/graphics.h). *)
HalFormatCode(f) ==
    CASE f = "RGBA_8888"     -> 1
      [] f = "RGB_888"       -> 3
      [] f = "YCrCb_420_SP"  -> 17
      [] f = "YCbCr_422_I"   -> 20
      [] f = "BLOB"          -> 33
      [] f = "IMPL"          -> 34
      [] f = "YCbCr_420_888" -> 35
      [] f = "YV12"          -> 842094169

(* VirtualCamera::HalToV4L2PixelFormat; "NONE" is the (uint32_t)-1 it   *)
(* returns for a format it does not know.                                *)
HalToV4L2PixelFormat(f) ==
    CASE f = "BLOB"          -> "JPEG"
      [] f = "IMPL"          -> "BGR32"
      [] f = "RGBA_8888"     -> "BGR32"
      [] f = "YCbCr_420_888" -> "YUV420"
      [] f = "YCbCr_422_I"   -> "YUYV"
      [] f = "YCrCb_420_SP"  -> "NV21"
      [] f = "YV12"          -> "YVU420"
      [] OTHER               -> "NONE"

(* ImageProcessor::GetConvertedSize (image_processor.cpp is not part of   *)
(* src/): the byte size of a w x h frame; 4:2:0 layouts need even sides. *)
GetConvertedSize(fourcc, w, h) ==
    CASE fourcc \in {"YUV420", "YVU420", "NV21"} ->
            IF w % 2 = 0 /\ h % 2 = 0 THEN (w * h * 3) \div 2 ELSE 0
      [] fourcc \in {"RGB32", "BGR32"} -> w * h * 4
      [] OTHER -> 0

(* An output buffer of the request: its stream's format and size, and    *)
(* the byte length of the gralloc buffer behind it.                       *)
OutputBuffers ==
    [format: HalFormats, width: Widths, height: Heights, length: {BlobLen}]

Requests == UNION {[1..n -> OutputBuffers] : n \in 1..MaxBuffers}

(* A raw frame of the service, as the CameraFrameBuffer constructor      *)
(* builds it from the remote's handle: the remote's fourcc is discarded   *)
(* (both branches set YUV420), buffer_size_ and data_size_ are the size   *)
(* of the ashmem region, which the service may have made larger than the  *)
(* frame.                                                                  *)
CameraFrameBuffer(w, h, fourcc, pad) ==
    [fourcc |-> IF fourcc = 1 THEN "YUV420" ELSE "YUV420",
     width |-> w, height |-> h,
     data_size |-> GetConvertedSize("YUV420", w, h) + pad]

(* bufferHandle.fourcc: the value the constructor tests, and another.     *)
RemoteFourccs == {0, 1}

RawFrames ==
    {CameraFrameBuffer(w, h, fc, pad) :
        w \in Widths, h \in Heights, fc \in RemoteFourccs, pad \in 0..MaxPad}

VARIABLES
    outs,       \* request->output_buffers of the request the worker holds
    i,          \* the loop's position in outs
    pc,         \* where the worker is in the loop
    src,        \* camera_buffer, the raw frame of this iteration
    frame,      \* output_frame, the GrallocFrameBuffer of this iteration
    status,     \* status of each output buffer (OK since preprocessCaptureBuffer)
    fills,      \* ghost: the path each output buffer took (copy, scale, ...)
    copies,     \* ghost: the memcpy calls of the fast path, as [size, cap]
    maps,       \* ghost: successful Map calls per output buffer
    unmaps      \* ghost: gralloc unlocks per output buffer

vars == <<outs, i, pc, src, frame, status, fills, copies, maps, unmaps>>

-----------------------------------------------------------------------------
(* The GrallocFrameBuffer constructor as the worker calls it (lines       *)
(* 822-824): width, height and fourcc of the stream, then                 *)
(* device_buffer_length <- iter.stream->format and                        *)
(* stream_usage <- camera_buffer->GetBufferSize(), in that order.         *)
GrallocFrameBuffer(b, fourcc, device_buffer_length, stream_usage) ==
    [fourcc |-> fourcc, width |-> b.width, height |-> b.height,
     device_buffer_length |-> device_buffer_length,
     stream_usage |-> stream_usage,
     is_mapped |-> FALSE, buffer_size |-> 0, data_size |-> 0]

(* GrallocFrameBuffer::Map with the outcome of the gralloc lock: NULL on  *)
(* failure (-EINVAL), else the mapped frame.  A JPEG frame is locked with  *)
(* device_buffer_length_ bytes, which become its capacity; the 4:2:0 and  *)
(* RGB layouts get the converted size; YUYV keeps the capacity it had.    *)
Map(f, lockOk) ==
    IF f.is_mapped \/ f.fourcc \notin {"YUV420", "YVU420", "YUYV", "JPEG",
                                        "BGR32", "RGB32"} \/ ~lockOk
      THEN NULL
      ELSE [f EXCEPT
              !.is_mapped = TRUE,
              !.buffer_size =
                 CASE f.fourcc = "JPEG" -> f.device_buffer_length
                   [] f.fourcc \in {"YVU420", "YUV420", "RGB32", "BGR32"} ->
                         GetConvertedSize(f.fourcc, f.width, f.height)
                   [] OTHER -> f.buffer_size]

(* The test for the memcpy fast path (lines 831-834). *)
FastPathMatches(f, s) ==
    /\ f.fourcc = "YUV420" /\ s.fourcc = f.fourcc
    /\ s.width = f.width /\ s.height = f.height

-----------------------------------------------------------------------------
NoFill == "none"

(* A buffer skipped before it was filled. *)
Skipped == "skipped"

Init ==
    /\ outs \in Requests
    /\ i = 1
    /\ pc = "get"
    /\ src = NULL
    /\ frame = NULL
    /\ status = [k \in DOMAIN outs |-> "OK"]
    /\ fills = [k \in DOMAIN outs |-> NoFill]
    /\ copies = {}
    /\ maps = [k \in DOMAIN outs |-> 0]
    /\ unmaps = [k \in DOMAIN outs |-> 0]

(* Lines 817-824: getCameraBuffer; with no raw frame the buffer is        *)
(* skipped, else the GrallocFrameBuffer is constructed.                   *)
GetCameraBuffer(s) ==
    /\ pc = "get"
    /\ i <= Len(outs)
    /\ src' = s
    /\ IF s = NULL
         THEN /\ fills' = [fills EXCEPT ![i] = Skipped]
              /\ i' = i + 1
              /\ UNCHANGED <<pc, frame>>
         ELSE /\ frame' = GrallocFrameBuffer(outs[i],
                             HalToV4L2PixelFormat(outs[i].format),
                             HalFormatCode(outs[i].format), s.data_size)
              /\ pc' = "map"
              /\ UNCHANGED <<i, fills>>
    /\ UNCHANGED <<outs, status, copies, maps, unmaps>>

(* Lines 825-830: Map; on failure the buffer is skipped and the frame,    *)
(* never mapped, is destroyed without unlocking anything.                 *)
MapOutputFrame(lockOk) ==
    /\ pc = "map"
    /\ IF Map(frame, lockOk) = NULL
         THEN /\ fills' = [fills EXCEPT ![i] = Skipped]
              /\ i' = i + 1
              /\ pc' = "get"
              /\ frame' = NULL
              /\ UNCHANGED maps
         ELSE /\ frame' = Map(frame, lockOk)
              /\ maps' = [maps EXCEPT ![i] = @ + 1]
              /\ pc' = "fill"
              /\ UNCHANGED <<i, fills>>
    /\ UNCHANGED <<outs, src, status, copies, unmaps>>

(* Lines 831-857 on a mapped frame: the memcpy of the raw frame's whole   *)
(* data when format and size match; else for YUV420 a Scale, which falls *)
(* back to conversion when it fails; else the conversion through         *)
(* CachedFrame, skipped when the source cannot be set.                    *)
FillOutputFrame(scaleOk, sourceOk) ==
    /\ pc = "fill"
    /\ IF FastPathMatches(frame, src)
         THEN /\ copies' = copies \cup {[size |-> src.data_size,
                                         cap |-> frame.buffer_size]}
              /\ fills' = [fills EXCEPT ![i] = "copy"]
         ELSE /\ fills' = [fills EXCEPT ![i] =
                             IF frame.fourcc = "YUV420" /\ scaleOk THEN "scale"
                             ELSE IF sourceOk THEN "convert" ELSE "skipped"]
              /\ UNCHANGED copies
    /\ pc' = "unmap"
    /\ UNCHANGED <<outs, i, src, frame, status, maps, unmaps>>

(* Mutant: the frame is released without Unmap (as if output_frame were  *)
(* a leaked heap object).                                                 *)
Unmap_Skipped ==
    /\ pc = "unmap"
    /\ frame' = NULL
    /\ i' = i + 1
    /\ pc' = "get"
    /\ UNCHANGED <<outs, src, status, fills, copies, maps, unmaps>>

(* End of the iteration: ~GrallocFrameBuffer calls Unmap, which unlocks   *)
(* a mapped buffer and clears is_mapped_.                                 *)
Unmap ==
    /\ pc = "unmap"
    /\ unmaps' = [unmaps EXCEPT ![i] = @ + (IF frame.is_mapped THEN 1 ELSE 0)]
    /\ frame' = NULL
    /\ i' = i + 1
    /\ pc' = "get"
    /\ UNCHANGED <<outs, src, status, fills, copies, maps>>

(* Lines 858-864: after the loop, notifyShutter and sendResult return the *)
(* output buffers with their status unchanged, and the worker dequeues    *)
(* the next request (modelled as a fresh choice of request).              *)
SendResult ==
    /\ pc = "get"
    /\ i > Len(outs)
    /\ pc' = "result"
    /\ UNCHANGED <<outs, i, src, frame, status, fills, copies, maps, unmaps>>

NextRequest(next) ==
    /\ pc = "result"
    /\ outs' = next
    /\ i' = 1
    /\ pc' = "get"
    /\ src' = NULL
    /\ status' = [k \in DOMAIN next |-> "OK"]
    /\ fills' = [k \in DOMAIN next |-> NoFill]
    /\ maps' = [k \in DOMAIN next |-> 0]
    /\ unmaps' = [k \in DOMAIN next |-> 0]
    /\ UNCHANGED <<frame, copies>>

Next ==
    \/ \E s \in RawFrames \cup {NULL} : GetCameraBuffer(s)
    \/ \E ok \in BOOLEAN : MapOutputFrame(ok)
    \/ \E scaleOk, sourceOk \in BOOLEAN : FillOutputFrame(scaleOk, sourceOk)
    \/ Unmap
    \/ SendResult
    \/ \E r \in Requests : NextRequest(r)

Spec == Init /\ [][Next]_vars

-----------------------------------------------------------------------------
TypeOK ==
    /\ outs \in Requests
    /\ i \in 1..MaxBuffers + 1
    /\ pc \in {"get", "map", "fill", "unmap", "result"}
    /\ src \in RawFrames \cup {NULL}
    /\ status \in [DOMAIN outs -> {"OK"}]
    /\ maps \in [DOMAIN outs -> Nat] /\ unmaps \in [DOMAIN outs -> Nat]

(* Spec 2 and 4.5: every successful Map of an output buffer is paired     *)
(* with exactly one Unmap, done before the loop moves to the next buffer, *)
(* whichever of the copy, scale, convert or skip paths the buffer took.   *)
MapsPaired ==
    /\ \A k \in DOMAIN outs : maps[k] <= 1 /\ unmaps[k] <= maps[k]
    /\ \A k \in DOMAIN outs : k < i => maps[k] = unmaps[k]
    /\ pc \in {"get", "map", "result"} => frame = NULL \/ ~frame.is_mapped

(* Spec 2 and 4.5 (data size <= capacity): the fast-path memcpy never     *)
(* writes more bytes than the mapped output buffer holds.                 *)
CopyWithinCapacity ==
    \A c \in copies : c.size <= c.cap

(* A JPEG (BLOB) output is mapped with the byte length of its gralloc     *)
(* buffer as capacity, the device_buffer_length GrallocFrameBuffer is     *)
(* meant to receive.                                                      *)
JpegCapacityIsBufferLength ==
    pc = "fill" /\ frame.fourcc = "JPEG" => frame.buffer_size = outs[i].length

(* Spec 7: a buffer the worker could not fill is marked incomplete in the *)
(* result, not returned with status OK.                                   *)
SkippedBufferNotReportedOK ==
    pc = "result" =>
        \A k \in DOMAIN outs : fills[k] = "skipped" => status[k] # "OK"
=============================================================================
