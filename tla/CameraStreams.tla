---------------------------- MODULE CameraStreams ----------------------------
(***************************************************************************)
(* Stream configuration of Camera: configureStreams with its helpers       *)
(* reuseStreamLocked, isValidStreamSetLocked, setupStreamsLocked and       *)
(* destroyStreamsLocked, the Stream objects they allocate and delete, and  *)
(* the framework's camera3_stream_t descriptors they read and write.       *)
(*                                                                         *)
(* A Stream object is a number of Objs; deleting it moves it out of        *)
(* live.  Reading a deleted Stream in isValidReuseStream is undefined      *)
(* behaviour and is modelled as either outcome of the check.  Stream.h     *)
(* and Stream.cpp are not part of src/: the Stream constructor, its type  *)
(* tests, isValidReuseStream, setUsage and setMaxBuffers are modelled from *)
(* the spec (3, 4.1): a Stream records the descriptor's direction and     *)
(* format when it is constructed, and setMaxBuffers writes the negotiated *)
(* count back into the descriptor.                                        *)
(***************************************************************************)
EXTENDS Naturals, Sequences

CONSTANTS
    FwStreams,         \* the framework's camera3_stream_t descriptors
    FrameworkFormats,  \* pixel formats the framework may request
    Consumers,         \* consumer usage bits the framework may set
    MaxObjs,           \* bound on the number of Stream objects allocated
    MaxListLen,        \* bound on num_streams of a configuration
    NULL

Types == {"output", "input", "bidir"}

(* Pixel formats: IMPL is HAL_PIXEL_FORMAT_IMPLEMENTATION_DEFINED. *)
Formats == FrameworkFormats \cup {"IMPL", "YCbCr_420_888", "RGB_888"}

Objs == 1..MaxObjs

ASSUME StreamsAssumption ==
    /\ FwStreams # {}
    \* the GPU (GRALLOC_USAGE_HW_TEXTURE), the video encoder, or neither
    /\ Consumers \subseteq {"texture", "encoder", "other"}
    /\ NULL \notin FwStreams \cup Objs
    /\ MaxObjs \in Nat
    /\ MaxListLen \in Nat \ {0}

VARIABLES
    desc,        \* desc[a]: the fields of camera3_stream_t a
    objs,        \* objs[o]: the fields of Stream object o
    live,        \* the Stream objects allocated and not deleted
    nextObj,     \* the next Stream object to allocate
    mStreams,    \* Camera::mStreams
    committed,   \* ghost: the descriptor list of the last successful call
    edited,      \* ghost: committed descriptors the framework changed since
    lastCall,    \* ghost: the outcome of the last configureStreams
    cpc,         \* where configureStreams is: "idle" or in its loop
    cfg,         \* stream_config->streams of the call in progress
    idx,         \* the loop's index into cfg (i + 1)
    newStreams   \* configureStreams' local newStreams

vars == <<desc, objs, live, nextObj, mStreams, committed, edited, lastCall,
          cpc, cfg, idx, newStreams>>

Descriptor ==
    [stream_type: Types, format: Formats, consumer: Consumers,
     priv: Objs \cup {NULL}, max_buffers: 0..1]

StreamObj == [type: Types, format: Formats, reuse: BOOLEAN]

(* The framework hands the HAL a fresh camera3_stream_t: no priv, and     *)
(* max_buffers 0, which asks for a new stream.                            *)
FreshDescriptors ==
    [stream_type: Types, format: FrameworkFormats, consumer: Consumers,
     priv: {NULL}, max_buffers: {0}]

(* The stream_config lists the framework may pass: non-empty, no          *)
(* descriptor twice.                                                      *)
StreamLists ==
    UNION {{l \in [1..n -> FwStreams] :
               \A i, j \in 1..n : i # j => l[i] # l[j]} : n \in 1..MaxListLen}

IsOutputType(t) == t \in {"output", "bidir"}
IsInputType(t) == t \in {"input", "bidir"}

Range(s) == {s[i] : i \in DOMAIN s}

-----------------------------------------------------------------------------
(* One entry of the loop of configureStreams (lines 218-256).  p is the   *)
(* loop's state: the Stream objects, the descriptors, newStreams, the     *)
(* allocation counter, and whether the entry failed (goto err_out).      *)

(* Stream::isValidReuseStream: the descriptor still has the direction and *)
(* format the Stream recorded; on a deleted Stream, either outcome.       *)
IsValidReuseStream(p, o, d, ub) ==
    IF o \in p.live
      THEN p.objs[o].type = d.stream_type /\ p.objs[o].format = d.format
      ELSE ub

(* Lines 232-256: priv and usage are written into the descriptor, and an *)
(* IMPLEMENTATION_DEFINED output format is resolved from the consumer.   *)
BindDescriptor(d, o) ==
    [d EXCEPT !.priv = o,
              !.format =
                 IF d.format = "IMPL" /\ IsOutputType(d.stream_type)
                   THEN IF d.consumer \in {"texture", "encoder"}
                          THEN "YCbCr_420_888" ELSE "RGB_888"
                   ELSE d.format]

(* reuseStreamLocked: the Stream named by priv is checked and marked     *)
(* reused; NULL (the entry fails) when the check fails.                  *)
ReuseStreamLocked(p, d, ub) ==
    IF IsValidReuseStream(p, d.priv, d, ub) THEN d.priv ELSE NULL

(* One iteration of the loop: reuse or create the Stream, goto err_out   *)
(* on NULL, else bind it to the descriptor.                              *)
ConfigEntry(p, a, ub) ==
    LET d == p.desc[a] IN
    IF d.max_buffers > 0
      THEN IF ReuseStreamLocked(p, d, ub) # NULL
             THEN [p EXCEPT !.objs[d.priv].reuse = TRUE,
                            !.new = Append(p.new, d.priv),
                            !.desc[a] = BindDescriptor(d, d.priv)]
             ELSE [p EXCEPT !.failed = TRUE]
      ELSE \* new Stream(mId, astream)
           [p EXCEPT !.objs[p.next] = [type |-> d.stream_type,
                                       format |-> d.format, reuse |-> FALSE],
                     !.live = p.live \cup {p.next},
                     !.next = p.next + 1,
                     !.new = Append(p.new, p.next),
                     !.desc[a] = BindDescriptor(d, p.next)]

(* isValidStreamSetLocked: non-empty, at least one output, at most one   *)
(* input (a bidirectional stream counts as both).                        *)
IsValidStreamSet(streams, o2s) ==
    /\ streams # <<>>
    /\ \E i \in DOMAIN streams : IsOutputType(o2s[streams[i]].type)
    /\ \A i, j \in DOMAIN streams :
          (IsInputType(o2s[streams[i]].type) /\ IsInputType(o2s[streams[j]].type))
             => i = j

(* setupStreamsLocked: every stream gets max_buffers 1 (setMaxBuffers     *)
(* writes it into the stream's descriptor).                              *)
SetupStreams(d, list) ==
    [a \in FwStreams |-> IF a \in Range(list)
                           THEN [d[a] EXCEPT !.max_buffers = 1] ELSE d[a]]

(* Mutant: the delete loop of destroyStreamsLocked starts at index 1. *)
DestroyStreams_SkipFirst(l, streams) ==
    l \ {streams[i] : i \in 2..Len(streams)}

(* destroyStreamsLocked: delete every Stream of the array, reused or not. *)
DestroyStreams(l, streams) ==
    l \ Range(streams)

-----------------------------------------------------------------------------
Init ==
    /\ desc \in [FwStreams -> FreshDescriptors]
    /\ objs = [o \in Objs |-> [type |-> "output", format |-> "IMPL",
                               reuse |-> FALSE]]
    /\ live = {}
    /\ nextObj = 1
    /\ mStreams = <<>>
    /\ committed = <<>>
    /\ edited = {}
    /\ lastCall = [intact |-> FALSE, ok |-> TRUE]
    /\ cpc = "idle"
    /\ cfg = <<>>
    /\ idx = 1
    /\ newStreams = <<>>

(* The framework replaces descriptor a by a fresh camera3_stream_t.  It  *)
(* does so only for a stream that is not part of the configuration in    *)
(* use.                                                                  *)
NewFrameworkStream(a, d) ==
    /\ cpc = "idle"
    /\ a \notin Range(committed)
    /\ desc' = [desc EXCEPT ![a] = d]
    /\ UNCHANGED <<objs, live, nextObj, mStreams, committed, edited, lastCall,
                   cpc, cfg, idx, newStreams>>

(* The framework changes the format of a configured stream and asks to    *)
(* reuse it (spec 8, the reuse round trip with changed parameters).       *)
ChangeStreamFormat(a, f) ==
    /\ cpc = "idle"
    /\ a \in Range(committed)
    /\ desc' = [desc EXCEPT ![a].format = f]
    /\ edited' = edited \cup {a}
    /\ UNCHANGED <<objs, live, nextObj, mStreams, committed, lastCall,
                   cpc, cfg, idx, newStreams>>

(* Camera::configureStreams on a non-empty list, device initialized, up  *)
(* to its loop (lines 190-217): under mDeviceLock, mark every Stream of   *)
(* mStreams not reused and start with an empty newStreams.  The framework *)
(* thread is in the call until it returns.                                *)
ConfigureStreams(list) ==
    /\ cpc = "idle"
    /\ nextObj + Len(list) <= MaxObjs + 1
    /\ objs' = [o \in Objs |-> IF o \in Range(mStreams)
                                THEN [objs[o] EXCEPT !.reuse = FALSE]
                                ELSE objs[o]]
    /\ cfg' = list
    /\ idx' = 1
    /\ newStreams' = <<>>
    /\ cpc' = "loop"
    /\ UNCHANGED <<desc, live, nextObj, mStreams, committed, edited, lastCall>>

(* configureStreams returns: newStreams goes out of scope, and the ghost *)
(* records whether the list was the configuration in use, unchanged.     *)
Return(ok) ==
    /\ lastCall' = [intact |-> cfg = committed /\ Range(cfg) \cap edited = {},
                    ok |-> ok]
    /\ cpc' = "idle"
    /\ cfg' = <<>>
    /\ idx' = 1
    /\ newStreams' = <<>>

(* One iteration of the loop (lines 218-256); when the entry fails,      *)
(* err_out (lines 276-279) deletes every Stream of newStreams and the    *)
(* call returns -EINVAL.                                                  *)
ConfigStreamEntry(ub) ==
    /\ cpc = "loop"
    /\ idx <= Len(cfg)
    /\ LET q == ConfigEntry([objs |-> objs, desc |-> desc, live |-> live,
                             next |-> nextObj, new |-> newStreams,
                             failed |-> FALSE], cfg[idx], ub)
       IN  IF q.failed
             THEN /\ live' = DestroyStreams(live, newStreams)
                  /\ Return(FALSE)
                  /\ UNCHANGED <<objs, desc, nextObj>>
             ELSE /\ objs' = q.objs
                  /\ desc' = q.desc
                  /\ live' = q.live
                  /\ nextObj' = q.next
                  /\ newStreams' = q.new
                  /\ idx' = idx + 1
                  /\ UNCHANGED <<cpc, cfg, lastCall>>
    /\ UNCHANGED <<mStreams, committed, edited>>

(* After the loop (lines 258-279): an invalid set goes to err_out;       *)
(* otherwise setupStreamsLocked, every Stream of mStreams is deleted      *)
(* (reused or not) and newStreams becomes mStreams.                       *)
ConfigureFinish ==
    /\ cpc = "loop"
    /\ idx > Len(cfg)
    /\ IF IsValidStreamSet(newStreams, objs)
         THEN /\ desc' = SetupStreams(desc, cfg)
              /\ live' = DestroyStreams(live, mStreams)
              /\ mStreams' = newStreams
              /\ committed' = cfg
              /\ edited' = {}
              /\ Return(TRUE)
         ELSE /\ live' = DestroyStreams(live, newStreams)
              /\ Return(FALSE)
              /\ UNCHANGED <<desc, mStreams, committed, edited>>
    /\ UNCHANGED <<objs, nextObj>>

Next ==
    \/ \E a \in FwStreams, d \in FreshDescriptors : NewFrameworkStream(a, d)
    \/ \E a \in FwStreams, f \in FrameworkFormats : ChangeStreamFormat(a, f)
    \/ \E list \in StreamLists : ConfigureStreams(list)
    \/ \E ub \in BOOLEAN : ConfigStreamEntry(ub)
    \/ ConfigureFinish

Spec == Init /\ [][Next]_vars

-----------------------------------------------------------------------------
TypeOK ==
    /\ desc \in [FwStreams -> Descriptor]
    /\ objs \in [Objs -> StreamObj]
    /\ live \subseteq Objs
    /\ nextObj \in 1..MaxObjs + 1
    /\ mStreams \in Seq(Objs)
    /\ committed \in Seq(FwStreams)
    /\ edited \subseteq FwStreams
    /\ lastCall \in [intact: BOOLEAN, ok: BOOLEAN]
    /\ cpc \in {"idle", "loop"}
    /\ cfg \in Seq(FwStreams)
    /\ idx \in 1..MaxListLen + 1
    /\ newStreams \in Seq(Objs)

(* No Stream object leaks: every allocated Stream that is not deleted is *)
(* in mStreams or, while configureStreams runs, in its newStreams; so    *)
(* once a call returns, failed or succeeded, every live Stream is in      *)
(* mStreams.                                                              *)
NoStreamLeak ==
    live \subseteq Range(mStreams) \cup Range(newStreams)

(* Spec 3 and 4.1: the committed stream set stays usable: every Stream   *)
(* in mStreams is allocated, also after a reconfiguration reused it and  *)
(* after a failed reconfiguration that named it.                         *)
CommittedStreamsLive ==
    Range(mStreams) \subseteq live

(* Spec 8, reuse round trip: configuring again with exactly the streams  *)
(* of the configuration in use, none of them changed, succeeds.          *)
ReuseRoundTrip ==
    lastCall.intact => lastCall.ok

(* Every output stream of the configuration in use has a pixel format     *)
(* VirtualCamera::HalToV4L2PixelFormat maps, so the worker can fill its   *)
(* buffers.                                                               *)
ConvertibleFormats == {"IMPL", "YCbCr_420_888", "BLOB", "RGBA_8888"}

CommittedOutputFormatsConvertible ==
    \A a \in Range(committed) :
        IsOutputType(desc[a].stream_type) => desc[a].format \in ConvertibleFormats
=============================================================================
