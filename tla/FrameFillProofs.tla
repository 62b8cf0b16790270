--------------------------- MODULE FrameFillProofs ---------------------------
(***************************************************************************)
(* Proof that the buffer-filling loop of enqueueRequestBuffers pairs every *)
(* successful Map with exactly one Unmap before it moves on, for every    *)
(* set of formats and sizes and every number of output buffers.           *)
(*                                                                         *)
(* MapsPaired speaks of the buffers behind the loop, those ahead and the   *)
(* frame; to be inductive it is told where in the iteration the worker is: *)
(* buffers ahead of i were neither mapped nor unmapped, buffer i is mapped *)
(* once and not yet unmapped exactly while the worker fills or unmaps it,  *)
(* and the frame exists and is mapped exactly then.                        *)
(***************************************************************************)
EXTENDS FrameFill, TLAPS

(* Where the worker is in the loop.                                        *)
LoopPc == {"get", "map", "fill", "unmap", "result"}

(* The inductive invariant.                                                *)
IInv ==
    /\ outs \in Seq(OutputBuffers)
    /\ i \in 1..(Len(outs) + 1)
    /\ pc \in LoopPc
    /\ maps \in [DOMAIN outs -> Nat] /\ unmaps \in [DOMAIN outs -> Nat]
    /\ \A k \in DOMAIN outs : k < i => maps[k] = unmaps[k] /\ maps[k] <= 1
    /\ \A k \in DOMAIN outs : k > i => maps[k] = 0 /\ unmaps[k] = 0
    /\ pc \in {"get", "map", "result"} =>
           (i \in DOMAIN outs => maps[i] = 0 /\ unmaps[i] = 0)
    /\ pc \in {"get", "result"} => frame = NULL
    /\ pc \in {"map", "fill", "unmap"} => i \in DOMAIN outs /\ "is_mapped" \in DOMAIN frame
    /\ pc = "map" => frame.is_mapped = FALSE
    /\ pc \in {"fill", "unmap"} => frame.is_mapped = TRUE /\ maps[i] = 1 /\ unmaps[i] = 0

(* A request's output buffers form a sequence.                             *)
LEMMA RequestsAreSeqs == Requests \subseteq Seq(OutputBuffers)
BY DEF Requests

LEMMA InitIInv == Init => IInv
BY RequestsAreSeqs DEF Init, IInv, LoopPc

LEMMA NextIInv == IInv /\ [Next]_vars => IInv'
<1> SUFFICES ASSUME IInv, [Next]_vars PROVE IInv'
    OBVIOUS
<1>1. ASSUME NEW s \in RawFrames \cup {NULL}, GetCameraBuffer(s) PROVE IInv'
    <2>1. CASE s = NULL
        BY <1>1, <2>1 DEF GetCameraBuffer, IInv, LoopPc
    <2>2. CASE s # NULL
        BY <1>1, <2>2 DEF GetCameraBuffer, GrallocFrameBuffer, IInv, LoopPc
    <2>3. QED
        BY <2>1, <2>2
<1>2. ASSUME NEW ok \in BOOLEAN, MapOutputFrame(ok) PROVE IInv'
    <2>1. CASE Map(frame, ok) = NULL
        BY <1>2, <2>1 DEF MapOutputFrame, IInv, LoopPc
    <2>2. CASE Map(frame, ok) # NULL
        <3>1. frame' = Map(frame, ok) /\ maps' = [maps EXCEPT ![i] = @ + 1]
              /\ pc' = "fill" /\ UNCHANGED <<i, outs, unmaps>>
            BY <1>2, <2>2 DEF MapOutputFrame
        <3>0. "is_mapped" \in DOMAIN frame
            BY <1>2 DEF MapOutputFrame, IInv
        <3>2. "is_mapped" \in DOMAIN frame' /\ frame'.is_mapped = TRUE
            BY <2>2, <3>0, <3>1, Zenon DEF Map
        <3>3. QED
            BY <1>2, <3>1, <3>2 DEF MapOutputFrame, IInv, LoopPc
    <2>3. QED
        BY <2>1, <2>2
<1>3. ASSUME NEW scaleOk \in BOOLEAN, NEW sourceOk \in BOOLEAN,
             FillOutputFrame(scaleOk, sourceOk)
      PROVE  IInv'
    BY <1>3 DEF FillOutputFrame, IInv, LoopPc
<1>4. CASE Unmap
    <2>1. frame.is_mapped = TRUE /\ i \in DOMAIN outs /\ maps[i] = 1 /\ unmaps[i] = 0
        BY <1>4 DEF Unmap, IInv
    <2>2. unmaps' = [unmaps EXCEPT ![i] = 1] /\ i' = i + 1 /\ pc' = "get"
          /\ frame' = NULL /\ UNCHANGED <<outs, maps>>
        BY <1>4, <2>1 DEF Unmap, IInv
    <2>3. i \in Nat /\ DOMAIN outs = 1..Len(outs) /\ i + 1 \in 1..(Len(outs) + 1)
        BY <2>1 DEF IInv
    <2>4. unmaps' \in [DOMAIN outs -> Nat]
        BY <2>2, <2>3 DEF IInv
    <2>5. \A k \in DOMAIN outs : k < i + 1 => maps[k] = unmaps'[k] /\ maps[k] <= 1
        BY <2>1, <2>2, <2>3 DEF IInv
    <2>6. \A k \in DOMAIN outs : k > i + 1 => maps[k] = 0 /\ unmaps'[k] = 0
        BY <2>2, <2>3 DEF IInv
    <2>7. i + 1 \in DOMAIN outs => maps[i + 1] = 0 /\ unmaps'[i + 1] = 0
        <3> SUFFICES ASSUME i + 1 \in DOMAIN outs
                     PROVE  maps[i + 1] = 0 /\ unmaps'[i + 1] = 0
            OBVIOUS
        <3>1. i + 1 > i /\ i + 1 # i
            BY <2>3
        <3>2. maps[i + 1] = 0 /\ unmaps[i + 1] = 0
            BY <3>1 DEF IInv
        <3>3. unmaps'[i + 1] = unmaps[i + 1]
            BY <2>2, <3>1 DEF IInv
        <3>4. QED
            BY <3>2, <3>3
    <2>8. QED
        BY <2>2, <2>3, <2>4, <2>5, <2>6, <2>7 DEF IInv, LoopPc
<1>5. CASE SendResult
    BY <1>5 DEF SendResult, IInv, LoopPc
<1>6. ASSUME NEW r \in Requests, NextRequest(r) PROVE IInv'
    BY <1>6, RequestsAreSeqs DEF NextRequest, IInv, LoopPc
<1>7. CASE UNCHANGED vars
    BY <1>7 DEF vars, IInv, LoopPc
<1>8. QED
    BY <1>1, <1>2, <1>3, <1>4, <1>5, <1>6, <1>7 DEF Next

(* The invariant gives MapsPaired: the counts of the buffer in hand and   *)
(* of those on either side of it are the ones MapsPaired allows.          *)
LEMMA IInvMapsPaired == IInv => MapsPaired
<1> SUFFICES ASSUME IInv PROVE MapsPaired
    OBVIOUS
<1>1. i \in Nat /\ DOMAIN outs \subseteq Nat
    BY DEF IInv
<1>2. ASSUME NEW k \in DOMAIN outs PROVE maps[k] <= 1 /\ unmaps[k] <= maps[k]
    <2>1. CASE k < i
        BY <2>1 DEF IInv
    <2>2. CASE k > i
        BY <2>2 DEF IInv
    <2>3. CASE k = i /\ pc \in {"get", "map", "result"}
        BY <2>3 DEF IInv
    <2>4. CASE k = i /\ pc \in {"fill", "unmap"}
        BY <2>4 DEF IInv
    <2>5. QED
        BY <1>1, <2>1, <2>2, <2>3, <2>4 DEF IInv, LoopPc
<1>3. \A k \in DOMAIN outs : k < i => maps[k] = unmaps[k]
    BY DEF IInv
<1>4. pc \in {"get", "map", "result"} => frame = NULL \/ ~frame.is_mapped
    BY DEF IInv
<1>5. QED
    BY <1>2, <1>3, <1>4 DEF MapsPaired

(* Whatever the raw frames, the gralloc lock and the image processor      *)
(* return, and over any number of requests, enqueueRequestBuffers unmaps  *)
(* every buffer it mapped, exactly once and before it moves to the next,  *)
(* and holds no mapped frame between iterations.                          *)
THEOREM MapsAlwaysPaired == Spec => []MapsPaired
<1>1. Init => IInv
    BY InitIInv
<1>2. IInv /\ [Next]_vars => IInv'
    BY NextIInv
<1>3. QED
    BY <1>1, <1>2, IInvMapsPaired, PTL DEF Spec

-----------------------------------------------------------------------------
(***************************************************************************)
(* Type correctness.  IInv already bounds the loop index by the number of  *)
(* output buffers; what remains is that the request in hand is one the    *)
(* framework can send (so it has at most MaxBuffers buffers), that the    *)
(* raw frame is one the service can send or NULL, and that the statuses   *)
(* are those preprocessCaptureBuffer set, which the loop never changes.   *)
(***************************************************************************)
XInv ==
    /\ outs \in Requests
    /\ src \in RawFrames \cup {NULL}
    /\ status \in [DOMAIN outs -> {"OK"}]

(* A request has at most MaxBuffers output buffers.                        *)
LEMMA RequestLen ==
    ASSUME NEW r \in Requests PROVE Len(r) \in 1..MaxBuffers
<1>1. PICK n \in 1..MaxBuffers : r \in [1..n -> OutputBuffers]
    BY DEF Requests
<1>2. r \in Seq(OutputBuffers)
    BY RequestsAreSeqs
<1>3. DOMAIN r = 1..Len(r) /\ DOMAIN r = 1..n /\ Len(r) \in Nat
    BY <1>1, <1>2
<1>4. n \in DOMAIN r /\ n \in Nat
    BY <1>1, <1>3
<1>5. n <= Len(r) /\ Len(r) >= 1
    BY <1>3, <1>4
<1>6. Len(r) \in 1..n
    <2>1. Len(r) \in DOMAIN r
        BY <1>3, <1>5
    <2>2. QED
        BY <1>3, <2>1, Zenon
<1>7. Len(r) = n
    BY <1>4, <1>5, <1>6
<1>8. QED
    BY <1>1, <1>7

LEMMA InitXInv == Init => XInv
BY DEF Init, XInv

LEMMA NextXInv == XInv /\ [Next]_vars => XInv'
<1> SUFFICES ASSUME XInv, [Next]_vars PROVE XInv'
    OBVIOUS
<1>1. ASSUME NEW s \in RawFrames \cup {NULL}, GetCameraBuffer(s) PROVE XInv'
    BY <1>1 DEF GetCameraBuffer, XInv
<1>2. ASSUME NEW ok \in BOOLEAN, MapOutputFrame(ok) PROVE XInv'
    BY <1>2 DEF MapOutputFrame, XInv
<1>3. ASSUME NEW scaleOk \in BOOLEAN, NEW sourceOk \in BOOLEAN,
             FillOutputFrame(scaleOk, sourceOk)
      PROVE  XInv'
    BY <1>3 DEF FillOutputFrame, XInv
<1>4. CASE Unmap
    BY <1>4 DEF Unmap, XInv
<1>5. CASE SendResult
    BY <1>5 DEF SendResult, XInv
<1>6. ASSUME NEW r \in Requests, NextRequest(r) PROVE XInv'
    BY <1>6 DEF NextRequest, XInv
<1>7. CASE UNCHANGED vars
    BY <1>7 DEF vars, XInv
<1>8. QED
    BY <1>1, <1>2, <1>3, <1>4, <1>5, <1>6, <1>7 DEF Next

(* The two invariants give the type of every variable TypeOK names: the   *)
(* loop index never passes one beyond the last output buffer.              *)
LEMMA InvsTypeOK == IInv /\ XInv => TypeOK
<1> SUFFICES ASSUME IInv, XInv PROVE TypeOK
    OBVIOUS
<1>1. Len(outs) \in 1..MaxBuffers
    BY RequestLen DEF XInv
<1>2. i \in 1..MaxBuffers + 1
    BY <1>1, FrameFillAssumption DEF IInv
<1>3. QED
    BY <1>2 DEF IInv, XInv, TypeOK, LoopPc

(* Over any number of requests, whatever the service, gralloc and the     *)
(* image processor return, the fill loop's index stays within the         *)
(* request's buffers (at most one past the last), and the worker holds    *)
(* only raw frames the service can send.                                   *)
THEOREM TypeCorrect == Spec => []TypeOK
<1>1. Init => IInv /\ XInv
    BY InitIInv, InitXInv
<1>2. IInv /\ XInv /\ [Next]_vars => IInv' /\ XInv'
    BY NextIInv, NextXInv
<1>3. QED
    BY <1>1, <1>2, InvsTypeOK, PTL DEF Spec

====
