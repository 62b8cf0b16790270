----------------------- MODULE CapturePipelineProofs -----------------------
(***************************************************************************)
(* Proofs about the capture pipeline, for every value of the constants:    *)
(* type correctness, that results and shutters follow the order in which   *)
(* processCaptureRequest accepted the requests, and that the pipeline's    *)
(* steps are steps of the FIFO channel CaptureChannel.                     *)
(***************************************************************************)
EXTENDS CapturePipeline, TLAPS

USE ConstantsAssumption DEF ConstantsAssumption

-----------------------------------------------------------------------------
(* Type correctness.                                                       *)

LEMMA TypeInvInit == Init => TypeInv
<1> SUFFICES ASSUME Init PROVE TypeInv
    OBVIOUS
<1>0. mBusy \in BOOLEAN /\ mIsInitialized \in BOOLEAN
    BY DEF Init
<1>1. /\ mCallbackOps \in 0..MaxOpens /\ session \in 0..MaxOpens
      /\ mSettings \in Settings \cup {NULL}
      /\ worker \in WorkerPc /\ request \in CaptureRequest \cup {NULL}
    BY DEF Init, WorkerPc
<1>2. /\ request_queue \in Seq(CaptureRequest) /\ accepted \in Seq(CaptureRequest)
      /\ shutters \in Seq(Callback) /\ results \in Seq(Callback)
    BY DEF Init
<1>3. TypeOK
    BY <1>0, <1>1, <1>2 DEF TypeOK
<1>4. QED
    BY <1>3 DEF Init, TypeInv

(* Each step keeps TypeInv: the worker only takes requests out of the     *)
(* typed queue, and a request is copied with a frame below MaxRequests    *)
(* and the session of an open device.                                      *)
LEMMA TypeInvStep == TypeInv /\ [Next]_vars => TypeInv'
<1> SUFFICES ASSUME TypeInv, [Next]_vars PROVE TypeInv'
    OBVIOUS
<1> USE DEF TypeInv, TypeOK, WorkerPc
<1>1. CASE Open
    BY <1>1 DEF Open
<1>2. CASE Close
    BY <1>2 DEF Close
<1>3. ASSUME NEW ok \in BOOLEAN, Initialize(ok) PROVE TypeInv'
    BY <1>3 DEF Initialize
<1>4. CASE ConfigureStreams
    BY <1>4 DEF ConfigureStreams
<1>5. ASSUME NEW r \in FrameworkRequest, ProcessCaptureRequest(r)
      PROVE TypeInv'
    <2>1. [frame |-> Len(accepted), settings |-> r.settings,
           session |-> session] \in CaptureRequest
        BY <1>5 DEF ProcessCaptureRequest, FrameworkRequest, CaptureRequest
    <2>2. CASE PassesChecks(r)
        <3> DEFINE copy == [frame |-> Len(accepted), settings |-> r.settings,
                            session |-> session]
        <3>1. /\ request_queue' = Append(request_queue, copy)
              /\ accepted' = Append(accepted, copy)
              /\ worker' \in {worker, "dequeue"}
            BY <1>5, <2>2 DEF ProcessCaptureRequest
        <3>2. /\ request_queue' \in Seq(CaptureRequest)
              /\ accepted' \in Seq(CaptureRequest)
              /\ Len(accepted') <= MaxRequests
            BY <1>5, <2>1, <3>1 DEF ProcessCaptureRequest
        <3>3. /\ UNCHANGED <<mBusy, mIsInitialized, mCallbackOps, request,
                             session, shutters, results>>
              /\ mSettings' \in Settings \cup {NULL}
            BY <1>5 DEF ProcessCaptureRequest, FrameworkRequest
        <3>4. worker' \in {"shutter", "result"} => worker' = worker
            BY <3>1
        <3>5. QED
            BY <3>1, <3>2, <3>3, <3>4
    <2>3. CASE ~PassesChecks(r)
        BY <1>5, <2>3 DEF ProcessCaptureRequest, FrameworkRequest
    <2>4. QED
        BY <2>2, <2>3
<1>6. CASE DequeueRequest
    <2>1. CASE request_queue = <<>>
        BY <1>6, <2>1 DEF DequeueRequest
    <2>2. CASE request_queue # <<>>
        <3>1. /\ request' = Head(request_queue)
              /\ request_queue' = Tail(request_queue)
              /\ worker' = "shutter"
              /\ UNCHANGED <<mBusy, mIsInitialized, mCallbackOps, mSettings,
                             session, accepted, shutters, results>>
            BY <1>6, <2>2 DEF DequeueRequest
        <3>2. /\ Head(request_queue) \in CaptureRequest
              /\ Tail(request_queue) \in Seq(CaptureRequest)
            BY <2>2
        <3>3. QED
            BY <3>1, <3>2
    <2>3. QED
        BY <2>1, <2>2
<1>7. CASE SpuriousWakeup
    BY <1>7 DEF SpuriousWakeup
<1>8. CASE NotifyShutter
    BY <1>8 DEF NotifyShutter, Callback
<1>9. CASE SendResult
    BY <1>9 DEF SendResult, Callback
<1>10. CASE UNCHANGED vars
    BY <1>10 DEF vars
<1>11. QED
    BY <1>1, <1>2, <1>3, <1>4, <1>5, <1>6, <1>7, <1>8, <1>9, <1>10
       DEF Next, Framework, Worker

(* Every reachable state is well typed. *)
THEOREM TypeCorrect == Spec => []TypeOK
<1>1. Spec => []TypeInv
    BY TypeInvInit, TypeInvStep, PTL DEF Spec
<1>2. TypeInv => TypeOK
    BY DEF TypeInv
<1>3. QED
    BY <1>1, <1>2, PTL

-----------------------------------------------------------------------------
(* Ordering: every accepted request is answered, held by the worker or    *)
(* queued, in the order of acceptance (IInv).                             *)

LEMMA IInvInit == Init => IInv
BY TypeInvInit DEF Init, IInv, InFlight

(* Each step keeps IInv.  Accepting appends the same copy to the queue     *)
(* and to accepted; the worker moves the head of the queue into request   *)
(* and then request into shutters and results; the other steps do not     *)
(* touch the queue, the worker or the histories.                          *)
LEMMA IInvStep == IInv /\ [Next]_vars => IInv'
<1> SUFFICES ASSUME IInv, [Next]_vars PROVE IInv'
    OBVIOUS
<1>0. TypeInv'
    BY TypeInvStep DEF IInv
<1> USE DEF TypeInv, TypeOK, WorkerPc
<1>1. ASSUME UNCHANGED <<request_queue, worker, request, accepted, shutters,
                         results>>
      PROVE IInv'
    BY <1>0, <1>1 DEF IInv, InFlight
<1>2. CASE Open
    BY <1>1, <1>2 DEF Open
<1>3. CASE Close
    BY <1>1, <1>3 DEF Close
<1>4. ASSUME NEW ok \in BOOLEAN, Initialize(ok) PROVE IInv'
    BY <1>1, <1>4 DEF Initialize
<1>5. CASE ConfigureStreams
    BY <1>1, <1>5 DEF ConfigureStreams
<1>6. ASSUME NEW r \in FrameworkRequest, ProcessCaptureRequest(r)
      PROVE IInv'
    <2>1. CASE ~PassesChecks(r)
        BY <1>1, <1>6, <2>1 DEF ProcessCaptureRequest
    <2>2. CASE PassesChecks(r)
        <3> DEFINE copy == [frame |-> Len(accepted), settings |-> r.settings,
                            session |-> session]
        <3>1. /\ request_queue' = Append(request_queue, copy)
              /\ accepted' = Append(accepted, copy)
              /\ worker' = IF worker = "wait" THEN "dequeue" ELSE worker
              /\ UNCHANGED <<request, shutters, results>>
            BY <1>6, <2>2 DEF ProcessCaptureRequest
        <3>2. InFlight' = InFlight
            BY <3>1 DEF InFlight
        <3> DEFINE nr == Len(results)
                   nf == Len(InFlight)
        <3> USE DEF nr, nf
        <3>0. copy \in CaptureRequest
            BY <1>6 DEF IInv, ProcessCaptureRequest, FrameworkRequest,
                        CaptureRequest
        <3>3. /\ accepted \in Seq(CaptureRequest)
              /\ request_queue \in Seq(CaptureRequest)
              /\ Len(accepted) = nr + nf + Len(request_queue)
              /\ nr \in Nat /\ nf \in Nat
            BY DEF IInv, InFlight
        <3>10. /\ nr <= Len(accepted)
               /\ Len(shutters) <= Len(accepted)
               /\ \A i \in 1..Len(accepted) : accepted'[i] = accepted[i]
            BY <3>1, <3>3 DEF IInv, InFlight
        <3>11. /\ Len(accepted') = Len(accepted) + 1
               /\ Len(request_queue') = Len(request_queue) + 1
            <4>1. accepted' = Append(accepted, copy)
                BY <3>1
            <4>2. accepted \in Seq(CaptureRequest)
                BY <3>3
            <4>3. Len(accepted') = Len(accepted) + 1
                BY <3>0, <4>1, <4>2
            <4>4. QED
                BY <3>0, <3>1, <3>3, <4>3
        <3>4. Len(accepted') = Len(results') + Len(InFlight')
                               + Len(request_queue')
            BY <3>1, <3>2, <3>3, <3>11
        <3>5. \A i \in 1..Len(results') : results'[i].req = accepted'[i]
            BY <3>1, <3>10 DEF IInv
        <3>6. worker' \in {"shutter", "result"}
                 => request' = accepted'[Len(results') + 1]
            <4> SUFFICES ASSUME worker' \in {"shutter", "result"}
                         PROVE  request' = accepted'[Len(results') + 1]
                OBVIOUS
            <4>1. worker \in {"shutter", "result"}
                BY <3>1
            <4>2. nf = 1 /\ nr + 1 \in 1..Len(accepted)
                BY <3>3, <4>1 DEF InFlight
            <4>3. request = accepted[nr + 1]
                BY <4>1 DEF IInv
            <4>4. QED
                BY <3>1, <3>10, <4>2, <4>3
        <3>7. \A i \in 1..Len(request_queue') :
                 request_queue'[i] = accepted'[Len(results') + Len(InFlight') + i]
            <4> SUFFICES ASSUME NEW i \in 1..Len(request_queue')
                         PROVE request_queue'[i] = accepted'[nr + nf + i]
                BY <3>1, <3>2
            <4>1. CASE i <= Len(request_queue)
                <5>1. request_queue'[i] = request_queue[i]
                    BY <3>0, <3>1, <3>3, <4>1
                <5>2. request_queue[i] = accepted[nr + nf + i]
                    BY <4>1 DEF IInv
                <5>3. QED
                    BY <3>3, <3>10, <4>1, <5>1, <5>2
            <4>2. CASE i = Len(request_queue) + 1
                <5>1. request_queue'[i] = copy
                    BY <3>0, <3>1, <3>3, <4>2
                <5>2. nr + nf + i = Len(accepted) + 1
                    BY <3>3, <4>2
                <5>3. accepted'[Len(accepted) + 1] = copy
                    BY <3>0, <3>1, <3>3
                <5>4. QED
                    BY <5>1, <5>2, <5>3
            <4>3. QED
                BY <3>0, <3>3, <3>11, <4>1, <4>2
        <3>8. /\ Len(shutters') = Len(results')
                                   + (IF worker' = "result" THEN 1 ELSE 0)
              /\ \A i \in 1..Len(shutters') : shutters'[i].req = accepted'[i]
            BY <3>1, <3>10 DEF IInv
        <3>9. QED
            BY <1>0, <3>4, <3>5, <3>6, <3>7, <3>8 DEF IInv
    <2>3. QED
        BY <2>1, <2>2
<1>7. CASE DequeueRequest
    <2>1. CASE request_queue = <<>>
        BY <1>0, <1>7, <2>1 DEF DequeueRequest, IInv, InFlight
    <2>2. CASE request_queue # <<>>
        <3>1. /\ request' = Head(request_queue)
              /\ request_queue' = Tail(request_queue)
              /\ worker = "dequeue" /\ worker' = "shutter"
              /\ UNCHANGED <<accepted, shutters, results>>
            BY <1>7, <2>2 DEF DequeueRequest
        <3>2. InFlight = <<>> /\ InFlight' = <<request'>>
            BY <3>1 DEF InFlight
        <3>3. QED
            BY <1>0, <2>2, <3>1, <3>2 DEF IInv
    <2>3. QED
        BY <2>1, <2>2
<1>8. CASE SpuriousWakeup
    BY <1>0, <1>8 DEF SpuriousWakeup, IInv, InFlight
<1>9. CASE NotifyShutter
    <2>1. InFlight = <<request>> /\ InFlight' = <<request>>
        BY <1>9 DEF NotifyShutter, InFlight
    <2>2. QED
        BY <1>0, <1>9, <2>1 DEF NotifyShutter, IInv
<1>10. CASE SendResult
    <2>1. InFlight = <<request>> /\ InFlight' = <<>>
        BY <1>10 DEF SendResult, InFlight
    <2>2. QED
        BY <1>0, <1>10, <2>1 DEF SendResult, IInv
<1>11. CASE UNCHANGED vars
    BY <1>1, <1>11 DEF vars
<1>12. QED
    BY <1>2, <1>3, <1>4, <1>5, <1>6, <1>7, <1>8, <1>9, <1>10, <1>11
       DEF Next, Framework, Worker

(* The inductive invariant holds in every reachable state.                *)
LEMMA AlwaysIInv == Spec => []IInv
BY IInvInit, IInvStep, PTL DEF Spec

(* Results come back in the order processCaptureRequest accepted the      *)
(* requests, each once (the FIFO request_queue_ and the single worker     *)
(* thread), whatever the interleaving of the framework's calls, spurious  *)
(* wakeups and the worker.                                                *)
THEOREM ResultsOrdered == Spec => []ResultsInSubmissionOrder
<1>1. IInv => ResultsInSubmissionOrder
    BY DEF IInv, ResultsInSubmissionOrder
<1>2. QED
    BY AlwaysIInv, <1>1, PTL

(* The worker notifies the shutter of every request before it sends its   *)
(* result (notifyShutter at the end of enqueueRequestBuffers, sendResult   *)
(* after it in threadLoop): the n-th result is for the request of the n-th *)
(* shutter, and shutters run at most one ahead of results.                 *)
THEOREM ShutterBeforeResult == Spec => []ShutterPrecedesResult
<1>1. IInv => ShutterPrecedesResult
    BY DEF IInv, TypeInv, TypeOK, ShutterPrecedesResult
<1>2. QED
    BY AlwaysIInv, <1>1, PTL

-----------------------------------------------------------------------------
(* Refinement: the pipeline's steps are steps of the FIFO channel          *)
(* CaptureChannel under the mapping of CapturePipeline (pending = the held *)
(* request followed by the queue, done = the requests of the results).    *)
(* The safety part is proved here; the channel's fairness is checked by    *)
(* TLC (pipeline_liveness).                                                 *)

(* The channel's variables under the refinement mapping.                   *)
pendingBar == InFlight \o request_queue
doneBar == [i \in 1..Len(results) |-> results[i].req]

LEMMA RefineInit == Init => Channel!ChanInit
<1> SUFFICES ASSUME Init PROVE pendingBar = <<>> /\ doneBar = <<>>
    BY DEF Channel!ChanInit, pendingBar, doneBar
<1>1. InFlight = <<>>
    BY DEF Init, InFlight
<1>2. QED
    BY <1>1 DEF Init, pendingBar, doneBar

(* A step that leaves the held request, the queue and the results alone   *)
(* is a stutter of the channel.                                            *)
LEMMA ChannelStutter ==
    ASSUME InFlight' = InFlight, UNCHANGED <<request_queue, results>>
    PROVE  UNCHANGED <<pendingBar, doneBar>>
BY DEF pendingBar, doneBar

(* Every step of the pipeline is a Submit, a Complete, or leaves the      *)
(* channel's variables unchanged.                                          *)
LEMMA RefineStep ==
    TypeInv /\ [Next]_vars => [Channel!ChanNext]_<<pendingBar, doneBar>>
<1> SUFFICES ASSUME TypeInv, [Next]_vars
             PROVE  [Channel!ChanNext]_<<pendingBar, doneBar>>
    OBVIOUS
<1>0. /\ request_queue \in Seq(CaptureRequest) /\ results \in Seq(Callback)
      /\ worker \in {"shutter", "result"} => request \in CaptureRequest
    BY DEF TypeInv, TypeOK
<1>1. ASSUME NEW r \in FrameworkRequest, ProcessCaptureRequest(r)
      PROVE  [Channel!ChanNext]_<<pendingBar, doneBar>>
    <2>1. CASE PassesChecks(r)
        <3> DEFINE copy == [frame |-> Len(accepted), settings |-> r.settings,
                            session |-> session]
        <3>1. /\ request_queue' = Append(request_queue, copy)
              /\ worker' = IF worker = "wait" THEN "dequeue" ELSE worker
              /\ UNCHANGED <<request, results>>
            BY <1>1, <2>1 DEF ProcessCaptureRequest
        <3>2. InFlight' = InFlight
            BY <3>1 DEF InFlight
        <3>3. copy \in CaptureRequest
            BY <1>1 DEF ProcessCaptureRequest, FrameworkRequest, CaptureRequest,
                        TypeInv, TypeOK
        <3>4. InFlight \in Seq(CaptureRequest)
            BY <1>0 DEF InFlight
        <3>5. pendingBar' = Append(pendingBar, copy) /\ doneBar' = doneBar
            BY <1>0, <3>1, <3>2, <3>3, <3>4 DEF pendingBar, doneBar
        <3>6. QED
            BY <3>3, <3>5 DEF Channel!ChanNext, Channel!Submit, pendingBar, doneBar
    <2>2. CASE ~PassesChecks(r)
        <3>1. UNCHANGED <<request_queue, worker, request, results>>
            BY <1>1, <2>2 DEF ProcessCaptureRequest
        <3>2. InFlight' = InFlight
            BY <3>1 DEF InFlight
        <3>3. QED
            BY <3>1, <3>2, ChannelStutter
    <2>3. QED
        BY <2>1, <2>2
<1>2. CASE DequeueRequest
    <2>1. CASE request_queue = <<>>
        <3>1. UNCHANGED <<request_queue, request, results>> /\ worker' = "wait"
              /\ worker = "dequeue"
            BY <1>2, <2>1 DEF DequeueRequest
        <3>2. InFlight' = InFlight
            BY <3>1 DEF InFlight
        <3>3. QED
            BY <3>1, <3>2, ChannelStutter
    <2>2. CASE request_queue # <<>>
        <3>1. /\ worker = "dequeue" /\ worker' = "shutter"
              /\ request' = Head(request_queue)
              /\ request_queue' = Tail(request_queue)
              /\ UNCHANGED results
            BY <1>2, <2>2 DEF DequeueRequest
        <3>2. InFlight = <<>> /\ InFlight' = <<Head(request_queue)>>
            BY <3>1 DEF InFlight
        <3>3. <<Head(request_queue)>> \o Tail(request_queue) = request_queue
            <4> DEFINE q == request_queue
                       c == <<Head(q)>> \o Tail(q)
            <4>1. Len(q) >= 1 /\ Len(Tail(q)) = Len(q) - 1
                  /\ \A i \in 1..(Len(q) - 1) : Tail(q)[i] = q[i + 1]
                BY <1>0, <2>2
            <4>2. Len(c) = Len(q) /\ c \in Seq(CaptureRequest)
                BY <1>0, <2>2, <4>1
            <4>3. \A i \in 1..Len(q) : c[i] = q[i]
                BY <1>0, <4>1
            <4>4. QED
                BY <1>0, <4>2, <4>3
        <3>4. UNCHANGED <<pendingBar, doneBar>>
            BY <1>0, <3>1, <3>2, <3>3 DEF pendingBar, doneBar
        <3>5. QED
            BY <3>4
    <2>3. QED
        BY <2>1, <2>2
<1>3. CASE SendResult
    <2>1. /\ worker = "result" /\ worker' = "dequeue"
          /\ results' = Append(results, [req |-> request, to |-> mCallbackOps])
          /\ UNCHANGED request_queue
        BY <1>3 DEF SendResult
    <2>2. InFlight = <<request>> /\ InFlight' = <<>>
        BY <2>1 DEF InFlight
    <2>3. pendingBar # <<>> /\ Head(pendingBar) = request
          /\ Tail(pendingBar) = request_queue
        BY <1>0, <2>1, <2>2 DEF pendingBar
    <2>4. pendingBar' = request_queue
        BY <1>0, <2>1, <2>2 DEF pendingBar
    <2>5. doneBar' = Append(doneBar, request)
        BY <1>0, <2>1 DEF doneBar
    <2>6. QED
        BY <2>3, <2>4, <2>5 DEF Channel!ChanNext, Channel!Complete, pendingBar, doneBar
<1>4. CASE NotifyShutter
    <2>1. UNCHANGED <<request_queue, request, results>> /\ worker = "shutter"
          /\ worker' = "result"
        BY <1>4 DEF NotifyShutter
    <2>2. InFlight' = InFlight
        BY <2>1 DEF InFlight
    <2>3. QED
        BY <2>1, <2>2, ChannelStutter
<1>5. CASE SpuriousWakeup
    <2>1. UNCHANGED <<request_queue, request, results>> /\ worker = "wait"
          /\ worker' = "dequeue"
        BY <1>5 DEF SpuriousWakeup
    <2>2. InFlight' = InFlight
        BY <2>1 DEF InFlight
    <2>3. QED
        BY <2>1, <2>2, ChannelStutter
<1>6. CASE Open \/ Close \/ (\E ok \in BOOLEAN : Initialize(ok)) \/ ConfigureStreams
              \/ UNCHANGED vars
    <2>1. UNCHANGED <<request_queue, worker, request, results>>
        BY <1>6 DEF Open, Close, Initialize, ConfigureStreams, vars
    <2>2. InFlight' = InFlight
        BY <2>1 DEF InFlight
    <2>3. QED
        BY <2>1, <2>2, ChannelStutter
<1>7. QED
    BY <1>1, <1>2, <1>3, <1>4, <1>5, <1>6 DEF Next, Framework, Worker

(* The pipeline implements the safety part of the FIFO channel for every *)
(* value of the constants: from an empty channel, every step accepts one  *)
(* request at the back, answers the oldest pending one, or changes        *)
(* nothing the caller sees; nothing is lost, duplicated or reordered.     *)
THEOREM RefinesCaptureChannel ==
    Spec => Channel!ChanInit /\ [][Channel!ChanNext]_<<pendingBar, doneBar>>
<1>1. Spec => []TypeInv
    BY TypeInvInit, TypeInvStep, PTL DEF Spec
<1>2. QED
    BY <1>1, RefineInit, RefineStep, PTL DEF Spec
=============================================================================
