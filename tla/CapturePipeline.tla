-------------------------- MODULE CapturePipeline --------------------------
(***************************************************************************)
(* The capture pipeline of one virtual camera device: the framework-facing *)
(* entry points of Camera (open, close, initialize, configureStreams,      *)
(* processCaptureRequest), the request queue of VirtualCamera and its      *)
(* buffer-enqueuer worker thread (dequeueRequest, enqueueRequestBuffers,   *)
(* notifyShutter, sendResult).                                             *)
(*                                                                         *)
(* Every framework entry point runs under mDeviceLock (initialize runs     *)
(* without it, but the framework serialises its own calls), so each is one *)
(* atomic step.  The worker runs concurrently: it takes request_queue_lock_ *)
(* only to dequeue, and reads mCallbackOps without any lock when it        *)
(* notifies the shutter and when it sends the result.                      *)
(*                                                                         *)
(* Data is abstracted: a settings blob is a model value of Settings, a     *)
(* callback table is the number of the open session that installed it,   *)
(* the per-buffer fence waits are one Boolean outcome.                     *)
(***************************************************************************)
EXTENDS Naturals, Sequences

CONSTANTS
    Settings,          \* settings blobs the framework can pass
    NULL,              \* the null pointer (no settings, no request)
    MaxRequests,       \* bound on the number of accepted requests
    MaxOpens,          \* bound on the number of open() calls
    MaxOutputBuffers   \* bound on num_output_buffers of a request

ASSUME ConstantsAssumption ==
    /\ NULL \notin Settings
    /\ MaxRequests \in Nat
    /\ MaxOpens \in Nat
    /\ MaxOutputBuffers \in Nat

VARIABLES
    mBusy,            \* Camera::mBusy
    mIsInitialized,   \* Camera::mIsInitialized
    mCallbackOps,     \* Camera::mCallbackOps: 0 is NULL, s the table of session s
    mSettings,        \* Camera::mSettings, the memoized settings
    request_queue,    \* VirtualCamera::request_queue_
    worker,           \* where the buffer-enqueuer thread is
    request,          \* the request the worker holds (local of enqueueRequestBuffers)
    session,          \* ghost: number of open() calls so far
    accepted,         \* ghost: requests processCaptureRequest accepted, in order
    shutters,         \* ghost: shutter notifications sent, in order
    results           \* ghost: capture results sent, in order

vars == <<mBusy, mIsInitialized, mCallbackOps, mSettings, request_queue,
          worker, request, session, accepted, shutters, results>>

-----------------------------------------------------------------------------
(* The framework's camera3_capture_request_t, abstracted. *)
FrameworkRequest ==
    [settings: Settings \cup {NULL}, input_buffer: BOOLEAN,
     num_output_buffers: 0..MaxOutputBuffers, fences_signal: BOOLEAN]

(* The deep copy CaptureRequest that is queued: its frame number, the    *)
(* settings it copied from the framework's request, and (ghost) the open *)
(* session that submitted it.                                            *)
CaptureRequest ==
    [frame: 0..MaxRequests, settings: Settings \cup {NULL}, session: 1..MaxOpens]

(* A callback made to the framework: what it is about, and which         *)
(* session's callback table received it.                                 *)
Callback == [req: CaptureRequest, to: 0..MaxOpens]

(* Program locations of the buffer-enqueuer thread. *)
WorkerPc == {"dequeue", "wait", "shutter", "result"}

-----------------------------------------------------------------------------
Init ==
    /\ mBusy = FALSE
    /\ mIsInitialized = FALSE
    /\ mCallbackOps = 0
    /\ mSettings = NULL
    /\ request_queue = <<>>
    /\ worker = "dequeue"
    /\ request = NULL
    /\ session = 0
    /\ accepted = <<>>
    /\ shutters = <<>>
    /\ results = <<>>

(* Camera::open: fails with -EBUSY while open, else marks the device     *)
(* busy; openDevice() of VirtualCamera always returns 0.                 *)
Open ==
    /\ ~mBusy
    /\ session < MaxOpens
    /\ mBusy' = TRUE
    /\ session' = session + 1
    /\ UNCHANGED <<mIsInitialized, mCallbackOps, mSettings, request_queue,
                   worker, request, accepted, shutters, results>>

(* Camera::close: clears mBusy and mIsInitialized.  It neither drains    *)
(* nor cancels the request queue, and leaves mCallbackOps and mSettings. *)
Close ==
    /\ mBusy
    /\ mBusy' = FALSE
    /\ mIsInitialized' = FALSE
    /\ UNCHANGED <<mCallbackOps, mSettings, request_queue, worker, request,
                   session, accepted, shutters, results>>

(* Camera::initialize: installs the session's callback table, then runs  *)
(* initDevice(), which builds the templates and may fail; only on        *)
(* success is mIsInitialized set.                                        *)
Initialize(ok) ==
    /\ mBusy
    /\ mCallbackOps' = session
    /\ mIsInitialized' = (ok \/ mIsInitialized)
    /\ UNCHANGED <<mBusy, mSettings, request_queue, worker, request, session,
                   accepted, shutters, results>>

(* Camera::configureStreams, as seen by the pipeline: rejected unless    *)
(* initialized; a successful configuration clears the memoized settings  *)
(* (updateSettingsLocked(NULL)).  A failing one changes nothing here.    *)
ConfigureStreams ==
    /\ mBusy
    /\ mIsInitialized
    /\ mSettings' = NULL
    /\ UNCHANGED <<mBusy, mIsInitialized, mCallbackOps, request_queue, worker,
                   request, session, accepted, shutters, results>>

(* VirtualCamera::isValidCaptureSettings accepts every settings blob. *)
IsValidCaptureSettings(s) == TRUE

(* VirtualCamera::preprocessCaptureBuffer, over all output buffers of the *)
(* request: each acquire fence is waited on for CAMERA_SYNC_TIMEOUT_MS;  *)
(* a timeout or a wait error fails the request (-ENODEV).                *)
PreprocessCaptureBuffers(r) == r.fences_signal

(* The checks of processCaptureRequest that follow the settings update,  *)
(* in the code's order: no input buffer, valid settings, at least one    *)
(* output buffer, every fence signalled.                                  *)
PassesChecks(r) ==
    /\ ~r.input_buffer
    /\ IsValidCaptureSettings(r.settings)
    /\ r.num_output_buffers > 0
    /\ PreprocessCaptureBuffers(r)

(* Mutant: enqueueRequest without requests_available_.notify_one(). *)
ProcessCaptureRequest_NoNotify(r) ==
    /\ mBusy
    /\ Len(accepted) < MaxRequests
    /\ r.settings # NULL \/ mSettings # NULL
    /\ mSettings' = IF r.settings # NULL THEN r.settings ELSE mSettings
    /\ IF PassesChecks(r)
         THEN LET copy == [frame |-> Len(accepted), settings |-> r.settings,
                           session |-> session]
              IN /\ request_queue' = Append(request_queue, copy)
                 /\ accepted' = Append(accepted, copy)
         ELSE UNCHANGED <<request_queue, accepted>>
    /\ UNCHANGED <<mBusy, mIsInitialized, mCallbackOps, request, session,
                   shutters, results, worker>>

(* Camera::processCaptureRequest.  A request without settings is         *)
(* rejected when nothing is memoized (no state change, not a step here). *)
(* Otherwise the request's own settings are memoized first, then the     *)
(* remaining checks run; on success the deep copy is enqueued            *)
(* (VirtualCamera::enqueueRequest) and the worker is notified.           *)
ProcessCaptureRequest(r) ==
    /\ mBusy
    /\ Len(accepted) < MaxRequests
    /\ r.settings # NULL \/ mSettings # NULL
    /\ mSettings' = IF r.settings # NULL THEN r.settings ELSE mSettings
    /\ IF PassesChecks(r)
         THEN LET copy == [frame |-> Len(accepted), settings |-> r.settings,
                           session |-> session]
              IN /\ request_queue' = Append(request_queue, copy)
                 /\ accepted' = Append(accepted, copy)
                 /\ worker' = IF worker = "wait" THEN "dequeue" ELSE worker
         ELSE UNCHANGED <<request_queue, accepted, worker>>
    /\ UNCHANGED <<mBusy, mIsInitialized, mCallbackOps, request, session,
                   shutters, results>>

-----------------------------------------------------------------------------
(* Mutant: the worker takes request_queue_.back() instead of front(). *)
DequeueRequest_Back ==
    /\ worker = "dequeue"
    /\ \/ /\ request_queue = <<>>
          /\ worker' = "wait"
          /\ UNCHANGED <<request_queue, request>>
       \/ /\ request_queue # <<>>
          /\ request' = request_queue[Len(request_queue)]
          /\ request_queue' = SubSeq(request_queue, 1, Len(request_queue) - 1)
          /\ worker' = "shutter"
    /\ UNCHANGED <<mBusy, mIsInitialized, mCallbackOps, mSettings, session,
                   accepted, shutters, results>>

(* Mutant: the worker reads front() and forgets to pop(). *)
DequeueRequest_NoPop ==
    /\ worker = "dequeue"
    /\ \/ /\ request_queue = <<>>
          /\ worker' = "wait"
          /\ UNCHANGED <<request_queue, request>>
       \/ /\ request_queue # <<>>
          /\ request' = Head(request_queue)
          /\ worker' = "shutter"
          /\ UNCHANGED request_queue
    /\ UNCHANGED <<mBusy, mIsInitialized, mCallbackOps, mSettings, session,
                   accepted, shutters, results>>

(* VirtualCamera::dequeueRequest, one pass of its loop under              *)
(* request_queue_lock_: wait on requests_available_ while the queue is    *)
(* empty, else pop the front request.                                     *)
DequeueRequest ==
    /\ worker = "dequeue"
    /\ \/ /\ request_queue = <<>>
          /\ worker' = "wait"
          /\ UNCHANGED <<request_queue, request>>
       \/ /\ request_queue # <<>>
          /\ request' = Head(request_queue)
          /\ request_queue' = Tail(request_queue)
          /\ worker' = "shutter"
    /\ UNCHANGED <<mBusy, mIsInitialized, mCallbackOps, mSettings, session,
                   accepted, shutters, results>>

(* A wakeup of requests_available_.wait without a notify. *)
SpuriousWakeup ==
    /\ worker = "wait"
    /\ worker' = "dequeue"
    /\ UNCHANGED <<mBusy, mIsInitialized, mCallbackOps, mSettings,
                   request_queue, request, session, accepted, shutters,
                   results>>

(* Mutant: the shutter message is never passed to mCallbackOps->notify. *)
NotifyShutter_Dropped ==
    /\ worker = "shutter"
    /\ worker' = "result"
    /\ UNCHANGED <<mBusy, mIsInitialized, mCallbackOps, mSettings,
                   request_queue, request, session, accepted, results, shutters>>

(* enqueueRequestBuffers: fill every output buffer (best effort; the      *)
(* frame source and the conversions do not change the pipeline's state), *)
(* then notifyShutter through whatever mCallbackOps is at this moment.    *)
NotifyShutter ==
    /\ worker = "shutter"
    /\ shutters' = Append(shutters, [req |-> request, to |-> mCallbackOps])
    /\ worker' = "result"
    /\ UNCHANGED <<mBusy, mIsInitialized, mCallbackOps, mSettings,
                   request_queue, request, session, accepted, results>>

(* sendResult through mCallbackOps, read again; threadLoop returns true  *)
(* and the thread loops back to dequeueRequest.                          *)
SendResult ==
    /\ worker = "result"
    /\ results' = Append(results, [req |-> request, to |-> mCallbackOps])
    /\ worker' = "dequeue"
    /\ request' = NULL
    /\ UNCHANGED <<mBusy, mIsInitialized, mCallbackOps, mSettings,
                   request_queue, session, accepted, shutters>>

-----------------------------------------------------------------------------
Framework ==
    \/ Open
    \/ Close
    \/ \E ok \in BOOLEAN : Initialize(ok)
    \/ ConfigureStreams
    \/ \E r \in FrameworkRequest : ProcessCaptureRequest(r)

Worker ==
    \/ DequeueRequest
    \/ SpuriousWakeup
    \/ NotifyShutter
    \/ SendResult

Next == Framework \/ Worker

(* The worker is a dedicated thread that is always scheduled again; the  *)
(* framework is a client and need not call anything.  Spurious wakeups   *)
(* are allowed but never relied on.                                      *)
Fairness ==
    /\ WF_vars(DequeueRequest)
    /\ WF_vars(NotifyShutter)
    /\ WF_vars(SendResult)

Spec == Init /\ [][Next]_vars /\ Fairness

-----------------------------------------------------------------------------
TypeOK ==
    /\ mBusy \in BOOLEAN
    /\ mIsInitialized \in BOOLEAN
    /\ mCallbackOps \in 0..MaxOpens
    /\ mSettings \in Settings \cup {NULL}
    /\ request_queue \in Seq(CaptureRequest)
    /\ worker \in WorkerPc
    /\ request \in CaptureRequest \cup {NULL}
    /\ session \in 0..MaxOpens
    /\ accepted \in Seq(CaptureRequest)
    /\ shutters \in Seq(Callback)
    /\ results \in Seq(Callback)

(* The requests the worker has taken but not yet answered. *)
InFlight == IF worker \in {"shutter", "result"} THEN <<request>> ELSE <<>>

(* Results come back in submission order, each accepted request at most   *)
(* once: the i-th result is about the i-th accepted request.  This rests  *)
(* on the FIFO request_queue_ and on there being a single worker.         *)
ResultsInSubmissionOrder ==
    \A i \in 1..Len(results) : results[i].req = accepted[i]

(* The shutter of a frame is notified before its result and no result    *)
(* comes without its shutter: the results are the shutters, in order,    *)
(* except at most the last shutter, whose result is still being sent.    *)
ShutterPrecedesResult ==
    /\ Len(results) <= Len(shutters)
    /\ Len(shutters) <= Len(results) + 1
    /\ \A i \in 1..Len(results) : shutters[i].req = results[i].req

(* Every accepted request eventually gets its result: the worker is not  *)
(* left asleep on requests_available_ while requests are queued.         *)
EveryRequestCompleted ==
    \A n \in 1..MaxRequests : (Len(accepted) >= n) ~> (Len(results) >= n)

-----------------------------------------------------------------------------
(* Properties the spec states and the code does not keep.                 *)

(* Spec 4.2: the settings blob is memoized on success only.  A step that  *)
(* memoizes new settings must be one that accepts a request.             *)
SettingsMemoizedOnlyOnAccept ==
    [][(mSettings' # NULL /\ mSettings' # mSettings)
          => Len(accepted') = Len(accepted) + 1]_vars

(* Spec 5: no request is accepted before initialization has completed.   *)
AcceptOnlyWhenInitialized ==
    [][Len(accepted') > Len(accepted) => mIsInitialized]_vars

(* Spec 5 and 6: a result never reaches the callbacks another session    *)
(* installed (close drains or cancels what is queued): it goes to the     *)
(* table of the session that submitted the request, or to none when that  *)
(* session never initialized the device (AcceptOnlyWhenInitialized's      *)
(* case).                                                                  *)
ResultDeliveredToSubmitter ==
    \A i \in 1..Len(results) : results[i].to \in {0, results[i].req.session}

(* Spec 3: a request carrying no settings reuses the memoized ones, so   *)
(* every request the worker converts carries settings.                   *)
QueuedRequestCarriesSettings ==
    \A i \in 1..Len(accepted) : accepted[i].settings # NULL

-----------------------------------------------------------------------------
(* The inductive strengthening used by the proofs (CapturePipelineProofs). *)

(* TypeOK with what makes it inductive: the worker holds a request while  *)
(* it is answering it, and an open device has had at least one open().    *)
TypeInv ==
    /\ TypeOK
    /\ worker \in {"shutter", "result"} => request \in CaptureRequest
    /\ mBusy => session >= 1
    /\ Len(accepted) <= MaxRequests

(* Every accepted request is answered, held by the worker, or queued, in  *)
(* that order; the shutters are the results plus the one being answered.  *)
IInv ==
    /\ TypeInv
    /\ Len(accepted) = Len(results) + Len(InFlight) + Len(request_queue)
    /\ \A i \in 1..Len(results) : results[i].req = accepted[i]
    /\ worker \in {"shutter", "result"} => request = accepted[Len(results) + 1]
    /\ \A i \in 1..Len(request_queue) :
           request_queue[i] = accepted[Len(results) + Len(InFlight) + i]
    /\ Len(shutters) = Len(results) + (IF worker = "result" THEN 1 ELSE 0)
    /\ \A i \in 1..Len(shutters) : shutters[i].req = accepted[i]
-----------------------------------------------------------------------------
(* The pipeline implements the FIFO channel: its pending requests are the *)
(* one the worker holds followed by the queue, its answered requests are  *)
(* the requests of the results.  Accepting a request is Submit, sending a *)
(* result is Complete, every other step is a stutter of the channel.      *)
Channel == INSTANCE CaptureChannel
    WITH Items <- CaptureRequest,
         pending <- InFlight \o request_queue,
         done <- [i \in 1..Len(results) |-> results[i].req]

(* The pipeline delivers results as a FIFO channel that never loses,     *)
(* duplicates or reorders an accepted request, and eventually answers it. *)
ImplementsCaptureChannel == Channel!ChanSpec
=============================================================================
