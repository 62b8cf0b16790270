# Formal models of the virtual camera HAL

TLA+ models of `src/modules/virtualcamera`: a camera HAL3 implementation that
exposes two virtual cameras. The cameras take their frames from a remote
media service, not from a sensor. The models are checked with TLC. The main
ordering results are proved with TLAPS.

## 1. The system

| Part | Source | What it does |
|---|---|---|
| HAL module glue | `CameraHAL.cpp` | Creates two `VirtualCamera`s sharing one `VirtualCameraService` at load time. Forwards `open` to `Camera::open` under `mModuleLock`. |
| Device controller | `Camera.cpp`, `Camera.h` | The camera3 entry points: `open`, `close`, `initialize`, `configureStreams`, `processCaptureRequest`, `flush`. All but `initialize` run under `mDeviceLock`. |
| Stream configuration | `Camera.cpp` 190-354 | Builds `newStreams` from the framework's descriptors, reusing or creating `Stream` objects. Validates the set, then commits it or rolls back. |
| Request queue and worker | `VirtualCamera.cpp` 686-865 | `enqueueRequest` pushes a deep copy (`CaptureRequest`, `Camera.h`) and notifies. One worker thread per camera runs `enqueueRequestBuffers` in a loop: dequeue, fill every output buffer, `notifyShutter`, `sendResult`. |
| Frame buffers | `arc/frame_buffer.cpp` | `GrallocFrameBuffer` maps the framework's buffer (`Map`/`Unmap`). `CameraFrameBuffer` holds a copy of the remote frame. |
| Raw-frame source | `VirtualCameraService.cpp` | Lazily connects to the media service over binder. Its death callbacks reset the connection. It is shared by both cameras' workers. |
| Static metadata | `VirtualCamera.cpp` 54-643, 902-980 | Tables of capabilities and templates. This is pure data. |

How the parts interact:
- The framework calls the controller from its own thread. The framework serialises its calls to one device.
- `processCaptureRequest` checks the request and copies it. Then `preprocessCaptureBuffer` waits on every acquire fence. Then the request is queued.
- The worker takes `request_queue_lock_` only to dequeue. It fills the buffers with no lock held.
- The worker reads `mCallbackOps` twice with no lock: once for the shutter and once for the result.
- `configureStreams` rewrites the framework's stream descriptors: `priv`, `usage`, `max_buffers`, and the resolved format. The worker later reads the format from them.

## 2. Modules

| Module | Models | State | Actions |
|---|---|---|---|
| `CapturePipeline` | Controller and worker, for one camera | `mBusy`, `mIsInitialized`, `mCallbackOps` (the session whose table is installed; 0 = NULL), `mSettings`, `request_queue`, the worker's location and held `request`. Ghosts: `session`, `accepted`, `shutters`, `results`. | `Open`, `Close`, `Initialize(ok)`, `ConfigureStreams`, `ProcessCaptureRequest(r)`, `DequeueRequest`, `SpuriousWakeup`, `NotifyShutter`, `SendResult` |
| `CaptureChannel` | The abstract promise of the queue and worker: a FIFO channel that answers each submitted request once, in order, eventually | `pending`, `done` | `Submit`, `Complete` |
| `CameraStreams` | `configureStreams` and its helpers, over heap `Stream` objects | `desc` (the framework's descriptors), `objs` and `live` (the heap of Streams), `mStreams`; the call in progress: `cpc`, `cfg`, `idx`, `newStreams`. Ghosts: `committed`, `edited`, `lastCall`. | `ConfigureStreams(list)`, `ConfigStreamEntry(ub)`, `ConfigureFinish`, plus the framework's `NewFrameworkStream` and `ChangeStreamFormat` |
| `FrameFill` | The per-buffer loop of `enqueueRequestBuffers`, with `GrallocFrameBuffer` and `CameraFrameBuffer` | the request's output buffers `outs`, the index `i`, the worker's location `pc`, the raw frame `src`, the `GrallocFrameBuffer` `frame`, per-buffer `status`. Ghosts: `fills`, `copies`, `maps`, `unmaps`. | `GetCameraBuffer(s)`, `MapOutputFrame(lockOk)`, `FillOutputFrame(scaleOk, sourceOk)`, `Unmap`, `SendResult`, `NextRequest(next)` |
| `DeviceTemplates` | `initialize`'s templates (`initDevice`, `init*Template`, `setTemplate`), `constructDefaultRequestSettings`, `getInfo` | `mBusy`, `mIsInitialized`, `mTemplates`, `staticInfo`. Ghosts: `leaked`, the last `query` and `answer`, `infoReported`. | `Open`, `Close`, `Initialize(out)`, `ConstructDefaultRequestSettings(type)`, `GetInfo(k)` |
| `ServiceConnection` | `VirtualCameraService` shared by the cameras' workers, with its binder death callbacks | the two cached proxies, the recipients linked per remote instance, pending notifications, each worker's place in `getCameraBuffer` and its local copies. The remote processes: alive, instance number. | per worker: `GetNuPlayerService`, `WaitForVirtualMedia`, `LinkVirtualMedia`, `CallGetNuPlayerService`, `LinkNuPlayer`, `CallGetCameraBuffer`; `VirtualMediaDies/Restarts`, `NuPlayerDies/Restarts`, `OnDeath`, `OnDeathNuPlayer` |
| `CapturePipelineProofs`, `CameraStreamsProofs`, `FrameFillProofs`, `DeviceTemplatesProofs`, `ServiceConnectionProofs` | TLAPS proofs about the component each extends (section 4) | | |
| `MCCapturePipeline`, `MCCameraStreams`, `MCFrameFill`, `MCDeviceTemplates`, `MCServiceConnection` | The constants of the TLC runs | | |

### How the models correspond to the code

- **`CapturePipeline`**
  - Every controller entry point is one atomic step: each runs under `mDeviceLock`, and the framework serialises `initialize` with the others.
  - `ProcessCaptureRequest` follows the code's order:
    - it requires an open device (`mBusy`), which is the caller's contract;
    - it rejects settings-less requests when nothing is memoized;
    - it memoizes the settings (line 402) *before* the other checks;
    - it then checks the input buffer, the settings, the output count and the fences. The fences are one Boolean outcome of `preprocessCaptureBuffer`;
    - finally it enqueues the copy, whose `settings` are the request's own (possibly NULL, `Camera.h:60`), and wakes a waiting worker (`notify_one`).
  - The worker's `while (empty) wait` is `DequeueRequest` (to `wait` when the queue is empty) plus `SpuriousWakeup`. A waiting worker is also woken by the enqueue.
  - The per-buffer fill loop of `enqueueRequestBuffers` changes no pipeline state, so it is not a separate step here. The worker's next step is the shutter.
  - `NotifyShutter` and `SendResult` record which session's callback table each callback went to.
- **`CameraStreams`**
  - A Stream is a number in `1..MaxObjs`. `live` is the set not deleted yet.
  - The call is several steps. `ConfigureStreams` clears the reuse marks (lines 213-216) and starts with an empty `newStreams`. `ConfigStreamEntry` is one iteration of the loop of lines 218-257; on a NULL entry it takes `err_out` and returns. `ConfigureFinish` is lines 258-280: the validity check, then either setup, deletion of the old `mStreams` and the swap, or `err_out`.
  - The framework's own steps are disabled while a call runs (`cpc = "loop"`): its thread is the caller, blocked in `configureStreams`, which holds `mDeviceLock` throughout. So the behaviours are those of an atomic call with its loop states made visible.
  - Each entry (`ConfigEntry`) either reuses the Stream named by `priv` (`ReuseStreamLocked`) or allocates a new one. The entry then binds the Stream and resolves an `IMPL` output format from the consumer usage (`BindDescriptor`).
  - Reading a deleted Stream in `isValidReuseStream` is undefined behaviour. It is modelled as either outcome (`ub`).
  - `Stream.h` and `Stream.cpp` are not in the repository. The Stream's recorded type and format, and `isValidReuseStream`, are modelled from the spec (sections 3 and 4.1). They are marked `spec_modelled` in `PROJECT.json`.

- **`FrameFill`**
  - The worker is one thread and its frame buffers are locals, so the loop is a sequence of steps at the calls whose outcome matters: the raw frame (or none), the gralloc lock, `Scale`, `SetSource`.
  - Pixel data is abstracted: a buffer is its HAL format, size and byte length; a raw frame its size and its ashmem region's length, which may exceed the frame by up to `MaxPad` bytes.
  - `GrallocFrameBuffer(b, fourcc, device_buffer_length, stream_usage)` is called with the arguments in the code's order, so the swapped `stream->format` and source size reach `Map`.
  - `CameraFrameBuffer(w, h, fourcc, pad)` takes the remote's fourcc and, like the constructor (`frame_buffer.cpp:156-160`), ignores it: every raw frame is declared YUV420. The remote's real layout is set by the IVirtualMedia service, whose source is not in the repository, so no property compares it with the declared one (a hazard in `PROJECT.json`).
  - `GetConvertedSize` belongs to `ImageProcessor`, which is not in `src/`; it is modelled from the spec and marked `spec_modelled`.
- **`DeviceTemplates`**
  - A metadata buffer is abstracted to the two entries `initDevice` writes: `ANDROID_CONTROL_MODE` (the base entry) and `ANDROID_CONTROL_CAPTURE_INTENT`.
  - `initDevice` is its six calls written out: `InitDeviceStart` (the `CONTROL_MODE` update) and six `InitStep`s, each returning the state unchanged once an earlier call failed (the code's `if (res != OK) return res;`). Each update may fail, and each clone in `setTemplate`; `InitOutcomes` enumerates the first failure, since nothing after it runs.
  - `NULL` (the null `camera_metadata_t *`) is assumed not to be a metadata record (`DeviceTemplatesAssumption`).
  - `base.release()` is modelled by what it does: it hands the buffer to the caller and leaves `base` empty.
  - `initStaticInfo` is abstracted to the number of entries added before its first failed update.
- **`ServiceConnection`**
  - A remote process is an instance number; a proxy is the instance it talks to, 0 for nullptr. A death queues one notification for each recipient linked to that instance; `OnDeath` and `OnDeathNuPlayer` deliver one each.
  - Each worker step is one access to a shared member, so every interleaving of the two workers and the binder thread is explored. The first step reads both members at once; a write between those two reads commutes with one of them, so nothing is lost.
  - `LinkToDeath` is `AIBinder_linkToDeath` (lines 98-102) as binder implements it. A recipient linked to a live instance is registered. A recipient linked to a dead instance still gets its notification: the driver queues the obituary at once. The call fails (only logged) once the proxy's obituaries were already sent, which needs a recipient linked before the death, whose notification was queued then.

## 3. Runs

All runs use model values for the settings blobs and the framework's stream handles.

- **`MCCapturePipeline`**: 2 settings, 3 accepted requests, 2 opens, 1 output buffer.
  - 3 requests is enough for two to be queued while the worker holds a third.
  - 2 opens is enough for a request to outlive its session.
- **`MCCameraStreams`**: 2 descriptors, 3 Stream objects, lists of length up to 2, consumers {texture, other}.
  - 3 objects allow a reconfiguration that reuses one Stream and creates another after a first configuration.
- **`MCFrameFill`**: formats BLOB, YCbCr_420_888, RGBA_8888 and RGB_888; widths {2, 4}, height 2; up to 2 buffers per request; ashmem padding up to 1 byte.
  - The formats cover the copy, scale and convert paths, the JPEG map and a format the worker cannot map. The two widths give the same-size and the scaled cases.
- **`MCDeviceTemplates`**: 3 static entries, 2 opens, 3 initialize calls: a failed initialize retried in the same session and after a close.
- **`MCServiceConnection`**: one or two workers; each remote process dies at most twice. Two deaths let a proxy fetched after one restart meet the notification of the instance before.

Passing runs. Each has a mutant that breaks it (see `PROJECT.json`).

| Run | Property | Shows |
|---|---|---|
| `pipeline_order` | `ResultsInSubmissionOrder`, `ShutterPrecedesResult` | The i-th result is the i-th accepted request, and shutters run one ahead of results, under every interleaving with open/close/initialize and spurious wakeups. |
| `pipeline_liveness` | `EveryRequestCompleted`, `ImplementsCaptureChannel` | With weak fairness on the worker's three steps, every accepted request is answered: no lost wakeup. The queue plus the worker refine `CaptureChannel`; the mapping is `pending = held request ++ queue` and `done = requests of the results`. |
| `streams_leak` | `NoStreamLeak` | No Stream stays allocated outside `mStreams` (or, during a call, its `newStreams`), after failed and successful configurations alike. |
| `frame_fill` | `MapsPaired` | Every successful `Map` is paired with one `Unmap` before the loop moves on, on the copy, scale, convert and skip paths alike. |
| `templates` | `DefaultSettingsCorrect` | Through failed and retried `initialize` calls, before and after `close`, the default-settings query returns a template exactly for a valid type on an initialized device, and it is that type's template. |
| `service_one_camera` | `NoNullProxyDeref` | With one camera in use and both remote processes dying and restarting, the worker never dereferences a nullptr proxy. |
| `service_reconnect` | `FramesResume` | With one camera, once both remote processes stay up the worker gets frames again and again, whatever deaths and restarts came before. Every recipient, even one linked to an instance already dead, brings a notification that resets the stale proxy. The mutant `LinkVirtualMedia_NoObituary` (a link to a dead instance that is never notified) breaks it. |

Violation runs: the code disagrees with the spec or its own comments. These are the findings of `PROJECT.json`.

| Run | Property | What TLC finds |
|---|---|---|
| `pipeline_accept_uninitialized` | `AcceptOnlyWhenInitialized` | `processCaptureRequest` is accepted while `mIsInitialized` is FALSE: after `open`, before any `initialize` or after a failed one. |
| `pipeline_result_session` | `ResultDeliveredToSubmitter` | `close` clears only `mBusy` and `mIsInitialized`; `mCallbackOps` and the queue stay. Session 1 opens, initializes and closes; session 2 opens and submits before its own `initialize`. Its shutter and result go through session 1's callback table. (A result through no table at all is `AcceptOnlyWhenInitialized`'s case, and is not counted here.) |
| `streams_use_after_free` | `CommittedStreamsLive` | Configure {a}, then configure {a} again with reuse. `destroyStreamsLocked(mStreams)` frees `a`'s Stream, which stays in `mStreams`. |
| `frame_copy_overflow` | `CopyWithinCapacity` | The same-size YUV420 `memcpy` copies the whole ashmem region, which may be larger than the mapped buffer (`VirtualCamera.cpp:835`). |
| `service_two_cameras` | `NoNullProxyDeref` | Camera 0's worker links a recipient; the process dies; its notification nulls `m_INuPlayerService` just after camera 1's worker stored it and before `asBinder()` (line 120). |

Further configurations, kept beside the recorded runs, each checking one property that TLC finds violated. They are listed as hazards in `PROJECT.json`.

| Config | Property | What TLC finds |
|---|---|---|
| `MCCapturePipeline_SettingsMemoizedOnlyOnAccept.cfg` | `SettingsMemoizedOnlyOnAccept` | A request rejected for its fences or output count still replaces `mSettings`. |
| `MCCapturePipeline_QueuedRequestCarriesSettings.cfg` | `QueuedRequestCarriesSettings` | A settings-less request is queued with NULL settings. |
| `MCCameraStreams_ReuseRoundTrip.cfg` | `ReuseRoundTrip` | With an `IMPL` output stream, reconfiguring with the unchanged descriptor fails: its format was rewritten to YCbCr or RGB after the Stream recorded `IMPL`. |
| `MCCameraStreams_CommittedOutputFormatsConvertible.cfg` | `CommittedOutputFormatsConvertible` | An `IMPL` output for an "other" consumer is committed as RGB_888, which `HalToV4L2PixelFormat` does not map. |
| `MCFrameFill_JpegCapacityIsBufferLength.cfg` | `JpegCapacityIsBufferLength` | A JPEG buffer is mapped with capacity 33, the BLOB format code: the constructor's last two arguments are swapped (`VirtualCamera.cpp:822-824`). |
| `MCFrameFill_SkippedBufferNotReportedOK.cfg` | `SkippedBufferNotReportedOK` | A buffer skipped for want of a raw frame or a failed `Map` is returned with status OK. |
| `MCDeviceTemplates_DefaultSettingsCarryBase.cfg` | `DefaultSettingsCarryBase` | `base.release()` in `initPreviewTemplate` empties `base`, so the other five templates lack `ANDROID_CONTROL_MODE`. |
| `MCDeviceTemplates_NoMetadataLeak.cfg` | `NoMetadataLeak` | `setTemplate` clones the released buffer and never frees it: every `initialize` leaks. |
| `MCDeviceTemplates_StaticInfoCompleteWhenReported.cfg` | `StaticInfoCompleteWhenReported` | After a failed update in `initStaticInfo`, `getInfo` returns 0 with partial characteristics, and never rebuilds them. |

### Fairness

- Weak fairness is assumed for `DequeueRequest`, `NotifyShutter` and `SendResult`. The worker is a dedicated thread that loops forever (`FunctionThread` runs `enqueueRequestBuffers` until `requestExit`, and `CameraHAL` never destroys a camera). The scheduler keeps running it.
- There is no fairness on `SpuriousWakeup`, nor on any framework call: the framework may stop calling at any time.
- `ServiceConnection` assumes weak fairness of each worker (a camera with requests keeps calling `getCameraBuffer`) and of the delivery of death notifications (the binder thread pool started in `CameraHAL`'s constructor). The remote processes get none; `FramesResume` assumes instead that they eventually stay up.

## 4. Proofs (TLAPS)

Five modules hold theorems. Each extends the component's module and `TLAPS`; none reaches a `RECURSIVE` operator. Each safety theorem is proved the same way. An inductive invariant (`IInv`, or `TInv`, `XInv`, `SInv` for the further theorems of a module) holds initially, is kept by every step (one proof step per action, plus the stutter), and implies the property; the temporal step is `PTL`. Each such invariant was first checked by TLC as an invariant of the component's MC instance. In the step proofs, the facts about Boolean-valued variables are closed with Zenon and the arithmetic with SMT, in separate steps.

**`CapturePipelineProofs`**
- **`TypeCorrect`**: `Spec => []TypeOK`.
  - `TypeOK` is not inductive by itself. It is proved through `TypeInv`, which adds three facts:
    - the worker holds a request while it is at the shutter or the result;
    - an open device has a session number of at least 1;
    - at most `MaxRequests` requests are accepted.
  - These facts are needed to type the copy made by `ProcessCaptureRequest` and the callbacks the worker records.
- **`ResultsOrdered`** (`Spec => []ResultsInSubmissionOrder`) and **`ShutterBeforeResult`** (`Spec => []ShutterPrecedesResult`), for all values of the constants.
  - Both follow from the lemma `AlwaysIInv`, `Spec => []IInv`. `IInv` holds that `accepted` is exactly the results, then the held request, then the queue, in that order. The shutters are the results plus the one being answered.
  - `IInv` was checked by TLC with `MCCapturePipelineIInv.cfg`.
  - Accepting a request appends the same copy to the queue and to `accepted`, which is the only case needing index arithmetic on sequences.
- **`RefinesCaptureChannel`**: `Spec => Channel!ChanInit /\ [][Channel!ChanNext]_<<pendingBar, doneBar>>`, the safety part of `ImplementsCaptureChannel`.
  - `pendingBar` and `doneBar` are the refinement mapping of `CapturePipeline`: the held request followed by the queue, and the requests of the results.
  - The initial state maps to the empty channel (`RefineInit`).
  - Every step maps to a step of the channel or to a stutter (`RefineStep`), under `TypeInv` only:
    - an accepted request is `Submit`;
    - `SendResult` is `Complete`;
    - `DequeueRequest` moves the head of the queue into the held request, which leaves `pendingBar` unchanged (`<<Head(q)>> \o Tail(q) = q`);
    - every other step is a stutter (`ChannelStutter`).
  - The channel's weak fairness is left to TLC.
- Assumption: `ConstantsAssumption` (NULL is not a settings blob; the bounds are naturals).

**`DeviceTemplatesProofs`**
- **`DefaultSettingsAlwaysCorrect`**: `Spec => []DefaultSettingsCorrect`, for every `NStatic`, `MaxOpens` and `MaxInits`.
  - The answer of a query depends on the templates when it was asked. So `IInv` adds that every stored template carries the intent of its own slot (`GoodTemplates`), and that an initialized device has all six.
  - The second fact rests on three lemmas about `initDevice`:
    - `SetTemplateGood`: `setTemplate` never replaces a stored template, and it returns OK only with the slot set;
    - `InitStepGood`: one `init*Template` call extends "the first k slots are set when the result is OK" from k-1 to k;
    - `InitDeviceGood`: the six steps chained.
  - A failed `initialize` leaves `mIsInitialized` as it was, and keeps every template already stored. So a device initialized earlier still has all six.
- **`TypeCorrect`**: `Spec => []TypeOK`, whose one non-trivial bound is on the leaked metadata: `leaked <= (TemplateCount - 1) * MaxInits`.
  - `GoodRun` also counts the buffers a run of `initDevice` has leaked: at most k after k template calls. `base.release()` hands one buffer to `setTemplate` per call that gets past its update, and nothing frees it.
  - `XInv` adds `leaked <= (TemplateCount - 1) * inits` and the bounds on the counters. It was checked by TLC on the `templates` instance, and is kept by every step given `IInv` (for `GoodTemplates`, which `InitDeviceGood` needs).
  - So the leak that `NoMetadataLeak` exhibits is bounded: at most six buffers per `Camera::initialize`.
- Assumption: `DeviceTemplatesAssumption`, including that NULL is not a metadata record. The proofs cite it only through `NullNotMetadata` and `BoundsNat`.

**`ServiceConnectionProofs`**
- **`OneCameraNoNullProxyDeref`**: with `Workers = {w}`, `Spec => []NoNullProxyDeref`, for every `MaxDeaths`.
  - The crash needs an INuPlayerService death notification delivered between the store at line 114 and `asBinder()` at line 120.
  - `IInv` counts the notifications still to come: `Outstanding` is the queued ones plus the recipients linked to the live instance. It states:
    - `Outstanding` is at most 1;
    - it is 0 while the member is nullptr, while the worker is fetching a new proxy, and between the store and the link;
    - no recipient is linked to an instance not yet started, so a restart brings no notification;
    - `npGen` is `npDeaths` plus one while the process is up, which keeps it within `Gens`.
  - A link to a dead instance either queues one notification or adds none, so it keeps `Outstanding` at most 1: it happens only between the store and the link, where `Outstanding` is 0.
  - The lone worker stores a new proxy only once the member was reset, which happens only when the notification for the old proxy is delivered.
  - With two workers the theorem is false: `service_two_cameras` shows the trace.
- **`TypeCorrect`**: `Spec => []TypeOK` for any set of workers.
  - `TInv` adds that each instance number is the deaths so far plus one while the process is alive, and that each death count is at most `MaxDeaths`. So every generation stays in `Gens`, and every proxy is an instance number or nullptr.
  - `TInv` was checked by TLC on the two-camera instance: 45.6 million states.

**`FrameFillProofs`**
- **`MapsAlwaysPaired`**: `Spec => []MapsPaired`, for every set of formats, sizes, pads and buffer counts.
  - `IInv` places the worker in its iteration:
    - buffers ahead of `i` are untouched;
    - buffer `i` is mapped once and not unmapped exactly while the worker fills or unmaps it;
    - the frame is mapped exactly then, and is NULL at `get` and `result`.
  - `RequestsAreSeqs` types the requests as sequences.
- **`TypeCorrect`**: `Spec => []TypeOK`.
  - The loop index is bounded by `IInv`.
  - `XInv` keeps the request a framework request, the raw frame one the service sends or NULL, and the statuses `OK`.
  - `RequestLen` bounds a request's length by `MaxBuffers`.

**`CameraStreamsProofs`**
- **`NoLeak`**: `Spec => []NoStreamLeak`, for every number of descriptors, Stream objects and list lengths, whichever entry fails and whatever a reuse check on a deleted Stream returns.
  - `NoStreamLeak` is the loop invariant of `configureStreams`: every live Stream is in `mStreams` or in the call's `newStreams`.
  - It is not inductive alone. `SInv` adds `TypeOK` (to compute the ranges of sequences) and that `newStreams` is empty between calls. Without the second fact, the start of a call could "forget" Streams held by a stale `newStreams`.
  - Each step keeps it:
    - an entry appends the Stream it reused or created to `newStreams` (`RangeAppend`);
    - a failed entry, or an invalid set, deletes all of `newStreams`, so only those of `mStreams` remain (`ReturnSInv`);
    - success deletes the old `mStreams`, and what remains is in `newStreams`, which becomes `mStreams`.
  - `EntrySInv` has one step per path of `ConfigEntry`: reuse, a NULL from `reuseStreamLocked`, and `new Stream`.
- **`TypeCorrect`**: `Spec => []TypeOK`.
  - `SInv` also bounds the loop: `idx <= Len(cfg) + 1`, and `nextObj + Len(cfg) <= MaxObjs + idx`. The second fact says the entries still to go never allocate past `MaxObjs`; it comes from the call's guard.
  - `BindDescriptorType` and `SetupStreamsType` show that the descriptors the call writes stay descriptors.
- `SInv` was checked by TLC on the `streams_leak` instance: 605,544 states.
- Assumption: `StreamsAssumption`.
- Why the loop is steps: a recursive function computing the whole loop at once could not be reasoned about here. Even one unfolding needs the `NaturalsInduction` theorem about recursive definitions, which takes the definition as an operator parameter. As steps, the loop's invariant is an ordinary inductive invariant.

What stays with TLC:
- **Liveness**: `EveryRequestCompleted`, the fairness conjunct of `ImplementsCaptureChannel` and `FramesResume` involve fairness and `ENABLED`, which are out of the prover's reach here.
- **`NoNullProxyDeref` with two workers**: it is false.

## 5. What is not modelled, and why

- **The values of the static metadata tables**: pure data. `DeviceTemplates` keeps only how many entries were added. In `CapturePipeline`, whether `initDevice` succeeds is the `ok` input of `Initialize`.
- **`FrameFill` and `CapturePipeline` are not composed**: the pipeline does not see the buffer statuses the fill loop computes.
- **Image processing** (`ImageProcessor`, `CachedFrame`): not in `src/`.
- **AIDL native handle conversion**: unused pure conversions.
- **Logging**.
- **`CameraHAL` (module glue)**:
  - The spec (section 1) puts enumeration and module-registration glue out of scope.
  - What of it matters is in the models: it creates the two cameras over one shared `VirtualCameraService` (the two `Workers` of `ServiceConnection`) and starts the binder thread pool (the fairness of death delivery).
  - Its `open` forwarding under `mModuleLock` adds no state of its own.
- **Teardown**: `CameraHAL`'s destructor is empty and the cameras are never deleted, so `~VirtualCamera` (request exit and join) never runs.

## 6. Plan

1. (Done) `CapturePipeline`, `CaptureChannel` and the refinement. `CameraStreams`. `FrameFill`, `DeviceTemplates`, `ServiceConnection`.
2. (Done) TLAPS proofs:
   - type correctness and result ordering for the pipeline;
   - `DefaultSettingsCorrect` for all bounds;
   - `NoNullProxyDeref` for one camera;
   - `MapsPaired` for all formats and sizes;
   - `NoStreamLeak` and type correctness for stream configuration;
   - the safety part of the refinement of `CaptureChannel`.
3. Compose `CameraStreams` with `CapturePipeline` and `FrameFill`: committed stream formats flow into the requests' output buffers, and the buffer statuses into the results.
4. Per-buffer fences in `CapturePipeline`, for the partial-failure hazard of `preprocessCaptureBuffer` (`Camera.cpp:428`).
