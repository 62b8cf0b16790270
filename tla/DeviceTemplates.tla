--------------------------- MODULE DeviceTemplates ---------------------------
(***************************************************************************)
(* The settings a camera device hands out that are not per-request: the    *)
(* six default-request templates built by initialize() (Camera.cpp        *)
(* initialize, VirtualCamera.cpp initDevice / init*Template, Camera.cpp    *)
(* setTemplate) and read by constructDefaultRequestSettings, and the       *)
(* static characteristics built lazily by getInfo (initStaticInfo,        *)
(* upRequestMetadata).                                                     *)
(*                                                                         *)
(* A metadata buffer is abstracted to the two entries initDevice writes:  *)
(* whether it holds ANDROID_CONTROL_MODE (the "base" entry) and the value *)
(* of ANDROID_CONTROL_CAPTURE_INTENT (0 when absent).  Every update of    *)
(* a CameraMetadata may fail (ADD_STATIC_ENTRY returns early); a clone    *)
(* may fail (setTemplate returns -EINVAL).  The static characteristics   *)
(* are abstracted to how many of their NStatic entries were added.        *)
(***************************************************************************)
EXTENDS Naturals

CONSTANTS
    NULL,       \* the null camera_metadata_t pointer
    NStatic,    \* entries added by initStaticInfo and upRequestMetadata
    MaxOpens,   \* bound on Camera::open calls
    MaxInits    \* bound on Camera::initialize calls

ASSUME DeviceTemplatesAssumption ==
    /\ NStatic \in Nat \ {0}
    /\ MaxOpens \in Nat
    /\ MaxInits \in Nat
    /\ NULL \notin [mode : BOOLEAN, intent : Nat]

(* CAMERA3_TEMPLATE_PREVIEW .. CAMERA3_TEMPLATE_MANUAL; COUNT is 7.       *)
TemplateCount == 7
TemplateTypes == 1..(TemplateCount - 1)
(* The template types a caller may ask for, valid or not.                  *)
QueryTypes == 0..TemplateCount

Metadata == [mode : BOOLEAN, intent : 0..(TemplateCount - 1)]
EmptyMetadata == [mode |-> FALSE, intent |-> 0]

(* Outcome of one update or clone of a CameraMetadata.                     *)
Outcomes == {"ok", "updateFail", "cloneFail"}

VARIABLES
    mBusy, mIsInitialized,
    mTemplates,     \* type -> template, or NULL
    staticInfo,     \* entries of *mCameraMetadata, 0 = isEmpty()
    \* ghosts
    opens, inits,
    leaked,         \* buffers handed out by base.release() and never freed
    query,          \* last constructDefaultRequestSettings: [type, initialized]
    answer,         \* and what it returned
    infoReported    \* some getInfo returned 0

vars == <<mBusy, mIsInitialized, mTemplates, staticInfo, opens, inits,
          leaked, query, answer, infoReported>>

(* Camera::isValidTemplateType.                                            *)
IsValidTemplateType(type) == type >= 1 /\ type < TemplateCount

(* A mutant: the result of the clone is not checked.                       *)
SetTemplate_NoCheck(tmpl, type, settings, cloneOk) ==
    IF ~IsValidTemplateType(type) THEN [templates |-> tmpl, res |-> "EINVAL"]
    ELSE IF tmpl[type] # NULL THEN [templates |-> tmpl, res |-> "OK"]
    ELSE IF cloneOk THEN [templates |-> [tmpl EXCEPT ![type] = settings], res |-> "OK"]
    ELSE [templates |-> tmpl, res |-> "OK"]

(* Camera::setTemplate(type, settings) on templates tmpl, with the clone   *)
(* succeeding or not: an existing template is kept and OK returned; else  *)
(* the clone is stored, and a failed clone returns -EINVAL.  It never     *)
(* frees `settings`.  Result: [templates, res].                           *)
SetTemplate(tmpl, type, settings, cloneOk) ==
    IF ~IsValidTemplateType(type) THEN [templates |-> tmpl, res |-> "EINVAL"]
    ELSE IF tmpl[type] # NULL THEN [templates |-> tmpl, res |-> "OK"]
    ELSE IF cloneOk THEN [templates |-> [tmpl EXCEPT ![type] = settings], res |-> "OK"]
    ELSE [templates |-> tmpl, res |-> "EINVAL"]

(* VirtualCamera::init<Type>Template(base) on the run state st: add       *)
(* CAPTURE_INTENT = type to base (returning on failure), then hand        *)
(* base.release() to setTemplate.  release() empties base and passes      *)
(* ownership of the buffer to the caller, which never frees it.            *)
InitTemplate(st, type, o) ==
    IF o = "updateFail" THEN [st EXCEPT !.res = "ENOMEM"]
    ELSE LET released == [st.base EXCEPT !.intent = type]
             set == SetTemplate(st.templates, type, released, o # "cloneFail")
         IN  [templates |-> set.templates, base |-> EmptyMetadata,
              leaked |-> st.leaked + 1, res |-> set.res]

(* One of initDevice's init*Template calls, reached only while the ones  *)
(* before it succeeded: `if (res != OK) return res;` after each.          *)
InitStep(st, t, out) ==
    IF st.res # "OK" THEN st ELSE InitTemplate(st, t, out[t])

(* initDevice's first statement: ADD_STATIC_ENTRY(CONTROL_MODE) on an   *)
(* empty base, returning on failure.                                      *)
InitDeviceStart(tmpl, out) ==
    [templates |-> tmpl, leaked |-> 0,
     base |-> [EmptyMetadata EXCEPT !.mode = (out[0] = "ok")],
     res |-> IF out[0] = "ok" THEN "OK" ELSE "ENOMEM"]

(* VirtualCamera::initDevice on templates tmpl: add CONTROL_MODE to an    *)
(* empty base, then the six init*Template calls in order, returning at    *)
(* the first that fails.  out[0] is the outcome of the first update,      *)
(* out[t] the one of template t.                                          *)
InitDevice(tmpl, out) ==
    LET s0 == InitDeviceStart(tmpl, out)
        s1 == InitStep(s0, 1, out)
        s2 == InitStep(s1, 2, out)
        s3 == InitStep(s2, 3, out)
        s4 == InitStep(s3, 4, out)
        s5 == InitStep(s4, 5, out)
    IN  InitStep(s5, 6, out)

(* The outcomes worth enumerating: all succeed, or the first failure is   *)
(* at k; what follows a failure is never run.                             *)
InitOutcomes ==
    {[t \in 0..(TemplateCount - 1) |-> "ok"]} \cup
    {[t \in 0..(TemplateCount - 1) |-> IF t = k THEN f ELSE "ok"] :
        k \in 0..(TemplateCount - 1), f \in Outcomes \ {"ok"}}

Init ==
    /\ mBusy = FALSE
    /\ mIsInitialized = FALSE
    /\ mTemplates = [t \in TemplateTypes |-> NULL]
    /\ staticInfo = 0
    /\ opens = 0
    /\ inits = 0
    /\ leaked = 0
    /\ query = NULL
    /\ answer = NULL
    /\ infoReported = FALSE

(* Camera::open: -EBUSY when open, else mark busy.                         *)
Open ==
    /\ ~mBusy
    /\ opens < MaxOpens
    /\ mBusy' = TRUE
    /\ opens' = opens + 1
    /\ UNCHANGED <<mIsInitialized, mTemplates, staticInfo, inits, leaked,
                   query, answer, infoReported>>

(* Camera::close: clears mBusy and mIsInitialized; templates are kept.     *)
Close ==
    /\ mBusy
    /\ mBusy' = FALSE
    /\ mIsInitialized' = FALSE
    /\ UNCHANGED <<mTemplates, staticInfo, opens, inits, leaked, query,
                   answer, infoReported>>

(* Camera::initialize: runs initDevice(); mIsInitialized is set only when *)
(* it returns OK, and left as it was otherwise.                            *)
Initialize(out) ==
    LET r == InitDevice(mTemplates, out)
    IN  /\ mBusy
        /\ inits < MaxInits
        /\ inits' = inits + 1
        /\ mTemplates' = r.templates
        /\ leaked' = leaked + r.leaked
        /\ mIsInitialized' = (r.res = "OK" \/ mIsInitialized)
        /\ UNCHANGED <<mBusy, staticInfo, opens, query, answer, infoReported>>

(* Camera::constructDefaultRequestSettings(type), under mDeviceLock: NULL *)
(* for an invalid type or an uninitialized device, else mTemplates[type]. *)
ConstructDefaultRequestSettings(type) ==
    /\ mBusy
    /\ query' = [type |-> type, initialized |-> mIsInitialized]
    /\ answer' = IF ~IsValidTemplateType(type) \/ ~mIsInitialized THEN NULL
                 ELSE mTemplates[type]
    /\ UNCHANGED <<mBusy, mIsInitialized, mTemplates, staticInfo, opens,
                   inits, leaked, infoReported>>

(* VirtualCamera::initStaticInfo, with upRequestMetadata at its end: a   *)
(* sequence of ADD_STATIC_ENTRY updates, each returning at once on        *)
(* failure.  What it leaves is the number of entries added before the    *)
(* first failure, all NStatic when none fails.                            *)
InitStaticInfoOutcomes == 0..NStatic

(* Camera::getInfo, under mStaticInfoLock: if *mCameraMetadata is empty,  *)
(* initStaticInfo fills it, stopping at the first failed update (k        *)
(* entries added), and its status is ignored; then getAndLock and return *)
(* 0.  upRequestMetadata's status is ignored by initStaticInfo too, so    *)
(* both are one prefix of entries.                                        *)
GetInfo(k) ==
    /\ staticInfo' = IF staticInfo = 0 THEN k ELSE staticInfo
    /\ infoReported' = TRUE
    /\ UNCHANGED <<mBusy, mIsInitialized, mTemplates, opens, inits, leaked,
                   query, answer>>

Next ==
    \/ Open
    \/ Close
    \/ \E out \in InitOutcomes : Initialize(out)
    \/ \E type \in QueryTypes : ConstructDefaultRequestSettings(type)
    \/ \E k \in InitStaticInfoOutcomes : GetInfo(k)

Spec == Init /\ [][Next]_vars

-----------------------------------------------------------------------------
(* Every variable has its type.                                            *)
TypeOK ==
    /\ mBusy \in BOOLEAN
    /\ mIsInitialized \in BOOLEAN
    /\ mTemplates \in [TemplateTypes -> Metadata \cup {NULL}]
    /\ staticInfo \in 0..NStatic
    /\ opens \in 0..MaxOpens
    /\ inits \in 0..MaxInits
    /\ leaked \in 0..((TemplateCount - 1) * MaxInits)
    /\ query \in [type : QueryTypes, initialized : BOOLEAN] \cup {NULL}
    /\ answer \in Metadata \cup {NULL}
    /\ infoReported \in BOOLEAN

(* The default-settings query answers as the spec's interface says: a    *)
(* settings blob exactly when the type is valid and the device was        *)
(* initialized, and that blob is the template of the type asked for (its *)
(* CAPTURE_INTENT).  Initialize, possibly failed and retried after a     *)
(* close, must leave no valid type without a template once               *)
(* mIsInitialized is set.                                                  *)
DefaultSettingsCorrect ==
    query # NULL =>
        /\ (answer # NULL) <=> (IsValidTemplateType(query.type) /\ query.initialized)
        /\ answer # NULL => answer.intent = query.type

(* Every template carries the base settings: the comment of initDevice    *)
(* says all templates are created from copies of the base metadata       *)
(* (ANDROID_CONTROL_MODE).  The code releases base into the preview      *)
(* template, so the next templates start from an empty buffer.            *)
DefaultSettingsCarryBase ==
    answer # NULL => answer.mode

(* No metadata buffer is lost: every buffer initDevice builds ends up    *)
(* owned by someone.  setTemplate clones what init*Template released and *)
(* never frees the original.                                               *)
NoMetadataLeak ==
    leaked = 0

(* getInfo reports success only with the complete static                  *)
(* characteristics.  A failed update in initStaticInfo leaves them       *)
(* partial; getInfo returns 0 anyway and, the metadata being non-empty,  *)
(* never fills it again.                                                   *)
StaticInfoCompleteWhenReported ==
    infoReported => staticInfo = NStatic

=============================================================================
