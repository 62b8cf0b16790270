------------------------ MODULE DeviceTemplatesProofs ------------------------
(***************************************************************************)
(* Proof that the default-request settings a device hands out are right   *)
(* for every number of opens, initializations and static entries:        *)
(* constructDefaultRequestSettings returns a template exactly when the    *)
(* type is valid and the device initialized, and that template carries   *)
(* the CAPTURE_INTENT of the type asked for.                               *)
(*                                                                         *)
(* DefaultSettingsCorrect is not inductive by itself: the answer of a     *)
(* query depends on the templates at the time, so the invariant also says *)
(* that every stored template has the intent of its slot, and that an    *)
(* initialized device has all six.  The second fact rests on initDevice:  *)
(* it keeps every template already set (setTemplate never replaces one),  *)
(* and returns OK only after all six setTemplate calls succeeded.         *)
(***************************************************************************)
EXTENDS DeviceTemplates, TLAPS

(* A table of templates in which every stored template is the one of its  *)
(* slot: its CAPTURE_INTENT is the slot's type.                            *)
GoodTemplates(tm) ==
    /\ tm \in [TemplateTypes -> Metadata \cup {NULL}]
    /\ \A t \in TemplateTypes : tm[t] # NULL => tm[t].intent = t

(* tm2 keeps every template tm1 holds.                                     *)
Keeps(tm1, tm2) ==
    \A t \in TemplateTypes : tm1[t] # NULL => tm2[t] = tm1[t]

(* The run state of initDevice after the first k template calls, given   *)
(* the templates tmpl it started from; each call leaks at most the one    *)
(* buffer base.release() handed to setTemplate.                           *)
GoodRun(st, tmpl, k) ==
    /\ st \in [templates : [TemplateTypes -> Metadata \cup {NULL}],
               base : Metadata, leaked : Nat, res : {"OK", "ENOMEM", "EINVAL"}]
    /\ GoodTemplates(st.templates)
    /\ Keeps(tmpl, st.templates)
    /\ st.res = "OK" => \A t \in 1..k : st.templates[t] # NULL
    /\ st.leaked <= k

LEMMA NullNotMetadata == NULL \notin Metadata
BY DeviceTemplatesAssumption DEF DeviceTemplatesAssumption, Metadata, TemplateCount

(* setTemplate with a settings buffer whose intent is the type keeps the  *)
(* table good, keeps what it held, and when it returns OK the slot is     *)
(* set.                                                                    *)
LEMMA SetTemplateGood ==
    ASSUME NEW tmpl, GoodTemplates(tmpl),
           NEW type \in TemplateTypes,
           NEW settings \in Metadata, settings.intent = type,
           NEW cloneOk \in BOOLEAN
    PROVE  LET r == SetTemplate(tmpl, type, settings, cloneOk)
           IN  /\ GoodTemplates(r.templates)
               /\ Keeps(tmpl, r.templates)
               /\ r.res \in {"OK", "EINVAL"}
               /\ r.res = "OK" => r.templates[type] # NULL
<1>1. IsValidTemplateType(type)
    BY DEF IsValidTemplateType, TemplateTypes, TemplateCount
<1>2. settings # NULL
    BY NullNotMetadata
<1>3. CASE tmpl[type] # NULL
    <2>1. SetTemplate(tmpl, type, settings, cloneOk) = [templates |-> tmpl, res |-> "OK"]
        BY <1>1, <1>3 DEF SetTemplate
    <2>2. QED
        BY <1>3, <2>1 DEF Keeps
<1>4. CASE tmpl[type] = NULL /\ cloneOk
    BY <1>1, <1>2, <1>4 DEF SetTemplate, Keeps, GoodTemplates
<1>5. CASE tmpl[type] = NULL /\ ~cloneOk
    BY <1>1, <1>5 DEF SetTemplate, Keeps
<1>6. QED
    BY <1>3, <1>4, <1>5

(* One init*Template call, reached while the ones before it succeeded,   *)
(* keeps the run good and, when it succeeds, adds its slot to the ones    *)
(* known set.                                                              *)
LEMMA InitStepGood ==
    ASSUME NEW tmpl, NEW st, NEW j \in Nat, NEW k \in TemplateTypes, k = j + 1,
           GoodRun(st, tmpl, j),
           NEW out \in [0..(TemplateCount - 1) -> Outcomes]
    PROVE  GoodRun(InitStep(st, k, out), tmpl, k)
<1>0. st.res = "OK" => InitStep(st, k, out) = InitTemplate(st, k, out[k])
    BY DEF InitStep
<1>1. CASE st.res # "OK"
    BY <1>1 DEF InitStep, GoodRun
<1>2. CASE st.res = "OK" /\ out[k] = "updateFail"
    <2>1. InitStep(st, k, out) = [st EXCEPT !.res = "ENOMEM"]
        BY <1>0, <1>2 DEF InitTemplate
    <2>2. QED
        BY <2>1 DEF GoodRun
<1>3. CASE st.res = "OK" /\ out[k] # "updateFail"
    <2> DEFINE released == [st.base EXCEPT !.intent = k]
               set == SetTemplate(st.templates, k, released, out[k] # "cloneFail")
    <2>1. InitStep(st, k, out) = [templates |-> set.templates, base |-> EmptyMetadata,
                                  leaked |-> st.leaked + 1, res |-> set.res]
        BY <1>0, <1>3 DEF InitTemplate
    <2>2. released \in Metadata /\ released.intent = k
        BY DEF GoodRun, Metadata, TemplateTypes, TemplateCount
    <2>3. /\ GoodTemplates(set.templates)
          /\ Keeps(st.templates, set.templates)
          /\ set.res \in {"OK", "EINVAL"}
          /\ set.res = "OK" => set.templates[k] # NULL
        BY <2>2, SetTemplateGood DEF GoodRun
    <2>4. \A t \in 1..j : st.templates[t] # NULL
        BY <1>3 DEF GoodRun
    <2>5. EmptyMetadata \in Metadata
        BY DEF EmptyMetadata, Metadata, TemplateCount
    <2>6. 1..k = (1..j) \cup {k} /\ 1..j \subseteq TemplateTypes
        BY DEF TemplateTypes, TemplateCount
    <2>7. QED
        BY <2>1, <2>3, <2>4, <2>5, <2>6 DEF GoodRun, GoodTemplates, Keeps
<1>4. QED
    BY <1>1, <1>2, <1>3

(* initDevice keeps every template already set, stores only templates of *)
(* the right intent, and returns OK only with all six slots set.          *)
LEMMA InitDeviceGood ==
    ASSUME NEW tmpl, GoodTemplates(tmpl),
           NEW out \in [0..(TemplateCount - 1) -> Outcomes]
    PROVE  GoodRun(InitDevice(tmpl, out), tmpl, TemplateCount - 1)
<1> DEFINE s0 == InitDeviceStart(tmpl, out)
           s1 == InitStep(s0, 1, out)
           s2 == InitStep(s1, 2, out)
           s3 == InitStep(s2, 3, out)
           s4 == InitStep(s3, 4, out)
           s5 == InitStep(s4, 5, out)
           s6 == InitStep(s5, 6, out)
<1>1. InitDevice(tmpl, out) = s6
    BY DEF InitDevice
<1>2. GoodRun(s0, tmpl, 0)
    <2>1. s0.base \in Metadata
        <3>1. s0.base = [mode |-> (out[0] = "ok"), intent |-> 0]
            BY DEF InitDeviceStart, EmptyMetadata
        <3>2. QED
            BY <3>1 DEF Metadata, TemplateCount
    <2>2. s0 = [templates |-> tmpl, leaked |-> 0, base |-> s0.base,
                res |-> IF out[0] = "ok" THEN "OK" ELSE "ENOMEM"]
        BY DEF InitDeviceStart
    <2>3. QED
        BY <2>1, <2>2 DEF GoodRun, GoodTemplates, Keeps
<1>3. \A k \in 1..6 : k \in TemplateTypes
    BY DEF TemplateTypes, TemplateCount
<1>4. GoodRun(s1, tmpl, 1)
    BY <1>2, <1>3, InitStepGood
<1>5. GoodRun(s2, tmpl, 2)
    BY <1>4, <1>3, InitStepGood
<1>6. GoodRun(s3, tmpl, 3)
    BY <1>5, <1>3, InitStepGood
<1>7. GoodRun(s4, tmpl, 4)
    BY <1>6, <1>3, InitStepGood
<1>8. GoodRun(s5, tmpl, 5)
    BY <1>7, <1>3, InitStepGood
<1>9. GoodRun(s6, tmpl, 6)
    BY <1>8, <1>3, InitStepGood
<1>10. QED
    BY <1>1, <1>9 DEF TemplateCount

(* The inductive invariant: the table is good, an initialized device has *)
(* every template, and the last query was answered correctly.             *)
IInv ==
    /\ GoodTemplates(mTemplates)
    /\ mIsInitialized \in BOOLEAN
    /\ mIsInitialized => \A t \in TemplateTypes : mTemplates[t] # NULL
    /\ query \in [type : QueryTypes, initialized : BOOLEAN] \cup {NULL}
    /\ answer \in Metadata \cup {NULL}
    /\ DefaultSettingsCorrect

LEMMA InitOutcomesType == InitOutcomes \subseteq [0..(TemplateCount - 1) -> Outcomes]
BY DEF InitOutcomes, Outcomes

LEMMA InitIInv == Init => IInv
BY NullNotMetadata DEF Init, IInv, GoodTemplates, DefaultSettingsCorrect

LEMMA NextIInv == IInv /\ [Next]_vars => IInv'
<1> SUFFICES ASSUME IInv, [Next]_vars PROVE IInv'
    OBVIOUS
<1>1. CASE Open
    BY <1>1 DEF Open, IInv, GoodTemplates, DefaultSettingsCorrect
<1>2. CASE Close
    BY <1>2 DEF Close, IInv, GoodTemplates, DefaultSettingsCorrect
<1>3. ASSUME NEW out \in InitOutcomes, Initialize(out) PROVE IInv'
    <2> DEFINE r == InitDevice(mTemplates, out)
    <2>1. GoodRun(r, mTemplates, TemplateCount - 1)
        BY InitOutcomesType, InitDeviceGood DEF IInv
    <2>2. mTemplates' = r.templates /\ mIsInitialized' = (r.res = "OK" \/ mIsInitialized)
          /\ UNCHANGED <<query, answer>>
        BY <1>3 DEF Initialize
    <2>3. mIsInitialized' => \A t \in TemplateTypes : mTemplates'[t] # NULL
        BY <2>1, <2>2 DEF GoodRun, Keeps, IInv, TemplateTypes, TemplateCount
    <2>4. QED
        BY <2>1, <2>2, <2>3 DEF GoodRun, IInv, DefaultSettingsCorrect
<1>4. ASSUME NEW type \in QueryTypes, ConstructDefaultRequestSettings(type)
      PROVE  IInv'
    <2>1. CASE ~IsValidTemplateType(type) \/ ~mIsInitialized
        BY <1>4, <2>1 DEF ConstructDefaultRequestSettings, IInv, GoodTemplates,
                           DefaultSettingsCorrect
    <2>2. CASE IsValidTemplateType(type) /\ mIsInitialized
        <3>1. type \in TemplateTypes
            BY <2>2 DEF IsValidTemplateType, QueryTypes, TemplateTypes, TemplateCount
        <3>2. answer' = mTemplates[type] /\ mTemplates[type] # NULL
            BY <1>4, <2>2, <3>1 DEF ConstructDefaultRequestSettings, IInv
        <3>3. answer' \in Metadata /\ answer'.intent = type
            BY <3>1, <3>2 DEF IInv, GoodTemplates
        <3>4. QED
            BY <1>4, <2>2, <3>2, <3>3 DEF ConstructDefaultRequestSettings, IInv,
                                          GoodTemplates, DefaultSettingsCorrect
    <2>3. QED
        BY <2>1, <2>2
<1>5. ASSUME NEW k \in InitStaticInfoOutcomes, GetInfo(k) PROVE IInv'
    BY <1>5 DEF GetInfo, IInv, GoodTemplates, DefaultSettingsCorrect
<1>6. CASE UNCHANGED vars
    BY <1>6 DEF vars, IInv, GoodTemplates, DefaultSettingsCorrect
<1>7. QED
    BY <1>1, <1>2, <1>3, <1>4, <1>5, <1>6 DEF Next

(* constructDefaultRequestSettings answers as the interface says on     *)
(* every behaviour of Camera::open, close, initialize (with any           *)
(* update or clone failing) and getInfo, for every bound: a template     *)
(* exactly for a valid type on an initialized device, with the intent    *)
(* of that type.                                                           *)
THEOREM DefaultSettingsAlwaysCorrect == Spec => []DefaultSettingsCorrect
<1>1. Init => IInv
    BY InitIInv
<1>2. IInv /\ [Next]_vars => IInv'
    BY NextIInv
<1>3. IInv => DefaultSettingsCorrect
    BY DEF IInv
<1>4. QED
    BY <1>1, <1>2, <1>3, PTL DEF Spec

-----------------------------------------------------------------------------
(***************************************************************************)
(* Type correctness.  The bound that needs an argument is the one on the  *)
(* buffers initDevice leaks: base.release() hands a fresh buffer to       *)
(* setTemplate at each init*Template call that gets past its update, and  *)
(* setTemplate never frees it; GoodRun counts at most one per call, so    *)
(* every Camera::initialize leaks at most TemplateCount - 1 buffers.     *)
(***************************************************************************)
XInv ==
    /\ mBusy \in BOOLEAN
    /\ infoReported \in BOOLEAN
    /\ staticInfo \in 0..NStatic
    /\ opens \in 0..MaxOpens
    /\ inits \in 0..MaxInits
    /\ leaked \in Nat
    /\ leaked <= (TemplateCount - 1) * inits

(* The bounds are natural numbers.                                        *)
LEMMA BoundsNat == NStatic \in Nat /\ MaxOpens \in Nat /\ MaxInits \in Nat
BY DeviceTemplatesAssumption DEF DeviceTemplatesAssumption

LEMMA InitXInv == Init => XInv
<1> SUFFICES ASSUME Init PROVE XInv
    OBVIOUS
<1>1. /\ staticInfo \in 0..NStatic /\ opens \in 0..MaxOpens /\ inits \in 0..MaxInits
      /\ leaked \in Nat /\ leaked <= (TemplateCount - 1) * inits
    BY BoundsNat DEF Init, TemplateCount
<1>2. mBusy \in BOOLEAN /\ infoReported \in BOOLEAN
    BY Zenon DEF Init
<1>3. QED
    BY <1>1, <1>2, Zenon DEF XInv

(* One Camera::initialize adds at most TemplateCount - 1 leaked buffers.   *)
LEMMA InitializeLeak ==
    ASSUME NEW out \in InitOutcomes, GoodTemplates(mTemplates)
    PROVE  LET r == InitDevice(mTemplates, out)
           IN  r.leaked \in Nat /\ r.leaked <= TemplateCount - 1
BY InitOutcomesType, InitDeviceGood DEF GoodRun

LEMMA NextXInv == IInv /\ XInv /\ [Next]_vars => XInv'
<1> SUFFICES ASSUME IInv, XInv, [Next]_vars PROVE XInv'
    OBVIOUS
<1>0. MaxOpens \in Nat /\ MaxInits \in Nat /\ NStatic \in Nat
    BY BoundsNat
<1>1. CASE Open
    <2>1. opens' \in 0..MaxOpens
        BY <1>0, <1>1 DEF Open, XInv
    <2>2. QED
        BY <1>1, <2>1, Zenon DEF Open, XInv
<1>2. CASE Close
    BY <1>2, Zenon DEF Close, XInv
<1>3. ASSUME NEW out \in InitOutcomes, Initialize(out) PROVE XInv'
    <2> DEFINE r == InitDevice(mTemplates, out)
    <2>1. r.leaked \in Nat /\ r.leaked <= TemplateCount - 1
        BY InitializeLeak DEF IInv
    <2>2. /\ inits < MaxInits /\ inits' = inits + 1 /\ leaked' = leaked + r.leaked
          /\ UNCHANGED <<mBusy, staticInfo, opens, infoReported>>
        BY <1>3 DEF Initialize
    <2>3. /\ inits' \in 0..MaxInits /\ leaked' \in Nat
          /\ leaked' <= (TemplateCount - 1) * inits'
        BY <1>0, <2>1, <2>2 DEF XInv, TemplateCount
    <2>4. QED
        BY <2>2, <2>3, Zenon DEF XInv
<1>4. ASSUME NEW type \in QueryTypes, ConstructDefaultRequestSettings(type)
      PROVE  XInv'
    BY <1>4, Zenon DEF ConstructDefaultRequestSettings, XInv
<1>5. ASSUME NEW k \in InitStaticInfoOutcomes, GetInfo(k) PROVE XInv'
    <2>1. staticInfo' \in 0..NStatic
        BY <1>5 DEF GetInfo, InitStaticInfoOutcomes, XInv
    <2>2. QED
        BY <1>5, <2>1, Zenon DEF GetInfo, XInv
<1>6. CASE UNCHANGED vars
    BY <1>6, Zenon DEF vars, XInv
<1>7. QED
    BY <1>1, <1>2, <1>3, <1>4, <1>5, <1>6 DEF Next

(* Over every behaviour of Camera::open, close, initialize and getInfo,   *)
(* every variable has its type, and in particular the metadata buffers    *)
(* initDevice leaks stay within TemplateCount - 1 per initialize call:   *)
(* one per init*Template that gets past its update, never more.           *)
THEOREM TypeCorrect == Spec => []TypeOK
<1>1. Init => IInv /\ XInv
    BY InitIInv, InitXInv
<1>2. IInv /\ XInv /\ [Next]_vars => IInv' /\ XInv'
    BY NextIInv, NextXInv
<1>3. IInv /\ XInv => TypeOK
    <2> SUFFICES ASSUME IInv, XInv PROVE TypeOK
        OBVIOUS
    <2>1. leaked \in 0..((TemplateCount - 1) * MaxInits)
        BY BoundsNat DEF XInv, TemplateCount
    <2>2. QED
        BY <2>1, Zenon DEF IInv, XInv, TypeOK, GoodTemplates
<1>4. QED
    BY <1>1, <1>2, <1>3, PTL DEF Spec

====
