------------------------- MODULE CameraStreamsProofs -------------------------
(***************************************************************************)
(* Proof that configureStreams never leaks a Stream object, whatever the  *)
(* lists the framework passes, whichever entry fails and whatever a       *)
(* reuse check on a deleted Stream returns.                               *)
(*                                                                         *)
(* The argument is the loop invariant of configureStreams: every live     *)
(* Stream is in mStreams or in the local newStreams.  An entry either     *)
(* appends the Stream it reused or created to newStreams, or fails, and   *)
(* err_out deletes all of newStreams; after the loop, success deletes     *)
(* mStreams and makes newStreams the new mStreams, failure deletes        *)
(* newStreams.  newStreams is empty whenever no call is in progress.      *)
(* The allocation bound is kept by the call's guard: the entries still to *)
(* go never allocate past MaxObjs.                                         *)
(***************************************************************************)
EXTENDS CameraStreams, TLAPS

USE StreamsAssumption DEF StreamsAssumption

(* The inductive invariant: types, the loop's bounds, newStreams empty   *)
(* between calls, and the loop invariant itself.                          *)
SInv ==
    /\ TypeOK
    /\ Len(cfg) <= MaxListLen
    /\ cpc = "idle" => newStreams = <<>>
    /\ cpc = "loop" => idx <= Len(cfg) + 1 /\ nextObj + Len(cfg) <= MaxObjs + idx
    /\ NoStreamLeak

(* A list the framework passes is a sequence of descriptors within the   *)
(* bound on num_streams.                                                  *)
LEMMA StreamListsSeq ==
    ASSUME NEW l \in StreamLists
    PROVE  l \in Seq(FwStreams) /\ Len(l) <= MaxListLen
<1>1. PICK n \in 1..MaxListLen : l \in [1..n -> FwStreams]
    BY DEF StreamLists
<1>2. l \in Seq(FwStreams) /\ Len(l) = n
    BY <1>1
<1>3. QED
    BY <1>1, <1>2

(* Appending to a sequence adds exactly the new element to its range.    *)
LEMMA RangeAppend ==
    ASSUME NEW S, NEW s \in Seq(S), NEW x
    PROVE  Range(Append(s, x)) = Range(s) \cup {x}
BY DEF Range

LEMMA RangeEmpty == Range(<<>>) = {}
BY DEF Range

LEMMA InitSInv == Init => SInv
<1> SUFFICES ASSUME Init PROVE SInv
    OBVIOUS
<1>1. TypeOK
    <2>1. desc \in [FwStreams -> Descriptor]
        BY DEF Init, FreshDescriptors, Descriptor, Formats
    <2>2. objs \in [Objs -> StreamObj]
        BY Zenon DEF Init, StreamObj, Types, Formats
    <2>3. live \subseteq Objs /\ nextObj \in 1..MaxObjs + 1
        BY DEF Init
    <2>4. /\ mStreams \in Seq(Objs) /\ committed \in Seq(FwStreams)
          /\ edited \subseteq FwStreams /\ cfg \in Seq(FwStreams)
          /\ idx \in 1..MaxListLen + 1 /\ newStreams \in Seq(Objs)
          /\ cpc \in {"idle", "loop"}
        BY DEF Init
    <2>5. lastCall \in [intact: BOOLEAN, ok: BOOLEAN]
        BY Zenon DEF Init
    <2>6. QED
        BY <2>1, <2>2, <2>3, <2>4, <2>5 DEF TypeOK
<1>2. NoStreamLeak
    BY RangeEmpty DEF Init, NoStreamLeak
<1>3. QED
    BY <1>1, <1>2 DEF Init, SInv

(* The framework's own steps change descriptors only, between calls.     *)
LEMMA FrameworkSInv ==
    ASSUME SInv,
           \/ \E a \in FwStreams, d \in FreshDescriptors : NewFrameworkStream(a, d)
           \/ \E a \in FwStreams, f \in FrameworkFormats : ChangeStreamFormat(a, f)
    PROVE  SInv'
<1>1. desc' \in [FwStreams -> Descriptor] /\ edited' \subseteq FwStreams
    <2>1. CASE \E a \in FwStreams, d \in FreshDescriptors : NewFrameworkStream(a, d)
        <3>1. PICK a \in FwStreams, d \in FreshDescriptors : NewFrameworkStream(a, d)
            BY <2>1
        <3>2. d \in Descriptor
            BY DEF FreshDescriptors, Descriptor, Formats
        <3>3. QED
            BY <3>1, <3>2 DEF SInv, TypeOK, NewFrameworkStream
    <2>2. CASE \E a \in FwStreams, f \in FrameworkFormats : ChangeStreamFormat(a, f)
        <3>1. PICK a \in FwStreams, f \in FrameworkFormats : ChangeStreamFormat(a, f)
            BY <2>2
        <3>2. desc[a] \in Descriptor /\ f \in Formats
            BY <3>1 DEF SInv, TypeOK, Formats
        <3>3. [desc[a] EXCEPT !.format = f] \in Descriptor
            BY <3>2 DEF Descriptor
        <3>4. desc' = [desc EXCEPT ![a] = [desc[a] EXCEPT !.format = f]]
            BY <3>1 DEF ChangeStreamFormat
        <3>5. QED
            BY <3>1, <3>3, <3>4 DEF SInv, TypeOK, ChangeStreamFormat
    <2>3. QED
        BY <2>1, <2>2
<1>2. UNCHANGED <<objs, live, nextObj, mStreams, committed, lastCall,
                  cpc, cfg, idx, newStreams>>
    BY DEF NewFrameworkStream, ChangeStreamFormat
<1>3. QED
    BY <1>1, <1>2, Zenon DEF SInv, TypeOK, NoStreamLeak

(* The start of configureStreams: the reuse marks are cleared, and the   *)
(* call begins with an empty newStreams, so the live Streams are those   *)
(* of mStreams, as between calls.                                         *)
LEMMA ConfigureStartSInv ==
    ASSUME SInv, NEW list \in StreamLists, ConfigureStreams(list)
    PROVE  SInv'
<1>1. list \in Seq(FwStreams) /\ Len(list) <= MaxListLen
    BY StreamListsSeq
<1>2. objs' \in [Objs -> StreamObj]
    <2>1. \A o \in Objs : objs[o] \in StreamObj
        BY DEF SInv, TypeOK
    <2>2. \A o \in Objs : [objs[o] EXCEPT !.reuse = FALSE] \in StreamObj
        BY <2>1, Zenon DEF StreamObj
    <2>3. QED
        BY <2>1, <2>2 DEF ConfigureStreams
<1>3. newStreams = <<>>
    BY DEF SInv, ConfigureStreams
<1>4. /\ cfg' = list /\ idx' = 1 /\ newStreams' = <<>> /\ cpc' = "loop"
      /\ nextObj + Len(list) <= MaxObjs + 1
      /\ UNCHANGED <<desc, live, nextObj, mStreams, committed, edited, lastCall>>
    BY DEF ConfigureStreams
<1>5. TypeOK'
    <2>1. /\ desc' \in [FwStreams -> Descriptor] /\ live' \subseteq Objs
          /\ nextObj' \in 1..MaxObjs + 1 /\ mStreams' \in Seq(Objs)
          /\ committed' \in Seq(FwStreams) /\ edited' \subseteq FwStreams
        BY <1>4 DEF SInv, TypeOK
    <2>2. cpc' \in {"idle", "loop"} /\ cfg' \in Seq(FwStreams)
          /\ idx' \in 1..MaxListLen + 1 /\ newStreams' \in Seq(Objs)
        BY <1>1, <1>4
    <2>3. lastCall' \in [intact: BOOLEAN, ok: BOOLEAN]
        BY <1>4, Zenon DEF SInv, TypeOK
    <2>4. QED
        BY <1>2, <2>1, <2>2, <2>3 DEF TypeOK
<1>6. NoStreamLeak'
    BY <1>3, <1>4, RangeEmpty DEF SInv, NoStreamLeak
<1>7. Len(cfg') <= MaxListLen /\ idx' <= Len(cfg') + 1
      /\ nextObj' + Len(cfg') <= MaxObjs + idx'
    BY <1>1, <1>4
<1>8. QED
    BY <1>4, <1>5, <1>6, <1>7 DEF SInv

(* Whenever configureStreams returns, the invariant holds again as soon  *)
(* as the state it leaves is well typed and every live Stream is in       *)
(* mStreams: newStreams goes out of scope.                                *)
LEMMA ReturnSInv ==
    ASSUME NEW ok \in BOOLEAN, Return(ok),
           desc' \in [FwStreams -> Descriptor], objs' \in [Objs -> StreamObj],
           live' \subseteq Objs, nextObj' \in 1..MaxObjs + 1,
           mStreams' \in Seq(Objs), committed' \in Seq(FwStreams),
           edited' \subseteq FwStreams,
           live' \subseteq Range(mStreams')
    PROVE  SInv'
<1>1. cpc' = "idle" /\ cfg' = <<>> /\ idx' = 1 /\ newStreams' = <<>>
    BY DEF Return
<1>2. lastCall' \in [intact: BOOLEAN, ok: BOOLEAN]
    BY Zenon DEF Return
<1>3. TypeOK'
    BY <1>1, <1>2 DEF TypeOK
<1>4. NoStreamLeak'
    BY <1>1, RangeEmpty DEF NoStreamLeak
<1>5. QED
    BY <1>1, <1>3, <1>4 DEF SInv

(* Binding a Stream object to a descriptor keeps it a descriptor.        *)
LEMMA BindDescriptorType ==
    ASSUME NEW d \in Descriptor, NEW o \in Objs
    PROVE  BindDescriptor(d, o) \in Descriptor
BY DEF BindDescriptor, Descriptor, Formats, IsOutputType

(* One entry of the loop: a reused or a new Stream joins newStreams, and *)
(* a failed entry deletes all of newStreams on the way out.               *)
LEMMA EntrySInv ==
    ASSUME SInv, NEW ub \in BOOLEAN, ConfigStreamEntry(ub)
    PROVE  SInv'
<1> DEFINE a == cfg[idx]
           d == desc[a]
           P == [objs |-> objs, desc |-> desc, live |-> live, next |-> nextObj,
                 new |-> newStreams, failed |-> FALSE]
           q == ConfigEntry(P, a, ub)
<1>1. /\ cpc = "loop" /\ idx \in 1..Len(cfg) /\ cfg \in Seq(FwStreams)
      /\ a \in FwStreams /\ d \in Descriptor
      /\ newStreams \in Seq(Objs) /\ objs \in [Objs -> StreamObj]
      /\ desc \in [FwStreams -> Descriptor] /\ live \subseteq Objs
      /\ Len(cfg) <= MaxListLen /\ nextObj + Len(cfg) <= MaxObjs + idx
      /\ nextObj \in Objs
      /\ live \subseteq Range(mStreams) \cup Range(newStreams)
    BY DEF SInv, TypeOK, ConfigStreamEntry, NoStreamLeak, Objs
<1>2. /\ UNCHANGED <<mStreams, committed, edited>>
      /\ IF q.failed
           THEN /\ live' = DestroyStreams(live, newStreams)
                /\ Return(FALSE)
                /\ UNCHANGED <<objs, desc, nextObj>>
           ELSE /\ objs' = q.objs
                /\ desc' = q.desc
                /\ live' = q.live
                /\ nextObj' = q.next
                /\ newStreams' = q.new
                /\ idx' = idx + 1
                /\ UNCHANGED <<cpc, cfg, lastCall>>
    BY DEF ConfigStreamEntry
<1>3. ASSUME ~q.failed,
             objs' \in [Objs -> StreamObj], desc' \in [FwStreams -> Descriptor],
             live' \subseteq Objs, nextObj' \in 1..MaxObjs + 1,
             newStreams' \in Seq(Objs),
             nextObj' + Len(cfg) <= MaxObjs + idx + 1,
             live' \subseteq Range(mStreams) \cup Range(newStreams')
      PROVE  SInv'
    <2>1. /\ idx' = idx + 1 /\ UNCHANGED <<cpc, cfg, lastCall>>
          /\ UNCHANGED <<mStreams, committed, edited>>
        BY <1>2, <1>3
    <2>2. idx' \in 1..MaxListLen + 1 /\ idx' <= Len(cfg') + 1
        BY <1>1, <2>1
    <2>3. TypeOK'
        BY <1>3, <2>1, <2>2, Zenon DEF SInv, TypeOK
    <2>4. QED
        BY <1>1, <1>3, <2>1, <2>2, <2>3 DEF SInv, NoStreamLeak
<1>4. CASE d.max_buffers > 0 /\ ReuseStreamLocked(P, d, ub) # NULL
    <2>1. d.priv \in Objs
        BY <1>1, <1>4 DEF ReuseStreamLocked, Descriptor
    <2>2. q = [P EXCEPT !.objs[d.priv].reuse = TRUE,
                        !.new = Append(P.new, d.priv),
                        !.desc[a] = BindDescriptor(d, d.priv)]
        BY <1>4 DEF ConfigEntry
    <2>3. /\ ~q.failed
          /\ q.objs = [objs EXCEPT ![d.priv].reuse = TRUE]
          /\ q.desc = [desc EXCEPT ![a] = BindDescriptor(d, d.priv)]
          /\ q.live = live /\ q.next = nextObj
          /\ q.new = Append(newStreams, d.priv)
        BY <2>2
    <2>4. [objs EXCEPT ![d.priv].reuse = TRUE] \in [Objs -> StreamObj]
        <3>1. objs[d.priv] \in StreamObj
            BY <1>1, <2>1
        <3>2. [objs[d.priv] EXCEPT !.reuse = TRUE] \in StreamObj
            BY <3>1, Zenon DEF StreamObj
        <3>3. QED
            BY <1>1, <3>2
    <2>5. BindDescriptor(d, d.priv) \in Descriptor
        BY <1>1, <2>1, BindDescriptorType
    <2>6. Range(Append(newStreams, d.priv)) = Range(newStreams) \cup {d.priv}
        BY <1>1, RangeAppend
    <2>7. /\ objs' = [objs EXCEPT ![d.priv].reuse = TRUE]
          /\ desc' = [desc EXCEPT ![a] = BindDescriptor(d, d.priv)]
          /\ live' = live /\ nextObj' = nextObj
          /\ newStreams' = Append(newStreams, d.priv)
        BY <1>2, <2>3
    <2>8. desc' \in [FwStreams -> Descriptor]
        BY <1>1, <2>5, <2>7
    <2>9. /\ live' \subseteq Objs /\ nextObj' \in 1..MaxObjs + 1
          /\ nextObj' + Len(cfg) <= MaxObjs + idx + 1
          /\ newStreams' \in Seq(Objs)
        BY <1>1, <2>1, <2>7 DEF Objs
    <2>10. live' \subseteq Range(mStreams) \cup Range(newStreams')
        BY <1>1, <2>6, <2>7
    <2>11. QED
        BY <1>3, <2>3, <2>4, <2>7, <2>8, <2>9, <2>10
<1>5. CASE d.max_buffers > 0 /\ ReuseStreamLocked(P, d, ub) = NULL
    <2>1. q.failed
        BY <1>5 DEF ConfigEntry
    <2>2. /\ live' = live \ Range(newStreams) /\ Return(FALSE)
          /\ UNCHANGED <<objs, desc, nextObj, mStreams, committed, edited>>
        BY <1>2, <2>1 DEF DestroyStreams
    <2>3. live' \subseteq Range(mStreams')
        BY <1>1, <2>2
    <2>4. QED
        BY <1>1, <2>2, <2>3, ReturnSInv DEF SInv, TypeOK
<1>6. CASE ~(d.max_buffers > 0)
    <2>1. q = [P EXCEPT !.objs[P.next] = [type |-> d.stream_type,
                                         format |-> d.format, reuse |-> FALSE],
                        !.live = P.live \cup {P.next},
                        !.next = P.next + 1,
                        !.new = Append(P.new, P.next),
                        !.desc[a] = BindDescriptor(d, P.next)]
        BY <1>6 DEF ConfigEntry
    <2>2. /\ ~q.failed
          /\ q.objs = [objs EXCEPT ![nextObj] = [type |-> d.stream_type,
                                     format |-> d.format, reuse |-> FALSE]]
          /\ q.desc = [desc EXCEPT ![a] = BindDescriptor(d, nextObj)]
          /\ q.live = live \cup {nextObj} /\ q.next = nextObj + 1
          /\ q.new = Append(newStreams, nextObj)
        BY <2>1
    <2>3. [type |-> d.stream_type, format |-> d.format, reuse |-> FALSE] \in StreamObj
        BY <1>1, Zenon DEF Descriptor, StreamObj
    <2>4. BindDescriptor(d, nextObj) \in Descriptor
        BY <1>1, BindDescriptorType
    <2>5. Range(Append(newStreams, nextObj)) = Range(newStreams) \cup {nextObj}
        BY <1>1, RangeAppend
    <2>6. /\ objs' = [objs EXCEPT ![nextObj] = [type |-> d.stream_type,
                                     format |-> d.format, reuse |-> FALSE]]
          /\ desc' = [desc EXCEPT ![a] = BindDescriptor(d, nextObj)]
          /\ live' = live \cup {nextObj} /\ nextObj' = nextObj + 1
          /\ newStreams' = Append(newStreams, nextObj)
        BY <1>2, <2>2
    <2>7. objs' \in [Objs -> StreamObj] /\ desc' \in [FwStreams -> Descriptor]
        BY <1>1, <2>3, <2>4, <2>6
    <2>8. /\ live' \subseteq Objs /\ nextObj' \in 1..MaxObjs + 1
          /\ nextObj' + Len(cfg) <= MaxObjs + idx + 1
          /\ newStreams' \in Seq(Objs)
        BY <1>1, <2>6 DEF Objs
    <2>9. live' \subseteq Range(mStreams) \cup Range(newStreams')
        BY <1>1, <2>5, <2>6
    <2>10. QED
        BY <1>3, <2>2, <2>7, <2>8, <2>9
<1>7. QED
    BY <1>4, <1>5, <1>6

(* setupStreamsLocked keeps every descriptor a descriptor.               *)
LEMMA SetupStreamsType ==
    ASSUME NEW d \in [FwStreams -> Descriptor], NEW list
    PROVE  SetupStreams(d, list) \in [FwStreams -> Descriptor]
BY DEF SetupStreams, Descriptor

(* After the loop: success deletes the old mStreams and keeps newStreams *)
(* as mStreams, failure deletes newStreams.                               *)
LEMMA FinishSInv ==
    ASSUME SInv, ConfigureFinish
    PROVE  SInv'
<1>1. /\ cfg \in Seq(FwStreams) /\ newStreams \in Seq(Objs)
      /\ objs \in [Objs -> StreamObj] /\ desc \in [FwStreams -> Descriptor]
      /\ live \subseteq Objs /\ nextObj \in 1..MaxObjs + 1
      /\ mStreams \in Seq(Objs) /\ committed \in Seq(FwStreams)
      /\ edited \subseteq FwStreams
      /\ live \subseteq Range(mStreams) \cup Range(newStreams)
    BY DEF SInv, TypeOK, NoStreamLeak
<1>2. UNCHANGED <<objs, nextObj>>
    BY DEF ConfigureFinish
<1>3. CASE IsValidStreamSet(newStreams, objs)
    <2>1. /\ desc' = SetupStreams(desc, cfg)
          /\ live' = live \ Range(mStreams)
          /\ mStreams' = newStreams /\ committed' = cfg /\ edited' = {}
          /\ Return(TRUE)
        BY <1>3 DEF ConfigureFinish, DestroyStreams
    <2>2. desc' \in [FwStreams -> Descriptor]
        BY <1>1, <2>1, SetupStreamsType
    <2>3. live' \subseteq Range(mStreams')
        BY <1>1, <2>1
    <2>4. QED
        BY <1>1, <1>2, <2>1, <2>2, <2>3, ReturnSInv
<1>4. CASE ~IsValidStreamSet(newStreams, objs)
    <2>1. /\ live' = live \ Range(newStreams)
          /\ Return(FALSE)
          /\ UNCHANGED <<desc, mStreams, committed, edited>>
        BY <1>4 DEF ConfigureFinish, DestroyStreams
    <2>2. live' \subseteq Range(mStreams')
        BY <1>1, <2>1
    <2>3. QED
        BY <1>1, <1>2, <2>1, <2>2, ReturnSInv
<1>5. QED
    BY <1>3, <1>4

LEMMA NextSInv == SInv /\ [Next]_vars => SInv'
<1> SUFFICES ASSUME SInv, [Next]_vars PROVE SInv'
    OBVIOUS
<1>1. CASE \/ \E a \in FwStreams, d \in FreshDescriptors : NewFrameworkStream(a, d)
           \/ \E a \in FwStreams, f \in FrameworkFormats : ChangeStreamFormat(a, f)
    BY <1>1, FrameworkSInv
<1>2. CASE \E list \in StreamLists : ConfigureStreams(list)
    BY <1>2, ConfigureStartSInv
<1>3. CASE \E ub \in BOOLEAN : ConfigStreamEntry(ub)
    BY <1>3, EntrySInv
<1>4. CASE ConfigureFinish
    BY <1>4, FinishSInv
<1>5. CASE UNCHANGED vars
    BY <1>5 DEF vars, SInv, TypeOK, NoStreamLeak
<1>6. QED
    BY <1>1, <1>2, <1>3, <1>4, <1>5 DEF Next

(* configureStreams never leaks a Stream object (Camera.cpp 190-280):    *)
(* whichever entry fails, whatever a reuse check on a deleted Stream      *)
(* returns, every Stream allocated and not deleted is in mStreams or in   *)
(* the newStreams of the call in progress, for every number of            *)
(* descriptors, Stream objects and list lengths.                          *)
THEOREM NoLeak == Spec => []NoStreamLeak
<1>1. SInv => NoStreamLeak
    BY DEF SInv
<1>2. QED
    BY InitSInv, NextSInv, <1>1, PTL DEF Spec

(* Every descriptor configureStreams writes stays a camera3_stream_t the *)
(* HAL can read back, every Stream it creates is within the allocation    *)
(* bound, and the loop's index stays within 1..MaxListLen + 1.           *)
THEOREM TypeCorrect == Spec => []TypeOK
<1>1. SInv => TypeOK
    BY DEF SInv
<1>2. QED
    BY InitSInv, NextSInv, <1>1, PTL DEF Spec
====
