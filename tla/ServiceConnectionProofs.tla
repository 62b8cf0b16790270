----------------------- MODULE ServiceConnectionProofs -----------------------
(***************************************************************************)
(* Proof that one camera alone never dereferences a nullptr               *)
(* INuPlayerService, whatever the number of deaths and restarts of the    *)
(* remote processes.                                                       *)
(*                                                                         *)
(* The crash needs a death notification for INuPlayerService delivered    *)
(* while the worker is between the remote call that stores the proxy and  *)
(* asBinder().  The argument counts the notifications still to come: the  *)
(* queued ones, and one per recipient linked to the live instance.  The   *)
(* worker links at most one recipient per proxy it stores, and stores a   *)
(* new proxy only once the member was reset, that is once the             *)
(* notification for the old one was delivered.  So at most one            *)
(* notification is outstanding, there is none while the member is         *)
(* nullptr, and none while the worker is between storing and linking.    *)
(* Recipients linked to an instance not yet started are none: a restart  *)
(* brings no notification with it.                                         *)
(***************************************************************************)
EXTENDS ServiceConnection, TLAPS

USE ServiceConnectionAssumption DEF ServiceConnectionAssumption

(* INuPlayerService death notifications still to come: the queued ones    *)
(* and those of the recipients linked to the live instance.               *)
Outstanding ==
    npPending + (IF npAlive THEN npLinks[npGen] ELSE 0)

(* Where the worker is in getCameraBuffer while it has found the member   *)
(* nullptr and not yet stored a new proxy.                                 *)
Fetching == {"waitVM", "linkVM", "getNP"}

(* The inductive invariant, for the single worker w.                       *)
IInv(w) ==
    /\ npAlive \in BOOLEAN
    /\ npDeaths \in 0..MaxDeaths
    /\ npGen \in Gens
    /\ npGen = npDeaths + (IF npAlive THEN 1 ELSE 0)
    /\ npLinks \in [Gens -> Nat]
    /\ npPending \in Nat
    /\ m_INuPlayerService \in Nat
    /\ pc \in [Workers -> {"idle", "waitVM", "linkVM", "getNP", "linkNP", "call"}]
    /\ \A g \in Gens : g > npGen => npLinks[g] = 0
    /\ Outstanding <= 1
    /\ m_INuPlayerService = 0 => Outstanding = 0
    /\ pc[w] \in Fetching => m_INuPlayerService = 0
    /\ pc[w] = "linkNP" => m_INuPlayerService # 0 /\ Outstanding = 0
    /\ ~crashed

LEMMA InitIInv ==
    ASSUME NEW w, Workers = {w} PROVE Init => IInv(w)
BY DEF Init, IInv, Outstanding, Fetching, Gens

LEMMA NextIInv ==
    ASSUME NEW w, Workers = {w}
    PROVE  IInv(w) /\ [Next]_vars => IInv(w)'
<1> SUFFICES ASSUME IInv(w), [Next]_vars PROVE IInv(w)'
    OBVIOUS
<1>1. CASE GetNuPlayerService(w)
    BY <1>1 DEF GetNuPlayerService, IInv, Outstanding, Fetching, remote, local
<1>2. CASE WaitForVirtualMedia(w)
    BY <1>2 DEF WaitForVirtualMedia, IInv, Outstanding, Fetching, remote
<1>3. CASE LinkVirtualMedia(w)
    BY <1>3 DEF LinkVirtualMedia, IInv, Outstanding, Fetching, remote
<1>4. CASE CallGetNuPlayerService(w)
    <2>1. pc[w] = "getNP" /\ m_INuPlayerService = 0 /\ Outstanding = 0
        BY <1>4 DEF CallGetNuPlayerService, IInv, Fetching
    <2>2. UNCHANGED <<npAlive, npGen, npDeaths, npLinks, npPending, crashed>>
        BY <1>4 DEF CallGetNuPlayerService, remote
    <2>3. CASE vm[w] # 0 /\ VmReachable(vm[w]) /\ npAlive
        <3>1. m_INuPlayerService' = npGen /\ pc' = [pc EXCEPT ![w] = "linkNP"]
            BY <1>4, <2>3 DEF CallGetNuPlayerService
        <3>2. npGen # 0
            BY DEF IInv, Gens
        <3>3. Outstanding' = 0
            BY <2>1, <2>2 DEF Outstanding
        <3>4. QED
            BY <2>2, <3>1, <3>2, <3>3 DEF IInv, Fetching
    <2>4. CASE ~(vm[w] # 0 /\ VmReachable(vm[w]) /\ npAlive)
        <3>1. UNCHANGED m_INuPlayerService /\ pc' = [pc EXCEPT ![w] = "idle"]
            BY <1>4, <2>1, <2>4 DEF CallGetNuPlayerService, ReturnNuPlayer
        <3>2. Outstanding' = 0
            BY <2>1, <2>2 DEF Outstanding
        <3>3. QED
            BY <2>1, <2>2, <3>1, <3>2 DEF IInv, Fetching
    <2>5. QED
        BY <2>3, <2>4
<1>5. CASE LinkNuPlayer(w)
    <2>1. m_INuPlayerService # 0 /\ Outstanding = 0 /\ npPending = 0
        BY <1>5 DEF LinkNuPlayer, IInv, Outstanding
    <2>2. /\ UNCHANGED <<npAlive, npGen, npDeaths, m_INuPlayerService, crashed>>
          /\ pc' = [pc EXCEPT ![w] = "call"]
          /\ LinkToDeath(npLinks, npPending, m_INuPlayerService,
                         NpReachable(m_INuPlayerService))
        BY <1>5, <2>1 DEF LinkNuPlayer, remote
    <2>3. CASE NpReachable(m_INuPlayerService)
        <3>1. m_INuPlayerService = npGen /\ npAlive
            BY <2>3 DEF NpReachable
        <3>2. npLinks' = [npLinks EXCEPT ![npGen] = @ + 1] /\ npPending' = npPending
            BY <2>2, <2>3, <3>1 DEF LinkToDeath
        <3>3. npLinks' \in [Gens -> Nat] /\ \A g \in Gens : g > npGen => npLinks'[g] = 0
            BY <3>2 DEF IInv
        <3>4. Outstanding' = 1
            BY <2>1, <2>2, <3>1, <3>2 DEF IInv, Outstanding
        <3>5. QED
            BY <2>1, <2>2, <3>2, <3>3, <3>4 DEF IInv, Fetching
    <2>4. CASE ~NpReachable(m_INuPlayerService)
        <3>1. npLinks' = npLinks /\ (npPending' = 0 \/ npPending' = 1)
            BY <2>1, <2>2, <2>4 DEF LinkToDeath
        <3>2. (IF npAlive THEN npLinks[npGen] ELSE 0) = 0
            BY <2>1 DEF IInv, Outstanding
        <3>3. Outstanding' \in {0, 1}
            <4>1. CASE npAlive
                <5>1. npAlive'
                    BY <2>2, <4>1
                <5>2. npLinks'[npGen'] = 0
                    BY <2>2, <3>1, <3>2, <4>1
                <5>3. Outstanding' = npPending' + npLinks'[npGen']
                    BY <5>1 DEF Outstanding
                <5>4. npPending' + npLinks'[npGen'] \in {0, 1}
                    BY <3>1, <5>2
                <5>5. QED
                    BY <5>3, <5>4, Zenon
            <4>2. CASE ~npAlive
                <5>1. ~npAlive'
                    BY <2>2, <4>2
                <5>2. Outstanding' = npPending' + 0
                    BY <5>1 DEF Outstanding
                <5>3. npPending' + 0 \in {0, 1}
                    BY <3>1
                <5>4. QED
                    BY <5>2, <5>3, Zenon
            <4>3. QED
                BY <4>1, <4>2
        <3>4. QED
            BY <2>1, <2>2, <3>1, <3>3 DEF IInv, Fetching
    <2>5. QED
        BY <2>3, <2>4
<1>6. CASE CallGetCameraBuffer(w)
    BY <1>6 DEF CallGetCameraBuffer, IInv, Outstanding, Fetching, remote, local
<1>7. CASE VirtualMediaDies \/ VirtualMediaRestarts \/ OnDeath
    <2> DEFINE npVars == <<npAlive, npGen, npDeaths, npLinks, npPending,
                           m_INuPlayerService, pc, crashed>>
    <2>1. UNCHANGED npVars
        <3>1. CASE VirtualMediaDies
            BY <3>1 DEF VirtualMediaDies, worker
        <3>2. CASE VirtualMediaRestarts
            BY <3>2 DEF VirtualMediaRestarts, worker, local
        <3>3. CASE OnDeath
            BY <3>3 DEF OnDeath, worker, remote
        <3>4. QED
            BY <1>7, <3>1, <3>2, <3>3
    <2>2. QED
        BY <2>1 DEF IInv, Outstanding, Fetching
<1>8. CASE NuPlayerDies
    <2>1. /\ npAlive /\ npDeaths < MaxDeaths
          /\ npAlive' = FALSE /\ npDeaths' = npDeaths + 1
          /\ npPending' = npPending + npLinks[npGen]
          /\ UNCHANGED <<npGen, npLinks, m_INuPlayerService, pc, crashed>>
        BY <1>8 DEF NuPlayerDies, worker
    <2>2. npLinks[npGen] \in Nat
        BY DEF IInv
    <2>3. Outstanding' = Outstanding
        BY <2>1, <2>2 DEF IInv, Outstanding
    <2>4. /\ npDeaths' \in 0..MaxDeaths
          /\ npGen' = npDeaths' + (IF npAlive' THEN 1 ELSE 0)
          /\ npPending' \in Nat
        BY <2>1, <2>2 DEF IInv
    <2>5. QED
        BY <2>1, <2>3, <2>4, Zenon DEF IInv, Fetching
<1>9. CASE NuPlayerRestarts
    BY <1>9 DEF NuPlayerRestarts, IInv, Outstanding, Fetching, worker, local, Gens
<1>10. CASE OnDeathNuPlayer
    BY <1>10 DEF OnDeathNuPlayer, IInv, Outstanding, Fetching, worker, remote
<1>11. CASE UNCHANGED vars
    BY <1>11 DEF vars, IInv, Outstanding, Fetching, worker, remote, local
<1>12. QED
    BY <1>1, <1>2, <1>3, <1>4, <1>5, <1>6, <1>7, <1>8, <1>9, <1>10, <1>11
    DEF Next, WorkerStep

(* A single camera never dereferences a nullptr INuPlayerService in       *)
(* getNuPlayerService (asBinder() at line 120), under any deaths and       *)
(* restarts of both remote processes and any timing of their death        *)
(* notifications on the binder threads.                                    *)
THEOREM OneCameraNoNullProxyDeref ==
    ASSUME NEW w, Workers = {w}
    PROVE  Spec => []NoNullProxyDeref
<1>1. Init => IInv(w)
    BY InitIInv
<1>2. IInv(w) /\ [Next]_vars => IInv(w)'
    BY NextIInv
<1>3. IInv(w) => NoNullProxyDeref
    BY DEF IInv, NoNullProxyDeref
<1>4. QED
    BY <1>1, <1>2, <1>3, PTL DEF Spec

-----------------------------------------------------------------------------
(***************************************************************************)
(* Type correctness, for any number of cameras.  The instance numbers stay *)
(* within Gens because each remote process is restarted only after a      *)
(* death and dies at most MaxDeaths times: an instance number is the      *)
(* deaths so far, plus one while the process is alive.  Every proxy a     *)
(* worker or the service holds is then an instance number or nullptr.     *)
(***************************************************************************)
TInv ==
    /\ TypeOK
    /\ vmDeaths \in 0..MaxDeaths /\ npDeaths \in 0..MaxDeaths
    /\ vmGen = vmDeaths + (IF vmAlive THEN 1 ELSE 0)
    /\ npGen = npDeaths + (IF npAlive THEN 1 ELSE 0)
    /\ vmLinks \in [Gens -> Nat] /\ npLinks \in [Gens -> Nat]
    /\ binder \in [Workers -> Proxy] /\ vm \in [Workers -> Proxy]
    /\ crashed \in BOOLEAN

LEMMA InitTInv == Init => TInv
<1> SUFFICES ASSUME Init PROVE TInv
    OBVIOUS
<1>1. 1 \in Gens /\ 0 \in Proxy /\ 0 \in 0..MaxDeaths
    BY DEF Gens, Proxy
<1>2. TypeOK
    BY <1>1 DEF Init, TypeOK
<1>3. /\ vmGen = vmDeaths + (IF vmAlive THEN 1 ELSE 0)
      /\ npGen = npDeaths + (IF npAlive THEN 1 ELSE 0)
    BY DEF Init
<1>4. /\ vmLinks \in [Gens -> Nat] /\ npLinks \in [Gens -> Nat]
      /\ binder \in [Workers -> Proxy] /\ vm \in [Workers -> Proxy]
    BY <1>1 DEF Init
<1>5. vmDeaths = 0 /\ npDeaths = 0 /\ crashed = FALSE
    BY DEF Init
<1>7. vmDeaths \in 0..MaxDeaths /\ npDeaths \in 0..MaxDeaths
    BY <1>1, <1>5
<1>8. crashed \in BOOLEAN
    BY <1>5, Zenon
<1>6. QED
    BY <1>2, <1>3, <1>4, <1>7, <1>8, Zenon DEF TInv

LEMMA NextTInv == TInv /\ [Next]_vars => TInv'
<1> SUFFICES ASSUME TInv, [Next]_vars PROVE TInv'
    OBVIOUS
<1>0. Gens \subseteq Proxy
    BY DEF Gens, Proxy
<1>1. ASSUME NEW w \in Workers, WorkerStep(w) PROVE TInv'
    <2>1. CASE GetNuPlayerService(w)
        BY <2>1 DEF GetNuPlayerService, TInv, TypeOK, remote, local
    <2>2. CASE WaitForVirtualMedia(w)
        BY <1>0, <2>2 DEF WaitForVirtualMedia, TInv, TypeOK, remote
    <2>3. CASE LinkVirtualMedia(w)
        <3>1. /\ UNCHANGED <<remote, m_IVirtualMedia, m_INuPlayerService, npLinks,
                            npPending, binder, svc, served, crashed>>
              /\ vm' = [vm EXCEPT ![w] = m_IVirtualMedia]
              /\ pc' = [pc EXCEPT ![w] = "getNP"]
            BY <2>3 DEF LinkVirtualMedia
        <3>2. vmLinks' \in [Gens -> Nat] /\ vmPending' \in Nat
            BY <2>3 DEF LinkVirtualMedia, LinkToDeath, VmReachable, TInv, TypeOK
        <3>3. QED
            BY <3>1, <3>2 DEF TInv, TypeOK, remote
    <2>4. CASE CallGetNuPlayerService(w)
        <3>1. UNCHANGED <<remote, m_IVirtualMedia, vmLinks, npLinks, vmPending,
                          npPending, binder, vm, crashed>>
            BY <2>4 DEF CallGetNuPlayerService
        <3>2. pc' \in [Workers -> {"idle", "waitVM", "linkVM", "getNP", "linkNP",
                                   "call"}]
            BY <2>4 DEF CallGetNuPlayerService, ReturnNuPlayer, TInv, TypeOK
        <3>3. m_INuPlayerService' \in Proxy /\ svc' \in [Workers -> Proxy]
            BY <1>0, <2>4 DEF CallGetNuPlayerService, ReturnNuPlayer, TInv, TypeOK
        <3>4. served' \in [Workers -> BOOLEAN]
            BY <2>4, Zenon DEF CallGetNuPlayerService, ReturnNuPlayer, TInv, TypeOK
        <3>5. QED
            BY <3>1, <3>2, <3>3, <3>4, Zenon DEF TInv, TypeOK, remote
    <2>5. CASE LinkNuPlayer(w)
        <3>1. UNCHANGED <<remote, m_IVirtualMedia, m_INuPlayerService, vmLinks,
                          vmPending, binder, vm, served>>
            BY <2>5 DEF LinkNuPlayer
        <3>2. /\ pc' \in [Workers -> {"idle", "waitVM", "linkVM", "getNP",
                                      "linkNP", "call"}]
              /\ svc' \in [Workers -> Proxy]
              /\ npLinks' \in [Gens -> Nat]
            BY <2>5 DEF LinkNuPlayer, LinkToDeath, NpReachable, TInv, TypeOK
        <3>5. npPending' \in Nat
            BY <2>5 DEF LinkNuPlayer, LinkToDeath, TInv, TypeOK
        <3>3. crashed' \in BOOLEAN
            BY <2>5, Zenon DEF LinkNuPlayer, TInv
        <3>4. QED
            BY <3>1, <3>2, <3>3, <3>5, Zenon DEF TInv, TypeOK, remote
    <2>6. CASE CallGetCameraBuffer(w)
        <3>1. UNCHANGED <<remote, local, binder, vm, svc, crashed>>
            BY <2>6 DEF CallGetCameraBuffer
        <3>2. pc' \in [Workers -> {"idle", "waitVM", "linkVM", "getNP", "linkNP",
                                   "call"}]
            BY <2>6 DEF CallGetCameraBuffer, TInv, TypeOK
        <3>3. served' \in [Workers -> BOOLEAN]
            BY <2>6, Zenon DEF CallGetCameraBuffer, NpReachable, TInv, TypeOK
        <3>4. QED
            BY <3>1, <3>2, <3>3, Zenon DEF TInv, TypeOK, remote, local
    <2>7. QED
        BY <1>1, <2>1, <2>2, <2>3, <2>4, <2>5, <2>6 DEF WorkerStep
<1>2. CASE VirtualMediaDies
    <2>1. /\ vmAlive /\ vmDeaths < MaxDeaths
          /\ vmAlive' = FALSE /\ vmDeaths' = vmDeaths + 1
          /\ vmPending' = vmPending + vmLinks[vmGen]
          /\ UNCHANGED <<vmGen, npAlive, npGen, npDeaths, m_IVirtualMedia,
                         m_INuPlayerService, vmLinks, npLinks, npPending, worker>>
        BY <1>2 DEF VirtualMediaDies
    <2>2. /\ vmDeaths' \in 0..MaxDeaths
          /\ vmGen' = vmDeaths' + (IF vmAlive' THEN 1 ELSE 0)
          /\ vmPending' \in Nat
        BY <2>1 DEF TInv, TypeOK
    <2>3. QED
        BY <2>1, <2>2, Zenon DEF TInv, TypeOK, worker
<1>3. CASE VirtualMediaRestarts
    BY <1>3 DEF VirtualMediaRestarts, TInv, TypeOK, worker, local, Gens
<1>4. CASE NuPlayerDies
    <2>1. /\ npAlive /\ npDeaths < MaxDeaths
          /\ npAlive' = FALSE /\ npDeaths' = npDeaths + 1
          /\ npPending' = npPending + npLinks[npGen]
          /\ UNCHANGED <<vmAlive, vmGen, npGen, vmDeaths, m_IVirtualMedia,
                         m_INuPlayerService, vmLinks, npLinks, vmPending, worker>>
        BY <1>4 DEF NuPlayerDies
    <2>2. /\ npDeaths' \in 0..MaxDeaths
          /\ npGen' = npDeaths' + (IF npAlive' THEN 1 ELSE 0)
          /\ npPending' \in Nat
        BY <2>1 DEF TInv, TypeOK
    <2>3. QED
        BY <2>1, <2>2, Zenon DEF TInv, TypeOK, worker
<1>5. CASE NuPlayerRestarts
    BY <1>5 DEF NuPlayerRestarts, TInv, TypeOK, worker, local, Gens
<1>6. CASE OnDeath
    <2>1. /\ vmPending > 0 /\ vmPending' = vmPending - 1 /\ m_IVirtualMedia' = 0
          /\ UNCHANGED <<remote, m_INuPlayerService, vmLinks, npLinks, npPending,
                         worker>>
        BY <1>6 DEF OnDeath
    <2>2. vmPending' \in Nat /\ m_IVirtualMedia' \in Proxy
        BY <2>1 DEF TInv, TypeOK, Proxy
    <2>3. QED
        BY <2>1, <2>2, Zenon DEF TInv, TypeOK, worker, remote
<1>7. CASE OnDeathNuPlayer
    <2>1. /\ npPending > 0 /\ npPending' = npPending - 1 /\ m_INuPlayerService' = 0
          /\ UNCHANGED <<remote, m_IVirtualMedia, vmLinks, npLinks, vmPending,
                         worker>>
        BY <1>7 DEF OnDeathNuPlayer
    <2>2. npPending' \in Nat /\ m_INuPlayerService' \in Proxy
        BY <2>1 DEF TInv, TypeOK, Proxy
    <2>3. QED
        BY <2>1, <2>2, Zenon DEF TInv, TypeOK, worker, remote
<1>8. CASE UNCHANGED vars
    BY <1>8 DEF vars, TInv, TypeOK, worker, remote, local
<1>9. QED
    BY <1>1, <1>2, <1>3, <1>4, <1>5, <1>6, <1>7, <1>8 DEF Next

(* For any number of cameras sharing the service and any deaths and       *)
(* restarts of the remote processes, every proxy the service caches or a  *)
(* worker copies names an instance that was started, or is nullptr, and   *)
(* the death-notification counts stay natural numbers.                    *)
THEOREM TypeCorrect == Spec => []TypeOK
<1>1. Init => TInv
    BY InitTInv
<1>2. TInv /\ [Next]_vars => TInv'
    BY NextTInv
<1>3. TInv => TypeOK
    BY DEF TInv
<1>4. QED
    BY <1>1, <1>2, <1>3, PTL DEF Spec

====
