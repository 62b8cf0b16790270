-------------------------- MODULE ServiceConnection --------------------------
(***************************************************************************)
(* The raw-frame source: the VirtualCameraService shared by the cameras    *)
(* (CameraHAL's constructor gives both VirtualCameras the same one).  Each *)
(* camera's worker calls getCameraBuffer, which lazily connects to the     *)
(* IVirtualMedia service, asks it for the INuPlayerService, and links a    *)
(* death recipient to each; binder threads run OnDeath / OnDeathNuPlayer,  *)
(* which reset the cached proxy.  No lock protects m_IVirtualMedia or      *)
(* m_INuPlayerService.                                                     *)
(*                                                                         *)
(* A remote process is an instance number (generation); it may die and be *)
(* restarted as the next instance.  A proxy is the generation it talks to, *)
(* 0 being nullptr.  A death recipient is linked to a generation, and its  *)
(* death queues one notification per recipient linked to it.             *)
(***************************************************************************)
EXTENDS Naturals

CONSTANTS
    Workers,    \* the camera workers that call getCameraBuffer
    MaxDeaths   \* bound on the deaths of each remote process

ASSUME ServiceConnectionAssumption ==
    /\ Workers # {}
    /\ MaxDeaths \in Nat

Gens == 1..(MaxDeaths + 1)
Proxy == 0..(MaxDeaths + 1)

VARIABLES
    vmAlive, vmGen,         \* the IVirtualMedia process and its instance
    npAlive, npGen,         \* the INuPlayerService process and its instance
    vmDeaths, npDeaths,
    m_IVirtualMedia, m_INuPlayerService,
    vmLinks, npLinks,       \* generation -> recipients linked to it
    vmPending, npPending,   \* death notifications not yet delivered
    pc,                     \* worker -> where it is in getCameraBuffer
    binder,                 \* worker -> binder from waitForService
    vm,                     \* worker -> its copy of the IVirtualMedia proxy
    svc,                    \* worker -> its copy of the INuPlayerService proxy
    served,                 \* worker -> its last getCameraBuffer got a frame
    crashed                 \* a null proxy was dereferenced

remote == <<vmAlive, vmGen, npAlive, npGen, vmDeaths, npDeaths>>
local == <<m_IVirtualMedia, m_INuPlayerService, vmLinks, npLinks, vmPending,
           npPending>>
worker == <<pc, binder, vm, svc, served, crashed>>
vars == <<remote, local, worker>>

(* A call through proxy p reaches a live process.                          *)
VmReachable(p) == vmAlive /\ p = vmGen
NpReachable(p) == npAlive /\ p = npGen

(* VirtualCameraService's constructor: both proxies nullptr; no worker is *)
(* in getCameraBuffer.                                                     *)
Init ==
    /\ vmAlive = TRUE /\ vmGen = 1 /\ npAlive = TRUE /\ npGen = 1
    /\ vmDeaths = 0 /\ npDeaths = 0
    /\ m_IVirtualMedia = 0 /\ m_INuPlayerService = 0
    /\ vmLinks = [g \in Gens |-> 0] /\ npLinks = [g \in Gens |-> 0]
    /\ vmPending = 0 /\ npPending = 0
    /\ pc = [w \in Workers |-> "idle"]
    /\ binder = [w \in Workers |-> 0]
    /\ vm = [w \in Workers |-> 0]
    /\ svc = [w \in Workers |-> 0]
    /\ served = [w \in Workers |-> FALSE]
    /\ crashed = FALSE

(* getCameraBuffer calls getNuPlayerService: a cached m_INuPlayerService   *)
(* is returned and copied; else getVirtualMedia returns the cached         *)
(* m_IVirtualMedia, or goes to waitForService when it is nullptr.          *)
GetNuPlayerService(w) ==
    /\ pc[w] = "idle"
    /\ IF m_INuPlayerService # 0
         THEN /\ svc' = [svc EXCEPT ![w] = m_INuPlayerService]
              /\ pc' = [pc EXCEPT ![w] = "call"]
              /\ vm' = vm
         ELSE /\ vm' = [vm EXCEPT ![w] = m_IVirtualMedia]
              /\ pc' = [pc EXCEPT ![w] = IF m_IVirtualMedia # 0 THEN "getNP"
                                          ELSE "waitVM"]
              /\ svc' = svc
    /\ UNCHANGED <<remote, local, binder, served, crashed>>

(* getVirtualMedia, lines 81-89: AServiceManager_waitForService blocks     *)
(* until the service is registered, and the proxy is stored at once.       *)
WaitForVirtualMedia(w) ==
    /\ pc[w] = "waitVM"
    /\ vmAlive
    /\ m_IVirtualMedia' = vmGen
    /\ binder' = [binder EXCEPT ![w] = vmGen]
    /\ pc' = [pc EXCEPT ![w] = "linkVM"]
    /\ UNCHANGED <<remote, m_INuPlayerService, vmLinks, npLinks, vmPending,
                   npPending, vm, svc, served, crashed>>

(* AIBinder_linkToDeath of a recipient to instance g, whose recipients    *)
(* are counted in links and whose undelivered notifications in pending.   *)
(* To a live instance the recipient is registered.  To a dead one,        *)
(* BpBinder::linkToDeath still registers it, and the obituary reaches it,  *)
(* unless the obituaries of that proxy were already sent: then it fails    *)
(* (only logged), which needs a recipient linked to g before its death,    *)
(* whose notification was queued then.                                     *)
LinkToDeath(links, pending, g, reachable) ==
    \/ /\ reachable
       /\ links' = [links EXCEPT ![g] = @ + 1]
       /\ pending' = pending
    \/ /\ ~reachable
       /\ pending' = pending + 1
       /\ links' = links
    \/ /\ ~reachable
       /\ links[g] > 0
       /\ UNCHANGED <<links, pending>>

(* A mutant: linkToDeath to a dead instance fails silently, as if no      *)
(* obituary were ever sent for it.                                         *)
LinkVirtualMedia_NoObituary(w) ==
    /\ pc[w] = "linkVM"
    /\ vmLinks' = IF VmReachable(binder[w])
                    THEN [vmLinks EXCEPT ![binder[w]] = @ + 1] ELSE vmLinks
    /\ vm' = [vm EXCEPT ![w] = m_IVirtualMedia]
    /\ pc' = [pc EXCEPT ![w] = "getNP"]
    /\ UNCHANGED <<remote, m_IVirtualMedia, m_INuPlayerService, npLinks,
                   vmPending, npPending, binder, svc, served, crashed>>

(* getVirtualMedia, lines 93-104: a death recipient is linked to the       *)
(* binder.  The member is then returned and copied by getNuPlayerService. *)
LinkVirtualMedia(w) ==
    /\ pc[w] = "linkVM"
    /\ LinkToDeath(vmLinks, vmPending, binder[w], VmReachable(binder[w]))
    /\ vm' = [vm EXCEPT ![w] = m_IVirtualMedia]
    /\ pc' = [pc EXCEPT ![w] = "getNP"]
    /\ UNCHANGED <<remote, m_IVirtualMedia, m_INuPlayerService, npLinks,
                   npPending, binder, svc, served, crashed>>

(* The worker leaves getNuPlayerService returning m_INuPlayerService, read *)
(* now: to getCameraBuffer's call if it is not nullptr, else with NULL.    *)
ReturnNuPlayer(w) ==
    /\ svc' = [svc EXCEPT ![w] = m_INuPlayerService]
    /\ pc' = [pc EXCEPT ![w] = IF m_INuPlayerService # 0 THEN "call" ELSE "idle"]
    /\ served' = IF m_INuPlayerService # 0 THEN served
                 ELSE [served EXCEPT ![w] = FALSE]

(* getNuPlayerService, lines 111-118: with a nullptr IVirtualMedia, or    *)
(* when the remote call fails, return the member; else the remote call    *)
(* writes the INuPlayerService proxy straight into m_INuPlayerService.     *)
CallGetNuPlayerService(w) ==
    /\ pc[w] = "getNP"
    /\ IF vm[w] # 0 /\ VmReachable(vm[w]) /\ npAlive
         THEN /\ m_INuPlayerService' = npGen
              /\ pc' = [pc EXCEPT ![w] = "linkNP"]
              /\ UNCHANGED <<svc, served>>
         ELSE /\ ReturnNuPlayer(w)
              /\ UNCHANGED m_INuPlayerService
    /\ UNCHANGED <<remote, m_IVirtualMedia, vmLinks, npLinks, vmPending,
                   npPending, binder, vm, crashed>>

(* getNuPlayerService, lines 120-131: m_INuPlayerService->asBinder() reads *)
(* the member again (a nullptr here is a crash), links a recipient to it,  *)
(* and returns it.                                                          *)
LinkNuPlayer(w) ==
    /\ pc[w] = "linkNP"
    /\ IF m_INuPlayerService = 0
         THEN /\ crashed' = TRUE
              /\ UNCHANGED <<npLinks, npPending, pc, svc>>
         ELSE /\ LinkToDeath(npLinks, npPending, m_INuPlayerService,
                             NpReachable(m_INuPlayerService))
              /\ svc' = [svc EXCEPT ![w] = m_INuPlayerService]
              /\ pc' = [pc EXCEPT ![w] = "call"]
              /\ UNCHANGED crashed
    /\ UNCHANGED <<remote, m_IVirtualMedia, m_INuPlayerService, vmLinks,
                   vmPending, binder, vm, served>>

(* getCameraBuffer, lines 66-73: the remote getCameraBuffer succeeds only *)
(* on a live process; a failed status returns NULL.                        *)
CallGetCameraBuffer(w) ==
    /\ pc[w] = "call"
    /\ served' = [served EXCEPT ![w] = NpReachable(svc[w])]
    /\ pc' = [pc EXCEPT ![w] = "idle"]
    /\ UNCHANGED <<remote, local, binder, vm, svc, crashed>>

(* A remote process dies: every recipient linked to this instance queues   *)
(* a notification.  It is restarted as the next instance.                  *)
VirtualMediaDies ==
    /\ vmAlive /\ vmDeaths < MaxDeaths
    /\ vmAlive' = FALSE /\ vmDeaths' = vmDeaths + 1
    /\ vmPending' = vmPending + vmLinks[vmGen]
    /\ UNCHANGED <<vmGen, npAlive, npGen, npDeaths, m_IVirtualMedia,
                   m_INuPlayerService, vmLinks, npLinks, npPending, worker>>

VirtualMediaRestarts ==
    /\ ~vmAlive
    /\ vmAlive' = TRUE /\ vmGen' = vmGen + 1
    /\ UNCHANGED <<npAlive, npGen, vmDeaths, npDeaths, local, worker>>

NuPlayerDies ==
    /\ npAlive /\ npDeaths < MaxDeaths
    /\ npAlive' = FALSE /\ npDeaths' = npDeaths + 1
    /\ npPending' = npPending + npLinks[npGen]
    /\ UNCHANGED <<vmAlive, vmGen, npGen, vmDeaths, m_IVirtualMedia,
                   m_INuPlayerService, vmLinks, npLinks, vmPending, worker>>

NuPlayerRestarts ==
    /\ ~npAlive
    /\ npAlive' = TRUE /\ npGen' = npGen + 1
    /\ UNCHANGED <<vmAlive, vmGen, vmDeaths, npDeaths, local, worker>>

(* A mutant: the IVirtualMedia death also drops the INuPlayerService.      *)
OnDeath_ResetsBoth ==
    /\ vmPending > 0
    /\ vmPending' = vmPending - 1
    /\ m_IVirtualMedia' = 0
    /\ m_INuPlayerService' = 0
    /\ UNCHANGED <<remote, vmLinks, npLinks, npPending, worker>>

(* LambdaOnDeath / OnDeath on a binder thread: m_IVirtualMedia = nullptr,  *)
(* whichever instance it now points to.                                    *)
OnDeath ==
    /\ vmPending > 0
    /\ vmPending' = vmPending - 1
    /\ m_IVirtualMedia' = 0
    /\ UNCHANGED <<remote, m_INuPlayerService, vmLinks, npLinks, npPending,
                   worker>>

(* LambdaOnDeathNuPlayer / OnDeathNuPlayer: m_INuPlayerService = nullptr.  *)
OnDeathNuPlayer ==
    /\ npPending > 0
    /\ npPending' = npPending - 1
    /\ m_INuPlayerService' = 0
    /\ UNCHANGED <<remote, m_IVirtualMedia, vmLinks, npLinks, vmPending,
                   worker>>

WorkerStep(w) ==
    \/ GetNuPlayerService(w)
    \/ WaitForVirtualMedia(w)
    \/ LinkVirtualMedia(w)
    \/ CallGetNuPlayerService(w)
    \/ LinkNuPlayer(w)
    \/ CallGetCameraBuffer(w)

Next ==
    \/ \E w \in Workers : WorkerStep(w)
    \/ VirtualMediaDies \/ VirtualMediaRestarts
    \/ NuPlayerDies \/ NuPlayerRestarts
    \/ OnDeath \/ OnDeathNuPlayer

(* The workers loop (a camera with requests keeps calling), and the binder *)
(* thread pool delivers every death notification.  The remote processes   *)
(* get no fairness.                                                        *)
Fairness ==
    /\ \A w \in Workers : WF_vars(WorkerStep(w))
    /\ WF_vars(OnDeath) /\ WF_vars(OnDeathNuPlayer)

Spec == Init /\ [][Next]_vars /\ Fairness

-----------------------------------------------------------------------------
(* Every variable has its type.                                            *)
TypeOK ==
    /\ vmAlive \in BOOLEAN /\ npAlive \in BOOLEAN
    /\ vmGen \in Gens /\ npGen \in Gens
    /\ m_IVirtualMedia \in Proxy /\ m_INuPlayerService \in Proxy
    /\ vmPending \in Nat /\ npPending \in Nat
    /\ pc \in [Workers -> {"idle", "waitVM", "linkVM", "getNP", "linkNP", "call"}]
    /\ svc \in [Workers -> Proxy] /\ served \in [Workers -> BOOLEAN]

(* The worker never dereferences a nullptr INuPlayerService: between the   *)
(* remote call that fills m_INuPlayerService (line 114) and asBinder()     *)
(* (line 120) no death notification resets it.  The notification comes  *)
(* from a recipient another worker linked to the same instance, so one    *)
(* camera alone never meets it.                                            *)
NoNullProxyDeref ==
    ~crashed

(* Once both remote processes stay up, frames flow again: some worker     *)
(* keeps getting frames.  A proxy to a dead instance is always reset by   *)
(* some death notification, whether the process died before or after the *)
(* recipient was linked, so getCameraBuffer reconnects after restarts.    *)
FramesResume ==
    <>[](vmAlive /\ npAlive) => []<>(\E w \in Workers : served[w])

=============================================================================
