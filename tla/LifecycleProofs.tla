-------------------------- MODULE LifecycleProofs --------------------------
(***************************************************************************)
(* Proofs about Lifecycle, for any namespaces, hosts, CIDRs, inputs and    *)
(* bounds: while a HostSubnet, an interface or the NetNamespace of a       *)
(* namespace that stays carries egress IPs, the finalizer holds the        *)
(* EgressIPAM (HandedOutIsProtected); and as long as no read was stale,    *)
(* the same goes for the annotations (AnnotationsReleased).                *)
(*                                                                         *)
(* The argument has three parts.  The versions of the EgressIPAM: if the   *)
(* removal of the finalizer is accepted, the copy the worker took is what  *)
(* is stored, the cache shows it and no event is on its way, so that all   *)
(* copies are ones of an EgressIPAM that is being deleted (IPAMVersions,   *)
(* InstanceVersion, Promises).  The namespaces that stay: every list of    *)
(* them is complete, and the Namespace controller has no business with     *)
(* them (StayersStay).  The removals: each leaves nothing behind of its    *)
(* kind unless it fails, and a failed one ends the clean-up (CleanUp,      *)
(* AnnotationsCleaned).                                                    *)
(***************************************************************************)
EXTENDS Lifecycle, NamespaceSafetyProofs

-----------------------------------------------------------------------------
(* The inductive invariant                                                 *)

\* No answer is awaited but in the removals that are about hosts.
Awaiting == pc \notin {"rm_hs", "rm_nic"} => hostsLeft = {}

\* An instance that is being initialised has its finalizer.
Initializing == pc = "initialize" => inst.finalizer

\* The cache and the events have no later version than the stored one, and
\* if they have that one, nothing is on its way behind it.
IPAMVersions ==
  /\ ~up => ipamEvents = << >> /\ pc = "idle" /\ ipamCache = NoIPAM(0)
  /\ up => /\ ipamCache.rv <= ipam.rv
           /\ ipamCache.rv = ipam.rv => ipamCache = ipam /\ ipamEvents = << >>
  /\ \A i \in DOMAIN ipamEvents :
       /\ ipamEvents[i].new.rv <= ipam.rv
       /\ ipamEvents[i].new.rv = ipam.rv => ipamEvents[i].new = ipam /\ i = Len(ipamEvents)

\* So has the instance that is worked for.
InstanceVersion ==
  pc \notin {"idle", "initialize"}
    => /\ inst.rv <= ipam.rv
       /\ inst.rv = ipam.rv => inst = ipam /\ ipamCache = ipam /\ ipamEvents = << >>

\* A copy to hand out IPs for is one of an EgressIPAM that is protected.
Promise(o) == o.exists /\ o.finalizer /\ ~o.deleting => Protected

Promises ==
  /\ Promise(ipamCache)
  /\ \A i \in DOMAIN ipamEvents : Promise(ipamEvents[i].new)
  /\ pc = "load" /\ ~inst.deleting => Protected
  /\ pc \in {"assign", "netns", "nodes"} => Protected
  /\ pc \in {"rm_ns", "rm_nn", "rm_hs", "rm_nic", "finalizer"} => inst.deleting

\* The namespaces have been listed and the list is yet to be used.
NsListed == pc \in {"assign", "rm_ns"} \/ (pc = "load" /\ "namespaces" \notin loading)

Refers(o) == o.exists /\ o.ref

\* The namespaces that stay refer to the EgressIPAM in every copy, and the
\* Namespace controller is not told about them.
StayersStay ==
  /\ \A n \in Stayers : Refers(ns[n])
  /\ up => \A n \in Stayers : Refers(nsCache[n])
  /\ \A i \in DOMAIN nsEvents : nsEvents[i].name \in Stayers => Refers(nsEvents[i].new)
  /\ NsListed => \A n \in Stayers : Refers(nsList[n])
  /\ nsQueue \cap Stayers = {}
  /\ wpc # "idle" => wname \notin Stayers

\* What the removals have left of NetNamespaces, HostSubnets and interfaces.
CleanUp ==
  /\ pc = "rm_nn" /\ ~failed => \A n \in Stayers : n \in toSync \/ nn[n].ips = NoIPs
  /\ pc \in {"rm_hs", "rm_nic", "finalizer"} => \A n \in Stayers : nn[n].ips = NoIPs
  /\ pc = "rm_hs" /\ ~failed => hs \subseteq hostsLeft
  /\ pc \in {"rm_nic", "finalizer"} => hs = {}
  /\ pc = "rm_nic" /\ ~failed => nic \subseteq hostsLeft
  /\ pc = "finalizer" => nic = {}
  /\ nic # {} => cloud

\* What they have left of the annotations.
AnnotationsCleaned ==
  staleReads = 0 =>
    /\ pc = "load" /\ "namespaces" \notin loading
         => \A n \in Stayers : nsList[n].ips = ns[n].ips
    /\ pc = "rm_ns" /\ ~failed => \A n \in Stayers : n \in todo \/ ns[n].ips = NoIPs
    /\ pc \in {"rm_nn", "rm_hs", "rm_nic", "finalizer"}
         => \A n \in Stayers : ns[n].ips = NoIPs

-----------------------------------------------------------------------------
(* Types of the EgressIPAM's copies                                        *)

IPAMEvents == [old : IPAMs, new : IPAMs]

LEMMA IPAMType ==
  /\ \A rv \in Nat : NoIPAM(rv) \in IPAMs /\ NoIPAM(rv).rv = rv
  /\ \A o \in IPAMs :
       /\ [o EXCEPT !.finalizer = TRUE] \in IPAMs /\ [o EXCEPT !.finalizer = FALSE] \in IPAMs
       /\ [o EXCEPT !.deleting = TRUE] \in IPAMs
       /\ [o EXCEPT !.valid = ~@, !.rv = @ + 1] \in IPAMs
<1>1. \A rv \in Nat : NoIPAM(rv) \in IPAMs /\ NoIPAM(rv).rv = rv
  BY DEF NoIPAM, IPAMs
<1>2. ASSUME NEW o \in IPAMs
      PROVE  /\ [o EXCEPT !.finalizer = TRUE] \in IPAMs
             /\ [o EXCEPT !.finalizer = FALSE] \in IPAMs
             /\ [o EXCEPT !.deleting = TRUE] \in IPAMs
  BY DEF IPAMs
<1>3. ASSUME NEW o \in IPAMs
      PROVE  [o EXCEPT !.valid = ~@, !.rv = @ + 1] \in IPAMs
  <2>1. \A b \in BOOLEAN, rv \in Nat : [o EXCEPT !.valid = b, !.rv = rv] \in IPAMs
    BY DEF IPAMs
  <2>2. o.rv + 1 \in Nat
    BY DEF IPAMs
  <2>3. (~o.valid) \in BOOLEAN
    BY Zenon
  <2> QED
    BY <2>1, <2>2, <2>3, Zenon
<1> QED
  BY <1>1, <1>2, <1>3

\* What an update stores: a new version, or that the object is gone.
LEMMA StoredIPAMType ==
  ASSUME NEW o \in IPAMs
  PROVE  /\ StoredIPAM(o) \in IPAMs /\ StoredIPAM(o).rv = o.rv + 1
         /\ o.finalizer => StoredIPAM(o).finalizer /\ StoredIPAM(o).exists = o.exists
         /\ StoredIPAM(o).exists => o.exists
<1>1. o.rv + 1 \in Nat
  BY DEF IPAMs
<1>2. CASE o.deleting /\ ~o.finalizer
  <2>1. StoredIPAM(o) = NoIPAM(o.rv + 1)
    BY <1>2 DEF StoredIPAM
  <2>2. ~NoIPAM(o.rv + 1).exists
    BY DEF NoIPAM
  <2> QED
    BY <1>1, <1>2, <2>1, <2>2, IPAMType
<1>3. CASE ~(o.deleting /\ ~o.finalizer)
  <2>1. StoredIPAM(o) = [o EXCEPT !.rv = @ + 1]
    BY <1>3 DEF StoredIPAM
  <2>2. [o EXCEPT !.rv = @ + 1] \in IPAMs
    BY <1>1 DEF IPAMs
  <2>3. /\ [o EXCEPT !.rv = @ + 1].rv = o.rv + 1
        /\ [o EXCEPT !.rv = @ + 1].finalizer = o.finalizer
        /\ [o EXCEPT !.rv = @ + 1].exists = o.exists
    BY DEF IPAMs
  <2> QED
    BY <2>1, <2>2, <2>3
<1> QED
  BY <1>2, <1>3

LEMMA PutIPAMType ==
  ASSUME LifeTypeOK, NEW new \in IPAMs, PutIPAM(new)
  PROVE  ipam' \in IPAMs /\ ipamEvents' \in Seq(IPAMEvents)
<1>1. [old |-> ipam, new |-> new] \in IPAMEvents /\ ipamEvents \in Seq(IPAMEvents)
  BY DEF LifeTypeOK, IPAMEvents
<1> QED
  BY <1>1 DEF PutIPAM

\* The three results of an update.
LEMMA WriteIPAM ==
  ASSUME BoundsTypeOK, NEW obj, UpdateIPAM(obj) \/ RefusedIPAM(obj) \/ FaultyIPAM(obj)
  PROVE  /\ faults' \in Nat
         /\ \/ UNCHANGED <<ipam, ipamEvents>>
            \/ Accepts(ipam, obj) /\ PutIPAM(StoredIPAM(obj))
BY DEF UpdateIPAM, RefusedIPAM, FaultyIPAM, BoundsTypeOK

LEMMA WriteIPAMType ==
  ASSUME LifeTypeOK, BoundsTypeOK, NEW obj \in IPAMs,
         UpdateIPAM(obj) \/ RefusedIPAM(obj) \/ FaultyIPAM(obj)
  PROVE  faults' \in Nat /\ ipam' \in IPAMs /\ ipamEvents' \in Seq(IPAMEvents)
<1>1. ipam \in IPAMs /\ ipamEvents \in Seq(IPAMEvents)
  BY DEF LifeTypeOK, IPAMEvents
<1> QED
  BY <1>1, WriteIPAM, StoredIPAMType, PutIPAMType

-----------------------------------------------------------------------------
(* Type correctness                                                        *)

\* Where NamespaceAssignment's cycle is at work, its types are these.
LEMMA InAssignment ==
  ASSUME LTypeOK, pc \in {"load", "assign", "netns", "nodes"}
  PROVE  TypeOK
BY DEF LTypeOK, LCycleTypeOK, TypeOK, CycleTypeOK

LEMMA AssignmentIsCycle ==
  ASSUME AssignmentStep
  PROVE  EgressIPAMStep /\ pc \in {"load", "assign", "netns", "nodes"}
<1>1. EgressIPAMStep
  BY DEF AssignmentStep, EgressIPAMStep
<1>2. pc \in {"load", "assign", "netns", "nodes"}
  BY DEF AssignmentStep, ListNamespaces, ListNetNamespaces, OtherError, SortFails,
     SortIPsByCIDR, CloudSilent, Sorted, AtSort, AssignIPs, AssignFails, SyncNetNamespace,
     Exhausted, AssignDone, SyncDone, SyncFailed, FinishCycle
<1> QED
  BY <1>1, <1>2

\* A cycle that ends leaves no context.
LEMMA AssignmentEnds ==
  ASSUME AssignmentStep, pc' = "idle"
  PROVE  NoContext
BY DEF AssignmentStep, ListNamespaces, ListNetNamespaces, OtherError, SortFails,
     SortIPsByCIDR, CloudSilent, Sorted, AtSort, AssignIPs, AssignFails, SyncNetNamespace,
     Exhausted, AssignDone, SyncDone, SyncFailed, FinishCycle, EndCycle

\* The end of a cycle, and what a step in the worker may change.
LEMMA EndedType ==
  ASSUME NEW error, EndCycle(error)
  PROVE  /\ LCycleTypeOK' /\ queued' \in BOOLEAN
         /\ pc' = "idle" /\ todo' = {} /\ toSync' = {}
<1>1. CycleTypeOK' /\ pc' = "idle"
  BY NoContextType DEF EndCycle
<1>2. queued' \in BOOLEAN
  BY Zenon DEF EndCycle
<1> QED
  BY <1>1, <1>2 DEF EndCycle, NoContext, CycleTypeOK, LCycleTypeOK

LEMMA WorkingType ==
  ASSUME LTypeOK, InCycle, queued' \in BOOLEAN, APITypeOK',
         nsEvents' \in Seq(Events(Namespaces)), nnEvents' \in Seq(Events(NetNamespaces)),
         faults' \in Nat, staleReads' \in Nat
  PROVE  APITypeOK' /\ InformerTypeOK' /\ WorkerTypeOK' /\ BoundsTypeOK'
BY InCycleType DEF LTypeOK, OutsideTypeOK

LTypes == LTypeOK /\ Awaiting

\* The EgressIPAM is written or delivered; the rest is left alone.
LEMMA IPAMStepType ==
  ASSUME LTypes, CreateIPAM \/ EditIPAM \/ DeleteIPAM \/ DeliverIPAM
  PROVE  LTypes'
<1> USE DEF LTypes, LTypeOK
<1>0. ipam \in IPAMs /\ ipam.rv + 1 \in Nat /\ ipamEvents \in Seq(IPAMEvents)
  BY DEF LifeTypeOK, IPAMs, IPAMEvents
<1>1. CASE CreateIPAM \/ EditIPAM \/ DeleteIPAM
  <2>1. PICK new \in IPAMs : PutIPAM(new)
    <3>1. CASE CreateIPAM
      <4>1. [NoIPAM(ipam.rv + 1) EXCEPT !.exists = TRUE, !.valid = TRUE] \in IPAMs
        BY <1>0 DEF NoIPAM, IPAMs
      <4> QED
        BY <3>1, <4>1 DEF CreateIPAM
    <3>2. CASE EditIPAM
      BY <1>0, <3>2, IPAMType DEF EditIPAM
    <3>3. CASE DeleteIPAM
      BY <1>0, <3>3, IPAMType, StoredIPAMType DEF DeleteIPAM
    <3> QED
      BY <1>1, <3>1, <3>2, <3>3
  <2>2. ipam' \in IPAMs /\ ipamEvents' \in Seq(IPAMEvents)
    BY <2>1, PutIPAMType
  <2>3. ipamOps' \in Nat /\ UNCHANGED <<vars, ipamCache, inst, hs, nic, hostsLeft, cloud>>
    BY <1>1 DEF CreateIPAM, EditIPAM, DeleteIPAM, OnIPAM, LifeTypeOK
  <2>4. LifeTypeOK'
    BY <2>2, <2>3 DEF LifeTypeOK, IPAMEvents
  <2>5. OutsideTypeOK' /\ UNCHANGED cycleVars
    BY <2>3 DEF OutsideTypeOK, APITypeOK, InformerTypeOK, WorkerTypeOK, BoundsTypeOK, vars,
       apiVars, cacheVars, workerVars, boundVars
  <2> QED
    BY <2>3, <2>4, <2>5 DEF OutsideTypeOK, LCycleTypeOK, Awaiting, cycleVars, rcVars
<1>2. CASE DeliverIPAM
  <2>1. ipamEvents # << >> /\ Head(ipamEvents) \in IPAMEvents /\ ipamEvents' \in Seq(IPAMEvents)
    BY <1>0, <1>2 DEF DeliverIPAM
  <2>2. ipamCache' \in IPAMs
    BY <1>2, <2>1 DEF DeliverIPAM, IPAMEvents
  <2>3. queued' \in BOOLEAN
    BY <1>2, Zenon DEF DeliverIPAM
  <2>4. LifeTypeOK'
    BY <1>2, <2>1, <2>2 DEF DeliverIPAM, LifeTypeOK, IPAMEvents
  <2>5. OutsideTypeOK'
    BY <1>2, <2>3 DEF DeliverIPAM, OutsideTypeOK, APITypeOK, InformerTypeOK, WorkerTypeOK,
       BoundsTypeOK, apiVars, cacheVars, workerVars, boundVars
  <2> QED
    BY <1>2, <2>4, <2>5 DEF DeliverIPAM, OutsideTypeOK, LCycleTypeOK, Awaiting, cycleVars,
       rcVars
<1> QED
  BY <1>1, <1>2

LEMMA OutsideStepType ==
  ASSUME LTypes, OutsideStep
  PROVE  LTypes'
<1>1. OutsideTypeOK
  BY DEF LTypes, LTypeOK, OutsideTypeOK
<1>2. OutsideTypeOK' /\ UNCHANGED cycleVars
  BY <1>1, UserType, SDNType, InformerType, WorkerType DEF OutsideStep
<1>3. UNCHANGED lifeVars
  BY DEF OutsideStep
<1>4. LifeTypeOK' /\ LCycleTypeOK'
  BY <1>2, <1>3 DEF LTypes, LTypeOK, LifeTypeOK, LCycleTypeOK, cycleVars, rcVars, lifeVars
<1> QED
  BY <1>2, <1>3, <1>4 DEF LTypes, LTypeOK, Awaiting, OutsideTypeOK, cycleVars, rcVars,
     lifeVars

LEMMA AssignmentStepType ==
  ASSUME LTypes, AssignmentStep
  PROVE  LTypes'
<1>1. TypeOK /\ EgressIPAMStep /\ pc \in {"load", "assign", "netns", "nodes"}
  BY InAssignment, AssignmentIsCycle DEF LTypes
<1>2. TypeOK'
  BY <1>1, CycleType
<1>3. LCycleTypeOK' /\ pc' \notin {"rm_hs", "rm_nic"}
  BY <1>2 DEF TypeOK, CycleTypeOK, LCycleTypeOK
<1>4. /\ inst' = IF pc' = "idle" THEN NoIPAM(0) ELSE inst
      /\ UNCHANGED <<ipam, ipamCache, ipamEvents, hs, nic, hostsLeft, cloud, ipamOps>>
  BY DEF AssignmentStep
<1>5. inst' \in IPAMs
  BY <1>4, IPAMType DEF LTypes, LTypeOK, LifeTypeOK
<1>6. LifeTypeOK'
  BY <1>4, <1>5 DEF LTypes, LTypeOK, LifeTypeOK
<1>7. pc' = "idle" => todo' = {} /\ toSync' = {}
  BY AssignmentEnds DEF NoContext
<1>8. hostsLeft' = {}
  BY <1>1, <1>4 DEF LTypes, Awaiting
<1> QED
  BY <1>2, <1>3, <1>4, <1>6, <1>7, <1>8 DEF LTypes, LTypeOK, Awaiting, TypeOK

LEMMA ProcessStepType ==
  ASSUME LTypes, ProcessEnds \/ ProcessRestarts
  PROVE  LTypes'
<1> USE DEF LTypes, LTypeOK
<1>1. CASE ProcessEnds
  <2>1. Stop /\ BoundsTypeOK'
    BY <1>1 DEF ProcessEnds, Crash, SortPanics, BoundsTypeOK, boundVars
  <2>2. APITypeOK' /\ InformerTypeOK' /\ CycleTypeOK' /\ WorkerTypeOK'
    BY <2>1, StopType
  <2>3. LCycleTypeOK' /\ pc' = "idle" /\ todo' = {} /\ toSync' = {}
    BY <2>1, <2>2 DEF CycleTypeOK, LCycleTypeOK, Stop, NoContext
  <2>4. NoIPAM(0) \in IPAMs
    BY IPAMType
  <2>5. LifeTypeOK' /\ inst' = NoIPAM(0) /\ hostsLeft' = {}
    BY <1>1, <2>4 DEF ProcessEnds, LifeTypeOK
  <2> QED
    BY <2>1, <2>2, <2>3, <2>5 DEF Awaiting
<1>2. CASE ProcessRestarts
  <2>1. queued' \in BOOLEAN /\ up' \in BOOLEAN
    BY <1>2, Zenon DEF ProcessRestarts
  <2>2. OutsideTypeOK'
    BY <1>2, <2>1 DEF ProcessRestarts, OutsideTypeOK, APITypeOK, InformerTypeOK,
       WorkerTypeOK, BoundsTypeOK, apiVars, workerVars, boundVars
  <2>3. LifeTypeOK'
    BY <1>2 DEF ProcessRestarts, LifeTypeOK
  <2> QED
    BY <1>2, <2>2, <2>3 DEF ProcessRestarts, OutsideTypeOK, LCycleTypeOK, Awaiting,
       cycleVars, rcVars
<1> QED
  BY <1>1, <1>2

\* The steps of Reconcile before the assignment and the clean-up, and the
\* one that gives the finalizer up.
LEMMA ReconcileStepType ==
  ASSUME LTypes,
         Dismiss \/ StartInitialize \/ Initialize \/ StartLoad \/ RemoveFinalizer
  PROVE  LTypes'
<1> USE DEF LTypes, LTypeOK
<1>0. /\ nsEvents \in Seq(Events(Namespaces)) /\ nnEvents \in Seq(Events(NetNamespaces))
      /\ faults \in Nat /\ staleReads \in Nat
      /\ InCycle /\ UNCHANGED <<apiVars, nsEvents, nnEvents, ipamCache, cloud, ipamOps>>
  BY DEF InformerTypeOK, BoundsTypeOK, Dismiss, StartInitialize, Initialize, StartLoad,
     RemoveFinalizer, InReconcile
<1>1. APITypeOK'
  BY <1>0 DEF APITypeOK, apiVars
<1>2. CASE Dismiss \/ StartInitialize \/ StartLoad
  <2>1. staleReads' \in Nat /\ faults' \in Nat /\ pc = "idle"
    BY <1>0, <1>2, ReadType DEF Dismiss, StartInitialize, StartLoad, Dequeue
  <2>2. queued' \in BOOLEAN
    <3>1. ipamCache.exists \in BOOLEAN
      BY DEF LifeTypeOK, IPAMs
    <3> QED
      BY <1>2, <3>1, Zenon DEF Dismiss, StartInitialize, StartLoad
  <2>3. OutsideTypeOK'
    BY <1>0, <1>1, <2>1, <2>2, WorkingType DEF OutsideTypeOK
  <2>4. inst' \in IPAMs
    BY <1>2, IPAMType DEF Dismiss, StartInitialize, StartLoad, LifeTypeOK
  <2>5. LifeTypeOK'
    BY <1>0, <1>2, <2>4 DEF Dismiss, StartInitialize, StartLoad, LifeTypeOK
  <2>6. LCycleTypeOK' /\ UNCHANGED <<todo, toSync, hostsLeft>>
    BY <1>2 DEF Dismiss, StartInitialize, StartLoad, LCycleTypeOK, cycleVars, rcVars
  <2> QED
    BY <1>2, <2>1, <2>3, <2>5, <2>6 DEF OutsideTypeOK, Awaiting, Dismiss, StartInitialize,
       StartLoad, cycleVars, rcVars
<1>3. CASE Initialize \/ RemoveFinalizer
  <2>1. PICK obj \in IPAMs : /\ UpdateIPAM(obj) \/ RefusedIPAM(obj) \/ FaultyIPAM(obj)
                             /\ \E error : EndCycle(error)
    <3>1. CASE Initialize
      BY <3>1 DEF Initialize, LifeTypeOK
    <3>2. CASE RemoveFinalizer
      <4>1. [inst EXCEPT !.finalizer = FALSE] \in IPAMs
        BY IPAMType DEF LifeTypeOK
      <4> QED
        BY <3>2, <4>1 DEF RemoveFinalizer
    <3> QED
      BY <1>3, <3>1, <3>2
  <2>2. faults' \in Nat /\ ipam' \in IPAMs /\ ipamEvents' \in Seq(IPAMEvents)
    BY <2>1, WriteIPAMType
  <2>3. LCycleTypeOK' /\ queued' \in BOOLEAN /\ pc' = "idle" /\ todo' = {} /\ toSync' = {}
    BY <2>1, EndedType
  <2>4. inst' = NoIPAM(0) /\ UNCHANGED <<staleReads, hs, nic, hostsLeft>>
    BY <1>3 DEF Initialize, RemoveFinalizer
  <2>5. hostsLeft = {}
    BY <1>3 DEF Initialize, RemoveFinalizer, Awaiting
  <2>6. OutsideTypeOK'
    BY <1>0, <1>1, <2>2, <2>3, <2>4, WorkingType DEF OutsideTypeOK
  <2>7. NoIPAM(0) \in IPAMs
    BY IPAMType
  <2>8. LifeTypeOK'
    BY <1>0, <2>2, <2>4, <2>7 DEF LifeTypeOK, IPAMEvents
  <2> QED
    BY <2>3, <2>4, <2>5, <2>6, <2>8 DEF OutsideTypeOK, Awaiting
<1> QED
  BY <1>2, <1>3

\* The steps that put IPs on hosts and take them off again.
LEMMA HostStepType ==
  ASSUME LTypes, NEW h \in Hosts,
         PlaceIPs(h) \/ EmptyHostSubnet(h) \/ FreeInterface(h) \/ FreeInterfaceFails(h)
  PROVE  LTypes'
<1> USE DEF LTypes, LTypeOK
<1>1. /\ InCycle
      /\ UNCHANGED <<apiVars, nsEvents, nnEvents, queued, pc, loading, nsList, nnList, used,
                     todo, toSync, ipam, ipamEvents, ipamCache, inst, cloud, ipamOps,
                     staleReads>>
  BY DEF PlaceIPs, EmptyHostSubnet, FreeInterface, FreeInterfaceFails, HostAnswered,
     Removing, InReconcile, cycleVars, rcVars
<1>2. faults' \in Nat /\ failed' \in BOOLEAN
  <2>1. /\ faults' \in {faults, faults + 1}
        /\ failed' = failed \/ failed' = TRUE
    BY DEF PlaceIPs, EmptyHostSubnet, FreeInterface, FreeInterfaceFails, cycleVars, rcVars
  <2>2. faults' \in Nat
    BY <2>1 DEF BoundsTypeOK
  <2>3. failed' \in BOOLEAN
    BY <2>1, Zenon DEF LCycleTypeOK
  <2> QED
    BY <2>2, <2>3
<1>3. hs' \subseteq Hosts /\ nic' \subseteq Hosts
  BY DEF PlaceIPs, EmptyHostSubnet, FreeInterface, FreeInterfaceFails, LifeTypeOK
<1>4. hostsLeft' \subseteq hostsLeft
  BY DEF PlaceIPs, EmptyHostSubnet, FreeInterface, FreeInterfaceFails, HostAnswered
<1>5. APITypeOK'
  BY <1>1 DEF APITypeOK, apiVars
<1>6. OutsideTypeOK'
  BY <1>1, <1>2, <1>5, WorkingType DEF OutsideTypeOK, InformerTypeOK, BoundsTypeOK
<1>7. LifeTypeOK'
  BY <1>1, <1>3, <1>4 DEF LifeTypeOK
<1>8. LCycleTypeOK'
  BY <1>1, <1>2 DEF LCycleTypeOK
<1> QED
  BY <1>1, <1>4, <1>6, <1>7, <1>8 DEF OutsideTypeOK, Awaiting

\* The removal of annotations and of the IPs of NetNamespaces.
LEMMA RemovalType ==
  ASSUME LTypes, NEW n \in Names, RemoveAnnotation(n) \/ EmptyNetNamespace(n)
  PROVE  LTypes'
<1> USE DEF LTypes, LTypeOK
<1>1. /\ InCycle
      /\ UNCHANGED <<queued, pc, loading, nsList, nnList, used, ipam, ipamEvents, ipamCache,
                     inst, hs, nic, hostsLeft, cloud, ipamOps, staleReads>>
  BY DEF RemoveAnnotation, EmptyNetNamespace, Removing
<1>2. todo' \subseteq todo /\ toSync' \subseteq toSync
  BY DEF RemoveAnnotation, EmptyNetNamespace
<1>3. /\ APITypeOK' /\ faults' \in Nat /\ failed' \in BOOLEAN
      /\ nsEvents' \in Seq(Events(Namespaces)) /\ nnEvents' \in Seq(Events(NetNamespaces))
  <2>1. CASE RemoveAnnotation(n)
    <3> DEFINE obj == [nsList[n] EXCEPT !.ips = NoIPs]
    <3>1. obj \in Namespaces
      BY NoIPsType, WithAnnotation DEF LCycleTypeOK
    <3>2. UpdateNs(n, obj) \/ RefusedNs(n, obj) \/ FaultyNs(n, obj)
      BY <2>1 DEF RemoveAnnotation
    <3>3. /\ ns' \in [Names -> Namespaces] /\ nsEvents' \in Seq(Events(Namespaces))
          /\ faults' \in Nat
      BY <3>1, <3>2, WriteNsType
    <3> QED
      BY <2>1, <3>3 DEF RemoveAnnotation, APITypeOK, InformerTypeOK, LCycleTypeOK
  <2>2. CASE EmptyNetNamespace(n)
    <3> DEFINE obj == [nnList[n] EXCEPT !.ips = NoIPs]
    <3>1. obj \in NetNamespaces
      BY NoIPsType, WithEgressIPs DEF LCycleTypeOK
    <3>2. UpdateNet(n, obj) \/ RefusedNet(n, obj) \/ FaultyNet(n, obj)
      BY <2>2 DEF EmptyNetNamespace
    <3>3. /\ nn' \in [Names -> NetNamespaces] /\ nnEvents' \in Seq(Events(NetNamespaces))
          /\ faults' \in Nat
      BY <3>1, <3>2, WriteNetType
    <3> QED
      BY <2>2, <3>3 DEF EmptyNetNamespace, APITypeOK, InformerTypeOK, LCycleTypeOK
  <2> QED
    BY <2>1, <2>2
<1>4. OutsideTypeOK'
  BY <1>1, <1>3, WorkingType DEF OutsideTypeOK, InformerTypeOK, BoundsTypeOK
<1>5. LifeTypeOK'
  BY <1>1 DEF LifeTypeOK
<1>6. LCycleTypeOK'
  BY <1>1, <1>2, <1>3 DEF LCycleTypeOK
<1> QED
  BY <1>1, <1>2, <1>4, <1>5, <1>6 DEF OutsideTypeOK, Awaiting

\* From one removal to the next, or out of the clean-up.
LEMMA NextRemovalType ==
  ASSUME LTypes,
         \/ StartRemovals \/ AnnotationsRemoved \/ NetNamespacesEmptied
         \/ HostSubnetsEmptied \/ InterfacesFreed
  PROVE  LTypes'
<1> USE DEF LTypes, LTypeOK
<1>1. /\ InCycle
      /\ UNCHANGED <<apiVars, nsEvents, nnEvents, ipam, ipamEvents, ipamCache,
                     hs, nic, cloud, ipamOps, staleReads, faults>>
  BY DEF StartRemovals, AnnotationsRemoved, NetNamespacesEmptied, HostSubnetsEmptied,
     InterfacesFreed, NextRemoval, Removing, InReconcile
<1>2. /\ queued' \in BOOLEAN /\ LCycleTypeOK' /\ inst' \in IPAMs
      /\ pc' = "idle" => inst' = NoIPAM(0) /\ todo' = {} /\ toSync' = {}
  <2>0. NoIPAM(0) \in IPAMs /\ Assigned \subseteq Names /\ NetNamespacesToEmpty \subseteq Names
    BY IPAMType DEF Assigned, NetNamespacesToEmpty, Referring
  <2>1. CASE StartRemovals
    BY <2>0, <2>1 DEF StartRemovals, Removing, LCycleTypeOK, InformerTypeOK, LifeTypeOK
  <2>2. CASE ~StartRemovals /\ failed
    <3>1. EndCycle(TRUE) /\ inst' = NoIPAM(0)
      BY <2>2 DEF AnnotationsRemoved, NetNamespacesEmptied, HostSubnetsEmptied,
         InterfacesFreed, NextRemoval
    <3> QED
      BY <2>0, <3>1, EndedType
  <2>3. CASE ~StartRemovals /\ ~failed
    <3>1. UNCHANGED <<queued, loading, nsList, nnList, used, failed, inst>>
      BY <2>3 DEF AnnotationsRemoved, NetNamespacesEmptied, HostSubnetsEmptied,
         InterfacesFreed, NextRemoval
    <3>2. /\ pc' \in {"rm_nn", "rm_hs", "rm_nic", "finalizer"}
          /\ todo' \subseteq Names /\ toSync' \subseteq Names
      BY <2>0, <2>3 DEF AnnotationsRemoved, NetNamespacesEmptied, HostSubnetsEmptied,
         InterfacesFreed, NextRemoval, LCycleTypeOK
    <3> QED
      BY <3>1, <3>2 DEF LCycleTypeOK, InformerTypeOK, LifeTypeOK
  <2> QED
    BY <2>1, <2>2, <2>3
<1>3. hostsLeft' \subseteq Hosts /\ (pc' \notin {"rm_hs", "rm_nic"} => hostsLeft' = {})
  <2>1. CASE StartRemovals \/ AnnotationsRemoved
    BY <2>1 DEF StartRemovals, AnnotationsRemoved, AtSort, Awaiting, LifeTypeOK
  <2>2. CASE InterfacesFreed
    BY <2>2 DEF InterfacesFreed
  <2>3. CASE NetNamespacesEmptied
    BY <2>3 DEF NetNamespacesEmptied, NextRemoval
  <2>4. CASE HostSubnetsEmptied
    <3>1. CASE failed \/ ~cloud
      BY <2>4, <3>1 DEF HostSubnetsEmptied
    <3>2. CASE ~failed /\ cloud
      BY <2>4, <3>2 DEF HostSubnetsEmptied, NextRemoval
    <3> QED
      BY <3>1, <3>2
  <2> QED
    BY <2>1, <2>2, <2>3, <2>4
<1>4. APITypeOK'
  BY <1>1 DEF APITypeOK, apiVars
<1>5. OutsideTypeOK'
  BY <1>1, <1>2, <1>4, WorkingType DEF OutsideTypeOK, InformerTypeOK, BoundsTypeOK
<1>6. LifeTypeOK'
  BY <1>1, <1>2, <1>3 DEF LifeTypeOK
<1> QED
  BY <1>2, <1>3, <1>5, <1>6 DEF OutsideTypeOK, Awaiting

LEMMA LStutterType ==
  ASSUME LTypes, UNCHANGED lvars
  PROVE  LTypes'
<1>1. OutsideTypeOK' /\ UNCHANGED cycleVars
  BY DEF LTypes, LTypeOK, OutsideTypeOK, APITypeOK, InformerTypeOK, WorkerTypeOK,
     BoundsTypeOK, lvars, vars, apiVars, cacheVars, workerVars, boundVars
<1> QED
  BY <1>1 DEF LTypes, LTypeOK, OutsideTypeOK, LCycleTypeOK, LifeTypeOK, Awaiting, lvars,
     lifeVars, cycleVars, rcVars

LEMMA LStepType ==
  ASSUME LTypes, [LNext]_lvars
  PROVE  LTypes'
BY IPAMStepType, OutsideStepType, AssignmentStepType, ProcessStepType, ReconcileStepType,
   HostStepType, RemovalType, NextRemovalType, LStutterType
   DEF LNext, ReconcileStep

LEMMA LInitType == LInit => LTypes
<1> SUFFICES ASSUME LInit PROVE LTypes
  OBVIOUS
<1>1. APITypeOK
  BY NoIPsType DEF LInit, APITypeOK, Namespaces, NetNamespaces
<1>2. InformerTypeOK
  <2>1. up \in BOOLEAN /\ queued \in BOOLEAN
    BY Zenon DEF LInit
  <2>2. /\ nsEvents \in Seq(Events(Namespaces)) /\ nnEvents \in Seq(Events(NetNamespaces))
        /\ nsQueue \subseteq Names /\ nsCache = ns /\ nnCache = nn
    BY DEF LInit
  <2> QED
    BY <1>1, <2>1, <2>2 DEF InformerTypeOK, APITypeOK
<1>3. LCycleTypeOK
  <2>1. NoNamespaces \in [Names -> Namespaces] /\ NoNetNamespaces \in [Names -> NetNamespaces]
    BY GoneType DEF NoNamespaces, NoNetNamespaces
  <2> QED
    BY <2>1 DEF LInit, LCycleTypeOK, NoUsed
<1>4. WorkerTypeOK /\ BoundsTypeOK
  BY GoneType DEF LInit, WorkerTypeOK, BoundsTypeOK
<1>5. LifeTypeOK
  <2>1. NoIPAM(0) \in IPAMs
    BY IPAMType
  <2> QED
    BY <2>1 DEF LInit, LifeTypeOK
<1> QED
  BY <1>1, <1>2, <1>3, <1>4, <1>5 DEF LTypes, LTypeOK, Awaiting, LInit

\* For any constants: the variables keep their types, and whenever the
\* worker waits for a request, nothing of an earlier cycle is left over: no
\* instance and no answer that is still awaited.
THEOREM LifecycleTypes == LSpec => []LTypeOK
<1>1. LTypes /\ [LNext]_lvars => LTypes'
  BY LStepType
<1>2. LTypes => LTypeOK
  BY DEF LTypes
<1> QED
  BY LInitType, <1>1, <1>2, PTL DEF LSpec

-----------------------------------------------------------------------------
(* What a step may do, seen from one part of the state                     *)

\* The steps that touch neither the EgressIPAM, nor hosts, nor namespaces,
\* nor NetNamespaces, and leave the worker where it is.
Elsewhere ==
  UNCHANGED <<apiVars, pc, rcVars, staleReads, inst, hs, nic, hostsLeft, cloud>>

LEMMA ElsewhereSteps ==
  ASSUME \/ CreateIPAM \/ EditIPAM \/ DeleteIPAM \/ DeliverIPAM \/ ProcessRestarts
         \/ UNCHANGED lvars
  PROVE  Elsewhere
BY DEF CreateIPAM, EditIPAM, DeleteIPAM, OnIPAM, DeliverIPAM, ProcessRestarts, Elsewhere,
   lvars, lifeVars, vars, cycleVars, boundVars

LEMMA OutsideMoves ==
  ASSUME LTypes, OutsideStep
  PROVE  /\ UNCHANGED lifeVars
         /\ UNCHANGED <<pc, loading, nsList, nnList, used, todo, toSync, failed>>
<1>1. OutsideTypeOK
  BY DEF LTypes, LTypeOK, OutsideTypeOK
<1>2. UNCHANGED cycleVars
  BY <1>1, UserType, SDNType, InformerType, WorkerType DEF OutsideStep
<1> QED
  BY <1>2 DEF OutsideStep, cycleVars, rcVars

\* The way through Reconcile: places that follow one another.
Onward ==
  \/ pc = "load" /\ pc' = "assign" /\ ~inst.deleting /\ loading = {}
  \/ pc = "assign" /\ pc' = "netns"
  \/ pc = "netns" /\ pc' = "nodes"
  \/ StartRemovals
  \/ pc = "rm_ns" /\ pc' = "rm_nn"
  \/ pc = "rm_nn" /\ pc' = "rm_hs"
  \/ pc = "rm_hs" /\ pc' \in {"rm_nic", "finalizer"}
  \/ pc = "rm_nic" /\ pc' = "finalizer"

LEMMA PcMoves ==
  ASSUME LTypes, [LNext]_lvars
  PROVE  \/ pc' = "idle"
         \/ StartInitialize \/ StartLoad
         \/ inst' = inst /\ (pc' = pc \/ Onward)
<1>1. CASE \/ CreateIPAM \/ EditIPAM \/ DeleteIPAM \/ DeliverIPAM \/ ProcessRestarts
           \/ UNCHANGED lvars
  BY <1>1, ElsewhereSteps DEF Elsewhere
<1>2. CASE OutsideStep
  BY <1>2, OutsideMoves DEF lifeVars
<1>3. CASE AssignmentStep
  <2>1. \/ pc' = "idle" \/ pc' = pc
        \/ pc = "load" /\ pc' = "assign" /\ ~inst.deleting /\ loading = {}
        \/ pc = "assign" /\ pc' = "netns"
        \/ pc = "netns" /\ pc' = "nodes"
    BY <1>3 DEF AssignmentStep, ListNamespaces, ListNetNamespaces, OtherError, SortFails,
       SortIPsByCIDR, CloudSilent, Sorted, AtSort, AssignIPs, AssignFails,
       SyncNetNamespace, Exhausted, AssignDone, SyncDone, SyncFailed, FinishCycle, EndCycle
  <2>2. pc' # "idle" => inst' = inst
    BY <1>3 DEF AssignmentStep
  <2> QED
    BY <2>1, <2>2 DEF Onward
<1>4. CASE ProcessEnds \/ Dismiss \/ Initialize \/ RemoveFinalizer
  BY <1>4 DEF ProcessEnds, Crash, SortPanics, Stop, Dismiss, Initialize,
     RemoveFinalizer, Dequeue, EndCycle, cycleVars
<1>5. ASSUME NEW h \in Hosts,
             PlaceIPs(h) \/ EmptyHostSubnet(h) \/ FreeInterface(h) \/ FreeInterfaceFails(h)
      PROVE  UNCHANGED <<pc, inst>>
  BY <1>5 DEF PlaceIPs, EmptyHostSubnet, FreeInterface, FreeInterfaceFails, HostAnswered,
     Removing, cycleVars
<1>6. ASSUME NEW n \in Names, RemoveAnnotation(n) \/ EmptyNetNamespace(n)
      PROVE  UNCHANGED <<pc, inst>>
  BY <1>6 DEF RemoveAnnotation, EmptyNetNamespace, Removing
<1>7. CASE \/ AnnotationsRemoved \/ NetNamespacesEmptied \/ HostSubnetsEmptied
           \/ InterfacesFreed
  BY <1>7 DEF AnnotationsRemoved, NetNamespacesEmptied, HostSubnetsEmptied,
     InterfacesFreed, NextRemoval, EndCycle, Onward
<1>8. CASE StartRemovals
  BY <1>8 DEF StartRemovals, Removing, Onward
<1>9. CASE StartInitialize \/ StartLoad
  BY <1>9
<1> QED
  BY <1>1, <1>2, <1>3, <1>4, <1>5, <1>6, <1>7, <1>8, <1>9 DEF LNext, ReconcileStep

\* Without the process, the worker stays where it is.
LEMMA DownMoves ==
  ASSUME LTypes, [LNext]_lvars, ~up
  PROVE  UNCHANGED <<pc, ipamCache, up>> \/ ProcessRestarts
<1>1. CASE \/ CreateIPAM \/ EditIPAM \/ DeleteIPAM \/ UNCHANGED lvars
  BY <1>1 DEF CreateIPAM, EditIPAM, DeleteIPAM, OnIPAM, lvars, lifeVars, vars, cycleVars
<1>2. CASE OutsideStep
  <2>1. up' = up
    BY <1>2 DEF OutsideStep, UserStep, CreateNamespace, DeleteNamespace, OptIn, OptOut,
       ByUser, SDNStep, CreateNetNamespace, DeleteNetNamespace, BySDN, DeliverNamespace,
       DeliverNetNamespace, NamespaceStep, GetNamespace, GetNetNamespace, CleanNetNamespace,
       CleanNetNamespaceFails, NothingToClean, CleanNamespace, CleanNamespaceFails, OnWorker
  <2> QED
    BY <1>2, <2>1, OutsideMoves DEF lifeVars
<1>3. ~DeliverIPAM /\ ~ProcessEnds
  BY DEF DeliverIPAM, ProcessEnds, Crash, SortPanics, Stop
<1>4. ~ReconcileStep
  BY DEF ReconcileStep, Dismiss, StartInitialize, Initialize, StartLoad, InReconcile,
     AssignmentStep, ListNamespaces, ListNetNamespaces, OtherError, SortFails, SortIPsByCIDR,
     CloudSilent, Sorted, AssignIPs, AssignFails, SyncNetNamespace, Exhausted, AssignDone,
     SyncDone, SyncFailed, FinishCycle, InCycle, PlaceIPs, StartRemovals, Removing,
     RemoveAnnotation, EmptyNetNamespace, AnnotationsRemoved, NetNamespacesEmptied,
     EmptyHostSubnet, FreeInterface, FreeInterfaceFails, HostAnswered, HostSubnetsEmptied,
     InterfacesFreed, NextRemoval, RemoveFinalizer
<1> QED
  BY <1>1, <1>2, <1>3, <1>4 DEF LNext

\* The finalizer is given up.
Released ==
  pc = "finalizer" /\ inst.rv = ipam.rv /\ pc' = "idle" /\ UNCHANGED <<nn, ns, hs, nic>>

\* A write of the EgressIPAM: a new version, which keeps the finalizer, but
\* for the one that gives it up.
IPAMWrite(new) ==
  /\ PutIPAM(new)
  /\ new.rv = ipam.rv + 1
  /\ UNCHANGED <<ipamCache, up>>
  /\ Protected => (new.exists /\ new.finalizer) \/ Released

LEMMA IPAMMoves ==
  ASSUME LTypes, Initializing, [LNext]_lvars
  PROVE  \/ UNCHANGED <<ipam, ipamCache, ipamEvents, up>>
         \/ \E new \in IPAMs : IPAMWrite(new)
         \/ DeliverIPAM \/ ProcessEnds \/ ProcessRestarts
<1>0. ipam \in IPAMs /\ ipam.rv + 1 \in Nat /\ inst \in IPAMs
  BY DEF LTypes, LTypeOK, LifeTypeOK, IPAMs
<1>1. CASE CreateIPAM
  <2> DEFINE new == [NoIPAM(ipam.rv + 1) EXCEPT !.exists = TRUE, !.valid = TRUE]
  <2>1. new \in IPAMs /\ new.rv = ipam.rv + 1
    BY <1>0 DEF NoIPAM, IPAMs
  <2>2. PutIPAM(new) /\ UNCHANGED <<ipamCache, up>> /\ ~Protected
    BY <1>1 DEF CreateIPAM, OnIPAM, Protected, vars
  <2> QED
    BY <2>1, <2>2 DEF IPAMWrite
<1>2. CASE EditIPAM
  <2> DEFINE new == [ipam EXCEPT !.valid = ~@, !.rv = @ + 1]
  <2>1. new \in IPAMs
    BY <1>0, IPAMType
  <2>2. new.rv = ipam.rv + 1 /\ new.exists = ipam.exists /\ new.finalizer = ipam.finalizer
    BY <1>0 DEF IPAMs
  <2>3. PutIPAM(new) /\ UNCHANGED <<ipamCache, up>>
    BY <1>2 DEF EditIPAM, OnIPAM, vars
  <2> QED
    BY <2>1, <2>2, <2>3 DEF IPAMWrite, Protected
<1>3. CASE DeleteIPAM
  <2> DEFINE obj == [ipam EXCEPT !.deleting = TRUE]
  <2>1. obj \in IPAMs
    BY <1>0, IPAMType
  <2>2. obj.rv = ipam.rv /\ obj.exists = ipam.exists /\ obj.finalizer = ipam.finalizer
    BY <1>0 DEF IPAMs
  <2>3. PutIPAM(StoredIPAM(obj)) /\ UNCHANGED <<ipamCache, up>>
    BY <1>3 DEF DeleteIPAM, OnIPAM, vars
  <2>4. StoredIPAM(obj) \in IPAMs /\ StoredIPAM(obj).rv = ipam.rv + 1
    BY <2>1, <2>2, StoredIPAMType
  <2>5. Protected => StoredIPAM(obj).exists /\ StoredIPAM(obj).finalizer
    BY <2>1, <2>2, StoredIPAMType DEF Protected
  <2> QED
    BY <2>3, <2>4, <2>5 DEF IPAMWrite
<1>4. CASE Initialize
  <2>1. UpdateIPAM(inst) \/ RefusedIPAM(inst) \/ FaultyIPAM(inst)
    BY <1>4 DEF Initialize
  <2>2. UNCHANGED <<ipamCache, up>>
    BY <1>4 DEF Initialize, InReconcile, InCycle
  <2>3. CASE UNCHANGED <<ipam, ipamEvents>>
    BY <2>2, <2>3
  <2>4. CASE Accepts(ipam, inst) /\ PutIPAM(StoredIPAM(inst))
    <3>1. inst.rv = ipam.rv /\ inst.exists
      BY <2>4 DEF Accepts
    <3>2. inst.finalizer
      BY <1>4 DEF Initialize, Initializing
    <3>3. /\ StoredIPAM(inst) \in IPAMs /\ StoredIPAM(inst).rv = ipam.rv + 1
          /\ StoredIPAM(inst).exists /\ StoredIPAM(inst).finalizer
      BY <1>0, <3>1, <3>2, StoredIPAMType
    <3> QED
      BY <2>2, <2>4, <3>3 DEF IPAMWrite
  <2> QED
    BY <2>1, <2>3, <2>4, WriteIPAM DEF LTypes, LTypeOK
<1>5. CASE RemoveFinalizer
  <2> DEFINE obj == [inst EXCEPT !.finalizer = FALSE]
  <2>1. UpdateIPAM(obj) \/ RefusedIPAM(obj) \/ FaultyIPAM(obj)
    BY <1>5 DEF RemoveFinalizer
  <2>2. UNCHANGED <<ipamCache, up>>
    BY <1>5 DEF RemoveFinalizer, InReconcile, InCycle
  <2>3. obj \in IPAMs /\ obj.rv = inst.rv
    BY <1>0, IPAMType DEF IPAMs
  <2>4. CASE UNCHANGED <<ipam, ipamEvents>>
    BY <2>2, <2>4
  <2>5. CASE Accepts(ipam, obj) /\ PutIPAM(StoredIPAM(obj))
    <3>1. obj.rv = ipam.rv
      BY <2>5 DEF Accepts
    <3>2. StoredIPAM(obj) \in IPAMs /\ StoredIPAM(obj).rv = ipam.rv + 1
      BY <2>3, <3>1, StoredIPAMType
    <3>3. Released
      BY <1>5, <2>3, <3>1 DEF Released, RemoveFinalizer, EndCycle, InReconcile, apiVars
    <3> QED
      BY <2>2, <2>5, <3>2, <3>3 DEF IPAMWrite
  <2> QED
    BY <2>1, <2>4, <2>5, WriteIPAM DEF LTypes, LTypeOK
<1>6. CASE OutsideStep \/ UNCHANGED lvars
  <2>1. up' = up
    BY <1>6 DEF OutsideStep, UserStep, CreateNamespace, DeleteNamespace, OptIn, OptOut,
       ByUser, SDNStep, CreateNetNamespace, DeleteNetNamespace, BySDN, DeliverNamespace,
       DeliverNetNamespace, NamespaceStep, GetNamespace, GetNetNamespace, CleanNetNamespace,
       CleanNetNamespaceFails, NothingToClean, CleanNamespace, CleanNamespaceFails, OnWorker,
       lvars, vars
  <2> QED
    BY <1>6, <2>1 DEF OutsideStep, lvars, lifeVars
<1>7. CASE ReconcileStep /\ ~Initialize /\ ~RemoveFinalizer
  BY <1>7 DEF ReconcileStep, Dismiss, StartInitialize, StartLoad, InReconcile,
     AssignmentStep, ListNamespaces, ListNetNamespaces, OtherError, SortFails, SortIPsByCIDR,
     CloudSilent, Sorted, AssignIPs, AssignFails, SyncNetNamespace, Exhausted, AssignDone,
     SyncDone, SyncFailed, FinishCycle, InCycle, PlaceIPs, StartRemovals, Removing,
     RemoveAnnotation, EmptyNetNamespace, AnnotationsRemoved, NetNamespacesEmptied,
     EmptyHostSubnet, FreeInterface, FreeInterfaceFails, HostAnswered, HostSubnetsEmptied,
     InterfacesFreed, NextRemoval
<1> QED
  BY <1>1, <1>2, <1>3, <1>4, <1>5, <1>6, <1>7 DEF LNext

-----------------------------------------------------------------------------
(* The versions of the EgressIPAM                                          *)

LEMMA InitializingStep ==
  ASSUME LTypes, Initializing, [LNext]_lvars
  PROVE  Initializing'
<1>1. CASE StartInitialize
  <2>1. inst' = [ipamCache EXCEPT !.finalizer = TRUE] /\ ipamCache \in IPAMs
    BY <1>1 DEF StartInitialize, LTypes, LTypeOK, LifeTypeOK
  <2> QED
    BY <2>1 DEF IPAMs, Initializing
<1>2. CASE StartLoad
  BY <1>2 DEF StartLoad, Initializing
<1> QED
  BY <1>1, <1>2, PcMoves DEF Initializing, Onward, StartRemovals

\* The event of a write is the last one.
LEMMA PutIPAMAppends ==
  ASSUME LTypes, NEW new \in IPAMs, PutIPAM(new), new # ipam
  PROVE  /\ ipam' = new
         /\ ~up => ipamEvents' = ipamEvents
         /\ up => /\ Len(ipamEvents') = Len(ipamEvents) + 1
                  /\ DOMAIN ipamEvents' = DOMAIN ipamEvents \cup {Len(ipamEvents) + 1}
                  /\ ipamEvents'[Len(ipamEvents) + 1].new = new
                  /\ \A i \in DOMAIN ipamEvents : ipamEvents'[i] = ipamEvents[i]
<1>1. ipamEvents \in Seq(IPAMEvents)
  BY DEF LTypes, LTypeOK, LifeTypeOK, IPAMEvents
<1>2. CASE up
  <2> DEFINE e == [old |-> ipam, new |-> new]
  <2>1. ipamEvents' = Append(ipamEvents, e)
    BY <1>2 DEF PutIPAM
  <2>2. /\ Len(ipamEvents') = Len(ipamEvents) + 1
        /\ ipamEvents'[Len(ipamEvents) + 1] = e
        /\ \A i \in DOMAIN ipamEvents : ipamEvents'[i] = ipamEvents[i]
    BY <1>1, <2>1
  <2>3. Len(ipamEvents) \in Nat /\ DOMAIN ipamEvents = 1..Len(ipamEvents)
    BY <1>1
  <2>4. DOMAIN ipamEvents' = 1..(Len(ipamEvents) + 1)
    BY <1>1, <2>1
  <2>5. DOMAIN ipamEvents' = DOMAIN ipamEvents \cup {Len(ipamEvents) + 1}
    BY <2>3, <2>4
  <2> QED
    BY <1>2, <2>2, <2>5 DEF PutIPAM
<1>3. CASE ~up
  BY <1>3 DEF PutIPAM
<1> QED
  BY <1>2, <1>3

\* A delivery takes the first event away.
LEMMA IPAMDelivery ==
  ASSUME LTypes, DeliverIPAM
  PROVE  /\ up /\ UNCHANGED <<up, ipam, inst, pc>> /\ ipamEvents # << >>
         /\ 1 \in DOMAIN ipamEvents /\ ipamCache' = ipamEvents[1].new
         /\ Len(ipamEvents') = Len(ipamEvents) - 1
         /\ 1 = Len(ipamEvents) => ipamEvents' = << >>
         /\ \A i \in DOMAIN ipamEvents' :
              i \in Nat /\ i + 1 \in DOMAIN ipamEvents /\ ipamEvents'[i] = ipamEvents[i + 1]
<1>1. ipamEvents \in Seq(IPAMEvents) /\ ipamEvents # << >> /\ ipamEvents' = Tail(ipamEvents)
  BY DEF LTypes, LTypeOK, LifeTypeOK, IPAMEvents, DeliverIPAM
<1>2. Head(ipamEvents) = ipamEvents[1] /\ 1 \in DOMAIN ipamEvents
  BY <1>1
<1>3. /\ Len(ipamEvents') = Len(ipamEvents) - 1
      /\ 1 = Len(ipamEvents) => ipamEvents' = << >>
      /\ \A i \in DOMAIN ipamEvents' :
           i \in Nat /\ i + 1 \in DOMAIN ipamEvents /\ ipamEvents'[i] = ipamEvents[i + 1]
  BY <1>1
<1> QED
  BY <1>1, <1>2, <1>3 DEF DeliverIPAM, cycleVars

\* A new version is above all copies.
LEMMA VersionsStep ==
  ASSUME LTypes, Initializing, IPAMVersions, [LNext]_lvars
  PROVE  IPAMVersions'
<1>0. /\ ipam \in IPAMs /\ ipam.rv \in Nat /\ ipamCache.rv \in Nat
      /\ ipamEvents \in Seq(IPAMEvents) /\ Len(ipamEvents) \in Nat
  BY DEF LTypes, LTypeOK, LifeTypeOK, IPAMs, IPAMEvents
<1>1. CASE UNCHANGED <<ipam, ipamCache, ipamEvents, up>>
  <2>1. ~up => pc' = pc
    BY <1>1, DownMoves DEF ProcessRestarts
  <2> QED
    BY <1>1, <2>1 DEF IPAMVersions
<1>2. ASSUME NEW new \in IPAMs, IPAMWrite(new)
      PROVE  IPAMVersions'
  <2>1. PutIPAM(new) /\ new.rv = ipam.rv + 1 /\ UNCHANGED <<ipamCache, up>> /\ new # ipam
    BY <1>0, <1>2 DEF IPAMWrite
  <2>2. CASE up
    <3> DEFINE l == Len(ipamEvents) + 1
    <3>1. /\ ipam' = new /\ Len(ipamEvents') = l
          /\ DOMAIN ipamEvents' = DOMAIN ipamEvents \cup {l} /\ ipamEvents'[l].new = new
          /\ \A i \in DOMAIN ipamEvents : ipamEvents'[i] = ipamEvents[i]
      BY <2>1, <2>2, PutIPAMAppends
    <3>2. ipamCache'.rv <= ipam'.rv /\ ipamCache'.rv # ipam'.rv
      BY <1>0, <2>1, <2>2, <3>1 DEF IPAMVersions
    <3>3. ASSUME NEW i \in DOMAIN ipamEvents'
          PROVE  /\ ipamEvents'[i].new.rv <= ipam'.rv
                 /\ ipamEvents'[i].new.rv = ipam'.rv
                      => ipamEvents'[i].new = ipam' /\ i = Len(ipamEvents')
      <4>1. CASE i = l
        BY <1>0, <2>1, <3>1, <4>1
      <4>2. CASE i \in DOMAIN ipamEvents
        <5>1. ipamEvents[i] \in IPAMEvents
          BY <1>0, <4>2
        <5>2. ipamEvents[i].new.rv \in Nat
          BY <5>1 DEF IPAMEvents, IPAMs
        <5>3. ipamEvents[i].new.rv <= ipam.rv
          BY <4>2 DEF IPAMVersions
        <5> QED
          BY <1>0, <2>1, <3>1, <4>2, <5>2, <5>3
      <4> QED
        BY <3>1, <4>1, <4>2
    <3> QED
      BY <2>1, <2>2, <3>2, <3>3 DEF IPAMVersions
  <2>3. CASE ~up
    <3>1. ipam' = new /\ ipamEvents' = << >> /\ up' = up /\ pc = "idle" /\ ipamCache' = NoIPAM(0)
      BY <2>1, <2>3, PutIPAMAppends DEF IPAMVersions
    <3>2. pc' = pc
      BY <2>3, <3>1, DownMoves DEF ProcessRestarts
    <3> QED
      BY <2>3, <3>1, <3>2 DEF IPAMVersions
  <2> QED
    BY <2>2, <2>3
<1>3. CASE DeliverIPAM
  <2>1. ipamCache'.rv <= ipam.rv
    BY <1>3, IPAMDelivery DEF IPAMVersions
  <2>2. ipamCache'.rv = ipam.rv => ipamCache' = ipam /\ ipamEvents' = << >>
    BY <1>3, IPAMDelivery DEF IPAMVersions
  <2>3. ASSUME NEW i \in DOMAIN ipamEvents'
        PROVE  /\ ipamEvents'[i].new.rv <= ipam.rv
               /\ ipamEvents'[i].new.rv = ipam.rv
                    => ipamEvents'[i].new = ipam /\ i = Len(ipamEvents')
    <3>1. /\ i \in Nat /\ i + 1 \in DOMAIN ipamEvents /\ ipamEvents'[i] = ipamEvents[i + 1]
          /\ Len(ipamEvents') = Len(ipamEvents) - 1
      BY <1>3, <2>3, IPAMDelivery
    <3> QED
      BY <1>0, <3>1 DEF IPAMVersions
  <2>4. up' /\ ipam' = ipam
    BY <1>3, IPAMDelivery
  <2> QED
    BY <2>1, <2>2, <2>3, <2>4 DEF IPAMVersions
<1>4. CASE ProcessEnds
  BY <1>4 DEF ProcessEnds, Crash, SortPanics, Stop, IPAMVersions
<1>5. CASE ProcessRestarts
  <2>1. up' /\ ipamCache' = ipam /\ UNCHANGED <<ipam, ipamEvents>> /\ ipamEvents = << >>
    BY <1>5 DEF ProcessRestarts, IPAMVersions
  <2> QED
    BY <1>0, <2>1 DEF IPAMVersions
<1> QED
  BY <1>1, <1>2, <1>3, <1>4, <1>5, IPAMMoves

LEMMA InstanceStep ==
  ASSUME LTypes, Initializing, IPAMVersions, InstanceVersion, [LNext]_lvars
  PROVE  InstanceVersion'
<1> SUFFICES ASSUME pc' \notin {"idle", "initialize"}
             PROVE  /\ inst'.rv <= ipam'.rv
                    /\ inst'.rv = ipam'.rv
                         => inst' = ipam' /\ ipamCache' = ipam' /\ ipamEvents' = << >>
  BY DEF InstanceVersion
<1>0. ipam.rv \in Nat /\ inst.rv \in Nat /\ ipamCache.rv \in Nat
  BY DEF LTypes, LTypeOK, LifeTypeOK, IPAMs
<1>1. CASE StartLoad
  <2>1. inst' = ipamCache /\ UNCHANGED <<ipam, ipamCache, ipamEvents>> /\ up
    BY <1>1 DEF StartLoad, InReconcile, InCycle
  <2> QED
    BY <2>1 DEF IPAMVersions
<1>2. CASE inst' = inst /\ (pc' = pc \/ Onward)
  <2>1. pc \notin {"idle", "initialize"}
    BY <1>2 DEF Onward, StartRemovals, AtSort
  <2>2. /\ inst.rv <= ipam.rv
        /\ inst.rv = ipam.rv => inst = ipam /\ ipamCache = ipam /\ ipamEvents = << >>
    BY <2>1 DEF InstanceVersion
  <2>3. CASE UNCHANGED <<ipam, ipamCache, ipamEvents, up>>
    BY <1>2, <2>2, <2>3
  <2>4. ASSUME NEW new \in IPAMs, IPAMWrite(new)
        PROVE  inst'.rv < ipam'.rv
    <3>1. ipam' = new /\ new.rv = ipam.rv + 1
      BY <2>4 DEF IPAMWrite, PutIPAM
    <3> QED
      BY <1>0, <1>2, <2>2, <3>1
  <2>5. CASE DeliverIPAM
    BY <1>2, <2>2, <2>5, IPAMDelivery
  <2>6. ~ProcessEnds
    BY DEF ProcessEnds, Crash, SortPanics, Stop
  <2>7. ~ProcessRestarts
    BY <2>1 DEF ProcessRestarts, IPAMVersions
  <2>8. ipam'.rv \in Nat
    BY LStepType DEF LTypes, LTypeOK, LifeTypeOK, IPAMs
  <2> QED
    BY <1>0, <1>2, <2>3, <2>4, <2>5, <2>6, <2>7, <2>8, IPAMMoves
<1> QED
  BY <1>1, <1>2, PcMoves DEF StartInitialize

\* While the finalizer is not given up, the EgressIPAM stays protected; when
\* it is, all copies show an EgressIPAM that is being deleted.
LEMMA ProtectionEnds ==
  ASSUME LTypes, Initializing, [LNext]_lvars, Protected, ~Protected'
  PROVE  Released /\ \E new \in IPAMs : IPAMWrite(new)
<1>1. ~(UNCHANGED <<ipam, ipamCache, ipamEvents, up>>)
  BY DEF Protected
<1>2. ~DeliverIPAM /\ ~ProcessEnds /\ ~ProcessRestarts
  BY DEF Protected, DeliverIPAM, ProcessEnds, ProcessRestarts
<1>3. PICK new \in IPAMs : IPAMWrite(new)
  BY <1>1, <1>2, IPAMMoves
<1>4. ipam' = new
  BY <1>3 DEF IPAMWrite, PutIPAM
<1> QED
  BY <1>3, <1>4 DEF IPAMWrite, Protected

LEMMA PromisesStep ==
  ASSUME LTypes, Initializing, IPAMVersions, InstanceVersion, Promises, [LNext]_lvars
  PROVE  Promises'
<1>1. Protected' \/ ~Protected \/ Released
  BY ProtectionEnds
<1>2. CASE Released /\ ~Protected' /\ Protected
  <2>1. PICK new \in IPAMs : IPAMWrite(new)
    BY <1>2, ProtectionEnds
  <2>2. inst = ipam /\ ipamCache = ipam /\ ipamEvents = << >> /\ inst.deleting /\ pc' = "idle"
    BY <1>2 DEF Released, InstanceVersion, Promises
  <2>3. ipamCache' = ipamCache /\ ipam' = new /\ new # ipam /\ PutIPAM(new)
    BY <2>1 DEF IPAMWrite, PutIPAM, LTypes, LTypeOK, LifeTypeOK, IPAMs
  <2>4. up
    BY <2>2, <1>2 DEF Released, IPAMVersions
  <2>5. \A i \in DOMAIN ipamEvents' : ipamEvents'[i].new = new
    BY <2>2, <2>3, <2>4, PutIPAMAppends
  <2> QED
    BY <2>2, <2>3, <2>5 DEF Promises, Promise, Protected
<1>3. CASE Protected => Protected'
  <2>1. Promise(ipamCache)' /\ \A i \in DOMAIN ipamEvents' : Promise(ipamEvents[i].new)'
    <3>1. CASE UNCHANGED <<ipam, ipamCache, ipamEvents, up>>
      BY <3>1 DEF Promises, Promise, Protected
    <3>2. ASSUME NEW new \in IPAMs, IPAMWrite(new)
          PROVE  Promise(ipamCache)' /\ \A i \in DOMAIN ipamEvents' : Promise(ipamEvents[i].new)'
      <4>1. ipamCache' = ipamCache /\ ipam' = new /\ new # ipam /\ PutIPAM(new)
        BY <3>2 DEF IPAMWrite, PutIPAM, LTypes, LTypeOK, LifeTypeOK, IPAMs
      <4>2. Promise(ipamCache)'
        BY <1>3, <4>1 DEF Promises, Promise
      <4>3. ASSUME NEW i \in DOMAIN ipamEvents'
            PROVE  Promise(ipamEvents[i].new)'
        <5>1. \/ ipamEvents'[i].new = ipam'
              \/ i \in DOMAIN ipamEvents /\ ipamEvents'[i] = ipamEvents[i]
          BY <4>1, PutIPAMAppends
        <5> QED
          BY <1>3, <5>1 DEF Promises, Promise, Protected
      <4> QED
        BY <4>2, <4>3
    <3>3. CASE DeliverIPAM
      <4>1. /\ 1 \in DOMAIN ipamEvents /\ ipamCache' = ipamEvents[1].new
            /\ \A i \in DOMAIN ipamEvents' :
                 i + 1 \in DOMAIN ipamEvents /\ ipamEvents'[i] = ipamEvents[i + 1]
        BY <3>3, IPAMDelivery
      <4> QED
        BY <1>3, <4>1 DEF Promises, Promise
    <3>4. CASE ProcessEnds
      BY <3>4 DEF ProcessEnds, Promise, NoIPAM
    <3>5. CASE ProcessRestarts
      BY <3>5 DEF ProcessRestarts, IPAMVersions, Promise, Protected
    <3> QED
      BY <3>1, <3>2, <3>3, <3>4, <3>5, IPAMMoves
  <2>2. CASE pc' = "idle" \/ StartInitialize
    BY <2>1, <2>2 DEF Promises, StartInitialize
  <2>3. CASE StartLoad
    <3>1. /\ inst' = ipamCache /\ ipamCache.exists /\ ipamCache.finalizer /\ pc' = "load"
      BY <2>3 DEF StartLoad, Initialized
    <3> QED
      BY <1>3, <2>1, <3>1 DEF Promises, Promise
  <2>4. CASE inst' = inst /\ pc' = pc
    BY <1>3, <2>1, <2>4 DEF Promises
  <2>5. CASE inst' = inst /\ Onward
    BY <1>3, <2>1, <2>5 DEF Promises, Onward, StartRemovals
  <2> QED
    BY <2>2, <2>3, <2>4, <2>5, PcMoves
<1> QED
  BY <1>1, <1>2, <1>3

-----------------------------------------------------------------------------
(* The namespaces that stay                                                *)

\* The steps of Reconcile that write no namespace.
LEMMA ReconcileKeepsNs ==
  ASSUME ReconcileStep,
         ~(\E n \in Names : AssignIPs(n) \/ AssignFails(n) \/ RemoveAnnotation(n))
  PROVE  UNCHANGED <<ns, nsEvents>>
BY DEF ReconcileStep, Dismiss, StartInitialize, Initialize, StartLoad, InReconcile,
   AssignmentStep, ListNamespaces, ListNetNamespaces, OtherError, SortFails, SortIPsByCIDR,
   CloudSilent, Sorted, SyncNetNamespace, Exhausted, AssignDone,
   SyncDone, SyncFailed, FinishCycle, PlaceIPs, StartRemovals,
   EmptyNetNamespace, AnnotationsRemoved, NetNamespacesEmptied,
   EmptyHostSubnet, FreeInterface, FreeInterfaceFails, HostAnswered, HostSubnetsEmptied,
   InterfacesFreed, NextRemoval, RemoveFinalizer, apiVars

LEMMA ReconcileKeepsCaches ==
  ASSUME ReconcileStep
  PROVE  up /\ UNCHANGED <<nsCache, nnCache, nsQueue, up, wpc, wname, wns, wnn>>
BY DEF ReconcileStep, Dismiss, StartInitialize, Initialize, StartLoad, InReconcile,
   AssignmentStep, ListNamespaces, ListNetNamespaces, OtherError, SortFails, SortIPsByCIDR,
   CloudSilent, Sorted, AssignIPs, AssignFails, SyncNetNamespace, Exhausted, AssignDone,
   SyncDone, SyncFailed, FinishCycle, InCycle, PlaceIPs, StartRemovals, Removing,
   RemoveAnnotation, EmptyNetNamespace, AnnotationsRemoved, NetNamespacesEmptied,
   EmptyHostSubnet, FreeInterface, FreeInterfaceFails, HostAnswered, HostSubnetsEmptied,
   InterfacesFreed, NextRemoval, RemoveFinalizer, cacheVars, workerVars

\* What an update does to a namespace.
LEMMA NsUpdate ==
  ASSUME APITypeOK, NEW m \in Names, NEW obj \in Namespaces,
         UpdateNs(m, obj) \/ RefusedNs(m, obj) \/ FaultyNs(m, obj), NEW n \in Names
  PROVE  \/ ns'[n] = ns[n]
         \/ n = m /\ ns'[n].ips = obj.ips /\ ns'[n].ref = obj.ref /\ ns'[n].exists = obj.exists
<1>1. ns'[n] = ns[n] \/ (n = m /\ ns'[n] = Stored(ns[m], obj))
  BY DEF APITypeOK, UpdateNs, RefusedNs, FaultyNs, PutNs
<1>2. ns[m] \in Namespaces
  BY DEF APITypeOK
<1> QED
  BY <1>1, <1>2, StoredIsSent

\* A namespace that stays keeps its reference; it gets IPs only from a cycle
\* that hands them out, and loses them only to the clean-up.
StayerFate(n) ==
  /\ Refers(ns'[n])
  /\ \/ ns'[n].ips = ns[n].ips
     \/ pc = "assign"
     \/ pc = "rm_ns" /\ ns'[n].ips = NoIPs

LEMMA StayerFates ==
  ASSUME LTypes, StayersStay, [LNext]_lvars, NEW n \in Stayers
  PROVE  StayerFate(n)
<1>0. /\ n \in Names /\ n \notin Leavers /\ Refers(ns[n]) /\ ns \in [Names -> Namespaces]
      /\ APITypeOK /\ nsList \in [Names -> Namespaces]
  BY DEF Stayers, StayersStay, LTypes, LTypeOK, APITypeOK, LCycleTypeOK
<1>1. CASE ns' = ns
  BY <1>0, <1>1 DEF StayerFate
<1>2. CASE UserStep
  <2>1. PICK m \in Names : \/ CreateNamespace(m) \/ DeleteNamespace(m)
                           \/ OptIn(m) \/ OptOut(m)
    BY <1>2 DEF UserStep
  <2>2. m # n /\ \E new : PutNs(m, new)
    BY <1>0, <2>1 DEF CreateNamespace, DeleteNamespace, OptIn, OptOut, Refers
  <2>3. ns'[n] = ns[n]
    BY <1>0, <2>2 DEF PutNs
  <2> QED
    BY <1>0, <2>3 DEF StayerFate
<1>3. CASE CleanNamespace \/ CleanNamespaceFails
  <2>1. wname # n
    BY <1>3 DEF CleanNamespace, CleanNamespaceFails, StayersStay
  <2>2. ns'[n] = ns[n]
    BY <1>0, <1>3, <2>1 DEF CleanNamespace, CleanNamespaceFails, UpdateNs, RefusedNs,
       FaultyNs, PutNs
  <2> QED
    BY <1>0, <2>2 DEF StayerFate
<1>4. ASSUME NEW m \in Names, AssignIPs(m) \/ AssignFails(m)
      PROVE  StayerFate(n)
  <2>1. pc = "assign" /\ Available
    BY <1>4 DEF AssignIPs, AssignFails
  <2>2. WithIPs(m) \in Namespaces
    BY <2>1, InAssignment, WithIPsType DEF LTypes
  <2>3. WithIPs(m).ref = nsList[m].ref /\ WithIPs(m).exists = nsList[m].exists
    BY <1>0 DEF WithIPs, Namespaces
  <2>4. Refers(nsList[n])
    BY <2>1 DEF StayersStay, NsListed
  <2>5. \/ ns'[n] = ns[n]
        \/ n = m /\ ns'[n].ref = WithIPs(m).ref /\ ns'[n].exists = WithIPs(m).exists
    BY <1>0, <1>4, <2>2, NsUpdate DEF AssignIPs, AssignFails
  <2> QED
    BY <1>0, <2>1, <2>3, <2>4, <2>5 DEF StayerFate, Refers
<1>5. ASSUME NEW m \in Names, RemoveAnnotation(m)
      PROVE  StayerFate(n)
  <2> DEFINE obj == [nsList[m] EXCEPT !.ips = NoIPs]
  <2>1. obj \in Namespaces
    BY <1>0, NoIPsType, WithAnnotation
  <2>2. obj.ips = NoIPs /\ obj.ref = nsList[m].ref /\ obj.exists = nsList[m].exists
    BY <1>0 DEF Namespaces
  <2>3. Refers(nsList[n]) /\ pc = "rm_ns"
    BY <1>5 DEF RemoveAnnotation, StayersStay, NsListed
  <2>4. \/ ns'[n] = ns[n]
        \/ n = m /\ ns'[n].ips = obj.ips /\ ns'[n].ref = obj.ref /\ ns'[n].exists = obj.exists
    BY <1>0, <1>5, <2>1, NsUpdate DEF RemoveAnnotation
  <2> QED
    BY <1>0, <2>2, <2>3, <2>4 DEF StayerFate, Refers
<1>6. CASE \/ CreateIPAM \/ EditIPAM \/ DeleteIPAM \/ DeliverIPAM \/ ProcessRestarts
           \/ UNCHANGED lvars
  BY <1>1, <1>6, ElsewhereSteps DEF Elsewhere, apiVars
<1>7. CASE ProcessEnds
  BY <1>1, <1>7 DEF ProcessEnds, Crash, SortPanics, Stop, apiVars
<1>8. CASE SDNStep \/ DeliverNamespace \/ DeliverNetNamespace
  BY <1>1, <1>8 DEF SDNStep, CreateNetNamespace, DeleteNetNamespace, BySDN,
     DeliverNamespace, DeliverNetNamespace, apiVars
<1>9. CASE NamespaceStep /\ ~CleanNamespace /\ ~CleanNamespaceFails
  BY <1>1, <1>9 DEF NamespaceStep, GetNamespace, GetNetNamespace, CleanNetNamespace,
     CleanNetNamespaceFails, NothingToClean, apiVars
<1>10. CASE ReconcileStep
            /\ ~(\E m \in Names : AssignIPs(m) \/ AssignFails(m) \/ RemoveAnnotation(m))
  BY <1>1, <1>10, ReconcileKeepsNs
<1> QED
  BY <1>2, <1>3, <1>4, <1>5, <1>6, <1>7, <1>8, <1>9, <1>10 DEF LNext, OutsideStep

\* What a step may do to the namespaces and to what the informer has.
LEMMA LNsMoves ==
  ASSUME LTypes, [LNext]_lvars
  PROVE  \/ UNCHANGED <<ns, nsCache, nsEvents, up>>
         \/ /\ \E n \in Names : \E new : PutNs(n, new)
            /\ UNCHANGED <<nsCache, up>>
         \/ DeliverNamespace \/ Stop
         \/ nsCache' = ns /\ ~up /\ UNCHANGED <<ns, nsEvents>>
<1>1. CASE UserStep
  BY <1>1 DEF UserStep, CreateNamespace, DeleteNamespace, OptIn, OptOut, ByUser, cacheVars
<1>2. CASE SDNStep \/ DeliverNetNamespace \/ UNCHANGED lvars
  BY <1>2 DEF SDNStep, CreateNetNamespace, DeleteNetNamespace, BySDN, DeliverNetNamespace,
     lvars, vars, apiVars, cacheVars
<1>3. CASE ProcessEnds
  BY <1>3 DEF ProcessEnds, Crash, SortPanics
<1>4. ASSUME NEW n \in Names, AssignIPs(n) \/ AssignFails(n) \/ RemoveAnnotation(n)
      PROVE  UNCHANGED <<ns, nsEvents>> \/ \E new : PutNs(n, new)
  BY <1>4 DEF AssignIPs, AssignFails, RemoveAnnotation, UpdateNs, RefusedNs, FaultyNs
<1>5. CASE ReconcileStep
  BY <1>4, <1>5, ReconcileKeepsNs, ReconcileKeepsCaches
<1>6. CASE CleanNamespace \/ CleanNamespaceFails
  <2>1. UNCHANGED <<ns, nsEvents>> \/ \E new : PutNs(wname, new)
    BY <1>6 DEF CleanNamespace, CleanNamespaceFails, UpdateNs, RefusedNs, FaultyNs
  <2>2. UNCHANGED <<nsCache, up>>
    BY <1>6 DEF CleanNamespace, CleanNamespaceFails, OnWorker, cacheVars
  <2>3. wname \in Names
    BY <1>6 DEF CleanNamespace, CleanNamespaceFails, LTypes, LTypeOK, WorkerTypeOK
  <2> QED
    BY <2>1, <2>2, <2>3
<1>7. CASE NamespaceStep /\ ~(CleanNamespace \/ CleanNamespaceFails)
  BY <1>7 DEF NamespaceStep, GetNamespace, GetNetNamespace, NothingToClean,
     CleanNetNamespace, CleanNetNamespaceFails, OnWorker, apiVars, cacheVars
<1>8. CASE CreateIPAM \/ EditIPAM \/ DeleteIPAM \/ DeliverIPAM
  BY <1>8 DEF CreateIPAM, EditIPAM, DeleteIPAM, OnIPAM, DeliverIPAM, vars, apiVars, cacheVars
<1>9. CASE ProcessRestarts
  BY <1>9 DEF ProcessRestarts, apiVars
<1>10. CASE DeliverNamespace
  BY <1>10
<1> QED
  BY <1>1, <1>2, <1>3, <1>5, <1>6, <1>7, <1>8, <1>9, <1>10 DEF LNext, OutsideStep

\* A list that is yet to be used: it was there before, or it is new, or the
\* worker has put IPs in it.
LEMMA ListMoves ==
  ASSUME LTypes, [LNext]_lvars, NsListed'
  PROVE  \/ NsListed /\ nsList' = nsList
         \/ ListNamespaces
         \/ \E m \in Names : AssignIPs(m)
<1>1. CASE \/ CreateIPAM \/ EditIPAM \/ DeleteIPAM \/ DeliverIPAM \/ ProcessRestarts
           \/ UNCHANGED lvars
  BY <1>1, ElsewhereSteps DEF Elsewhere, NsListed, rcVars
<1>2. CASE OutsideStep
  BY <1>2, OutsideMoves DEF NsListed
<1>3. CASE AssignmentStep
  BY <1>3 DEF AssignmentStep, ListNetNamespaces, OtherError, SortFails,
     SortIPsByCIDR, CloudSilent, Sorted, AtSort, AssignFails,
     SyncNetNamespace, Exhausted, AssignDone, SyncDone, SyncFailed, FinishCycle, EndCycle,
     NsListed
<1>4. CASE ProcessEnds \/ Dismiss \/ StartInitialize \/ Initialize \/ RemoveFinalizer \/ StartLoad
  BY <1>4 DEF ProcessEnds, Crash, SortPanics, Stop, Dismiss, StartInitialize, Initialize,
     RemoveFinalizer, StartLoad, Dequeue, EndCycle, cycleVars, NsListed
<1>5. ASSUME NEW h \in Hosts,
             PlaceIPs(h) \/ EmptyHostSubnet(h) \/ FreeInterface(h) \/ FreeInterfaceFails(h)
      PROVE  UNCHANGED <<pc, loading, nsList>>
  BY <1>5 DEF PlaceIPs, EmptyHostSubnet, FreeInterface, FreeInterfaceFails, HostAnswered,
     Removing, cycleVars, rcVars
<1>6. ASSUME NEW n \in Names, RemoveAnnotation(n) \/ EmptyNetNamespace(n)
      PROVE  UNCHANGED <<pc, loading, nsList>>
  BY <1>6 DEF RemoveAnnotation, EmptyNetNamespace
<1>7. CASE \/ AnnotationsRemoved \/ NetNamespacesEmptied \/ HostSubnetsEmptied
           \/ InterfacesFreed
  BY <1>7 DEF AnnotationsRemoved, NetNamespacesEmptied, HostSubnetsEmptied,
     InterfacesFreed, NextRemoval, EndCycle, NsListed
<1>8. CASE StartRemovals
  BY <1>8 DEF StartRemovals, AtSort, NsListed
<1> QED
  BY <1>1, <1>2, <1>3, <1>4, <1>5, <1>6, <1>7, <1>8 DEF LNext, ReconcileStep, NsListed

\* What the Namespace controller works on comes from an opt-out.
LEMMA NsQueueMoves ==
  ASSUME LTypes, [LNext]_lvars
  PROVE  \/ /\ nsQueue' \subseteq nsQueue \cup (IF wpc # "idle" THEN {wname} ELSE {})
            /\ wpc' # "idle" => wname' \in nsQueue \/ (wpc # "idle" /\ wname' = wname)
         \/ DeliverNamespace
<1>1. CASE ReconcileStep
  BY <1>1, ReconcileKeepsCaches
<1>2. CASE NamespaceStep
  BY <1>2 DEF NamespaceStep, GetNamespace, GetNetNamespace, CleanNetNamespace,
     CleanNetNamespaceFails, NothingToClean, CleanNamespace, CleanNamespaceFails,
     EndCleanUp, NoCleanUp, Retry
<1>3. CASE UserStep \/ SDNStep \/ DeliverNetNamespace
  BY <1>3 DEF UserStep, CreateNamespace, DeleteNamespace, OptIn, OptOut, ByUser, SDNStep,
     CreateNetNamespace, DeleteNetNamespace, BySDN, DeliverNetNamespace, workerVars
<1>4. CASE ProcessEnds
  BY <1>4 DEF ProcessEnds, Crash, SortPanics, Stop
<1>5. CASE \/ CreateIPAM \/ EditIPAM \/ DeleteIPAM \/ DeliverIPAM \/ ProcessRestarts
           \/ UNCHANGED lvars
  BY <1>5 DEF CreateIPAM, EditIPAM, DeleteIPAM, OnIPAM, DeliverIPAM, ProcessRestarts,
     lvars, vars, workerVars
<1> QED
  BY <1>1, <1>2, <1>3, <1>4, <1>5 DEF LNext, OutsideStep

LEMMA StayersStep ==
  ASSUME LTypes, StayersStay, [LNext]_lvars
  PROVE  StayersStay'
<1>0. APITypeOK /\ InformerTypeOK /\ Stayers \subseteq Names
  BY DEF LTypes, LTypeOK, Stayers
<1>1. \A n \in Stayers : Refers(ns'[n])
  BY StayerFates DEF StayerFate
<1>2. /\ up' => \A n \in Stayers : Refers(nsCache'[n])
      /\ \A i \in DOMAIN nsEvents' : nsEvents'[i].name \in Stayers => Refers(nsEvents'[i].new)
  <2>1. CASE UNCHANGED <<ns, nsCache, nsEvents, up>>
    BY <2>1 DEF StayersStay
  <2>2. ASSUME NEW n \in Names, NEW new, PutNs(n, new), UNCHANGED <<nsCache, up>>
        PROVE  /\ up' => \A m \in Stayers : Refers(nsCache'[m])
               /\ \A i \in DOMAIN nsEvents' :
                    nsEvents'[i].name \in Stayers => Refers(nsEvents'[i].new)
    <3>1. ASSUME NEW i \in DOMAIN nsEvents', nsEvents'[i].name \in Stayers
          PROVE  Refers(nsEvents'[i].new)
      <4>1. \/ i \in DOMAIN nsEvents /\ nsEvents'[i] = nsEvents[i]
            \/ nsEvents'[i] = Event(n, ns[n], new) /\ ns'[n] = new
        BY <1>0, <2>2, <3>1, PutAppends
      <4>2. CASE i \in DOMAIN nsEvents /\ nsEvents'[i] = nsEvents[i]
        BY <3>1, <4>2 DEF StayersStay
      <4>3. CASE nsEvents'[i] = Event(n, ns[n], new) /\ ns'[n] = new
        BY <1>1, <3>1, <4>3 DEF Event
      <4> QED
        BY <4>1, <4>2, <4>3
    <3> QED
      BY <2>2, <3>1 DEF StayersStay
  <2>3. CASE DeliverNamespace
    <3>1. /\ up /\ 1 \in DOMAIN nsEvents /\ nsEvents[1].name \in Names
          /\ nsCache' = [nsCache EXCEPT ![nsEvents[1].name] = nsEvents[1].new]
          /\ \A i \in DOMAIN nsEvents' :
               i + 1 \in DOMAIN nsEvents /\ nsEvents'[i] = nsEvents[i + 1]
      BY <1>0, <2>3, DeliveryShifts, EventTypes
    <3>2. \A n \in Stayers : Refers(nsCache'[n])
      BY <1>0, <3>1 DEF StayersStay, InformerTypeOK
    <3> QED
      BY <3>1, <3>2 DEF StayersStay
  <2>4. CASE Stop
    BY <2>4 DEF Stop
  <2>5. CASE nsCache' = ns /\ ~up /\ UNCHANGED <<ns, nsEvents>>
    BY <2>5 DEF StayersStay
  <2> QED
    BY <2>1, <2>2, <2>3, <2>4, <2>5, LNsMoves
<1>3. NsListed' => \A n \in Stayers : Refers(nsList'[n])
  <2> SUFFICES ASSUME NsListed', NEW n \in Stayers PROVE Refers(nsList'[n])
    OBVIOUS
  <2>1. CASE NsListed /\ nsList' = nsList
    BY <2>1 DEF StayersStay
  <2>2. CASE ListNamespaces
    BY <2>2 DEF ListNamespaces, InCycle, StayersStay
  <2>3. ASSUME NEW m \in Names, AssignIPs(m)
        PROVE  Refers(nsList'[n])
    <3>1. /\ nsList' = [nsList EXCEPT ![m] = WithIPs(m)] /\ nsList \in [Names -> Namespaces]
          /\ NsListed /\ n \in Names
      BY <1>0, <2>3 DEF AssignIPs, NsListed, LTypes, LTypeOK, LCycleTypeOK
    <3>2. WithIPs(m).ref = nsList[m].ref /\ WithIPs(m).exists = nsList[m].exists
      BY <3>1 DEF WithIPs, Namespaces
    <3> QED
      BY <3>1, <3>2 DEF StayersStay, Refers
  <2> QED
    BY <2>1, <2>2, <2>3, ListMoves
<1>4. nsQueue' \cap Stayers = {} /\ (wpc' # "idle" => wname' \notin Stayers)
  <2>1. CASE DeliverNamespace
    <3>1. /\ 1 \in DOMAIN nsEvents /\ Head(nsEvents) = nsEvents[1]
          /\ UNCHANGED <<wpc, wname>>
      BY <1>0, <2>1 DEF DeliverNamespace, InformerTypeOK, workerVars
    <3>2. nsQueue' = IF EnqueueForCleanUp(nsEvents[1].old, nsEvents[1].new)
                     THEN nsQueue \cup {nsEvents[1].name} ELSE nsQueue
      BY <2>1, <3>1 DEF DeliverNamespace
    <3>3. EnqueueForCleanUp(nsEvents[1].old, nsEvents[1].new) => nsEvents[1].name \notin Stayers
      BY <3>1 DEF EnqueueForCleanUp, StayersStay, Refers
    <3> QED
      BY <3>1, <3>2, <3>3 DEF StayersStay
  <2>2. CASE ~DeliverNamespace
    BY <2>2, NsQueueMoves DEF StayersStay
  <2> QED
    BY <2>1, <2>2
<1> QED
  BY <1>1, <1>2, <1>3, <1>4 DEF StayersStay

-----------------------------------------------------------------------------
(* The removals                                                            *)

\* What an update does to a NetNamespace.
LEMMA NetUpdate ==
  ASSUME APITypeOK, NEW m \in Names, NEW obj \in NetNamespaces,
         UpdateNet(m, obj) \/ RefusedNet(m, obj) \/ FaultyNet(m, obj), NEW n \in Names
  PROVE  /\ nn'[n].ips = nn[n].ips \/ (n = m /\ nn'[n].ips = obj.ips)
         /\ UpdateNet(m, obj) => nn'[m].ips = obj.ips
<1>1. nn'[n] = nn[n] \/ (n = m /\ nn'[n] = Stored(nn[m], obj))
  BY DEF APITypeOK, UpdateNet, RefusedNet, FaultyNet, PutNet
<1>2. UpdateNet(m, obj) => nn'[m] = Stored(nn[m], obj)
  BY DEF APITypeOK, UpdateNet, PutNet
<1>3. nn[m] \in NetNamespaces
  BY DEF APITypeOK
<1> QED
  BY <1>1, <1>2, <1>3, StoredIsSent

\* NetNamespaces get IPs from a cycle that hands them out and nowhere else.
LEMMA NetFates ==
  ASSUME LTypes, [LNext]_lvars, NEW n \in Names
  PROVE  nn'[n].ips \in {nn[n].ips, NoIPs} \/ pc = "netns"
<1>0. nn \in [Names -> NetNamespaces] /\ APITypeOK /\ nnList \in [Names -> NetNamespaces]
  BY DEF LTypes, LTypeOK, APITypeOK, LCycleTypeOK
<1>1. CASE nn' = nn
  BY <1>1
<1>2. CASE SDNStep
  <2>1. PICK m \in Names : CreateNetNamespace(m) \/ DeleteNetNamespace(m)
    BY <1>2 DEF SDNStep
  <2> QED
    BY <1>0, <2>1 DEF CreateNetNamespace, DeleteNetNamespace, PutNet, NetGone
<1>3. CASE CleanNetNamespace \/ CleanNetNamespaceFails
  <2> DEFINE obj == [wnn EXCEPT !.ips = NoIPs]
  <2>1. wname \in Names /\ obj \in NetNamespaces /\ obj.ips = NoIPs
    BY <1>3, NoIPsType, WithEgressIPs
       DEF CleanNetNamespace, CleanNetNamespaceFails, LTypes, LTypeOK, WorkerTypeOK,
           NetNamespaces
  <2>2. UpdateNet(wname, obj) \/ RefusedNet(wname, obj) \/ FaultyNet(wname, obj)
    BY <1>3 DEF CleanNetNamespace, CleanNetNamespaceFails
  <2>3. nn'[n].ips = nn[n].ips \/ nn'[n].ips = obj.ips
    BY <1>0, <2>1, <2>2, NetUpdate
  <2> QED
    BY <2>1, <2>3
<1>4. ASSUME NEW m \in Names, EmptyNetNamespace(m)
      PROVE  nn'[n].ips \in {nn[n].ips, NoIPs}
  <2> DEFINE obj == [nnList[m] EXCEPT !.ips = NoIPs]
  <2>1. obj \in NetNamespaces /\ obj.ips = NoIPs
    BY <1>0, NoIPsType, WithEgressIPs DEF NetNamespaces
  <2>2. UpdateNet(m, obj) \/ RefusedNet(m, obj) \/ FaultyNet(m, obj)
    BY <1>4 DEF EmptyNetNamespace
  <2> HIDE DEF obj
  <2>3. nn'[n].ips = nn[n].ips \/ nn'[n].ips = obj.ips
    BY <1>0, <2>1, <2>2, NetUpdate
  <2> QED
    BY <2>1, <2>3
<1>5. CASE \/ CreateIPAM \/ EditIPAM \/ DeleteIPAM \/ DeliverIPAM \/ ProcessRestarts
           \/ UNCHANGED lvars
  BY <1>1, <1>5, ElsewhereSteps DEF Elsewhere, apiVars
<1>6. CASE ProcessEnds
  BY <1>1, <1>6 DEF ProcessEnds, Crash, SortPanics, Stop, apiVars
<1>7. CASE UserStep \/ DeliverNamespace \/ DeliverNetNamespace
  BY <1>1, <1>7 DEF UserStep, CreateNamespace, DeleteNamespace, OptIn, OptOut, ByUser,
     DeliverNamespace, DeliverNetNamespace, apiVars
<1>8. CASE NamespaceStep /\ ~CleanNetNamespace /\ ~CleanNetNamespaceFails
  BY <1>1, <1>8 DEF NamespaceStep, GetNamespace, GetNetNamespace, CleanNamespace,
     CleanNamespaceFails, NothingToClean, apiVars
<1>9. CASE ReconcileStep /\ ~(\E m \in Names : EmptyNetNamespace(m)) /\ pc # "netns"
  <2>1. nn' = nn
    BY <1>9 DEF ReconcileStep, Dismiss, StartInitialize, Initialize, StartLoad, InReconcile,
       AssignmentStep, ListNamespaces, ListNetNamespaces, OtherError, SortFails,
       SortIPsByCIDR, CloudSilent, Sorted, AssignIPs, AssignFails, SyncNetNamespace,
       Exhausted, AssignDone, SyncDone, SyncFailed, FinishCycle, PlaceIPs, StartRemovals,
       RemoveAnnotation, AnnotationsRemoved, NetNamespacesEmptied,
       EmptyHostSubnet, FreeInterface, FreeInterfaceFails, HostAnswered,
       HostSubnetsEmptied, InterfacesFreed, NextRemoval, RemoveFinalizer, apiVars
  <2> QED
    BY <1>1, <2>1
<1> QED
  BY <1>2, <1>3, <1>4, <1>5, <1>6, <1>7, <1>8, <1>9 DEF LNext, OutsideStep

\* Hosts get IPs only at the end of a cycle that hands them out.
LEMMA HostFates ==
  ASSUME LTypes, [LNext]_lvars
  PROVE  /\ (hs' \subseteq hs /\ nic' \subseteq nic) \/ pc = "nodes"
         /\ cloud' = cloud /\ (nic' \subseteq nic \/ cloud)
<1>1. CASE \/ CreateIPAM \/ EditIPAM \/ DeleteIPAM \/ DeliverIPAM \/ ProcessRestarts
           \/ UNCHANGED lvars
  BY <1>1, ElsewhereSteps DEF Elsewhere
<1>2. CASE OutsideStep \/ ProcessEnds
  BY <1>2 DEF OutsideStep, ProcessEnds, lifeVars
<1>3. ASSUME NEW h \in Hosts, PlaceIPs(h)
      PROVE  pc = "nodes" /\ cloud' = cloud /\ (nic' = nic \/ cloud)
  BY <1>3 DEF PlaceIPs, InReconcile
<1>4. ASSUME NEW h \in Hosts, EmptyHostSubnet(h) \/ FreeInterface(h) \/ FreeInterfaceFails(h)
      PROVE  hs' \subseteq hs /\ nic' \subseteq nic /\ cloud' = cloud
  BY <1>4 DEF EmptyHostSubnet, FreeInterface, FreeInterfaceFails, HostAnswered, Removing
<1>5. CASE ReconcileStep
           /\ ~(\E h \in Hosts : \/ PlaceIPs(h) \/ EmptyHostSubnet(h)
                                 \/ FreeInterface(h) \/ FreeInterfaceFails(h))
  BY <1>5 DEF ReconcileStep, Dismiss, StartInitialize, Initialize, StartLoad, InReconcile,
     AssignmentStep, StartRemovals, Removing,
     RemoveAnnotation, EmptyNetNamespace, AnnotationsRemoved, NetNamespacesEmptied,
     HostSubnetsEmptied, InterfacesFreed, NextRemoval, RemoveFinalizer
<1> QED
  BY <1>1, <1>2, <1>3, <1>4, <1>5 DEF LNext

LEMMA HandedOutStep ==
  ASSUME LTypes, Initializing, Promises, CleanUp, HandedOutIsProtected, [LNext]_lvars
  PROVE  HandedOutIsProtected'
<1> SUFFICES ASSUME ~Protected'
             PROVE  hs' = {} /\ nic' = {} /\ \A n \in Stayers : nn'[n].ips = NoIPs
  BY DEF HandedOutIsProtected
<1>1. CASE Protected
  <2>1. pc = "finalizer" /\ UNCHANGED <<nn, hs, nic>>
    BY <1>1, ProtectionEnds DEF Released
  <2> QED
    BY <2>1 DEF CleanUp
<1>2. CASE ~Protected
  <2>1. hs = {} /\ nic = {} /\ \A n \in Stayers : nn[n].ips = NoIPs
    BY <1>2 DEF HandedOutIsProtected
  <2>2. pc \notin {"netns", "nodes"}
    BY <1>2 DEF Promises
  <2>3. hs' = {} /\ nic' = {}
    BY <2>1, <2>2, HostFates
  <2>4. \A n \in Stayers : nn'[n].ips = NoIPs
    BY <2>1, <2>2, NetFates DEF Stayers
  <2> QED
    BY <2>3, <2>4
<1> QED
  BY <1>1, <1>2

LEMMA CleanUpStep ==
  ASSUME LTypes, StayersStay, CleanUp, [LNext]_lvars
  PROVE  CleanUp'
<1>0. /\ \A n \in Stayers : pc # "netns" /\ nn[n].ips = NoIPs => nn'[n].ips = NoIPs
      /\ Stayers \subseteq Names /\ hs \subseteq Hosts /\ nic \subseteq Hosts
  BY NetFates DEF Stayers, LTypes, LTypeOK, LifeTypeOK
<1>1. nic' # {} => cloud'
  BY HostFates DEF CleanUp
<1>2. CASE \/ CreateIPAM \/ EditIPAM \/ DeleteIPAM \/ DeliverIPAM \/ ProcessRestarts
           \/ UNCHANGED lvars
  BY <1>0, <1>1, <1>2, ElsewhereSteps DEF Elsewhere, rcVars, CleanUp
<1>3. CASE OutsideStep
  BY <1>0, <1>1, <1>3, OutsideMoves DEF lifeVars, CleanUp
<1>4. CASE pc' \in {"idle", "initialize", "load", "assign", "netns", "nodes", "rm_ns"}
  BY <1>1, <1>4 DEF CleanUp
<1>5. CASE AnnotationsRemoved
  <2>1. ~failed => pc' = "rm_nn" /\ toSync' = Referring
    BY <1>5 DEF AnnotationsRemoved, NextRemoval, NetNamespacesToEmpty
  <2>2. failed => pc' = "idle"
    BY <1>5 DEF AnnotationsRemoved, NextRemoval, EndCycle
  <2>3. Stayers \subseteq Referring
    BY <1>0, <1>5 DEF AnnotationsRemoved, Referring, StayersStay, NsListed, Refers
  <2> QED
    BY <1>1, <1>4, <2>1, <2>2, <2>3 DEF CleanUp
<1>6. ASSUME NEW m \in Names, EmptyNetNamespace(m)
      PROVE  CleanUp'
  <2> DEFINE obj == [nnList[m] EXCEPT !.ips = NoIPs]
  <2>1. obj \in NetNamespaces /\ obj.ips = NoIPs /\ APITypeOK
    BY NoIPsType, WithEgressIPs DEF NetNamespaces, LTypes, LTypeOK, LCycleTypeOK
  <2>2. /\ pc = "rm_nn" /\ pc' = "rm_nn" /\ toSync' = toSync \ {m}
        /\ (UpdateNet(m, obj) /\ failed' = failed) \/ failed' = TRUE
    BY <1>6 DEF EmptyNetNamespace
  <2>3. UpdateNet(m, obj) => nn'[m].ips = NoIPs
    BY <2>1, NetUpdate
  <2>4. ~failed' => \A n \in Stayers : n \in toSync' \/ nn'[n].ips = NoIPs
    BY <1>0, <2>2, <2>3 DEF CleanUp
  <2> QED
    BY <1>1, <2>2, <2>4 DEF CleanUp
<1>7. CASE NetNamespacesEmptied
  <2>1. failed => pc' = "idle"
    BY <1>7 DEF NetNamespacesEmptied, NextRemoval, EndCycle
  <2>2. CASE ~failed
    <3>1. /\ pc = "rm_nn" /\ pc' = "rm_hs" /\ toSync = {} /\ hostsLeft' = Hosts
          /\ UNCHANGED <<hs, nic>>
      BY <1>7, <2>2 DEF NetNamespacesEmptied, NextRemoval
    <3>2. \A n \in Stayers : nn'[n].ips = NoIPs
      BY <1>0, <2>2, <3>1 DEF CleanUp
    <3> QED
      BY <1>0, <1>1, <3>1, <3>2 DEF CleanUp
  <2> QED
    BY <1>4, <2>1, <2>2
<1>8. ASSUME NEW h \in Hosts, EmptyHostSubnet(h)
      PROVE  CleanUp'
  <2>1. /\ pc = "rm_hs" /\ pc' = "rm_hs" /\ hostsLeft' = hostsLeft \ {h}
        /\ (hs' = hs \ {h} /\ failed' = failed) \/ failed' = TRUE
    BY <1>8 DEF EmptyHostSubnet, HostAnswered
  <2> QED
    BY <1>0, <1>1, <2>1 DEF CleanUp
<1>9. CASE HostSubnetsEmptied
  <2>1. failed => pc' = "idle"
    BY <1>9 DEF HostSubnetsEmptied, NextRemoval, EndCycle
  <2>2. CASE ~failed
    <3>1. /\ pc = "rm_hs" /\ hostsLeft = {} /\ UNCHANGED <<hs, nic>>
          /\ pc' = IF cloud THEN "rm_nic" ELSE "finalizer"
          /\ cloud => hostsLeft' = Hosts
      BY <1>9, <2>2 DEF HostSubnetsEmptied, NextRemoval
    <3>2. hs = {} /\ (~cloud => nic = {})
      BY <2>2, <3>1 DEF CleanUp
    <3> QED
      BY <1>0, <1>1, <3>1, <3>2 DEF CleanUp
  <2> QED
    BY <1>4, <2>1, <2>2
<1>10. ASSUME NEW h \in Hosts, FreeInterface(h) \/ FreeInterfaceFails(h)
       PROVE  CleanUp'
  <2>1. /\ pc = "rm_nic" /\ pc' = "rm_nic" /\ hostsLeft' = hostsLeft \ {h} /\ hs' = hs
        /\ (nic' = nic \ {h} /\ failed' = failed) \/ failed' = TRUE
    BY <1>10 DEF FreeInterface, FreeInterfaceFails, HostAnswered
  <2> QED
    BY <1>0, <1>1, <2>1 DEF CleanUp
<1>11. CASE InterfacesFreed
  <2>1. failed => pc' = "idle"
    BY <1>11 DEF InterfacesFreed, NextRemoval, EndCycle
  <2>2. CASE ~failed
    <3>1. pc = "rm_nic" /\ hostsLeft = {} /\ pc' = "finalizer" /\ UNCHANGED <<hs, nic>>
      BY <1>11, <2>2 DEF InterfacesFreed, NextRemoval
    <3> QED
      BY <1>0, <1>1, <2>2, <3>1 DEF CleanUp
  <2> QED
    BY <1>4, <2>1, <2>2
<1>12. CASE ProcessEnds \/ Dismiss \/ StartInitialize \/ Initialize \/ StartLoad \/ RemoveFinalizer
            \/ StartRemovals
  <2>1. pc' \in {"idle", "initialize", "load", "rm_ns"}
    BY <1>12 DEF ProcessEnds, Crash, SortPanics, Stop, Dismiss, StartInitialize, Initialize,
       StartLoad, RemoveFinalizer, StartRemovals, Dequeue, EndCycle, cycleVars
  <2> QED
    BY <1>4, <2>1
<1>13. CASE AssignmentStep
  <2>1. pc' \in {"idle", "load", "assign", "netns", "nodes"}
    BY <1>13, InAssignment, AssignmentIsCycle, CycleType DEF LTypes, TypeOK, CycleTypeOK
  <2> QED
    BY <1>4, <2>1
<1>14. ASSUME NEW h \in Hosts, PlaceIPs(h)
       PROVE  CleanUp'
  <2>1. pc' = "nodes"
    BY <1>14 DEF PlaceIPs, cycleVars
  <2> QED
    BY <1>4, <2>1
<1>15. ASSUME NEW n \in Names, RemoveAnnotation(n)
       PROVE  CleanUp'
  <2>1. pc' = "rm_ns"
    BY <1>15 DEF RemoveAnnotation
  <2> QED
    BY <1>4, <2>1
<1> QED
  BY <1>2, <1>3, <1>5, <1>6, <1>7, <1>8, <1>9, <1>10, <1>11, <1>12, <1>13, <1>14, <1>15
     DEF LNext, ReconcileStep

-----------------------------------------------------------------------------

ProtectedInv ==
  /\ LTypes /\ Initializing
  /\ IPAMVersions /\ InstanceVersion /\ Promises
  /\ StayersStay /\ CleanUp /\ HandedOutIsProtected

LEMMA ProtectedStep == ProtectedInv /\ [LNext]_lvars => ProtectedInv'
BY LStepType, InitializingStep, VersionsStep, InstanceStep, PromisesStep, StayersStep,
   CleanUpStep, HandedOutStep DEF ProtectedInv

LEMMA ProtectedInit == LInit => ProtectedInv
<1> SUFFICES ASSUME LInit PROVE ProtectedInv
  OBVIOUS
<1>1. LTypes
  BY LInitType
<1>2. Initializing /\ InstanceVersion
  BY DEF LInit, Initializing, InstanceVersion
<1>3. IPAMVersions
  <2>1. ipam = NoIPAM(0) /\ ipamCache = ipam /\ ipamEvents = << >> /\ up
    BY DEF LInit
  <2>2. NoIPAM(0).rv <= NoIPAM(0).rv
    BY DEF NoIPAM
  <2> QED
    BY <2>1, <2>2 DEF IPAMVersions
<1>4. Promises
  BY DEF LInit, Promises, Promise, NoIPAM
<1>5. StayersStay
  BY DEF LInit, StayersStay, NsListed, Refers, Stayers
<1>6. CleanUp /\ HandedOutIsProtected
  BY DEF LInit, CleanUp, HandedOutIsProtected, Stayers
<1> QED
  BY <1>1, <1>2, <1>3, <1>4, <1>5, <1>6 DEF ProtectedInv

\* The finalizer protects what was handed out (manageCleanUpLogic): for any
\* constants, and whatever caches were read, calls failed or crashes came in
\* between, a HostSubnet, an interface or the NetNamespace of a namespace
\* that stays carries egress IPs only while the EgressIPAM that can take them
\* back exists and has its finalizer.
THEOREM HandedOutStaysProtected == LSpec => []HandedOutIsProtected
<1>1. ProtectedInv => HandedOutIsProtected
  BY DEF ProtectedInv
<1> QED
  BY ProtectedInit, ProtectedStep, <1>1, PTL DEF LSpec

-----------------------------------------------------------------------------
(* The annotations, as long as no read was stale                           *)

LEMMA StaleGrows ==
  ASSUME LTypes, [LNext]_lvars
  PROVE  staleReads' \in {staleReads, staleReads + 1}
<1>1. CASE \/ CreateIPAM \/ EditIPAM \/ DeleteIPAM \/ DeliverIPAM \/ ProcessRestarts
           \/ UNCHANGED lvars
  BY <1>1, ElsewhereSteps DEF Elsewhere
<1>2. CASE OutsideStep
  BY <1>2 DEF OutsideStep, UserStep, CreateNamespace, DeleteNamespace, OptIn, OptOut,
     ByUser, SDNStep, CreateNetNamespace, DeleteNetNamespace, BySDN, DeliverNamespace,
     DeliverNetNamespace, NamespaceStep, GetNamespace, GetNetNamespace, CleanNetNamespace,
     CleanNetNamespaceFails, NothingToClean, CleanNamespace, CleanNamespaceFails, Read,
     boundVars
<1>3. CASE ProcessEnds
  BY <1>3 DEF ProcessEnds, Crash, SortPanics, boundVars
<1>4. CASE ReconcileStep
  BY <1>4 DEF ReconcileStep, Dismiss, StartInitialize, Initialize, StartLoad, Dequeue, Read,
     AssignmentStep, ListNamespaces, ListNetNamespaces, OtherError, SortFails, SortIPsByCIDR,
     CloudSilent, Sorted, AssignIPs, AssignFails, SyncNetNamespace, Exhausted, AssignDone,
     SyncDone, SyncFailed, FinishCycle, PlaceIPs, StartRemovals, Removing,
     RemoveAnnotation, EmptyNetNamespace, AnnotationsRemoved, NetNamespacesEmptied,
     EmptyHostSubnet, FreeInterface, FreeInterfaceFails, HostAnswered, HostSubnetsEmptied,
     InterfacesFreed, NextRemoval, RemoveFinalizer
<1> QED
  BY <1>1, <1>2, <1>3, <1>4 DEF LNext

LEMMA NeverStale ==
  ASSUME LTypes, [LNext]_lvars, staleReads' = 0
  PROVE  staleReads = 0
BY StaleGrows DEF LTypes, LTypeOK, BoundsTypeOK

LEMMA LFollowsStep ==
  ASSUME LTypes, Follows, [LNext]_lvars
  PROVE  Follows'
BY LNsMoves, FollowsMoves DEF LTypes, LTypeOK

\* The list shows the annotations as they are until they are removed.
LEMMA ListedStep ==
  ASSUME LTypes, StayersStay, Follows, AnnotationsCleaned, [LNext]_lvars, staleReads' = 0,
         pc' = "load", "namespaces" \notin loading', NEW n \in Stayers
  PROVE  nsList'[n].ips = ns'[n].ips
<1>0. staleReads = 0 /\ StayerFate(n)
  BY NeverStale, StayerFates
<1>1. CASE ListNamespaces
  <2>1. nsList' = nsCache /\ UNCHANGED ns /\ Read(nsEvents) /\ up
    BY <1>1 DEF ListNamespaces, InCycle, apiVars
  <2>2. nsEvents = << >>
    BY <1>0, <2>1 DEF Read
  <2> QED
    BY <2>1, <2>2, FreshCache DEF LTypes, LTypeOK
<1>2. CASE ~ListNamespaces
  <2>1. pc = "load"
    BY <1>2, PcMoves DEF StartInitialize, StartLoad, Onward, StartRemovals
  <2>2. NsListed /\ nsList' = nsList
    BY <1>2, <2>1, ListMoves DEF NsListed, AssignIPs
  <2> QED
    BY <1>0, <2>1, <2>2 DEF AnnotationsCleaned, NsListed, StayerFate
<1> QED
  BY <1>1, <1>2

LEMMA CleanedStep ==
  ASSUME LTypes, StayersStay, Follows, AnnotationsCleaned, [LNext]_lvars
  PROVE  AnnotationsCleaned'
<1> SUFFICES ASSUME staleReads' = 0
             PROVE  /\ pc' = "rm_ns" /\ ~failed' =>
                         \A n \in Stayers : n \in todo' \/ ns'[n].ips = NoIPs
                    /\ pc' \in {"rm_nn", "rm_hs", "rm_nic", "finalizer"}
                         => \A n \in Stayers : ns'[n].ips = NoIPs
  BY ListedStep DEF AnnotationsCleaned
<1>0. staleReads = 0 /\ Stayers \subseteq Names
  BY NeverStale DEF Stayers
<1>1. ASSUME NEW n \in Stayers, pc # "assign", ns[n].ips = NoIPs
      PROVE  ns'[n].ips = NoIPs
  BY <1>1, StayerFates DEF StayerFate
<1>2. CASE pc' \in {"idle", "initialize", "load", "assign", "netns", "nodes"}
  BY <1>2
<1>3. CASE pc' = pc /\ UNCHANGED <<todo, failed>>
  BY <1>0, <1>1, <1>3 DEF AnnotationsCleaned
<1>4. CASE StartRemovals
  <2>1. pc = "load" /\ "namespaces" \notin loading /\ pc' = "rm_ns" /\ todo' = Assigned
    BY <1>4 DEF StartRemovals, AtSort
  <2>2. \A n \in Stayers : n \in Assigned \/ ns[n].ips = NoIPs
    BY <1>0, <2>1 DEF AnnotationsCleaned, Assigned, Referring, StayersStay, NsListed, Refers
  <2> QED
    BY <1>1, <2>1, <2>2
<1>5. ASSUME NEW m \in Names, RemoveAnnotation(m)
      PROVE  pc' = "rm_ns" /\ (~failed' => \A n \in Stayers : n \in todo' \/ ns'[n].ips = NoIPs)
  <2> DEFINE obj == [nsList[m] EXCEPT !.ips = NoIPs]
  <2>1. /\ pc = "rm_ns" /\ pc' = "rm_ns" /\ todo' = todo \ {m}
        /\ (UpdateNs(m, obj) /\ failed' = failed) \/ failed' = TRUE
    BY <1>5 DEF RemoveAnnotation
  <2>2. obj \in Namespaces /\ obj.ips = NoIPs /\ APITypeOK
    BY NoIPsType, WithAnnotation DEF Namespaces, LTypes, LTypeOK, LCycleTypeOK
  <2>3. UpdateNs(m, obj) => ns'[m].ips = NoIPs
    <3>1. UpdateNs(m, obj) => ns'[m] = Stored(ns[m], obj) /\ ns[m] \in Namespaces
      BY <2>2 DEF UpdateNs, PutNs, APITypeOK
    <3> HIDE DEF obj
    <3> QED
      BY <2>2, <3>1, StoredIsSent
  <2> QED
    BY <1>0, <1>1, <2>1, <2>3 DEF AnnotationsCleaned
<1>6. CASE AnnotationsRemoved
  <2>1. failed => pc' = "idle"
    BY <1>6 DEF AnnotationsRemoved, NextRemoval, EndCycle
  <2>2. pc = "rm_ns" /\ todo = {} /\ (~failed => pc' = "rm_nn")
    BY <1>6 DEF AnnotationsRemoved, NextRemoval
  <2> QED
    BY <1>0, <1>1, <2>1, <2>2 DEF AnnotationsCleaned
<1>7. CASE NetNamespacesEmptied \/ HostSubnetsEmptied \/ InterfacesFreed
  <2>1. /\ pc \in {"rm_nn", "rm_hs", "rm_nic"}
        /\ pc' \in {"idle", "rm_hs", "rm_nic", "finalizer"}
    BY <1>7 DEF NetNamespacesEmptied, HostSubnetsEmptied, InterfacesFreed, NextRemoval,
       EndCycle
  <2> QED
    BY <1>0, <1>1, <2>1 DEF AnnotationsCleaned
<1>8. ASSUME NEW h \in Hosts,
             PlaceIPs(h) \/ EmptyHostSubnet(h) \/ FreeInterface(h) \/ FreeInterfaceFails(h)
      PROVE  pc' = pc /\ pc \in {"nodes", "rm_hs", "rm_nic"}
  BY <1>8 DEF PlaceIPs, EmptyHostSubnet, FreeInterface, FreeInterfaceFails, HostAnswered,
     cycleVars
<1>9. ASSUME NEW m \in Names, EmptyNetNamespace(m)
      PROVE  pc' = pc /\ pc = "rm_nn"
  BY <1>9 DEF EmptyNetNamespace
<1>10. CASE pc' = pc /\ pc \in {"nodes", "rm_nn", "rm_hs", "rm_nic"}
  BY <1>0, <1>1, <1>10 DEF AnnotationsCleaned
<1>11. CASE \/ CreateIPAM \/ EditIPAM \/ DeleteIPAM \/ DeliverIPAM \/ ProcessRestarts
            \/ UNCHANGED lvars
  BY <1>3, <1>11, ElsewhereSteps DEF Elsewhere, rcVars
<1>12. CASE OutsideStep
  BY <1>3, <1>12, OutsideMoves
<1>13. CASE ProcessEnds \/ Dismiss \/ StartInitialize \/ Initialize \/ StartLoad \/ RemoveFinalizer
  <2>1. pc' \in {"idle", "initialize", "load"}
    BY <1>13 DEF ProcessEnds, Crash, SortPanics, Stop, Dismiss, StartInitialize, Initialize,
       StartLoad, RemoveFinalizer, Dequeue, EndCycle, cycleVars
  <2> QED
    BY <1>2, <2>1
<1>14. CASE AssignmentStep
  <2>1. pc' \in {"idle", "load", "assign", "netns", "nodes"}
    BY <1>14, InAssignment, AssignmentIsCycle, CycleType DEF LTypes, TypeOK, CycleTypeOK
  <2> QED
    BY <1>2, <2>1
<1> QED
  BY <1>4, <1>5, <1>6, <1>7, <1>8, <1>9, <1>10, <1>11, <1>12, <1>13, <1>14
     DEF LNext, ReconcileStep

LEMMA ReleasedStep ==
  ASSUME LTypes, Initializing, Promises, StayersStay, AnnotationsCleaned,
         AnnotationsReleased, [LNext]_lvars
  PROVE  AnnotationsReleased'
<1> SUFFICES ASSUME staleReads' = 0, ~Protected', NEW n \in Stayers
             PROVE  ns'[n].ips = NoIPs
  BY DEF AnnotationsReleased
<1>0. staleReads = 0 /\ StayerFate(n)
  BY NeverStale, StayerFates
<1>1. CASE Protected
  <2>1. pc = "finalizer" /\ UNCHANGED ns
    BY <1>1, ProtectionEnds DEF Released
  <2> QED
    BY <1>0, <2>1 DEF AnnotationsCleaned
<1>2. CASE ~Protected
  <2>1. ns[n].ips = NoIPs /\ pc # "assign"
    BY <1>0, <1>2 DEF AnnotationsReleased, Promises
  <2> QED
    BY <1>0, <2>1 DEF StayerFate
<1> QED
  BY <1>1, <1>2

ReleaseInv == ProtectedInv /\ Follows /\ AnnotationsCleaned /\ AnnotationsReleased

\* "remove assigned IPs from namespaces" (egressipam_controller.go): for any
\* constants, as long as no cycle read a cache that trailed the API server, a
\* namespace that stays has an egressips annotation only while the EgressIPAM
\* exists and has its finalizer.
THEOREM AnnotationsAreReleased == LSpec => []AnnotationsReleased
<1>1. LInit => Follows /\ AnnotationsCleaned /\ AnnotationsReleased
  BY DEF LInit, Follows, AnnotationsCleaned, AnnotationsReleased, Stayers
<1>2. LInit => ReleaseInv
  BY <1>1, ProtectedInit DEF ReleaseInv
<1>3. ReleaseInv /\ [LNext]_lvars => ReleaseInv'
  <2> SUFFICES ASSUME ReleaseInv, [LNext]_lvars PROVE ReleaseInv'
    OBVIOUS
  <2>1. ProtectedInv'
    BY ProtectedStep DEF ReleaseInv
  <2>2. Follows' /\ AnnotationsCleaned' /\ AnnotationsReleased'
    BY LFollowsStep, CleanedStep, ReleasedStep DEF ReleaseInv, ProtectedInv
  <2> QED
    BY <2>1, <2>2 DEF ReleaseInv
<1>4. ReleaseInv => AnnotationsReleased
  BY DEF ReleaseInv
<1> QED
  BY <1>2, <1>3, <1>4, PTL DEF LSpec
=============================================================================
