----------------------------- MODULE Lifecycle -----------------------------
(***************************************************************************)
(* The life of an EgressIPAM object around the assignment of IPs: created, *)
(* validated, protected by a finalizer, edited, deleted, cleaned up after, *)
(* and perhaps created again under the same name.                          *)
(*                                                                         *)
(* The module composes Reconcile (controllers/egressipam) with the steps   *)
(* of NamespaceAssignment: a cycle works for the copy of the EgressIPAM    *)
(* that Get returned from the cache.  A copy that is not being deleted     *)
(* goes through NamespaceAssignment's cycle, a copy that is through        *)
(* manageCleanUpLogic, which empties the annotations, the NetNamespaces,   *)
(* the HostSubnets and the instances' interfaces, one after the other, and *)
(* only then gives up the finalizer.  The Namespace controller, the users  *)
(* of namespaces, the SDN, faults and crashes are NamespaceAssignment's.   *)
(*                                                                         *)
(* Abstractions.  Of the spec of an EgressIPAM only its validity changes.  *)
(* A HostSubnet or an interface has IPs (or CIDRs) of this EgressIPAM or   *)
(* not; which ones is NodePlacement's subject.  The selected nodes do not  *)
(* change.  A HostSubnet update from an old copy is one of the faults, and *)
(* so is a conflict with a status update of ManageError or ManageSuccess.  *)
(***************************************************************************)
EXTENDS NamespaceAssignment

CONSTANTS
  Hosts,       \* the selected nodes
  Clouds,      \* whether the cluster may run on a cloud: a set of Booleans
  MaxIPAMOps   \* bound on the user's operations on the EgressIPAM

ASSUME LifecycleAssumption == Clouds \subseteq BOOLEAN /\ MaxIPAMOps \in Nat

VARIABLES
  ipam,        \* API server: the EgressIPAM
  ipamCache,   \* the informer's copy
  ipamEvents,  \* watch events not yet delivered
  inst,        \* the instance that Reconcile works for
  hs, nic,     \* hosts whose HostSubnet, whose interface has egress IPs
  hostsLeft,   \* hosts whose answer is still awaited
  cloud,       \* isCloudInfrastructure: it does not change
  ipamOps

lifeVars == <<ipam, ipamCache, ipamEvents, inst, hs, nic, hostsLeft, cloud, ipamOps>>
lvars == <<vars, lifeVars>>

-----------------------------------------------------------------------------
(* The EgressIPAM and the API server                                       *)

NoIPAM(rv) == [exists |-> FALSE, valid |-> FALSE, finalizer |-> FALSE,
               deleting |-> FALSE, rv |-> rv]

PutIPAM(new) ==
  /\ ipam' = new
  /\ ipamEvents' = IF up /\ new # ipam THEN Append(ipamEvents, [old |-> ipam, new |-> new])
                                       ELSE ipamEvents

\* An object that is being deleted goes with its last finalizer.
StoredIPAM(obj) == IF obj.deleting /\ ~obj.finalizer
                   THEN NoIPAM(obj.rv + 1) ELSE [obj EXCEPT !.rv = @ + 1]

UpdateIPAM(obj) == Accepts(ipam, obj) /\ PutIPAM(StoredIPAM(obj)) /\ UNCHANGED faults

RefusedIPAM(obj) == ~Accepts(ipam, obj) /\ UNCHANGED <<ipam, ipamEvents, faults>>

FaultyIPAM(obj) ==
  /\ faults < MaxFaults /\ faults' = faults + 1
  /\ \/ UNCHANGED <<ipam, ipamEvents>>
     \/ Accepts(ipam, obj) /\ PutIPAM(StoredIPAM(obj))

-----------------------------------------------------------------------------
(* Users                                                                   *)

OnIPAM ==
  /\ ipamOps < MaxIPAMOps /\ ipamOps' = ipamOps + 1
  /\ UNCHANGED <<vars, ipamCache, inst, hs, nic, hostsLeft, cloud>>

CreateIPAM ==
  /\ ~ipam.exists
  /\ PutIPAM([NoIPAM(ipam.rv + 1) EXCEPT !.exists = TRUE, !.valid = TRUE])
  /\ OnIPAM

\* A CIDR or a reserved IP is broken, or mended.
EditIPAM ==
  /\ ipam.exists
  /\ PutIPAM([ipam EXCEPT !.valid = ~@, !.rv = @ + 1])
  /\ OnIPAM

DeleteIPAM ==
  /\ ipam.exists /\ ~ipam.deleting
  /\ PutIPAM(StoredIPAM([ipam EXCEPT !.deleting = TRUE]))
  /\ OnIPAM

-----------------------------------------------------------------------------
(* The informer                                                            *)

\* Mutant: a change of the finalizers does not trigger a cycle.
EnqueueForIPAM_GenerationOnly(old, new) ==
  old.exists # new.exists \/ old.valid # new.valid \/ old.deleting # new.deleting

\* Mutant: a deletion that waits for the finalizer does not trigger a cycle.
EnqueueForIPAM_SpecOnly(old, new) ==
  old.exists # new.exists \/ old.valid # new.valid \/ old.finalizer # new.finalizer

\* ResourceGenerationOrFinalizerChanged: the generation changes with the
\* spec and with the deletion timestamp; creates and deletes always pass.
EnqueueForIPAM(old, new) ==
  \/ old.exists # new.exists
  \/ old.valid # new.valid \/ old.deleting # new.deleting
  \/ old.finalizer # new.finalizer

DeliverIPAM ==
  /\ up /\ ipamEvents # << >>
  /\ ipamCache' = Head(ipamEvents).new
  /\ ipamEvents' = Tail(ipamEvents)
  /\ queued' = (queued \/ EnqueueForIPAM(Head(ipamEvents).old, Head(ipamEvents).new))
  /\ UNCHANGED <<apiVars, cacheVars, nsEvents, nnEvents, nsQueue, up, cycleVars,
                 workerVars, boundVars, ipam, inst, hs, nic, hostsLeft, cloud, ipamOps>>

-----------------------------------------------------------------------------
(* Reconcile                                                               *)

\* What the steps of Reconcile here leave alone.
InReconcile ==
  InCycle /\ UNCHANGED <<apiVars, nsEvents, nnEvents, ipamCache, cloud, ipamOps>>

Dequeue == pc = "idle" /\ queued /\ Read(ipamEvents)

\* The EgressIPAM is gone, or invalid, which is an error.  The validity is
\* looked at first: nothing is done for an invalid EgressIPAM that is being
\* deleted.
Dismiss ==
  /\ Dequeue
  /\ ~ipamCache.exists \/ ~ipamCache.valid
  /\ queued' = ipamCache.exists
  /\ InReconcile
  /\ UNCHANGED <<cycleVars, faults, ipam, ipamEvents, inst, hs, nic, hostsLeft>>

\* IsInitialized.
Initialized(obj) == obj.finalizer

\* An instance without finalizer gets one.
StartInitialize ==
  /\ Dequeue
  /\ ipamCache.exists /\ ipamCache.valid /\ ~Initialized(ipamCache)
  /\ queued' = FALSE
  /\ pc' = "initialize"
  /\ inst' = [ipamCache EXCEPT !.finalizer = TRUE]
  /\ InReconcile
  /\ UNCHANGED <<rcVars, faults, ipam, ipamEvents, hs, nic, hostsLeft>>

\* The finalizer is saved; the event of the update leads to the next cycle.
Initialize ==
  /\ pc = "initialize"
  /\ \/ UpdateIPAM(inst) /\ EndCycle(FALSE)
     \/ RefusedIPAM(inst) /\ EndCycle(TRUE)
     \/ FaultyIPAM(inst) /\ EndCycle(TRUE)
  /\ inst' = NoIPAM(0)
  /\ InReconcile
  /\ UNCHANGED <<staleReads, hs, nic, hostsLeft>>

\* loadReconcileContext, for the clean-up or for the assignment.
StartLoad ==
  /\ Dequeue
  /\ ipamCache.exists /\ ipamCache.valid /\ Initialized(ipamCache)
  /\ queued' = FALSE
  /\ pc' = "load"
  /\ inst' = ipamCache
  /\ loading' = {"namespaces", "netnamespaces"}
  /\ InReconcile
  /\ UNCHANGED <<nsList, nnList, used, todo, toSync, failed, faults, ipam,
                 ipamEvents, hs, nic, hostsLeft>>

\* The steps of NamespaceAssignment's cycle.  The assignment is not for an
\* instance that is being deleted; a cycle that ends drops its instance.
AssignmentStep ==
  /\ \/ ListNamespaces \/ ListNetNamespaces \/ OtherError
     \/ ~inst.deleting /\ (SortFails \/ SortIPsByCIDR \/ CloudSilent)
     \/ \E n \in Names : AssignIPs(n) \/ AssignFails(n) \/ SyncNetNamespace(n)
     \/ Exhausted \/ AssignDone \/ SyncDone \/ SyncFailed \/ FinishCycle
  /\ inst' = IF pc' = "idle" THEN NoIPAM(0) ELSE inst
  /\ UNCHANGED <<ipam, ipamCache, ipamEvents, hs, nic, hostsLeft, cloud, ipamOps>>

\* The end of the cycle puts IPs on instances, and then in HostSubnets,
\* of some of the hosts; it may be cut short anywhere.
PlaceIPs(h) ==
  /\ pc = "nodes"
  /\ \/ cloud /\ h \notin nic /\ nic' = nic \cup {h} /\ UNCHANGED hs
     \/ (h \in nic \/ ~cloud)
        /\ h \notin hs /\ hs' = hs \cup {h} /\ UNCHANGED nic
  /\ InReconcile
  /\ UNCHANGED <<staleReads, queued, cycleVars, faults, ipam, ipamEvents, inst, hostsLeft>>

-----------------------------------------------------------------------------
(* manageCleanUpLogic: four removals, each done for all its objects in     *)
(* parallel and ended by an error of any of them.                          *)

Removing == InCycle /\ UNCHANGED <<staleReads, ipamCache, inst, cloud, ipamOps>>

\* Mutant: an error does not end the clean-up.
NextRemoval_ErrorsIgnored(next) ==
  /\ next
  /\ UNCHANGED <<queued, loading, nsList, nnList, used, failed, inst>>
  /\ InReconcile
  /\ UNCHANGED <<staleReads, faults, ipam, ipamEvents, hs, nic>>

\* All answers of a removal are in: the next one, unless there was an error.
NextRemoval(next) ==
  /\ IF failed
     THEN EndCycle(TRUE) /\ inst' = NoIPAM(0)
     ELSE /\ next
          /\ UNCHANGED <<queued, loading, nsList, nnList, used, failed, inst>>
  /\ InReconcile
  /\ UNCHANGED <<staleReads, faults, ipam, ipamEvents, hs, nic>>

\* removeNamespaceAssignedIPs, for rc.InitiallyAssignedNamespaces.
StartRemovals ==
  /\ AtSort /\ inst.deleting
  /\ pc' = "rm_ns" /\ todo' = Assigned
  /\ Removing
  /\ UNCHANGED <<apiVars, nsEvents, nnEvents, queued, loading, nsList, nnList, used,
                 toSync, failed, faults, ipam, ipamEvents, hs, nic, hostsLeft>>

RemoveAnnotation(n) ==
  /\ pc = "rm_ns" /\ n \in todo
  /\ LET obj == [nsList[n] EXCEPT !.ips = NoIPs] IN
       \/ UpdateNs(n, obj) /\ UNCHANGED failed
       \/ RefusedNs(n, obj) /\ failed' = TRUE
       \/ FaultyNs(n, obj) /\ failed' = TRUE
  /\ todo' = todo \ {n}
  /\ Removing
  /\ UNCHANGED <<nn, nnEvents, queued, pc, loading, nsList, nnList, used, toSync,
                 ipam, ipamEvents, hs, nic, hostsLeft>>

\* Mutant: the NetNamespaces of the namespaces that had an annotation.
NetNamespacesToEmpty_Assigned == Assigned

\* rc.ReferringNamespaces: also those that an earlier attempt has robbed of
\* their annotation.
NetNamespacesToEmpty == Referring

AnnotationsRemoved ==
  /\ pc = "rm_ns" /\ todo = {}
  /\ NextRemoval(pc' = "rm_nn" /\ toSync' = NetNamespacesToEmpty /\ UNCHANGED todo)
  /\ UNCHANGED hostsLeft

\* removeNetnamespaceAssignedIPs.
EmptyNetNamespace(n) ==
  /\ pc = "rm_nn" /\ n \in toSync
  /\ LET obj == [nnList[n] EXCEPT !.ips = NoIPs] IN
       \/ UpdateNet(n, obj) /\ UNCHANGED failed
       \/ RefusedNet(n, obj) /\ failed' = TRUE
       \/ FaultyNet(n, obj) /\ failed' = TRUE
  /\ toSync' = toSync \ {n}
  /\ Removing
  /\ UNCHANGED <<ns, nsEvents, queued, pc, loading, nsList, nnList, used, todo,
                 ipam, ipamEvents, hs, nic, hostsLeft>>

NetNamespacesEmptied ==
  /\ pc = "rm_nn" /\ toSync = {}
  /\ NextRemoval(pc' = "rm_hs" /\ UNCHANGED <<todo, toSync>>)
  /\ hostsLeft' = IF failed THEN {} ELSE Hosts

\* The answer for host h has come in.
HostAnswered(h) ==
  /\ h \in hostsLeft
  /\ hostsLeft' = hostsLeft \ {h}
  /\ Removing
  /\ UNCHANGED <<apiVars, nsEvents, nnEvents, queued, pc, loading, nsList, nnList, used,
                 todo, toSync, ipam, ipamEvents>>

\* removeHostsubnetAssignedIPsAndCIDRs.
EmptyHostSubnet(h) ==
  /\ pc = "rm_hs"
  /\ HostAnswered(h)
  /\ \/ hs' = hs \ {h} /\ UNCHANGED <<failed, faults>>
     \/ /\ faults < MaxFaults /\ faults' = faults + 1
        /\ failed' = TRUE
        /\ hs' \in {hs, hs \ {h}}
  /\ UNCHANGED nic

HostSubnetsEmptied ==
  /\ pc = "rm_hs" /\ hostsLeft = {}
  /\ NextRemoval(pc' = (IF cloud THEN "rm_nic" ELSE "finalizer") /\ UNCHANGED <<todo, toSync>>)
  /\ hostsLeft' = IF cloud /\ ~failed THEN Hosts ELSE {}

\* RemoveAllAssignedIPs: removeAllAWSAssignedIPs, removeAllAzureSecondaryIPs.
FreeInterface(h) ==
  /\ pc = "rm_nic"
  /\ HostAnswered(h)
  /\ nic' = nic \ {h}
  /\ UNCHANGED <<hs, failed, faults>>

\* AWS takes the IPs off one by one, up to the call that fails; Azure
\* writes the interface once and may answer with an error all the same.
FreeInterfaceFails(h) ==
  /\ pc = "rm_nic"
  /\ HostAnswered(h)
  /\ faults < MaxFaults /\ faults' = faults + 1
  /\ failed' = TRUE
  /\ nic' \in {nic, nic \ {h}}
  /\ UNCHANGED hs

\* Mutant: the answers are not awaited.
InterfacesFreed_NotAwaited ==
  /\ pc = "rm_nic"
  /\ NextRemoval(pc' = "finalizer" /\ UNCHANGED <<todo, toSync>>)
  /\ UNCHANGED hostsLeft

InterfacesFreed ==
  /\ pc = "rm_nic" /\ hostsLeft = {}
  /\ NextRemoval(pc' = "finalizer" /\ UNCHANGED <<todo, toSync>>)
  /\ UNCHANGED hostsLeft

\* RemoveFinalizer and the last update.
RemoveFinalizer ==
  /\ pc = "finalizer"
  /\ LET obj == [inst EXCEPT !.finalizer = FALSE] IN
       \/ UpdateIPAM(obj) /\ EndCycle(FALSE)
       \/ RefusedIPAM(obj) /\ EndCycle(TRUE)
       \/ FaultyIPAM(obj) /\ EndCycle(TRUE)
  /\ inst' = NoIPAM(0)
  /\ InReconcile
  /\ UNCHANGED <<staleReads, hs, nic, hostsLeft>>

ReconcileStep ==
  \/ Dismiss \/ StartInitialize \/ Initialize \/ StartLoad
  \/ AssignmentStep
  \/ \E h \in Hosts : PlaceIPs(h)
  \/ StartRemovals
  \/ \E n \in Names : RemoveAnnotation(n) \/ EmptyNetNamespace(n)
  \/ AnnotationsRemoved \/ NetNamespacesEmptied
  \/ \E h \in Hosts : EmptyHostSubnet(h) \/ FreeInterface(h) \/ FreeInterfaceFails(h)
  \/ HostSubnetsEmptied \/ InterfacesFreed \/ RemoveFinalizer

-----------------------------------------------------------------------------
(* The process                                                             *)

\* A crash, or the panic of NamespaceAssignment's sortIPsByCIDR.
ProcessEnds ==
  /\ Crash \/ (SortPanics /\ ~inst.deleting)
  /\ ipamCache' = NoIPAM(0) /\ ipamEvents' = << >>
  /\ inst' = NoIPAM(0) /\ hostsLeft' = {}
  /\ UNCHANGED <<ipam, hs, nic, cloud, ipamOps>>

\* The caches are listed anew.  The EgressIPAM and the namespaces that refer
\* to it arrive as create events, which enqueue it.
ProcessRestarts ==
  /\ ~up /\ up' = TRUE
  /\ nsCache' = ns /\ nnCache' = nn /\ ipamCache' = ipam
  /\ queued' = (ipam.exists \/ \E n \in Names : ns[n].ref)
  /\ UNCHANGED <<apiVars, nsEvents, nnEvents, nsQueue, cycleVars, workerVars, boundVars,
                 ipam, ipamEvents, inst, hs, nic, hostsLeft, cloud, ipamOps>>

-----------------------------------------------------------------------------

\* A cluster whose namespaces refer to an EgressIPAM that is yet to come.
LInit ==
  /\ ns = [n \in Names |-> [exists |-> TRUE, ref |-> TRUE, ips |-> NoIPs, rv |-> 1]]
  /\ nn = [n \in Names |-> [exists |-> TRUE, ips |-> NoIPs, rv |-> 1]]
  /\ nsCache = ns /\ nnCache = nn
  /\ nsEvents = << >> /\ nnEvents = << >>
  /\ queued = TRUE /\ nsQueue = {} /\ up = TRUE
  /\ pc = "idle" /\ loading = {}
  /\ nsList = NoNamespaces /\ nnList = NoNetNamespaces
  /\ used = NoUsed /\ todo = {} /\ toSync = {} /\ failed = FALSE
  /\ wpc = "idle" /\ wname = "none"
  /\ wns = Gone(0) /\ wnn = NetGone(0)
  /\ userOps = 0 /\ faults = 0 /\ crashes = 0 /\ staleReads = 0
  /\ ipam = NoIPAM(0) /\ ipamCache = ipam /\ ipamEvents = << >> /\ inst = NoIPAM(0)
  /\ hs = {} /\ nic = {} /\ hostsLeft = {}
  /\ cloud \in Clouds
  /\ ipamOps = 0

\* The steps of NamespaceAssignment outside of the cycle.
OutsideStep ==
  /\ UserStep \/ SDNStep \/ DeliverNamespace \/ DeliverNetNamespace \/ NamespaceStep
  /\ UNCHANGED lifeVars

LNext ==
  \/ CreateIPAM \/ EditIPAM \/ DeleteIPAM
  \/ DeliverIPAM \/ OutsideStep
  \/ ReconcileStep
  \/ ProcessEnds \/ ProcessRestarts

LSpec == LInit /\ [][LNext]_lvars

\* As in NamespaceAssignment: the informers and the workers keep running,
\* the SDN reacts, the process is restarted; users, faults and crashes are
\* under no obligation.
LFairness ==
  /\ WF_lvars(DeliverIPAM) /\ WF_lvars(ReconcileStep) /\ WF_lvars(ProcessRestarts)
  /\ WF_lvars(DeliverNamespace /\ UNCHANGED lifeVars)
  /\ WF_lvars(DeliverNetNamespace /\ UNCHANGED lifeVars)
  /\ WF_lvars(NamespaceStep /\ UNCHANGED lifeVars)
  /\ WF_lvars(SDNStep /\ UNCHANGED lifeVars)

LFairSpec == LSpec /\ LFairness

-----------------------------------------------------------------------------
(* Properties                                                              *)

IPAMs == [exists : BOOLEAN, valid : BOOLEAN, finalizer : BOOLEAN, deleting : BOOLEAN,
          rv : Nat]

\* NamespaceAssignment's cycle with the further places of the worker.
LCycleTypeOK ==
  /\ pc \in {"idle", "initialize", "load", "assign", "netns", "nodes",
            "rm_ns", "rm_nn", "rm_hs", "rm_nic", "finalizer"}
  /\ loading \subseteq {"namespaces", "netnamespaces"}
  /\ nsList \in [Names -> Namespaces] /\ nnList \in [Names -> NetNamespaces]
  /\ used \in [K -> SUBSET Nat]
  /\ todo \subseteq Names /\ toSync \subseteq Names /\ failed \in BOOLEAN

LifeTypeOK ==
  /\ ipam \in IPAMs /\ ipamCache \in IPAMs /\ inst \in IPAMs
  /\ ipamEvents \in Seq([old : IPAMs, new : IPAMs])
  /\ hs \subseteq Hosts /\ nic \subseteq Hosts /\ hostsLeft \subseteq Hosts
  /\ cloud \in Clouds /\ ipamOps \in Nat

LTypeOK ==
  /\ APITypeOK /\ InformerTypeOK /\ WorkerTypeOK /\ BoundsTypeOK
  /\ LCycleTypeOK /\ LifeTypeOK
  /\ pc = "idle" => inst = NoIPAM(0) /\ hostsLeft = {} /\ todo = {} /\ toSync = {}

\* The finalizer keeps the EgressIPAM until its clean-up is over.
Protected == ipam.exists /\ ipam.finalizer

\* The namespaces that never opt out and are never deleted.  One that opts
\* out in the middle of a cycle may keep the IPs of its NetNamespace for good
\* (NamespaceAssignment's NetNamespacesMatch), and the clean-up, which is for
\* referring namespaces, does not see it.
Stayers == Names \ Leavers

\* Whatever was handed out can still be taken back: as long as a HostSubnet,
\* an interface or the NetNamespace of a namespace that stays has egress IPs,
\* the finalizer holds the EgressIPAM; also when the clean-up reads old
\* caches, fails half-way or is cut short by a crash, and when the EgressIPAM
\* was deleted and created again meanwhile.
HandedOutIsProtected ==
  /\ hs # {} \/ nic # {} => Protected
  /\ \A n \in Stayers : nn[n].ips # NoIPs => Protected

\* "remove assigned IPs from namespaces" (egressipam_controller.go): when
\* the finalizer is given up, no namespace that stays keeps its egressips
\* annotation, if the clean-up never read a cache that trailed the API
\* server: an annotation that the list does not show is left behind.
AnnotationsReleased ==
  staleReads = 0 => \A n \in Stayers : ns[n].ips # NoIPs => Protected

\* A deletion comes to its end, through failing calls, conflicts and
\* crashes, unless the EgressIPAM stays invalid.
DeletionCompletes ==
  <>[](ipam.deleting => ipam.valid) => []<>~ipam.deleting

\* An EgressIPAM that is there to stay serves its namespaces, whatever
\* earlier ones of that name went through.
ServedAgain ==
  <>[](ipam.exists /\ ipam.valid /\ ~ipam.deleting)
    => <>[](\A n \in Names : ns[n].exists /\ ns[n].ref => Served(n))
=============================================================================
