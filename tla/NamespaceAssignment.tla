------------------------ MODULE NamespaceAssignment ------------------------
(***************************************************************************)
(* How namespaces get their egress IPs and lose them again.                *)
(*                                                                         *)
(* Two controllers share the API server's Namespace and NetNamespace       *)
(* objects.  The EgressIPAM controller (controllers/egressipam) lists both *)
(* kinds, writes the egressips annotation of every referring namespace     *)
(* that has none, and copies the annotations to the NetNamespaces.  The    *)
(* Namespace controller (controllers/namespace) reacts to a namespace that *)
(* drops its egressipam annotation by emptying first its NetNamespace and  *)
(* then its egressips annotation.                                          *)
(*                                                                         *)
(* Both read from informer caches that trail the API server and write with *)
(* the resourceVersion they read, so that a write based on an old copy is  *)
(* refused.  Each has one worker and a queue; an error puts the request    *)
(* back.  Users create, delete, opt in and opt out at any time, the SDN    *)
(* adds and removes the NetNamespace of a namespace, calls fail with or    *)
(* without having taken effect, and the process crashes and restarts.      *)
(*                                                                         *)
(* Abstractions.  One EgressIPAM, which exists, is valid and initialised.  *)
(* The used addresses of a CIDR are a set, and the next available one is   *)
(* its least free address: IPAllocation shows that this is what the slice  *)
(* computes.  Addresses of nodes, of the cloud and reserved ones do not    *)
(* change.  What the cycle does after the NetNamespaces (nodes, instances, *)
(* HostSubnets) touches none of this state: it succeeds or fails.          *)
(***************************************************************************)
EXTENDS Addresses, Sequences, FiniteSets

CONSTANTS
  Names,        \* namespace names
  CIDRs,        \* the CIDRs of the EgressIPAM, in their order
  InUse,        \* per CIDR: reserved addresses and those of nodes
  CloudInUse,   \* per CIDR: addresses that the cloud reports as used
  UserInputs,   \* egressips values a user may set, when opting in only
  Leavers,      \* the namespaces that may opt out or be deleted
  MaxUserOps,   \* bound on the user's operations
  MaxFaults,    \* bound on the calls that fail
  MaxCrashes,   \* bound on the crashes of the process
  MaxStaleReads \* bound on the reads of a cache that trails the API server

K == 1..Len(CIDRs)

ASSUME CIDRsAssumption ==
  CIDRs \in Seq([network : Nat, host : Nat, size : Nat]) /\ \A k \in K : IsCIDR(CIDRs[k])

ASSUME InUseAssumption ==
  InUse \in [K -> SUBSET Nat] /\ CloudInUse \in [K -> SUBSET Nat]

ASSUME UserAssumption == UserInputs \subseteq Seq(Nat) /\ Leavers \subseteq Names

ASSUME BoundsAssumption ==
  /\ MaxUserOps \in Nat /\ MaxFaults \in Nat
  /\ MaxCrashes \in Nat /\ MaxStaleReads \in Nat

VARIABLES
  ns, nn,              \* API server: Namespaces and NetNamespaces by name
  nsCache, nnCache,    \* the informers' copies
  nsEvents, nnEvents,  \* watch events not yet delivered to the informers
  queued,              \* the EgressIPAM is in the EgressIPAM queue
  nsQueue,             \* the Namespace controller's queue
  up,                  \* the operator's process is running
  pc,                  \* where the EgressIPAM worker is
  loading,             \* lists loadReconcileContext still waits for
  nsList, nnList,      \* rc: the listed Namespaces and NetNamespaces
  used,                \* IPsByCIDR
  todo,                \* rc.UnAssignedNamespaces not yet handled
  toSync,              \* rc.FinallyAssignedNamespaces not yet copied
  failed,              \* an error among the parallel NetNamespace updates
  wpc, wname,          \* where the Namespace worker is, and on what
  wns, wnn,            \* the two objects it has read
  userOps, faults, crashes, staleReads

apiVars     == <<ns, nn>>
cacheVars   == <<nsCache, nnCache>>
rcVars      == <<loading, nsList, nnList, used, todo, toSync, failed>>
cycleVars   == <<pc, rcVars>>
workerVars  == <<wpc, wname, wns, wnn>>
boundVars   == <<userOps, faults, crashes, staleReads>>
vars == <<apiVars, cacheVars, nsEvents, nnEvents, queued, nsQueue, up,
          cycleVars, workerVars, boundVars>>

-----------------------------------------------------------------------------
(* Objects and the API server                                              *)

\* "ref" is the egressipam annotation, "ips" the egressips annotation; an
\* absent annotation is the empty sequence.
NoIPs == << >>

Gone(rv)    == [exists |-> FALSE, ref |-> FALSE, ips |-> NoIPs, rv |-> rv]
NetGone(rv) == [exists |-> FALSE, ips |-> NoIPs, rv |-> rv]

NoNamespaces    == [n \in Names |-> Gone(0)]
NoNetNamespaces == [n \in Names |-> NetGone(0)]

Event(n, old, new) == [name |-> n, old |-> old, new |-> new]

\* An update is accepted if the object still has the version it carries.
Accepts(stored, obj) == stored.exists /\ obj.exists /\ stored.rv = obj.rv

\* What is stored: a new version, unless the update changes nothing.
Stored(stored, obj) == IF obj = stored THEN stored
                                       ELSE [obj EXCEPT !.rv = @ + 1]

\* The watch reports a change to the informers of a running process.
Watch(events, n, old, new) ==
  IF up /\ old # new THEN Append(events, Event(n, old, new)) ELSE events

PutNs(n, new) ==
  /\ ns' = [ns EXCEPT ![n] = new]
  /\ nsEvents' = Watch(nsEvents, n, ns[n], new)

PutNet(n, new) ==
  /\ nn' = [nn EXCEPT ![n] = new]
  /\ nnEvents' = Watch(nnEvents, n, nn[n], new)

\* The three results of a client's Update: done, refused, or failed on the
\* way there or back.
UpdateNs(n, obj) ==
  /\ Accepts(ns[n], obj)
  /\ PutNs(n, Stored(ns[n], obj))
  /\ UNCHANGED faults

RefusedNs(n, obj) ==
  /\ ~Accepts(ns[n], obj)
  /\ UNCHANGED <<ns, nsEvents, faults>>

FaultyNs(n, obj) ==
  /\ faults < MaxFaults
  /\ faults' = faults + 1
  /\ \/ UNCHANGED <<ns, nsEvents>>
     \/ Accepts(ns[n], obj) /\ PutNs(n, Stored(ns[n], obj))

UpdateNet(n, obj) ==
  /\ Accepts(nn[n], obj)
  /\ PutNet(n, Stored(nn[n], obj))
  /\ UNCHANGED faults

RefusedNet(n, obj) ==
  /\ ~Accepts(nn[n], obj)
  /\ UNCHANGED <<nn, nnEvents, faults>>

FaultyNet(n, obj) ==
  /\ faults < MaxFaults
  /\ faults' = faults + 1
  /\ \/ UNCHANGED <<nn, nnEvents>>
     \/ Accepts(nn[n], obj) /\ PutNet(n, Stored(nn[n], obj))

-----------------------------------------------------------------------------
(* Users and the SDN                                                       *)

UserOp == userOps < MaxUserOps /\ userOps' = userOps + 1

ByUser ==
  /\ UserOp
  /\ UNCHANGED <<nn, cacheVars, nnEvents, queued, nsQueue, up, cycleVars,
                 workerVars, faults, crashes, staleReads>>

\* The new version of namespace n after an edit by its user.
Edited(n, ref, ips) ==
  [exists |-> TRUE, ref |-> ref, ips |-> ips, rv |-> ns[n].rv + 1]

CreateNamespace(n) ==
  /\ ~ns[n].exists
  /\ \E ref \in BOOLEAN : PutNs(n, Edited(n, ref, NoIPs))
  /\ ByUser

DeleteNamespace(n) ==
  /\ n \in Leavers
  /\ ns[n].exists
  /\ PutNs(n, Gone(ns[n].rv + 1))
  /\ ByUser

\* The egressipam annotation is added, perhaps with IPs as input.  An edit of
\* the IPs of a namespace that has opted in is left out.
OptIn(n) ==
  /\ ns[n].exists /\ ~ns[n].ref
  /\ \E ips \in {ns[n].ips} \cup UserInputs : PutNs(n, Edited(n, TRUE, ips))
  /\ ByUser

\* Only the egressipam annotation is removed; the egressips one stays.
OptOut(n) ==
  /\ n \in Leavers
  /\ ns[n].exists /\ ns[n].ref
  /\ PutNs(n, Edited(n, FALSE, ns[n].ips))
  /\ ByUser

BySDN ==
  UNCHANGED <<ns, cacheVars, nsEvents, queued, nsQueue, up, cycleVars,
              workerVars, boundVars>>

CreateNetNamespace(n) ==
  /\ ns[n].exists /\ ~nn[n].exists
  /\ PutNet(n, [exists |-> TRUE, ips |-> NoIPs, rv |-> nn[n].rv + 1])
  /\ BySDN

DeleteNetNamespace(n) ==
  /\ ~ns[n].exists /\ nn[n].exists
  /\ PutNet(n, NetGone(nn[n].rv + 1))
  /\ BySDN

-----------------------------------------------------------------------------
(* Informers: caches, predicates and event handlers                        *)

\* Mutant: only an opt-in triggers a cycle, not the loss of the IPs.
EnqueueForNamespace_OptInOnly(old, new) == ~old.ref /\ new.ref

\* The EgressIPAM controller's IsAnnotated predicate and the handlers
\* enqueForSelectedEgressIPAMNamespace behind it.
EnqueueForNamespace(old, new) ==
  CASE ~old.exists -> new.ref
    [] ~new.exists -> old.ref
    [] OTHER       -> /\ \/ ~old.ref /\ new.ref
                         \/ (old.ips = NoIPs) # (new.ips = NoIPs)
                      /\ old.ref \/ new.ref

\* The Namespace controller's IsAnnotated predicate.
EnqueueForCleanUp(old, new) == old.exists /\ new.exists /\ old.ref /\ ~new.ref

\* IsCreatedOrIsEgressIPsChanged and enqueForSelectedEgressIPAMNetNamespace,
\* which looks the namespace up in the cache.
EnqueueForNetNamespace(n, old, new) ==
  /\ new.exists
  /\ ~old.exists \/ old.ips # new.ips
  /\ nsCache[n].ref

DeliverNamespace ==
  /\ up
  /\ nsEvents # << >>
  /\ LET e == Head(nsEvents) IN
       /\ nsCache' = [nsCache EXCEPT ![e.name] = e.new]
       /\ queued' = (queued \/ EnqueueForNamespace(e.old, e.new))
       /\ nsQueue' = IF EnqueueForCleanUp(e.old, e.new)
                     THEN nsQueue \cup {e.name} ELSE nsQueue
  /\ nsEvents' = Tail(nsEvents)
  /\ UNCHANGED <<apiVars, nnCache, nnEvents, up, cycleVars, workerVars, boundVars>>

DeliverNetNamespace ==
  /\ up
  /\ nnEvents # << >>
  /\ LET e == Head(nnEvents) IN
       /\ nnCache' = [nnCache EXCEPT ![e.name] = e.new]
       /\ queued' = (queued \/ EnqueueForNetNamespace(e.name, e.old, e.new))
  /\ nnEvents' = Tail(nnEvents)
  /\ UNCHANGED <<apiVars, nsCache, nsEvents, nsQueue, up, cycleVars, workerVars,
                 boundVars>>

-----------------------------------------------------------------------------
(* The EgressIPAM controller: Reconcile, loadReconcileContext              *)

NoUsed == [k \in K |-> {}]

NoContext ==
  /\ loading' = {}
  /\ nsList' = NoNamespaces /\ nnList' = NoNetNamespaces
  /\ used' = NoUsed
  /\ todo' = {} /\ toSync' = {}
  /\ failed' = FALSE

NoCleanUp == wname' = "none" /\ wns' = Gone(0) /\ wnn' = NetGone(0)

\* The process ends: what it has in memory is gone.
Stop ==
  /\ up /\ up' = FALSE
  /\ pc' = "idle" /\ NoContext
  /\ wpc' = "idle" /\ NoCleanUp
  /\ queued' = FALSE /\ nsQueue' = {}
  /\ nsCache' = NoNamespaces /\ nnCache' = NoNetNamespaces
  /\ nsEvents' = << >> /\ nnEvents' = << >>
  /\ UNCHANGED apiVars

\* What the steps of a cycle leave alone.
InCycle ==
  /\ up
  /\ UNCHANGED <<cacheVars, nsQueue, up, workerVars, userOps, crashes>>

\* A read of a cache, which may trail the API server.
Read(events) ==
  \/ events = << >> /\ UNCHANGED staleReads
  \/ events # << >> /\ staleReads < MaxStaleReads /\ staleReads' = staleReads + 1

\* Mutant: an error does not put the request back.
EndCycle_NotRetried(error) == pc' = "idle" /\ NoContext /\ UNCHANGED queued

\* ManageSuccess, or ManageError, whose error puts the request back.
EndCycle(error) ==
  /\ pc' = "idle"
  /\ NoContext
  /\ queued' = (queued \/ error)

StartCycle ==
  /\ pc = "idle" /\ queued
  /\ pc' = "load"
  /\ queued' = FALSE
  /\ loading' = {"namespaces", "netnamespaces"}
  /\ InCycle
  /\ UNCHANGED <<staleReads, apiVars, nsEvents, nnEvents, nsList, nnList, used, todo, toSync,
                 failed, faults>>

\* The parallel lists, each from its own cache (getReferringNamespaces,
\* getAllNetNamespaces).
ListNamespaces ==
  /\ pc = "load" /\ "namespaces" \in loading
  /\ Read(nsEvents)
  /\ nsList' = nsCache
  /\ loading' = loading \ {"namespaces"}
  /\ InCycle
  /\ UNCHANGED <<apiVars, nsEvents, nnEvents, queued, pc, nnList, used, todo,
                 toSync, failed, faults>>

ListNetNamespaces ==
  /\ pc = "load" /\ "netnamespaces" \in loading
  /\ Read(nnEvents)
  /\ nnList' = nnCache
  /\ loading' = loading \ {"netnamespaces"}
  /\ InCycle
  /\ UNCHANGED <<apiVars, nsEvents, nnEvents, queued, pc, nsList, used, todo,
                 toSync, failed, faults>>

\* An error of the part that is not modelled: credentials and cloud calls
\* of the load, or nodes, instances and HostSubnets at the end.
OtherError ==
  /\ pc \in {"load", "nodes"}
  /\ faults < MaxFaults
  /\ faults' = faults + 1
  /\ EndCycle(TRUE)
  /\ InCycle
  /\ UNCHANGED <<staleReads, apiVars, nsEvents, nnEvents>>

Referring == {n \in Names : nsList[n].exists /\ nsList[n].ref}

Assigned == {n \in Referring : nsList[n].ips # NoIPs}

\* Mutant: the namespaces are not told apart by their egressips annotation.
Unassigned_All == Referring

Unassigned == {n \in Referring : nsList[n].ips = NoIPs}

-----------------------------------------------------------------------------
(* assignIPsToNamespaces                                                   *)

\* Mutant: the IPs are not looked up in their CIDR.
Foreign_NoCheck(n) == FALSE

\* sortIPsByCIDR stops at an IP that is outside its CIDR, and indexes the
\* IPs of a namespace with the CIDRs' positions without looking at how many
\* there are.
Foreign(n) == \E k \in K : /\ k <= Len(nsList[n].ips)
                           /\ ~InCIDR(CIDRs[k], nsList[n].ips[k])

TooFew(n) == Len(nsList[n].ips) < Len(CIDRs)

AtSort == pc = "load" /\ loading = {}

\* index out of range: a panic in a worker ends the process.
SortPanics ==
  /\ AtSort
  /\ \E n \in Assigned : TooFew(n) /\ ~Foreign(n)
  /\ Stop
  /\ UNCHANGED boundVars

SortFails ==
  /\ AtSort
  /\ \E n \in Assigned : Foreign(n)
  /\ EndCycle(TRUE)
  /\ InCycle
  /\ UNCHANGED <<staleReads, apiVars, nsEvents, nnEvents, faults>>

\* The addresses of CIDR k that the cluster tells not to hand out.
KnownIn(k) == {nsList[n].ips[k] : n \in Assigned}
                \cup AlwaysExcluded(CIDRs[k]) \cup InUse[k]

\* Mutant: what the cloud reports is left out.
UsedIn_NoCloud(k) == KnownIn(k)

\* With those that GetUsedIPsByCIDR reports from the cloud.
UsedIn(k) == KnownIn(k) \cup CloudInUse[k]

\* The used addresses are complete, duplicates removed, sorted.
Sorted(excluded) ==
  /\ AtSort
  /\ \A n \in Assigned : ~Foreign(n) /\ ~TooFew(n)
  /\ pc' = "assign"
  /\ used' = excluded
  /\ todo' = Unassigned
  /\ toSync' = Assigned
  /\ InCycle
  /\ UNCHANGED <<staleReads, apiVars, nsEvents, nnEvents, queued, loading, nsList, nnList,
                 failed>>

SortIPsByCIDR == Sorted([k \in K |-> UsedIn(k)]) /\ UNCHANGED faults

\* getAWSUsedIPsByCIDR: the MachineSets, their subnets or the interfaces in
\* these cannot be had.
CloudCallFails == faults < MaxFaults /\ faults' = faults + 1

\* AWS: the error is logged and forgotten; the map of used IPs is empty.
CloudSilent ==
  /\ CloudCallFails
  /\ Sorted([k \in K |-> KnownIn(k)])

\* getNextAvailableIPs finds an address in every CIDR.
Available == \A k \in K : FirstFree(CIDRs[k], used[k]) # {}

NextAvailable(k) == CHOOSE a \in FirstFree(CIDRs[k], used[k]) : TRUE

\* The copy of namespace n with its new annotation.
WithIPs(n) == [nsList[n] EXCEPT !.ips = [k \in K |-> NextAvailable(k)]]

UsedAfter == [k \in K |-> used[k] \cup {NextAvailable(k)}]

AssignIPs(n) ==
  /\ pc = "assign" /\ n \in todo
  /\ Available
  /\ UpdateNs(n, WithIPs(n))
  /\ nsList' = [nsList EXCEPT ![n] = WithIPs(n)]
  /\ used' = UsedAfter
  /\ todo' = todo \ {n}
  /\ toSync' = toSync \cup {n}
  /\ InCycle
  /\ UNCHANGED <<staleReads, nn, nnEvents, queued, pc, loading, nnList, failed>>

\* The update of the annotation is refused or fails: the cycle ends.
AssignFails(n) ==
  /\ pc = "assign" /\ n \in todo
  /\ Available
  /\ RefusedNs(n, WithIPs(n)) \/ FaultyNs(n, WithIPs(n))
  /\ EndCycle(TRUE)
  /\ InCycle
  /\ UNCHANGED <<staleReads, nn, nnEvents>>

\* "no more available IPs in this CIDR": the cycle ends.
Exhausted ==
  /\ pc = "assign" /\ todo # {}
  /\ ~Available
  /\ EndCycle(TRUE)
  /\ InCycle
  /\ UNCHANGED <<staleReads, apiVars, nsEvents, nnEvents, faults>>

AssignDone ==
  /\ pc = "assign" /\ todo = {}
  /\ pc' = "netns"
  /\ InCycle
  /\ UNCHANGED <<staleReads, apiVars, nsEvents, nnEvents, queued, rcVars, faults>>

-----------------------------------------------------------------------------
(* reconcileNetNamespaces: one goroutine per namespace, all are awaited.   *)
(* The comparison before the update never finds the two slices equal, as   *)
(* their types differ; the update of an unchanged object stores nothing.   *)
(* A namespace whose NetNamespace was not listed updates an empty object,  *)
(* which is refused.                                                       *)

NetWithIPs(n) == [nnList[n] EXCEPT !.ips = nsList[n].ips]

SyncNetNamespace(n) ==
  /\ pc = "netns" /\ n \in toSync
  /\ \/ UpdateNet(n, NetWithIPs(n)) /\ UNCHANGED failed
     \/ RefusedNet(n, NetWithIPs(n)) /\ failed' = TRUE
     \/ FaultyNet(n, NetWithIPs(n)) /\ failed' = TRUE
  /\ toSync' = toSync \ {n}
  /\ InCycle
  /\ UNCHANGED <<staleReads, ns, nsEvents, queued, pc, loading, nsList, nnList, used, todo>>

SyncDone ==
  /\ pc = "netns" /\ toSync = {} /\ ~failed
  /\ pc' = "nodes"
  /\ InCycle
  /\ UNCHANGED <<staleReads, apiVars, nsEvents, nnEvents, queued, rcVars, faults>>

SyncFailed ==
  /\ pc = "netns" /\ toSync = {} /\ failed
  /\ EndCycle(TRUE)
  /\ InCycle
  /\ UNCHANGED <<staleReads, apiVars, nsEvents, nnEvents, faults>>

\* The rest of the cycle succeeds.
FinishCycle ==
  /\ pc = "nodes"
  /\ EndCycle(FALSE)
  /\ InCycle
  /\ UNCHANGED <<staleReads, apiVars, nsEvents, nnEvents, faults>>

EgressIPAMStep ==
  \/ StartCycle \/ ListNamespaces \/ ListNetNamespaces \/ OtherError
  \/ SortPanics \/ SortFails \/ SortIPsByCIDR \/ CloudSilent
  \/ \E n \in Names : AssignIPs(n) \/ AssignFails(n)
  \/ Exhausted \/ AssignDone
  \/ \E n \in Names : SyncNetNamespace(n)
  \/ SyncDone \/ SyncFailed \/ FinishCycle

-----------------------------------------------------------------------------
(* The Namespace controller: Reconcile, cleanUpNamespaceAndNetNamespace    *)

OnWorker ==
  /\ up
  /\ UNCHANGED <<cacheVars, queued, up, cycleVars, userOps, crashes>>

\* Mutant: the worker is not reset.
EndCleanUp_NotReset(requests) ==
  /\ NoCleanUp
  /\ nsQueue' = requests
  /\ UNCHANGED wpc

\* ManageSuccess, or ManageError, whose error puts the request back.
EndCleanUp(requests) ==
  /\ wpc' = "idle" /\ NoCleanUp
  /\ nsQueue' = requests

\* The namespace is read; one that is gone ends the reconcile.
GetNamespace(n) ==
  /\ wpc = "idle" /\ n \in nsQueue
  /\ Read(nsEvents)
  /\ IF nsCache[n].exists
     THEN /\ wpc' = "get" /\ wname' = n
          /\ wns' = nsCache[n] /\ UNCHANGED wnn
          /\ nsQueue' = nsQueue \ {n}
     ELSE EndCleanUp(nsQueue \ {n})
  /\ OnWorker
  /\ UNCHANGED <<apiVars, nsEvents, nnEvents, faults>>

GetNetNamespace ==
  /\ wpc = "get"
  /\ Read(nnEvents)
  /\ IF nnCache[wname].exists
     THEN /\ wpc' = "clean_net"
          /\ wnn' = nnCache[wname]
          /\ UNCHANGED <<wname, wns, nsQueue>>
     ELSE EndCleanUp(nsQueue \cup {wname})
  /\ OnWorker
  /\ UNCHANGED <<apiVars, nsEvents, nnEvents, faults>>

CleanNetNamespace ==
  /\ wpc = "clean_net"
  /\ UpdateNet(wname, [wnn EXCEPT !.ips = NoIPs])
  /\ wpc' = "clean_ns"
  /\ OnWorker
  /\ UNCHANGED <<staleReads, ns, nsEvents, wname, wns, wnn, nsQueue>>

CleanNetNamespaceFails ==
  /\ wpc = "clean_net"
  /\ LET obj == [wnn EXCEPT !.ips = NoIPs]
     IN RefusedNet(wname, obj) \/ FaultyNet(wname, obj)
  /\ EndCleanUp(nsQueue \cup {wname})
  /\ OnWorker
  /\ UNCHANGED <<staleReads, ns, nsEvents>>

\* The annotation is removed only if the copy read at the start has one.
NothingToClean ==
  /\ wpc = "clean_ns" /\ wns.ips = NoIPs
  /\ EndCleanUp(nsQueue)
  /\ OnWorker
  /\ UNCHANGED <<staleReads, apiVars, nsEvents, nnEvents, faults>>

CleanNamespace ==
  /\ wpc = "clean_ns" /\ wns.ips # NoIPs
  /\ UpdateNs(wname, [wns EXCEPT !.ips = NoIPs])
  /\ EndCleanUp(nsQueue)
  /\ OnWorker
  /\ UNCHANGED <<staleReads, nn, nnEvents>>

\* Mutant: an error of the clean-up is not retried.
Retry_Dropped == nsQueue

Retry == nsQueue \cup {wname}

CleanNamespaceFails ==
  /\ wpc = "clean_ns" /\ wns.ips # NoIPs
  /\ LET obj == [wns EXCEPT !.ips = NoIPs]
     IN RefusedNs(wname, obj) \/ FaultyNs(wname, obj)
  /\ EndCleanUp(Retry)
  /\ OnWorker
  /\ UNCHANGED <<staleReads, nn, nnEvents>>

NamespaceStep ==
  \/ \E n \in Names : GetNamespace(n)
  \/ GetNetNamespace
  \/ CleanNetNamespace \/ CleanNetNamespaceFails
  \/ NothingToClean \/ CleanNamespace \/ CleanNamespaceFails

-----------------------------------------------------------------------------
(* The process                                                             *)

Crash ==
  /\ crashes < MaxCrashes
  /\ crashes' = crashes + 1
  /\ Stop
  /\ UNCHANGED <<userOps, faults, staleReads>>

\* The caches are listed anew.  Every object arrives as a create event: the
\* EgressIPAM itself is enqueued; the Namespace controller ignores creates.
Restart ==
  /\ ~up
  /\ up' = TRUE
  /\ nsCache' = ns /\ nnCache' = nn
  /\ queued' = TRUE
  /\ UNCHANGED <<apiVars, nsEvents, nnEvents, nsQueue, cycleVars, workerVars,
                 boundVars>>

-----------------------------------------------------------------------------

Init ==
  /\ ns = [n \in Names |-> [exists |-> TRUE, ref |-> FALSE, ips |-> NoIPs, rv |-> 1]]
  /\ nn = [n \in Names |-> [exists |-> TRUE, ips |-> NoIPs, rv |-> 1]]
  /\ nsCache = ns /\ nnCache = nn
  /\ nsEvents = << >> /\ nnEvents = << >>
  /\ queued = TRUE /\ nsQueue = {}
  /\ up = TRUE
  /\ pc = "idle" /\ loading = {}
  /\ nsList = NoNamespaces /\ nnList = NoNetNamespaces
  /\ used = NoUsed /\ todo = {} /\ toSync = {} /\ failed = FALSE
  /\ wpc = "idle" /\ wname = "none"
  /\ wns = Gone(0) /\ wnn = NetGone(0)
  /\ userOps = 0 /\ faults = 0 /\ crashes = 0 /\ staleReads = 0

UserStep ==
  \E n \in Names : \/ CreateNamespace(n) \/ DeleteNamespace(n)
                   \/ OptIn(n) \/ OptOut(n)

SDNStep == \E n \in Names : CreateNetNamespace(n) \/ DeleteNetNamespace(n)

Next ==
  \/ UserStep \/ SDNStep
  \/ DeliverNamespace \/ DeliverNetNamespace
  \/ EgressIPAMStep \/ NamespaceStep
  \/ Crash \/ Restart

Spec == Init /\ [][Next]_vars

\* The informers and the two workers keep running, the SDN reacts, and the
\* process is restarted; nothing obliges users, faults or crashes to happen.
Fairness ==
  /\ WF_vars(DeliverNamespace) /\ WF_vars(DeliverNetNamespace)
  /\ WF_vars(EgressIPAMStep) /\ WF_vars(NamespaceStep)
  /\ WF_vars(SDNStep) /\ WF_vars(Restart)

FairSpec == Spec /\ Fairness

-----------------------------------------------------------------------------
(* Properties                                                              *)

Namespaces == [exists : BOOLEAN, ref : BOOLEAN, ips : Seq(Nat), rv : Nat]

NetNamespaces == [exists : BOOLEAN, ips : Seq(Nat), rv : Nat]

Events(objects) == [name : Names, old : objects, new : objects]

APITypeOK == ns \in [Names -> Namespaces] /\ nn \in [Names -> NetNamespaces]

InformerTypeOK ==
  /\ nsCache \in [Names -> Namespaces] /\ nnCache \in [Names -> NetNamespaces]
  /\ nsEvents \in Seq(Events(Namespaces)) /\ nnEvents \in Seq(Events(NetNamespaces))
  /\ queued \in BOOLEAN /\ nsQueue \subseteq Names /\ up \in BOOLEAN

CycleTypeOK ==
  /\ pc \in {"idle", "load", "assign", "netns", "nodes"}
  /\ loading \subseteq {"namespaces", "netnamespaces"}
  /\ nsList \in [Names -> Namespaces] /\ nnList \in [Names -> NetNamespaces]
  /\ used \in [K -> SUBSET Nat]
  /\ todo \subseteq Names /\ toSync \subseteq Names /\ failed \in BOOLEAN

WorkerTypeOK ==
  /\ wpc \in {"idle", "get", "clean_net", "clean_ns"}
  /\ wpc # "idle" => wname \in Names
  /\ wns \in Namespaces /\ wnn \in NetNamespaces

BoundsTypeOK ==
  userOps \in Nat /\ faults \in Nat /\ crashes \in Nat /\ staleReads \in Nat

TypeOK == APITypeOK /\ InformerTypeOK /\ CycleTypeOK /\ WorkerTypeOK /\ BoundsTypeOK

\* n holds egress IPs as far as anybody who reads the API server can tell.
Holds(n) == ns[n].exists /\ ns[n].ref /\ ns[n].ips # NoIPs

SharesAddress(s, t) == \E k \in DOMAIN s \cap DOMAIN t : s[k] = t[k]

\* The Namespace controller has been told, or is about to be told, to take
\* the IPs of n away.
CleanUpPending(n) ==
  \/ n \in nsQueue
  \/ wpc # "idle" /\ wname = n /\ wns.ips # NoIPs
  \/ \E i \in DOMAIN nsEvents :
       /\ nsEvents[i].name = n
       /\ EnqueueForCleanUp(nsEvents[i].old, nsEvents[i].new)

\* "this IPs cannot be used for assigning to namespaces" (aws.go): as long
\* as no call has failed, no address that somebody else uses in the cloud is
\* handed out, whatever was freed and handed out again before.  Any failed
\* call excuses it, not only that of the cloud.
CloudAddressesSpared ==
  \A n \in Names : \A k \in K \cap DOMAIN ns[n].ips :
    ns[n].ips[k] \in CloudInUse[k] => faults > 0 \/ ns[n].ips \in UserInputs

\* Two namespaces that hold the same egress IP: only in the window in which
\* the Namespace controller still owes one of them its clean-up (it opted
\* out, the IP was given to the other, and it opted in again).  This is
\* what the used addresses of assignIPsToNamespaces are collected for.
UniqueAssignments ==
  \A n, m \in Names :
    /\ n # m
    /\ Holds(n) /\ Holds(m)
    /\ SharesAddress(ns[n].ips, ns[m].ips)
    => CleanUpPending(n) \/ CleanUpPending(m)

\* The egressips annotation is the source of truth: whatever the caches
\* showed when it was computed, no update of a controller replaces the IPs
\* of a namespace by other IPs.
AssignmentKept ==
  [][\A n \in Names :
       userOps' = userOps /\ ns[n].exists /\ ns[n].ips # NoIPs /\ ns'[n].exists
         => ns'[n].ips \in {ns[n].ips, NoIPs}]_vars

\* Nothing is on its way to or in the controllers.
AtRest ==
  /\ up
  /\ nsEvents = << >> /\ nnEvents = << >>
  /\ ~queued /\ nsQueue = {}
  /\ pc = "idle" /\ wpc = "idle"

\* n has its IPs and the SDN uses them.
Served(n) == ns[n].ips # NoIPs /\ nn[n].exists /\ nn[n].ips = ns[n].ips

\* No wake-up is lost: when the controllers have nothing left to do, every
\* namespace that has opted in has IPs and its NetNamespace carries them,
\* whichever events, failures, conflicts and crashes came before.  Users set
\* IPs when they opt in and do not edit them later: the predicate
\* IsAnnotated would drop such an edit.
ServedAtRest ==
  AtRest => \A n \in Names :
              ns[n].exists /\ ns[n].ref /\ nn[n].exists => Served(n)

\* The egressips annotation of n, if it is in use, has an IP of each CIDR.
WellFormed(n) ==
  ns[n].exists /\ ns[n].ref /\ ns[n].ips # NoIPs
    => /\ Len(ns[n].ips) >= Len(CIDRs)
       /\ \A k \in K : InCIDR(CIDRs[k], ns[n].ips[k])

\* "The netnamespace associated with this namespace is updated to use that
\* egressIP" (readme.md): sooner or later all namespaces that have opted in
\* are served, and stay so, through failures and crashes, and also after an
\* ill-formed input, which stops the operator, has been taken back.
EventuallyServed ==
  <>[](\A n \in Names : WellFormed(n))
    => <>[](\A n \in Names : ns[n].exists /\ ns[n].ref => Served(n))

\* The IPs of a NetNamespace begin with one IP of each CIDR, in the order of
\* the CIDRs, as sortIPsByCIDR stops the cycle before anything else is
\* written, whichever inputs, stale lists and failures came before.  More
\* IPs than CIDRs come only from a user's input: sortIPsByCIDR looks at the
\* first ones and reconcileNetNamespaces copies them all.
NetNamespacesWellFormed ==
  \A n \in Names : nn[n].ips # NoIPs =>
    /\ Len(nn[n].ips) >= Len(CIDRs)
    /\ \A k \in K : InCIDR(CIDRs[k], nn[n].ips[k])
    /\ Len(nn[n].ips) = Len(CIDRs) \/ nn[n].ips \in UserInputs

\* "There must be exactly one IP per CIDR defined in the referenced
\* egressIPAM" (readme.md), or the operator errors out: a NetNamespace has
\* exactly as many IPs as there are CIDRs.  The code keeps this only for
\* inputs that have no more IPs than there are CIDRs.
NetNamespacesExact ==
  \A n \in Names : nn[n].ips # NoIPs => Len(nn[n].ips) = Len(CIDRs)

\* The annotations are the source of truth (egressipam_controller.go): when
\* the controllers have nothing left to do, a NetNamespace carries no IPs
\* but those of its namespace's annotation.
NetNamespacesMatch ==
  AtRest => \A n \in Names :
              ns[n].exists /\ nn[n].exists => nn[n].ips = ns[n].ips

\* "an available egressIP is selected" (readme.md): no two namespaces hold
\* the same egress IP when the controllers have nothing left to do.
NoSharedIP ==
  AtRest => \A n, m \in Names :
              n # m /\ Holds(n) /\ Holds(m)
                => ~SharesAddress(ns[n].ips, ns[m].ips)
=============================================================================
