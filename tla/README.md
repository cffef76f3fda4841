# A verification project for the egressip-ipam-operator

TLA+ models of the OpenShift operator that gives namespaces egress IPs and puts
those IPs on nodes, TLC configurations that check them on small instances, and
TLAPS proofs of what holds on every instance.  `PROJECT.json` lists the runs,
the mutants that show that each property can fail, the source lines behind
each definition, the findings, the hazards and the theorems.

## 1. Inventory

### The system

The operator is a process with two controllers, each with one worker and a
work queue, on top of controller-runtime's informers.  Several replicas may be
started; with `--leader-elect` one of them runs the controllers.

| part | state it keeps | operations | source |
|---|---|---|---|
| start-up | the Infrastructure; the CredentialsRequest (API server); the lease | `main`, `SetupWithManager`, `createCredentialRequest` | `main.go`, `controllers/egressipam/egressipam_controller.go` |
| EgressIPAM controller | queue; the `ReconcileContext` of one cycle | `Reconcile`, `loadReconcileContext`, `processReconcileContext` | `egressipam_controller.go` |
| EgressIPAM life cycle | finalizer, validity | `IsValid`, `IsInitialized`, `manageCleanUpLogic` | `egressipam_controller.go`, `namespace.go`, `netnamespace.go`, `hostsubnet.go` |
| address allocator | per CIDR the sorted slice of used addresses of this cycle | `assignIPsToNamespaces`, `sortIPs`, `getNextAvailableIP(s)` | `ipam.go`, `namespace.go` |
| node assignment | maps node → IPs, number of IPs → nodes | `assignIPsToNodes`, `getMinKey` | `ipam.go`, `node.go` |
| NetNamespace and HostSubnet writers | none of their own; they write API objects | `reconcileNetNamespaces`, `reconcileHSAssignedIPs`, `assignCIDRsToHostSubnets` | `netnamespace.go`, `hostsubnet.go` |
| infrastructure (AWS, Azure, bare metal) | secondary IPs of the instances' network interfaces (in the cloud) | `GetUsedIPsByCIDR`, `ReconcileInstanceSecondaryIPs`, `RemoveAllAssignedIPs` | `aws/`, `azure/`, `baremetal/` |
| Namespace controller | queue | `Reconcile`, `cleanUpNamespaceAndNetNamespace` | `controllers/namespace/namespace_controller.go` |
| watches | informer caches, undelivered events | predicates and `enqueFor...` handlers | `SetupWithManager` of both controllers, `node.go`, `hostsubnet.go`, `namespace.go`, `netnamespace.go` |
| metrics | the gauges `ipAllocated`, `ipCapacity` | `updateMetrics`, `GetIPCapacity` | `egressipam_controller.go`, `aws/` |

The parts interact through API objects.  A namespace opts in with the
`egressipam` annotation; a cycle writes the `egressips` annotation (the source
of truth), copies it to the NetNamespace, plans which node carries which IP,
moves the IPs between network interfaces and writes the HostSubnets.  Every
write comes back as a watch event and may trigger the next cycle.  The
Namespace controller undoes the first two when a namespace opts out, at the
same time as a cycle may be at work on the same two objects.  The deletion of
the EgressIPAM undoes all four, held up by a finalizer.

### What is hard

* *Stale reads.*  All lists and gets come from caches that trail the API
  server; writes carry the version that was read and are refused when it is old.
* *Two writers.*  The two controllers write the same Namespaces and
  NetNamespaces without a lock; replicas write the same CredentialsRequest.
* *Partial failure.*  Updates are made by parallel goroutines; some succeed,
  some fail, and the whole cycle is retried.  A failed call may have taken effect.
* *Lost wake-ups.*  The predicates drop most events, the Delete handler of
  nodes is empty, and a HostSubnet wakes an EgressIPAM only if its HostIP is in
  one of the CIDRs, so a missed one is a namespace or an IP that is never served.
* *Crashes.*  Queues, contexts and gauges are in memory only; a panic in a
  goroutine (too few IPs in an annotation, an instance that is gone) is a crash.
* *Objects that go and come back.*  Machines, nodes, HostSubnets, the EgressIPAM.
* *Boundaries.*  Full CIDRs, CIDRs that are not written with their first
  address, inputs with too few or too many IPs.

### What makes each part correct

* Allocator: an address handed out is free and handed out once; an error is
  returned only when none is left.
* Namespace assignment: no two namespaces hold an address; an assignment is
  never replaced; addresses used in the cloud are spared; every opted-in
  namespace ends up with IPs on its NetNamespace.
* Node assignment: IPs on ready nodes stay; every other IP gets one ready node
  of its zone, the least loaded one; doing it again moves nothing.
* Node placement: every IP in demand ends up on a ready node, and interfaces,
  HostSubnets and gauges agree.
* Life cycle: what was handed out stays under the finalizer until it is taken
  back; a deletion ends; a new EgressIPAM of the same name works.
* Start-up: every replica gets through, the permissions are asked for, one
  leader at a time, and cycles succeed once the secret is there.

## 2. Modules

| module | models | abstract counterpart |
|---|---|---|
| `Addresses` | IPv4 addresses and CIDRs as numbers | |
| `IPAllocation` | the slice and the scan of `getNextAvailableIP` for one CIDR | `IPPool` |
| `NamespaceAssignment` | first half of a cycle, the Namespace controller, the watches, users, the SDN, faults and crashes | |
| `Lifecycle` | `Reconcile` around the cycle, on top of `NamespaceAssignment` | |
| `NodePlans` | the contract of a plan, as operators | |
| `NodeAssignment` | `assignIPsToNodes` step by step | `NodePlanner` |
| `NodePlacement` | second half of a cycle, with machines, interfaces, HostSubnets, gauges, node and HostSubnet watches | |
| `Startup` | from the start of a process to a cycle with valid credentials | |
| `MC...` | the small instances | |
| `IPAllocationProofs`, `NodeAssignmentProofs`, `StartupProofs` | theorems of the module they are named after | |
| `NamespaceAssignmentProofs`, `NamespaceSafetyProofs` | theorems of `NamespaceAssignment` | |
| `NodePlacementProofs`, `NodeRestProofs` | theorems of `NodePlacement` | |
| `LifecycleProofs` | theorems of `Lifecycle`, on top of those of `NamespaceAssignment` | |

How they compose: `NamespaceAssignment` takes the least free address of a set
(`FirstFree`), which is what `IPPool` does and `IPAllocation` is shown to
implement.  `NodePlacement` takes any plan that satisfies `NodePlans!IsPlan`,
which is what `NodePlanner` returns and `NodeAssignment` is shown to implement.
`Lifecycle` extends `NamespaceAssignment` and takes its actions: the cycle of an
EgressIPAM that is not being deleted, the Namespace controller, users and the
SDN are the same actions.  The two halves of a cycle do not share state: the
first half changes only Namespaces and NetNamespaces, the second only interfaces
and HostSubnets, and it sees of the first only the set of IPs in demand.

### State and actions against the code

`IPAllocation`.  `assigned` is `IPsByCIDR[cidr]`.  It is a sequence, as the scan
depends on order and length.  `NextAvailableIP` is one successful call,
`NoAvailableIP` one that fails with either of its two errors.  Used addresses
are inside the CIDR: `IsValid` demands it of reserved ones and the code filters
node and cloud addresses; the three addresses that AWS and Azure reserve after
the base could leave a block only if its base were written close to its end.

`NamespaceAssignment`.  `ns`, `nn` are the API server's objects with their
versions, `nsCache`, `nnCache` the informers', `nsEvents`, `nnEvents` the events
in between.  `Accepts` is optimistic concurrency, `Stored` says that an update
that changes nothing makes no new version.  A cycle is `StartCycle`, one list
action per lister, `SortIPsByCIDR` (or `SortFails`, `SortPanics`, or `CloudSilent`
when AWS does not answer and the error is swallowed), one `AssignIPs` or
`AssignFails` per namespace, `SyncNetNamespace` per goroutine, and an end that
keeps or drops the request.  Every client call has three results: done, refused,
or failed with or without effect.  A missing annotation is the empty sequence.
`UserInputs` are the values of the `egressips` annotation with which users opt in;
they do not edit the value later.  `Read` counts the reads that were stale so that
runs can bound or forbid them.

`Lifecycle`.  `ipam`, `ipamCache`, `ipamEvents` are the EgressIPAM in the API
server, in the cache and in between; `inst` is the copy that `Reconcile` works
for.  `Dismiss` is an EgressIPAM that is gone or invalid (validity is looked at
before deletion), `Initialize` the finalizer's update, `StartLoad` a cycle,
which is `NamespaceAssignment`'s unless `inst` is being deleted.  The four
removals of `manageCleanUpLogic` are `RemoveAnnotation`, `EmptyNetNamespace`,
`EmptyHostSubnet`, `FreeInterface` (`FreeInterfaceFails`), one step per
goroutine; `NextRemoval` collects their errors.  HostSubnets and interfaces are
reduced to whether they carry anything of this EgressIPAM; `PlaceIPs` stands for
the second half of a cycle.

`NodeAssignment`.  `bucket[n]` is the key of `n` in the map from numbers of IPs to
nodes.  `Recalculate` is steps 1 to 7 of the function, `Place` is step 8 for one
IP (any node of the lowest bucket, any order of IPs: Go maps are ranged over in
any order), `Finish` adds the nodes with no IPs.  Of the keys of the map the
abstract planner demands the nodes that are not ready, that carry IPs or that
have a zone, and leaves open which others there are.

`NodePlacement`.  `node` (readiness, whether the selector matches), `hs`
(HostSubnets) and `machines` are the cluster, `nic` the interfaces, `gauge` the
metric `ipAllocated`; `plan`, `keys` are `FinallyAssignedIPsByNode`; `pending` and
`failed` are the channel on which the answers of the goroutines are collected.
`MachineGoes`, `NodeGoes`, `SDNFollows` are the order in which a machine, its node
and its HostSubnet go; in between `CannotPlan` is the error of a listed node
without instance or HostSubnet and `InstancePanics` the panic of the goroutine
that finds none.  The platform decides the end of a cycle: interfaces and
HostSubnets (cloud), HostSubnets (several CIDRs), or one CIDR per HostSubnet
(`AssignCIDR`).  A node's zone comes from its topology label; whether its
HostSubnet wakes the EgressIPAM depends on its HostIP, and the constant
`HostIPInCIDR` says for each platform which nodes have theirs in a CIDR.  The two
are independent: on a cloud the CIDRs are the nodes' subnets, on bare metal nothing
ties the egress CIDRs to the network of the nodes.

`Startup`.  `phase` is where each replica is: the Infrastructure, get, create or
update of the CredentialsRequest, election, active, in a cycle.  Any error before
the manager starts ends the process (`SetupFails`), and so does a lost lease.
`secret` is minted by the cloud credential operator some time after the request
exists; `Rotate` makes the credentials in it invalid until it is minted again.

## 3. Runs

Passing runs (distinct states and seconds with two workers):

| run | instance | checks | states | s |
|---|---|---|---|---|
| `alloc` | seven blocks of 1 to 8 addresses, some not written with their first address, every set of used addresses | `SliceSorted`, `GivenUsable`, refinement `PoolSpec` | 2686 | 2 |
| `ns_fresh` | 3 namespaces, 2 free addresses, the others used in the cloud, 4 user operations, 1 fault, no stale reads | `UniqueAssignments`, `CloudAddressesSpared` | 2.6M | 80 |
| `ns_lag` | 2 namespaces, 3 user operations, 2 stale reads, 1 fault, 1 crash | `ServedAtRest`, `AssignmentKept` | 1.6M | 40 |
| `ns_live` | 2 namespaces, 2 CIDRs, inputs with IPs of the wrong CIDR, too few and too many, 1 stale read, 1 fault; fairness | `NetNamespacesWellFormed`, `EventuallyServed` | 1.3M | 165 |
| `nodes_plan` | 3 nodes, 3 IPs, 2 zones, every input | `BucketsExact`, `Stable`, refinement `PlannerSpec` | 511k | 12 |
| `placement` | 2 nodes that fail, recover and are relabelled, cloud, and bare metal with the nodes' own addresses outside the CIDRs, 3 changes, 1 fault, 1 crash; fairness | `EventuallyCarried` | 417k | 45 |
| `membership` | 2 nodes that fail, recover, leave and join, all three platforms, the nodes' own addresses in the CIDRs, 3 changes, 1 fault, 1 stale read | `CarriedAtRest`, `CIDRsAtRest`, `InterfacesMatchAtRest`, `GaugesAtRest`, `CarriedIPsKept` | 4.2M | 110 |
| `lifecycle` | 2 namespaces, 1 host, cloud; 3 operations on the EgressIPAM, 1 on namespaces, 1 stale read, 1 crash | `HandedOutIsProtected` | 3.6M | 110 |
| `deletion` | 2 namespaces, 2 hosts, cloud and bare metal; 3 operations on the EgressIPAM, 1 fault, 1 crash; fairness | `AnnotationsReleased`, `DeletionCompletes`, `ServedAgain` | 479k | 75 |
| `startup` | 2 replicas, 4 platforms, with and without leader election, 2 faults, 2 crashes or lost leases, 1 rotation; fairness | `PermissionsRequested`, `OneActive`, `SetupCompletes`, `EventuallyWorks` | 224k | 30 |

One run of each module also checks its type invariant.  Deadlock is not checked:
the allocator and the planner terminate, and the controllers come to rest once
the bounded number of user operations, changes, faults and crashes is used up;
`ServedAtRest`, `CarriedAtRest`, `AnnotationsReleased` say what must hold then.

Runs that refute a statement of the repository:

| run | statement | what happens |
|---|---|---|
| `v_stale` | an *available* egressIP is selected (readme) | a cycle that lists namespaces from a cache without the last cycle's writes hands out the same address again; the version check protects the first namespace, not the second |
| `v_optout` | the annotation is the source of truth | an opt-out cleaned up in the middle of a cycle leaves IPs on the NetNamespace: emptying an empty object makes no new version, so the cycle's write is accepted |

### What the hypotheses of the properties say about the code

Some properties hold only outside of states the code does reach and does not
leave by itself.  Each is named by a definition or a bound:

* `HostSubnetsWatched` (the four properties at rest of `NodePlacement`): the nodes
  of the zones have their own addresses in the CIDRs.  Where they do not, the IPs
  of a node that is deleted end up nowhere, since neither the Node (empty handler)
  nor the HostSubnet (HostIP test) wakes the controller, although the readme has
  failed nodes detected and their IPs moved; and a node that leaves and joins
  again while a cycle has its old HostSubnet listed stays without its CIDR.
  `EventuallyCarried` does not assume it: `placement` has nodes that fail, which
  the node watch reports, and none that are deleted.
* `Doubled` (`EventuallyCarried`): one of the two HostSubnet updates of a move
  fails, the node recovers before the retry, and step 5 of `assignIPsToNodes`
  keeps the IP on both nodes; on a cloud the second interface is refused the IP in
  every retry.
* `Abandoned` (`EventuallyCarried`): a node that the selector no longer matches
  keeps the IPs in its HostSubnet and on its interface; nothing takes them away,
  and on a cloud no other interface can have them.  A label change triggers no
  cycle, so `CIDRsAtRest`, `InterfacesMatchAtRest` and `GaugesAtRest` are checked
  and proved without label changes; `CarriedAtRest` is proved with them.
* `ZonesServed` (`EventuallyCarried`): a zone without a ready node stops the
  placement of all zones.
* `Stayers` (`HandedOutIsProtected`, `AnnotationsReleased`): the namespaces that
  neither opt out nor are deleted.  An opt-out that is cleaned up in the middle of
  a cycle leaves IPs on the NetNamespace (`v_optout`), one that is pending when
  the process ends is never cleaned up, since the Namespace controller ignores
  create events, and a namespace that refers to nothing is not seen by the
  clean-up on deletion.  An earlier form of `HandedOutIsProtected` excluded only
  the second of these; the attempt to prove it, and then TLC with two user
  operations, showed that the first breaks it too.  HostSubnets and interfaces are
  protected whatever namespaces do.
* Crashes (`UniqueAssignments` is stated without): the annotation of a namespace
  whose opt-out was forgotten in a crash is not among the used addresses, so its
  address may be given away before it opts in again.
* Invalid EgressIPAMs (`DeletionCompletes`): one that is being deleted and is
  invalid is never cleaned up, until it is mended.
* Stale reads (`AnnotationsReleased` and `UniqueAssignments` are stated without;
  `v_stale` is the counterexample to the second): an annotation that was written
  but is not in the cache when the clean-up lists the namespaces outlives the
  EgressIPAM.
* GCP (`EventuallyWorks`): it counts as a cloud, so a cycle needs the secret, but
  nothing requests it.
* Ill-formed inputs (`EventuallyServed`): IPs outside their CIDR stop the
  EgressIPAM with an error; fewer IPs than CIDRs end the process with a panic,
  again after every restart; both until the input is taken back.  More IPs than
  CIDRs are no error: `NetNamespacesWellFormed` allows them for an input of a user
  and nothing else.  `sortIPsByCIDR` looks at the first ones and the whole
  annotation is copied, although the readme wants exactly one IP per CIDR or an
  error; `NetNamespacesStayExact` needs that users respect this.
* Edits of IPs (`ServedAtRest`, `EventuallyServed`): the predicate on namespaces
  looks at whether the `egressips` annotation is there
  (`egressipam_controller.go:731`), so an edit of its value wakes nobody.  Users
  of the model give IPs only when they opt in.
* Failed calls (`CloudAddressesSpared`): the property is about behaviours in which
  no call has failed, whichever call it is.  The one that matters is the call for
  the used addresses on AWS, whose error is swallowed (`aws.go:64`).
* Keys of the map (`PlannerSpec`): a ready node without a zone that loses its last
  IP is not in the map of `assignIPsToNodes`, so its interface is not freed; the
  comment at `ipam.go:303` wants all nodes in it.
* A full CIDR (`EventuallyServed` is checked with enough addresses): while one
  namespace finds no address, the cycle ends before the NetNamespaces of all.
* A CIDR that is not written with its first address (`GivenUsable`, `PoolSpec`):
  what counts as excluded is the base as written, as in the code; the network
  address, which the comment at `ipam.go:26` means, is handed out.

### Bounds and why they are enough

Two namespaces are needed for a conflict and three for an address that is freed,
given away and wanted back while a third waits.  The pools are so small that they
run out (`ns_fresh`) or so large that they do not, on purpose.  Two stale reads
let the two parallel lists of one cycle, or two cycles in a row, be stale. One
fault and one crash each may hit any step; every retry after them is complete.
`Leavers` limits opt-outs and deletions to one namespace, the others being
interchangeable witnesses.  `ns_live` has one input of each kind.  Two nodes
suffice for a move and its return; three changes let a node fail, an IP be
demanded and the node recover, or a machine go and come back under an IP.
`nodes_plan` needs a third node for a lowest bucket with a choice.  Three
operations on the EgressIPAM are create, delete, create, or create, break and
delete.  Two hosts let one removal fail and the other succeed.  Two replicas race;
two faults and two crashes let each of them fail once.  Bounds appear as constants
`Max...` in guards.  The proofs need none of them.  Symmetry is used only in runs
without liveness.

### Fairness

Weak fairness of event delivery, of each worker and of the restart: informers
and work queues run as long as the process does, a request is put back with a
back-off after an error, and the deployment restarts a process that ends.  The
worker's fairness is that of its whole step, so which of several results a call
has is left open.  The SDN's reaction, the deletion of the node of a machine
that is gone, the expiry of a lease and the cloud credential operator are fair
as well, and somebody takes a free lease.  Users, machines, nodes, faults,
crashes and rotations are never obliged to act; their number is bounded, which
says that calls do not fail for ever.

## 4. Proofs

`tlapm` checks eight modules to the last leaf.  Every invariant and every action
property that a passing run checks is stated by a theorem, as are the two
refinements; the bounds of the runs play no part in them.

The assumptions on constants are the `ASSUME`s of the modules: CIDRs are CIDRs
(`CIDRsAssumption`), used addresses and inputs are numbers (`InUseAssumption`,
`UserAssumption`), there are finitely many IPs with a zone each
(`NodePlansAssumption`), platforms and kinds of change are the ones the code
knows, bounds are natural numbers.  Six theorems need one of `Len(CIDRs) > 0`,
`UserInputs = {}`, `\A u \in UserInputs : Len(u) <= Len(CIDRs)` and
`"labels" \notin Churn`, and say so in their statement; see below.  That the nodes'
own addresses are in the CIDRs (`HostSubnetsWatched`) is a hypothesis inside the
properties at rest.

`IPAllocationProofs`.  The inductive invariant is `TypeOK /\ SliceSorted /\
GivenUsable`; the conjuncts need each other, since that a gap's address is unused
follows from the slice being sorted, and that it stays sorted from the address
belonging in the gap.  The lemmas: `SortIPs` sorts (`SortIPsSorts`), what `Insert`
yields (`InsertProperties`), the first gap holds the least free address
(`GapIsFirstFree`), the length test is exact (`LengthTestExact`), and no gap
means full (`NoGapMeansFull`).  From them `AllocationTypes`, `SliceStaysSorted`,
`HandOutsUsable` and the refinement `AllocatorImplementsPool`, which includes
that "we should never get here" is never returned.

`NodeAssignmentProofs`.  The invariant accounts for every IP (kept, placed or
still to be placed), equates buckets with numbers of IPs (`Counted`), bounds the
imbalance (`Even`) and says which keys the map has (`KeysExact`).  From it
`PlanTypes`, `BucketsStayExact`, `PlansAreStable` and the refinement
`AssignmentImplementsPlanner`.

`NamespaceAssignmentProofs`.  `TypesPreserved` is type correctness of the whole
module, one lemma per group of actions.  `AssignmentsAreKept` is the action
property `AssignmentKept`.  It needs `CopiesCurrent`: every copy of a namespace in
the cache, in an event or in the cycle's list of namespaces still to be handled
has a version no newer than the stored one, and equals it if the version is the
same.  So an update that is accepted was computed from what is stored, and the
cycle computes one only for a namespace that has no IPs.  This holds for any
number of stale reads, faults and crashes, and also when the cloud does not
answer.

`NamespaceSafetyProofs`.  Two lemmas say which steps write a Namespace or a
NetNamespace and what they may write; the theorems rest on them.

* `NetNamespacesStayWellFormed`, with `ToSyncWellFormed`: what a cycle is about to
  copy to a NetNamespace has passed `sortIPsByCIDR` or was handed out in this
  cycle; and with `Shapes`: IPs anywhere, in annotations, caches, events and
  lists, are one for each CIDR or an input of a user.
* `NetNamespacesStayExact` is the readme's statement, if no input has more IPs
  than there are CIDRs.
* `CloudAddressesAreSpared`, with `CloudKnown`: unless a call has failed, the used
  addresses of a cycle contain those of the cloud.
* `AssignmentsAreUnique`, for instances in which users set no IPs themselves (the
  code does not check such IPs against each other), as long as no stale read and
  no crash has happened.  `Follows` says that a cache that differs from what is
  stored has an event on its way, so that a read that is not stale is exact.
  `UniqueInv` adds: the IPs of a namespace that has opted out are owed a clean-up
  (`Owed`), what is held is in the list (`ListComplete`) and then among the used
  addresses (`UsedComplete`) unless such a clean-up is pending.
* `NoWakeUpIsLost` is `ServedAtRest`, for any stale reads, faults, crashes and
  inputs at the opt-in, if there is a CIDR at all.  The predicates drop events, so
  `Follows` is not enough: `WakeUps` says that behind every copy that misses an
  opt-in or has other IPs than the stored namespace there is an event that does
  enqueue, `ListWakes` says the same of a cycle's list, and `Awaited` that every
  namespace is served, or the EgressIPAM is queued or about to be, or the running
  cycle will still copy its IPs or fail.

`NodePlacementProofs`.  `PlacementTypes`, and `CarriedIPsAreKept`, the action
property `CarriedIPsKept`.  As for namespaces, copies of HostSubnets are stored
versions or older ones (`SubnetCopies`), and a plan keeps what the listed
HostSubnets of ready nodes carry (`PlanKeeps`), so an accepted write takes nothing
away that should stay.

`NodeRestProofs`.  What holds at rest: `IPsAreCarriedAtRest`, and without label
changes `CIDRsAreSetAtRest`, `InterfacesMatchSubnetsAtRest`, `GaugesCountAtRest`.
The invariant is `CopiesInv /\ (Calm => Quiet)`.  `CopiesInv`: the events lead
from the caches to what is stored, and a cycle past its planning has a plan for
what it listed.  `Calm`: the nodes' own addresses are in the CIDRs
(`HostSubnetsWatched`, without which a change of a HostSubnet need not enqueue),
nothing is queued, no answer was an error and no event on its way will enqueue.
`Quiet`: in a calm cycle the lists are what is stored, nothing was written (a
write would be an event that enqueues) and the interfaces are what the plan says
so far; between calm cycles everything is in place.

`LifecycleProofs`.  `LifecycleTypes`; `HandedOutStaysProtected` is
`HandedOutIsProtected` for any constants; `AnnotationsAreReleased` is
`AnnotationsReleased`.  `IPAMVersions` and `InstanceVersion`: if the removal of the
finalizer is accepted, the worker's copy of the EgressIPAM is the stored one and
so is the cache, with no event on its way.  `Promises`: whoever hands out IPs
does it for an EgressIPAM that has its finalizer.  `StayersStay`: every list of
the namespaces that stay is complete, however old it is, and the Namespace
controller has no business with them.  `CleanUp` and `AnnotationsCleaned`: after
each removal nothing of its kind is left, unless it failed, which ends the
clean-up before the finalizer.

`StartupProofs`.  `StartupTypes`; `AtMostOneActive` needs that a replica whose
controllers run has the lease (`LeaderHolds`); `PermissionsAreRequested` is
inductive with the types.

Only model-checked: the liveness properties `EventuallyServed`,
`EventuallyCarried`, `DeletionCompletes`, `ServedAgain`, `SetupCompletes` and
`EventuallyWorks`, since liveness under fairness and `ENABLED` are out of the
prover's reach.  Their safety part (nobody is forgotten when everything is at
rest) is what `NoWakeUpIsLost` and the theorems of `NodeRestProofs` prove.

## 5. What is not modelled

* Several EgressIPAMs at once; overlapping ones are declared undefined by the
  readme.  Changes of an EgressIPAM's CIDRs and of the topology labels and
  addresses of nodes.
* Edits of the `egressips` annotation of a namespace that has opted in.
* How used cloud addresses are collected: they are a constant, which is missing
  when an AWS call fails.  The three addresses after a base at the end of its block.
* `ipCapacity` and the cache of instance types behind it: the gauge depends on
  the instance type only and nothing reads it back.
* Azure's load-balancer pools: attributes of a new IP configuration, taken from
  the primary one.
* Flags, scheme registration, health checks, API types and generated code.

## 6. Plan

What the proofs could still say about the code:

1. `AssignmentsAreUnique` with inputs of users: two inputs that agree are the
   users' own doing, but an input must not be handed out to somebody else.
2. `HandedOutStaysProtected` for namespaces that leave, outside of the two
   windows in which the code forgets them.
3. That on a cloud no two interfaces have an address in common, and under which
   failures two HostSubnets do (`Doubled`).
