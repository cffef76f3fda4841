----------------------- MODULE NamespaceSafetyProofs -----------------------
(***************************************************************************)
(* More proofs about NamespaceAssignment: what reaches the NetNamespaces,  *)
(* which addresses are handed out, that no two namespaces hold the same    *)
(* one, and that no wake-up is lost.                                       *)
(***************************************************************************)
EXTENDS NamespaceAssignmentProofs

-----------------------------------------------------------------------------
(* What a step may write                                                   *)

\* The address that is handed out is in its CIDR and not used.
LEMMA NextAvailableIsFree ==
  ASSUME Available, NEW k \in K
  PROVE  InCIDR(CIDRs[k], NextAvailable(k)) /\ NextAvailable(k) \notin used[k]
<1>1. NextAvailable(k) \in FirstFree(CIDRs[k], used[k])
  BY DEF Available, NextAvailable
<1> QED
  BY <1>1 DEF FirstFree, Free, InCIDR

\* What an accepted update stores, but for the version, is what was sent.
LEMMA StoredIsSent ==
  /\ \A s, o \in Namespaces : /\ Stored(s, o).ips = o.ips /\ Stored(s, o).ref = o.ref
                              /\ Stored(s, o).exists = o.exists
  /\ \A s, o \in NetNamespaces : /\ Stored(s, o).ips = o.ips
                                 /\ Stored(s, o).exists = o.exists
<1>1. ASSUME NEW s \in Namespaces, NEW o \in Namespaces
      PROVE  /\ Stored(s, o).ips = o.ips /\ Stored(s, o).ref = o.ref
             /\ Stored(s, o).exists = o.exists
  BY DEF Stored, Namespaces
<1>2. ASSUME NEW s \in NetNamespaces, NEW o \in NetNamespaces
      PROVE  Stored(s, o).ips = o.ips /\ Stored(s, o).exists = o.exists
  BY DEF Stored, NetNamespaces
<1> QED
  BY <1>1, <1>2

\* The egress IPs of a NetNamespace are kept, taken away, or copied from the
\* namespace that the cycle has listed.
NetWrite(n) ==
  \/ nn'[n].ips \in {nn[n].ips, NoIPs}
  \/ pc = "netns" /\ n \in toSync /\ nn'[n].ips = nsList[n].ips

LEMMA WriteNetWrites ==
  ASSUME TypeOK, NEW m \in Names, NEW obj \in NetNamespaces,
         UpdateNet(m, obj) \/ RefusedNet(m, obj) \/ FaultyNet(m, obj),
         NEW n \in Names
  PROVE  nn'[n] = nn[n] \/ (n = m /\ Accepts(nn[m], obj) /\ nn'[n] = Stored(nn[m], obj))
BY DEF TypeOK, APITypeOK, UpdateNet, RefusedNet, FaultyNet, PutNet

LEMMA StepWritesNet ==
  ASSUME TypeOK, [Next]_vars, NEW n \in Names
  PROVE  NetWrite(n)
<1>0. nn[n] \in NetNamespaces /\ nn \in [Names -> NetNamespaces]
  BY DEF TypeOK, APITypeOK
<1>1. CASE SDNStep
  <2>1. PICK m \in Names : CreateNetNamespace(m) \/ DeleteNetNamespace(m)
    BY <1>1 DEF SDNStep
  <2> QED
    BY <1>0, <2>1 DEF CreateNetNamespace, DeleteNetNamespace, PutNet, NetGone, NetWrite
<1>2. ASSUME NEW m \in Names, SyncNetNamespace(m)
      PROVE  NetWrite(n)
  <2>1. NetWithIPs(m) \in NetNamespaces /\ NetWithIPs(m).ips = nsList[m].ips
    BY NetWithIPsType DEF NetWithIPs, TypeOK, CycleTypeOK, NetNamespaces
  <2>2. nn'[n] = nn[n] \/ (n = m /\ nn'[n] = Stored(nn[m], NetWithIPs(m)))
    BY <1>2, <2>1, WriteNetWrites DEF SyncNetNamespace
  <2>3. Stored(nn[m], NetWithIPs(m)).ips = nsList[m].ips
    BY <1>0, <2>1, StoredIsSent
  <2> QED
    BY <1>2, <2>2, <2>3 DEF SyncNetNamespace, NetWrite
<1>3. CASE CleanNetNamespace \/ CleanNetNamespaceFails
  <2> DEFINE obj == [wnn EXCEPT !.ips = NoIPs]
  <2>1. wname \in Names /\ obj \in NetNamespaces /\ obj.ips = NoIPs
    BY <1>3, NoIPsType, WithEgressIPs
       DEF CleanNetNamespace, CleanNetNamespaceFails, TypeOK, WorkerTypeOK, NetNamespaces
  <2>2. nn'[n] = nn[n] \/ (n = wname /\ nn'[n] = Stored(nn[wname], obj))
    BY <1>3, <2>1, WriteNetWrites DEF CleanNetNamespace, CleanNetNamespaceFails
  <2>3. Stored(nn[wname], obj).ips = NoIPs
    BY <1>0, <2>1, StoredIsSent
  <2> QED
    BY <2>2, <2>3 DEF NetWrite
<1>4. CASE \/ UserStep \/ DeliverNamespace \/ DeliverNetNamespace \/ Crash \/ Restart
           \/ UNCHANGED vars
  <2>1. nn' = nn
    BY <1>4 DEF UserStep, CreateNamespace, DeleteNamespace, OptIn, OptOut, ByUser,
       DeliverNamespace, DeliverNetNamespace, Crash, Restart, Stop, vars, apiVars
  <2> QED
    BY <2>1 DEF NetWrite
<1>5. CASE EgressIPAMStep /\ ~(\E m \in Names : SyncNetNamespace(m))
  <2>1. nn' = nn
    BY <1>5 DEF EgressIPAMStep, StartCycle, ListNamespaces, ListNetNamespaces, OtherError,
       SortPanics, SortFails, SortIPsByCIDR, CloudSilent, Sorted, AssignIPs, AssignFails,
       Exhausted, AssignDone, SyncDone, SyncFailed, FinishCycle, Stop, apiVars
  <2> QED
    BY <2>1 DEF NetWrite
<1>6. CASE NamespaceStep /\ ~(CleanNetNamespace \/ CleanNetNamespaceFails)
  <2>1. nn' = nn
    BY <1>6 DEF NamespaceStep, GetNamespace, GetNetNamespace, NothingToClean,
       CleanNamespace, CleanNamespaceFails, apiVars
  <2> QED
    BY <2>1 DEF NetWrite
<1> QED
  BY <1>1, <1>2, <1>3, <1>4, <1>5, <1>6 DEF Next

\* The annotation of a namespace is kept, taken away, set by its user, or
\* written by the cycle with the next available addresses.
NsWrite(n) ==
  \/ ns'[n].ips \in {ns[n].ips, NoIPs} \cup UserInputs
  \/ /\ pc = "assign" /\ n \in todo /\ Available
     /\ ns'[n].ips = [k \in K |-> NextAvailable(k)]

LEMMA WriteNsWrites ==
  ASSUME TypeOK, NEW m \in Names, NEW obj \in Namespaces,
         UpdateNs(m, obj) \/ RefusedNs(m, obj) \/ FaultyNs(m, obj),
         NEW n \in Names
  PROVE  ns'[n] = ns[n] \/ (n = m /\ Accepts(ns[m], obj) /\ ns'[n] = Stored(ns[m], obj))
BY DEF TypeOK, APITypeOK, UpdateNs, RefusedNs, FaultyNs, PutNs

LEMMA StepWritesNs ==
  ASSUME TypeOK, [Next]_vars, NEW n \in Names
  PROVE  NsWrite(n)
<1>0. ns[n] \in Namespaces /\ ns \in [Names -> Namespaces]
  BY DEF TypeOK, APITypeOK
<1>1. CASE UserStep
  <2>1. PICK m \in Names : \/ CreateNamespace(m) \/ DeleteNamespace(m)
                           \/ OptIn(m) \/ OptOut(m)
    BY <1>1 DEF UserStep
  <2>2. PICK new : PutNs(m, new) /\ new.ips \in {ns[m].ips, NoIPs} \cup UserInputs
    <3>1. CASE CreateNamespace(m)
      <4>1. PICK ref \in BOOLEAN : PutNs(m, Edited(m, ref, NoIPs))
        BY <3>1 DEF CreateNamespace
      <4>2. Edited(m, ref, NoIPs).ips = NoIPs
        BY DEF Edited
      <4> QED
        BY <4>1, <4>2
    <3>2. CASE DeleteNamespace(m)
      <4>1. PutNs(m, Gone(ns[m].rv + 1)) /\ Gone(ns[m].rv + 1).ips = NoIPs
        BY <3>2 DEF DeleteNamespace, Gone
      <4> QED
        BY <4>1
    <3>3. CASE OptIn(m)
      <4>1. PICK ips \in {ns[m].ips} \cup UserInputs : PutNs(m, Edited(m, TRUE, ips))
        BY <3>3 DEF OptIn
      <4>2. Edited(m, TRUE, ips).ips = ips
        BY DEF Edited
      <4> QED
        BY <4>1, <4>2
    <3>4. CASE OptOut(m)
      <4>1. PutNs(m, Edited(m, FALSE, ns[m].ips)) /\ Edited(m, FALSE, ns[m].ips).ips = ns[m].ips
        BY <3>4 DEF OptOut, Edited
      <4> QED
        BY <4>1
    <3> QED
      BY <2>1, <3>1, <3>2, <3>3, <3>4
  <2> QED
    BY <1>0, <2>2 DEF PutNs, NsWrite
<1>2. ASSUME NEW m \in Names, AssignIPs(m) \/ AssignFails(m)
      PROVE  NsWrite(n)
  <2>1. WithIPs(m) \in Namespaces /\ WithIPs(m).ips = [k \in K |-> NextAvailable(k)]
    BY <1>2, WithIPsType DEF AssignIPs, AssignFails, WithIPs, TypeOK, CycleTypeOK, Namespaces
  <2>2. ns'[n] = ns[n] \/ (n = m /\ ns'[n] = Stored(ns[m], WithIPs(m)))
    BY <1>2, <2>1, WriteNsWrites DEF AssignIPs, AssignFails
  <2>3. Stored(ns[m], WithIPs(m)).ips = [k \in K |-> NextAvailable(k)]
    BY <1>0, <2>1, StoredIsSent
  <2> QED
    BY <1>2, <2>2, <2>3 DEF AssignIPs, AssignFails, NsWrite
<1>3. CASE CleanNamespace \/ CleanNamespaceFails
  <2> DEFINE obj == [wns EXCEPT !.ips = NoIPs]
  <2>1. wname \in Names /\ obj \in Namespaces /\ obj.ips = NoIPs
    BY <1>3, NoIPsType, WithAnnotation
       DEF CleanNamespace, CleanNamespaceFails, TypeOK, WorkerTypeOK, Namespaces
  <2>2. ns'[n] = ns[n] \/ (n = wname /\ ns'[n] = Stored(ns[wname], obj))
    BY <1>3, <2>1, WriteNsWrites DEF CleanNamespace, CleanNamespaceFails
  <2>3. Stored(ns[wname], obj).ips = NoIPs
    BY <1>0, <2>1, StoredIsSent
  <2> QED
    BY <2>2, <2>3 DEF NsWrite
<1>4. CASE \/ SDNStep \/ DeliverNamespace \/ DeliverNetNamespace \/ Crash \/ Restart
           \/ UNCHANGED vars
  <2>1. ns' = ns
    BY <1>4 DEF SDNStep, CreateNetNamespace, DeleteNetNamespace, BySDN,
       DeliverNamespace, DeliverNetNamespace, Crash, Restart, Stop, vars, apiVars
  <2> QED
    BY <2>1 DEF NsWrite
<1>5. CASE EgressIPAMStep /\ ~(\E m \in Names : AssignIPs(m) \/ AssignFails(m))
  <2>1. ns' = ns
    BY <1>5 DEF EgressIPAMStep, StartCycle, ListNamespaces, ListNetNamespaces, OtherError,
       SortPanics, SortFails, SortIPsByCIDR, CloudSilent, Sorted, SyncNetNamespace,
       Exhausted, AssignDone, SyncDone, SyncFailed, FinishCycle, Stop, apiVars
  <2> QED
    BY <2>1 DEF NsWrite
<1>6. CASE NamespaceStep /\ ~(CleanNamespace \/ CleanNamespaceFails)
  <2>1. ns' = ns
    BY <1>6 DEF NamespaceStep, GetNamespace, GetNetNamespace, NothingToClean,
       CleanNetNamespace, CleanNetNamespaceFails, apiVars
  <2> QED
    BY <2>1 DEF NsWrite
<1> QED
  BY <1>1, <1>2, <1>3, <1>4, <1>5, <1>6 DEF Next

\* What a step may do to the reconcile context of the cycle.
LEMMA CycleMoves ==
  ASSUME [Next]_vars
  PROVE  \/ UNCHANGED <<pc, loading, nsList, nnList, used, todo, toSync, failed>>
         \/ pc' = "idle" /\ NoContext
         \/ StartCycle \/ ListNamespaces \/ ListNetNamespaces
         \/ SortIPsByCIDR \/ CloudSilent
         \/ \E n \in Names : AssignIPs(n) \/ SyncNetNamespace(n)
         \/ AssignDone \/ SyncDone
<1>1. CASE \/ UserStep \/ SDNStep \/ DeliverNamespace \/ DeliverNetNamespace
           \/ NamespaceStep \/ Restart \/ UNCHANGED vars
  BY <1>1 DEF UserStep, CreateNamespace, DeleteNamespace, OptIn, OptOut, ByUser, SDNStep,
     CreateNetNamespace, DeleteNetNamespace, BySDN, DeliverNamespace, DeliverNetNamespace,
     NamespaceStep, GetNamespace, GetNetNamespace, CleanNetNamespace,
     CleanNetNamespaceFails, NothingToClean, CleanNamespace, CleanNamespaceFails, OnWorker,
     Restart, vars, cycleVars, rcVars
<1>2. CASE Crash
  BY <1>2 DEF Crash, Stop
<1>3. CASE EgressIPAMStep
  BY <1>3 DEF EgressIPAMStep, OtherError, SortPanics, SortFails, AssignFails, Exhausted,
     SyncFailed, FinishCycle, EndCycle, Stop
<1> QED
  BY <1>1, <1>2, <1>3 DEF Next

-----------------------------------------------------------------------------
(* What reaches the NetNamespaces                                          *)

\* One IP of each CIDR, in the order of the CIDRs.
OneOfEach(ips) ==
  Len(ips) >= Len(CIDRs) /\ \A k \in K : InCIDR(CIDRs[k], ips[k])

\* The namespaces that are about to be copied have passed sortIPsByCIDR, or
\* have got their IPs in this cycle.
ToSyncWellFormed ==
  pc \in {"assign", "netns"} => \A n \in toSync : OneOfEach(nsList[n].ips)

LEMMA HandedOutIsOneOfEach ==
  ASSUME Available
  PROVE  OneOfEach([k \in K |-> NextAvailable(k)])
<1>1. Len(CIDRs) \in Nat
  BY CIDRsAssumption
<1>2. Len([k \in K |-> NextAvailable(k)]) = Len(CIDRs)
  BY <1>1 DEF K
<1> QED
  BY <1>1, <1>2, NextAvailableIsFree DEF OneOfEach

LEMMA ToSyncStep ==
  ASSUME TypeOK, ToSyncWellFormed, [Next]_vars
  PROVE  ToSyncWellFormed'
<1>1. CASE UNCHANGED <<pc, loading, nsList, nnList, used, todo, toSync, failed>>
  BY <1>1 DEF ToSyncWellFormed
<1>2. CASE pc' = "idle" \/ StartCycle \/ ListNamespaces \/ ListNetNamespaces \/ SyncDone
  BY <1>2 DEF StartCycle, ListNamespaces, ListNetNamespaces, SyncDone, ToSyncWellFormed
<1>3. CASE SortIPsByCIDR \/ CloudSilent
  <2>1. nsList' = nsList /\ toSync' = Assigned /\ \A n \in Assigned : ~Foreign(n) /\ ~TooFew(n)
    BY <1>3 DEF SortIPsByCIDR, CloudSilent, Sorted
  <2>2. ASSUME NEW n \in Assigned
        PROVE  OneOfEach(nsList[n].ips)
    <3>1. Len(nsList[n].ips) \in Nat /\ Len(CIDRs) \in Nat
      BY CIDRsAssumption DEF TypeOK, CycleTypeOK, Namespaces, Assigned, Referring
    <3> QED
      BY <2>1, <3>1 DEF Foreign, TooFew, OneOfEach, K
  <2> QED
    BY <2>1, <2>2 DEF ToSyncWellFormed
<1>4. ASSUME NEW m \in Names, AssignIPs(m)
      PROVE  ToSyncWellFormed'
  <2>1. WithIPs(m).ips = [k \in K |-> NextAvailable(k)]
    BY DEF WithIPs, TypeOK, CycleTypeOK, Namespaces
  <2> QED
    BY <1>4, <2>1, HandedOutIsOneOfEach
       DEF AssignIPs, ToSyncWellFormed, TypeOK, CycleTypeOK
<1>5. ASSUME NEW m \in Names, SyncNetNamespace(m)
      PROVE  ToSyncWellFormed'
  BY <1>5 DEF SyncNetNamespace, ToSyncWellFormed
<1>6. CASE AssignDone
  BY <1>6 DEF AssignDone, ToSyncWellFormed, rcVars
<1> QED
  BY <1>1, <1>2, <1>3, <1>4, <1>5, <1>6, CycleMoves

-----------------------------------------------------------------------------
(* Addresses that are used in the cloud                                    *)

\* The used addresses of a cycle contain those of the cloud, unless a call
\* has failed.
CloudKnown == pc = "assign" /\ faults = 0 => \A k \in K : CloudInUse[k] \subseteq used[k]

\* The number of failed calls grows.
LEMMA FaultsGrow ==
  ASSUME TypeOK, [Next]_vars
  PROVE  faults' = faults \/ faults' = faults + 1
<1>1. CASE \/ UserStep \/ SDNStep \/ DeliverNamespace \/ DeliverNetNamespace
           \/ Crash \/ Restart \/ UNCHANGED vars
  BY <1>1 DEF UserStep, CreateNamespace, DeleteNamespace, OptIn, OptOut, ByUser, SDNStep,
     CreateNetNamespace, DeleteNetNamespace, BySDN, DeliverNamespace, DeliverNetNamespace,
     Crash, Restart, vars, boundVars
<1>2. CASE NamespaceStep
  BY <1>2 DEF NamespaceStep, GetNamespace, GetNetNamespace, CleanNetNamespace,
     CleanNetNamespaceFails, NothingToClean, CleanNamespace, CleanNamespaceFails,
     UpdateNs, RefusedNs, FaultyNs, UpdateNet, RefusedNet, FaultyNet
<1>3. CASE EgressIPAMStep
  BY <1>3 DEF EgressIPAMStep, StartCycle, ListNamespaces, ListNetNamespaces, OtherError,
     SortPanics, SortFails, SortIPsByCIDR, CloudSilent, CloudCallFails, AssignIPs,
     AssignFails, Exhausted, AssignDone, SyncNetNamespace, SyncDone, SyncFailed,
     FinishCycle, UpdateNs, RefusedNs, FaultyNs, UpdateNet, RefusedNet, FaultyNet, boundVars
<1> QED
  BY <1>1, <1>2, <1>3 DEF Next

LEMMA CloudKnownStep ==
  ASSUME TypeOK, CloudKnown, [Next]_vars
  PROVE  CloudKnown'
<1> SUFFICES ASSUME pc' = "assign", faults' = 0, NEW k \in K
             PROVE  CloudInUse[k] \subseteq used'[k]
  BY DEF CloudKnown
<1>0. faults = 0
  BY FaultsGrow DEF TypeOK, BoundsTypeOK
<1>1. CASE UNCHANGED <<pc, loading, nsList, nnList, used, todo, toSync, failed>>
  BY <1>0, <1>1 DEF CloudKnown
<1>2. CASE SortIPsByCIDR
  BY <1>2 DEF SortIPsByCIDR, Sorted, UsedIn
<1>3. CASE CloudSilent
  BY <1>0, <1>3 DEF CloudSilent, CloudCallFails
<1>4. ASSUME NEW m \in Names, AssignIPs(m)
      PROVE  CloudInUse[k] \subseteq used'[k]
  BY <1>0, <1>4 DEF AssignIPs, UsedAfter, CloudKnown
<1>5. CASE StartCycle \/ ListNamespaces \/ ListNetNamespaces \/ AssignDone \/ SyncDone
  BY <1>5 DEF StartCycle, ListNamespaces, ListNetNamespaces, AssignDone, SyncDone
<1>6. ASSUME NEW m \in Names, SyncNetNamespace(m)
      PROVE  CloudInUse[k] \subseteq used'[k]
  BY <1>6 DEF SyncNetNamespace
<1> QED
  BY <1>1, <1>2, <1>3, <1>4, <1>5, <1>6, CycleMoves

LEMMA SparedStep ==
  ASSUME TypeOK, CloudKnown, CloudAddressesSpared, [Next]_vars
  PROVE  CloudAddressesSpared'
<1> SUFFICES ASSUME NEW n \in Names, NEW k \in K \cap DOMAIN ns'[n].ips,
                    ns'[n].ips[k] \in CloudInUse[k], ns'[n].ips \notin UserInputs
             PROVE  faults' > 0
  BY DEF CloudAddressesSpared
<1>0. faults \in Nat /\ (faults' = faults \/ faults' = faults + 1)
  BY FaultsGrow DEF TypeOK, BoundsTypeOK
<1>1. NsWrite(n)
  BY StepWritesNs
<1>2. CASE ns'[n].ips = ns[n].ips
  BY <1>0, <1>2 DEF CloudAddressesSpared
<1>3. CASE ns'[n].ips = NoIPs
  BY <1>3 DEF NoIPs
<1>4. CASE pc = "assign" /\ Available /\ ns'[n].ips = [j \in K |-> NextAvailable(j)]
  <2>1. NextAvailable(k) \in CloudInUse[k] /\ NextAvailable(k) \notin used[k]
    BY <1>4, NextAvailableIsFree
  <2>2. faults # 0
    BY <1>4, <2>1 DEF CloudKnown
  <2> QED
    BY <1>0, <2>2
<1> QED
  BY <1>1, <1>2, <1>3, <1>4 DEF NsWrite

\* For any number of cycles, stale caches and crashes: an address that
\* somebody uses in the cloud is handed out only after a call has failed
\* (GetUsedIPsByCIDR, whose error aws.go swallows).
THEOREM CloudAddressesAreSpared == Spec => []CloudAddressesSpared
<1>1. Init => CloudKnown /\ CloudAddressesSpared
  BY DEF Init, CloudKnown, CloudAddressesSpared, NoIPs
<1>2. TypeOK /\ CloudKnown /\ CloudAddressesSpared /\ [Next]_vars
      => CloudKnown' /\ CloudAddressesSpared'
  BY CloudKnownStep, SparedStep
<1> QED
  BY <1>1, <1>2, InitType, StepType, PTL DEF Spec

-----------------------------------------------------------------------------
(* The informer of the namespaces follows the API server                   *)

\* What a step may do to the namespaces and to what the informer has.
LEMMA NsMoves ==
  ASSUME TypeOK, [Next]_vars
  PROVE  \/ UNCHANGED <<ns, nsCache, nsEvents, up>>
         \/ /\ \E n \in Names : \E new : PutNs(n, new)
            /\ UNCHANGED <<nsCache, up>>
         \/ DeliverNamespace \/ Stop \/ Restart
<1>1. CASE UserStep
  BY <1>1 DEF UserStep, CreateNamespace, DeleteNamespace, OptIn, OptOut, ByUser, cacheVars
<1>2. CASE SDNStep \/ DeliverNetNamespace \/ UNCHANGED vars
  BY <1>2 DEF SDNStep, CreateNetNamespace, DeleteNetNamespace, BySDN, DeliverNetNamespace,
     vars, apiVars, cacheVars
<1>3. CASE Crash \/ SortPanics
  BY <1>3 DEF Crash, SortPanics
<1>4. ASSUME NEW n \in Names, AssignIPs(n) \/ AssignFails(n)
      PROVE  /\ UNCHANGED <<nsCache, up>>
             /\ UNCHANGED <<ns, nsEvents>> \/ \E new : PutNs(n, new)
  BY <1>4 DEF AssignIPs, AssignFails, UpdateNs, RefusedNs, FaultyNs, InCycle, cacheVars
<1>5. CASE CleanNamespace \/ CleanNamespaceFails
  <2>1. UNCHANGED <<ns, nsEvents>> \/ \E new : PutNs(wname, new)
    BY <1>5 DEF CleanNamespace, CleanNamespaceFails, UpdateNs, RefusedNs, FaultyNs
  <2>2. UNCHANGED <<nsCache, up>>
    BY <1>5 DEF CleanNamespace, CleanNamespaceFails, OnWorker, cacheVars
  <2>3. wname \in Names
    BY <1>5 DEF CleanNamespace, CleanNamespaceFails, TypeOK, WorkerTypeOK
  <2> QED
    BY <2>1, <2>2, <2>3
<1>6. CASE EgressIPAMStep /\ ~SortPanics
           /\ ~(\E n \in Names : AssignIPs(n) \/ AssignFails(n))
  BY <1>6 DEF EgressIPAMStep, StartCycle, ListNamespaces, ListNetNamespaces, OtherError,
     SortFails, SortIPsByCIDR, CloudSilent, Sorted, SyncNetNamespace,
     Exhausted, AssignDone, SyncDone, SyncFailed, FinishCycle, InCycle, apiVars, cacheVars
<1>7. CASE NamespaceStep /\ ~(CleanNamespace \/ CleanNamespaceFails)
  BY <1>7 DEF NamespaceStep, GetNamespace, GetNetNamespace, NothingToClean,
     CleanNetNamespace, CleanNetNamespaceFails, OnWorker, apiVars, cacheVars
<1> QED
  BY <1>1, <1>2, <1>3, <1>4, <1>5, <1>6, <1>7 DEF Next

\* The events are about namespaces.
LEMMA EventTypes ==
  ASSUME InformerTypeOK, NEW i \in DOMAIN nsEvents
  PROVE  /\ nsEvents[i].name \in Names
         /\ nsEvents[i].old \in Namespaces /\ nsEvents[i].new \in Namespaces
<1>1. nsEvents[i] \in Events(Namespaces)
  BY DEF InformerTypeOK
<1> QED
  BY <1>1 DEF Events

\* The event of a write is the last one.
LEMMA PutAppends ==
  ASSUME APITypeOK, InformerTypeOK, NEW n \in Names, NEW new, PutNs(n, new)
  PROVE  /\ ns'[n] = new /\ \A m \in Names : m # n => ns'[m] = ns[m]
         /\ \/ nsEvents' = nsEvents /\ (new = ns[n] \/ ~up)
            \/ /\ up /\ nsEvents' = Append(nsEvents, Event(n, ns[n], new))
               /\ DOMAIN nsEvents' = DOMAIN nsEvents \cup {Len(nsEvents) + 1}
               /\ nsEvents'[Len(nsEvents) + 1] = Event(n, ns[n], new)
               /\ \A i \in DOMAIN nsEvents :
                    i < Len(nsEvents) + 1 /\ nsEvents'[i] = nsEvents[i]
<1>1. ns'[n] = new /\ \A m \in Names : m # n => ns'[m] = ns[m]
  BY DEF APITypeOK, PutNs
<1>2. nsEvents \in Seq(Events(Namespaces))
  BY DEF InformerTypeOK
<1>3. CASE up /\ ns[n] # new
  <2>1. nsEvents' = Append(nsEvents, Event(n, ns[n], new))
    BY <1>3 DEF PutNs, Watch
  <2>2. Len(nsEvents) \in Nat /\ DOMAIN nsEvents = 1..Len(nsEvents)
    BY <1>2
  <2>3. DOMAIN nsEvents' = 1..(Len(nsEvents) + 1)
    BY <1>2, <2>1
  <2>4. nsEvents'[Len(nsEvents) + 1] = Event(n, ns[n], new)
    BY <1>2, <2>1
  <2>5. \A i \in DOMAIN nsEvents : i < Len(nsEvents) + 1 /\ nsEvents'[i] = nsEvents[i]
    BY <1>2, <2>1, <2>2
  <2>6. DOMAIN nsEvents' = DOMAIN nsEvents \cup {Len(nsEvents) + 1}
    BY <2>2, <2>3
  <2> QED
    BY <1>1, <1>3, <2>1, <2>4, <2>5, <2>6
<1>4. CASE ~(up /\ ns[n] # new)
  BY <1>1, <1>4 DEF PutNs, Watch
<1> QED
  BY <1>3, <1>4

\* A delivery takes the first event away.
LEMMA DeliveryShifts ==
  ASSUME InformerTypeOK, DeliverNamespace
  PROVE  /\ up /\ UNCHANGED <<ns, up>>
         /\ 1 \in DOMAIN nsEvents /\ nsEvents[1] \in Events(Namespaces)
         /\ nsCache' = [nsCache EXCEPT ![nsEvents[1].name] = nsEvents[1].new]
         /\ DOMAIN nsEvents \subseteq Nat \ {0} /\ DOMAIN nsEvents' \subseteq Nat \ {0}
         /\ \A i \in DOMAIN nsEvents' :
              i + 1 \in DOMAIN nsEvents /\ nsEvents'[i] = nsEvents[i + 1]
         /\ \A j \in DOMAIN nsEvents :
              j = 1 \/ (j - 1 \in DOMAIN nsEvents' /\ nsEvents'[j - 1] = nsEvents[j])
<1>1. nsEvents \in Seq(Events(Namespaces)) /\ nsEvents # << >> /\ nsEvents' = Tail(nsEvents)
  BY DEF InformerTypeOK, DeliverNamespace
<1>2. up /\ UNCHANGED <<ns, up>>
  BY DEF DeliverNamespace, apiVars
<1>3. Head(nsEvents) = nsEvents[1] /\ 1 \in DOMAIN nsEvents /\ nsEvents[1] \in Events(Namespaces)
  BY <1>1
<1>4. nsCache' = [nsCache EXCEPT ![nsEvents[1].name] = nsEvents[1].new]
  BY <1>3 DEF DeliverNamespace
<1>5. /\ DOMAIN nsEvents \subseteq Nat \ {0} /\ DOMAIN nsEvents' \subseteq Nat \ {0}
      /\ \A i \in DOMAIN nsEvents' :
           i + 1 \in DOMAIN nsEvents /\ nsEvents'[i] = nsEvents[i + 1]
  BY <1>1
<1>6. \A j \in DOMAIN nsEvents :
        j = 1 \/ (j - 1 \in DOMAIN nsEvents' /\ nsEvents'[j - 1] = nsEvents[j])
  <2> SUFFICES ASSUME NEW j \in DOMAIN nsEvents, j # 1
               PROVE  j - 1 \in DOMAIN nsEvents' /\ nsEvents'[j - 1] = nsEvents[j]
    OBVIOUS
  <2>1. Len(nsEvents) \in Nat /\ j \in 1..Len(nsEvents) /\ Len(nsEvents') = Len(nsEvents) - 1
    BY <1>1
  <2>2. DOMAIN nsEvents' = 1..Len(nsEvents')
    BY <1>1
  <2>3. j - 1 \in DOMAIN nsEvents'
    BY <2>1, <2>2
  <2> QED
    BY <1>1, <2>1, <2>3
<1> QED
  BY <1>2, <1>3, <1>4, <1>5, <1>6

\* There is an event of n behind position i.
Reported(n, i) == \E j \in DOMAIN nsEvents : j > i /\ nsEvents[j].name = n

\* The cache and every event show the stored namespace, or a later event does.
Follows ==
  /\ up => \A n \in Names : nsCache[n] = ns[n] \/ Reported(n, 0)
  /\ \A i \in DOMAIN nsEvents :
       nsEvents[i].new = ns[nsEvents[i].name] \/ Reported(nsEvents[i].name, i)
  /\ ~up => nsEvents = << >>

\* A cache without undelivered events is up to date.
LEMMA FreshCache ==
  ASSUME APITypeOK, InformerTypeOK, Follows, up, nsEvents = << >>
  PROVE  nsCache = ns
<1>1. \A n \in Names : nsCache[n] = ns[n]
  BY DEF Follows, Reported
<1> QED
  BY <1>1 DEF APITypeOK, InformerTypeOK

\* Writes, deliveries, the end of the process and its restart keep it so.
LEMMA FollowsMoves ==
  ASSUME APITypeOK, InformerTypeOK, Follows,
         \/ UNCHANGED <<ns, nsCache, nsEvents, up>>
         \/ /\ \E n \in Names : \E new : PutNs(n, new)
            /\ UNCHANGED <<nsCache, up>>
         \/ DeliverNamespace \/ Stop
         \/ nsCache' = ns /\ ~up /\ UNCHANGED <<ns, nsEvents>>
  PROVE  Follows'
<1>0. nsEvents \in Seq(Events(Namespaces)) /\ DOMAIN nsEvents \subseteq Nat \ {0}
  BY DEF InformerTypeOK
<1>1. CASE UNCHANGED <<ns, nsCache, nsEvents, up>>
  BY <1>1 DEF Follows, Reported
<1>2. ASSUME NEW n \in Names, NEW new, PutNs(n, new), UNCHANGED <<nsCache, up>>
      PROVE  Follows'
  <2>1. CASE nsEvents' = nsEvents /\ new = ns[n]
    <3>1. \A m \in Names : ns'[m] = ns[m]
      BY <1>2, <2>1, PutAppends
    <3>2. \A i \in DOMAIN nsEvents : nsEvents[i].name \in Names
      BY EventTypes
    <3> QED
      BY <1>2, <2>1, <3>1, <3>2 DEF Follows, Reported
  <2>2. CASE nsEvents' = nsEvents /\ ~up
    BY <1>2, <2>2 DEF Follows
  <2>3. CASE nsEvents' = Append(nsEvents, Event(n, ns[n], new)) /\ up
    <3> DEFINE l == Len(nsEvents) + 1
    <3>1. /\ DOMAIN nsEvents' = DOMAIN nsEvents \cup {l} /\ nsEvents'[l] = Event(n, ns[n], new)
          /\ \A i \in DOMAIN nsEvents : i < l /\ nsEvents'[i] = nsEvents[i]
          /\ ns'[n] = new /\ \A m \in Names : m # n => ns'[m] = ns[m]
      BY <1>2, <2>3, PutAppends
    <3>2. nsEvents'[l].name = n /\ nsEvents'[l].new = new /\ l > 0 /\ l \in DOMAIN nsEvents'
      BY <1>0, <3>1 DEF Event
    <3>3. ASSUME NEW m \in Names
          PROVE  nsCache'[m] = ns'[m] \/ Reported(m, 0)'
      <4>1. CASE m = n
        BY <3>2, <4>1 DEF Reported
      <4>2. CASE m # n
        BY <1>2, <2>3, <3>1, <4>2 DEF Follows, Reported
      <4> QED
        BY <4>1, <4>2
    <3>4. ASSUME NEW i \in DOMAIN nsEvents'
          PROVE  \/ nsEvents'[i].new = ns'[nsEvents'[i].name]
                 \/ Reported(nsEvents[i].name, i)'
      <4>1. CASE i = l
        BY <3>1, <3>2, <4>1
      <4>2. CASE i \in DOMAIN nsEvents
        <5>1. nsEvents[i].name \in Names /\ nsEvents'[i] = nsEvents[i] /\ i < l
          BY <3>1, <4>2, EventTypes
        <5>2. CASE nsEvents[i].name = n
          BY <3>2, <5>1, <5>2 DEF Reported
        <5>3. CASE nsEvents[i].name # n
          BY <3>1, <4>2, <5>1, <5>3 DEF Follows, Reported
        <5> QED
          BY <5>2, <5>3
      <4> QED
        BY <3>1, <3>4, <4>1, <4>2
    <3> QED
      BY <1>2, <2>3, <3>3, <3>4 DEF Follows
  <2> QED
    BY <1>2, <2>1, <2>2, <2>3, PutAppends
<1>3. CASE DeliverNamespace
  <2>1. ASSUME NEW n, NEW i \in Nat, Reported(n, i + 1)
        PROVE  Reported(n, i)'
    <3>1. PICK j \in DOMAIN nsEvents : j > i + 1 /\ nsEvents[j].name = n
      BY <2>1 DEF Reported
    <3>2. j \in Nat /\ j - 1 > i /\ j # 1
      BY <1>0, <2>1, <3>1
    <3>3. j - 1 \in DOMAIN nsEvents' /\ nsEvents'[j - 1] = nsEvents[j]
      BY <1>3, <3>1, <3>2, DeliveryShifts
    <3> QED
      BY <3>1, <3>2, <3>3 DEF Reported
  <2>2. ASSUME NEW n \in Names
        PROVE  nsCache'[n] = ns'[n] \/ Reported(n, 0)'
    <3>1. CASE nsEvents[1].name = n
      <4>1. nsCache'[n] = nsEvents[1].new /\ 1 \in DOMAIN nsEvents /\ ns' = ns
        BY <1>3, <3>1, DeliveryShifts DEF InformerTypeOK
      <4>2. nsEvents[1].new = ns[n] \/ Reported(n, 1)
        BY <3>1, <4>1 DEF Follows
      <4> QED
        BY <2>1, <4>1, <4>2
    <3>2. CASE nsEvents[1].name # n
      <4>1. nsCache'[n] = nsCache[n] /\ ns' = ns /\ up
        BY <1>3, <3>2, DeliveryShifts DEF InformerTypeOK
      <4>2. Reported(n, 0) => Reported(n, 1)
        BY <1>0, <3>2 DEF Reported
      <4> QED
        BY <2>1, <4>1, <4>2 DEF Follows
    <3> QED
      BY <3>1, <3>2
  <2>3. ASSUME NEW i \in DOMAIN nsEvents'
        PROVE  \/ nsEvents'[i].new = ns'[nsEvents'[i].name]
               \/ Reported(nsEvents[i].name, i)'
    <3>1. /\ i \in Nat /\ i + 1 \in DOMAIN nsEvents /\ nsEvents'[i] = nsEvents[i + 1]
          /\ ns' = ns
      BY <1>3, <2>3, DeliveryShifts
    <3>2. \/ nsEvents[i + 1].new = ns[nsEvents[i + 1].name]
          \/ Reported(nsEvents[i + 1].name, i + 1)
      BY <3>1 DEF Follows
    <3>3. Reported(nsEvents[i + 1].name, i + 1) => Reported(nsEvents[i].name, i)'
      <4> HAVE Reported(nsEvents[i + 1].name, i + 1)
      <4>1. PICK j \in DOMAIN nsEvents : j > i + 1 /\ nsEvents[j].name = nsEvents[i + 1].name
        BY DEF Reported
      <4>2. j \in Nat /\ j - 1 > i /\ j # 1
        BY <1>0, <3>1, <4>1
      <4>3. j - 1 \in DOMAIN nsEvents' /\ nsEvents'[j - 1] = nsEvents[j]
        BY <1>3, <4>1, <4>2, DeliveryShifts
      <4> QED
        BY <3>1, <4>1, <4>2, <4>3 DEF Reported
    <3> QED
      BY <3>1, <3>2, <3>3
  <2>4. up /\ up'
    BY <1>3, DeliveryShifts
  <2> QED
    BY <2>2, <2>3, <2>4 DEF Follows
<1>4. CASE Stop
  BY <1>4 DEF Stop, Follows
<1>5. CASE nsCache' = ns /\ ~up /\ UNCHANGED <<ns, nsEvents>>
  BY <1>5 DEF Follows
<1> QED
  BY <1>1, <1>2, <1>3, <1>4, <1>5

LEMMA FollowsStep ==
  ASSUME TypeOK, Follows, [Next]_vars
  PROVE  Follows'
<1>1. CASE Restart
  <2>1. nsCache' = ns /\ ~up /\ UNCHANGED <<ns, nsEvents>>
    BY <1>1 DEF Restart, apiVars
  <2> QED
    BY <2>1, FollowsMoves DEF TypeOK
<1> QED
  BY <1>1, FollowsMoves, NsMoves DEF TypeOK

-----------------------------------------------------------------------------
(* No two namespaces hold the same address.  For instances in which users  *)
(* do not set IPs themselves, and as long as no read was stale and the     *)
(* process has not crashed; v_stale shows what a stale read does.          *)

\* Annotations are absent, have one IP per CIDR, or are a user's.
Shape(ips) == ips = NoIPs \/ ips \in [K -> Nat] \/ ips \in UserInputs

Shapes ==
  /\ \A n \in Names : Shape(ns[n].ips) /\ Shape(nsCache[n].ips) /\ Shape(nsList[n].ips)
  /\ \A i \in DOMAIN nsEvents : Shape(nsEvents[i].new.ips)

\* What is gone holds nothing, and the cycle writes to referring namespaces.
HoldersExist == \A n \in Names : ns[n].ips # NoIPs => ns[n].exists

TodoRefers == pc = "assign" => \A n \in todo : nsList[n].ref

\* The IPs of a namespace that has opted out are about to be taken away.
Owed == \A n \in Names : ns[n].ips # NoIPs /\ ~ns[n].ref => CleanUpPending(n)

\* What is held was listed, and then is among the used addresses.
ListComplete ==
  pc = "load" /\ "namespaces" \notin loading =>
    \A n \in Names : ns[n].ips # NoIPs =>
      CleanUpPending(n) \/ (n \in Assigned /\ nsList[n].ips = ns[n].ips)

UsedComplete ==
  pc = "assign" =>
    \A n \in Names : ns[n].ips # NoIPs =>
      CleanUpPending(n) \/ \A k \in K : ns[n].ips[k] \in used[k]

Unshared ==
  \A n, m \in Names :
    n # m /\ ns[n].ips # NoIPs /\ ns[m].ips # NoIPs /\ SharesAddress(ns[n].ips, ns[m].ips)
      => CleanUpPending(n) \/ CleanUpPending(m)

Fresh == staleReads = 0 /\ crashes = 0

Complete == Owed /\ ListComplete /\ UsedComplete /\ Unshared

UniqueInv ==
  /\ Shapes /\ HoldersExist /\ TodoRefers
  /\ crashes = 0 => up
  /\ Fresh => Complete

\* The counters of stale reads and crashes grow.
LEMMA BoundsGrow ==
  ASSUME TypeOK, [Next]_vars
  PROVE  /\ staleReads' = staleReads \/ staleReads' = staleReads + 1
         /\ crashes' = crashes \/ (crashes' = crashes + 1 /\ Crash)
<1>1. CASE \/ UserStep \/ SDNStep \/ DeliverNamespace \/ DeliverNetNamespace
           \/ Crash \/ Restart \/ UNCHANGED vars
  BY <1>1 DEF UserStep, CreateNamespace, DeleteNamespace, OptIn, OptOut, ByUser, SDNStep,
     CreateNetNamespace, DeleteNetNamespace, BySDN, DeliverNamespace, DeliverNetNamespace,
     Crash, Restart, vars, boundVars
<1>2. CASE NamespaceStep
  BY <1>2 DEF NamespaceStep, GetNamespace, GetNetNamespace, CleanNetNamespace,
     CleanNetNamespaceFails, NothingToClean, CleanNamespace, CleanNamespaceFails,
     OnWorker, Read
<1>3. CASE EgressIPAMStep
  BY <1>3 DEF EgressIPAMStep, StartCycle, ListNamespaces, ListNetNamespaces, OtherError,
     SortPanics, SortFails, SortIPsByCIDR, CloudSilent, Sorted, AssignIPs,
     AssignFails, Exhausted, AssignDone, SyncNetNamespace, SyncDone, SyncFailed,
     FinishCycle, InCycle, Read, boundVars
<1> QED
  BY <1>1, <1>2, <1>3 DEF Next

LEMMA FreshBefore ==
  ASSUME TypeOK, [Next]_vars, Fresh'
  PROVE  Fresh /\ ~Crash
<1>1. crashes \in Nat /\ staleReads \in Nat
  BY DEF TypeOK, BoundsTypeOK
<1> QED
  BY <1>1, BoundsGrow DEF Fresh, Crash

\* Annotations of the right shape do not make sortIPsByCIDR panic.
LEMMA NoPanic ==
  ASSUME TypeOK, Shapes, UserInputs = {}
  PROVE  ~SortPanics
<1> SUFFICES ASSUME NEW n \in Assigned, TooFew(n)
             PROVE  FALSE
  BY DEF SortPanics
<1>1. n \in Names /\ nsList[n].ips # NoIPs
  BY DEF Assigned, Referring
<1>2. nsList[n].ips \in [K -> Nat]
  BY <1>1 DEF Shapes, Shape
<1>3. Len(CIDRs) \in Nat
  BY CIDRsAssumption
<1>4. Len(nsList[n].ips) = Len(CIDRs)
  BY <1>2, <1>3 DEF K
<1> QED
  BY <1>3, <1>4 DEF TooFew

LEMMA HandedOutShape ==
  ASSUME Available
  PROVE  Shape([k \in K |-> NextAvailable(k)])
BY NextAvailableType DEF Shape

LEMMA ShapesStep ==
  ASSUME TypeOK, Shapes, [Next]_vars
  PROVE  Shapes'
<1>0. ASSUME NEW n \in Names
      PROVE  Shape(ns'[n].ips)
  <2>1. NsWrite(n) /\ Shape(ns[n].ips)
    BY StepWritesNs DEF Shapes
  <2> QED
    BY <2>1, HandedOutShape DEF NsWrite, Shape
<1>1. ASSUME NEW n \in Names
      PROVE  Shape(nsList'[n].ips)
  <2>0. Shape(nsList[n].ips) /\ Shape(nsCache[n].ips) /\ Shape(NoIPs)
    BY DEF Shapes, Shape
  <2>1. CASE UNCHANGED <<pc, loading, nsList, nnList, used, todo, toSync, failed>>
    BY <2>0, <2>1
  <2>2. CASE NoContext
    BY <2>0, <2>2 DEF NoContext, NoNamespaces, Gone
  <2>3. CASE ListNamespaces
    BY <2>0, <2>3 DEF ListNamespaces
  <2>4. CASE StartCycle \/ ListNetNamespaces \/ SortIPsByCIDR \/ CloudSilent \/ AssignDone
             \/ SyncDone
    BY <2>0, <2>4 DEF StartCycle, ListNetNamespaces, SortIPsByCIDR, CloudSilent, Sorted,
       AssignDone, SyncDone, rcVars
  <2>5. ASSUME NEW m \in Names, SyncNetNamespace(m)
        PROVE  Shape(nsList'[n].ips)
    BY <2>0, <2>5 DEF SyncNetNamespace
  <2>6. ASSUME NEW m \in Names, AssignIPs(m)
        PROVE  Shape(nsList'[n].ips)
    <3>1. WithIPs(m).ips = [k \in K |-> NextAvailable(k)]
      BY DEF WithIPs, TypeOK, CycleTypeOK, Namespaces
    <3> QED
      BY <2>0, <2>6, <3>1, HandedOutShape DEF AssignIPs, TypeOK, CycleTypeOK
  <2> QED
    BY <2>1, <2>2, <2>3, <2>4, <2>5, <2>6, CycleMoves
<1>2. /\ \A n \in Names : Shape(nsCache'[n].ips)
      /\ \A i \in DOMAIN nsEvents' : Shape(nsEvents'[i].new.ips)
  <2>1. CASE UNCHANGED <<ns, nsCache, nsEvents, up>>
    BY <2>1 DEF Shapes
  <2>2. ASSUME NEW n \in Names, NEW new, PutNs(n, new), UNCHANGED <<nsCache, up>>
        PROVE  /\ \A m \in Names : Shape(nsCache'[m].ips)
               /\ \A i \in DOMAIN nsEvents' : Shape(nsEvents'[i].new.ips)
    <3>1. Event(n, ns[n], new).new = ns'[n]
      BY <2>2, PutAppends DEF Event, TypeOK
    <3> QED
      BY <1>0, <2>2, <3>1, PutAppends DEF Shapes, TypeOK
  <2>3. CASE DeliverNamespace
    BY <2>3, DeliveryShifts DEF Shapes, TypeOK, InformerTypeOK
  <2>4. CASE Stop
    BY <2>4 DEF Stop, NoNamespaces, Gone, Shape
  <2>5. CASE Restart
    BY <2>5 DEF Restart, Shapes, apiVars
  <2> QED
    BY <2>1, <2>2, <2>3, <2>4, <2>5, NsMoves
<1> QED
  BY <1>0, <1>1, <1>2 DEF Shapes, Shape

-----------------------------------------------------------------------------
(* What reaches the NetNamespaces, with the shapes of the annotations      *)

LEMMA ShapesInit == Init => Shapes
BY DEF Init, Shapes, Shape, NoNamespaces, Gone

LEMMA NetStep ==
  ASSUME TypeOK, ToSyncWellFormed, Shapes, NetNamespacesWellFormed, [Next]_vars
  PROVE  NetNamespacesWellFormed'
<1> DEFINE Good(ips) == OneOfEach(ips) /\ (Len(ips) = Len(CIDRs) \/ ips \in UserInputs)
<1> SUFFICES ASSUME NEW n \in Names
             PROVE  nn'[n].ips = NoIPs \/ Good(nn'[n].ips)
  BY DEF NetNamespacesWellFormed, OneOfEach
<1>1. nn[n].ips = NoIPs \/ Good(nn[n].ips)
  BY DEF NetNamespacesWellFormed, OneOfEach
<1>2. ASSUME pc = "netns", n \in toSync
      PROVE  nsList[n].ips = NoIPs \/ Good(nsList[n].ips)
  <2>1. OneOfEach(nsList[n].ips)
    BY <1>2 DEF ToSyncWellFormed
  <2>2. Shape(nsList[n].ips)
    BY DEF Shapes
  <2>3. ASSUME nsList[n].ips \in [K -> Nat]
        PROVE  Len(nsList[n].ips) = Len(CIDRs)
    BY <2>3, CIDRsAssumption DEF K
  <2> QED
    BY <2>1, <2>2, <2>3 DEF Shape
<1>3. NetWrite(n)
  BY StepWritesNet
<1> QED
  BY <1>1, <1>2, <1>3 DEF NetWrite

\* For any inputs of users when they opt in, stale caches, faults and
\* crashes: the IPs of a NetNamespace begin with one IP of each CIDR in its
\* order, and more of them come only from a user's input, whose surplus
\* nobody checks (sortIPsByCIDR, reconcileNetNamespaces).
THEOREM NetNamespacesStayWellFormed == Spec => []NetNamespacesWellFormed
<1>1. Init => ToSyncWellFormed /\ Shapes /\ NetNamespacesWellFormed
  BY ShapesInit DEF Init, ToSyncWellFormed, NetNamespacesWellFormed
<1>2. /\ TypeOK /\ ToSyncWellFormed /\ Shapes /\ NetNamespacesWellFormed /\ [Next]_vars
      => ToSyncWellFormed' /\ Shapes' /\ NetNamespacesWellFormed'
  BY ToSyncStep, ShapesStep, NetStep
<1> QED
  BY <1>1, <1>2, InitType, StepType, PTL DEF Spec

\* If no user gives more IPs than there are CIDRs, every NetNamespace with
\* IPs has exactly as many as there are CIDRs.
THEOREM NetNamespacesStayExact ==
  ASSUME \A u \in UserInputs : Len(u) <= Len(CIDRs)
  PROVE  Spec => []NetNamespacesExact
<1>1. NetNamespacesWellFormed => NetNamespacesExact
  <2> SUFFICES ASSUME NetNamespacesWellFormed, NEW n \in Names, nn[n].ips # NoIPs
               PROVE  Len(nn[n].ips) = Len(CIDRs)
    BY DEF NetNamespacesExact
  <2>1. CASE nn[n].ips \in UserInputs
    <3>1. Len(nn[n].ips) \in Nat /\ Len(CIDRs) \in Nat
      BY <2>1, UserAssumption, CIDRsAssumption
    <3> QED
      BY <2>1, <3>1 DEF NetNamespacesWellFormed
  <2> QED
    BY <2>1 DEF NetNamespacesWellFormed
<1> QED
  BY <1>1, NetNamespacesStayWellFormed, PTL

-----------------------------------------------------------------------------
(* No two namespaces hold the same address, continued                      *)

LEMMA UpStep ==
  ASSUME TypeOK, Shapes, UserInputs = {}, crashes = 0 => up, [Next]_vars, crashes' = 0
  PROVE  crashes = 0 /\ up /\ up' /\ ~Stop
<1>1. crashes = 0 /\ up /\ ~Crash
  BY BoundsGrow DEF TypeOK, BoundsTypeOK, Crash
<1>2. ~SortPanics
  BY NoPanic
<1>3. up' = up
  BY <1>1, <1>2 DEF Next, UserStep, CreateNamespace, DeleteNamespace, OptIn, OptOut, ByUser,
     SDNStep, CreateNetNamespace, DeleteNetNamespace, BySDN, DeliverNamespace,
     DeliverNetNamespace, Restart, NamespaceStep, GetNamespace, GetNetNamespace,
     CleanNetNamespace, CleanNetNamespaceFails, NothingToClean, CleanNamespace,
     CleanNamespaceFails, OnWorker, EgressIPAMStep, StartCycle, ListNamespaces,
     ListNetNamespaces, OtherError, SortFails, SortIPsByCIDR, CloudSilent, Sorted,
     AssignIPs, AssignFails, Exhausted, AssignDone, SyncNetNamespace, SyncDone, SyncFailed,
     FinishCycle, InCycle, vars
<1> QED
  BY <1>1, <1>3 DEF Stop

-----------------------------------------------------------------------------

\* What a step may do to the stored namespace n.
LEMMA NsFates ==
  ASSUME TypeOK, [Next]_vars, NEW n \in Names
  PROVE  \/ ns'[n] = ns[n]
         \/ ~ns'[n].exists /\ ns'[n].ips = NoIPs /\ ~ns'[n].ref
         \/ ~ns[n].exists /\ ns'[n].exists /\ ns'[n].ips = NoIPs
         \/ /\ ns[n].exists /\ ns'[n].exists /\ ~ns[n].ref /\ ns'[n].ref
            /\ ns'[n].ips \in {ns[n].ips} \cup UserInputs
         \/ /\ ns[n].exists /\ ns'[n].exists /\ ns[n].ref /\ ~ns'[n].ref
            /\ ns'[n].ips = ns[n].ips
         \/ /\ AssignIPs(n) \/ AssignFails(n)
            /\ pc = "assign" /\ n \in todo /\ Available /\ Accepts(ns[n], WithIPs(n))
            /\ ns[n].exists /\ ns'[n].exists /\ ns'[n].ref = nsList[n].ref
            /\ ns'[n].ips = [k \in K |-> NextAvailable(k)]
         \/ /\ wpc = "clean_ns" /\ wname = n /\ wns.ips # NoIPs
            /\ Accepts(ns[n], [wns EXCEPT !.ips = NoIPs])
            /\ ns[n].exists /\ ns'[n].exists /\ ns'[n].ref = wns.ref /\ ns'[n].ips = NoIPs
<1>0. ns[n] \in Namespaces /\ ns \in [Names -> Namespaces]
  BY DEF TypeOK, APITypeOK
<1>1. CASE UserStep
  <2>1. PICK m \in Names : \/ CreateNamespace(m) \/ DeleteNamespace(m)
                           \/ OptIn(m) \/ OptOut(m)
    BY <1>1 DEF UserStep
  <2>2. CASE m # n
    <3>1. ns'[n] = ns[n]
      BY <1>0, <2>1, <2>2
         DEF CreateNamespace, DeleteNamespace, OptIn, OptOut, PutNs
    <3> QED
      BY <3>1
  <2>3. CASE m = n
    <3>1. CASE CreateNamespace(n)
      <4>1. PICK ref \in BOOLEAN : PutNs(n, Edited(n, ref, NoIPs))
        BY <3>1 DEF CreateNamespace
      <4>2. ns'[n] = Edited(n, ref, NoIPs)
        BY <1>0, <4>1 DEF PutNs
      <4> QED
        BY <3>1, <4>2 DEF Edited, CreateNamespace
    <3>2. CASE DeleteNamespace(n)
      <4>1. ns'[n] = Gone(ns[n].rv + 1)
        BY <1>0, <3>2 DEF DeleteNamespace, PutNs
      <4> QED
        BY <4>1 DEF Gone
    <3>3. CASE OptIn(n)
      <4>1. PICK ips \in {ns[n].ips} \cup UserInputs : PutNs(n, Edited(n, TRUE, ips))
        BY <3>3 DEF OptIn
      <4>2. ns'[n] = Edited(n, TRUE, ips)
        BY <1>0, <4>1 DEF PutNs
      <4>3. ns'[n].exists /\ ns'[n].ref /\ ns'[n].ips = ips
        BY <4>2 DEF Edited
      <4>4. ns[n].exists /\ ~ns[n].ref
        BY <3>3 DEF OptIn
      <4> QED
        BY <4>1, <4>3, <4>4
    <3>4. CASE OptOut(n)
      <4>1. ns'[n] = Edited(n, FALSE, ns[n].ips)
        BY <1>0, <3>4 DEF OptOut, PutNs
      <4> QED
        BY <3>4, <4>1 DEF Edited, OptOut
    <3> QED
      BY <2>1, <2>3, <3>1, <3>2, <3>3, <3>4
  <2> QED
    BY <2>2, <2>3
<1>2. ASSUME NEW m \in Names, AssignIPs(m) \/ AssignFails(m),
             ns'[n] # ns[n]
      PROVE  /\ AssignIPs(n) \/ AssignFails(n)
             /\ pc = "assign" /\ n \in todo /\ Available /\ Accepts(ns[n], WithIPs(n))
             /\ ns[n].exists /\ ns'[n].exists /\ ns'[n].ref = nsList[n].ref
             /\ ns'[n].ips = [k \in K |-> NextAvailable(k)]
  <2>1. WithIPs(m) \in Namespaces
    BY <1>2, WithIPsType DEF AssignIPs, AssignFails
  <2>2. n = m /\ Accepts(ns[m], WithIPs(m)) /\ ns'[n] = Stored(ns[m], WithIPs(m))
    BY <1>2, <2>1, WriteNsWrites DEF AssignIPs, AssignFails
  <2>3. /\ WithIPs(n).ips = [k \in K |-> NextAvailable(k)]
        /\ WithIPs(n).ref = nsList[n].ref
    BY DEF WithIPs, TypeOK, CycleTypeOK, Namespaces
  <2>4. /\ ns'[n].ips = WithIPs(n).ips /\ ns'[n].ref = WithIPs(n).ref
        /\ ns'[n].exists = WithIPs(n).exists
    BY <1>0, <2>1, <2>2, StoredIsSent
  <2>5. pc = "assign" /\ n \in todo /\ Available
    BY <1>2, <2>2 DEF AssignIPs, AssignFails
  <2>6. ns[n].exists /\ WithIPs(n).exists
    BY <2>2 DEF Accepts
  <2> QED
    BY <1>2, <2>2, <2>3, <2>4, <2>5, <2>6
<1>3. CASE (CleanNamespace \/ CleanNamespaceFails) /\ ns'[n] # ns[n]
  <2> DEFINE obj == [wns EXCEPT !.ips = NoIPs]
  <2>1. /\ wname \in Names /\ obj \in Namespaces
        /\ obj.ips = NoIPs /\ obj.ref = wns.ref
    BY <1>3, NoIPsType, WithAnnotation
       DEF CleanNamespace, CleanNamespaceFails, TypeOK, WorkerTypeOK, Namespaces
  <2>2. n = wname /\ Accepts(ns[wname], obj) /\ ns'[n] = Stored(ns[wname], obj)
    BY <1>3, <2>1, WriteNsWrites DEF CleanNamespace, CleanNamespaceFails
  <2> HIDE DEF obj
  <2>3. ns'[n].ips = obj.ips /\ ns'[n].ref = obj.ref /\ ns'[n].exists = obj.exists
    BY <1>0, <2>1, <2>2, StoredIsSent
  <2> USE DEF obj
  <2>4. wpc = "clean_ns" /\ wns.ips # NoIPs /\ ns[n].exists /\ obj.exists
    BY <1>3, <2>2 DEF CleanNamespace, CleanNamespaceFails, Accepts
  <2> QED
    BY <2>1, <2>2, <2>3, <2>4
<1>4. CASE \/ SDNStep \/ DeliverNamespace \/ DeliverNetNamespace \/ Crash \/ Restart
           \/ UNCHANGED vars
  BY <1>4 DEF SDNStep, CreateNetNamespace, DeleteNetNamespace, BySDN,
     DeliverNamespace, DeliverNetNamespace, Crash, Restart, Stop, vars, apiVars
<1>5. CASE EgressIPAMStep /\ ~(\E m \in Names : AssignIPs(m) \/ AssignFails(m))
  <2>1. ns' = ns
    BY <1>5 DEF EgressIPAMStep, StartCycle, ListNamespaces, ListNetNamespaces, OtherError,
       SortPanics, SortFails, SortIPsByCIDR, CloudSilent, Sorted, SyncNetNamespace,
       Exhausted, AssignDone, SyncDone, SyncFailed, FinishCycle, Stop, apiVars
  <2> QED
    BY <2>1
<1>6. CASE NamespaceStep /\ ~(CleanNamespace \/ CleanNamespaceFails)
  <2>1. ns' = ns
    BY <1>6 DEF NamespaceStep, GetNamespace, GetNetNamespace, NothingToClean,
       CleanNetNamespace, CleanNetNamespaceFails, apiVars
  <2> QED
    BY <2>1
<1> QED
  BY <1>1, <1>2, <1>3, <1>4, <1>5, <1>6 DEF Next

LEMMA HoldersStep ==
  ASSUME TypeOK, HoldersExist, UserInputs = {}, [Next]_vars
  PROVE  HoldersExist'
<1> SUFFICES ASSUME NEW n \in Names, ns'[n].ips # NoIPs
             PROVE  ns'[n].exists
  BY DEF HoldersExist
<1> QED
  BY NsFates DEF HoldersExist

LEMMA TodoRefersStep ==
  ASSUME TypeOK, TodoRefers, [Next]_vars
  PROVE  TodoRefers'
<1>1. CASE UNCHANGED <<pc, loading, nsList, nnList, used, todo, toSync, failed>>
  BY <1>1 DEF TodoRefers
<1>2. CASE \/ pc' = "idle" \/ StartCycle \/ ListNamespaces \/ ListNetNamespaces
           \/ AssignDone \/ SyncDone
  BY <1>2 DEF StartCycle, ListNamespaces, ListNetNamespaces, AssignDone, SyncDone, TodoRefers
<1>3. CASE SortIPsByCIDR \/ CloudSilent
  BY <1>3 DEF SortIPsByCIDR, CloudSilent, Sorted, TodoRefers, Unassigned, Referring
<1>4. ASSUME NEW m \in Names, AssignIPs(m)
      PROVE  TodoRefers'
  BY <1>4 DEF AssignIPs, TodoRefers, TypeOK, CycleTypeOK
<1>5. ASSUME NEW m \in Names, SyncNetNamespace(m)
      PROVE  TodoRefers'
  BY <1>5 DEF SyncNetNamespace, TodoRefers
<1> QED
  BY <1>1, <1>2, <1>3, <1>4, <1>5, CycleMoves

\* The queue and the worker of the Namespace controller change in its own
\* steps, when an event is delivered and when the process ends.
LEMMA WorkerMoves ==
  ASSUME [Next]_vars
  PROVE  \/ UNCHANGED <<nsQueue, wpc, wname, wns, wnn>>
         \/ DeliverNamespace /\ UNCHANGED <<wpc, wname, wns, wnn>>
         \/ NamespaceStep \/ Stop
<1>1. CASE \/ UserStep \/ SDNStep \/ DeliverNamespace \/ DeliverNetNamespace \/ Crash
           \/ Restart \/ UNCHANGED vars
  BY <1>1 DEF UserStep, CreateNamespace, DeleteNamespace, OptIn, OptOut, ByUser, SDNStep,
     CreateNetNamespace, DeleteNetNamespace, BySDN, DeliverNamespace, DeliverNetNamespace,
     Crash, Restart, vars, workerVars
<1>2. CASE EgressIPAMStep
  BY <1>2 DEF EgressIPAMStep, StartCycle, ListNamespaces, ListNetNamespaces, OtherError,
     SortPanics, SortFails, SortIPsByCIDR, CloudSilent, Sorted, AssignIPs,
     AssignFails, Exhausted, AssignDone, SyncNetNamespace, SyncDone, SyncFailed,
     FinishCycle, InCycle, workerVars
<1> QED
  BY <1>1, <1>2 DEF Next

\* With reads that are up to date, a clean-up that is pending stays so until
\* the IPs are gone.
LEMMA PendingStays ==
  ASSUME TypeOK, Follows, HoldersExist, up, ~Stop, Fresh, Fresh', [Next]_vars,
         NEW n \in Names, CleanUpPending(n), ns'[n].ips # NoIPs
  PROVE  CleanUpPending(n)'
<1>0. nsQueue \subseteq Names /\ nsCache \in [Names -> Namespaces]
  BY DEF TypeOK, InformerTypeOK
<1>1. CASE n \in nsQueue
  <2>1. ASSUME NEW m \in Names, GetNamespace(m)
        PROVE  n \in nsQueue' \/ (wpc' # "idle" /\ wname' = n /\ wns'.ips # NoIPs)
    <3>1. CASE m # n
      BY <1>1, <2>1, <3>1 DEF GetNamespace, EndCleanUp
    <3>2. CASE m = n
      <4>1. nsEvents = << >>
        BY <2>1 DEF GetNamespace, Read, Fresh
      <4>2. nsCache[n] = ns[n]
        BY <4>1, FreshCache DEF TypeOK
      <4>3. ns'[n] = ns[n]
        BY <2>1 DEF GetNamespace, apiVars
      <4>4. nsCache[n].exists /\ nsCache[n].ips # NoIPs
        BY <4>2, <4>3 DEF HoldersExist
      <4> QED
        BY <2>1, <3>2, <4>4 DEF GetNamespace
    <3> QED
      BY <3>1, <3>2
  <2>2. CASE NamespaceStep /\ ~\E m \in Names : GetNamespace(m)
    <3>1. n \in nsQueue'
      BY <1>1, <2>2 DEF NamespaceStep, GetNetNamespace, CleanNetNamespace,
         CleanNetNamespaceFails, NothingToClean, CleanNamespace, CleanNamespaceFails,
         EndCleanUp, Retry
    <3> QED
      BY <3>1 DEF CleanUpPending
  <2>3. CASE DeliverNamespace
    <3>1. n \in nsQueue'
      BY <1>1, <2>3 DEF DeliverNamespace
    <3> QED
      BY <3>1 DEF CleanUpPending
  <2> QED
    BY <1>1, <2>1, <2>2, <2>3, WorkerMoves DEF CleanUpPending
<1>2. CASE wpc # "idle" /\ wname = n /\ wns.ips # NoIPs
  <2>1. CASE UNCHANGED <<wpc, wname, wns>>
    BY <1>2, <2>1 DEF CleanUpPending
  <2>2. CASE GetNetNamespace \/ CleanNetNamespace \/ CleanNetNamespaceFails
             \/ CleanNamespaceFails
    <3>1. n \in nsQueue' \/ (wpc' # "idle" /\ UNCHANGED <<wname, wns>>)
      BY <1>2, <2>2 DEF GetNetNamespace, CleanNetNamespace,
         CleanNetNamespaceFails, CleanNamespaceFails, EndCleanUp, Retry
    <3> QED
      BY <1>2, <3>1 DEF CleanUpPending
  <2>3. CASE CleanNamespace
    <3> DEFINE obj == [wns EXCEPT !.ips = NoIPs]
    <3>1. obj \in Namespaces /\ obj.ips = NoIPs /\ ns[n] \in Namespaces
      BY NoIPsType, WithAnnotation DEF TypeOK, WorkerTypeOK, APITypeOK, Namespaces
    <3>2. ns'[n] = Stored(ns[n], obj)
      BY <1>2, <2>3 DEF CleanNamespace, UpdateNs, PutNs, TypeOK, APITypeOK
    <3> HIDE DEF obj
    <3> QED
      BY <3>1, <3>2, StoredIsSent
  <2> QED
    BY <1>2, <2>1, <2>2, <2>3, WorkerMoves DEF NamespaceStep, GetNamespace, NothingToClean
<1>3. ASSUME NEW i \in DOMAIN nsEvents, nsEvents[i].name = n,
             EnqueueForCleanUp(nsEvents[i].old, nsEvents[i].new)
      PROVE  CleanUpPending(n)'
  <2>1. CASE UNCHANGED nsEvents
    BY <1>3, <2>1 DEF CleanUpPending
  <2>2. ASSUME NEW m \in Names, NEW new, PutNs(m, new)
        PROVE  CleanUpPending(n)'
    <3>1. i \in DOMAIN nsEvents' /\ nsEvents'[i] = nsEvents[i]
      BY <1>3, <2>2, PutAppends DEF TypeOK
    <3> QED
      BY <1>3, <3>1 DEF CleanUpPending
  <2>3. CASE DeliverNamespace /\ i = 1
    <3>1. Head(nsEvents) = nsEvents[1]
      BY <2>3 DEF DeliverNamespace, TypeOK, InformerTypeOK
    <3>2. n \in nsQueue'
      BY <1>3, <2>3, <3>1 DEF DeliverNamespace
    <3> QED
      BY <3>2 DEF CleanUpPending
  <2>4. CASE DeliverNamespace /\ i # 1
    <3>1. i - 1 \in DOMAIN nsEvents' /\ nsEvents'[i - 1] = nsEvents[i]
      BY <1>3, <2>4, DeliveryShifts DEF TypeOK
    <3> QED
      BY <1>3, <3>1 DEF CleanUpPending
  <2> QED
    BY <2>1, <2>2, <2>3, <2>4, NsMoves DEF Restart
<1> QED
  BY <1>1, <1>2, <1>3 DEF CleanUpPending

\* An opt-out is reported to the Namespace controller.
LEMMA OptOutReported ==
  ASSUME TypeOK, up, [Next]_vars, NEW n \in Names,
         ns[n].exists, ns'[n].exists, ns[n].ref, ~ns'[n].ref
  PROVE  CleanUpPending(n)'
<1>1. PICK m \in Names : \E new : PutNs(m, new)
  BY NsMoves DEF DeliverNamespace, Stop, Restart, apiVars
<1>2. PICK new : PutNs(m, new)
  BY <1>1
<1>3. m = n /\ new = ns'[n] /\ new # ns[n]
  BY <1>2, PutAppends DEF TypeOK
<1>4. /\ Len(nsEvents) + 1 \in DOMAIN nsEvents'
      /\ nsEvents'[Len(nsEvents) + 1] = Event(n, ns[n], ns'[n])
  BY <1>2, <1>3, PutAppends DEF TypeOK
<1>5. EnqueueForCleanUp(Event(n, ns[n], ns'[n]).old, Event(n, ns[n], ns'[n]).new)
  BY DEF EnqueueForCleanUp, Event
<1>6. Event(n, ns[n], ns'[n]).name = n
  BY DEF Event
<1> QED
  BY <1>4, <1>5, <1>6 DEF CleanUpPending

\* The steps that change the IPs of a namespace to others are assignments.
LEMMA KeptOrAssigned ==
  ASSUME TypeOK, UserInputs = {}, [Next]_vars, NEW n \in Names, ns'[n].ips # NoIPs
  PROVE  ns'[n].ips = ns[n].ips \/ AssignIPs(n) \/ AssignFails(n)
BY NsFates

LEMMA OwedStep ==
  ASSUME TypeOK, Follows, HoldersExist, TodoRefers, up, ~Stop, Fresh, Fresh',
         UserInputs = {}, Owed, [Next]_vars
  PROVE  Owed'
<1> SUFFICES ASSUME NEW n \in Names, ns'[n].ips # NoIPs, ~ns'[n].ref
             PROVE  CleanUpPending(n)'
  BY DEF Owed
<1>1. CASE ns'[n] = ns[n]
  BY <1>1, PendingStays DEF Owed
<1>2. CASE ns[n].exists /\ ns'[n].exists /\ ns[n].ref
  BY <1>2, OptOutReported
<1>3. CASE pc = "assign" /\ n \in todo /\ ns'[n].ref = nsList[n].ref
  BY <1>3 DEF TodoRefers
<1> QED
  BY <1>1, <1>2, <1>3, NsFates

LEMMA ListCompleteStep ==
  ASSUME TypeOK, Follows, HoldersExist, up, ~Stop, Fresh, Fresh', UserInputs = {},
         Owed, ListComplete, [Next]_vars
  PROVE  ListComplete'
<1> SUFFICES ASSUME pc' = "load", "namespaces" \notin loading',
                    NEW n \in Names, ns'[n].ips # NoIPs, ~CleanUpPending(n)'
             PROVE  n \in Assigned' /\ nsList'[n].ips = ns'[n].ips
  BY DEF ListComplete
<1>0. ~CleanUpPending(n)
  BY PendingStays
<1>1. CASE pc = "load" /\ "namespaces" \notin loading /\ nsList' = nsList
  <2>1. ns'[n].ips = ns[n].ips
    BY <1>1, KeptOrAssigned DEF AssignIPs, AssignFails
  <2>2. n \in Assigned /\ nsList[n].ips = ns[n].ips
    BY <1>0, <1>1, <2>1 DEF ListComplete
  <2> QED
    BY <1>1, <2>1, <2>2 DEF Assigned, Referring
<1>2. CASE ListNamespaces
  <2>1. nsEvents = << >> /\ ns' = ns /\ nsList' = nsCache
    BY <1>2 DEF ListNamespaces, Read, Fresh, apiVars
  <2>2. nsList' = ns
    BY <2>1, FreshCache DEF TypeOK
  <2>3. ns[n].exists /\ ns[n].ref
    BY <1>0, <2>1 DEF HoldersExist, Owed
  <2> QED
    BY <2>1, <2>2, <2>3 DEF Assigned, Referring
<1>3. CASE \/ StartCycle \/ ListNetNamespaces \/ SortIPsByCIDR \/ CloudSilent
           \/ AssignDone \/ SyncDone
  BY <1>1, <1>3 DEF StartCycle, ListNetNamespaces, SortIPsByCIDR, CloudSilent, Sorted,
     AssignDone, SyncDone
<1>4. ASSUME NEW m \in Names, AssignIPs(m) \/ SyncNetNamespace(m)
      PROVE  FALSE
  BY <1>4 DEF AssignIPs, SyncNetNamespace
<1> QED
  BY <1>1, <1>2, <1>3, <1>4, CycleMoves

LEMMA UsedCompleteStep ==
  ASSUME TypeOK, Follows, Shapes, HoldersExist, up, ~Stop, Fresh, Fresh', UserInputs = {},
         ListComplete, UsedComplete, [Next]_vars
  PROVE  UsedComplete'
<1> SUFFICES ASSUME pc' = "assign", NEW n \in Names, ns'[n].ips # NoIPs, ~CleanUpPending(n)',
                    NEW k \in K
             PROVE  ns'[n].ips[k] \in used'[k]
  BY DEF UsedComplete
<1>0. ~CleanUpPending(n)
  BY PendingStays
<1>1. CASE UNCHANGED <<pc, loading, nsList, nnList, used, todo, toSync, failed>>
  <2>1. ~AssignFails(n)
    BY DEF AssignFails, EndCycle
  <2>2. ~AssignIPs(n)
    BY <1>1 DEF AssignIPs
  <2> QED
    BY <1>0, <1>1, <2>1, <2>2, KeptOrAssigned DEF UsedComplete
<1>2. CASE SortIPsByCIDR \/ CloudSilent
  <2>1. AtSort /\ ns' = ns /\ KnownIn(k) \subseteq used'[k]
    BY <1>2 DEF SortIPsByCIDR, CloudSilent, Sorted, UsedIn, apiVars
  <2>2. n \in Assigned /\ nsList[n].ips = ns[n].ips
    BY <1>0, <2>1 DEF AtSort, ListComplete
  <2> QED
    BY <2>1, <2>2 DEF KnownIn
<1>3. ASSUME NEW m \in Names, AssignIPs(m)
      PROVE  ns'[n].ips[k] \in used'[k]
  <2>1. used'[k] = used[k] \cup {NextAvailable(k)} /\ pc = "assign" /\ ~AssignFails(n)
    BY <1>3 DEF AssignIPs, UsedAfter, AssignFails, EndCycle
  <2>2. CASE ns'[n].ips = ns[n].ips
    BY <1>0, <2>1, <2>2 DEF UsedComplete
  <2>3. CASE AssignIPs(n)
    <3>1. ns'[n].ips = ns[n].ips \/ ns'[n].ips = [j \in K |-> NextAvailable(j)]
      BY NsFates
    <3> QED
      BY <2>1, <2>2, <3>1
  <2> QED
    BY <2>1, <2>2, <2>3, KeptOrAssigned
<1>4. CASE StartCycle \/ ListNamespaces \/ ListNetNamespaces \/ AssignDone \/ SyncDone
  BY <1>4 DEF StartCycle, ListNamespaces, ListNetNamespaces, AssignDone, SyncDone
<1>5. ASSUME NEW m \in Names, SyncNetNamespace(m)
      PROVE  FALSE
  BY <1>5 DEF SyncNetNamespace
<1> QED
  BY <1>1, <1>2, <1>3, <1>4, <1>5, CycleMoves

\* What is handed out to n is shared with nobody whose IPs are used.
LEMMA HandedOutUnshared ==
  ASSUME TypeOK, Follows, Shapes, HoldersExist, up, ~Stop, Fresh, Fresh', UserInputs = {},
         UsedComplete, [Next]_vars,
         NEW n \in Names, NEW m \in Names, n # m,
         ns'[n].ips # NoIPs, ns'[m].ips # NoIPs, ns'[n].ips # ns[n].ips,
         SharesAddress(ns'[n].ips, ns'[m].ips)
  PROVE  CleanUpPending(m)'
<1>1. /\ AssignIPs(n) \/ AssignFails(n)
      /\ pc = "assign" /\ Available /\ ns'[n].ips = [k \in K |-> NextAvailable(k)]
  BY NsFates
<1>2. ns'[m] = ns[m]
  <2>1. WithIPs(n) \in Namespaces
    BY <1>1, WithIPsType
  <2> QED
    BY <1>1, <2>1, WriteNsWrites DEF AssignIPs, AssignFails
<1>3. PICK k \in K : ns'[m].ips[k] = NextAvailable(k)
  <2>1. DOMAIN ns'[n].ips = K
    BY <1>1
  <2>2. PICK k \in DOMAIN ns'[n].ips \cap DOMAIN ns'[m].ips : ns'[n].ips[k] = ns'[m].ips[k]
    BY DEF SharesAddress
  <2> QED
    BY <1>1, <2>1, <2>2
<1>4. NextAvailable(k) \notin used[k]
  BY <1>1, NextAvailableIsFree
<1>5. CleanUpPending(m)
  BY <1>1, <1>2, <1>3, <1>4 DEF UsedComplete
<1> QED
  BY <1>5, PendingStays

LEMMA UnsharedStep ==
  ASSUME TypeOK, Follows, Shapes, HoldersExist, up, ~Stop, Fresh, Fresh', UserInputs = {},
         UsedComplete, Unshared, [Next]_vars
  PROVE  Unshared'
<1> SUFFICES ASSUME NEW n \in Names, NEW m \in Names, n # m,
                    ns'[n].ips # NoIPs, ns'[m].ips # NoIPs,
                    SharesAddress(ns'[n].ips, ns'[m].ips)
             PROVE  CleanUpPending(n)' \/ CleanUpPending(m)'
  BY DEF Unshared, SharesAddress
<1>1. CASE ns'[n].ips # ns[n].ips
  BY <1>1, HandedOutUnshared
<1>2. CASE ns'[m].ips # ns[m].ips
  <2>1. SharesAddress(ns'[m].ips, ns'[n].ips)
    BY DEF SharesAddress
  <2> QED
    BY <1>2, <2>1, HandedOutUnshared
<1>3. CASE ns'[n].ips = ns[n].ips /\ ns'[m].ips = ns[m].ips
  <2>1. CleanUpPending(n) \/ CleanUpPending(m)
    BY <1>3 DEF Unshared
  <2> QED
    BY <2>1, PendingStays
<1> QED
  BY <1>1, <1>2, <1>3

LEMMA UniqueStep ==
  ASSUME TypeOK, Follows, UniqueInv, UserInputs = {}, [Next]_vars
  PROVE  UniqueInv'
<1>1. Shapes' /\ HoldersExist' /\ TodoRefers'
  BY ShapesStep, HoldersStep, TodoRefersStep DEF UniqueInv
<1>2. crashes' = 0 => up'
  BY UpStep DEF UniqueInv
<1>3. ASSUME Fresh'
      PROVE  Complete'
  <2>1. Fresh
    BY <1>3, FreshBefore
  <2>2. up /\ ~Stop
    BY <1>3, UpStep DEF UniqueInv, Fresh
  <2>3. Owed /\ ListComplete /\ UsedComplete /\ Unshared
    BY <2>1 DEF UniqueInv, Complete
  <2>4. Owed' /\ ListComplete' /\ UsedComplete' /\ Unshared'
    BY <1>3, <2>1, <2>2, <2>3, OwedStep, ListCompleteStep, UsedCompleteStep, UnsharedStep
       DEF UniqueInv
  <2> QED
    BY <2>4 DEF Complete
<1> QED
  BY <1>1, <1>2, <1>3 DEF UniqueInv

LEMMA UniqueInit ==
  ASSUME Init
  PROVE  Follows /\ UniqueInv
<1>1. Follows
  BY DEF Init, Follows
<1>2. Shapes
  BY DEF Init, Shapes, Shape, NoNamespaces, Gone
<1>3. HoldersExist /\ TodoRefers /\ up
  BY DEF Init, HoldersExist, TodoRefers
<1>4. Complete
  BY DEF Init, Complete, Owed, ListComplete, UsedComplete, Unshared
<1> QED
  BY <1>1, <1>2, <1>3, <1>4 DEF UniqueInv

\* For any names, CIDRs, users, faults and interleavings of the two
\* controllers: as long as no cache was read while it trailed the API server
\* and the process has not crashed, no two namespaces hold the same egress
\* IP, but for the window of a clean-up (assignIPsToNamespaces; what users
\* set themselves is left out, as the code does not check it).
THEOREM AssignmentsAreUnique ==
  ASSUME UserInputs = {}
  PROVE  Spec => [](staleReads = 0 /\ crashes = 0 => UniqueAssignments)
<1>1. Init => Follows /\ UniqueInv
  BY UniqueInit
<1>2. TypeOK /\ Follows /\ UniqueInv /\ [Next]_vars => Follows' /\ UniqueInv'
  BY FollowsStep, UniqueStep
<1>3. UniqueInv => (staleReads = 0 /\ crashes = 0 => UniqueAssignments)
  BY DEF UniqueInv, Fresh, Complete, Unshared, UniqueAssignments, Holds
<1> QED
  BY <1>1, <1>2, <1>3, InitType, StepType, PTL DEF Spec

-----------------------------------------------------------------------------
(* No wake-up is lost.                                                     *)
(*                                                                         *)
(* The predicates of the informers let only some changes through.  The     *)
(* argument: whoever looks at a copy of a namespace that lacks something   *)
(* the cycle would have to act on has, behind that copy, an event that     *)
(* does enqueue the EgressIPAM.                                            *)

\* Behind position i there is an event of n that enqueues the EgressIPAM.
Woken(n, i) ==
  \E j \in DOMAIN nsEvents :
    /\ j > i /\ nsEvents[j].name = n
    /\ EnqueueForNamespace(nsEvents[j].old, nsEvents[j].new)

\* The stored namespace has opted in, and its copy o shows no opt-in or
\* other IPs.
Behind(stored, o) == stored.ref /\ (~o.ref \/ o.ips # stored.ips)

WakeUps ==
  /\ up => \A n \in Names : Behind(ns[n], nsCache[n]) => Woken(n, 0)
  /\ \A i \in DOMAIN nsEvents :
       Behind(ns[nsEvents[i].name], nsEvents[i].new) => Woken(nsEvents[i].name, i)
  /\ ~up => nsEvents = << >> /\ pc = "idle"

\* The cycle has listed the namespaces.
Listed == pc \in {"assign", "netns", "nodes"} \/ (pc = "load" /\ "namespaces" \notin loading)

\* A cycle that works with a copy that is behind will be followed by another.
ListWakes ==
  up /\ Listed => \A n \in Names : Behind(ns[n], nsList[n]) => queued \/ Woken(n, 0)

\* What refers to the EgressIPAM exists, and the Namespace worker's copy is
\* a version of the stored namespace.
RefsExist ==
  /\ \A n \in Names : /\ ns[n].ref => ns[n].exists
                      /\ nsCache[n].ref => nsCache[n].exists
                      /\ nsList[n].ref => nsList[n].exists
  /\ \A i \in DOMAIN nsEvents : nsEvents[i].new.ref => nsEvents[i].new.exists

WorkerCopy == wpc # "idle" => IsVersion(wname, wns)

\* There is an event of the NetNamespace n that is more than its deletion.
NetWoken(n) ==
  \E i \in DOMAIN nnEvents :
    /\ nnEvents[i].name = n
    /\ nnEvents[i].new.exists
    /\ ~nnEvents[i].old.exists \/ nnEvents[i].old.ips # nnEvents[i].new.ips

\* Nothing is left to do for n.
Fine(n) == ns[n].exists /\ ns[n].ref /\ nn[n].exists => Served(n)

\* The running cycle will copy the IPs of n, or fail and be repeated.
Handled(n) ==
  \/ pc = "load"
  \/ pc = "assign" /\ n \in todo \cup toSync
  \/ pc = "netns" /\ (n \in toSync \/ failed)

Awaited ==
  up => \A n \in Names : Fine(n) \/ queued \/ Woken(n, 0) \/ NetWoken(n) \/ Handled(n)

LEMMA RefsExistStep ==
  ASSUME TypeOK, RefsExist, [Next]_vars
  PROVE  RefsExist'
<1>0. ASSUME NEW n \in Names, ns'[n].ref
      PROVE  ns'[n].exists
  BY <1>0, NsFates DEF RefsExist
<1>1. ASSUME NEW n \in Names, nsList'[n].ref
      PROVE  nsList'[n].exists
  <2>1. CASE UNCHANGED <<pc, loading, nsList, nnList, used, todo, toSync, failed>>
    BY <1>1, <2>1 DEF RefsExist
  <2>2. CASE NoContext
    BY <1>1, <2>2 DEF NoContext, NoNamespaces, Gone
  <2>3. CASE ListNamespaces
    BY <1>1, <2>3 DEF ListNamespaces, RefsExist
  <2>4. CASE StartCycle \/ ListNetNamespaces \/ SortIPsByCIDR \/ CloudSilent \/ AssignDone
             \/ SyncDone
    BY <1>1, <2>4 DEF StartCycle, ListNetNamespaces, SortIPsByCIDR, CloudSilent, Sorted,
       AssignDone, SyncDone, rcVars, RefsExist
  <2>5. ASSUME NEW m \in Names, SyncNetNamespace(m)
        PROVE  nsList'[n].exists
    BY <1>1, <2>5 DEF SyncNetNamespace, RefsExist
  <2>6. ASSUME NEW m \in Names, AssignIPs(m)
        PROVE  nsList'[n].exists
    <3>1. WithIPs(m).ref = nsList[m].ref /\ WithIPs(m).exists = nsList[m].exists
      BY DEF WithIPs, TypeOK, CycleTypeOK, Namespaces
    <3> QED
      BY <1>1, <2>6, <3>1 DEF AssignIPs, TypeOK, CycleTypeOK, RefsExist
  <2> QED
    BY <2>1, <2>2, <2>3, <2>4, <2>5, <2>6, CycleMoves
<1>2. /\ \A n \in Names : nsCache'[n].ref => nsCache'[n].exists
      /\ \A i \in DOMAIN nsEvents' : nsEvents'[i].new.ref => nsEvents'[i].new.exists
  <2>1. CASE UNCHANGED <<ns, nsCache, nsEvents, up>>
    BY <2>1 DEF RefsExist
  <2>2. ASSUME NEW n \in Names, NEW new, PutNs(n, new), UNCHANGED <<nsCache, up>>
        PROVE  /\ \A m \in Names : nsCache'[m].ref => nsCache'[m].exists
               /\ \A i \in DOMAIN nsEvents' : nsEvents'[i].new.ref => nsEvents'[i].new.exists
    <3>1. Event(n, ns[n], new).new = ns'[n]
      BY <2>2, PutAppends DEF Event, TypeOK
    <3> QED
      BY <1>0, <2>2, <3>1, PutAppends DEF RefsExist, TypeOK
  <2>3. CASE DeliverNamespace
    BY <2>3, DeliveryShifts DEF RefsExist, TypeOK, InformerTypeOK
  <2>4. CASE Stop
    BY <2>4 DEF Stop, NoNamespaces, Gone
  <2>5. CASE Restart
    BY <2>5 DEF Restart, RefsExist, apiVars
  <2> QED
    BY <2>1, <2>2, <2>3, <2>4, <2>5, NsMoves
<1> QED
  BY <1>0, <1>1, <1>2 DEF RefsExist

\* Versions grow with every change.
LEMMA NamespacesGrow ==
  ASSUME TypeOK, [Next]_vars, NEW n \in Names
  PROVE  Grows(n)
<1>0. ns[n] \in Namespaces /\ ns \in [Names -> Namespaces] /\ ns[n].rv \in Nat
  BY DEF TypeOK, APITypeOK, Namespaces
<1>1. CASE UserStep
  <2>1. PICK m \in Names : \/ CreateNamespace(m) \/ DeleteNamespace(m)
                           \/ OptIn(m) \/ OptOut(m)
    BY <1>1 DEF UserStep
  <2>a. \A ref, ips : Edited(m, ref, ips).rv = ns[m].rv + 1
    BY DEF Edited
  <2>b. Gone(ns[m].rv + 1).rv = ns[m].rv + 1
    BY DEF Gone
  <2>2. PICK new : PutNs(m, new) /\ new.rv = ns[m].rv + 1
    BY <2>1, <2>a, <2>b DEF CreateNamespace, DeleteNamespace, OptIn, OptOut
  <2> QED
    BY <1>0, <2>2 DEF PutNs, Grows
<1>2. ASSUME NEW m \in Names, AssignIPs(m) \/ AssignFails(m)
      PROVE  Grows(n)
  <2>1. WithIPs(m) \in Namespaces
    BY <1>2, WithIPsType DEF AssignIPs, AssignFails
  <2>2. \/ ns'[n] = ns[n]
        \/ n = m /\ Accepts(ns[m], WithIPs(m)) /\ ns'[n] = Stored(ns[m], WithIPs(m))
    BY <1>2, <2>1, WriteNsWrites DEF AssignIPs, AssignFails
  <2> QED
    BY <1>0, <2>1, <2>2, AcceptedGrows DEF Grows
<1>3. CASE CleanNamespace \/ CleanNamespaceFails
  <2> DEFINE obj == [wns EXCEPT !.ips = NoIPs]
  <2>1. wname \in Names /\ obj \in Namespaces
    BY <1>3, NoIPsType, WithAnnotation
       DEF CleanNamespace, CleanNamespaceFails, TypeOK, WorkerTypeOK
  <2>2. \/ ns'[n] = ns[n]
        \/ n = wname /\ Accepts(ns[wname], obj) /\ ns'[n] = Stored(ns[wname], obj)
    BY <1>3, <2>1, WriteNsWrites DEF CleanNamespace, CleanNamespaceFails
  <2> HIDE DEF obj
  <2> QED
    BY <1>0, <2>1, <2>2, AcceptedGrows DEF Grows
<1>4. CASE \/ SDNStep \/ DeliverNamespace \/ DeliverNetNamespace \/ Crash \/ Restart
           \/ UNCHANGED vars
  BY <1>4 DEF SDNStep, CreateNetNamespace, DeleteNetNamespace, BySDN,
     DeliverNamespace, DeliverNetNamespace, Crash, Restart, Stop, vars, apiVars, Grows
<1>5. CASE EgressIPAMStep /\ ~(\E m \in Names : AssignIPs(m) \/ AssignFails(m))
  <2>1. ns' = ns
    BY <1>5 DEF EgressIPAMStep, StartCycle, ListNamespaces, ListNetNamespaces, OtherError,
       SortPanics, SortFails, SortIPsByCIDR, CloudSilent, Sorted, SyncNetNamespace,
       Exhausted, AssignDone, SyncDone, SyncFailed, FinishCycle, Stop, apiVars
  <2> QED
    BY <2>1 DEF Grows
<1>6. CASE NamespaceStep /\ ~(CleanNamespace \/ CleanNamespaceFails)
  <2>1. ns' = ns
    BY <1>6 DEF NamespaceStep, GetNamespace, GetNetNamespace, NothingToClean,
       CleanNetNamespace, CleanNetNamespaceFails, apiVars
  <2> QED
    BY <2>1 DEF Grows
<1> QED
  BY <1>1, <1>2, <1>3, <1>4, <1>5, <1>6 DEF Next

LEMMA WorkerCopyStep ==
  ASSUME TypeOK, TypeOK', CacheCurrent, WorkerCopy, [Next]_vars
  PROVE  WorkerCopy'
<1>1. ASSUME UNCHANGED <<wname, wns>>, wpc # "idle", wname \in Names
      PROVE  WorkerCopy'
  <2>1. wns \in Namespaces /\ IsVersion(wname, wns) /\ Grows(wname)
    BY <1>1, NamespacesGrow DEF TypeOK, WorkerTypeOK, WorkerCopy
  <2>2. ~wns.exists \/ wns = ns'[wname] \/ wns.rv < ns'[wname].rv
    BY <1>1, <2>1, VersionKept
  <2> QED
    BY <1>1, <2>2 DEF WorkerCopy, IsVersion
<1>2. wpc # "idle" => wname \in Names
  BY DEF TypeOK, WorkerTypeOK
<1>3. CASE wpc' = "idle"
  BY <1>3 DEF WorkerCopy
<1>4. CASE UNCHANGED <<nsQueue, wpc, wname, wns, wnn>>
  BY <1>1, <1>2, <1>3, <1>4
<1>5. CASE DeliverNamespace /\ UNCHANGED <<wpc, wname, wns, wnn>>
  BY <1>1, <1>2, <1>3, <1>5
<1>6. ASSUME NEW n \in Names, GetNamespace(n)
      PROVE  WorkerCopy'
  <2>1. CASE nsCache[n].exists
    <3>1. wname' = n /\ wns' = nsCache[n] /\ ns' = ns
      BY <1>6, <2>1 DEF GetNamespace, apiVars
    <3> QED
      BY <3>1 DEF WorkerCopy, IsVersion, CacheCurrent
  <2>2. CASE ~nsCache[n].exists
    BY <1>3, <1>6, <2>2 DEF GetNamespace, EndCleanUp
  <2> QED
    BY <2>1, <2>2
<1>7. CASE GetNetNamespace \/ CleanNetNamespace
  <2>1. wpc' = "idle" \/ (wpc # "idle" /\ UNCHANGED <<wname, wns>>)
    BY <1>7 DEF GetNetNamespace, CleanNetNamespace, EndCleanUp
  <2> QED
    BY <1>1, <1>2, <1>3, <2>1
<1>8. CASE CleanNetNamespaceFails \/ NothingToClean \/ CleanNamespace \/ CleanNamespaceFails
  BY <1>3, <1>8 DEF CleanNetNamespaceFails, NothingToClean, CleanNamespace,
     CleanNamespaceFails, EndCleanUp
<1>9. CASE Stop
  BY <1>3, <1>9 DEF Stop
<1> QED
  BY <1>4, <1>5, <1>6, <1>7, <1>8, <1>9, WorkerMoves DEF NamespaceStep

\* A change that does not enqueue the EgressIPAM leaves a namespace that has
\* opted in as it is, as far as the cycle is concerned.
LEMMA SilentWrites ==
  ASSUME TypeOK, CopiesCurrent, TodoRefers, RefsExist, WorkerCopy, [Next]_vars,
         NEW n \in Names, ns'[n].ref, ~EnqueueForNamespace(ns[n], ns'[n])
  PROVE  ns[n].ref /\ ns'[n].ips = ns[n].ips
<1>0. ns[n] \in Namespaces
  BY DEF TypeOK, APITypeOK
<1>1. CASE ns'[n] = ns[n]
  BY <1>1
<1>2. CASE ~ns[n].exists /\ ns'[n].exists
  BY <1>2 DEF EnqueueForNamespace
<1>3. CASE ns[n].exists /\ ns'[n].exists /\ ~ns[n].ref
  BY <1>3 DEF EnqueueForNamespace
<1>4. CASE /\ pc = "assign" /\ n \in todo /\ Accepts(ns[n], WithIPs(n))
           /\ ns[n].exists /\ ns'[n].exists
  <2>1. ns[n].ips = NoIPs
    BY <1>4, AssignMeetsNone DEF CopiesCurrent
  <2>2. ns'[n].ips = NoIPs /\ ns[n].ref
    BY <1>0, <1>4, <2>1 DEF EnqueueForNamespace
  <2> QED
    BY <2>1, <2>2
<1>5. CASE /\ wpc = "clean_ns" /\ wname = n /\ wns.ips # NoIPs
           /\ Accepts(ns[n], [wns EXCEPT !.ips = NoIPs])
           /\ ns[n].exists /\ ns'[n].exists /\ ns'[n].ips = NoIPs
  <2>1. wns.exists /\ wns.rv = ns[n].rv /\ ns[n].rv \in Nat
    BY <1>0, <1>5 DEF Accepts, TypeOK, WorkerTypeOK, Namespaces
  <2>2. wns = ns[n]
    BY <1>5, <2>1 DEF WorkerCopy, IsVersion
  <2> QED
    BY <1>5, <2>2 DEF EnqueueForNamespace
<1> QED
  BY <1>1, <1>2, <1>3, <1>4, <1>5, NsFates DEF RefsExist

\* When a copy falls behind, the event that enqueues the EgressIPAM is there.
LEMMA NewsWakes ==
  ASSUME TypeOK, CopiesCurrent, TodoRefers, RefsExist, WorkerCopy, [Next]_vars,
         up, ~Stop, ~DeliverNamespace,
         NEW n \in Names, NEW o, NEW i \in Nat, i <= Len(nsEvents),
         Behind(ns[n], o) => Woken(n, i), Behind(ns'[n], o)
  PROVE  Woken(n, i)'
<1>0. Len(nsEvents) \in Nat
  BY DEF TypeOK, InformerTypeOK
<1>1. CASE UNCHANGED <<ns, nsCache, nsEvents, up>>
  BY <1>1 DEF Woken
<1>2. ASSUME NEW m \in Names, NEW new, PutNs(m, new)
      PROVE  Woken(n, i)'
  <2>1. CASE Behind(ns[n], o)
    <3>1. PICK j \in DOMAIN nsEvents :
            /\ j > i /\ nsEvents[j].name = n
            /\ EnqueueForNamespace(nsEvents[j].old, nsEvents[j].new)
      BY <2>1 DEF Woken
    <3>2. j \in DOMAIN nsEvents' /\ nsEvents'[j] = nsEvents[j]
      BY <1>2, PutAppends DEF TypeOK
    <3> QED
      BY <3>1, <3>2 DEF Woken
  <2>2. CASE ~Behind(ns[n], o)
    <3>1. m = n /\ new = ns'[n] /\ new # ns[n]
      BY <1>2, <2>2, PutAppends DEF TypeOK
    <3>2. EnqueueForNamespace(ns[n], ns'[n])
      BY <2>2, SilentWrites DEF Behind
    <3> DEFINE l == Len(nsEvents) + 1
    <3>3. l \in DOMAIN nsEvents' /\ nsEvents'[l] = Event(n, ns[n], ns'[n])
      BY <1>2, <3>1, PutAppends DEF TypeOK
    <3>4. /\ nsEvents'[l].name = n /\ nsEvents'[l].old = ns[n] /\ nsEvents'[l].new = ns'[n]
          /\ l > i
      BY <1>0, <3>3 DEF Event
    <3> QED
      BY <3>2, <3>3, <3>4 DEF Woken
  <2> QED
    BY <2>1, <2>2
<1> QED
  BY <1>1, <1>2, NsMoves DEF Restart

\* A wake-up is in the events until it is in the queue.
LEMMA WokenStays ==
  ASSUME TypeOK, ~Stop, [Next]_vars, NEW n \in Names, Woken(n, 0)
  PROVE  queued' \/ Woken(n, 0)'
<1>0. DOMAIN nsEvents \subseteq Nat \ {0}
  BY DEF TypeOK, InformerTypeOK
<1>1. PICK j \in DOMAIN nsEvents :
        /\ j > 0 /\ nsEvents[j].name = n
        /\ EnqueueForNamespace(nsEvents[j].old, nsEvents[j].new)
  BY DEF Woken
<1>2. CASE UNCHANGED nsEvents
  BY <1>2 DEF Woken
<1>3. ASSUME NEW m \in Names, NEW new, PutNs(m, new)
      PROVE  Woken(n, 0)'
  <2>1. j \in DOMAIN nsEvents' /\ nsEvents'[j] = nsEvents[j]
    BY <1>3, PutAppends DEF TypeOK
  <2> QED
    BY <1>1, <2>1 DEF Woken
<1>4. CASE DeliverNamespace /\ j = 1
  <2>1. Head(nsEvents) = nsEvents[1]
    BY <1>4 DEF DeliverNamespace, TypeOK, InformerTypeOK
  <2>2. queued' = (queued \/ EnqueueForNamespace(nsEvents[1].old, nsEvents[1].new))
    BY <1>4, <2>1 DEF DeliverNamespace
  <2> QED
    BY <1>1, <1>4, <2>2
<1>5. CASE DeliverNamespace /\ j # 1
  <2>1. j - 1 \in DOMAIN nsEvents' /\ nsEvents'[j - 1] = nsEvents[j] /\ j - 1 > 0
    BY <1>0, <1>5, DeliveryShifts DEF TypeOK
  <2> QED
    BY <1>1, <2>1 DEF Woken
<1> QED
  BY <1>2, <1>3, <1>4, <1>5, NsMoves DEF Restart

LEMMA WakeUpsStep ==
  ASSUME TypeOK, TypeOK', CopiesCurrent, TodoRefers, RefsExist, WorkerCopy, WakeUps,
         [Next]_vars
  PROVE  WakeUps'
<1>0. /\ nsEvents \in Seq(Events(Namespaces)) /\ DOMAIN nsEvents \subseteq Nat \ {0}
      /\ \A i \in DOMAIN nsEvents : i <= Len(nsEvents)
  BY DEF TypeOK, InformerTypeOK
<1>1. CASE Stop
  BY <1>1 DEF Stop, WakeUps
<1>2. CASE Restart
  BY <1>2 DEF Restart, WakeUps, Behind, apiVars
<1>3. CASE DeliverNamespace
  <2>1. ASSUME NEW n \in Names, NEW i \in Nat, Woken(n, i + 1)
        PROVE  Woken(n, i)'
    <3>1. PICK j \in DOMAIN nsEvents :
            /\ j > i + 1 /\ nsEvents[j].name = n
            /\ EnqueueForNamespace(nsEvents[j].old, nsEvents[j].new)
      BY <2>1 DEF Woken
    <3>2. j \in Nat /\ j - 1 > i /\ j # 1
      BY <1>0, <2>1, <3>1
    <3>3. j - 1 \in DOMAIN nsEvents' /\ nsEvents'[j - 1] = nsEvents[j]
      BY <1>3, <3>1, <3>2, DeliveryShifts DEF TypeOK
    <3> QED
      BY <3>1, <3>2, <3>3 DEF Woken
  <2>2. ASSUME NEW n \in Names, Behind(ns'[n], nsCache'[n])
        PROVE  Woken(n, 0)'
    <3>1. CASE nsEvents[1].name = n
      <4>1. nsCache'[n] = nsEvents[1].new /\ 1 \in DOMAIN nsEvents /\ ns' = ns
        BY <1>3, <3>1, DeliveryShifts DEF TypeOK, InformerTypeOK
      <4>2. Woken(n, 1)
        BY <2>2, <3>1, <4>1 DEF WakeUps
      <4> QED
        BY <2>1, <4>2
    <3>2. CASE nsEvents[1].name # n
      <4>1. nsCache'[n] = nsCache[n] /\ ns' = ns /\ up
        BY <1>3, <3>2, DeliveryShifts DEF TypeOK, InformerTypeOK
      <4>2. Woken(n, 0)
        BY <2>2, <4>1 DEF WakeUps
      <4>3. Woken(n, 1)
        BY <1>0, <3>2, <4>2 DEF Woken
      <4> QED
        BY <2>1, <4>3
    <3> QED
      BY <3>1, <3>2
  <2>3. ASSUME NEW i \in DOMAIN nsEvents', Behind(ns'[nsEvents'[i].name], nsEvents'[i].new)
        PROVE  Woken(nsEvents[i].name, i)'
    <3>1. /\ i \in Nat /\ i + 1 \in DOMAIN nsEvents /\ nsEvents'[i] = nsEvents[i + 1]
          /\ ns' = ns
      BY <1>3, <2>3, DeliveryShifts DEF TypeOK
    <3>2. Woken(nsEvents[i + 1].name, i + 1)
      BY <2>3, <3>1 DEF WakeUps
    <3>3. PICK j \in DOMAIN nsEvents :
            /\ j > i + 1 /\ nsEvents[j].name = nsEvents[i + 1].name
            /\ EnqueueForNamespace(nsEvents[j].old, nsEvents[j].new)
      BY <3>2 DEF Woken
    <3>4. j \in Nat /\ j - 1 > i /\ j # 1
      BY <1>0, <3>1, <3>3
    <3>5. j - 1 \in DOMAIN nsEvents' /\ nsEvents'[j - 1] = nsEvents[j]
      BY <1>3, <3>3, <3>4, DeliveryShifts DEF TypeOK
    <3> QED
      BY <3>1, <3>3, <3>4, <3>5 DEF Woken
  <2>4. up'
    BY <1>3, DeliveryShifts DEF TypeOK
  <2> QED
    BY <2>2, <2>3, <2>4 DEF WakeUps
<1>4. CASE ~Stop /\ ~Restart /\ ~DeliverNamespace /\ up
  <2>1. UNCHANGED <<nsCache, up>>
    BY <1>4, NsMoves
  <2>2. ASSUME NEW n \in Names, Behind(ns'[n], nsCache'[n])
        PROVE  Woken(n, 0)'
    <3>1. 0 \in Nat /\ 0 <= Len(nsEvents)
      BY <1>0
    <3>2. Behind(ns[n], nsCache[n]) => Woken(n, 0)
      BY <1>4 DEF WakeUps
    <3> QED
      BY <1>4, <2>1, <2>2, <3>1, <3>2, NewsWakes
  <2>3. ASSUME NEW i \in DOMAIN nsEvents', Behind(ns'[nsEvents'[i].name], nsEvents'[i].new)
        PROVE  Woken(nsEvents[i].name, i)'
    <3>1. CASE i \in DOMAIN nsEvents
      <4>1. nsEvents'[i] = nsEvents[i]
        BY <1>4, <3>1, NsMoves, PutAppends DEF TypeOK
      <4>2. nsEvents[i].name \in Names /\ i \in Nat /\ i <= Len(nsEvents)
        BY <1>0, <3>1, EventTypes DEF TypeOK
      <4>3. Behind(ns[nsEvents[i].name], nsEvents[i].new) => Woken(nsEvents[i].name, i)
        BY <3>1 DEF WakeUps
      <4> DEFINE n == nsEvents[i].name
                 o == nsEvents[i].new
      <4>4. /\ n \in Names /\ (Behind(ns[n], o) => Woken(n, i))
            /\ Behind(ns'[n], o)
        BY <2>3, <4>1, <4>2, <4>3
      <4> HIDE DEF n, o
      <4>5. \E j \in DOMAIN nsEvents' :
              /\ j > i /\ nsEvents'[j].name = n
              /\ EnqueueForNamespace(nsEvents'[j].old, nsEvents'[j].new)
        BY <1>4, <4>2, <4>4, NewsWakes DEF Woken
      <4> QED
        BY <4>1, <4>5 DEF Woken, n
    <3>2. CASE i \notin DOMAIN nsEvents
      <4>1. PICK m \in Names : \E new : PutNs(m, new)
        BY <1>4, <2>3, <3>2, NsMoves
      <4>2. PICK new : PutNs(m, new)
        BY <4>1
      <4>3. nsEvents'[i] = Event(m, ns[m], new) /\ ns'[m] = new
        BY <2>3, <3>2, <4>2, PutAppends DEF TypeOK
      <4> QED
        BY <2>3, <4>3 DEF Event, Behind
    <3> QED
      BY <3>1, <3>2
  <2> QED
    BY <1>4, <2>1, <2>2, <2>3 DEF WakeUps
<1>5. CASE ~Restart /\ ~up
  <2>1. nsEvents' = << >> /\ ~up'
    <3>1. nsEvents = << >>
      BY <1>5 DEF WakeUps
    <3>2. CASE UNCHANGED <<ns, nsCache, nsEvents, up>>
      BY <1>5, <3>1, <3>2
    <3>3. ASSUME NEW m \in Names, NEW new, PutNs(m, new), UNCHANGED <<nsCache, up>>
          PROVE  nsEvents' = << >> /\ ~up'
      BY <1>5, <3>1, <3>3, PutAppends DEF TypeOK
    <3> QED
      BY <1>5, <3>2, <3>3, NsMoves DEF DeliverNamespace, Stop
  <2>2. pc' = "idle"
    BY <1>5, CycleMoves DEF WakeUps, StartCycle, ListNamespaces, ListNetNamespaces,
       SortIPsByCIDR, CloudSilent, Sorted, AssignIPs, SyncNetNamespace, AssignDone, SyncDone,
       InCycle
  <2> QED
    BY <2>1, <2>2 DEF WakeUps
<1> QED
  BY <1>1, <1>2, <1>3, <1>4, <1>5

\* A request leaves the queue only for the cycle that takes it.
LEMMA QueuedStays ==
  ASSUME TypeOK, [Next]_vars, queued, ~Stop
  PROVE  queued' \/ StartCycle
<1>1. CASE \/ UserStep \/ SDNStep \/ DeliverNamespace \/ DeliverNetNamespace
           \/ NamespaceStep \/ Crash \/ Restart \/ UNCHANGED vars
  BY <1>1 DEF UserStep, CreateNamespace, DeleteNamespace, OptIn, OptOut, ByUser, SDNStep,
     CreateNetNamespace, DeleteNetNamespace, BySDN, DeliverNamespace, DeliverNetNamespace,
     NamespaceStep, GetNamespace, GetNetNamespace, CleanNetNamespace,
     CleanNetNamespaceFails, NothingToClean, CleanNamespace, CleanNamespaceFails, OnWorker,
     Crash, Restart, vars
<1>2. CASE EgressIPAMStep
  BY <1>2 DEF EgressIPAMStep, ListNamespaces, ListNetNamespaces, OtherError,
     SortPanics, SortFails, SortIPsByCIDR, CloudSilent, Sorted, AssignIPs,
     AssignFails, Exhausted, AssignDone, SyncNetNamespace, SyncDone, SyncFailed,
     FinishCycle, EndCycle
<1> QED
  BY <1>1, <1>2 DEF Next

\* A cycle that does not get to its end puts the request back.
LEMMA CycleEnds ==
  ASSUME [Next]_vars, pc # "idle", pc' = "idle", ~Stop
  PROVE  queued' \/ pc = "nodes"
<1>1. CASE \/ UserStep \/ SDNStep \/ DeliverNamespace \/ DeliverNetNamespace
           \/ NamespaceStep \/ Crash \/ Restart \/ UNCHANGED vars
  BY <1>1 DEF UserStep, CreateNamespace, DeleteNamespace, OptIn, OptOut, ByUser, SDNStep,
     CreateNetNamespace, DeleteNetNamespace, BySDN, DeliverNamespace, DeliverNetNamespace,
     NamespaceStep, GetNamespace, GetNetNamespace, CleanNetNamespace,
     CleanNetNamespaceFails, NothingToClean, CleanNamespace, CleanNamespaceFails, OnWorker,
     Crash, Restart, vars, cycleVars
<1>2. CASE EgressIPAMStep
  BY <1>2 DEF EgressIPAMStep, StartCycle, ListNamespaces, ListNetNamespaces, OtherError,
     SortPanics, SortFails, SortIPsByCIDR, CloudSilent, Sorted, AssignIPs,
     AssignFails, Exhausted, AssignDone, SyncNetNamespace, SyncDone, SyncFailed,
     FinishCycle, EndCycle
<1> QED
  BY <1>1, <1>2 DEF Next

LEMMA ListWakesStep ==
  ASSUME TypeOK, CopiesCurrent, TodoRefers, RefsExist, WorkerCopy, WakeUps, ListWakes,
         [Next]_vars
  PROVE  ListWakes'
<1> SUFFICES ASSUME up', Listed', NEW n \in Names, Behind(ns'[n], nsList'[n]), ~queued'
             PROVE  Woken(n, 0)'
  BY DEF ListWakes
<1>0. up /\ ~Stop /\ ~StartCycle
  <2>1. ~Stop /\ ~StartCycle
    BY DEF Stop, StartCycle, Listed
  <2>2. CASE Restart
    BY <2>2 DEF Restart, WakeUps, Listed, cycleVars
  <2>3. CASE UNCHANGED up
    BY <2>1, <2>3
  <2> QED
    BY <2>1, <2>2, <2>3, NsMoves DEF DeliverNamespace
<1>1. ~queued
  BY <1>0, QueuedStays
<1>2. CASE Listed /\ nsList'[n] = nsList[n]
  <2>1. Behind(ns[n], nsList[n]) => Woken(n, 0)
    BY <1>0, <1>1, <1>2 DEF ListWakes
  <2>2. CASE DeliverNamespace
    <3>1. ns' = ns
      BY <2>2, DeliveryShifts DEF TypeOK
    <3> QED
      BY <1>0, <1>2, <2>1, <3>1, WokenStays
  <2>3. CASE ~DeliverNamespace
    <3>1. 0 \in Nat /\ 0 <= Len(nsEvents)
      BY DEF TypeOK, InformerTypeOK
    <3> QED
      BY <1>0, <1>2, <2>1, <2>3, <3>1, NewsWakes
  <2> QED
    BY <2>2, <2>3
<1>3. CASE UNCHANGED <<pc, loading, nsList, nnList, used, todo, toSync, failed>>
  BY <1>2, <1>3 DEF Listed
<1>4. CASE ListNamespaces
  <2>1. UNCHANGED <<ns, nsEvents>> /\ nsList' = nsCache
    BY <1>4 DEF ListNamespaces, apiVars
  <2> QED
    BY <1>0, <2>1 DEF WakeUps, Woken
<1>5. CASE \/ ListNetNamespaces \/ SortIPsByCIDR \/ CloudSilent \/ AssignDone \/ SyncDone
  BY <1>2, <1>5 DEF ListNetNamespaces, SortIPsByCIDR, CloudSilent, Sorted, AtSort,
     AssignDone, SyncDone, rcVars, Listed
<1>6. ASSUME NEW m \in Names, SyncNetNamespace(m)
      PROVE  Woken(n, 0)'
  BY <1>2, <1>6 DEF SyncNetNamespace, Listed
<1>7. ASSUME NEW m \in Names, AssignIPs(m)
      PROVE  Woken(n, 0)'
  <2>1. CASE m = n
    <3>1. WithIPs(n) \in Namespaces /\ ns[n] \in Namespaces
      BY <1>7, <2>1, WithIPsType DEF AssignIPs, TypeOK, APITypeOK
    <3>2. ns'[n] = Stored(ns[n], WithIPs(n)) /\ nsList'[n] = WithIPs(n)
      BY <1>7, <2>1 DEF AssignIPs, UpdateNs, PutNs, TypeOK, APITypeOK, CycleTypeOK
    <3>3. ns'[n].ips = nsList'[n].ips /\ ns'[n].ref = nsList'[n].ref
      BY <3>1, <3>2, StoredIsSent
    <3> QED
      BY <3>3 DEF Behind
  <2>2. CASE m # n
    BY <1>2, <1>7, <2>2 DEF AssignIPs, Listed, TypeOK, CycleTypeOK
  <2> QED
    BY <2>1, <2>2
<1>8. CASE pc' = "idle"
  BY <1>8 DEF Listed
<1> QED
  BY <1>0, <1>3, <1>4, <1>5, <1>6, <1>7, <1>8, CycleMoves

-----------------------------------------------------------------------------

\* What a step may do to the NetNamespaces and their events.
LEMMA NetMoves ==
  ASSUME TypeOK, [Next]_vars, ~Stop
  PROVE  \/ UNCHANGED <<nn, nnEvents>>
         \/ \E n \in Names : \E new : PutNet(n, new)
         \/ DeliverNetNamespace
<1>1. CASE \/ UserStep \/ SDNStep \/ DeliverNamespace \/ DeliverNetNamespace \/ Crash
           \/ Restart \/ UNCHANGED vars
  BY <1>1 DEF UserStep, CreateNamespace, DeleteNamespace, OptIn, OptOut, ByUser, SDNStep,
     CreateNetNamespace, DeleteNetNamespace, DeliverNamespace,
     Crash, Restart, vars, apiVars
<1>2. ASSUME NEW n \in Names, SyncNetNamespace(n)
      PROVE  UNCHANGED <<nn, nnEvents>> \/ \E new : PutNet(n, new)
  BY <1>2 DEF SyncNetNamespace, UpdateNet, RefusedNet, FaultyNet
<1>3. CASE CleanNetNamespace \/ CleanNetNamespaceFails
  <2>1. UNCHANGED <<nn, nnEvents>> \/ \E new : PutNet(wname, new)
    BY <1>3 DEF CleanNetNamespace, CleanNetNamespaceFails, UpdateNet, RefusedNet, FaultyNet
  <2>2. wname \in Names
    BY <1>3 DEF CleanNetNamespace, CleanNetNamespaceFails, TypeOK, WorkerTypeOK
  <2> QED
    BY <2>1, <2>2
<1>4. CASE EgressIPAMStep /\ ~(\E n \in Names : SyncNetNamespace(n))
  BY <1>4 DEF EgressIPAMStep, StartCycle, ListNamespaces, ListNetNamespaces, OtherError,
     SortPanics, SortFails, SortIPsByCIDR, CloudSilent, Sorted, AssignIPs, AssignFails,
     Exhausted, AssignDone, SyncDone, SyncFailed, FinishCycle, apiVars
<1>5. CASE NamespaceStep /\ ~(CleanNetNamespace \/ CleanNetNamespaceFails)
  BY <1>5 DEF NamespaceStep, GetNamespace, GetNetNamespace, NothingToClean,
     CleanNamespace, CleanNamespaceFails, apiVars
<1> QED
  BY <1>1, <1>2, <1>3, <1>4, <1>5 DEF Next

\* The event of a write is appended.
LEMMA PutNetAppends ==
  ASSUME TypeOK, NEW n \in Names, NEW new, PutNet(n, new)
  PROVE  /\ nn'[n] = new /\ \A m \in Names : m # n => nn'[m] = nn[m]
         /\ \A i \in DOMAIN nnEvents : i \in DOMAIN nnEvents' /\ nnEvents'[i] = nnEvents[i]
         /\ up /\ new # nn[n] =>
              \E l \in DOMAIN nnEvents' : nnEvents'[l] = Event(n, nn[n], new)
<1>1. nn'[n] = new /\ \A m \in Names : m # n => nn'[m] = nn[m]
  BY DEF TypeOK, APITypeOK, PutNet
<1>2. nnEvents \in Seq(Events(NetNamespaces))
  BY DEF TypeOK, InformerTypeOK
<1>3. CASE up /\ nn[n] # new
  <2>1. nnEvents' = Append(nnEvents, Event(n, nn[n], new))
    BY <1>3 DEF PutNet, Watch
  <2>2. Len(nnEvents) + 1 \in DOMAIN nnEvents'
    BY <1>2, <2>1
  <2>3. nnEvents'[Len(nnEvents) + 1] = Event(n, nn[n], new)
    BY <1>2, <2>1
  <2>4. \A i \in DOMAIN nnEvents : i \in DOMAIN nnEvents' /\ nnEvents'[i] = nnEvents[i]
    BY <1>2, <2>1
  <2> QED
    BY <1>1, <2>2, <2>3, <2>4
<1>4. CASE ~(up /\ nn[n] # new)
  BY <1>1, <1>4 DEF PutNet, Watch
<1> QED
  BY <1>3, <1>4

\* A NetNamespace that appears or changes its IPs is reported.
LEMMA NetNews ==
  ASSUME TypeOK, [Next]_vars, up, ~Stop, NEW n \in Names,
         nn'[n].exists, ~nn[n].exists \/ nn[n].ips # nn'[n].ips
  PROVE  NetWoken(n)'
<1>1. PICK m \in Names : \E new : PutNet(m, new)
  BY NetMoves DEF DeliverNetNamespace, apiVars
<1>2. PICK new : PutNet(m, new)
  BY <1>1
<1>3. m = n /\ new = nn'[n] /\ new # nn[n]
  BY <1>2, PutNetAppends
<1>4. PICK l \in DOMAIN nnEvents' : nnEvents'[l] = Event(n, nn[n], nn'[n])
  BY <1>2, <1>3, PutNetAppends
<1>5. nnEvents'[l].name = n /\ nnEvents'[l].old = nn[n] /\ nnEvents'[l].new = nn'[n]
  BY <1>4 DEF Event
<1> QED
  BY <1>5 DEF NetWoken

\* What is fine stays so, or is reported.
LEMMA FineStays ==
  ASSUME TypeOK, CopiesCurrent, TodoRefers, RefsExist, WorkerCopy, [Next]_vars, up, ~Stop,
         NEW n \in Names, Fine(n)
  PROVE  Fine(n)' \/ Woken(n, 0)' \/ NetWoken(n)'
<1> SUFFICES ASSUME ns'[n].exists, ns'[n].ref, nn'[n].exists, ~Woken(n, 0)', ~NetWoken(n)'
             PROVE  Served(n)'
  BY DEF Fine
<1>1. ~Behind(ns'[n], ns[n])
  <2>1. CASE DeliverNamespace
    BY <2>1, DeliveryShifts DEF Behind, TypeOK
  <2>2. CASE ~DeliverNamespace
    <3>1. 0 \in Nat /\ 0 <= Len(nsEvents)
      BY DEF TypeOK, InformerTypeOK
    <3>2. ~Behind(ns[n], ns[n])
      BY DEF Behind
    <3> QED
      BY <2>2, <3>1, <3>2, NewsWakes
  <2> QED
    BY <2>1, <2>2
<1>2. ns[n].ref /\ ns[n].exists /\ ns'[n].ips = ns[n].ips
  BY <1>1 DEF Behind, RefsExist
<1>3. nn[n].exists /\ nn'[n].ips = nn[n].ips
  BY NetNews
<1> QED
  BY <1>2, <1>3 DEF Fine, Served

\* An event of a NetNamespace leads to a cycle, or there is nothing to do.
LEMMA NetWokenStays ==
  ASSUME TypeOK, WakeUps, [Next]_vars, up, ~Stop, NEW n \in Names, NetWoken(n)
  PROVE  Fine(n)' \/ queued' \/ Woken(n, 0)' \/ NetWoken(n)'
<1>0. nnEvents \in Seq(Events(NetNamespaces))
  BY DEF TypeOK, InformerTypeOK
<1>1. PICK j \in DOMAIN nnEvents :
        /\ nnEvents[j].name = n /\ nnEvents[j].new.exists
        /\ ~nnEvents[j].old.exists \/ nnEvents[j].old.ips # nnEvents[j].new.ips
  BY DEF NetWoken
<1>2. CASE UNCHANGED nnEvents
  BY <1>2 DEF NetWoken
<1>3. ASSUME NEW m \in Names, NEW new, PutNet(m, new)
      PROVE  NetWoken(n)'
  <2>1. j \in DOMAIN nnEvents' /\ nnEvents'[j] = nnEvents[j]
    BY <1>3, PutNetAppends
  <2> QED
    BY <1>1, <2>1 DEF NetWoken
<1>4. CASE DeliverNetNamespace /\ j # 1
  <2>1. nnEvents' = Tail(nnEvents) /\ nnEvents # << >>
    BY <1>4 DEF DeliverNetNamespace
  <2>2. Len(nnEvents) \in Nat /\ j \in 1..Len(nnEvents) /\ Len(nnEvents') = Len(nnEvents) - 1
    BY <1>0, <2>1
  <2>3. DOMAIN nnEvents' = 1..Len(nnEvents')
    BY <1>0, <2>1
  <2>4. j - 1 \in DOMAIN nnEvents'
    BY <1>4, <2>2, <2>3
  <2>5. nnEvents'[j - 1] = nnEvents[j]
    BY <1>0, <2>1, <2>2, <2>4
  <2> QED
    BY <1>1, <2>4, <2>5 DEF NetWoken
<1>5. CASE DeliverNetNamespace /\ j = 1
  <2>1. Head(nnEvents) = nnEvents[1]
    BY <1>0, <1>5 DEF DeliverNetNamespace
  <2>2. /\ queued' = (queued \/ EnqueueForNetNamespace(n, nnEvents[1].old, nnEvents[1].new))
        /\ UNCHANGED <<ns, nsEvents>>
    BY <1>1, <1>5, <2>1 DEF DeliverNetNamespace, apiVars
  <2>3. CASE nsCache[n].ref
    BY <1>1, <1>5, <2>2, <2>3 DEF EnqueueForNetNamespace
  <2>4. CASE ~nsCache[n].ref /\ ns[n].ref
    <3>1. Woken(n, 0)
      BY <2>4 DEF WakeUps, Behind
    <3> QED
      BY <2>2, <3>1 DEF Woken
  <2>5. CASE ~ns[n].ref
    BY <2>2, <2>5 DEF Fine
  <2> QED
    BY <2>3, <2>4, <2>5
<1> QED
  BY <1>2, <1>3, <1>4, <1>5, NetMoves

\* The running cycle serves n, fails, or will be followed by another one.
LEMMA HandledStays ==
  ASSUME TypeOK, RefsExist, ListWakes, ToSyncWellFormed, Len(CIDRs) > 0, [Next]_vars,
         up, ~Stop, NEW n \in Names, Handled(n)
  PROVE  Fine(n)' \/ queued' \/ Woken(n, 0)' \/ NetWoken(n)' \/ Handled(n)'
<1>0. Len(CIDRs) \in Nat
  BY CIDRsAssumption
<1>1. CASE UNCHANGED <<pc, loading, nsList, nnList, used, todo, toSync, failed>>
  BY <1>1 DEF Handled
<1>2. CASE pc' = "idle"
  BY <1>2, CycleEnds DEF Handled
<1>3. CASE StartCycle \/ ListNamespaces \/ ListNetNamespaces
  BY <1>3 DEF StartCycle, ListNamespaces, ListNetNamespaces, Handled
<1>4. CASE SortIPsByCIDR \/ CloudSilent
  <2>1. /\ AtSort /\ pc' = "assign" /\ todo' = Unassigned /\ toSync' = Assigned
        /\ UNCHANGED <<ns, nsEvents, queued>>
    BY <1>4 DEF SortIPsByCIDR, CloudSilent, Sorted, apiVars
  <2>2. CASE nsList[n].ref
    <3>1. n \in todo' \cup toSync'
      BY <2>1, <2>2 DEF RefsExist, Unassigned, Assigned, Referring
    <3> QED
      BY <2>1, <3>1 DEF Handled
  <2>3. CASE ~nsList[n].ref /\ ns[n].ref
    <3>1. queued \/ Woken(n, 0)
      BY <2>1, <2>3 DEF ListWakes, Listed, AtSort, Behind
    <3> QED
      BY <2>1, <3>1 DEF Woken
  <2>4. CASE ~ns[n].ref
    BY <2>1, <2>4 DEF Fine
  <2> QED
    BY <2>2, <2>3, <2>4
<1>5. ASSUME NEW m \in Names, AssignIPs(m)
      PROVE  Handled(n)'
  BY <1>5 DEF AssignIPs, Handled
<1>6. CASE AssignDone \/ SyncDone
  BY <1>6 DEF AssignDone, SyncDone, Handled, rcVars
<1>7. ASSUME NEW m \in Names, SyncNetNamespace(m)
      PROVE  Fine(n)' \/ queued' \/ Woken(n, 0)' \/ Handled(n)'
  <2>1. /\ pc = "netns" /\ pc' = "netns" /\ m \in toSync /\ toSync' = toSync \ {m}
        /\ UNCHANGED <<ns, nsEvents, queued>>
    BY <1>7 DEF SyncNetNamespace
  <2>2. CASE failed' \/ n \in toSync'
    BY <2>1, <2>2 DEF Handled
  <2>3. CASE ~failed' /\ n \notin toSync'
    <3>1. ~failed /\ UpdateNet(m, NetWithIPs(m)) /\ n = m
      BY <1>7, <2>1, <2>3 DEF SyncNetNamespace, Handled
    <3>2. NetWithIPs(n) \in NetNamespaces /\ nn[n] \in NetNamespaces
      BY NetWithIPsType DEF TypeOK, APITypeOK
    <3>3. nn'[n] = Stored(nn[n], NetWithIPs(n)) /\ NetWithIPs(n).ips = nsList[n].ips
      BY <3>1 DEF UpdateNet, PutNet, TypeOK, APITypeOK, NetWithIPs, CycleTypeOK, NetNamespaces
    <3>4. nn'[n].ips = nsList[n].ips
      BY <3>2, <3>3, StoredIsSent
    <3>5. nsList[n].ips # NoIPs
      BY <1>0, <2>1, <3>1 DEF ToSyncWellFormed, OneOfEach, NoIPs
    <3>6. CASE Behind(ns[n], nsList[n])
      <4>1. queued \/ Woken(n, 0)
        BY <2>1, <3>6 DEF ListWakes, Listed
      <4> QED
        BY <2>1, <4>1 DEF Woken
    <3>7. CASE ~Behind(ns[n], nsList[n])
      BY <2>1, <3>4, <3>5, <3>7 DEF Behind, Fine, Served
    <3> QED
      BY <3>6, <3>7
  <2> QED
    BY <2>2, <2>3
<1> QED
  BY <1>1, <1>2, <1>3, <1>4, <1>5, <1>6, <1>7, CycleMoves

LEMMA AwaitedStep ==
  ASSUME TypeOK, CopiesCurrent, TodoRefers, RefsExist, WorkerCopy, WakeUps, ListWakes,
         ToSyncWellFormed, Len(CIDRs) > 0, Awaited, [Next]_vars
  PROVE  Awaited'
<1> SUFFICES ASSUME up', NEW n \in Names
             PROVE  Fine(n)' \/ queued' \/ Woken(n, 0)' \/ NetWoken(n)' \/ Handled(n)'
  BY DEF Awaited
<1>1. ~Stop
  BY DEF Stop
<1>2. CASE Restart
  BY <1>2 DEF Restart
<1>3. CASE ~Restart
  <2>1. up
    BY <1>1, <1>3, NsMoves DEF DeliverNamespace
  <2>2. Fine(n) \/ queued \/ Woken(n, 0) \/ NetWoken(n) \/ Handled(n)
    BY <2>1 DEF Awaited
  <2>3. CASE queued
    BY <1>1, <2>3, QueuedStays DEF StartCycle, Handled
  <2> QED
    BY <1>1, <2>1, <2>2, <2>3, FineStays, WokenStays, NetWokenStays, HandledStays
<1> QED
  BY <1>2, <1>3

\* For any constants, if there is a CIDR to take IPs from: whatever the
\* events, stale caches, conflicts, failures, crashes and inputs before,
\* when the controllers have nothing left to do, every namespace that has
\* opted in has its IPs and its NetNamespace carries them (the predicates
\* and handlers of SetupWithManager, ManageError).
THEOREM NoWakeUpIsLost ==
  ASSUME Len(CIDRs) > 0
  PROVE  Spec => []ServedAtRest
<1> DEFINE Inv == /\ CopiesCurrent /\ TodoRefers /\ RefsExist /\ WorkerCopy /\ WakeUps
                  /\ ListWakes /\ ToSyncWellFormed /\ Awaited
<1>1. Init => Inv
  BY InitCurrent DEF Init, TodoRefers, RefsExist, WorkerCopy, WakeUps, ListWakes, Listed,
     ToSyncWellFormed, Awaited, Behind, NoNamespaces, Gone
<1>2. TypeOK /\ TypeOK' /\ Inv /\ [Next]_vars => Inv'
  BY StepCurrent, TodoRefersStep, RefsExistStep, WorkerCopyStep, WakeUpsStep, ListWakesStep,
     ToSyncStep, AwaitedStep DEF CopiesCurrent
<1>3. Inv => ServedAtRest
  BY DEF Awaited, ServedAtRest, AtRest, Fine, Woken, NetWoken, Handled
<1> QED
  BY <1>1, <1>2, <1>3, InitType, StepType, PTL DEF Spec
=============================================================================
