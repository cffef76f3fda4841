--------------------- MODULE NamespaceAssignmentProofs ---------------------
(***************************************************************************)
(* Proofs about NamespaceAssignment, for any namespaces, CIDRs, inputs and *)
(* bounds: any number of user operations, faults, crashes and stale reads. *)
(*                                                                         *)
(* The argument for AssignmentKept is optimistic concurrency.  Whatever    *)
(* copy of a namespace is on its way to the worker (in the cache, in an    *)
(* event, in the list of the cycle) is the stored namespace or has a lower *)
(* version (CopiesCurrent).  The cycle only writes IPs to copies that have *)
(* none; if such a write is accepted, the copy is the stored namespace,    *)
(* which has none either.                                                  *)
(***************************************************************************)
EXTENDS NamespaceAssignment, TLAPS

-----------------------------------------------------------------------------
(* Types of the helpers                                                    *)

LEMMA WithVersion ==
  ASSUME NEW o \in Namespaces, NEW rv \in Nat
  PROVE  [o EXCEPT !.rv = rv] \in Namespaces
BY DEF Namespaces

LEMMA WithAnnotation ==
  ASSUME NEW o \in Namespaces, NEW ips \in Seq(Nat)
  PROVE  [o EXCEPT !.ips = ips] \in Namespaces
BY DEF Namespaces

LEMMA WithEgressIPs ==
  ASSUME NEW o \in NetNamespaces, NEW ips \in Seq(Nat)
  PROVE  [o EXCEPT !.ips = ips] \in NetNamespaces
BY DEF NetNamespaces

LEMMA NoIPsType == NoIPs \in Seq(Nat)
BY DEF NoIPs

LEMMA GoneType ==
  ASSUME NEW rv \in Nat
  PROVE  Gone(rv) \in Namespaces /\ NetGone(rv) \in NetNamespaces
BY NoIPsType DEF Gone, NetGone, Namespaces, NetNamespaces

\* A write is accepted only for an object that exists, and stores one with
\* a version that is not lower.
LEMMA StoredType ==
  /\ \A o, s \in Namespaces : Stored(s, o) \in Namespaces
  /\ \A o, s \in NetNamespaces : Stored(s, o) \in NetNamespaces
<1>1. ASSUME NEW o \in Namespaces, NEW s \in Namespaces
      PROVE  Stored(s, o) \in Namespaces
  <2>1. o.rv + 1 \in Nat
    BY DEF Namespaces
  <2>2. [o EXCEPT !.rv = o.rv + 1] \in Namespaces
    BY <2>1, WithVersion
  <2> QED
    BY <2>2 DEF Stored
<1>2. ASSUME NEW o \in NetNamespaces, NEW s \in NetNamespaces
      PROVE  Stored(s, o) \in NetNamespaces
  <2>1. [o EXCEPT !.rv = o.rv + 1] \in NetNamespaces
    BY DEF NetNamespaces
  <2> QED
    BY <2>1 DEF Stored
<1> QED
  BY <1>1, <1>2

LEMMA PutNsType ==
  ASSUME APITypeOK, InformerTypeOK, NEW n \in Names, NEW new \in Namespaces, PutNs(n, new)
  PROVE  ns' \in [Names -> Namespaces] /\ nsEvents' \in Seq(Events(Namespaces))
<1>1. Event(n, ns[n], new) \in Events(Namespaces)
  BY DEF APITypeOK, Event, Events
<1> QED
  BY <1>1 DEF APITypeOK, InformerTypeOK, PutNs, Watch

LEMMA PutNetType ==
  ASSUME APITypeOK, InformerTypeOK, NEW n \in Names, NEW new \in NetNamespaces, PutNet(n, new)
  PROVE  nn' \in [Names -> NetNamespaces] /\ nnEvents' \in Seq(Events(NetNamespaces))
<1>1. Event(n, nn[n], new) \in Events(NetNamespaces)
  BY DEF APITypeOK, Event, Events
<1> QED
  BY <1>1 DEF APITypeOK, InformerTypeOK, PutNet, Watch

\* The three results of an update keep the types.
LEMMA WriteNsType ==
  ASSUME APITypeOK, InformerTypeOK, BoundsTypeOK,
         NEW n \in Names, NEW obj \in Namespaces,
         UpdateNs(n, obj) \/ RefusedNs(n, obj) \/ FaultyNs(n, obj)
  PROVE  /\ ns' \in [Names -> Namespaces] /\ nsEvents' \in Seq(Events(Namespaces))
         /\ faults' \in Nat
<1>1. Stored(ns[n], obj) \in Namespaces
  BY StoredType DEF APITypeOK
<1>2. CASE PutNs(n, Stored(ns[n], obj))
  BY <1>1, <1>2, PutNsType DEF UpdateNs, RefusedNs, FaultyNs, BoundsTypeOK
<1>3. CASE UNCHANGED <<ns, nsEvents>>
  BY <1>3 DEF UpdateNs, RefusedNs, FaultyNs, BoundsTypeOK, APITypeOK, InformerTypeOK
<1> QED
  BY <1>2, <1>3 DEF UpdateNs, RefusedNs, FaultyNs

LEMMA WriteNetType ==
  ASSUME APITypeOK, InformerTypeOK, BoundsTypeOK,
         NEW n \in Names, NEW obj \in NetNamespaces,
         UpdateNet(n, obj) \/ RefusedNet(n, obj) \/ FaultyNet(n, obj)
  PROVE  /\ nn' \in [Names -> NetNamespaces] /\ nnEvents' \in Seq(Events(NetNamespaces))
         /\ faults' \in Nat
<1>1. Stored(nn[n], obj) \in NetNamespaces
  BY StoredType DEF APITypeOK
<1>2. CASE PutNet(n, Stored(nn[n], obj))
  BY <1>1, <1>2, PutNetType DEF UpdateNet, RefusedNet, FaultyNet, BoundsTypeOK
<1>3. CASE UNCHANGED <<nn, nnEvents>>
  BY <1>3 DEF UpdateNet, RefusedNet, FaultyNet, BoundsTypeOK, APITypeOK, InformerTypeOK
<1> QED
  BY <1>2, <1>3 DEF UpdateNet, RefusedNet, FaultyNet

\* The next available addresses are addresses.
LEMMA NextAvailableType ==
  ASSUME Available
  PROVE  /\ \A k \in K : NextAvailable(k) \in Nat
         /\ [k \in K |-> NextAvailable(k)] \in Seq(Nat)
<1>1. ASSUME NEW k \in K
      PROVE  NextAvailable(k) \in Nat
  <2>1. IsCIDR(CIDRs[k])
    BY CIDRsAssumption
  <2>2. FirstFree(CIDRs[k], used[k]) \subseteq Nat
    BY <2>1 DEF FirstFree, Free, Addresses, Network, Broadcast, IsCIDR
  <2>3. NextAvailable(k) \in FirstFree(CIDRs[k], used[k])
    BY DEF Available, NextAvailable
  <2> QED
    BY <2>2, <2>3
<1>2. Len(CIDRs) \in Nat
  BY CIDRsAssumption
<1> QED
  BY <1>1, <1>2 DEF K

LEMMA NoContextType ==
  ASSUME NoContext, pc' = "idle"
  PROVE  CycleTypeOK'
<1>1. NoNamespaces \in [Names -> Namespaces] /\ NoNetNamespaces \in [Names -> NetNamespaces]
  BY GoneType DEF NoNamespaces, NoNetNamespaces
<1> QED
  BY <1>1 DEF NoContext, CycleTypeOK, NoUsed

LEMMA NoCleanUpType ==
  ASSUME NoCleanUp, wpc' = "idle"
  PROVE  WorkerTypeOK'
BY GoneType DEF NoCleanUp, WorkerTypeOK

LEMMA StopType ==
  ASSUME APITypeOK, Stop
  PROVE  APITypeOK' /\ InformerTypeOK' /\ CycleTypeOK' /\ WorkerTypeOK'
<1>1. NoNamespaces \in [Names -> Namespaces] /\ NoNetNamespaces \in [Names -> NetNamespaces]
  BY GoneType DEF NoNamespaces, NoNetNamespaces
<1>2. CycleTypeOK' /\ WorkerTypeOK'
  BY NoContextType, NoCleanUpType DEF Stop
<1>3. APITypeOK' /\ up' \in BOOLEAN /\ queued' \in BOOLEAN
  BY Zenon DEF Stop, APITypeOK, apiVars
<1>4. nsEvents' \in Seq(Events(Namespaces)) /\ nnEvents' \in Seq(Events(NetNamespaces))
  BY DEF Stop
<1> QED
  BY <1>1, <1>2, <1>3, <1>4 DEF Stop, InformerTypeOK

-----------------------------------------------------------------------------
(* Type correctness, actor by actor                                        *)

\* What the steps of the users, the SDN, the informers and the Namespace
\* controller are about.
OutsideTypeOK == APITypeOK /\ InformerTypeOK /\ WorkerTypeOK /\ BoundsTypeOK

LEMMA UserType ==
  ASSUME OutsideTypeOK, UserStep
  PROVE  OutsideTypeOK' /\ UNCHANGED cycleVars
<1> PICK n \in Names : \/ CreateNamespace(n) \/ DeleteNamespace(n)
                      \/ OptIn(n) \/ OptOut(n)
  BY DEF UserStep
<1> USE DEF OutsideTypeOK
<1>1. ByUser
  BY DEF CreateNamespace, DeleteNamespace, OptIn, OptOut
<1>2. /\ ns[n].rv + 1 \in Nat
      /\ ns[n].ips \in Seq(Nat)
  BY DEF APITypeOK, Namespaces
<1>3. \A ref \in BOOLEAN : \A ips \in Seq(Nat) : Edited(n, ref, ips) \in Namespaces
  BY <1>2 DEF Edited, Namespaces
<1>4. ns' \in [Names -> Namespaces] /\ nsEvents' \in Seq(Events(Namespaces))
  <2>1. CASE CreateNamespace(n)
    BY <2>1, <1>3, NoIPsType, PutNsType DEF CreateNamespace
  <2>2. CASE DeleteNamespace(n)
    BY <2>2, <1>2, GoneType, PutNsType DEF DeleteNamespace
  <2>3. CASE OptIn(n)
    BY <2>3, <1>2, <1>3, UserAssumption, PutNsType DEF OptIn
  <2>4. CASE OptOut(n)
    BY <2>4, <1>2, <1>3, PutNsType DEF OptOut
  <2> QED
    BY <2>1, <2>2, <2>3, <2>4
<1>5. userOps' \in Nat
  BY <1>1 DEF ByUser, UserOp, BoundsTypeOK
<1> QED
  BY <1>1, <1>4, <1>5 DEF ByUser, APITypeOK, InformerTypeOK, WorkerTypeOK,
     BoundsTypeOK, cacheVars, cycleVars, workerVars

LEMMA SDNType ==
  ASSUME OutsideTypeOK, SDNStep
  PROVE  OutsideTypeOK' /\ UNCHANGED cycleVars
<1> PICK n \in Names : CreateNetNamespace(n) \/ DeleteNetNamespace(n)
  BY DEF SDNStep
<1> USE DEF OutsideTypeOK
<1>1. nn[n].rv + 1 \in Nat
  BY DEF APITypeOK, NetNamespaces
<1>2. [exists |-> TRUE, ips |-> NoIPs, rv |-> nn[n].rv + 1] \in NetNamespaces
  BY <1>1, NoIPsType DEF NetNamespaces
<1>3. nn' \in [Names -> NetNamespaces] /\ nnEvents' \in Seq(Events(NetNamespaces))
  BY <1>1, <1>2, GoneType, PutNetType DEF CreateNetNamespace, DeleteNetNamespace
<1> QED
  BY <1>3 DEF CreateNetNamespace, DeleteNetNamespace, BySDN, APITypeOK, InformerTypeOK,
     WorkerTypeOK, BoundsTypeOK, cacheVars, cycleVars, workerVars,
     boundVars

LEMMA InformerType ==
  ASSUME OutsideTypeOK, DeliverNamespace \/ DeliverNetNamespace
  PROVE  OutsideTypeOK' /\ UNCHANGED cycleVars
<1> USE DEF OutsideTypeOK
<1>1. CASE DeliverNamespace
  <2>1. /\ Head(nsEvents) \in Events(Namespaces)
        /\ nsEvents' \in Seq(Events(Namespaces))
    BY <1>1 DEF DeliverNamespace, InformerTypeOK
  <2>2. nsCache' \in [Names -> Namespaces]
    BY <1>1, <2>1 DEF DeliverNamespace, InformerTypeOK, Events
  <2>3. nsQueue' \subseteq Names
    BY <1>1, <2>1 DEF DeliverNamespace, InformerTypeOK, Events
  <2>4. queued' \in BOOLEAN
    BY <1>1, Zenon DEF DeliverNamespace
  <2> QED
    BY <1>1, <2>1, <2>2, <2>3, <2>4 DEF DeliverNamespace, APITypeOK, InformerTypeOK,
       WorkerTypeOK, BoundsTypeOK, apiVars, cycleVars, workerVars,
       boundVars
<1>2. CASE DeliverNetNamespace
  <2>1. /\ Head(nnEvents) \in Events(NetNamespaces)
        /\ nnEvents' \in Seq(Events(NetNamespaces))
    BY <1>2 DEF DeliverNetNamespace, InformerTypeOK
  <2>2. nnCache' \in [Names -> NetNamespaces]
    BY <1>2, <2>1 DEF DeliverNetNamespace, InformerTypeOK, Events
  <2>3. queued' \in BOOLEAN
    BY <1>2, Zenon DEF DeliverNetNamespace
  <2> QED
    BY <1>2, <2>1, <2>2, <2>3 DEF DeliverNetNamespace, APITypeOK, InformerTypeOK,
       WorkerTypeOK, BoundsTypeOK, apiVars, cycleVars, workerVars,
       boundVars
<1> QED
  BY <1>1, <1>2

\* What every step of a cycle that does not end the process leaves alone.
LEMMA InCycleType ==
  ASSUME OutsideTypeOK, InCycle, queued' \in BOOLEAN,
         nsEvents' \in Seq(Events(Namespaces)), nnEvents' \in Seq(Events(NetNamespaces)),
         faults' \in Nat, staleReads' \in Nat
  PROVE  InformerTypeOK' /\ WorkerTypeOK' /\ BoundsTypeOK'
BY DEF OutsideTypeOK, InCycle, InformerTypeOK, WorkerTypeOK, BoundsTypeOK, cacheVars,
   workerVars

LEMMA ReadType ==
  ASSUME BoundsTypeOK, NEW e, Read(e)
  PROVE  staleReads' \in Nat
BY DEF Read, BoundsTypeOK

\* The ways in which a cycle ends early or late.
LEMMA EndCycleType ==
  ASSUME TypeOK, InCycle, NEW error \in BOOLEAN, EndCycle(error), APITypeOK',
         nsEvents' \in Seq(Events(Namespaces)), nnEvents' \in Seq(Events(NetNamespaces)),
         faults' \in Nat, staleReads' \in Nat
  PROVE  TypeOK'
<1>1. queued' \in BOOLEAN
  BY Zenon DEF EndCycle
<1>2. CycleTypeOK'
  BY NoContextType DEF EndCycle
<1> QED
  BY <1>1, <1>2, InCycleType DEF TypeOK, OutsideTypeOK

\* The IPs of the assigned namespaces, the excluded and the used addresses.
LEMMA UsedType ==
  ASSUME TypeOK, \A n \in Assigned : ~TooFew(n)
  PROVE  /\ [k \in K |-> UsedIn(k)] \in [K -> SUBSET Nat]
         /\ [k \in K |-> KnownIn(k)] \in [K -> SUBSET Nat]
<1> SUFFICES ASSUME NEW k \in K
             PROVE  UsedIn(k) \subseteq Nat /\ KnownIn(k) \subseteq Nat
  OBVIOUS
<1>1. \A n \in Assigned : nsList[n].ips[k] \in Nat
  <2> SUFFICES ASSUME NEW n \in Assigned
               PROVE  nsList[n].ips[k] \in Nat
    OBVIOUS
  <2>1. nsList[n].ips \in Seq(Nat) /\ Len(CIDRs) \in Nat
    BY CIDRsAssumption DEF TypeOK, CycleTypeOK, Namespaces, Assigned, Referring
  <2>2. k \in 1..Len(nsList[n].ips)
    BY <2>1 DEF TooFew, K
  <2> QED
    BY <2>1, <2>2
<1>2. AlwaysExcluded(CIDRs[k]) \subseteq Nat
  <2>1. IsCIDR(CIDRs[k])
    BY CIDRsAssumption
  <2> QED
    BY <2>1 DEF AlwaysExcluded, Base, Broadcast, IsCIDR
<1>3. InUse[k] \subseteq Nat /\ CloudInUse[k] \subseteq Nat
  BY InUseAssumption
<1> QED
  BY <1>1, <1>2, <1>3 DEF UsedIn, KnownIn

LEMMA WithIPsType ==
  ASSUME TypeOK, Available, NEW n \in Names
  PROVE  WithIPs(n) \in Namespaces
<1>1. nsList[n] \in Namespaces
  BY DEF TypeOK, CycleTypeOK
<1> QED
  BY <1>1, NextAvailableType, WithAnnotation DEF WithIPs

LEMMA NetWithIPsType ==
  ASSUME TypeOK, NEW n \in Names
  PROVE  NetWithIPs(n) \in NetNamespaces
<1>1. nsList[n].ips \in Seq(Nat) /\ nnList[n] \in NetNamespaces
  BY DEF TypeOK, CycleTypeOK, Namespaces
<1> QED
  BY <1>1, WithEgressIPs DEF NetWithIPs

LEMMA CycleType ==
  ASSUME TypeOK, EgressIPAMStep
  PROVE  TypeOK'
<1> USE DEF TypeOK
<1>0. /\ nsEvents \in Seq(Events(Namespaces)) /\ nnEvents \in Seq(Events(NetNamespaces))
      /\ faults \in Nat /\ staleReads \in Nat /\ queued \in BOOLEAN
  BY DEF InformerTypeOK, BoundsTypeOK
<1>1. CASE StartCycle
  <2>1. CycleTypeOK' /\ APITypeOK'
    BY <1>1 DEF StartCycle, CycleTypeOK, APITypeOK, apiVars
  <2> QED
    BY <1>0, <1>1, <2>1, InCycleType DEF OutsideTypeOK, StartCycle
<1>2. CASE ListNamespaces
  <2>1. CycleTypeOK' /\ APITypeOK'
    BY <1>2 DEF ListNamespaces, CycleTypeOK, APITypeOK, apiVars, InformerTypeOK
  <2> QED
    BY <1>0, <1>2, <2>1, InCycleType, ReadType DEF OutsideTypeOK, ListNamespaces
<1>3. CASE ListNetNamespaces
  <2>1. CycleTypeOK' /\ APITypeOK'
    BY <1>3 DEF ListNetNamespaces, CycleTypeOK, APITypeOK, apiVars, InformerTypeOK
  <2> QED
    BY <1>0, <1>3, <2>1, InCycleType, ReadType DEF OutsideTypeOK, ListNetNamespaces
<1>4. CASE OtherError
  <2>1. APITypeOK'
    BY <1>4 DEF OtherError, APITypeOK, apiVars
  <2>2. /\ InCycle /\ EndCycle(TRUE)
        /\ UNCHANGED <<nsEvents, nnEvents, staleReads>>
    BY <1>4, Zenon DEF OtherError
  <2>3. faults' \in Nat
    BY <1>0, <1>4 DEF OtherError
  <2> QED
    BY <1>0, <2>1, <2>2, <2>3, EndCycleType
<1>5. CASE SortPanics
  BY <1>5, StopType DEF SortPanics, BoundsTypeOK, boundVars
<1>6. CASE SortFails \/ Exhausted \/ SyncFailed \/ FinishCycle
  <2>1. APITypeOK'
    BY <1>6 DEF SortFails, Exhausted, SyncFailed, FinishCycle, APITypeOK, apiVars
  <2>2. InCycle /\ UNCHANGED <<nsEvents, nnEvents, faults, staleReads>>
    BY <1>6 DEF SortFails, Exhausted, SyncFailed, FinishCycle
  <2>3. EndCycle(TRUE) \/ EndCycle(FALSE)
    BY <1>6 DEF SortFails, Exhausted, SyncFailed, FinishCycle
  <2> QED
    BY <1>0, <2>1, <2>2, <2>3, EndCycleType
<1>7. CASE SortIPsByCIDR \/ CloudSilent
  <2>1. Assigned \subseteq Names /\ Unassigned \subseteq Names
    BY DEF Assigned, Unassigned, Referring
  <2>2. CycleTypeOK' /\ APITypeOK'
    BY <1>7, <2>1, UsedType
       DEF SortIPsByCIDR, CloudSilent, Sorted, CycleTypeOK, APITypeOK, apiVars
  <2>3. faults' \in Nat
    BY <1>0, <1>7 DEF SortIPsByCIDR, CloudSilent, CloudCallFails
  <2> QED
    BY <1>0, <1>7, <2>2, <2>3, InCycleType DEF OutsideTypeOK, SortIPsByCIDR, CloudSilent, Sorted
<1>8. ASSUME NEW n \in Names, AssignIPs(n)
      PROVE  TypeOK'
  <2>1. WithIPs(n) \in Namespaces /\ \A k \in K : NextAvailable(k) \in Nat
    BY <1>8, WithIPsType, NextAvailableType DEF AssignIPs
  <2>2. /\ ns' \in [Names -> Namespaces] /\ nsEvents' \in Seq(Events(Namespaces))
        /\ faults' \in Nat
    BY <1>8, <2>1, WriteNsType DEF AssignIPs
  <2>3. used' \in [K -> SUBSET Nat]
    BY <1>8, <2>1 DEF AssignIPs, UsedAfter, CycleTypeOK
  <2>4. CycleTypeOK' /\ APITypeOK'
    BY <1>8, <2>1, <2>2, <2>3 DEF AssignIPs, CycleTypeOK, APITypeOK
  <2> QED
    BY <1>0, <1>8, <2>2, <2>4, InCycleType DEF OutsideTypeOK, AssignIPs
<1>9. ASSUME NEW n \in Names, AssignFails(n)
      PROVE  TypeOK'
  <2>1. WithIPs(n) \in Namespaces
    BY <1>9, WithIPsType DEF AssignFails
  <2>2. /\ ns' \in [Names -> Namespaces] /\ nsEvents' \in Seq(Events(Namespaces))
        /\ faults' \in Nat
    BY <1>9, <2>1, WriteNsType DEF AssignFails
  <2>3. APITypeOK'
    BY <1>9, <2>2 DEF AssignFails, APITypeOK
  <2> QED
    BY <1>0, <1>9, <2>2, <2>3, EndCycleType DEF AssignFails
<1>10. CASE AssignDone \/ SyncDone
  <2>1. CycleTypeOK' /\ APITypeOK'
    BY <1>10 DEF AssignDone, SyncDone, CycleTypeOK, APITypeOK, apiVars, rcVars
  <2> QED
    BY <1>0, <1>10, <2>1, InCycleType DEF OutsideTypeOK, AssignDone, SyncDone
<1>11. ASSUME NEW n \in Names, SyncNetNamespace(n)
       PROVE  TypeOK'
  <2>1. /\ nn' \in [Names -> NetNamespaces] /\ nnEvents' \in Seq(Events(NetNamespaces))
        /\ faults' \in Nat
    BY <1>11, NetWithIPsType, WriteNetType DEF SyncNetNamespace
  <2>2. failed' \in BOOLEAN
    BY <1>11 DEF SyncNetNamespace, CycleTypeOK
  <2>3. CycleTypeOK' /\ APITypeOK'
    BY <1>11, <2>1, <2>2 DEF SyncNetNamespace, CycleTypeOK, APITypeOK
  <2> QED
    BY <1>0, <1>11, <2>1, <2>3, InCycleType DEF OutsideTypeOK, SyncNetNamespace
<1> QED
  BY <1>1, <1>2, <1>3, <1>4, <1>5, <1>6, <1>7, <1>8, <1>9, <1>10, <1>11
     DEF EgressIPAMStep

\* What the steps of the Namespace controller leave alone.
LEMMA OnWorkerType ==
  ASSUME OutsideTypeOK, OnWorker, nsQueue' \subseteq Names,
         nsEvents' \in Seq(Events(Namespaces)), nnEvents' \in Seq(Events(NetNamespaces)),
         faults' \in Nat, staleReads' \in Nat
  PROVE  InformerTypeOK' /\ BoundsTypeOK' /\ UNCHANGED cycleVars
BY DEF OutsideTypeOK, OnWorker, InformerTypeOK, BoundsTypeOK, cacheVars

LEMMA EndCleanUpType ==
  ASSUME NEW requests \in SUBSET Names, EndCleanUp(requests)
  PROVE  WorkerTypeOK' /\ nsQueue' \subseteq Names
BY NoCleanUpType DEF EndCleanUp

LEMMA WorkerType ==
  ASSUME OutsideTypeOK, NamespaceStep
  PROVE  OutsideTypeOK' /\ UNCHANGED cycleVars
<1> USE DEF OutsideTypeOK
<1>0. /\ nsEvents \in Seq(Events(Namespaces)) /\ nnEvents \in Seq(Events(NetNamespaces))
      /\ faults \in Nat /\ staleReads \in Nat /\ nsQueue \in SUBSET Names
      /\ wpc # "idle" => wname \in Names
      /\ wns \in Namespaces /\ wnn \in NetNamespaces
      /\ nsCache \in [Names -> Namespaces] /\ nnCache \in [Names -> NetNamespaces]
  BY DEF InformerTypeOK, BoundsTypeOK, WorkerTypeOK
<1>1. ASSUME NEW n \in Names, GetNamespace(n)
      PROVE  OutsideTypeOK' /\ UNCHANGED cycleVars
  <2>1. WorkerTypeOK' /\ nsQueue' \subseteq Names
    <3>1. CASE nsCache[n].exists
      BY <1>0, <1>1, <3>1 DEF GetNamespace, WorkerTypeOK
    <3>2. CASE ~nsCache[n].exists
      BY <1>0, <1>1, <3>2, EndCleanUpType DEF GetNamespace
    <3> QED
      BY <3>1, <3>2
  <2> QED
    BY <1>0, <1>1, <2>1, ReadType, OnWorkerType DEF GetNamespace, APITypeOK, apiVars
<1>2. CASE GetNetNamespace
  <2>1. WorkerTypeOK' /\ nsQueue' \subseteq Names
    <3>1. CASE nnCache[wname].exists
      BY <1>0, <1>2, <3>1 DEF GetNetNamespace, WorkerTypeOK
    <3>2. CASE ~nnCache[wname].exists
      BY <1>0, <1>2, <3>2, EndCleanUpType DEF GetNetNamespace
    <3> QED
      BY <3>1, <3>2
  <2> QED
    BY <1>0, <1>2, <2>1, ReadType, OnWorkerType DEF GetNetNamespace, APITypeOK, apiVars
<1>3. CASE CleanNetNamespace \/ CleanNetNamespaceFails
  <2>1. wname \in Names /\ [wnn EXCEPT !.ips = NoIPs] \in NetNamespaces
    BY <1>0, <1>3, NoIPsType, WithEgressIPs DEF CleanNetNamespace, CleanNetNamespaceFails
  <2>2. /\ nn' \in [Names -> NetNamespaces] /\ nnEvents' \in Seq(Events(NetNamespaces))
        /\ faults' \in Nat
    BY <1>3, <2>1, WriteNetType DEF CleanNetNamespace, CleanNetNamespaceFails
  <2>3. WorkerTypeOK' /\ nsQueue' \subseteq Names
    <3>1. CASE CleanNetNamespace
      BY <1>0, <2>1, <3>1 DEF CleanNetNamespace, WorkerTypeOK
    <3>2. CASE CleanNetNamespaceFails
      BY <1>0, <2>1, <3>2, EndCleanUpType DEF CleanNetNamespaceFails
    <3> QED
      BY <1>3, <3>1, <3>2
  <2> QED
    BY <1>0, <1>3, <2>2, <2>3, OnWorkerType
       DEF CleanNetNamespace, CleanNetNamespaceFails, APITypeOK
<1>4. CASE NothingToClean
  <2>1. WorkerTypeOK' /\ nsQueue' \subseteq Names
    BY <1>0, <1>4, EndCleanUpType DEF NothingToClean
  <2> QED
    BY <1>0, <1>4, <2>1, OnWorkerType DEF NothingToClean, APITypeOK, apiVars
<1>5. CASE CleanNamespace \/ CleanNamespaceFails
  <2>1. wname \in Names /\ [wns EXCEPT !.ips = NoIPs] \in Namespaces
    BY <1>0, <1>5, NoIPsType, WithAnnotation DEF CleanNamespace, CleanNamespaceFails
  <2>2. /\ ns' \in [Names -> Namespaces] /\ nsEvents' \in Seq(Events(Namespaces))
        /\ faults' \in Nat
    BY <1>5, <2>1, WriteNsType DEF CleanNamespace, CleanNamespaceFails
  <2>3. WorkerTypeOK' /\ nsQueue' \subseteq Names
    BY <1>0, <1>5, <2>1, EndCleanUpType DEF CleanNamespace, CleanNamespaceFails, Retry
  <2> QED
    BY <1>0, <1>5, <2>2, <2>3, OnWorkerType
       DEF CleanNamespace, CleanNamespaceFails, APITypeOK
<1> QED
  BY <1>1, <1>2, <1>3, <1>4, <1>5 DEF NamespaceStep

\* None of these touches the cycle.
LEMMA OutsideType ==
  ASSUME TypeOK,
         UserStep \/ SDNStep \/ DeliverNamespace \/ DeliverNetNamespace \/ NamespaceStep
  PROVE  TypeOK'
<1>1. OutsideTypeOK
  BY DEF TypeOK, OutsideTypeOK
<1>2. OutsideTypeOK' /\ UNCHANGED cycleVars
  BY <1>1, UserType, SDNType, InformerType, WorkerType
<1>3. CycleTypeOK'
  BY <1>2 DEF TypeOK, CycleTypeOK, cycleVars, rcVars
<1> QED
  BY <1>2, <1>3 DEF TypeOK, OutsideTypeOK

LEMMA ProcessType ==
  ASSUME TypeOK, Crash \/ Restart
  PROVE  TypeOK'
<1> USE DEF TypeOK
<1>1. CASE Crash
  <2>1. BoundsTypeOK'
    BY <1>1 DEF Crash, BoundsTypeOK
  <2> QED
    BY <1>1, <2>1, StopType DEF Crash
<1>2. CASE Restart
  <2>1. up' \in BOOLEAN /\ queued' \in BOOLEAN
    BY <1>2, Zenon DEF Restart
  <2> QED
    BY <1>2, <2>1 DEF Restart, APITypeOK, InformerTypeOK, CycleTypeOK, WorkerTypeOK,
       BoundsTypeOK, apiVars, cycleVars, rcVars, workerVars, boundVars
<1> QED
  BY <1>1, <1>2

LEMMA InitType == Init => TypeOK
<1> SUFFICES ASSUME Init PROVE TypeOK
  OBVIOUS
<1>1. APITypeOK
  BY NoIPsType DEF Init, APITypeOK, Namespaces, NetNamespaces
<1>2. InformerTypeOK
  <2>1. up \in BOOLEAN /\ queued \in BOOLEAN
    BY Zenon DEF Init
  <2>2. /\ nsEvents \in Seq(Events(Namespaces)) /\ nnEvents \in Seq(Events(NetNamespaces))
        /\ nsQueue \subseteq Names
    BY DEF Init
  <2>3. nsCache = ns /\ nnCache = nn
    BY DEF Init
  <2> QED
    BY <1>1, <2>1, <2>2, <2>3 DEF InformerTypeOK, APITypeOK
<1>3. CycleTypeOK
  <2>1. NoNamespaces \in [Names -> Namespaces] /\ NoNetNamespaces \in [Names -> NetNamespaces]
    BY GoneType DEF NoNamespaces, NoNetNamespaces
  <2> QED
    BY <2>1 DEF Init, CycleTypeOK, NoUsed
<1>4. WorkerTypeOK /\ BoundsTypeOK
  BY GoneType DEF Init, WorkerTypeOK, BoundsTypeOK
<1> QED
  BY <1>1, <1>2, <1>3, <1>4 DEF TypeOK

LEMMA StutterType ==
  ASSUME TypeOK, UNCHANGED vars
  PROVE  TypeOK'
BY DEF TypeOK, APITypeOK, InformerTypeOK, CycleTypeOK, WorkerTypeOK, BoundsTypeOK, vars,
   apiVars, cacheVars, cycleVars, rcVars, workerVars, boundVars

LEMMA StepType == TypeOK /\ [Next]_vars => TypeOK'
BY OutsideType, CycleType, ProcessType, StutterType DEF Next

\* For any constants: the variables keep their types.  In particular what is
\* handed out is always one address per CIDR.
THEOREM TypesPreserved == Spec => []TypeOK
BY InitType, StepType, PTL DEF Spec

-----------------------------------------------------------------------------
(* Optimistic concurrency                                                  *)

\* o is a copy of namespace n: what is stored, or an earlier version of it.
IsVersion(n, o) == ~o.exists \/ o = ns[n] \/ o.rv < ns[n].rv

CacheCurrent ==
  /\ \A n \in Names : IsVersion(n, nsCache[n])
  /\ \A i \in DOMAIN nsEvents : IsVersion(nsEvents[i].name, nsEvents[i].new)

\* The namespaces that still have to be written are as they were listed.
ListCurrent ==
  /\ pc = "load" /\ "namespaces" \notin loading =>
       \A n \in Names : IsVersion(n, nsList[n])
  /\ pc = "assign" => \A n \in todo : IsVersion(n, nsList[n]) /\ nsList[n].ips = NoIPs

CopiesCurrent == CacheCurrent /\ ListCurrent

Grows(n) == ns'[n] = ns[n] \/ ns'[n].rv > ns[n].rv

\* A version stays one while the stored object grows.
LEMMA VersionKept ==
  ASSUME TypeOK, NEW n \in Names, NEW o \in Namespaces, IsVersion(n, o), Grows(n), TypeOK'
  PROVE  ~o.exists \/ o = ns'[n] \/ o.rv < ns'[n].rv
<1>1. o.rv \in Nat /\ ns[n].rv \in Nat /\ ns'[n].rv \in Nat
  BY DEF TypeOK, APITypeOK, Namespaces
<1> QED
  BY <1>1 DEF IsVersion, Grows

\* A write, of a user or accepted from a controller, is reported to the
\* informers as the version that is stored.
LEMMA PutKeepsCache ==
  ASSUME TypeOK, TypeOK', CacheCurrent, NEW n \in Names, NEW new \in Namespaces,
         PutNs(n, new), new = ns[n] \/ new.rv > ns[n].rv, nsCache' = nsCache
  PROVE  CacheCurrent' /\ \A m \in Names : Grows(m)
<1>1. \A m \in Names : Grows(m)
  BY DEF TypeOK, APITypeOK, PutNs, Grows
<1>2. \A m \in Names : IsVersion(m, nsCache[m])'
  <2> TAKE m \in Names
  <2>1. nsCache[m] \in Namespaces
    BY DEF TypeOK, InformerTypeOK
  <2> QED
    BY <1>1, <2>1, VersionKept DEF CacheCurrent, IsVersion
<1>3. ASSUME NEW i \in DOMAIN nsEvents'
      PROVE  IsVersion(nsEvents[i].name, nsEvents[i].new)'
  <2>1. nsEvents \in Seq(Events(Namespaces))
    BY DEF TypeOK, InformerTypeOK
  <2>2. CASE i \in DOMAIN nsEvents
    <3>1. nsEvents'[i] = nsEvents[i] /\ nsEvents[i] \in Events(Namespaces)
      BY <2>1, <2>2 DEF PutNs, Watch
    <3>2. nsEvents[i].name \in Names /\ nsEvents[i].new \in Namespaces
      BY <3>1 DEF Events
    <3>3. IsVersion(nsEvents[i].name, nsEvents[i].new)
      BY <2>2 DEF CacheCurrent
    <3> QED
      BY <1>1, <3>1, <3>2, <3>3, VersionKept DEF IsVersion
  <2>3. CASE i \notin DOMAIN nsEvents
    <3>1. nsEvents'[i] = Event(n, ns[n], new)
      BY <1>3, <2>1, <2>3 DEF PutNs, Watch
    <3>2. ns'[n] = new
      BY DEF TypeOK, APITypeOK, PutNs
    <3> QED
      BY <3>1, <3>2 DEF Event, IsVersion
  <2> QED
    BY <2>2, <2>3
<1> QED
  BY <1>1, <1>2, <1>3 DEF CacheCurrent

\* An accepted write stores a higher version, or changes nothing.
LEMMA AcceptedGrows ==
  ASSUME NEW s \in Namespaces, NEW o \in Namespaces, Accepts(s, o)
  PROVE  Stored(s, o) = s \/ Stored(s, o).rv > s.rv
BY DEF Accepts, Stored, Namespaces

LEMMA WriteKeepsCache ==
  ASSUME TypeOK, TypeOK', CacheCurrent, NEW n \in Names, NEW obj \in Namespaces,
         UpdateNs(n, obj) \/ RefusedNs(n, obj) \/ FaultyNs(n, obj), nsCache' = nsCache
  PROVE  CacheCurrent' /\ \A m \in Names : Grows(m)
<1>1. CASE UNCHANGED <<ns, nsEvents>>
  BY <1>1 DEF CacheCurrent, IsVersion, Grows
<1>2. CASE Accepts(ns[n], obj) /\ PutNs(n, Stored(ns[n], obj))
  <2>1. ns[n] \in Namespaces /\ Stored(ns[n], obj) \in Namespaces
    BY StoredType DEF TypeOK, APITypeOK
  <2>2. Stored(ns[n], obj) = ns[n] \/ Stored(ns[n], obj).rv > ns[n].rv
    BY <1>2, <2>1, AcceptedGrows
  <2> QED
    BY <1>2, <2>1, <2>2, PutKeepsCache
<1> QED
  BY <1>1, <1>2 DEF UpdateNs, RefusedNs, FaultyNs

\* The list of a cycle that goes on without being touched stays current.
LEMMA ListKept ==
  ASSUME TypeOK, TypeOK', ListCurrent, \A m \in Names : Grows(m),
         UNCHANGED <<pc, loading, nsList, todo>>
  PROVE  ListCurrent'
<1>1. ASSUME NEW n \in Names, IsVersion(n, nsList[n])
      PROVE  IsVersion(n, nsList[n])'
  <2>1. nsList[n] \in Namespaces
    BY DEF TypeOK, CycleTypeOK
  <2> QED
    BY <1>1, <2>1, VersionKept DEF IsVersion
<1>2. todo \subseteq Names
  BY DEF TypeOK, CycleTypeOK
<1> QED
  BY <1>1, <1>2 DEF ListCurrent

LEMMA UserCurrent ==
  ASSUME TypeOK, TypeOK', CopiesCurrent, UserStep
  PROVE  CopiesCurrent'
<1> USE DEF CopiesCurrent
<1> PICK n \in Names : \/ CreateNamespace(n) \/ DeleteNamespace(n)
                      \/ OptIn(n) \/ OptOut(n)
  BY DEF UserStep
<1>1. UNCHANGED <<nsCache, pc, loading, nsList, todo>>
  BY DEF CreateNamespace, DeleteNamespace, OptIn, OptOut, ByUser, cacheVars, cycleVars,
     rcVars
<1>a. \A ref, ips : Edited(n, ref, ips).rv = ns[n].rv + 1
  BY DEF Edited
<1>b. Gone(ns[n].rv + 1).rv = ns[n].rv + 1
  BY DEF Gone
<1>2. PICK new : PutNs(n, new) /\ new.rv = ns[n].rv + 1
  <2>1. CASE CreateNamespace(n)
    <3>1. PICK ref \in BOOLEAN : PutNs(n, Edited(n, ref, NoIPs))
      BY <2>1 DEF CreateNamespace
    <3> QED
      BY <3>1, <1>a
  <2>2. CASE DeleteNamespace(n)
    <3>1. PutNs(n, Gone(ns[n].rv + 1))
      BY <2>2 DEF DeleteNamespace
    <3> QED
      BY <3>1, <1>b
  <2>3. CASE OptIn(n)
    <3>1. PICK ips : PutNs(n, Edited(n, TRUE, ips))
      BY <2>3 DEF OptIn
    <3> QED
      BY <3>1, <1>a
  <2>4. CASE OptOut(n)
    <3>1. PutNs(n, Edited(n, FALSE, ns[n].ips))
      BY <2>4 DEF OptOut
    <3> QED
      BY <3>1, <1>a
  <2> QED
    BY <2>1, <2>2, <2>3, <2>4
<1>3. new = ns'[n] /\ new \in Namespaces /\ ns[n].rv \in Nat
  BY <1>2 DEF PutNs, TypeOK, APITypeOK, Namespaces
<1>4. new.rv > ns[n].rv
  BY <1>2, <1>3
<1> QED
  BY <1>1, <1>2, <1>3, <1>4, PutKeepsCache, ListKept

LEMMA DeliverCurrent ==
  ASSUME TypeOK, TypeOK', CopiesCurrent, DeliverNamespace
  PROVE  CopiesCurrent'
<1> USE DEF CopiesCurrent
<1>1. UNCHANGED <<ns, pc, loading, nsList, todo>>
  BY DEF DeliverNamespace, apiVars, cycleVars, rcVars
<1>2. nsEvents \in Seq(Events(Namespaces)) /\ nsEvents # << >>
  BY DEF TypeOK, InformerTypeOK, DeliverNamespace
<1>3. IsVersion(nsEvents[1].name, nsEvents[1].new)
  BY <1>2 DEF CacheCurrent
<1>4. \A n \in Names : IsVersion(n, nsCache'[n])
  <2>1. Head(nsEvents) = nsEvents[1]
    BY <1>2
  <2>2. nsCache' = [nsCache EXCEPT ![Head(nsEvents).name] = Head(nsEvents).new]
    BY Zenon DEF DeliverNamespace
  <2> QED
    BY <1>3, <2>1, <2>2 DEF TypeOK, InformerTypeOK, CacheCurrent
<1>5. ASSUME NEW i \in DOMAIN nsEvents'
      PROVE  IsVersion(nsEvents'[i].name, nsEvents'[i].new)
  <2>1. i + 1 \in DOMAIN nsEvents /\ nsEvents'[i] = nsEvents[i + 1]
    BY <1>2, <1>5 DEF DeliverNamespace
  <2> QED
    BY <2>1 DEF CacheCurrent
<1>6. CacheCurrent'
  BY <1>1, <1>4, <1>5 DEF CacheCurrent, IsVersion
<1>7. \A m \in Names : Grows(m)
  BY <1>1 DEF Grows
<1> QED
  BY <1>1, <1>6, <1>7, ListKept

\* Steps that touch no namespace, cache, event or list.
LEMMA ElsewhereCurrent ==
  ASSUME TypeOK, TypeOK', CopiesCurrent,
         UNCHANGED <<ns, nsCache, nsEvents, pc, loading, nsList, todo>>
  PROVE  CopiesCurrent'
<1>1. CacheCurrent'
  BY DEF CopiesCurrent, CacheCurrent, IsVersion
<1>2. \A m \in Names : Grows(m)
  BY DEF Grows
<1> QED
  BY <1>1, <1>2, ListKept DEF CopiesCurrent

LEMMA StopCurrent ==
  ASSUME Stop
  PROVE  CopiesCurrent'
BY DEF Stop, CopiesCurrent, CacheCurrent, ListCurrent, IsVersion, NoNamespaces, Gone

LEMMA CycleCurrent ==
  ASSUME TypeOK, TypeOK', CopiesCurrent, EgressIPAMStep
  PROVE  CopiesCurrent'
<1> USE DEF CopiesCurrent
<1>1. CASE StartCycle
  BY <1>1 DEF StartCycle, InCycle, CacheCurrent, ListCurrent, IsVersion, apiVars, cacheVars
<1>2. CASE ListNamespaces
  BY <1>2 DEF ListNamespaces, InCycle, CacheCurrent, ListCurrent, IsVersion, apiVars,
     cacheVars
<1>3. CASE ListNetNamespaces
  BY <1>3 DEF ListNetNamespaces, InCycle, CacheCurrent, ListCurrent, IsVersion, apiVars,
     cacheVars
<1>4. CASE OtherError \/ SortFails \/ Exhausted \/ SyncFailed \/ FinishCycle
  <2>1. UNCHANGED <<ns, nsCache, nsEvents>> /\ pc' = "idle"
    BY <1>4 DEF OtherError, SortFails, Exhausted, SyncFailed, FinishCycle, EndCycle,
       InCycle, apiVars, cacheVars
  <2> QED
    BY <2>1 DEF CacheCurrent, ListCurrent, IsVersion
<1>5. CASE SortPanics
  BY <1>5, StopCurrent DEF SortPanics
<1>6. CASE SortIPsByCIDR \/ CloudSilent
  <2>1. UNCHANGED <<ns, nsCache, nsEvents, nsList>> /\ pc' = "assign" /\ todo' = Unassigned
    BY <1>6 DEF SortIPsByCIDR, CloudSilent, Sorted, InCycle, apiVars, cacheVars
  <2>2. \A n \in Names : IsVersion(n, nsList[n])
    BY <1>6 DEF SortIPsByCIDR, CloudSilent, Sorted, AtSort, ListCurrent
  <2> QED
    BY <2>1, <2>2 DEF CacheCurrent, ListCurrent, IsVersion, Unassigned, Referring
<1>7. ASSUME NEW n \in Names, AssignIPs(n)
      PROVE  CopiesCurrent'
  <2>1. WithIPs(n) \in Namespaces /\ nsCache' = nsCache
    BY <1>7, WithIPsType DEF AssignIPs, InCycle, cacheVars
  <2>2. CacheCurrent' /\ \A m \in Names : Grows(m)
    BY <1>7, <2>1, WriteKeepsCache DEF AssignIPs
  <2>3. ASSUME NEW m \in todo'
        PROVE  IsVersion(m, nsList[m])' /\ nsList'[m].ips = NoIPs
    <3>1. m \in todo /\ m # n /\ m \in Names /\ nsList'[m] = nsList[m]
      BY <1>7, <2>3 DEF AssignIPs, TypeOK, CycleTypeOK
    <3>2. nsList[m] \in Namespaces /\ IsVersion(m, nsList[m]) /\ nsList[m].ips = NoIPs
      BY <1>7, <3>1 DEF AssignIPs, ListCurrent, TypeOK, CycleTypeOK
    <3> QED
      BY <2>2, <3>1, <3>2, VersionKept DEF IsVersion
  <2> QED
    BY <1>7, <2>2, <2>3 DEF AssignIPs, ListCurrent
<1>8. ASSUME NEW n \in Names, AssignFails(n)
      PROVE  CopiesCurrent'
  <2>1. WithIPs(n) \in Namespaces /\ nsCache' = nsCache
    BY <1>8, WithIPsType DEF AssignFails, InCycle, cacheVars
  <2>2. CacheCurrent'
    BY <1>8, <2>1, WriteKeepsCache DEF AssignFails
  <2> QED
    BY <1>8, <2>2 DEF AssignFails, EndCycle, ListCurrent
<1>9. CASE AssignDone \/ SyncDone
  BY <1>9 DEF AssignDone, SyncDone, InCycle, CacheCurrent, ListCurrent, IsVersion, apiVars,
     cacheVars
<1>10. ASSUME NEW n \in Names, SyncNetNamespace(n)
       PROVE  CopiesCurrent'
  BY <1>10, ElsewhereCurrent DEF SyncNetNamespace, InCycle, cacheVars
<1> QED
  BY <1>1, <1>2, <1>3, <1>4, <1>5, <1>6, <1>7, <1>8, <1>9, <1>10 DEF EgressIPAMStep

LEMMA WorkerCurrent ==
  ASSUME TypeOK, TypeOK', CopiesCurrent, NamespaceStep
  PROVE  CopiesCurrent'
<1>1. UNCHANGED <<nsCache, pc, loading, nsList, todo>>
  BY DEF NamespaceStep, GetNamespace, GetNetNamespace, CleanNetNamespace,
     CleanNetNamespaceFails, NothingToClean, CleanNamespace, CleanNamespaceFails, OnWorker,
     cacheVars, cycleVars, rcVars
<1>2. CASE CleanNamespace \/ CleanNamespaceFails
  <2>1. wname \in Names /\ [wns EXCEPT !.ips = NoIPs] \in Namespaces
    BY <1>2, NoIPsType, WithAnnotation
       DEF CleanNamespace, CleanNamespaceFails, TypeOK, WorkerTypeOK
  <2>2. CacheCurrent' /\ \A m \in Names : Grows(m)
    BY <1>1, <1>2, <2>1, WriteKeepsCache
       DEF CopiesCurrent, CleanNamespace, CleanNamespaceFails
  <2> QED
    BY <1>1, <2>2, ListKept DEF CopiesCurrent
<1>3. CASE ~(CleanNamespace \/ CleanNamespaceFails)
  <2>1. UNCHANGED <<ns, nsEvents>>
    BY <1>3 DEF NamespaceStep, GetNamespace, GetNetNamespace, CleanNetNamespace,
       CleanNetNamespaceFails, NothingToClean, apiVars
  <2> QED
    BY <1>1, <2>1, ElsewhereCurrent
<1> QED
  BY <1>2, <1>3

LEMMA StepCurrent == TypeOK /\ TypeOK' /\ CopiesCurrent /\ [Next]_vars => CopiesCurrent'
<1> SUFFICES ASSUME TypeOK, TypeOK', CopiesCurrent, [Next]_vars
             PROVE  CopiesCurrent'
  OBVIOUS
<1>1. CASE SDNStep
  BY <1>1, ElsewhereCurrent DEF SDNStep, CreateNetNamespace, DeleteNetNamespace, BySDN,
     cacheVars, cycleVars, rcVars
<1>2. CASE DeliverNetNamespace
  BY <1>2, ElsewhereCurrent DEF DeliverNetNamespace, apiVars, cycleVars, rcVars
<1>3. CASE Crash
  BY <1>3, StopCurrent DEF Crash
<1>4. CASE Restart
  <2>1. UNCHANGED <<ns, nsEvents, pc, loading, nsList, todo>> /\ nsCache' = ns
    BY <1>4 DEF Restart, apiVars, cycleVars, rcVars
  <2> QED
    BY <2>1 DEF CopiesCurrent, CacheCurrent, ListCurrent, IsVersion
<1>5. CASE UNCHANGED vars
  BY <1>5, ElsewhereCurrent DEF vars, apiVars, cacheVars, cycleVars, rcVars
<1> QED
  BY <1>1, <1>2, <1>3, <1>4, <1>5, UserCurrent, DeliverCurrent, CycleCurrent,
     WorkerCurrent DEF Next

LEMMA InitCurrent == Init => CopiesCurrent
BY DEF Init, CopiesCurrent, CacheCurrent, ListCurrent, IsVersion

-----------------------------------------------------------------------------

\* A write of IPs that is accepted meets a namespace that has none.
LEMMA AssignMeetsNone ==
  ASSUME TypeOK, ListCurrent, pc = "assign", NEW n \in todo, Accepts(ns[n], WithIPs(n))
  PROVE  ns[n].ips = NoIPs
<1>1. n \in Names /\ nsList[n] \in Namespaces /\ ns[n] \in Namespaces
  BY DEF TypeOK, CycleTypeOK, APITypeOK
<1>2. WithIPs(n).rv = nsList[n].rv /\ WithIPs(n).exists = nsList[n].exists
  BY <1>1 DEF WithIPs, Namespaces
<1>3. nsList[n].exists /\ nsList[n].rv = ns[n].rv /\ ns[n].rv \in Nat
  BY <1>1, <1>2 DEF Accepts, Namespaces
<1>4. IsVersion(n, nsList[n]) /\ nsList[n].ips = NoIPs
  BY DEF ListCurrent
<1> QED
  BY <1>3, <1>4 DEF IsVersion

\* No step of a controller replaces IPs by other IPs.
LEMMA StepKeeps ==
  ASSUME TypeOK, CopiesCurrent, [Next]_vars, NEW n \in Names,
         userOps' = userOps, ns[n].ips # NoIPs
  PROVE  ns'[n].ips \in {ns[n].ips, NoIPs}
<1> USE DEF CopiesCurrent
<1>1. CASE UserStep
  <2>1. userOps' = userOps + 1 /\ userOps \in Nat
    BY <1>1 DEF UserStep, CreateNamespace, DeleteNamespace, OptIn, OptOut, ByUser, UserOp,
       TypeOK, BoundsTypeOK
  <2> QED
    BY <2>1
<1>2. ASSUME NEW m \in Names, AssignIPs(m) \/ AssignFails(m)
      PROVE  ns'[n].ips = ns[n].ips
  <2>1. pc = "assign" /\ m \in todo
    BY <1>2 DEF AssignIPs, AssignFails
  <2>2. CASE ns' = ns
    BY <2>2
  <2>3. CASE Accepts(ns[m], WithIPs(m)) /\ PutNs(m, Stored(ns[m], WithIPs(m)))
    <3>1. m # n
      BY <2>1, <2>3, AssignMeetsNone
    <3> QED
      BY <2>3, <3>1 DEF PutNs, TypeOK, APITypeOK
  <2> QED
    BY <1>2, <2>2, <2>3 DEF AssignIPs, AssignFails, UpdateNs, RefusedNs, FaultyNs
<1>3. CASE CleanNamespace \/ CleanNamespaceFails
  <2> DEFINE obj == [wns EXCEPT !.ips = NoIPs]
  <2>1. wname \in Names /\ obj \in Namespaces /\ obj.ips = NoIPs /\ ns[wname] \in Namespaces
    BY <1>3, NoIPsType, WithAnnotation
       DEF CleanNamespace, CleanNamespaceFails, TypeOK, WorkerTypeOK, APITypeOK, Namespaces
  <2>2. Stored(ns[wname], obj).ips = NoIPs
    BY <2>1 DEF Stored, Namespaces
  <2>3. ns' = ns \/ ns' = [ns EXCEPT ![wname] = Stored(ns[wname], obj)]
    BY <1>3 DEF CleanNamespace, CleanNamespaceFails, UpdateNs, RefusedNs, FaultyNs, PutNs
  <2> QED
    BY <2>1, <2>2, <2>3 DEF TypeOK, APITypeOK
<1>4. CASE SDNStep \/ DeliverNamespace \/ DeliverNetNamespace \/ Crash \/ Restart
  BY <1>4 DEF SDNStep, CreateNetNamespace, DeleteNetNamespace, BySDN, DeliverNamespace,
     DeliverNetNamespace, Crash, Restart, Stop, apiVars
<1>5. CASE EgressIPAMStep /\ ~(\E m \in Names : AssignIPs(m) \/ AssignFails(m))
  <2>1. ns' = ns
    BY <1>5 DEF EgressIPAMStep, StartCycle, ListNamespaces, ListNetNamespaces, OtherError,
       SortPanics, SortFails, SortIPsByCIDR, CloudSilent, Sorted, Exhausted, AssignDone,
       SyncNetNamespace, SyncDone, SyncFailed, FinishCycle, Stop, apiVars
  <2> QED
    BY <2>1
<1>6. CASE NamespaceStep /\ ~(CleanNamespace \/ CleanNamespaceFails)
  BY <1>6 DEF NamespaceStep, GetNamespace, GetNetNamespace, CleanNetNamespace,
     CleanNetNamespaceFails, NothingToClean, apiVars
<1>7. CASE UNCHANGED vars
  BY <1>7 DEF vars, apiVars
<1> QED
  BY <1>1, <1>2, <1>3, <1>4, <1>5, <1>6, <1>7 DEF Next

\* For any constants, however stale the caches are and whatever fails or
\* crashes: no update of a controller replaces the IPs of a namespace by
\* other IPs (the Update in assignIPsToNamespaces).
THEOREM AssignmentsAreKept == Spec => AssignmentKept
<1>1. TypeOK /\ CopiesCurrent /\ [Next]_vars =>
        [\A n \in Names :
           userOps' = userOps /\ ns[n].exists /\ ns[n].ips # NoIPs /\ ns'[n].exists
             => ns'[n].ips \in {ns[n].ips, NoIPs}]_vars
  BY StepKeeps
<1>2. Spec => [](TypeOK /\ CopiesCurrent)
  BY InitType, InitCurrent, StepType, StepCurrent, PTL DEF Spec
<1> QED
  BY <1>1, <1>2, PTL DEF Spec, AssignmentKept
=============================================================================
