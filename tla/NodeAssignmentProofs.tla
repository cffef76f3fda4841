------------------------ MODULE NodeAssignmentProofs ------------------------
(***************************************************************************)
(* Proofs about NodeAssignment, for any nodes, zones and IPs.              *)
(*                                                                         *)
(* The argument.  While IPs are being placed, what is placed and what is   *)
(* still to be assigned account for every IP in demand exactly (Account);  *)
(* a node that got an IP has at most one more than any candidate of its    *)
(* zone (Even), because it was in the lowest bucket when it got its last   *)
(* one and buckets only grow; and the buckets are the numbers of IPs       *)
(* (Counted), without which the lowest bucket would mean nothing.  When    *)
(* nothing is left to assign the three say that the map is a plan.         *)
(***************************************************************************)
EXTENDS NodeAssignment, FiniteSetTheorems, TLAPS

Unhosted == Homeless(ready, hosted, demand)

\* Kept IPs stay; an IP that was added was without a home, has left
\* toAssign, and is on one ready node of its zone.
Account ==
  /\ toAssign \subseteq Unhosted
  /\ \A n \in Nodes : StillAssigned(n) \subseteq placed[n]
  /\ \A n \in Nodes : \A ip \in placed[n] \ StillAssigned(n) :
       /\ ip \in Unhosted /\ ip \notin toAssign
       /\ n \in ready /\ zone[n] = ZoneOf[ip]
  /\ \A ip \in Unhosted : ip \notin toAssign => \E n \in Nodes : ip \in placed[n]
  /\ \A ip \in Unhosted : \A n, m \in Nodes : ip \in placed[n] \cap placed[m] => n = m

Counted == \A n \in Nodes : bucket[n] = Cardinality(placed[n])

Even ==
  \A n \in Nodes : placed[n] # StillAssigned(n) =>
    \A m \in Eligible(zone[n]) : bucket[n] <= bucket[m] + 1

KeysExact == keys = {n \in Nodes : placed[n] # {}}

Inv ==
  /\ TypeOK
  /\ phase \in {"place", "done"} => Account /\ Counted /\ Even
  /\ phase = "place" => KeysExact
  /\ phase = "done" => toAssign = {} /\ keys = PlanKeys(zone, ready, placed)

-----------------------------------------------------------------------------

\* The IPs that getAssignedIPsByNode and step 4 leave to a node are the ones
\* the contract keeps.
LEMMA StillIsKept ==
  \A n \in Nodes : StillAssigned(n) = Kept(ready, hosted, demand, n)
BY DEF StillAssigned, InitiallyAssigned, Kept

\* Step 3: what is to be assigned is what no ready node carries.
LEMMA ToAssignIsUnhosted ==
  ASSUME TypeOK
  PROVE  demand \ UNION {InitiallyAssigned(n) : n \in Nodes} = Unhosted
BY DEF TypeOK, Unhosted, Homeless, InitiallyAssigned

\* An IP that is to be assigned is not among the kept ones.
LEMMA UnhostedNotStill ==
  \A ip \in Unhosted : ip \in demand /\ \A n \in Nodes : ip \notin StillAssigned(n)
BY DEF Unhosted, Homeless, StillAssigned, InitiallyAssigned

\* The nodes in the map of buckets are the candidates of the contract.
LEMMA EligibleAreCandidates ==
  ASSUME TypeOK, NEW z
  PROVE  Eligible(z) = Candidates(zone, ready, z)
BY DEF TypeOK, Eligible, Candidates

\* Sets of IPs are finite, and have a size.
LEMMA IPsFinite ==
  ASSUME NEW S \in SUBSET IPs
  PROVE  /\ IsFiniteSet(S)
         /\ Cardinality(S) \in Nat
         /\ Cardinality(S) = 0 <=> S = {}
         /\ \A ip \in IPs : ip \notin S => Cardinality(S \cup {ip}) = Cardinality(S) + 1
<1>1. IsFiniteSet(S)
  BY NodePlansAssumption, FS_Subset
<1> QED
  BY <1>1, FS_CardinalityType, FS_EmptySet, FS_AddElement

LEMMA InitInv == Init => Inv
BY DEF Init, Inv, TypeOK, NothingPlaced

LEMMA RecalculateInv ==
  ASSUME Inv, Recalculate
  PROVE  Inv'
<1> USE DEF Inv
<1>1. TypeOK /\ TypeOK'
  <2>1. \A n \in Nodes : StillAssigned(n) \in SUBSET IPs
    BY DEF TypeOK, StillAssigned, InitiallyAssigned
  <2>2. \A n \in Nodes : NumberOfIPs(n) \in Nat
    BY <2>1, IPsFinite DEF NumberOfIPs
  <2> QED
    BY <2>1, <2>2 DEF TypeOK, Recalculate, input
<1>2. /\ \A n \in Nodes : placed'[n] = StillAssigned(n) /\ StillAssigned(n)' = StillAssigned(n)
      /\ Unhosted' = Unhosted
      /\ phase' = "place"
  BY DEF Recalculate, input, StillAssigned, InitiallyAssigned, Unhosted, Homeless
<1>3. toAssign' = Unhosted
  BY <1>1, ToAssignIsUnhosted DEF Recalculate
<1>4. Account'
  BY <1>2, <1>3, UnhostedNotStill DEF Account
<1>5. Counted'
  BY <1>2 DEF Counted, Recalculate, NumberOfIPs
<1>6. Even'
  BY <1>2 DEF Even
<1>7. KeysExact'
  BY <1>2 DEF KeysExact, Recalculate
<1> QED
  BY <1>1, <1>2, <1>4, <1>5, <1>6, <1>7

LEMMA PlaceInv ==
  ASSUME Inv, NEW ip \in IPs, NEW n \in Nodes, Place(ip, n)
  PROVE  Inv'
<1> USE DEF Inv
<1>1. /\ TypeOK /\ Account /\ Counted /\ Even /\ KeysExact
      /\ phase = "place" /\ phase' = "place"
      /\ ip \in toAssign /\ toAssign' = toAssign \ {ip}
      /\ n \in ready /\ zone[n] = ZoneOf[ip]
      /\ \A m \in Eligible(zone[n]) : bucket[n] <= bucket[m]
  BY DEF Place, InMinBucket, Eligible
<1>2. TypeOK'
  BY <1>1 DEF TypeOK, Place, input
<1>3. /\ placed'[n] = placed[n] \cup {ip} /\ bucket'[n] = bucket[n] + 1
      /\ \A m \in Nodes \ {n} : placed'[m] = placed[m] /\ bucket'[m] = bucket[m]
  BY <1>1 DEF TypeOK, Place
<1>4. /\ \A m \in Nodes : StillAssigned(m)' = StillAssigned(m)
      /\ Unhosted' = Unhosted
      /\ \A z : Eligible(z)' = Eligible(z)
      /\ zone' = zone /\ ready' = ready
  BY DEF Place, input, StillAssigned, InitiallyAssigned, Unhosted, Homeless, Eligible
<1>5. ip \in Unhosted /\ \A m \in Nodes : ip \notin placed[m]
  BY <1>1, UnhostedNotStill DEF Account
<1>6. Account'
  BY <1>1, <1>3, <1>4, <1>5 DEF Account
<1>7. Counted'
  <2>1. placed[n] \in SUBSET IPs
    BY <1>1 DEF TypeOK
  <2>2. Cardinality(placed[n] \cup {ip}) = Cardinality(placed[n]) + 1
    BY <2>1, <1>5, IPsFinite
  <2> QED
    BY <2>2, <1>1, <1>3 DEF Counted
<1>8. Even'
  <2> SUFFICES ASSUME NEW p \in Nodes, placed'[p] # StillAssigned(p),
                      NEW m \in Eligible(zone[p])
               PROVE  bucket'[p] <= bucket'[m] + 1
    BY <1>4 DEF Even
  <2>1. m \in Nodes /\ bucket \in [Nodes -> Nat] /\ bucket[m] <= bucket'[m]
    BY <1>1, <1>3 DEF Eligible, TypeOK
  <2>2. CASE p = n
    BY <2>1, <2>2, <1>1, <1>3
  <2>3. CASE p # n
    BY <2>1, <2>3, <1>1, <1>3 DEF Even
  <2> QED
    BY <2>2, <2>3
<1>9. KeysExact'
  BY <1>1, <1>3 DEF KeysExact, Place
<1> QED
  BY <1>1, <1>2, <1>6, <1>7, <1>8, <1>9

\* The nodes that Finish empties are empty already.
LEMMA ClearedAreEmpty ==
  ASSUME Inv, phase = "place"
  PROVE  \A n \in ToClear : n \in Nodes /\ placed[n] = {}
<1> SUFFICES ASSUME NEW n \in ToClear
             PROVE  n \in Nodes /\ placed[n] = {}
  OBVIOUS
<1>1. TypeOK /\ Account /\ Counted /\ n \in Nodes
  BY DEF Inv, TypeOK, ToClear, EmptyNodes
<1>2. CASE n \in EmptyNodes
  <2>1. Cardinality(placed[n]) = 0 /\ placed[n] \in SUBSET IPs
    BY <1>1, <1>2 DEF EmptyNodes, Counted, TypeOK
  <2> QED
    BY <2>1, <1>1, IPsFinite
<1>3. CASE n \notin ready
  <2>1. StillAssigned(n) = {}
    BY <1>3 DEF StillAssigned, InitiallyAssigned
  <2> QED
    BY <2>1, <1>1, <1>3 DEF Account
<1> QED
  BY <1>2, <1>3 DEF ToClear

LEMMA FinishInv ==
  ASSUME Inv, Finish
  PROVE  Inv' /\ placed' = placed
<1>1. /\ TypeOK /\ Account /\ Counted /\ Even /\ KeysExact
      /\ phase = "place" /\ phase' = "done" /\ toAssign' = {} /\ toAssign = {}
  BY DEF Inv, Finish
<1>2. \A n \in ToClear : n \in Nodes /\ placed[n] = {}
  BY <1>1, ClearedAreEmpty
<1>3. placed' = placed
  BY <1>1, <1>2 DEF Finish, TypeOK
<1>4. keys' = PlanKeys(zone, ready, placed)
  <2>1. \A n \in Nodes :
          n \in keys \cup ToClear <=> n \notin ready \/ placed[n] # {} \/ zone[n] \in Zones
    <3> SUFFICES ASSUME NEW n \in Nodes, n \in ready, placed[n] = {}
                 PROVE  n \in ToClear <=> zone[n] \in Zones
      BY <1>1, <1>2 DEF KeysExact, ToClear
    <3>1. bucket[n] = 0
      BY <1>1, IPsFinite DEF Counted, TypeOK
    <3> QED
      BY <3>1 DEF ToClear, EmptyNodes
  <2>2. keys' = keys \cup ToClear /\ keys \subseteq Nodes
    BY <1>1 DEF Finish, TypeOK
  <2> QED
    BY <2>1, <2>2, <1>2 DEF PlanKeys
<1>5. TypeOK'
  BY <1>1, <1>2, <1>3 DEF TypeOK, Finish, input
<1>6. Account' /\ Counted' /\ Even'
  BY <1>1, <1>3 DEF Finish, input, Account, Counted, Even, StillAssigned,
     InitiallyAssigned, Unhosted, Homeless, Eligible
<1>7. PlanKeys(zone, ready, placed)' = PlanKeys(zone, ready, placed)
  BY <1>3 DEF Finish, input, PlanKeys
<1> QED
  BY <1>1, <1>3, <1>4, <1>5, <1>6, <1>7 DEF Inv

LEMMA StutterInv ==
  ASSUME Inv, UNCHANGED vars
  PROVE  Inv'
BY DEF Inv, vars, input, TypeOK, Account, Counted, Even, KeysExact, StillAssigned,
   InitiallyAssigned, Unhosted, Homeless, Eligible, PlanKeys

LEMMA NoNodeInv ==
  ASSUME Inv, NEW ip \in IPs, NoNodeForCIDR(ip)
  PROVE  Inv'
BY DEF Inv, NoNodeForCIDR, input, TypeOK

LEMMA StepInv == Inv /\ [Next]_vars => Inv'
BY RecalculateInv, PlaceInv, NoNodeInv, FinishInv, StutterInv DEF Next

LEMMA AlwaysInv == Spec => []Inv
BY InitInv, StepInv, PTL DEF Spec

-----------------------------------------------------------------------------

\* For any nodes and IPs: the maps of assignIPsToNodes relate nodes and IPs,
\* and the keys of the map from numbers of IPs to nodes are numbers.
THEOREM PlanTypes == Spec => []TypeOK
<1>1. Inv => TypeOK
  BY DEF Inv
<1> QED
  BY <1>1, AlwaysInv, PTL

\* For any nodes and IPs: the bucket of a ready node is always the number of
\* IPs it carries (nodesByNumberOfAssignedIPsByCIDR in assignIPsToNodes).
THEOREM BucketsStayExact == Spec => []BucketsExact
<1>1. Inv => BucketsExact
  BY DEF Inv, TypeOK, BucketsExact, Counted
<1> QED
  BY <1>1, AlwaysInv, PTL

\* When nothing is left to assign, the map is a plan.
LEMMA AccountedIsPlan ==
  ASSUME TypeOK, Account, Counted, Even, toAssign = {}
  PROVE  IsPlan(zone, ready, hosted, demand, placed)
<1>1. \A n \in Nodes : StillAssigned(n) = Kept(ready, hosted, demand, n)
  BY StillIsKept
<1>2. \A z : Eligible(z) = Candidates(zone, ready, z)
  BY EligibleAreCandidates
<1>3. \A n \in Nodes : Kept(ready, hosted, demand, n) \subseteq placed[n]
  BY <1>1 DEF Account
<1>4. \A n \in Nodes : \A ip \in placed[n] \ Kept(ready, hosted, demand, n) :
        /\ ip \in Homeless(ready, hosted, demand)
        /\ n \in Candidates(zone, ready, ZoneOf[ip])
  BY <1>1 DEF Account, Unhosted, Candidates
<1>5. /\ \A ip \in Homeless(ready, hosted, demand) : \E n \in Nodes : ip \in placed[n]
      /\ \A ip \in Homeless(ready, hosted, demand) :
           \A n, m \in Nodes : ip \in placed[n] \cap placed[m] => n = m
  BY DEF Account, Unhosted
<1>6. ASSUME NEW n \in Nodes, placed[n] # Kept(ready, hosted, demand, n),
             NEW m \in Candidates(zone, ready, zone[n])
      PROVE  Cardinality(placed[n]) <= Cardinality(placed[m]) + 1
  BY <1>1, <1>2, <1>6 DEF Even, Counted, Candidates, TypeOK
<1> QED
  BY <1>3, <1>4, <1>5, <1>6 DEF IsPlan

\* For any nodes and IPs: assignIPsToNodes preserves what is assigned; run
\* again on what it returned, it has nothing to assign and moves nothing.
THEOREM PlansAreStable == Spec => []Stable
<1>1. ASSUME Inv, phase = "done"
      PROVE  /\ Homeless(ready, placed, demand) = {}
             /\ \A n \in Nodes : Kept(ready, placed, demand, n) = placed[n]
  <2>1. TypeOK /\ Account /\ toAssign = {}
    BY <1>1 DEF Inv
  <2>2. \A n \in Nodes : placed[n] # {} => n \in ready
    BY <2>1 DEF Account, StillAssigned, InitiallyAssigned
  <2>3. \A n \in Nodes : placed[n] \subseteq demand
    BY <2>1, UnhostedNotStill DEF Account, StillAssigned
  <2>4. ASSUME NEW ip \in demand
        PROVE  \E n \in ready : ip \in placed[n]
    <3>1. CASE ip \in Unhosted
      BY <3>1, <2>1, <2>2 DEF Account
    <3>2. CASE ip \notin Unhosted
      <4>1. PICK n \in ready : ip \in hosted[n]
        BY <3>2, <2>4 DEF Unhosted, Homeless
      <4>2. ip \in StillAssigned(n) /\ n \in Nodes
        BY <4>1, <2>1 DEF StillAssigned, InitiallyAssigned, TypeOK
      <4> QED
        BY <4>1, <4>2, <2>1 DEF Account
    <3> QED
      BY <3>1, <3>2
  <2> QED
    BY <2>2, <2>3, <2>4 DEF Homeless, Kept
<1>2. Inv => Stable
  BY <1>1 DEF Stable
<1> QED
  BY <1>2, AlwaysInv, PTL

-----------------------------------------------------------------------------

LEMMA InitPlanner == Init => Planner!Init
BY DEF Init, Planner!Init, Planner!NothingPlanned, NothingPlaced

\* A step of the function is a step of the contract or changes nothing in it.
LEMMA StepPlanner ==
  ASSUME Inv, [Next]_vars
  PROVE  [Planner!Next]_<<Planner!input,
           IF phase = "done" THEN placed ELSE NothingPlaced,
           IF phase = "done" THEN keys ELSE {},
           CASE phase = "done" -> "plan" [] phase = "error" -> "error" [] OTHER -> "none">>
<1> USE DEF Planner!input, input
<1>1. CASE Recalculate
  BY <1>1 DEF Recalculate
<1>2. CASE \E ip \in IPs, n \in Nodes : Place(ip, n)
  BY <1>2 DEF Place
<1>3. ASSUME NEW ip \in IPs, NoNodeForCIDR(ip)
      PROVE  Planner!Refuse
  <2>1. TypeOK /\ Account /\ ip \in Unhosted
    BY <1>3 DEF Inv, NoNodeForCIDR, Account
  <2>2. Candidates(zone, ready, ZoneOf[ip]) = {}
    BY <1>3, <2>1, EligibleAreCandidates DEF NoNodeForCIDR
  <2>3. NoPlan(zone, ready, hosted, demand)
    BY <2>1, <2>2 DEF NoPlan, Unhosted
  <2> QED
    BY <1>3, <2>3 DEF NoNodeForCIDR, Planner!Refuse, Planner!NoPlan, NoPlan, Homeless,
       Candidates, Planner!Homeless, Planner!Candidates
<1>4. CASE Finish
  <2>1. /\ TypeOK /\ Account /\ Counted /\ Even /\ toAssign = {}
        /\ phase = "place" /\ phase' = "done"
    BY <1>4 DEF Inv, Finish
  <2>2. placed' = placed /\ Inv'
    BY <1>4, FinishInv
  <2>3. IsPlan(zone, ready, hosted, demand, placed')
    BY <2>1, <2>2, AccountedIsPlan
  <2>4. /\ keys' = PlanKeys(zone, ready, placed')
        /\ placed' \in [Nodes -> SUBSET IPs]
    BY <1>4, <2>1, <2>2 DEF Inv, Finish, PlanKeys, TypeOK
  <2>5. (IF phase = "done" THEN placed ELSE NothingPlaced)' = placed'
    BY <2>1
  <2>6. Planner!IsPlan(zone, ready, hosted, demand, placed')
    BY <2>3 DEF IsPlan, Planner!IsPlan, Kept, Planner!Kept, Homeless,
       Planner!Homeless, Candidates, Planner!Candidates, Cardinality, Planner!Cardinality
  <2>7. keys' = Planner!PlanKeys(zone, ready, placed') /\ keys' \in SUBSET Nodes
    BY <2>4 DEF PlanKeys, Planner!PlanKeys
  <2>8. Planner!Return
    BY <1>4, <2>1, <2>4, <2>5, <2>6, <2>7 DEF Planner!Return, Finish
  <2> QED
    BY <2>8 DEF Planner!Next
<1>5. CASE UNCHANGED vars
  BY <1>5 DEF vars
<1> QED
  BY <1>1, <1>2, <1>3, <1>4, <1>5 DEF Next, Planner!Next

\* For any nodes, zones and IPs: assignIPsToNodes implements its contract.
\* It moves no IP that a ready node carries, puts every other one on one
\* ready node of its zone, spreads them evenly, fails only for a zone
\* without a ready node, and returns at least every node that is not ready,
\* carries IPs or has a zone.
THEOREM AssignmentImplementsPlanner == Spec => PlannerSpec
<1>1. Init => Planner!Init
  BY InitPlanner
<1>2. Inv /\ [Next]_vars => [Planner!Next]_<<Planner!input,
           IF phase = "done" THEN placed ELSE NothingPlaced,
           IF phase = "done" THEN keys ELSE {},
           CASE phase = "done" -> "plan" [] phase = "error" -> "error" [] OTHER -> "none">>
  BY StepPlanner
<1> QED
  BY <1>1, <1>2, AlwaysInv, PTL DEF Spec, PlannerSpec, Planner!Spec
=============================================================================
