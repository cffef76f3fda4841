--------------------------- MODULE StartupProofs ---------------------------
(***************************************************************************)
(* Proofs about Startup, for any number of replicas, platforms, faults,    *)
(* crashes, lost leases and rotations.                                     *)
(*                                                                         *)
(* OneActive needs that the lease and the processes agree: with leader     *)
(* election, a replica whose controllers run has the lease (LeaderHolds).  *)
(* That is kept because every end of the leader's process that gives up    *)
(* the lease also ends its controllers.  PermissionsRequested is inductive *)
(* with the types: the only writes of the request ask for the permissions. *)
(***************************************************************************)
EXTENDS Startup, TLAPS

USE DEF Setup, Active

\* With leader election, whoever runs the controllers has the lease.
LeaderHolds == elect => \A r \in Replicas : phase[r] \in Active => lease = r

Phases == {"down", "elect"} \cup Setup \cup Active

-----------------------------------------------------------------------------
(* What the steps do to one replica                                        *)

LEMMA ForgetType ==
  ASSUME TypeOK, NEW r \in Replicas, Forget(r), Goes(r, "down")
  PROVE  /\ seen' \in [Replicas -> Nat] /\ cached' \in [Replicas -> Nat]
         /\ creds' \in [Replicas -> Nat]
         /\ queued' \in [Replicas -> BOOLEAN] /\ done' \in [Replicas -> BOOLEAN]
         /\ phase' \in [Replicas -> Phases]
         /\ \A s \in Replicas : phase'[s] \notin Active => ~queued'[s] /\ cached'[s] = 0
BY DEF TypeOK, Forget, Goes, Phases

\* The steps of a set-up that leave the memory of the replicas alone.
LEMMA SetupKeepsMemory ==
  ASSUME TypeOK, NEW r \in Replicas, NEW p \in {"infrastructure", "get", "create", "update", "elect"},
         phase[r] \notin Active, Goes(r, p), UNCHANGED cycleVars
  PROVE  /\ cached' \in [Replicas -> Nat] /\ creds' \in [Replicas -> Nat]
         /\ queued' \in [Replicas -> BOOLEAN] /\ done' \in [Replicas -> BOOLEAN]
         /\ phase' \in [Replicas -> Phases]
         /\ \A s \in Replicas : phase'[s] \notin Active => ~queued'[s] /\ cached'[s] = 0
BY DEF TypeOK, Goes, Phases, cycleVars

LEMMA InitType == Init => TypeOK
<1> SUFFICES ASSUME Init
             PROVE  TypeOK
  OBVIOUS
<1>0. request = NoRequest \/ request = [NoRequest EXCEPT !.exists = TRUE]
  BY DEF Init
<1>1. request \in [exists : BOOLEAN, wanted : BOOLEAN, rv : Nat]
  <2>1. CASE request = NoRequest
    BY <2>1 DEF NoRequest
  <2>2. CASE request = [NoRequest EXCEPT !.exists = TRUE]
    BY <2>2 DEF NoRequest
  <2> QED
    BY <1>0, <2>1, <2>2
<1>2. platform \in Platforms /\ elect \in BOOLEAN
  BY DEF Init
<1> QED
  BY <1>1, <1>2 DEF Init, TypeOK

LEMMA SetupType ==
  ASSUME TypeOK, NEW r \in Replicas, SetupStep(r)
  PROVE  TypeOK'
<1>1. CASE Start(r) \/ GetInfrastructure(r)
  <2>1. PICK p \in {"infrastructure", "get", "elect"} : Goes(r, p)
    BY <1>1 DEF Start, GetInfrastructure
  <2>2. phase[r] \notin Active
    BY <1>1 DEF Start, GetInfrastructure
  <2>3. UNCHANGED <<clusterVars, credentialVars, lease, seen, cycleVars, boundVars>>
    BY <1>1 DEF Start, GetInfrastructure
  <2> QED
    BY <2>1, <2>2, <2>3, SetupKeepsMemory
       DEF TypeOK, Phases, clusterVars, credentialVars, boundVars
<1>2. CASE GetRequest(r)
  <2>1. PICK p \in {"update", "create"} : Goes(r, p)
    BY <1>2 DEF GetRequest
  <2>2. seen' \in [Replicas -> Nat]
    BY <1>2 DEF GetRequest, TypeOK
  <2>3. phase[r] \notin Active
    BY <1>2 DEF GetRequest
  <2>4. UNCHANGED <<clusterVars, credentialVars, lease, cycleVars, boundVars>>
    BY <1>2 DEF GetRequest
  <2> QED
    BY <2>1, <2>2, <2>3, <2>4, SetupKeepsMemory
       DEF TypeOK, Phases, clusterVars, credentialVars, boundVars
<1>3. CASE CreateRequest(r) \/ UpdateRequest(r)
  <2>1. Stored(r) /\ phase[r] \notin Active
    BY <1>3 DEF CreateRequest, UpdateRequest
  <2>2. request' \in [exists : BOOLEAN, wanted : BOOLEAN, rv : Nat]
    BY <2>1 DEF Stored, TypeOK
  <2> QED
    BY <2>1, <2>2, SetupKeepsMemory DEF Stored, TypeOK, Phases, clusterVars, boundVars
<1>4. CASE SetupFails(r)
  <2>1. faults' \in Nat
    BY <1>4 DEF SetupFails, Fault, TypeOK
  <2> QED
    BY <1>4, <2>1, ForgetType DEF SetupFails, TypeOK, Phases, clusterVars, credentialVars
<1> QED
  BY <1>1, <1>2, <1>3, <1>4 DEF SetupStep

LEMMA LeadershipType ==
  ASSUME TypeOK, NEW r \in Replicas, Elected(r) \/ LeaseLost(r) \/ Crash(r)
  PROVE  TypeOK'
<1>1. CASE Elected(r)
  <2>1. lease' \in Replicas \cup {NoReplica}
    BY <1>1 DEF Elected, TypeOK
  <2> QED
    BY <1>1, <2>1 DEF Elected, Goes, TypeOK, clusterVars, credentialVars, boundVars
<1>2. CASE LeaseLost(r) \/ Crash(r)
  <2>1. Goes(r, "down") /\ Forget(r) /\ UNCHANGED <<clusterVars, credentialVars, faults, rotations, triggers>>
    BY <1>2 DEF LeaseLost, Crash
  <2>2. crashes' \in Nat /\ lease' \in Replicas \cup {NoReplica}
    BY <1>2 DEF LeaseLost, Crash, TypeOK
  <2> QED
    BY <2>1, <2>2, ForgetType DEF TypeOK, Phases, clusterVars, credentialVars
<1> QED
  BY <1>1, <1>2

LEMMA CredentialsType ==
  ASSUME TypeOK, NEW r \in Replicas, DeliverSecret(r) \/ Trigger(r) \/ CycleStep(r)
  PROVE  TypeOK'
<1>1. CASE DeliverSecret(r)
  BY <1>1 DEF DeliverSecret, TypeOK, clusterVars, credentialVars, boundVars
<1>2. CASE Trigger(r)
  BY <1>2 DEF Trigger, TypeOK, clusterVars, credentialVars
<1>3. CASE LoadCredentials(r)
  BY <1>3 DEF LoadCredentials, GetCredentialSecret, Goes, TypeOK, clusterVars,
     credentialVars, boundVars
<1>4. CASE NoSecret(r)
  BY <1>4 DEF NoSecret, TypeOK, clusterVars, credentialVars, boundVars
<1>5. CASE CycleSucceeds(r)
  BY <1>5 DEF CycleSucceeds, Goes, TypeOK, clusterVars, credentialVars, boundVars
<1>6. CASE CycleFails(r)
  <2>1. faults' \in Nat
    BY <1>6 DEF CycleFails, Fault, TypeOK
  <2> QED
    BY <1>6, <2>1 DEF CycleFails, Goes, TypeOK, clusterVars, credentialVars
<1> QED
  BY <1>1, <1>2, <1>3, <1>4, <1>5, <1>6 DEF CycleStep

LEMMA StepType == TypeOK /\ [Next]_vars => TypeOK'
<1> SUFFICES ASSUME TypeOK, [Next]_vars
             PROVE  TypeOK'
  OBVIOUS
<1>1. CASE LeaseExpires
  BY <1>1 DEF LeaseExpires, TypeOK, clusterVars, credentialVars, cycleVars, boundVars
<1>2. CASE Mint
  BY <1>2 DEF Mint, TypeOK, clusterVars, cycleVars, boundVars
<1>3. CASE Rotate
  BY <1>3 DEF Rotate, TypeOK, clusterVars, cycleVars
<1>4. CASE UNCHANGED vars
  BY <1>4 DEF vars, TypeOK, clusterVars, credentialVars, cycleVars, boundVars
<1> QED
  BY <1>1, <1>2, <1>3, <1>4, SetupType, LeadershipType, CredentialsType DEF Next

\* Type correctness of the start-up for any constants; in particular a
\* replica whose controllers do not run has an empty queue and no copy of
\* the secret (main, mgr.Start).
THEOREM StartupTypes == Spec => []TypeOK
BY InitType, StepType, PTL DEF Spec

-----------------------------------------------------------------------------
(* One active replica                                                      *)

LEMMA LeaderStep == TypeOK /\ LeaderHolds /\ [Next]_vars => LeaderHolds'
<1> SUFFICES ASSUME TypeOK, LeaderHolds, [Next]_vars, elect
             PROVE  \A s \in Replicas : phase'[s] \in Active => lease' = s
  BY DEF LeaderHolds, Next, vars, clusterVars, SetupStep, Start, GetInfrastructure,
     GetRequest, CreateRequest, UpdateRequest, Stored, SetupFails, Elected, LeaseLost,
     Crash, DeliverSecret, Trigger, CycleStep, LoadCredentials, NoSecret, CycleSucceeds,
     CycleFails, LeaseExpires, Mint, Rotate
<1>0. \A s \in Replicas : phase[s] \in Active => lease = s
  BY DEF LeaderHolds
<1>1. ASSUME NEW r \in Replicas, SetupStep(r)
      PROVE  \A s \in Replicas : phase'[s] \in Active => lease' = s
  BY <1>0, <1>1 DEF TypeOK, SetupStep, Start, GetInfrastructure, GetRequest, CreateRequest,
     UpdateRequest, Stored, SetupFails, Goes
<1>2. ASSUME NEW r \in Replicas, Elected(r)
      PROVE  \A s \in Replicas : phase'[s] \in Active => lease' = s
  BY <1>0, <1>2, StartupAssumption DEF TypeOK, Elected, Goes
<1>3. ASSUME NEW r \in Replicas, LeaseLost(r) \/ Crash(r)
      PROVE  \A s \in Replicas : phase'[s] \in Active => lease' = s
  BY <1>0, <1>3 DEF TypeOK, LeaseLost, Crash, Goes
<1>4. ASSUME NEW r \in Replicas, DeliverSecret(r) \/ Trigger(r) \/ CycleStep(r)
      PROVE  \A s \in Replicas : phase'[s] \in Active => lease' = s
  BY <1>0, <1>4 DEF TypeOK, DeliverSecret, Trigger, CycleStep, LoadCredentials, NoSecret,
     CycleSucceeds, CycleFails, Goes
<1>5. CASE LeaseExpires
  BY <1>0, <1>5 DEF LeaseExpires
<1>6. CASE Mint \/ Rotate \/ UNCHANGED vars
  BY <1>0, <1>6 DEF Mint, Rotate, vars
<1> QED
  BY <1>1, <1>2, <1>3, <1>4, <1>5, <1>6 DEF Next

\* With --leader-elect no two replicas ever run their controllers at the
\* same time, whatever crashes and lost leases come in between.
THEOREM AtMostOneActive == Spec => []OneActive
<1>1. Init => LeaderHolds
  BY DEF Init, LeaderHolds
<1>2. LeaderHolds => OneActive
  BY DEF LeaderHolds, OneActive
<1> QED
  BY <1>1, <1>2, InitType, StepType, LeaderStep, PTL DEF Spec

-----------------------------------------------------------------------------
(* The CredentialsRequest                                                  *)

LEMMA RequestStep == TypeOK /\ PermissionsRequested /\ [Next]_vars => PermissionsRequested'
<1> SUFFICES ASSUME TypeOK, PermissionsRequested, [Next]_vars, platform' \in {"AWS", "Azure"}
             PROVE  \A s \in Replicas : phase'[s] \in {"elect"} \cup Active
                                          => request'.exists /\ request'.wanted
  BY DEF PermissionsRequested
<1>0. platform \in {"AWS", "Azure"}
  BY DEF Next, vars, clusterVars, SetupStep, Start, GetInfrastructure,
     GetRequest, CreateRequest, UpdateRequest, Stored, SetupFails, Elected, LeaseLost,
     Crash, DeliverSecret, Trigger, CycleStep, LoadCredentials, NoSecret, CycleSucceeds,
     CycleFails, LeaseExpires, Mint, Rotate
<1>1. \A s \in Replicas : phase[s] \in {"elect"} \cup Active
                           => request.exists /\ request.wanted
  BY <1>0 DEF PermissionsRequested
<1>2. ASSUME NEW r \in Replicas, CreateRequest(r) \/ UpdateRequest(r)
      PROVE  request'.exists /\ request'.wanted
  BY <1>2 DEF CreateRequest, UpdateRequest, Stored
<1>3. ASSUME NEW r \in Replicas, SetupStep(r), ~(CreateRequest(r) \/ UpdateRequest(r))
      PROVE  /\ request' = request
             /\ \A s \in Replicas : phase'[s] \in {"elect"} \cup Active
                                      => phase[s] \in {"elect"} \cup Active
  BY <1>0, <1>3 DEF TypeOK, SetupStep, Start, GetInfrastructure, GetRequest, SetupFails,
     Goes, Requesting, credentialVars
<1>4. ASSUME NEW r \in Replicas, \/ Elected(r) \/ LeaseLost(r) \/ Crash(r)
                                 \/ DeliverSecret(r) \/ Trigger(r) \/ CycleStep(r)
      PROVE  /\ request' = request
             /\ \A s \in Replicas : phase'[s] \in {"elect"} \cup Active
                                      => phase[s] \in {"elect"} \cup Active
  BY <1>4 DEF TypeOK, Elected, LeaseLost, Crash, DeliverSecret, Trigger, CycleStep,
     LoadCredentials, NoSecret, CycleSucceeds, CycleFails, Goes, credentialVars
<1>5. CASE LeaseExpires \/ Mint \/ Rotate \/ UNCHANGED vars
  BY <1>1, <1>5 DEF LeaseExpires, Mint, Rotate, vars, credentialVars
<1> QED
  BY <1>1, <1>2, <1>3, <1>4, <1>5 DEF Next

\* On AWS and Azure a replica that is past its set-up has its permissions
\* asked for, however the replicas' gets, creates and updates interleave
\* and whatever request an earlier version of the operator had left.
THEOREM PermissionsAreRequested == Spec => []PermissionsRequested
<1>1. Init => PermissionsRequested
  BY DEF Init, PermissionsRequested
<1> QED
  BY <1>1, InitType, StepType, RequestStep, PTL DEF Spec
=============================================================================
