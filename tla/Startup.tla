------------------------------ MODULE Startup ------------------------------
(***************************************************************************)
(* How the operator gets from the start of its process to a cycle that may *)
(* call the cloud: main, SetupWithManager, createCredentialRequest, the    *)
(* election of a leader and the credentials of a cycle.                    *)
(*                                                                         *)
(* Every replica, leader or not, reads the Infrastructure and creates or   *)
(* updates the one CredentialsRequest before the manager starts, with a    *)
(* get and a write that other replicas interleave with; any error ends the *)
(* process, which the kubelet starts again.  The cloud credential operator *)
(* mints the secret of the request some time later and replaces it now and *)
(* then.  A cycle reads the secret from the cache and calls the cloud with *)
(* it; an error puts the EgressIPAM back into the queue.                   *)
(*                                                                         *)
(* Abstractions.  A cycle is two steps, the load of the credentials and    *)
(* the calls to the cloud: NodePlacement has the rest.  Credentials are    *)
(* numbered, 0 stands for none.  The cloud credential operator, the lease  *)
(* and the kubelet are external, modelled from what the code expects.      *)
(***************************************************************************)
EXTENDS Naturals, FiniteSets

CONSTANTS
  Replicas,     \* processes of the operator
  Platforms,    \* platforms of the cluster: "AWS", "Azure", "GCP", "None"
  MaxFaults,    \* bound on the calls that fail
  MaxCrashes,   \* bound on crashes and lost leases
  MaxRotations, \* bound on the credentials that are replaced
  MaxTriggers,  \* bound on the events that enqueue the EgressIPAM
  NoReplica

ASSUME StartupAssumption ==
  /\ NoReplica \notin Replicas
  /\ Platforms \subseteq {"AWS", "Azure", "GCP", "None"}
  /\ MaxFaults \in Nat /\ MaxCrashes \in Nat
  /\ MaxRotations \in Nat /\ MaxTriggers \in Nat

VARIABLES
  platform,  \* type of the Infrastructure: it does not change
  elect,     \* the replicas run with --leader-elect
  request,   \* the CredentialsRequest
  secret,    \* credentials in the secret of the request; 0 without secret
  valid,     \* credentials that the cloud accepts
  lease,     \* the replica that is the leader, or NoReplica
  phase,     \* where each replica is
  seen,      \* version of the request that the replica has got
  cached,    \* credentials in the replica's cache
  creds,     \* credentials that the replica's cycle works with
  queued,    \* the EgressIPAM is in the replica's queue
  done,      \* the last cycle of the replica has succeeded
  faults, crashes, rotations, triggers

clusterVars == <<platform, elect>>
credentialVars == <<request, secret, valid>>
cycleVars == <<cached, creds, queued, done>>
boundVars == <<faults, crashes, rotations, triggers>>
vars == <<clusterVars, credentialVars, lease, phase, seen, cycleVars, boundVars>>

\* isCloudInfrastructure: the platforms on which a cycle needs the secret.
isCloudInfrastructure == platform \in {"AWS", "Azure", "GCP"}

\* The platforms for which createCredentialRequest has a provider spec.
Requesting == platform \in {"AWS", "Azure"}

NoRequest == [exists |-> FALSE, wanted |-> FALSE, rv |-> 0]

\* The phases of SetupWithManager and of the life after it.
Setup == {"infrastructure", "get", "create", "update"}
Active == {"active", "cycle"}

Goes(r, p) == phase' = [phase EXCEPT ![r] = p]

Fault == faults < MaxFaults /\ faults' = faults + 1

\* Mutant: the queue outlives the process.
Forget_KeepsQueue(r) ==
  /\ cached' = [cached EXCEPT ![r] = 0] /\ creds' = [creds EXCEPT ![r] = 0]
  /\ seen' = [seen EXCEPT ![r] = 0] /\ done' = [done EXCEPT ![r] = FALSE]
  /\ UNCHANGED queued

\* What a replica has in memory is gone.
Forget(r) ==
  /\ cached' = [cached EXCEPT ![r] = 0] /\ creds' = [creds EXCEPT ![r] = 0]
  /\ queued' = [queued EXCEPT ![r] = FALSE] /\ done' = [done EXCEPT ![r] = FALSE]
  /\ seen' = [seen EXCEPT ![r] = 0]

-----------------------------------------------------------------------------
(* main and SetupWithManager                                               *)

\* The kubelet starts the process.
Start(r) ==
  /\ phase[r] = "down"
  /\ Goes(r, "infrastructure")
  /\ UNCHANGED <<clusterVars, credentialVars, lease, seen, cycleVars, boundVars>>

\* The Infrastructure is read once, with a direct client.
GetInfrastructure(r) ==
  /\ phase[r] = "infrastructure"
  /\ Goes(r, IF Requesting THEN "get" ELSE "elect")
  /\ UNCHANGED <<clusterVars, credentialVars, lease, seen, cycleVars, boundVars>>

\* createOrUpdateResourceWithClient, first half.
GetRequest(r) ==
  /\ phase[r] = "get"
  /\ Goes(r, IF request.exists THEN "update" ELSE "create")
  /\ seen' = [seen EXCEPT ![r] = request.rv]
  /\ UNCHANGED <<clusterVars, credentialVars, lease, cycleVars, boundVars>>

\* The API server stores the request.
Stored(r) ==
  /\ request' = [exists |-> TRUE, wanted |-> TRUE, rv |-> request.rv + 1]
  /\ Goes(r, "elect")
  /\ UNCHANGED <<clusterVars, secret, valid, lease, seen, cycleVars, boundVars>>

\* createOrUpdateResourceWithClient, if nothing was found.
CreateRequest(r) ==
  /\ phase[r] = "create" /\ ~request.exists
  /\ Stored(r)

\* Mutant: a request that is there is left as it is.
UpdateRequest_Kept(r) ==
  /\ phase[r] = "update"
  /\ Goes(r, "elect")
  /\ UNCHANGED <<clusterVars, credentialVars, lease, seen, cycleVars, boundVars>>

\* createOrUpdateResourceWithClient, second half.
UpdateRequest(r) ==
  /\ phase[r] = "update" /\ request.rv = seen[r]
  /\ Stored(r)

\* The request was created or updated since the get.
Refused(r) ==
  \/ phase[r] = "create" /\ request.exists
  \/ phase[r] = "update" /\ request.rv # seen[r]

\* Mutant: a replica that lost the race tries the same write again.
SetupFails_Stays(r) ==
  /\ phase[r] \in Setup
  /\ \/ Refused(r) /\ UNCHANGED faults
     \/ Fault
  /\ UNCHANGED <<clusterVars, credentialVars, lease, phase, seen, cycleVars, crashes,
                 rotations, triggers>>

\* Any error of SetupWithManager ends the process: os.Exit(1).
SetupFails(r) ==
  /\ phase[r] \in Setup
  /\ \/ Refused(r) /\ UNCHANGED faults
     \/ Fault
  /\ Goes(r, "down") /\ Forget(r)
  /\ UNCHANGED <<clusterVars, credentialVars, lease, crashes, rotations, triggers>>

\* mgr.Start: with leader election the controllers run once the lease is
\* free and taken; their caches are listed and the EgressIPAM arrives as a
\* create event.
Elected(r) ==
  /\ phase[r] = "elect"
  /\ elect => lease = NoReplica
  /\ lease' = IF elect THEN r ELSE lease
  /\ Goes(r, "active")
  /\ cached' = [cached EXCEPT ![r] = secret]
  /\ queued' = [queued EXCEPT ![r] = TRUE]
  /\ UNCHANGED <<clusterVars, credentialVars, seen, creds, done, boundVars>>

\* Mutant: main goes on when mgr.Start returns because the lease was lost.
LeaseLost_Continues(r) ==
  /\ lease = r /\ crashes < MaxCrashes /\ crashes' = crashes + 1
  /\ lease' = NoReplica
  /\ UNCHANGED <<clusterVars, credentialVars, phase, seen, cycleVars, faults, rotations,
                 triggers>>

\* The leader fails to renew the lease: mgr.Start returns an error and main
\* exits, before the lease has expired for the others.
LeaseLost(r) ==
  /\ lease = r /\ crashes < MaxCrashes /\ crashes' = crashes + 1
  /\ lease' = NoReplica
  /\ Goes(r, "down") /\ Forget(r)
  /\ UNCHANGED <<clusterVars, credentialVars, faults, rotations, triggers>>

\* The process dies; the lease of a leader stays until it expires.
Crash(r) ==
  /\ phase[r] # "down" /\ crashes < MaxCrashes /\ crashes' = crashes + 1
  /\ Goes(r, "down") /\ Forget(r)
  /\ UNCHANGED <<clusterVars, credentialVars, lease, faults, rotations, triggers>>

LeaseExpires ==
  /\ lease # NoReplica /\ phase[lease] \notin Active
  /\ lease' = NoReplica
  /\ UNCHANGED <<clusterVars, credentialVars, phase, seen, cycleVars, boundVars>>

-----------------------------------------------------------------------------
(* The cloud credential operator and the cloud                             *)

\* The secret of the request is minted, or replaced after a rotation, with
\* the permissions that the request asks for.
Mint ==
  /\ request.exists /\ request.wanted /\ secret # valid
  /\ secret' = valid
  /\ UNCHANGED <<clusterVars, request, valid, lease, phase, seen, cycleVars, boundVars>>

\* The credentials are replaced: the cloud accepts only the new ones.
Rotate ==
  /\ rotations < MaxRotations /\ rotations' = rotations + 1
  /\ valid' = valid + 1
  /\ UNCHANGED <<clusterVars, request, secret, lease, phase, seen, cycleVars, faults,
                 crashes, triggers>>

\* The informer of a replica delivers the secret.
DeliverSecret(r) ==
  /\ phase[r] \in Active /\ cached[r] # secret
  /\ cached' = [cached EXCEPT ![r] = secret]
  /\ UNCHANGED <<clusterVars, credentialVars, lease, phase, seen, creds, queued, done,
                 boundVars>>

-----------------------------------------------------------------------------
(* The credentials of a cycle                                              *)

\* A namespace, node, HostSubnet or NetNamespace changes.
Trigger(r) ==
  /\ phase[r] \in Active /\ triggers < MaxTriggers /\ triggers' = triggers + 1
  /\ queued' = [queued EXCEPT ![r] = TRUE]
  /\ UNCHANGED <<clusterVars, credentialVars, lease, phase, seen, cached, creds, done,
                 faults, crashes, rotations>>

\* Mutant: the credentials are read once, like the Infrastructure.
GetCredentialSecret_Once(r) == IF creds[r] # 0 THEN creds[r] ELSE cached[r]

\* GetCredentialSecret: what the cache has, in every cycle.
GetCredentialSecret(r) == cached[r]

\* loadReconcileContext up to the clients of the cloud.
LoadCredentials(r) ==
  /\ phase[r] = "active" /\ queued[r]
  /\ queued' = [queued EXCEPT ![r] = FALSE]
  /\ isCloudInfrastructure => GetCredentialSecret(r) # 0
  /\ creds' = [creds EXCEPT ![r] = GetCredentialSecret(r)]
  /\ done' = [done EXCEPT ![r] = FALSE]
  /\ Goes(r, "cycle")
  /\ UNCHANGED <<clusterVars, credentialVars, lease, seen, cached, boundVars>>

\* There is no secret yet: the request goes back into the queue.
NoSecret(r) ==
  /\ phase[r] = "active" /\ queued[r]
  /\ isCloudInfrastructure /\ GetCredentialSecret(r) = 0
  /\ done' = [done EXCEPT ![r] = FALSE]
  /\ UNCHANGED <<clusterVars, credentialVars, lease, phase, seen, cached, creds, queued,
                 boundVars>>

\* The cloud accepts the credentials until the end of the cycle.
CycleSucceeds(r) ==
  /\ phase[r] = "cycle"
  /\ isCloudInfrastructure => creds[r] = valid
  /\ Goes(r, "active")
  /\ done' = [done EXCEPT ![r] = TRUE]
  /\ UNCHANGED <<clusterVars, credentialVars, lease, seen, cached, creds, queued, boundVars>>

\* The cloud refuses them, or another call fails.
CycleFails(r) ==
  /\ phase[r] = "cycle"
  /\ \/ isCloudInfrastructure /\ creds[r] # valid /\ UNCHANGED faults
     \/ Fault
  /\ Goes(r, "active")
  /\ queued' = [queued EXCEPT ![r] = TRUE]
  /\ UNCHANGED <<clusterVars, credentialVars, lease, seen, cached, creds, done, crashes,
                 rotations, triggers>>

-----------------------------------------------------------------------------

Init ==
  /\ platform \in Platforms /\ elect \in BOOLEAN
  /\ request \in {NoRequest, [NoRequest EXCEPT !.exists = TRUE]}
  /\ secret = 0 /\ valid = 1
  /\ lease = NoReplica
  /\ phase = [r \in Replicas |-> "down"] /\ seen = [r \in Replicas |-> 0]
  /\ cached = [r \in Replicas |-> 0] /\ creds = [r \in Replicas |-> 0]
  /\ queued = [r \in Replicas |-> FALSE] /\ done = [r \in Replicas |-> FALSE]
  /\ faults = 0 /\ crashes = 0 /\ rotations = 0 /\ triggers = 0

SetupStep(r) ==
  \/ Start(r) \/ GetInfrastructure(r) \/ GetRequest(r)
  \/ CreateRequest(r) \/ UpdateRequest(r) \/ SetupFails(r)

CycleStep(r) == LoadCredentials(r) \/ NoSecret(r) \/ CycleSucceeds(r) \/ CycleFails(r)

Next ==
  \/ \E r \in Replicas :
       \/ SetupStep(r) \/ Elected(r) \/ LeaseLost(r) \/ Crash(r)
       \/ DeliverSecret(r) \/ Trigger(r) \/ CycleStep(r)
  \/ LeaseExpires \/ Mint \/ Rotate

Spec == Init /\ [][Next]_vars

\* The kubelet restarts what has ended, processes and informers run, leases
\* expire, somebody becomes the leader, and the cloud credential operator
\* does its work; faults, crashes, rotations and events need not happen.
Fairness ==
  /\ \A r \in Replicas : /\ WF_vars(SetupStep(r)) /\ WF_vars(DeliverSecret(r))
                         /\ WF_vars(CycleStep(r))
  /\ WF_vars(\E r \in Replicas : Elected(r))
  /\ WF_vars(LeaseExpires) /\ WF_vars(Mint)

FairSpec == Spec /\ Fairness

-----------------------------------------------------------------------------
(* Properties                                                              *)

TypeOK ==
  /\ platform \in Platforms /\ elect \in BOOLEAN
  /\ request \in [exists : BOOLEAN, wanted : BOOLEAN, rv : Nat]
  /\ secret \in Nat /\ valid \in Nat
  /\ lease \in Replicas \cup {NoReplica}
  /\ phase \in [Replicas -> {"down", "elect"} \cup Setup \cup Active]
  /\ seen \in [Replicas -> Nat] /\ cached \in [Replicas -> Nat]
  /\ creds \in [Replicas -> Nat]
  /\ queued \in [Replicas -> BOOLEAN] /\ done \in [Replicas -> BOOLEAN]
  /\ \A r \in Replicas : phase[r] \notin Active => ~queued[r] /\ cached[r] = 0
  /\ faults \in Nat /\ crashes \in Nat /\ rotations \in Nat /\ triggers \in Nat

\* A replica that is past its set-up on AWS or Azure has its permissions
\* asked for, whoever of the replicas wrote the CredentialsRequest last and
\* whatever an earlier version of the operator had left there.
PermissionsRequested ==
  platform \in {"AWS", "Azure"}
    => \A r \in Replicas : phase[r] \in {"elect"} \cup Active
                            => request.exists /\ request.wanted

\* "Enabling this will ensure there is only one active controller manager"
\* (main.go): also after crashes and lost leases, because main exits when
\* the manager ends.
OneActive ==
  elect => \A r, s \in Replicas : phase[r] \in Active /\ phase[s] \in Active => r = s

\* Replicas that start together and refuse each other's create or update
\* all get through their set-up in the end.
SetupCompletes == \A r \in Replicas : <>[](phase[r] \in {"elect"} \cup Active)

\* Sooner or later a replica runs the controllers and has nothing left to
\* do, though the secret comes after the first cycles, calls fail and
\* credentials are replaced between and during cycles.  Not on GCP, which
\* needs a secret that nothing asks for.
EventuallyWorks ==
  platform # "GCP"
    => <>[](/\ \E r \in Replicas : phase[r] \in Active
            /\ \A r \in Replicas : phase[r] \in Active => done[r] /\ ~queued[r])
=============================================================================
