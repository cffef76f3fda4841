\* Two replicas, every platform, failing calls, a crash, a rotation of the credentials.
SPECIFICATION FairSpec
CONSTANTS
  Replicas = {r1, r2}
  NoReplica = NoReplica
  Platforms = {"AWS", "Azure", "GCP", "None"}
  MaxFaults = 2
  MaxCrashes = 2
  MaxRotations = 1
  MaxTriggers = 1
INVARIANTS TypeOK PermissionsRequested OneActive
PROPERTIES SetupCompletes EventuallyWorks
CHECK_DEADLOCK FALSE
