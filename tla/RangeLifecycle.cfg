SPECIFICATION Spec
CONSTANTS
    Hosts = {"dc01", "srv02"}
    Groups = {"dc", "domain"}
    Vars = {"admin_user", "bucket", "region", "ansible_connection"}
    Values = {"adm", "AUTO", "bucket-of-env", "region", "aws_ssm"}
    Lower <- MCLower
    Playbooks <- MCPlaybooks
    AdPlaybooks <- MCAdPlaybooks
    Canonical <- MCCanonical
    Ids <- MCIds
    Ips <- MCIps
    Objects <- MCObjects
    Artifacts <- MCArtifacts
    Proves <- MCProves
    Ranges <- MCRanges
    Requests <- MCRequests
    MaxGen = 2
    MaxFaults = 1
    MaxEvents = 1
    MaxCommands = 2
    MaxMoves = 1
INVARIANTS UpDoesAsAsked HandoverSound DestroyedMeansGone  
PROPERTIES PurgeKeepsLab
CHECK_DEADLOCK FALSE
