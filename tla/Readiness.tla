------------------------------ MODULE Readiness ------------------------------
(***************************************************************************)
(* The first and the last step of up: doctor (internal/doctor/checks.go),  *)
(* which looks at this machine, and health-check (cmd/health_check.go),    *)
(* which looks at the range; and requireInfra (cmd/infra.go), through      *)
(* which health-check and score reset find the hosts and revive the SSM    *)
(* agents of those that do not answer.                                     *)
(* range.tools is [ansible, missing]: the version of ansible-core and the  *)
(* names of the other things that are not installed or not accepted.       *)
(***************************************************************************)
EXTENDS Preflight

CONSTANT Proves     \* Proves[check]: the playbook whose effect it looks for

(* RunChecks: what each provider's checks look for, and of those what only *)
(* warns.  The inventory is always there (env create wrote it).            *)
Collections == {"ansible.windows", "amazon.aws"}
runAzureChecks == {"az", "az-login", "az-bastion", "az-ssh", "terragrunt", "tofu", "pypsrp", "kali-terms"}
runAWSChecks == {"aws", "session-manager-plugin", "aws-credentials", "terragrunt", "tofu"}
RunChecks ==
    {"python3", "jq"} \cup Collections \cup IF AWS THEN runAWSChecks ELSE runAzureChecks
OnlyWarns == {"az-bastion", "az-ssh", "terragrunt", "tofu", "kali-terms"}

(* PrintResults counts the failures; one is enough to end up. *)
doctorFailures ==
    ((range.tools.missing \cap RunChecks) \ OnlyWarns)
        \cup IF classifyAnsibleVersion(range.tools.ansible) = "fail" THEN {"ansible-core"} ELSE {}
runUpDoctor ==
    /\ At("doctor", "start")
    /\ IF doctorFailures = {} THEN NextStep ELSE Fails
    /\ OnlyCmd

---------------------------------------------------------------------------
(* discoverHostMap: of the machines that run and whose name contains a     *)
(* host's the last one listed; hosts without any are only reported.        *)
Named(h) == {m \in cloud.machines : m.on /\ m.role = h}
HostMaps ==
    LET found == {h \in LabHosts : Named(h) # {}} IN
    {f \in [found -> cloud.machines] : \A h \in found : f[h] \in Named(h)}

(* requireInfra and checkSSMOnline, for health-check and for the Windows   *)
(* phase of score reset, which counts an error and goes on where the other *)
(* fails.  cmd.seen becomes the host map's machines.  An agent that is not *)
(* online is asked for again, and after the last time restarted through    *)
(* one that is; it is enough that those that could be restarted come back. *)
Found(M) == cmd' = [cmd EXCEPT !.at = "hosts", !.seen = M]
NotFound == IF cmd.do = "score" THEN cmd' = Done([cmd EXCEPT !.errs = TRUE]) ELSE Fails
Requiring(point) == At("health-check", point) \/ At("windows", point)
(* Any machine that runs will do, also one that is no host of the lab: the *)
(* map is then empty.  A variant's lab is read from its target.            *)
SomethingRuns == DiscoverInstances # {} \/ cloud.extras \cap {"kali", "controller"} # {}
LabLoads == ~range.variant \/ disk.target = "complete"
requireInfra ==
    /\ Requiring("start")
    /\ \/ \E f \in HostMaps :
           /\ SomethingRuns /\ (LabLoads \/ disk.target = "partial")
           /\ cmd' = [cmd EXCEPT !.at = IF AWS THEN "ssm" ELSE "hosts", !.seen = {f[h] : h \in DOMAIN f}]
           /\ UNCHANGED spent
       \/ (~SomethingRuns \/ ~LabLoads) /\ NotFound /\ UNCHANGED spent
       \/ Fault /\ NotFound
    /\ UNCHANGED <<range, disk, inv, cloud, lab>>
Now(M) == {m \in cloud.machines : \E n \in M : n.role = m.role /\ n.gen = m.gen}
Answering(M) == {m \in Now(M) : m.on /\ m.online}
pickRecoveryHelper(M) ==
    LET answering == Answering(M) IN {m \in answering : m.role \in DCs \/ ~\E n \in answering : n.role \in DCs}
checkSSMOnline ==
    /\ Requiring("ssm")
    /\ LET offline == Now(cmd.seen) \ Answering(cmd.seen) IN
       IF offline = {} THEN Found(cmd.seen) /\ UNCHANGED cloud
       ELSE \E revived \in SUBSET {m \in offline : m.on} :
            /\ pickRecoveryHelper(cmd.seen) = {} => revived = {}
            /\ cloud' = [cloud EXCEPT !.machines = (@ \ revived) \cup {[m EXCEPT !.online = TRUE] : m \in revived}]
            /\ IF revived # {} THEN Found(cmd.seen) ELSE NotFound
    /\ UNCHANGED <<range, disk, inv, lab, spent>>

---------------------------------------------------------------------------
(* buildChecks: two for each controller, and with others those of trusts   *)
(* and names; three for each server; and SQL Server's, on either.          *)
ChecksOf(h) ==
    LET checks == {"mssql"} \cup
                  IF h \notin DCs THEN {"membership", "locator", "iis"}
                  ELSE {"controller", "replication"} \cup IF DCs = {h} THEN {} ELSE {"trust", "dns"} IN
    {[host |-> h, check |-> c] : c \in checks}
buildChecks == UNION {ChecksOf(h) : h \in LabHosts}

(* The evaluations.  Membership takes any domain for one, also WORKGROUP.  *)
(* Whether a service is there and stopped, a trust broken or a name known  *)
(* is no part of the state: those verdicts are either.  The others look    *)
(* for what a playbook did.                                                *)
Either == {"iis", "mssql", "trust", "dns"}
Evaluations(check, m) ==
    IF check \in Either THEN BOOLEAN ELSE {check = "membership" \/ Proves[check] \in m.done}

(* executeHealthCheck: no machine is a SKIP, which fails nothing. *)
executeHealthCheck(c) ==
    LET answering == {m \in Answering(cmd.seen) : m.role = c.host} IN
    IF ~\E n \in cmd.seen : n.role = c.host THEN {"SKIP"}
    ELSE IF answering = {} THEN {"FAIL"}
    ELSE {IF good THEN "OK" ELSE "FAIL" : good \in UNION {Evaluations(c.check, m) : m \in answering}}

(* The checks one after the other; any that fails fails the command.       *)
HostsToCheck == LabHosts \ cmd.over
runHealthChecks ==
    /\ At("health-check", "hosts")
    /\ IF HostsToCheck = {} THEN (IF cmd.errs THEN Fails ELSE NextStep) /\ UNCHANGED spent
       ELSE \E h \in HostsToCheck, failed \in BOOLEAN :
            LET verdicts == {executeHealthCheck(c) : c \in ChecksOf(h)} IN
            /\ cmd' = [cmd EXCEPT !.over = @ \cup {h}, !.errs = @ \/ failed]
            /\ \/ /\ IF failed THEN \E v \in verdicts : "FAIL" \in v ELSE {"FAIL"} \notin verdicts
                  /\ UNCHANGED spent
               \/ failed /\ {"SKIP"} \notin verdicts /\ Fault
    /\ UNCHANGED <<range, disk, inv, cloud, lab>>
HealthStep == requireInfra \/ checkSSMOnline \/ runHealthChecks
=============================================================================
