------------------------------ MODULE Preflight ------------------------------
(***************************************************************************)
(* provisionPlaybooks (cmd/provision.go): the checks and repairs that make *)
(* the inventory fit for the machines that run now, then the playbooks.    *)
(* Shared by provision, up and lab reset.  One point per file it rewrites: *)
(*   start, tools, collection, variant, generate, topology, transport,     *)
(*   bucket, sync, passwords, gates, tunnel, play                          *)
(* Ansible is external: a playbook completes on every selected host or     *)
(* fails after any part of them (Provision and PlaybookRun look inside).   *)
(***************************************************************************)
EXTENDS RangeInfra

Provisioning(point) == At("provision", point)
OnlyCmd == UNCHANGED <<range, disk, inv, cloud, lab, spent>>

(* resolvePlaybooks; lab reset has its own default. *)
resolvePlaybooks(req) ==
    LET all == IF req.plays # <<>> THEN req.plays ELSE IF req.do = "reset" THEN AdPlaybooks ELSE Playbooks IN
    IF req.fromPlaybook = None THEN all ELSE SubSeq(all, Index(all, req.fromPlaybook), Len(all))

runProvision ==
    /\ Provisioning("start")
    /\ IF cmd.req.fromPlaybook \notin {None} \cup {Playbooks[i] : i \in DOMAIN Playbooks} THEN Fails
       ELSE cmd' = [cmd EXCEPT !.at = "tools", !.left = resolvePlaybooks(cmd.req)]
    /\ OnlyCmd

---------------------------------------------------------------------------
(* classifyAnsibleVersion: 2.20 is the one that is supported, 2.19 works   *)
(* without SSM, later ones are not tested.                                 *)
classifyAnsibleVersion(version) ==
    CASE version = "2.20" -> "pass"
      [] version = "2.19" -> IF range.provider = "azure" THEN "warn" ELSE "fail"
      [] version = "2.21" -> "warn"
      [] OTHER -> "fail"

(* checkAnsibleRuntime: the two doctor checks that provisioning repeats. *)
checkAnsibleRuntime ==
    /\ Provisioning("tools")
    /\ IF \/ classifyAnsibleVersion(range.tools.ansible) = "fail"
          \/ range.provider = "azure" /\ "pypsrp" \in range.tools.missing
       THEN Fails ELSE Go("collection")
    /\ OnlyCmd
(* InstallRequirements and BuildCollection. *)
BuildCollection ==
    /\ Provisioning("collection")
    /\ \/ Go("variant") /\ UNCHANGED spent
       \/ Fault /\ Fails
    /\ UNCHANGED <<range, disk, inv, cloud, lab>>

(* ensureVariant: a target without its marker is refused, none is generated *)
(* now, with names drawn at random: a config like any other.  Variant looks *)
(* inside; here it may leave a part behind.                                *)
ensureVariant ==
    /\ Provisioning("variant")
    /\ IF ~range.variant \/ disk.target = "complete" THEN Go("topology") /\ UNCHANGED disk
       ELSE IF disk.target = "partial" THEN Fails /\ UNCHANGED disk
       ELSE disk' = [disk EXCEPT !.target = "partial"] /\ Go("generate")
    /\ UNCHANGED <<range, inv, cloud, lab, spent>>
generateVariant ==
    /\ Provisioning("generate")
    /\ \/ /\ \E config \in Versions : disk' = [disk EXCEPT !.target = "complete", !.config = config]
          /\ Go("topology") /\ UNCHANGED spent
       \/ Fault /\ Fails /\ UNCHANGED disk
    /\ UNCHANGED <<range, inv, cloud, lab>>

---------------------------------------------------------------------------
(* ensureInventoryTopology and ensureAWSInventoryTransport (InventoryFile). *)
ensureInventoryTopology ==
    /\ Provisioning("topology")
    /\ IF TopologyRefused(inv, Canonical) THEN Fails /\ UNCHANGED inv
       ELSE /\ inv' = ensureProviderInventoryVariables(
                        ensureInventoryTopologyFromSource(inv, Canonical, {"ansible_connection"}), "adm")
            /\ Go(IF AWS THEN "transport" ELSE "sync")
    /\ UNCHANGED <<range, disk, cloud, lab, spent>>
ensureTransport ==
    /\ Provisioning("transport")
    /\ inv' = ensureAWSInventoryTransport(inv, "region")
    /\ Go("bucket")
    /\ UNCHANGED <<range, disk, cloud, lab, spent>>

(* ensureSSMBucket: the name first goes into the inventory, then the       *)
(* bucket is created unless it is there.                                   *)
ensureSSMBucket ==
    /\ Provisioning("bucket")
    /\ inv' = materializeSSMBucketName(inv, "bucket-of-env")
    /\ \/ cloud' = [cloud EXCEPT !.bucket = TRUE] /\ Go("sync") /\ UNCHANGED spent
       \/ Fault /\ Fails /\ UNCHANGED cloud
    /\ UNCHANGED <<range, disk, lab>>

(* exactLimitedInventoryHosts and awsReconciliationOutsideLimit: the limit *)
(* names hosts, and none of those that could not be resolved.              *)
awsReconciliationOutsideLimit(req) ==
    /\ ~GlobalProblem(inv) /\ req.limit.exact
    /\ req.limit.hosts \subseteq DOMAIN inv.hosts
    /\ affectedHosts(inv, DiscoverInstances) \cap Lowered(req.limit.hosts) = {}

(* ensureInventorySynced, handleAWSReconciliationFailure and what inventory- *)
(* SyncFailure makes of the outcome.  All addresses, or under a limit that *)
(* needs no more those that could be resolved, or none and an error.       *)
\* mutant: a limited run goes on whatever could not be resolved
syncAnyLimited ==
    /\ Provisioning("sync") /\ AWS
    /\ IF ReconcileFails(inv, DiscoverInstances) /\ ~cmd.req.limit.set
       THEN Fails /\ UNCHANGED inv
       ELSE /\ inv' = applyInventoryAddresses(inv, expectedAWSInventoryAddresses(inv, DiscoverInstances))
            /\ cmd' = [cmd EXCEPT !.at = "gates", !.seen = DiscoverInstances]
    /\ UNCHANGED <<range, disk, cloud, lab, spent>>
ensureInventorySynced ==
    /\ Provisioning("sync") /\ AWS
    /\ \/ /\ DiscoverInstances # {}
          /\ ~ReconcileFails(inv, DiscoverInstances) \/ awsReconciliationOutsideLimit(cmd.req)
          /\ inv' = applyInventoryAddresses(inv, expectedAWSInventoryAddresses(inv, DiscoverInstances))
          /\ cmd' = [cmd EXCEPT !.at = "gates", !.seen = DiscoverInstances]
          /\ UNCHANGED spent
       \/ /\ \/ DiscoverInstances = {}
             \/ ReconcileFails(inv, DiscoverInstances) /\ ~awsReconciliationOutsideLimit(cmd.req)
          /\ Fails /\ UNCHANGED <<inv, spent>>
       \/ Fault /\ Fails /\ UNCHANGED inv
    /\ UNCHANGED <<range, disk, cloud, lab>>

(* syncAzureInventoryIPs: addresses are written, and then a placeholder    *)
(* that is left fails the run, limited or not.                             *)
syncAzureInventoryIPs ==
    /\ Provisioning("sync") /\ ~AWS
    /\ \/ /\ DiscoverInstances = {} /\ Fails /\ UNCHANGED <<inv, spent>>
       \/ /\ DiscoverInstances # {}
          /\ \E addresses \in PlainAddresses(DiscoverInstances) : inv' = applyInventoryAddresses(inv, addresses)
          /\ IF placeholderHosts(inv') # {} THEN Fails
             ELSE cmd' = [cmd EXCEPT !.at = "passwords", !.seen = DiscoverInstances]
          /\ UNCHANGED spent
       \/ Fault /\ Fails /\ UNCHANGED inv
    /\ UNCHANGED <<range, disk, cloud, lab>>
syncAzurePasswords ==
    /\ Provisioning("passwords")
    /\ inv' = syncAzureInventoryPasswords(inv, materializedHostPasswords, Quotable)
    /\ Go("gates")
    /\ UNCHANGED <<range, disk, cloud, lab, spent>>

(* validateInventoryResolved and validateInventoryCredentials. *)
validateInventory ==
    /\ Provisioning("gates")
    /\ IF \/ placeholderHosts(inv) # {} /\ ~cmd.req.limit.set
          \/ ~AWS /\ CredentialsRefused(inv, materializedHostPasswords)
       THEN Fails ELSE Go("tunnel")
    /\ OnlyCmd

(* maybeStartSOCKSTunnel: through the Bastion and the controller on Azure. *)
maybeStartSOCKSTunnel ==
    /\ Provisioning("tunnel")
    /\ IF ~AWS /\ ~({"bastion", "controller"} \subseteq cloud.extras) THEN Fails ELSE Go("play")
    /\ OnlyCmd

---------------------------------------------------------------------------
(* What Ansible reaches: the machine at the host's address, if it runs and *)
(* its agent answers (AWS) or its password is the inventory's (Azure).     *)
ReachedAs(h, m) ==
    LET line == inv.hosts[h] IN
    /\ m.on /\ m.online
    /\ IF AWS THEN line.addr = Ids[m.role][m.gen]
       ELSE line.addr = Ips[m.role][m.gen] /\ m.built # 0 /\ line.pw = Password[m.built]
Reached(h) == {m \in cloud.machines : ReachedAs(h, m)}

(* ad-data.yml on the machines M: the ad role makes the groups and users   *)
(* the config defines for the domain of each controller, and never a       *)
(* computer account.  Its reconciliation corrects the memberships and      *)
(* passwords it covers, and nothing when it only checks.                   *)
Restorable(p, M) ==
    {o \in Objects : p = "ad-data.yml" /\ disk.config \in o.defined /\ \E m \in M : m.role = o.dc}
Correctable(p, M) ==
    {d \in lab.drift : p = "ad-data.yml" /\ d.covered /\ ~cmd.req.checkOnly /\ \E m \in M : m.role = d.dc}

(* A playbook ran on the machines M; of the drift it could not put kept    *)
(* right, which is a warning.                                              *)
Ran(p, M, kept) ==
    /\ cloud' = [cloud EXCEPT !.machines = (@ \ M) \cup {[m EXCEPT !.done = @ \cup {p}] : m \in M}]
    /\ lab' = [lab EXCEPT !.ad = @ \cup Restorable(p, M), !.drift = @ \ (Correctable(p, M) \ kept)]
RunPlaybook ==
    /\ Provisioning("play")
    /\ LET p == Head(cmd.left)
           hosts == SelectedHosts(cmd.req) \cap DOMAIN inv.hosts
           reached == UNION {Reached(h) : h \in hosts} IN
       \/ /\ \A h \in hosts : Reached(h) # {}
          /\ \E kept \in SUBSET Correctable(p, reached) :
                LET now == [cmd EXCEPT !.slips = @ \/ kept # {}] IN
                /\ Ran(p, reached, kept)
                /\ cmd' = IF Len(cmd.left) > 1 THEN [now EXCEPT !.left = Tail(@)] ELSE Done(now)
                /\ IF kept = {} THEN UNCHANGED spent ELSE Fault
       \/ /\ \/ Fault
             \/ (\E h \in hosts : Reached(h) = {}) /\ UNCHANGED spent
          /\ \E M \in SUBSET reached : \E kept \in SUBSET Correctable(p, M) : Ran(p, M, kept)
          /\ FailsAt(p)
    /\ UNCHANGED <<range, disk, inv>>

ProvisionStep ==
    \/ runProvision \/ checkAnsibleRuntime \/ BuildCollection \/ ensureVariant \/ generateVariant
    \/ ensureInventoryTopology \/ ensureTransport \/ ensureSSMBucket
    \/ ensureInventorySynced \/ syncAzureInventoryIPs \/ syncAzurePasswords
    \/ validateInventory \/ maybeStartSOCKSTunnel \/ RunPlaybook
=============================================================================
