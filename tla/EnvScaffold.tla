---------------------------- MODULE EnvScaffold ----------------------------
(***************************************************************************)
(* `env create` (cmd/env_cmd.go) with the part of the variant generator    *)
(* that touches the disk (internal/variant/generator.go, Run).  Several    *)
(* invocations for one environment name run side by side, each a chain of  *)
(* file system calls any of which may fail, or in the middle of which the  *)
(* process may die.  Four artifacts can be claimed: the environment's      *)
(* directory, the lab overlay, the runtime inventory and the variant's     *)
(* directory.  What the files hold is kept where something depends on it:  *)
(* whether a tree is whole, which lab it points at, and the inventory as   *)
(* the document of InventoryFile.                                          *)
(***************************************************************************)
EXTENDS InventoryFile, Sequences, SequencesExt

CONSTANTS
    Creators,     \* the invocations of env create
    Requests,     \* what they may ask for: records [force, variant,
                  \* plan, azure, reference]
    Canonical,    \* data/inventory of the lab or of the generated variant
    LabHosts,     \* the hosts of the lab's config.json, in lower case
    KnownHosts,   \* the eight host names filterInventoryHosts knows
    MachineIds,   \* the addresses that are EC2 instance ids
    TemplateHosts \* the hosts the reference region has a module for

ASSUME CreatorsAssumption == {None, "earlier"} \cap Creators = {}

(* Plans (resolveScaffoldPlan): the lab GOAD, another Active Directory lab *)
(* and a template range.                                                   *)
Plans == {"goad", "lab", "template"}

(* A variant of a template range is refused (SupportsVariants), and the    *)
(* references are inventories.                                             *)
ASSUME RequestsAssumption ==
    \A r \in Requests :
        /\ r.plan \in Plans /\ (r.variant => r.plan # "template")
        /\ DOMAIN r.reference.hosts \subseteq Hosts /\ DOMAIN r.reference.groups \subseteq Groups
(* Every lab under ad/ declares [dc] and [domain] in its data/inventory,   *)
(* no host is named like a file, and no instance id is a placeholder.      *)
ASSUME LabAssumption ==
    /\ IsAD(Canonical) /\ DOMAIN Canonical.groups \subseteq Groups
    /\ {"env.hcl", "region.hcl"} \cap TemplateHosts = {}
    /\ {"PENDING", None} \cap MachineIds = {}

Artifacts == {"env", "overlay", "inventory", "variant"}
Transport == {"ansible_connection"}

VARIABLES
    request,    \* per creator, the request and the reference it reads
    pc,         \* per creator, the next call
    claims,     \* per creator, scaffoldArtifacts.paths
    owner,      \* per artifact, who made it (None: not there)
    tree,       \* per directory artifact, the parts it holds
    doc,        \* the inventory's content (None: empty or not there)
    points      \* the lab the infrastructure tree points at
vars == <<request, pc, claims, owner, tree, doc, points>>

Ended == {"created", "failed", "dead"}
Empty == [hosts |-> [h \in {} |-> None], groups |-> [g \in {} |-> {}], vars |-> [v \in {} |-> None]]
IsActiveDir(p) == request[p].plan # "template"
WantsOverlay(p) == ~request[p].variant /\ request[p].plan = "goad"
LabName(p) == IF request[p].variant THEN "variant" ELSE request[p].plan

(* What a scaffold that succeeds has written. *)
Products(p) == {"env", "inventory"} \cup (IF request[p].variant THEN {"variant"} ELSE {})
                                    \cup (IF WantsOverlay(p) THEN {"overlay"} ELSE {})

(* A variant target or files left by an earlier invocation may be there.   *)
Init ==
    /\ request \in [Creators -> Requests]
    /\ pc = [p \in Creators |-> "available"]
    /\ claims = [p \in Creators |-> <<>>]
    /\ owner \in {[a \in Artifacts |-> None], [a \in Artifacts |-> IF a = "variant" THEN "earlier" ELSE None]}
    /\ tree = [a \in Artifacts |-> {}]
    /\ doc = Empty
    /\ points = None

---------------------------------------------------------------------------
Goto(p, label) == pc' = [pc EXCEPT ![p] = label]
Fail(p) == Goto(p, "cleanup") /\ UNCHANGED <<request, claims, owner, tree, doc, points>>
At(p, label) == pc[p] = label
Exists(a) == owner[a] # None

(* ensureScaffoldTargetsAvailable: nothing this request would create is    *)
(* there.  --force skips it.                                               *)
ensureScaffoldTargetsAvailable(p) ==
    /\ At(p, "available")
    /\ \/ ~request[p].force /\ Goto(p, "failed")
       \/ /\ request[p].force \/ \A a \in Products(p) : ~Exists(a)
          /\ Goto(p, "reference")
    /\ UNCHANGED <<request, claims, owner, tree, doc, points>>

(* resolveScaffoldReference with validateScaffoldTemplateHosts: a lab whose *)
(* hosts the reference has no module for is refused.  The deferred cleanup  *)
(* is not set up yet.                                                       *)
missingTemplateHosts == LabHosts \ TemplateHosts
resolveScaffoldReference(p) ==
    /\ At(p, "reference")
    /\ \/ Goto(p, "failed")
       \/ /\ IsActiveDir(p) => missingTemplateHosts = {}
          /\ Goto(p, IF request[p].force THEN "infrastructure" ELSE "reserve_env")
    /\ UNCHANGED <<request, claims, owner, tree, doc, points>>

(* reserveDirectory and reserveFile: Mkdir and O_EXCL, recorded once made. *)
Claim(p, a) ==
    /\ owner' = [owner EXCEPT ![a] = p]
    /\ claims' = [claims EXCEPT ![p] = Append(@, a)]
    /\ UNCHANGED <<request, tree, doc, points>>
\* mutant: a reservation opens what is already there
FreeOrNot(a) == TRUE
Free(a) == ~Exists(a)
(* reserveScaffoldArtifacts: the directory, the overlay, the inventory. *)
Reserve(p, label, a, next) ==
    /\ At(p, label)
    /\ \/ Fail(p)
       \/ Free(a) /\ Goto(p, next) /\ Claim(p, a)
reserveScaffoldArtifacts(p) ==
    \/ Reserve(p, "reserve_env", "env", IF WantsOverlay(p) THEN "reserve_overlay" ELSE "reserve_inventory")
    \/ Reserve(p, "reserve_overlay", "overlay", "reserve_inventory")
    \/ Reserve(p, "reserve_inventory", "inventory", "infrastructure")

---------------------------------------------------------------------------
(* A write to a path whose directory is made on demand (MkdirAll,          *)
(* WriteFile without O_EXCL) creates it for whoever writes.                *)
Made(p, a) == owner' = [owner EXCEPT ![a] = IF @ = None THEN p ELSE @]

(* scaffoldPlanInfrastructure: scaffoldHCL writes env.hcl (createEnvHCL or *)
(* createAzureEnvHCL, which refuses a network that is not an IPv4 /16; a   *)
(* template range renders its reference's) and region.hcl.                 *)
Write(p, label, next, parts) ==
    /\ At(p, label)
    /\ \/ Fail(p)
       \/ /\ Goto(p, next)
          /\ Made(p, "env")
          /\ tree' = [tree EXCEPT !["env"] = @ \cup parts]
          /\ UNCHANGED <<request, claims, doc, points>>
createEnvHCL(p) == Write(p, "infrastructure", "region", {"env.hcl"})
createRegionHCL(p) == Write(p, "region", "copy", {"region.hcl"})

(* copyInfrastructure: the reference region's tree without its region.hcl  *)
(* and, shouldSkipHostUnit, without the units of hosts the lab lacks; a    *)
(* template range is copied whole.                                         *)
shouldSkipHostUnit(p, h) == IsActiveDir(p) /\ h \notin LabHosts
copyInfrastructure(p) == Write(p, "copy", "repoint_lab", {h \in TemplateHosts : ~shouldSkipHostUnit(p, h)})

(* repointInfrastructureLab: the copy reads ad/GOAD's data until it is     *)
(* pointed at the lab's or the variant's.  For a template range,           *)
(* renderTemplateTree replaces the reference's names instead.              *)
Repoint(p, lab) ==
    /\ At(p, "repoint_lab")
    /\ \/ Fail(p)
       \/ /\ Goto(p, IF request[p].variant THEN "new_target" ELSE "config")
          /\ points' = lab
          /\ UNCHANGED <<request, claims, owner, tree, doc>>
\* mutant: the tree is pointed at the plan's lab, variant or not
repointAtPlan(p) == IsActiveDir(p) /\ Repoint(p, request[p].plan)
repointInfrastructureLab(p) == IsActiveDir(p) /\ Repoint(p, LabName(p))
renderTemplateTree(p) == ~IsActiveDir(p) /\ Repoint(p, "template")

(* scaffoldLabConfigForPlan without --variant: copyBaseConfig writes the   *)
(* overlay of GOAD, any other range only needs its base config to exist.   *)
copyBaseConfig(p) == Made(p, "overlay") /\ tree' = [tree EXCEPT !["overlay"] = {"json"}]
scaffoldLabConfigForPlan(p) ==
    /\ At(p, "config")
    /\ \/ Fail(p)
       \/ /\ Goto(p, "inventory")
          /\ IF WantsOverlay(p) THEN copyBaseConfig(p) ELSE UNCHANGED <<owner, tree>>
          /\ UNCHANGED <<request, claims, doc, points>>

(* With --variant, generateVariantConfig runs the generator: a target that *)
(* exists is refused, force or not; a target it made is tracked for        *)
(* rollback unless --force, once the generator returned, failed or not.    *)
Track(p) == IF request[p].force THEN claims ELSE [claims EXCEPT ![p] = Append(@, "variant")]
createFreshTarget(p) ==
    /\ At(p, "new_target")
    /\ \/ Fail(p)
       \/ /\ Free("variant")
          /\ owner' = [owner EXCEPT !["variant"] = p]
          /\ Goto(p, "transform")
          /\ UNCHANGED <<request, claims, tree, doc, points>>
(* copyAndTransform, saveMappings, validate, createDocumentation.          *)
TransformFails(p) == Goto(p, "cleanup") /\ claims' = Track(p) /\ UNCHANGED <<request, owner, tree, doc, points>>
Transform(p) ==
    /\ At(p, "transform")
    /\ \/ TransformFails(p)
       \/ /\ Goto(p, "marker")
          /\ tree' = [tree EXCEPT !["variant"] = @ \cup {"files"}]
          /\ UNCHANGED <<request, claims, owner, doc, points>>
(* writeCompletionMarker: a temporary file, then a rename. *)
writeCompletionMarker(p) ==
    /\ At(p, "marker")
    /\ \/ TransformFails(p)
       \/ /\ Goto(p, "inventory")
          /\ tree' = [tree EXCEPT !["variant"] = @ \cup {"marker"}]
          /\ claims' = Track(p)
          /\ UNCHANGED <<request, owner, doc, points>>
(* IsComplete, what provisioning trusts. *)
IsComplete == "marker" \in tree["variant"]

---------------------------------------------------------------------------
(* scaffoldInventoryForPlan: every step reads the file the last one wrote  *)
(* and rewrites it.                                                        *)
Rewrite(p, label, next, new) ==
    /\ At(p, label)
    /\ \/ Fail(p)
       \/ /\ Exists("inventory")
          /\ doc' = new
          /\ Goto(p, next)
          /\ UNCHANGED <<request, claims, owner, tree, points>>

(* generateInventory and generateAzureInventory: the reference with the    *)
(* environment's name, and PENDING for every address (Azure) or for every  *)
(* EC2 instance id; a template range renders its provider's inventory.     *)
Reset(d, stale) ==
    [hosts |-> [h \in DOMAIN d.hosts |->
        LET line == d.hosts[h] IN
        IF line.addr \notin stale THEN line
        ELSE [addr |-> "PENDING", first |-> line.first, conn |-> line.conn, pw |-> line.pw]],
     groups |-> d.groups, vars |-> d.vars]
generateInventory(d) == Reset(d, MachineIds)
generateAzureInventory(d) == Reset(d, {d.hosts[h].addr : h \in DOMAIN d.hosts} \ {None})
scaffoldInventory(p) ==
    /\ At(p, "inventory")
    /\ \/ Fail(p)
       \/ /\ Made(p, "inventory")
          /\ LET reference == request[p].reference IN
             doc' = IF ~IsActiveDir(p) THEN reference
                    ELSE IF request[p].azure THEN generateAzureInventory(reference) ELSE generateInventory(reference)
          /\ Goto(p, IF ~IsActiveDir(p) THEN "created"
                     ELSE IF LabName(p) # "goad" THEN "repoint" ELSE "filter")
          /\ UNCHANGED <<request, claims, tree, points>>
(* repointInventoryDomainTo. *)
Repointed(p) == replaceInventoryVariable(doc, "domain_name", LabName(p))
repointInventoryDomain(p) == Rewrite(p, "repoint", "filter", Repointed(p))
FilterHosts(p) == Rewrite(p, "filter", "topology", filterInventoryHosts(doc, KnownHosts, LabHosts))
(* ensureInventoryTopologyFromSource with the lab's or the variant's own   *)
(* data/inventory, which must be there.                                    *)
EnsureTopology(p) ==
    /\ At(p, "topology")
    /\ \/ Fail(p)
       \/ /\ Exists("inventory")
          /\ request[p].variant => "files" \in tree["variant"]
          /\ ~TopologyRefused(doc, Canonical)
          /\ doc' = ensureInventoryTopologyFromSource(doc, Canonical, Transport)
          /\ Goto(p, "created")
          /\ UNCHANGED <<request, claims, owner, tree, points>>

---------------------------------------------------------------------------
(* cleanupFailedScaffold: RemoveAll of what this invocation claimed, the   *)
(* last claim first.                                                       *)
RemoveAll(a) ==
    /\ owner' = [owner EXCEPT ![a] = None]
    /\ tree' = [tree EXCEPT ![a] = {}]
    /\ doc' = IF a = "inventory" THEN Empty ELSE doc
    /\ points' = IF a = "env" THEN None ELSE points
(* A path that cannot be removed, or not whole, is only warned about: what *)
(* is left of it counts from now on as files of an earlier invocation.     *)
Sticks(a) ==
    /\ owner' = [owner EXCEPT ![a] = "earlier"]
    /\ \E part \in SUBSET tree[a] : tree' = [tree EXCEPT ![a] = part]
    /\ UNCHANGED <<doc, points>>
\* mutant: rollback removes what the request would have made
cleanupProducts(p) ==
    /\ At(p, "cleanup")
    /\ \/ \E a \in Products(p) : Exists(a) /\ RemoveAll(a) /\ UNCHANGED <<request, claims, pc>>
       \/ /\ \A a \in Products(p) : ~Exists(a)
          /\ Goto(p, "failed")
          /\ UNCHANGED <<request, claims, owner, tree, doc, points>>
cleanupFailedScaffold(p) ==
    /\ At(p, "cleanup")
    /\ IF claims[p] = <<>>
       THEN Goto(p, "failed") /\ UNCHANGED <<request, claims, owner, tree, doc, points>>
       ELSE /\ RemoveAll(Last(claims[p])) \/ Sticks(Last(claims[p]))
            /\ claims' = [claims EXCEPT ![p] = Front(@)]
            /\ UNCHANGED <<request, pc>>
(* runEnvList: an environment is a directory with an env.hcl, "config OK"  *)
(* for an overlay or for a GOAD-<env> variant tree, the only labs it knows. *)
Listed == "env.hcl" \in tree["env"]
hasConfig == tree["overlay"] # {} \/ "files" \in tree["variant"]

(* The process dies between two calls: nothing is rolled back. *)
Crash(p) ==
    /\ pc[p] \notin Ended
    /\ Goto(p, "dead")
    /\ UNCHANGED <<request, claims, owner, tree, doc, points>>

Step(p) ==
    \/ ensureScaffoldTargetsAvailable(p) \/ resolveScaffoldReference(p) \/ reserveScaffoldArtifacts(p)
    \/ createEnvHCL(p) \/ createRegionHCL(p) \/ copyInfrastructure(p) \/ repointInfrastructureLab(p) \/ renderTemplateTree(p)
    \/ scaffoldLabConfigForPlan(p)
    \/ createFreshTarget(p) \/ Transform(p) \/ writeCompletionMarker(p)
    \/ scaffoldInventory(p) \/ repointInventoryDomain(p) \/ FilterHosts(p) \/ EnsureTopology(p)
    \/ cleanupFailedScaffold(p)
Done == (\A p \in Creators : pc[p] \in Ended) /\ UNCHANGED vars
Next == (\E p \in Creators : Step(p) \/ Crash(p)) \/ Done
Spec == Init /\ [][Next]_vars

---------------------------------------------------------------------------
Parts == {"env.hcl", "region.hcl", "json", "files", "marker"} \cup TemplateHosts
TypeOK ==
    /\ request \in [Creators -> Requests]
    /\ \A p \in Creators : ToSet(claims[p]) \subseteq Artifacts /\ Len(claims[p]) <= 3
    /\ owner \in [Artifacts -> Creators \cup {None, "earlier"}]
    /\ tree \in [Artifacts -> SUBSET Parts]
    /\ DOMAIN doc.hosts \subseteq Hosts /\ DOMAIN doc.groups \subseteq Groups
    /\ points \in {None, "goad", "lab", "variant", "template"}

(* What an invocation may roll back is its own: every path it has claimed  *)
(* was made by it and is still the one it made, whoever else created,      *)
(* overwrote or cleaned up in between (env_cmd.go:130-132).                *)
ClaimsAreOwn == \A p \in Creators : \A a \in ToSet(claims[p]) : owner[a] = p

(* An env create that reports an error without --force leaves nothing it   *)
(* made behind, but for a path it warned it could not remove, whichever    *)
(* call failed and whatever ran beside it.                                 *)
FailedLeavesNothing ==
    \A p \in Creators : pc[p] = "failed" /\ ~request[p].force => \A a \in Artifacts : owner[a] # p

(* Rollback is exact: of what is its own, and all of it.                   *)
RollbackExact == ClaimsAreOwn /\ FailedLeavesNothing

(* Only one of the invocations that race for a name without --force wins.  *)
OneWinner ==
    \A p, q \in Creators :
        pc[p] = "created" /\ pc[q] = "created" /\ p # q => request[p].force \/ request[q].force

Unforced == \A p \in Creators : ~request[p].force
(* Without --force about, the winner's environment is its own and whole:   *)
(* infrastructure of the lab's hosts that points at the lab, an overlay or *)
(* a complete variant where its request calls for one, and env list shows  *)
(* it, a GOAD environment with its configuration.                          *)
EnvironmentIsWhole ==
    \A p \in Creators : pc[p] = "created" /\ Unforced =>
        /\ \A a \in Products(p) : owner[a] = p
        /\ {"env.hcl", "region.hcl"} \subseteq tree["env"]
        /\ IsActiveDir(p) => tree["env"] \cap TemplateHosts = LabHosts
        /\ points = LabName(p)
        /\ WantsOverlay(p) => tree["overlay"] # {}
        /\ request[p].variant => IsComplete
        /\ Listed /\ (request[p].plan = "goad" => hasConfig)

(* ... and its inventory is fit for provisioning: the lab's groups over    *)
(* the lab's hosts and no other of the base lab's, the variant's           *)
(* domain_name, and no machine of the reference environment left in it.    *)
InventoryIsFit ==
    \A p \in Creators : pc[p] = "created" /\ IsActiveDir(p) /\ Unforced =>
        /\ Contract(doc, filterCanonicalTopology(Canonical, doc), Canonical, Transport)
        /\ Lowered(DOMAIN doc.hosts) \cap KnownHosts \subseteq LabHosts
        /\ LabName(p) # "goad" => doc.vars["domain_name"] = LabName(p)
        /\ \A h \in DOMAIN doc.hosts : doc.hosts[h].addr \notin MachineIds

(* What the winner leaves can be provisioned; and the types.               *)
WinnerIsWhole == TypeOK /\ EnvironmentIsWhole /\ InventoryIsFit
=============================================================================
