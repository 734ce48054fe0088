--------------------------- MODULE InventoryFile ---------------------------
(***************************************************************************)
(* The runtime inventory of an environment, <env>-inventory, as a document *)
(* and the functions of cmd/inventory.go, inventory_topology.go,           *)
(* aws_inventory.go and provision.go that read and rewrite it.  An INI     *)
(* file becomes a record of three partial functions:                       *)
(*   hosts   the host definition lines, each a HostLine                    *)
(*   groups  the topology sections ([default] and :vars excluded)          *)
(*   vars    the assignments of [all:vars]                                 *)
(* Layout, comments and quoting are left out.  What a repair guarantees for *)
(* every document is proved in EnvScaffoldProofs, what a reconciliation    *)
(* does in RangeLifecycleProofs.                                           *)
(***************************************************************************)
EXTENDS Naturals, FiniteSets

CONSTANTS
    Hosts,      \* the host names an inventory or a lab can hold
    Groups,     \* the topology sections
    Vars,       \* the keys of [all:vars]
    Values,     \* their values
    Lower       \* strings.ToLower on host names

ASSUME LowerAssumption == Lower \in [Hosts -> Hosts] /\ \A h \in Hosts : Lower[Lower[h]] = Lower[h]
ASSUME GroupsAssumption == {"dc", "domain"} \subseteq Groups

None == "none"

(* Addresses that name no machine: PENDING (env create) and an unrendered  *)
(* {{ip_range}} (a provider template).                                     *)
Placeholders == {"PENDING", "{{ip_range}}"}

Lowered(S) == {Lower[h] : h \in S}
Over(f, g) == [x \in DOMAIN f \cup DOMAIN g |-> IF x \in DOMAIN f THEN f[x] ELSE g[x]]
Only(f, S) == [x \in DOMAIN f \cap S |-> f[x]]

---------------------------------------------------------------------------
(* Topology (inventory_topology.go).  A canonical inventory has the same   *)
(* shape; only its groups and variables are read.                          *)

(* loadCanonicalInventory: an inventory with neither [domain] nor [dc] is  *)
(* not an Active Directory one; one of the two alone is an error.          *)
IsAD(canonical) == {"domain", "dc"} \cap DOMAIN canonical.groups # {}
IncompleteAD(canonical) == IsAD(canonical) /\ ~({"domain", "dc"} \subseteq DOMAIN canonical.groups)

(* filterCanonicalTopology: members that are not deployed leave the group. *)
Deployed(doc, S) == {h \in S : Lower[h] \in Lowered(DOMAIN doc.hosts)}
filterCanonicalTopology(canonical, doc) ==
    [g \in DOMAIN canonical.groups |-> Deployed(doc, canonical.groups[g])]

(* planInventoryRepair.  sections is the filtered topology. *)
Members(doc, g) == IF g \in DOMAIN doc.groups THEN doc.groups[g] ELSE {}
missingMembers(doc, sections, g) ==
    {h \in sections[g] : Lower[h] \notin Lowered(Members(doc, g))}
missingVars(doc, canonical, transport) ==
    {k \in DOMAIN canonical.vars : k \notin transport /\ k \notin DOMAIN doc.vars}

(* addInventoryTopology and addInventoryVariables. *)
addInventoryTopology(doc, sections) ==
    [g \in DOMAIN doc.groups \cup DOMAIN sections |->
        Members(doc, g) \cup IF g \in DOMAIN sections THEN missingMembers(doc, sections, g) ELSE {}]
addInventoryVariables(doc, canonical, transport) ==
    Over(doc.vars, Only(canonical.vars, missingVars(doc, canonical, transport)))

(* validateInventoryContract, on the repaired file. *)
Contract(doc, sections, canonical, transport) ==
    /\ \A g \in DOMAIN sections :
        g \in DOMAIN doc.groups /\ Lowered(sections[g]) \subseteq Lowered(doc.groups[g])
    /\ \A k \in DOMAIN canonical.vars : k \in transport \/ k \in DOMAIN doc.vars

(* ensureInventoryTopologyFromSource: what it refuses, and what it writes. *)
(* transport is the set of ansible_* keys, never copied.                   *)
TopologyRefused(doc, canonical) ==
    \/ IncompleteAD(canonical)
    \/ IsAD(canonical) /\ DOMAIN doc.hosts = {}
    \/ IsAD(canonical) /\ filterCanonicalTopology(canonical, doc)["dc"] = {}
ensureInventoryTopologyFromSource(doc, canonical, transport) ==
    IF ~IsAD(canonical) THEN doc
    ELSE [hosts |-> doc.hosts,
          groups |-> addInventoryTopology(doc, filterCanonicalTopology(canonical, doc)),
          vars |-> addInventoryVariables(doc, canonical, transport)]

(* replaceInventoryVariable: replaced where it stands or added. *)
replaceInventoryVariable(doc, key, value) ==
    [hosts |-> doc.hosts, groups |-> doc.groups, vars |-> Over([k \in {key} |-> value], doc.vars)]
(* ensureProviderInventoryVariables: admin_user follows the provider. *)
ensureProviderInventoryVariables(doc, adminUser) == replaceInventoryVariable(doc, "admin_user", adminUser)

(* filterInventoryHosts: every line whose first word is a host of the base *)
(* lab that this lab does not have, definitions and memberships alike.     *)
filterInventoryHosts(doc, known, keep) ==
    LET gone == {h \in Hosts : Lower[h] \in known /\ Lower[h] \notin keep} IN
    [hosts |-> Only(doc.hosts, DOMAIN doc.hosts \ gone),
     groups |-> [g \in DOMAIN doc.groups |-> doc.groups[g] \ gone],
     vars |-> doc.vars]

---------------------------------------------------------------------------
(* Addresses (inventory.go).  A host line is                               *)
(*   addr   the value of ansible_host, None when the line has none         *)
(*   first  whether ansible_host is the first variable of the line         *)
(*   conn   its own ansible_connection, None when it inherits [all:vars]   *)
(*   pw     its ansible_password, None when it has none                    *)
(* and an instance is what DiscoverInstances returned of one machine: the  *)
(* role that extractHostRole reads from its name, its id and its address.  *)

(* extractHostRole: after the last "dreadgoad-", else after the last       *)
(* hyphen, with Azure's "-vm" dropped; a name with no hyphen has no role.  *)
extractHostRole(name) == IF name.style \in {"dreadgoad", "dashed"} THEN name.role ELSE None

Sound(addr) == addr # None /\ addr \notin Placeholders

(* placeholderHosts: only a placeholder that follows the host name directly *)
(* is seen.                                                                 *)
placeholderHosts(doc) ==
    {h \in DOMAIN doc.hosts : doc.hosts[h].first /\ doc.hosts[h].addr \in Placeholders}

(* applyInventoryAddresses: lines with an ansible_host, wherever it stands. *)
applyInventoryAddresses(doc, addresses) ==
    [hosts |-> [h \in DOMAIN doc.hosts |->
        LET line == doc.hosts[h]
            new == {addresses[k] : k \in {k \in DOMAIN addresses : Lower[k] = Lower[h]}} IN
        IF line.addr = None \/ new = {} THEN line
        ELSE [addr |-> CHOOSE a \in new : TRUE, first |-> line.first, conn |-> line.conn, pw |-> line.pw]],
     groups |-> doc.groups, vars |-> doc.vars]

(* wantedAWSInventoryRoles: two names that differ only by case, or no host *)
(* at all, is a problem no --limit can put out of scope.                   *)
GlobalProblem(doc) ==
    \/ DOMAIN doc.hosts = {}
    \/ \E g, h \in DOMAIN doc.hosts : g # h /\ Lower[g] = Lower[h]
(* discoveredAWSInstancesByRole. *)
OfRole(instances, role) == {i \in instances : extractHostRole(i.name) = role}

(* expectedAWSHostAddress: the instance id over SSM, else the private IP. *)
Connection(doc, h) ==
    IF doc.hosts[h].conn # None THEN doc.hosts[h].conn
    ELSE IF "ansible_connection" \in DOMAIN doc.vars THEN doc.vars["ansible_connection"] ELSE None
expectedAWSHostAddress(doc, h, i) == IF Connection(doc, h) \in {None, "aws_ssm"} THEN i.id ELSE i.ip

(* expectedAWSInventoryAddresses: the addresses it could resolve, and the  *)
(* hosts it could not.                                                     *)
Resolvable(doc, instances, h) ==
    \E i \in instances : OfRole(instances, Lower[h]) = {i} /\ expectedAWSHostAddress(doc, h, i) # None
expectedAWSInventoryAddresses(doc, instances) ==
    [h \in {h \in DOMAIN doc.hosts : Resolvable(doc, instances, h)} |->
        expectedAWSHostAddress(doc, h, CHOOSE i \in OfRole(instances, Lower[h]) : TRUE)]
affectedHosts(doc, instances) ==
    {Lower[h] : h \in {h \in DOMAIN doc.hosts : ~Resolvable(doc, instances, h)}}
ReconcileFails(doc, instances) == GlobalProblem(doc) \/ affectedHosts(doc, instances) # {}

(* validateAWSInventoryAddresses, read back from the file. *)
AddressesHold(doc, expected) ==
    \A h \in DOMAIN expected : h \in DOMAIN doc.hosts /\ doc.hosts[h].addr = expected[h]

(* inventoryAddressesForProvider away from AWS: by role, the private IP or *)
(* the id; of two machines with one role the last one listed wins.         *)
PlainAddress(i) == IF i.ip # None THEN i.ip ELSE i.id
PlainAddresses(instances) ==
    LET roles == {extractHostRole(i.name) : i \in instances} \ {None} IN
    {f \in [roles -> {PlainAddress(i) : i \in instances}] :
        \A r \in roles : \E i \in OfRole(instances, r) : f[r] = PlainAddress(i)}

---------------------------------------------------------------------------
(* AWS transport (aws_inventory.go): the connection plugin and the region  *)
(* are authoritative, the bucket is only a default.                        *)
ensureAWSInventoryTransport(doc, region) ==
    [hosts |-> doc.hosts, groups |-> doc.groups,
     vars |-> Over([k \in {"ansible_connection", "region"} |->
                        IF k = "region" THEN region ELSE "aws_ssm"],
                   Over(doc.vars, [k \in {"bucket"} |-> "AUTO"]))]
(* materializeSSMBucketName: AUTO becomes the account's bucket. *)
materializeSSMBucketName(doc, bucket) ==
    IF doc.vars["bucket"] = "AUTO" THEN replaceInventoryVariable(doc, "bucket", bucket) ELSE doc

(* Azure passwords (provision.go).  want is the partial function from host *)
(* to the password of the materialized lab config (materializedHost-       *)
(* Passwords); quotable are the passwords the inventory's quoting can hold *)
(* (quoteInventoryValue).                                                  *)
syncAzureInventoryPasswords(doc, want, quotable) ==
    [hosts |-> [h \in DOMAIN doc.hosts |->
        LET line == doc.hosts[h] IN
        IF Lower[h] \in DOMAIN want /\ line.pw # None /\ want[Lower[h]] \in quotable
        THEN [addr |-> line.addr, first |-> line.first, conn |-> line.conn, pw |-> want[Lower[h]]]
        ELSE line],
     groups |-> doc.groups, vars |-> doc.vars]
(* validateInventoryCredentials: fatal only when every compared host differs. *)
Compared(doc, want) == {h \in DOMAIN doc.hosts : Lower[h] \in DOMAIN want /\ doc.hosts[h].pw # None}
CredentialsRefused(doc, want) ==
    Compared(doc, want) # {} /\ \A h \in Compared(doc, want) : doc.hosts[h].pw # want[Lower[h]]
=============================================================================
