----------------------------- MODULE RangeState -----------------------------
(***************************************************************************)
(* What the lifecycle commands of the CLI share: one range, one operator   *)
(* who runs one command at a time, and everything a command leaves behind  *)
(* for the next one.                                                       *)
(*   range   what never changes: provider, variant, unit directories, tools *)
(*   disk    the checkout: variant target, lab config and its materialized *)
(*           copy (as versions), ownership marker, local Terraform state   *)
(*   inv     the runtime inventory, a document of InventoryFile            *)
(*   cloud   machines, optional units, state backend, transfer bucket      *)
(*   lab     AD objects, drift [dc, covered] (memberships and passwords    *)
(*           that differ, and whether reconciliation looks at them), what  *)
(*           an engagement left, and how the attack box is set up          *)
(*   cmd     the command that runs, or how the last one ended              *)
(* A machine is [role, gen, on, online, built, done]: a rebuilt machine    *)
(* has the next gen, hence a new id and address; built is the version of   *)
(* the lab config its password came from; done are the playbooks that      *)
(* completed on it; online is its SSM agent.                               *)
(***************************************************************************)
EXTENDS InventoryFile, Sequences, FiniteSetsExt

CONSTANTS
    Playbooks,      \* lab.PlaybooksForLab, in order
    AdPlaybooks,    \* adStatePlaybooks, in order
    Canonical,      \* the lab's canonical inventory
    Ids, Ips,       \* Ids[role][gen], Ips[role][gen]
    Objects,        \* the AD objects that can exist, see RangeReset
    Artifacts,      \* what an engagement can leave on the attack box
    MaxGen, MaxFaults, MaxEvents, MaxCommands,
    MaxMoves        \* how many objects an engagement makes and deletes

VARIABLES range, disk, inv, cloud, lab, cmd, spent
stateVars == <<range, disk, inv, cloud, lab, cmd, spent>>

AWS == range.provider = "aws"
Optional == {"bastion", "controller", "kali"}
LabHosts == DOMAIN Canonical.hosts
DCs == Canonical.groups["dc"]

ASSUME BoundsAssumption == {MaxGen, MaxFaults, MaxEvents, MaxCommands, MaxMoves} \subseteq Nat

(* No host is called like an optional unit, and each has a name. *)
ASSUME LabAssumption ==
    /\ LabHosts \subseteq Hosts /\ DOMAIN Canonical.groups \subseteq Groups
    /\ LabHosts \cap (Optional \cup {None}) = {} /\ DCs \subseteq LabHosts
(* Every list of playbooks.yml has playbooks, some of them twice. *)
ASSUME PlaybooksAssumption == Playbooks \in Seq(STRING) /\ Playbooks # <<>>

(* An id is one host's, and no id is an address. *)
ASSUME IdsAssumption ==
    \A g, h \in LabHosts : \A i, j \in 0..MaxGen :
        (Ids[g][i] = Ids[h][j] => g = h) /\ Ids[g][i] # Ips[h][j]

(* The lab configs that can be edited in, and the passwords they give; the *)
(* inventory's quoting cannot hold the last one (quoteInventoryValue).     *)
Versions == 1..3
Password == <<"pw1", "pw2", "unquotable">>
Quotable == {"pw1", "pw2"}
(* What a purge can go by: a version, or the base lab of a variant. *)
Configs == {0} \cup Versions

---------------------------------------------------------------------------
(* Requests: the flags of every command in one record.  limit is a host    *)
(* pattern with the hosts it selects; exact patterns are plain host names; *)
(* checkOnly is -E ad_reconcile_check_only=true.                           *)
NoLimit == [set |-> FALSE, exact |-> FALSE, hosts |-> {}]
Defaults ==
    [do |-> "up", action |-> "apply", from |-> None, skipDoctor |-> FALSE, infraOnly |-> FALSE,
     plays |-> <<>>, fromPlaybook |-> None, limit |-> NoLimit,
     module |-> None, individual |-> FALSE, exclude |-> {}, with |-> {},
     approve |-> FALSE, bootstrap |-> FALSE,
     skipPurge |-> FALSE, skipCreator |-> FALSE, apply |-> TRUE, checkOnly |-> FALSE,
     phases |-> <<"kali", "windows">>]

(* slips is "something failed and only the output, or nothing, says so",   *)
(* errs "the command will fail"; list is the config a purge went by; blind *)
(* are the artefacts that silenced listings of a reset hid.                *)
Idle == [do |-> "none", req |-> Defaults, todo |-> <<>>, at |-> "start", seen |-> {}, left |-> <<>>,
         over |-> {}, slips |-> FALSE, errs |-> FALSE, passed |-> {}, tally |-> [found |-> 0, removed |-> 0],
         list |-> 0, blind |-> {}, hint |-> {}, told |-> None]

Running == cmd.do # "none"
At(step, point) == Running /\ Head(cmd.todo) = step /\ cmd.at = point
Go(point) == cmd' = [cmd EXCEPT !.at = point]

(* Faults: what the outside of the program may do wrong, within a budget. *)
Fault == spent.faults < MaxFaults /\ spent' = [spent EXCEPT !.faults = @ + 1]

---------------------------------------------------------------------------
(* The providers' view of the machines. *)
Name(m) == [style |-> "dreadgoad", role |-> m.role]
Instance(m) == [name |-> Name(m), id |-> Ids[m.role][m.gen], ip |-> Ips[m.role][m.gen]]
(* DiscoverInstances lists what runs, DiscoverAllInstances everything. *)
DiscoverInstances == {Instance(m) : m \in {m \in cloud.machines : m.on}}

Generations(role) == {m.gen : m \in {m \in cloud.machines : m.role = role}}
(* A machine is built from the lab config Terraform reads. *)
Built(role, gen) ==
    [role |-> role, gen |-> gen, on |-> TRUE, online |-> TRUE, built |-> disk.mat, done |-> {}]

(* What a machine can be. *)
Machines ==
    [role : LabHosts, gen : 0..MaxGen, on : BOOLEAN, online : BOOLEAN, built : {0} \cup Versions, done : SUBSET STRING]

Fresh(role) == Built(role, cloud.last[role] + 1)
Buildable(role) == cloud.last[role] < MaxGen

(* materializedHostPasswords: every host's password, if there is a config. *)
materializedHostPasswords ==
    [h \in IF disk.mat = 0 THEN {} ELSE LabHosts |-> Password[disk.mat]]

(* The hosts a run selects: a limit's, or every host of the inventory. *)
SelectedHosts(req) == IF req.limit.set THEN req.limit.hosts ELSE DOMAIN inv.hosts
=============================================================================
