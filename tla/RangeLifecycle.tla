--------------------------- MODULE RangeLifecycle ---------------------------
(***************************************************************************)
(* An operator runs lifecycle commands on a range, one at a time, follows  *)
(* the hints of up or does not, while machines are replaced, duplicated or *)
(* stopped behind the CLI's back, the lab config is edited, and an         *)
(* engagement moves the lab away from its baseline.                        *)
(*   chain and spent.calm are ghosts: the up that was asked for, as long   *)
(* as nothing but hints of its own was run since, with the units that were *)
(* there before; and that nothing else happened since a command began.     *)
(***************************************************************************)
EXTENDS RangeReset

CONSTANTS
    Ranges,     \* the states a range can be found in, see Init
    Requests    \* Requests[name]: the requests made of the range of that name

Commands == {"up", "infra", "provision", "health-check", "reset", "score", "purge", "power", "destroy-vm"}

(* What can drift from the config in the domain of a controller. *)
Drifts == [dc : LabHosts, covered : BOOLEAN]

(* A range is found with the parts its layout has, and an inventory that   *)
(* env create wrote: lines of hosts of the lab, each with an ansible_host, *)
(* and a [dc] group, if it has one, with every controller that has a line. *)
ASSUME RangesAssumption ==
    \A r \in Ranges :
        /\ r.range.name \in DOMAIN Requests /\ r.range.provider \in {"aws", "azure"}
        /\ r.disk \in [target : {"absent", "partial", "complete"}, config : Versions, mat : {0} \cup Versions,
                       marker : {0} \cup Versions, state : BOOLEAN]
        /\ r.cloud \in [machines : SUBSET Machines, extras : SUBSET (Optional \cap r.range.optional),
                        backend : BOOLEAN, bucket : BOOLEAN, last : [LabHosts -> 0..MaxGen]]
        /\ r.lab \in [ad : SUBSET Objects, drift : SUBSET Drifts, left : SUBSET Artifacts,
                      loopback : BOOLEAN, sudo : BOOLEAN]
        /\ \A h \in DOMAIN r.inv.hosts : h \in LabHosts /\ r.inv.hosts[h].addr # None
        /\ DOMAIN r.inv.groups \subseteq Groups
        /\ Members(r.inv, "dc") = {} \/ DCs \cap DOMAIN r.inv.hosts \subseteq Members(r.inv, "dc")

(* What the flags of a command can say; score reset runs its phases in one *)
(* order, and lab reset always deletes.                                    *)
PhaseLists ==
    {<<"kali">>, <<"windows">>, <<"purge">>, <<"kali", "windows">>, <<"kali", "purge">>,
     <<"windows", "purge">>, <<"kali", "windows", "purge">>}
ASSUME RequestsAssumption ==
    \A name \in DOMAIN Requests : \A r \in Requests[name] :
        /\ r \in [do : Commands, action : STRING, from : {None, "doctor", "infra", "provision", "health-check"},
                   skipDoctor : BOOLEAN, infraOnly : BOOLEAN, plays : Seq(STRING), fromPlaybook : STRING,
                   limit : [set : BOOLEAN, exact : BOOLEAN, hosts : SUBSET Hosts],
                   module : STRING, individual : BOOLEAN, exclude : SUBSET STRING, with : SUBSET Optional,
                   approve : BOOLEAN, bootstrap : BOOLEAN, skipPurge : BOOLEAN, skipCreator : BOOLEAN,
                   apply : BOOLEAN, checkOnly : BOOLEAN, phases : PhaseLists]
        /\ r.limit.exact => r.limit.set
        /\ r.do = "reset" => r.apply /\ r.fromPlaybook = None
        /\ r.checkOnly => r.do \in {"provision", "reset"}

VARIABLE chain
vars == <<range, disk, inv, cloud, lab, cmd, spent, chain>>

Units == {m.role : m \in cloud.machines} \cup cloud.extras

Init ==
    /\ \E r \in Ranges :
        range = r.range /\ disk = r.disk /\ inv = r.inv /\ cloud = r.cloud /\ lab = r.lab
    /\ cmd = Idle
    /\ spent = [faults |-> 0, events |-> 0, commands |-> 0, calm |-> TRUE]
    /\ chain = {}

---------------------------------------------------------------------------
Run(req) ==
    /\ ~Running /\ Runnable(req) /\ spent.commands < MaxCommands
    /\ Start(req)
    /\ spent' = [spent EXCEPT !.commands = @ + 1, !.calm = TRUE]
    /\ UNCHANGED <<range, disk, inv, cloud, lab>>
RunCommand == \E req \in Requests[range.name] :
    /\ Run(req)
    /\ chain' = IF req.do = "up" THEN {[req |-> req, had |-> Units]} ELSE {}
FollowHint == \E req \in cmd.hint : Run(req) /\ UNCHANGED chain

Works ==
    /\ \/ runUpDoctor \/ InfraStep \/ ProvisionStep \/ HealthStep \/ ResetStep
       \/ runLabAction \/ destroyVM
    /\ UNCHANGED chain
Killed == Dies /\ chain' = {}

---------------------------------------------------------------------------
(* Behind the CLI's back.  None of it happens while a chain is judged. *)
Outside == /\ spent.events < MaxEvents
           /\ spent' = [spent EXCEPT !.events = @ + 1, !.calm = FALSE]
           /\ chain' = {}
           /\ UNCHANGED <<range, inv, cmd>>
MachineReplaced == \E m \in Managed :
    /\ Outside /\ Buildable(m.role)
    /\ cloud' = [cloud EXCEPT !.machines = (@ \ {m}) \cup {Fresh(m.role)}, !.last[m.role] = @ + 1]
    /\ lab' = [lab EXCEPT !.ad = {o \in @ : o.dc # m.role}]
    /\ UNCHANGED disk
(* A machine of an earlier deployment, which no state file holds, is there *)
(* under the same name.                                                    *)
MachineDuplicated == \E m \in Managed :
    /\ Outside
    /\ cloud' = [cloud EXCEPT !.machines = @ \cup {Built(m.role, 0)}]
    /\ UNCHANGED <<disk, lab>>
MachineStopped == \E m \in cloud.machines :
    /\ Outside /\ m.on
    /\ cloud' = [cloud EXCEPT !.machines = (@ \ {m}) \cup {[m EXCEPT !.on = FALSE]}]
    /\ UNCHANGED <<disk, lab>>
AgentDropped == \E m \in cloud.machines :
    /\ Outside /\ AWS /\ m.online
    /\ cloud' = [cloud EXCEPT !.machines = (@ \ {m}) \cup {[m EXCEPT !.online = FALSE]}]
    /\ UNCHANGED <<disk, lab>>
ConfigEdited == \E v \in Versions \ {disk.config} :
    /\ Outside
    /\ disk' = [disk EXCEPT !.config = v]
    /\ UNCHANGED <<cloud, lab>>
(* The agent at work: objects come and go, group memberships and passwords *)
(* drift, and things are left behind.  What it makes gets a number of its  *)
(* own, from 1000 on.                                                      *)
Engaged == \E dc \in {o.dc : o \in lab.ad} :
    /\ Outside
    /\ \E made \in SUBSET {o \in Objects \ lab.ad : o.dc = dc /\ disk.mat \notin o.lists /\ ~o.exempt /\ o.rid >= 1000},
          deleted \in SUBSET {o \in lab.ad : o.dc = dc /\ disk.mat \in o.lists} :
         /\ Cardinality(made \cup deleted) <= MaxMoves
         /\ lab' = [lab EXCEPT !.ad = (@ \cup made) \ deleted, !.drift = @ \cup [dc : {dc}, covered : BOOLEAN],
                                  !.left = Artifacts]
    /\ UNCHANGED <<disk, cloud>>

Next ==
    \/ RunCommand \/ FollowHint \/ Works \/ Killed
    \/ MachineReplaced \/ MachineDuplicated \/ MachineStopped \/ AgentDropped \/ ConfigEdited \/ Engaged

Spec == Init /\ [][Next]_vars

---------------------------------------------------------------------------
(* The types of what a command carries from step to step, and of what it   *)
(* leaves.                                                                 *)
TypeOK ==
    /\ range.provider \in {"aws", "azure"} /\ disk.target \in {"absent", "partial", "complete"}
    /\ disk.mat \in {0} \cup Versions /\ disk.marker \in {0} \cup Versions
    /\ \A m \in cloud.machines : m.role \in LabHosts /\ m.gen \in 0..MaxGen
    /\ cloud.extras \subseteq Optional
    /\ DOMAIN inv.hosts \subseteq LabHosts /\ DOMAIN inv.groups \subseteq Groups
    /\ lab.ad \subseteq Objects /\ lab.drift \subseteq Drifts /\ lab.left \subseteq Artifacts
    /\ cmd.told \in {None, "ok", "failed", "died", "Lab is up"}
    /\ Cardinality(cmd.hint) <= 1 /\ Cardinality(chain) <= 1
    /\ cmd.tally.removed <= cmd.tally.found

(* "Lab is up" is true: whatever failed on the way and however often up    *)
(* was resumed from its own hints (upResumeCommand, cmd/up.go), at the      *)
(* address of every host that provisioning was asked for runs the host's   *)
(* own machine, and every playbook that was asked for completed on it.  On *)
(* Azure, where nothing checks whose an address is (syncAzureInventoryIPs), *)
(* that takes exactly one machine that runs under the host's name.         *)
Called(h) == {i \in DiscoverInstances : Lower[i.name.role] = Lower[h]}
Single(h) == \E i \in Called(h) : \A j \in DiscoverInstances : j \in Called(h) \/ j.ip = i.ip => j = i
Asks(req) == {resolvePlaybooks(req)[i] : i \in DOMAIN resolvePlaybooks(req)}
Up(c) ==
    (cmd.told = "Lab is up" /\ In(selectUpSteps(c.req), "provision")) =>
        \A h \in SelectedHosts(c.req) \cap DOMAIN inv.hosts :
            AWS \/ Single(h) => \E m \in Reached(h) : Lower[m.role] = Lower[h] /\ Asks(c.req) \subseteq m.done
UpMeansUp == \A c \in chain : Up(c)

(* Resuming up never builds what was not asked for: the units that exist   *)
(* were there before, or the first command named or did not exclude them   *)
(* (appendUpInfraResumeFlags carries --module, --exclude and --with-kali). *)
(* A --module is built alone, whatever is excluded (runTerragruntModule).  *)
Asked(req) ==
    LET shown == LabHosts \cup req.with \cup IF AWS THEN {} ELSE {"bastion", "controller"} IN
    IF req.module = None THEN shown \ req.exclude ELSE {req.module} \cap shown
OnlyAsked == \A c \in chain : Units \subseteq c.had \cup Asked(c.req)

(* up, resumed as often as it likes, does what was asked, no less and no   *)
(* more; and the types.                                                    *)
UpDoesAsAsked == TypeOK /\ UpMeansUp /\ OnlyAsked

(* When playbooks start on AWS (ensureInventorySynced), the address of     *)
(* every host they were asked for is that of the one machine that ran      *)
(* under the host's name when it was looked up, and of no other.           *)
HandoverSound ==
    Provisioning("play") /\ AWS =>
        \A h \in SelectedHosts(cmd.req) \cap DOMAIN inv.hosts :
            \E i \in cmd.seen :
                /\ i.name.role = Lower[h] /\ inv.hosts[h].addr = expectedAWSHostAddress(inv, h, i)
                /\ \A j \in cmd.seen : j.name.role = Lower[h] => j = i

(* A destroy of the whole range that says ok leaves nothing Terraform      *)
(* built: the optional units, too, that its flags did not name             *)
(* (azureModuleEnv, shouldEnableAWSKali).                                  *)
DestroyedMeansGone ==
    (/\ cmd.told = "ok" /\ cmd.req.do = "infra" /\ cmd.req.action = "destroy"
     /\ cmd.req.module = None /\ cmd.req.exclude = {})
        => Managed = {} /\ cloud.extras = {}

(* A purge takes nothing the deployed lab needs.  It judges by the config  *)
(* it reads now (Config.LabConfigPath), while the domain was built from    *)
(* the copy an infra command materialized; where the two are still one     *)
(* version, and a variant's target is whole, nothing goes that this        *)
(* version lists in any domain, that is exempt by name, a trust account or *)
(* a group with a number under 1000; nor, unless a lookup fails, what an   *)
(* administrator made, groups aside, or a controller nobody listed         *)
(* (purge-unmanaged's help), and if a controller goes the output tells of  *)
(* the failure.                                                            *)
Spared(o, list, sure) ==
    \/ list \in o.lists \/ o.exempt \/ (o.class = "group" /\ o.rid < 1000)
    \/ o.trust /\ (o.class = "user" \/ sure)
    \/ o.creator /\ o.class # "group" /\ ~cmd.req.skipCreator /\ sure
Purging == cmd.do \in {"reset", "score", "purge"} /\ spent.calm
PurgeKeepsLab ==
    [][(/\ Purging /\ spent'.events = spent.events
        /\ disk.config = disk.mat /\ (range.variant => disk.target = "complete"))
            => \A o \in lab.ad \ lab'.ad :
                    ~Spared(o, disk.mat, spent' = spent) /\ (o.trust => cmd'.slips)]_vars

(* A lab reset that says ok, whose stages printed no error or warning and  *)
(* judged by one config, has brought the domain of every controller of the *)
(* inventory back to it: its users and groups are there, nothing is left   *)
(* that a purge removes, and what reconciliation covers is as the config   *)
(* says.  Computer accounts are never made again, other drift stays.       *)
ResetToBaseline ==
    (/\ cmd.told = "ok" /\ spent.calm /\ cmd.req.do = "reset" /\ ~cmd.slips /\ cmd.list = disk.config
     /\ "purge" \in cmd.passed /\ ~cmd.req.limit.set /\ cmd.req.plays = <<>> /\ ~cmd.req.checkOnly)
        => \A d \in Lowered(DCs \cap DOMAIN inv.hosts) :
                /\ {o \in Objects : o.dc = d /\ disk.config \in o.defined} \subseteq lab.ad
                /\ {o \in lab.ad : o.dc = d} \subseteq {o \in Objects : Spared(o, disk.config, TRUE)}
                /\ [dc |-> d, covered |-> TRUE] \notin lab.drift

(* score reset --apply does not say clean over what it could have known:   *)
(* if it printed no error and removed all it found, then of what its       *)
(* phases look for nothing is left where it was but what a listing hid     *)
(* that failed without a word.                                             *)
Known ==
    {a \in lab.left :
        \/ "kali" \in cmd.passed /\ \E t \in KaliTargets : a \in Of("kali", t.counts)
        \/ "windows" \in cmd.passed /\ \E m \in cloud.machines : m.on /\ a \in CountedOn(m.role)}
LeftIsReported ==
    (/\ cmd.told = "ok" /\ spent.calm /\ cmd.req.do = "score" /\ cmd.req.apply /\ ~cmd.slips
     /\ cmd.tally.found = cmd.tally.removed) => Known \subseteq cmd.blind
=============================================================================
