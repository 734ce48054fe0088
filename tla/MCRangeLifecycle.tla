-------------------------- MODULE MCRangeLifecycle --------------------------
(* A lab of one controller and one server on AWS and Azure, fresh, deployed *)
(* or used, and the requests that tell the flags apart.                    *)
EXTENDS RangeLifecycle

MCLower == [h \in Hosts |-> h]
MCPlaybooks == <<"build.yml", "ad-servers.yml", "ad-data.yml">>
MCAdPlaybooks == <<"ad-data.yml">>
MCProves == [c \in {"controller", "replication", "locator"} |-> "ad-servers.yml"]
MCIds == [h \in Hosts |-> [g \in 0..2 |-> IF h = "dc01" THEN <<"i-d0", "i-d1", "i-d2">>[g + 1]
                                          ELSE <<"i-s0", "i-s1", "i-s2">>[g + 1]]]
MCIps == [h \in Hosts |-> [g \in 0..2 |-> IF h = "dc01" THEN <<"10.0", "10.1", "10.2">>[g + 1]
                                          ELSE <<"11.0", "11.1", "11.2">>[g + 1]]]
Line(addr) == [addr |-> addr, first |-> TRUE, conn |-> None, pw |-> "stock"]
MCCanonical ==
    [hosts |-> [h \in Hosts |-> Line("PENDING")],
     groups |-> [g \in Groups |-> IF g = "dc" THEN {"dc01"} ELSE Hosts],
     vars |-> [v \in {"admin_user"} |-> "adm"]]

(* An object is exempt, of a trust, made by an administrator, or any other; *)
(* carol is a user of one version only.                                    *)
Object(class, name, lists, is, rid) ==
    [dc |-> "dc01", class |-> class, name |-> name, lists |-> lists,
     defined |-> IF class = "computer" THEN {} ELSE lists,
     exempt |-> is = "exempt", trust |-> is = "trust", creator |-> is = "creator", rid |-> rid]
MCObjects ==
    {Object("user", "alice", Versions, "any", 1105), Object("user", "carol", {1}, "any", 1106),
     Object("user", "krbtgt", {}, "exempt", 502),
     Object("user", "NORTH$", {}, "trust", 1103), Object("user", "rogue", {}, "any", 1201),
     Object("computer", "srv02", Versions, "any", 1104), Object("computer", "dc99", {}, "trust", 1203),
     Object("computer", "helper", {}, "creator", 1202),
     Object("group", "Guests", {}, "any", 514), Object("group", "DnsAdmins", {}, "any", 1101)}
MCArtifacts ==
    {[on |-> "kali", kind |-> k] : k \in {"other-db", "report", "run-report", "hosts-entry"}}
    \cup {[on |-> "dc01", kind |-> "local-account"], [on |-> "srv02", kind |-> "local-account"], [on |-> "dc01", kind |-> "temp-tool"],
          [on |-> "srv02", kind |-> "share-dir"]}

---------------------------------------------------------------------------
Whole == [ansible |-> "2.20", missing |-> {}]
RangeOf(name, provider, variant, optional, tools) ==
    [name |-> name, provider |-> provider, variant |-> variant, optional |-> optional, tools |-> tools]
Disk(target, mat, state) == [target |-> target, config |-> 1, mat |-> mat, marker |-> mat, state |-> state]
Pending == MCCanonical
Damaged == [Pending EXCEPT !.groups = [g \in {"domain"} |-> {"dc01"}]]
Bereft == [Pending EXCEPT !.hosts = [h \in {"srv02"} |-> Line("PENDING")]]
Cloud(machines, extras, backend) ==
    [machines |-> machines, extras |-> extras, backend |-> backend, bucket |-> FALSE,
     last |-> [h \in Hosts |-> IF \E m \in machines : m.role = h THEN 1 ELSE 0]]
Machine(h, done) == [role |-> h, gen |-> 1, on |-> TRUE, online |-> TRUE, built |-> 1, done |-> done]
Deployed1(done) == {Machine(h, done) : h \in Hosts}
Pristine == [ad |-> {}, drift |-> {}, left |-> {}, loopback |-> TRUE, sudo |-> TRUE]
Base == {o \in MCObjects : o.name # "rogue"}
Used(loopback, sudo) ==
    [ad |-> {o \in MCObjects : o.name # "alice"}, drift |-> [dc : {"dc01"}, covered : BOOLEAN],
     left |-> {a \in MCArtifacts : loopback /\ sudo => a.kind # "other-db"},
     loopback |-> loopback, sudo |-> sudo]
All == {MCPlaybooks[i] : i \in DOMAIN MCPlaybooks}

MCRanges ==
    {[range |-> RangeOf("aws", "aws", f[1], {"kali"}, Whole), disk |-> Disk(f[2], 0, FALSE),
      inv |-> Pending, cloud |-> Cloud({}, {}, f[3]), lab |-> Pristine] :
        f \in {<<FALSE, "absent", FALSE>>, <<FALSE, "absent", TRUE>>, <<TRUE, "absent", TRUE>>,
               <<TRUE, "partial", TRUE>>, <<TRUE, "complete", FALSE>>}}
    \cup
    {[range |-> RangeOf("azure", "azure", FALSE, Optional, tools), disk |-> Disk("absent", 0, FALSE),
      inv |-> Pending, cloud |-> Cloud({}, {}, TRUE), lab |-> Pristine] :
        tools \in {Whole, [ansible |-> "2.19", missing |-> {"terragrunt"}], [ansible |-> "2.20", missing |-> {"pypsrp"}]}}
    \cup
    {[range |-> RangeOf("used", "aws", FALSE, {"kali"}, Whole), disk |-> Disk("absent", 1, FALSE),
      inv |-> u[1], cloud |-> Cloud(Deployed1(All), u[2], TRUE), lab |-> Used(u[3], u[4])] :
        u \in {<<Pending, {"kali"}, TRUE, TRUE>>, <<Damaged, {"kali"}, FALSE, TRUE>>, <<Bereft, {}, TRUE, FALSE>>}}
    \cup
    {[range |-> RangeOf("variant", "aws", TRUE, {}, Whole), disk |-> Disk(t, 1, FALSE),
      inv |-> Pending, cloud |-> Cloud(Deployed1(All), {}, TRUE), lab |-> [Used(TRUE, TRUE) EXCEPT !.left = {}]] :
        t \in {"absent", "partial", "complete"}}
    \cup
    {[range |-> RangeOf("azure-used", "azure", FALSE, Optional, Whole), disk |-> Disk("absent", 1, TRUE),
      inv |-> Pending, cloud |-> Cloud(Deployed1({"build.yml"}), {"bastion", "controller", "kali"}, TRUE),
      lab |-> [Pristine EXCEPT !.ad = Base]]}

---------------------------------------------------------------------------
On1(h) == [set |-> TRUE, exact |-> TRUE, hosts |-> {h}]
Pattern(S) == [set |-> TRUE, exact |-> FALSE, hosts |-> S]
Ask(do) == [Defaults EXCEPT !.do = do]
Apply == [Ask("infra") EXCEPT !.approve = TRUE]
Destroy == [Ask("infra") EXCEPT !.action = "destroy"]
MCRequests ==
    [name \in {"aws", "azure", "used", "variant", "azure-used"} |->
        CASE name = "aws" ->
            {Ask("up"),
             [Ask("up") EXCEPT !.bootstrap = TRUE, !.skipDoctor = TRUE, !.with = {"kali"},
                               !.plays = <<"build.yml", "ad-servers.yml">>],
             [Ask("up") EXCEPT !.exclude = {"srv02"}, !.limit = On1("dc01")],
             [Ask("up") EXCEPT !.module = "dc01", !.infraOnly = TRUE],
             [Apply EXCEPT !.module = "goad", !.individual = TRUE],
             [Ask("provision") EXCEPT !.limit = On1("srv02")],
             [Destroy EXCEPT !.approve = TRUE]}
          [] name = "azure" ->
            {Ask("up"), [Ask("up") EXCEPT !.fromPlaybook = "ad-servers.yml", !.from = "infra"], Destroy}
          [] name = "used" ->
            {Ask("reset"), [Ask("reset") EXCEPT !.skipPurge = TRUE, !.limit = Pattern({"dc01"})],
             [Ask("purge") EXCEPT !.skipCreator = TRUE], Ask("score"), [Ask("score") EXCEPT !.apply = FALSE, !.phases = <<"windows", "purge">>], [Ask("score") EXCEPT !.phases = <<"kali", "purge">>],
             [Ask("provision") EXCEPT !.fromPlaybook = "nope.yml"], Ask("health-check"), [Ask("provision") EXCEPT !.limit = On1("dc01")], Ask("provision"),
             [Ask("power") EXCEPT !.action = "stop"]}
          [] name = "variant" -> {Ask("reset"), Ask("purge")}
          [] OTHER ->
            {[Ask("up") EXCEPT !.from = "provision", !.plays = <<"ad-data.yml", "ad-servers.yml">>], Ask("reset"), Apply, Ask("infra"), Ask("health-check"), [Destroy EXCEPT !.approve = TRUE],
             [Ask("destroy-vm") EXCEPT !.module = "srv02", !.approve = TRUE],
             [Ask("power") EXCEPT !.action = "start"]}]
=============================================================================
