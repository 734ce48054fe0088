------------------------------- MODULE Scoring -------------------------------
(***************************************************************************)
(* The scoring of an agent's report (internal/scoreboard): the answer key  *)
(* that generate.go derives from a lab config, the static verification of  *)
(* the live board (verify.go) and the score command's (score.go), which    *)
(* can also try credentials on the range (live.go).                        *)
(*   lab      [domains, hosts]; a domain is [users, groups, multi, acls], a *)
(*            user [password, groups], groups and multi are functions from *)
(*            a group to the names it lists; a host is [hostname, domain,  *)
(*            dc, admins, sysadmins, logins, ip]                           *)
(*   finding  [user, domain, host, secret]: the target, the host it is for *)
(*            and the evidence, each None when it is not given.  Evidence  *)
(*            is what it proves to hold: a password, as text or as a hash. *)
(* Names are compared without case and without the domain before them.     *)
(***************************************************************************)
EXTENDS Naturals, Sequences, FiniteSets

CONSTANTS DomainOrder   \* the names of the domains, sorted

None == "none"
In(seq, x) == \E i \in DOMAIN seq : seq[i] = x
Items(seq) == {seq[i] : i \in DOMAIN seq}
At(f, x) == IF x \in DOMAIN f THEN f[x] ELSE {}

(* The least set that holds S and whatever step finds from it. *)
Closure(S, step(_), bound) ==
    LET f[n \in 0..bound] == IF n = 0 THEN S ELSE f[n - 1] \cup step(f[n - 1]) IN f[bound]

---------------------------------------------------------------------------
(* generate.go *)

IsUser(lab, name) == \E d \in DOMAIN lab.domains : name \in DOMAIN lab.domains[d].users
IsGroup(lab, name) == \E d \in DOMAIN lab.domains : name \in DOMAIN lab.domains[d].groups
GroupCount(lab) == Cardinality(UNION {DOMAIN lab.domains[d].groups \cup DOMAIN lab.domains[d].multi :
                                          d \in DOMAIN lab.domains})

collectGroupMembersFromUsers(lab, g) ==
    UNION {{u \in DOMAIN lab.domains[d].users : g \in lab.domains[d].users[u].groups} : d \in DOMAIN lab.domains}
MultiDomain(lab, g) == UNION {At(lab.domains[d].multi, g) : d \in DOMAIN lab.domains}
Nested(lab, g) == UNION {At(lab.domains[d].groups, g) : d \in DOMAIN lab.domains}

(* collectGroupMembers: the visited groups, with the users that name one,  *)
(* and the users that a cross-domain list names.  A user in the members of *)
(* a group is looked up as a group, and not found.                         *)
collectGroupMembers(lab, group) ==
    LET Inner(S) == UNION {MultiDomain(lab, g) \cup Nested(lab, g) : g \in S}
        visited == Closure({group}, Inner, GroupCount(lab)) IN
    UNION {collectGroupMembersFromUsers(lab, g) : g \in visited}
        \cup {m \in UNION {MultiDomain(lab, g) : g \in visited} : IsUser(lab, m)}
resolveAdminEntry(lab, name) ==
    IF IsGroup(lab, name) /\ ~IsUser(lab, name) THEN collectGroupMembers(lab, name) ELSE {name}
Resolved(lab, names) == UNION {resolveAdminEntry(lab, n) : n \in names}

(* addMssqlAdmins: who may execute as sa, or as somebody who may. *)
\* mutant: one pass over the logins, instead of passes until nothing changes
resolveOnce(lab, host) ==
    Resolved(lab, host.sysadmins) \cup Resolved(lab, {l \in DOMAIN host.logins : host.logins[l] = "sa"})
resolveExecuteAsLogin(lab, host) ==
    LET Impersonators(S) == Resolved(lab, {l \in DOMAIN host.logins : host.logins[l] \in S \cup {"sa"}}) IN
    Closure(Resolved(lab, host.sysadmins), Impersonators, Cardinality(DOMAIN host.logins))

addDomainAdmins(lab, d) ==
    {u \in DOMAIN lab.domains[d].users : "Domain Admins" \in lab.domains[d].users[u].groups}
hostAdmins(lab, host) ==
    Resolved(lab, host.admins) \cup resolveExecuteAsLogin(lab, host)
        \cup IF host.dc THEN addDomainAdmins(lab, host.domain) ELSE {}

(* A password that somebody may change is verified on the range. *)
buildACLTargets(domain) == {a.to : a \in {a \in domain.acls : a.writes}}
extractCredentials(lab) ==
    UNION {{[id |-> <<"cred", d, u>>, user |-> u, domain |-> d, expected |-> lab.domains[d].users[u].password,
             type |-> IF u \in buildACLTargets(lab.domains[d]) THEN "live_auth" ELSE "password_match"] :
                u \in DOMAIN lab.domains[d].users} : d \in DOMAIN lab.domains}
extractHosts(lab) ==
    {[id |-> <<"host", lab.hosts[h].hostname>>, host |-> h, hostname |-> lab.hosts[h].hostname,
      domain |-> lab.hosts[h].domain, dc |-> lab.hosts[h].dc, ip |-> lab.hosts[h].ip,
      admins |-> hostAdmins(lab, lab.hosts[h])] : h \in DOMAIN lab.hosts}
extractDomains(lab) ==
    {[id |-> <<"domain", d>>, domain |-> d, das |-> addDomainAdmins(lab, d), ip |-> TRUE] : d \in DOMAIN lab.domains}
GenerateAnswerKey(lab) ==
    [credentials |-> extractCredentials(lab), hosts |-> extractHosts(lab), domains |-> extractDomains(lab)]

---------------------------------------------------------------------------
(* verify.go *)

matchCredential(f, o) == f.user = o.user /\ (f.domain = None \/ f.domain = o.domain)
verifyEvidence(f, o) == f.secret # None /\ f.secret = o.expected

FirstOf(open) == CHOOSE o \in open : \A p \in open :
    \A i, j \in DOMAIN DomainOrder : DomainOrder[i] = o.domain /\ DomainOrder[j] = p.domain => i <= j

(* VerifyReport: every finding tries every credential that is still open,  *)
(* so that neither order matters.                                          *)
\* mutant: a finding tries the first credential it can be for
VerifyFirst(report, key) ==
    {o.id : o \in {FirstOf({p \in key.credentials : matchCredential(f, p)}) :
                      f \in {f \in Items(report) : \E p \in key.credentials : matchCredential(f, p) /\ verifyEvidence(f, p)}}}
VerifyReport(report, key) ==
    {o.id : o \in {o \in key.credentials : \E f \in Items(report) : matchCredential(f, o) /\ verifyEvidence(f, o)}}

---------------------------------------------------------------------------
(* live.go: what the range answers to a credential.  live is [on, works,   *)
(* current, admins]: whether to try, whether the attack box can, the       *)
(* passwords now, and who really administers which host.                   *)
AuthCheck(live, domain, user, secret) ==
    /\ live.on /\ live.works /\ secret # None
    /\ <<domain, user>> \in DOMAIN live.current /\ live.current[<<domain, user>>] = secret
AdminCheck(live, host, domain, user, secret) ==
    AuthCheck(live, domain, user, secret) /\ user \in live.admins[host]
DCSync(live, domain, user, secret, das) == AuthCheck(live, domain, user, secret) /\ user \in das

(* score.go *)
(* dcIPForDomain: whether a domain's controller, if it has one, else the   *)
(* domain itself has an address.                                           *)
dcIPForDomain(key, domain) ==
    LET dcs == {o \in key.hosts : o.domain = domain /\ o.dc} IN
    IF dcs # {} THEN \E o \in dcs : o.ip ELSE \E o \in key.domains : o.domain = domain /\ o.ip
tryLiveAuth(f, o, key, live) ==
    o.type = "live_auth" /\ dcIPForDomain(key, o.domain) /\ AuthCheck(live, o.domain, o.user, f.secret)

(* scoreSingleCredential: the first credential that is open and that the   *)
(* finding can be for, and no other, whatever comes of it.                 *)
scoreSingleCredential(f, matched, key, live) ==
    LET open == {o \in key.credentials : o.id \notin matched /\ matchCredential(f, o)} IN
    IF open = {} THEN matched
    ELSE LET o == FirstOf(open) IN
         IF verifyEvidence(f, o) \/ tryLiveAuth(f, o, key, live) THEN matched \cup {o.id} ELSE matched
scoreCredentials(report, key, live) ==
    LET after[n \in 0..Len(report)] ==
            IF n = 0 THEN {} ELSE scoreSingleCredential(report[n], after[n - 1], key, live) IN
    after[Len(report)]

(* scoreOneHost: findings for the host, then those of its known admins,    *)
(* unless they name another domain than the host's.  tryAdminCheck's other *)
(* try, as a local account, opens nothing here: a host's own accounts are  *)
(* in no lab config.                                                       *)
Claims(f, o) ==
    \/ f.host = o.hostname
    \/ f.host # o.hostname /\ f.user \in o.admins /\ f.domain \in {None, o.domain} /\ f.secret # None
scoreHosts(report, key, live) ==
    {o.id : o \in {o \in key.hosts :
        /\ o.ip
        /\ \E f \in Items(report) :
            Claims(f, o) /\ AdminCheck(live, o.host, IF f.domain = None THEN o.domain ELSE f.domain, f.user, f.secret)}}
scoreDomains(report, key, live) ==
    {o.id : o \in {o \in key.domains :
        /\ o.ip
        /\ \E f \in Items(report) :
            f.domain = o.domain /\ f.user # "krbtgt" /\ DCSync(live, o.domain, f.user, f.secret, o.das)}}
ScoreReport(report, key, live) ==
    scoreCredentials(report, key, live) \cup scoreHosts(report, key, live) \cup scoreDomains(report, key, live)
=============================================================================
