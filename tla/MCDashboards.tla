---------------------------- MODULE MCDashboards ----------------------------
(* The two dashboards of the CLI, the one of validate and the scoreboard.   *)
(* An operator runs one of them: which says which, and the other's          *)
(* variables keep their initial values.                                     *)
EXTENDS LiveDashboard

CONSTANTS DomainOrder, MaxFindings, MaxPresses, MaxErrors
VARIABLES world, key, file, polls, kicks, board, scored, program2, budget, which

(* Two domains with a namesake each, nested and foreign groups, and a chain *)
(* of SQL logins.                                                           *)
User(password, groups) == [password |-> password, groups |-> groups]
North ==
    [users |-> [u \in {"sam", "jon", "ned"} |->
        CASE u = "sam" -> User("p-sam-n", {}) [] u = "jon" -> User("p-jon", {"watch"})
          [] OTHER -> User("p-ned", {"Domain Admins"})],
     groups |-> [g \in {"watch", "wall"} |-> IF g = "wall" THEN {"watch"} ELSE {}],
     multi |-> [g \in {"wall"} |-> {"dragons"}], acls |-> {[to |-> "jon", writes |-> TRUE], [to |-> "ned", writes |-> FALSE]}]
Essos ==
    [users |-> [u \in {"sam", "dany", "viserys"} |->
        CASE u = "sam" -> User("p-sam-e", {}) [] u = "dany" -> User("p-dany", {"dragons"})
          [] OTHER -> User("p-viserys", {})],
     groups |-> [g \in {"dragons"} |-> {"wall"}], multi |-> [g \in {} |-> {}], acls |-> {}]
Hosts2 ==
    [h \in {"dc", "sql"} |->
        IF h = "dc" THEN [hostname |-> "winter", domain |-> "north", dc |-> TRUE, ip |-> TRUE,
                          admins |-> {"wall"}, sysadmins |-> {}, logins |-> [l \in {} |-> "sa"]]
        ELSE [hostname |-> "meereen", domain |-> "essos", dc |-> FALSE, ip |-> TRUE, admins |-> {"dragons"},
              sysadmins |-> {}, logins |-> [l \in {"sam", "viserys"} |-> IF l = "sam" THEN "sa" ELSE "sam"]]]
TheLab == [domains |-> [d \in {"north", "essos"} |-> IF d = "north" THEN North ELSE Essos], hosts |-> Hosts2]

(* Who administers what, read off the lab: dragons and wall hold each other. *)
Admins == [h \in {"dc", "sql"} |-> IF h = "dc" THEN {"ned", "jon", "dany"} ELSE {"jon", "dany", "sam", "viserys"}]
Now(changed) ==
    [a \in UNION {{<<d, u>> : u \in DOMAIN TheLab.domains[d].users} : d \in {"north", "essos"}} |->
        IF changed /\ a = <<"north", "jon">> THEN "changed" ELSE TheLab.domains[a[1]].users[a[2]].password]
Finding(user, domain, host, secret) == [user |-> user, domain |-> domain, host |-> host, secret |-> secret]
BoardFindings == {Finding("sam", "none", "none", "p-sam-n"), Finding("jon", "north", "none", "p-jon")}
ScoreFindings ==
    {Finding("sam", "none", "none", "p-sam-n"), Finding("sam", "none", "none", "p-sam-e"),
     Finding("jon", "north", "none", "p-jon"), Finding("jon", "north", "none", "changed"),
     Finding("dany", "essos", "winter", "p-dany"), Finding("viserys", "essos", "none", "p-viserys"),
     Finding("ned", "north", "none", "none")}
MCLabs == {[lab |-> TheLab, current |-> Now(c), admins |-> Admins, findings |-> fs] :
              c \in BOOLEAN, fs \in {BoardFindings, ScoreFindings}}

S == INSTANCE Scoreboard WITH Labs <- MCLabs, program <- program2
boardVars == <<world, key, file, polls, kicks, board, scored, program2, budget>>
allVars == <<liveVars, boardVars, which>>

TheOrder == <<"essos", "north">>
MCInit ==
    /\ LiveInit /\ S!BoardInit /\ which \in {"validate", "scoreboard"}
    /\ which = "scoreboard" => ~polling
    /\ world.findings = IF program2 = "open" THEN BoardFindings ELSE ScoreFindings
    /\ program2 = "open" => world.current = Now(FALSE)
    /\ which = "validate" => program2 = "open"
MCNext ==
    /\ UNCHANGED which
    /\ \/ which = "validate" /\ LiveNext /\ UNCHANGED boardVars
       \/ which = "scoreboard" /\ S!BoardNext /\ UNCHANGED liveVars
MCSpec ==
    /\ MCInit /\ [][MCNext]_allVars
    /\ which = "validate" => FairLoop
    /\ which = "scoreboard" => S!BoardFairness

(* Quitting, a signal or the end of a one-shot run of the validate           *)
(* dashboard: the command ends with a report that is settled.                *)
EndsSettled == ReportSettled /\ QuitReturns /\ (which = "validate" => Finishes)

(* The scoreboard catches up with the report, and no fetch takes back what a *)
(* later one has shown unless r was pressed.                                 *)
BoardCatchesUp == S!BoardMonotone /\ S!BoardSettles

(* Score and scoreboard judge a report alike, and trying credentials on the  *)
(* range never costs a credit; and the types.                                *)
ScoringsAgree == S!BoardTypeOK /\ S!ScoreWithinBoard /\ S!LiveOnlyAdds

(* Whoever administers a host really is known to the answer key.             *)
KnownAdminCounts == S!KnownAdminCounts
=============================================================================
