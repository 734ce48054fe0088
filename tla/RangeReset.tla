----------------------------- MODULE RangeReset -----------------------------
(***************************************************************************)
(* What brings a used range back to its baseline: lab purge-unmanaged and  *)
(* the first stage of lab reset (cmd/lab_reset.go), which delete what the  *)
(* lab config does not list from every domain, and score reset             *)
(* (cmd/score_reset.go), which removes what an engagement left on the      *)
(* attack box and on the Windows hosts.                                    *)
(*   An AD object is [dc, class, name, lists, defined, exempt, trust,      *)
(* creator, rid]: lists are the configs whose allowlist names it           *)
(* (labconfig.Load, all domains together), defined those that define it    *)
(* for the domain of its controller, trust that it is a trust or           *)
(* controller account, creator that an administrator made it.              *)
(*   An artefact is [on, kind]: on the attack box ("kali") or on a host.   *)
(***************************************************************************)
EXTENDS Readiness

(* Exempt are users by their name, trust accounts and controllers are users *)
(* or computers, and no config makes a computer account.                   *)
ASSUME ObjectsAssumption ==
    \A o \in Objects :
        /\ o.dc \in LabHosts /\ o.rid \in Nat /\ o.class \in {"user", "computer", "group"}
        /\ (o.exempt => o.class = "user") /\ (o.trust => o.class # "group")
        /\ o.lists \subseteq Configs /\ o.defined \subseteq o.lists /\ (o.class = "computer" => o.defined = {})
ASSUME ArtifactsAssumption == IsFiniteSet(Artifacts)
(* adStatePlaybooks. *)
ASSUME AdPlaybooksAssumption == AdPlaybooks \in Seq(STRING) /\ In(AdPlaybooks, "ad-data.yml")

---------------------------------------------------------------------------
(* The purge script, one class at a time.  Each keeps what the allowlist   *)
(* names; only users and computers have a creator.  sure says that the     *)
(* script's own lookups worked: without a list of the controllers it goes  *)
(* on with an empty one, and a creator it cannot look up is no             *)
(* administrator.  Groups are built in by their number only.               *)
Unlisted(d, class) == {o \in lab.ad : o.dc = d /\ o.class = class /\ cmd.list \notin o.lists}
AdminMade(o, sure) == sure /\ ~cmd.req.skipCreator /\ o.creator
flaggedUsers(d, sure) == {o \in Unlisted(d, "user") : ~o.exempt /\ ~o.trust /\ ~AdminMade(o, sure)}
flaggedComputers(d, sure) == {o \in Unlisted(d, "computer") : ~(sure /\ o.trust) /\ ~AdminMade(o, sure)}
flaggedGroups(d) == {o \in Unlisted(d, "group") : o.rid >= 1000}
(* score reset --purge-ad asks for computers only. *)
\* mutant: so does every purge
flaggedOnlyComputers(d, sure) == flaggedComputers(d, sure)
flagged(d, sure) ==
    flaggedComputers(d, sure) \cup IF cmd.do = "score" THEN {} ELSE flaggedUsers(d, sure) \cup flaggedGroups(d)

(* A purge that cannot start: lab reset warns and goes on, score reset     *)
(* counts an error and goes on.                                            *)
CannotPurge ==
    CASE cmd.do = "reset" -> cmd' = Done([cmd EXCEPT !.slips = TRUE])
      [] cmd.do = "score" -> cmd' = Done([cmd EXCEPT !.errs = TRUE])
      [] OTHER -> Fails

(* The config whose allowlist a purge takes (Config.LabConfigPath): the    *)
(* base lab's if the variant's target has no data, and a target that was   *)
(* not completed may or may not have them.                                 *)
\* mutant: a variant is purged by the lab it was made from
BaseConfigs == IF range.variant THEN {0} ELSE {disk.config}
LabConfigs ==
    CASE ~range.variant \/ disk.target = "complete" -> {disk.config}
      [] range.variant /\ disk.target = "partial" -> {0, disk.config}
      [] OTHER -> {0}

(* liveDCTargets and collectDCTargets: on AWS only, and one running        *)
(* machine for every controller of the inventory, found by its role, which *)
(* no other controller has; then the config is read, once for the purge.   *)
wantedDCs == Members(inv, "dc")
OneEach(doc) ==
    /\ \A h \in wantedDCs : h \in DOMAIN doc.hosts /\ Cardinality(OfRole(DiscoverInstances, Lower[h])) = 1
    /\ \A g, h \in wantedDCs : Lower[g] = Lower[h] => g = h
liveDCTargets ==
    /\ At("purge", "start")
    /\ inv' = IF AWS THEN ensureAWSInventoryTransport(inv, "region") ELSE inv
    /\ \/ /\ IF AWS /\ wantedDCs # {} /\ OneEach(inv)
             THEN \E list \in LabConfigs :
                    cmd' = [cmd EXCEPT !.at = "dcs", !.list = list,
                              !.seen = {m \in cloud.machines : m.on /\ m.role \in Lowered(wantedDCs)}]
             ELSE CannotPurge
          /\ UNCHANGED spent
       \/ /\ \/ range.variant /\ disk.target = "partial" /\ UNCHANGED spent
             \/ AWS /\ Fault
          /\ CannotPurge
    /\ UNCHANGED <<range, disk, cloud, lab>>

(* runPurgeOnDC, in the order of the names: an error of one controller, of *)
(* one object or of a listing is at most printed, and the rest goes on; of *)
(* a creator that cannot be looked up (Test-CreatorIsAdmin) not even that. *)
runPurgeOnDC ==
    /\ At("purge", "dcs")
    /\ LET left == {m.role : m \in cmd.seen} \ cmd.over IN
       \/ left = {} /\ NextStep /\ UNCHANGED <<lab, spent>>
       \/ \E d \in left :
            LET apply == cmd.req.apply /\ \E m \in Answering(cmd.seen) : m.role = d
                gone(sure) == IF apply THEN flagged(d, sure) ELSE {}
                adminMade == {o \in gone(FALSE) \ gone(TRUE) : ~o.trust} IN
            \/ \E missed \in SUBSET adminMade :
               /\ lab' = [lab EXCEPT !.ad = @ \ (gone(TRUE) \cup missed)]
               /\ cmd' = [cmd EXCEPT !.over = @ \cup {d}, !.slips = @ \/ (cmd.req.apply /\ ~apply)]
               /\ IF missed = {} THEN UNCHANGED spent ELSE Fault
            \/ /\ Fault
               /\ \E part \in SUBSET gone(FALSE) : lab' = [lab EXCEPT !.ad = @ \ part]
               /\ cmd' = [cmd EXCEPT !.over = @ \cup {d}, !.slips = TRUE]
    /\ UNCHANGED <<range, disk, inv, cloud>>

---------------------------------------------------------------------------
On(place) == {a \in lab.left : a.on = place}
Of(place, kinds) == {a \in On(place) : a.kind \in kinds}

(* buildKaliCleanupScript's targets: what each counts and what it cleans.  *)
(* Most clean what they count.                                             *)
KaliTargets ==
    {[counts |-> {k}, cleans |-> {k}] : k \in {"nxc", "cme", "responder", "potfile", "tmp", "ticket"}}
    \cup {[counts |-> {"default-db", "other-db"}, cleans |-> {"default-db"}],
          [counts |-> {"session"}, cleans |-> {"session", "prompt-history"}],
          [counts |-> {"report"}, cleans |-> {"report", "run-report"}],
          [counts |-> {"hosts-entry"}, cleans |-> {"hosts-entry"}]}
(* hostsCleanScript keeps /etc/hosts when no loopback line would be left   *)
(* or sudo asks for a password.                                            *)
CanClean(kind) == kind # "hosts-entry" \/ (lab.loopback /\ lab.sudo)

(* One target: counted, cleaned if it counted any, counted again.  Every   *)
(* error is silenced: what is unseen is neither counted nor cleaned, what  *)
(* is missed is not cleaned and not seen again, what is kept not cleaned.  *)
Cleans(t, unseen, missed, kept) ==
    {a \in Of("kali", t.cleans) : CanClean(a.kind)} \ (unseen \cup missed \cup kept)
\* mutant: what was counted is taken to be removed
cleanedCounted(t, apply, unseen, missed, kept) ==
    LET found == Of("kali", t.counts) \ unseen IN
    [found |-> found, removed |-> IF apply THEN found ELSE {},
     gone |-> IF apply /\ found # {} THEN Cleans(t, unseen, missed, kept) ELSE {}]
cleaned(t, apply, unseen, missed, kept) ==
    LET found == Of("kali", t.counts) \ unseen
        gone == IF apply /\ found # {} THEN Cleans(t, unseen, missed, kept) ELSE {} IN
    [found |-> found, removed |-> IF apply THEN found \cap (gone \cup missed) ELSE {}, gone |-> gone]

(* resetKali: the attack box is found and the script runs.  Saving the     *)
(* agent's report first only ever warns, and is left out.                  *)
resetKali ==
    /\ At("kali", "start")
    /\ \/ "kali" \notin cloud.extras /\ cmd' = Done([cmd EXCEPT !.errs = TRUE]) /\ UNCHANGED spent
       \/ "kali" \in cloud.extras /\ Go("clean") /\ UNCHANGED spent
       \/ Fault /\ cmd' = Done([cmd EXCEPT !.errs = TRUE])
    /\ UNCHANGED <<range, disk, inv, cloud, lab>>
runKaliCleanup ==
    /\ At("kali", "clean")
    /\ \/ \E lost \in SUBSET On("kali"), how \in {"unseen", "missed", "kept"} :
            LET as(way) == IF how = way THEN lost ELSE {}
                results == {cleaned(t, cmd.req.apply, as("unseen"), as("missed"), as("kept")) : t \in KaliTargets} IN
            /\ lab' = [lab EXCEPT !.left = @ \ UNION {r.gone : r \in results}]
            /\ cmd' = Done([cmd EXCEPT !.tally = [found |-> Cardinality(UNION {r.found : r \in results}),
                                                  removed |-> Cardinality(UNION {r.removed : r \in results})],
                                       !.blind = @ \cup as("unseen") \cup as("missed")])
            /\ IF lost = {} THEN UNCHANGED spent ELSE Fault
       \/ /\ Fault /\ cmd' = Done([cmd EXCEPT !.errs = TRUE])
          /\ \E part \in SUBSET {cleaned(t, cmd.req.apply, {}, {}, {}) : t \in KaliTargets} :
                lab' = [lab EXCEPT !.left = @ \ UNION {r.gone : r \in part}]
    /\ UNCHANGED <<range, disk, inv, cloud>>

---------------------------------------------------------------------------
(* runWindowsCleanup: what the script looks for on a host, counts and      *)
(* removes.  Subdirectories of a share go uncounted, local accounts and    *)
(* groups are left alone on a controller.  A listing that fails leaves its *)
(* artefacts uncounted and in place: of accounts and members the script    *)
(* prints the error, of files it prints nothing.                           *)
Accounts == {"local-account", "group-member"}
CountedOn(h) ==
    Of(h, {"iis-upload", "share-file", "temp-tool", "public-file"} \cup IF h \in DCs THEN {} ELSE Accounts)
RemovableOn(h) == CountedOn(h) \cup Of(h, {"share-dir"})

(* resetWindows: requireInfra, then every host that was found, in          *)
(* parallel.  No answer, a failed run and an output that cannot be parsed  *)
(* are errors; what cannot be removed is one only in the output.           *)
runWindowsCleanup ==
    /\ At("windows", "hosts")
    /\ LET left == {m.role : m \in cmd.seen} \ cmd.over IN
       \/ left = {} /\ NextStep /\ UNCHANGED <<lab, spent>>
       \/ \E h \in left :
            IF ~\E m \in Answering(cmd.seen) : m.role = h
            THEN /\ cmd' = [cmd EXCEPT !.over = @ \cup {h}, !.errs = TRUE]
                 /\ UNCHANGED <<lab, spent>>
            ELSE \/ \E unseen \in SUBSET RemovableOn(h) : \E kept \in SUBSET (RemovableOn(h) \ unseen) :
                     LET gone == IF cmd.req.apply THEN RemovableOn(h) \ (unseen \cup kept) ELSE {}
                         silent == {a \in unseen : a.kind \notin Accounts} IN
                     /\ IF unseen \cup kept = {} THEN UNCHANGED spent ELSE Fault
                     /\ lab' = [lab EXCEPT !.left = @ \ gone]
                     /\ cmd' = [cmd EXCEPT !.over = @ \cup {h}, !.blind = @ \cup silent,
                                           !.slips = @ \/ kept # {} \/ unseen # silent,
                                           !.tally = [found |-> @.found + Cardinality(CountedOn(h) \ unseen),
                                                      removed |-> @.removed + Cardinality(gone \cap CountedOn(h))]]
                 \/ /\ Fault
                    /\ \E part \in SUBSET IF cmd.req.apply THEN RemovableOn(h) ELSE {} :
                            lab' = [lab EXCEPT !.left = @ \ part]
                    /\ cmd' = [cmd EXCEPT !.over = @ \cup {h}, !.errs = TRUE]
    /\ UNCHANGED <<range, disk, inv, cloud>>

ResetStep ==
    \/ liveDCTargets \/ runPurgeOnDC \/ resetKali \/ runKaliCleanup \/ runWindowsCleanup
=============================================================================
