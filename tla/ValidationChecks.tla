-------------------------- MODULE ValidationChecks --------------------------
(* What `dreadgoad validate` concludes from what a probe answered: one table  *)
(* per check of internal/validate/checks.go.                                  *)
(*                                                                            *)
(* A check makes probes (PowerShell on a host).  A probe has a form, the      *)
(* layer that reads its output, and an answer: a fact, which is a name for    *)
(* what the script found, or one of                                           *)
(*    "error"    the transport failed, or no readable payload came            *)
(*    "refused"  the script itself reports an error in its payload            *)
(*    "blank"    the call succeeded with empty output                         *)
(*    "noise"    output without anything the check looks for                  *)
(* `out` maps the answer to the results that are added, in order; `then` to   *)
(* the probe made next, if any.                                               *)
EXTENDS TLC, Sequences

Grade(pass, fail, info, warn, none) ==
    [a \in pass \cup fail \cup info \cup warn \cup none |->
        IF a \in pass THEN <<"PASS">> ELSE IF a \in fail THEN <<"FAIL">>
        ELSE IF a \in info THEN <<"INFO">> ELSE IF a \in warn THEN <<"WARN">>
        ELSE <<>>]

Probe(form, out) ==
    [form |-> form, out |-> out, then |-> <<>>, guarded |-> TRUE, negative |-> {}]

(* The forms.  A Json probe's envelope, an Sql probe's sentinel and a Must    *)
(* probe's repetition are modelled where the probe is run.  A Quiet probe     *)
(* discards the transport's error and sees empty output instead.              *)
Json(pass, fail, info, warn) ==
    Probe("json", Grade(pass, fail, info, warn \cup {"error", "refused"}, {}))
Text(pass, fail, info, warn, none) ==
    Probe("text", Grade(pass, fail, info, warn \cup {"error"}, none))
Quiet(pass, fail, info, warn, none) ==
    LET out == Grade(pass, fail, info, warn, none)
    IN  Probe("text", ("error" :> out["blank"]) @@ out)
Sql(pass, fail, info) ==
    Probe("sql", Grade(pass, fail, info, {"error"}, {}))
Must(pass, fail, warn) ==
    [Probe("must", Grade(pass, fail, {}, warn \cup {"error"}, {}))
        EXCEPT !.negative = fail]

Then(probe, next) == [probe EXCEPT !.then = next]
(* No hasHost test: a host that was not discovered answers "error".           *)
Unguarded(probe) == [probe EXCEPT !.guarded = FALSE]

(* The results of an answer, and the probe that follows it.                   *)
Results(probe, a) == probe.out[a]
Follows(probe, a) == a \in DOMAIN probe.then

(* A check: whether it reports SKIP when nothing is configured for it, the    *)
(* probes made per subject, and a closing result unless some probe passed.    *)
Check(skips, entries, probes) ==
    [skips |-> skips, entries |-> entries, probes |-> probes,
     closing |-> <<>>, passed |-> {}]
Closing(check, passed, status) ==
    [check EXCEPT !.closing = <<status>>, !.passed = passed]

------------------------------------------------------------------------------
(* Credentials, Kerberos, SMB, delegation                                     *)

checkCredentialDiscovery ==
    Check(TRUE, <<"description">>,
      [description |-> Unguarded(Text({"password"}, {"blank", "noise"}, {}, {}, {}))])

checkASREPRoasting ==
    [asrep |-> Unguarded(Text({"users", "noise"}, {"blank"}, {}, {}, {}))]

checkKerberoasting ==
    [spns |-> Unguarded(Text({"spns", "noise"}, {"blank"}, {}, {}, {}))]

checkKerberosAttacks ==
    Check(TRUE, <<"asrep", "spns">>, checkASREPRoasting @@ checkKerberoasting)

checkNetworkMisconfigs ==
    Check(TRUE, <<"signing">>,
      [signing |-> Text({"two_false"}, {"enforced", "blank", "noise"}, {}, {"one_false"}, {})])

checkAnonymousRegistry == Json({"0"}, {}, {"absent", "more"}, {})

checkLmCompatibility == Json({"low"}, {"high"}, {}, {"absent"})

checkAnonymousSMB ==
    Check(FALSE, <<"anonymous", "anonymous_sam", "guest", "lm">>,
      [anonymous |-> checkAnonymousRegistry, anonymous_sam |-> checkAnonymousRegistry,
       guest |-> Text({"enabled"}, {"disabled", "blank", "noise"}, {}, {}, {}),
       lm |-> checkLmCompatibility])

checkDelegation ==
    Check(TRUE, <<"unconstrained", "constrained">>,
      [p \in {"unconstrained", "constrained"} |->
         Quiet({"users", "noise"}, {}, {}, {}, {"blank"})])

checkMachineAccountQuota ==
    Check(FALSE, <<"quota">>,
      [quota |-> Text({"ten"}, {}, {}, {"other", "blank", "noise"}, {})])

------------------------------------------------------------------------------
(* MSSQL: the service first; its SQL probes only when it runs                 *)

checkMSSQLExtendedFeatures ==
    [xp_cmdshell |-> Then(Sql({"on"}, {"off"}, {}), [on |-> "priv", off |-> "trustworthy"]),
     priv |-> Then(Probe("sql", Grade({"impersonate"}, {}, {"other"}, {}, {"none", "error"})),
                   [a \in {"impersonate", "other", "none", "error"} |-> "trustworthy"]),
     trustworthy |-> Sql({"rows"}, {}, {"none"})]

checkMSSQL ==
    LET All(next) == [a \in {"rows", "none", "error"} |-> next]
        Row(next) == Then(Sql({"rows"}, {"none"}, {}), All(next))
    IN  Check(TRUE, <<"mssql">>,
          [mssql |-> Then(Text({"running", "noise"}, {"blank"}, {}, {}, {}),
                          [running |-> "sysadmin", noise |-> "sysadmin"]),
           sysadmin |-> Row("impersonation"), impersonation |-> Row("linked"),
           linked |-> Row("xp_cmdshell")] @@ checkMSSQLExtendedFeatures)

------------------------------------------------------------------------------
(* ADCS                                                                       *)

checkADCSPublishedTemplates ==
    Unguarded(Probe("json", Grade({"published"}, {"unpublished"}, {}, {},
                                  {"empty", "error", "refused"})))

(* A refused feature query is reported and then read as "not installed".      *)
checkADCS ==
    LET known == [ca_web |-> <<"PASS", "PASS">>, ca |-> <<"PASS", "WARN">>,
                  bare |-> <<"FAIL", "WARN">>, refused |-> <<"WARN", "FAIL", "WARN">>]
    IN  Check(TRUE, <<"features">>,
          [features |-> Then(Probe("json", known @@ [error |-> <<"WARN">>]),
                             [a \in DOMAIN known |-> "templates"]),
           templates |-> checkADCSPublishedTemplates])

checkADCSESC7 ==
    Check(TRUE, <<"manage_ca">>,
      [manage_ca |-> Json({"found"}, {"no_pspki", "not_found"}, {}, {})])

(* StrongCertificateBindingEnforcement on the DC that validates; a DC that is *)
(* not known is an error, not a skip.                                         *)
readKDCBinding(pass, fail) == Unguarded(Json(pass, fail, {}, {}))

checkESC6KDCBinding == readKDCBinding({"0"}, {"absent", "1", "2"})

checkADCSESC6 ==
    Check(TRUE, <<"edit_flags">>,
      [edit_flags |-> Then(Probe("json", Grade({}, {"unset"}, {}, {"error", "refused"}, {"set"})),
                           [set |-> "esc6_kdc"]),
       esc6_kdc |-> checkESC6KDCBinding])

checkADCSESC10 ==
    Check(TRUE, <<"esc10_kdc", "esc10_schannel">>,
      [p \in {"esc10_kdc", "esc10_schannel"} |-> Json({"wanted"}, {"other"}, {}, {"absent"})])

checkADCSESC11 ==
    Check(TRUE, <<"interface_flags">>, [interface_flags |-> Json({"unset"}, {"set"}, {}, {})])

checkADCSESC15 ==
    Check(TRUE, <<"web_server">>,
      [web_server |-> Json({"enroll"}, {"no_template", "no_grant"}, {}, {})])

(* A template attribute: transport errors come back as empty output.          *)
adcsTemplateAttr(pass, fail, info, warn) == Quiet(pass, fail, info, warn, {})

(* The flag has bit 0x1 when it is odd; the code also wants a digit 1 in it.  *)
hasBitOne(flag) == flag \in {"odd_with_1", "odd_without_1"}
checkADCSESC1 ==
    LET flags  == {"odd_with_1", "odd_without_1", "even"}
        passes == {f \in flags : hasBitOne(f) /\ f # "odd_without_1"}
    IN  Check(TRUE, <<"name_flag">>,
          [name_flag |-> adcsTemplateAttr(passes, (flags \ passes) \cup {"noise"},
                                          {"missing"}, {"blank"})])

checkADCSESC2 ==
    Check(TRUE, <<"eku">>,
      [eku |-> adcsTemplateAttr({"any_purpose"}, {"other", "noise"}, {"missing"}, {"blank"})])

checkADCSESC3 ==
    LET esc3 == adcsTemplateAttr({"agent"}, {"other", "noise"}, {"missing"}, {"blank"})
    IN  Check(TRUE, <<"cra_eku">>,
          [cra_eku |-> Then([esc3 EXCEPT !.out["missing"] = <<>>], [missing |-> "esc3_eku"]),
           esc3_eku |-> esc3])

scanESC4ACL == Text({"aces", "noise"}, {"no_abuse"}, {"missing"}, {"blank"}, {})

checkESC4Grantee == Text({"found"}, {"not_found"}, {"missing"}, {"blank", "noise"}, {})

checkADCSESC4 ==
    Check(TRUE, <<"scan", "grantee">>, [scan |-> scanESC4ACL, grantee |-> checkESC4Grantee])

checkESC9KDCBinding == readKDCBinding({"0", "1"}, {"absent", "2"})

checkESC9Enforcement ==
    [esc9_flag |-> Then(Quiet({}, {"no_flag"}, {"missing"}, {"blank", "noise"}, {"flag"}),
                        [flag |-> "esc9_kdc"]),
     esc9_kdc |-> checkESC9KDCBinding]

checkADCSESC9 ==
    Closing(Check(TRUE, <<"pivot", "esc9_flag">>,
              [pivot |-> Text({"users", "noise"}, {"blank"}, {}, {}, {})] @@ checkESC9Enforcement),
            {"pivot"}, "FAIL")

(* Two integers are wanted of the link probe; anything else is unreadable.    *)
checkESC13GroupLink ==
    Unguarded(Text({"linked"}, {"no_oid", "unlinked"}, {}, {"duplicate", "blank", "noise"}, {}))

checkADCSESC13 ==
    LET policy == Quiet({"policy", "noise"}, {"missing", "blank"}, {}, {}, {})
    IN  Check(TRUE, <<"esc13_policy">>,
          [esc13_policy |-> Then(policy, [a \in DOMAIN policy.out |-> "esc13_link"]),
           esc13_link |-> checkESC13GroupLink])

checkCertEnrollShare ==
    Check(TRUE, <<"certenroll">>,
      [certenroll |-> Text({"share", "noise"}, {"blank"}, {}, {}, {})])

------------------------------------------------------------------------------
(* ACLs, trusts, services                                                     *)

(* Asked again while inconclusive: the form "marked".                         *)
checkSingleACL ==
    Probe("marked", Grade({"found"}, {"not_found"}, {},
                          {"target_missing", "error", "blank", "noise"}, {}))

checkACLPermissions == Check(TRUE, <<"acl">>, [acl |-> checkSingleACL])

checkDomainTrusts ==
    Check(TRUE, <<"trust_out", "trust_in">>,
      [p \in {"trust_out", "trust_in"} |-> Text({"listed"}, {"blank", "noise"}, {}, {}, {})])

checkServices ==
    Check(FALSE, <<"spooler", "iis">>,
      [spooler |-> Text({"running"}, {}, {}, {"stopped", "blank", "noise"}, {}),
       iis |-> Then(Text({"running"}, {}, {}, {"stopped", "noise"}, {"blank"}),
                    [a \in {"running", "stopped", "noise", "blank"} |-> "webclient"]),
       webclient |-> Text({"running"}, {}, {"stopped", "noise"}, {}, {"blank"})])

checkScheduledTasks ==
    Check(TRUE, <<"task">>, [task |-> Json({"found"}, {"not_found"}, {}, {})])

checkLLMNR ==
    Check(TRUE, <<"llmnr", "nbt_ns">>,
      [llmnr |-> Json({"absent", "1"}, {"other"}, {}, {}),
       nbt_ns |-> Quiet({"zeros"}, {"other", "noise"}, {}, {"blank"}, {})])

checkGPOAbuse ==
    Check(TRUE, <<"gpo">>, [gpo |-> Text({"gpos", "noise"}, {"blank"}, {}, {}, {})])

checkGMSA ==
    Check(TRUE, <<"gmsa">>, [gmsa |-> Text({"true"}, {"false", "blank", "noise"}, {}, {}, {})])

checkLAPS ==
    Check(TRUE, <<"laps", "laps_reader">>,
      [laps |-> Text({"password", "noise"}, {"blank"}, {}, {}, {}),
       laps_reader |-> Text({"reader_ok"}, {"reader_not_found"}, {}, {"blank", "noise"}, {})])

checkSIDFiltering ==
    Check(TRUE, <<"quarantine">>,
      [quarantine |-> Text({"not_enabled"}, {}, {"blank", "noise"}, {"enabled"}, {})])

checkSIDHistory ==
    Check(TRUE, <<"sid_history">>,
      [sid_history |-> Quiet({"true"}, {}, {"false"}, {"blank"}, {"noise"})])

checkSMBShares ==
    Check(TRUE, <<"shares">>, [shares |-> Text({"shares", "noise"}, {"blank"}, {}, {}, {})])

(* The script lists the profiles that are enabled: silence is the finding.    *)
checkFirewallDisabled ==
    Check(TRUE, <<"firewall">>,
      [firewall |-> Text({"blank"}, {"profiles", "noise"}, {}, {}, {})])

checkPasswordPolicy ==
    Check(FALSE, <<"policy">>,
      [policy |-> Probe("json", Grade({}, {}, {}, {"error", "refused", "not_found"}, {})
                        @@ [weak |-> <<"PASS", "PASS", "PASS">>,
                            strong |-> <<"INFO", "INFO", "INFO">>])])

checkLDAPSigning ==
    Check(FALSE, <<"ldap_signing", "ldap_integrity", "ldap_binding">>,
      [p \in {"ldap_signing", "ldap_integrity", "ldap_binding"} |->
         Json({"absent", "0"}, {}, {"1", "more"}, {})])

checkRunAsPPL ==
    Check(FALSE, <<"runasppl">>, [runasppl |-> Json({"absent", "0"}, {}, {"1", "2", "more"}, {})])

------------------------------------------------------------------------------
(* Files, registry, features                                                  *)

checkUsernamePasswordEqual ==
    Check(TRUE, <<"weak_user">>, [weak_user |-> Must({"found"}, {"not_found"}, {"blank", "noise"})])

checkAutologonRegistry ==
    Check(TRUE, <<"autologon">>,
      [autologon |-> Json({"user_password", "user"}, {"no_user", "off"}, {}, {})])

checkCmdkeyCredentials ==
    Check(TRUE, <<"vault">>, [vault |-> Text({"users"}, {"none", "noise"}, {}, {"blank"}, {})])

checkSysvolPlaintext ==
    Check(TRUE, <<"sysvol">>, [sysvol |-> Json({"files"}, {"no_root", "no_files"}, {}, {})])

checkShareFilePlaintext ==
    Check(TRUE, <<"share_files">>,
      [share_files |-> Json({"files"}, {"no_root", "no_files"}, {}, {})])

checkSharePermissions ==
    Check(TRUE, <<"share_acls">>, [share_acls |-> Json({"entries"}, {"none"}, {}, {})])

checkAdministratorFolder ==
    Check(TRUE, <<"admin_folder">>,
      [admin_folder |-> Json({"readable", "admin_only"}, {"missing"}, {}, {})])

checkSMBv1 ==
    Check(TRUE, <<"smb1">>, [smb1 |-> Json({"Enabled"}, {"Disabled"}, {"other"}, {"not_found"})])

checkCredSSPServerHost == Json({"1"}, {"0"}, {"more"}, {"absent"})

checkCredSSPClientHost == Json({"1"}, {"no_policy", "absent", "0"}, {"more"}, {})

checkCredSSP ==
    Check(TRUE, <<"credssp_server", "credssp_client">>,
      [credssp_server |-> checkCredSSPServerHost, credssp_client |-> checkCredSSPClientHost])

checkWebDAVRedirector ==
    Closing(Check(TRUE, <<"webdav">>,
              [webdav |-> Json({"Installed"}, {}, {"absent", "Available", "other"}, {})]),
            {"webdav"}, "INFO")

checkIISUploadPermissions ==
    Closing(Check(TRUE, <<"upload">>,
              [upload |-> Json({"writable"}, {"no_dir", "no_ace"}, {}, {})]),
            {"upload"}, "INFO")

checkCVEPatches ==
    Check(TRUE, <<"kb_1", "kb_2", "kb_3", "kb_4">>,
      [p \in {"kb_1", "kb_2", "kb_3", "kb_4"} |-> Json({"unpatched"}, {}, {"patched"}, {})])

------------------------------------------------------------------------------
(* Users, groups, administrators, audit                                       *)

(* The user must exist; the memberships of the last answer then decide.       *)
checkConfiguredUsers ==
    LET user == Must({"in_groups"}, {"not_found"}, {"blank", "noise"})
    IN  Check(TRUE, <<"user">>, [user |-> [user EXCEPT !.out = [lacks_group |-> <<"FAIL">>] @@ @]])

checkConfiguredGroups ==
    Check(TRUE, <<"group">>,
      [group |-> Text({"found"}, {"not_found"}, {}, {"blank", "noise"}, {})])

(* Missing before unresolved before too few proofs; no line at all is too few.*)
reportCrossDomainMembershipResult ==
    Text({"proved"}, {"missing"}, {}, {"unresolved", "too_few", "blank", "noise"}, {})

checkCrossDomainGroupMemberships ==
    Check(TRUE, <<"members">>, [members |-> reportCrossDomainMembershipResult])

checkLocalAdmins ==
    Check(TRUE, <<"admins", "admins_unlisted">>,
      [admins |-> Text({"all"}, {"lacking", "blank", "noise"}, {}, {}, {}),
       admins_unlisted |-> Text({}, {}, {"some", "noise"}, {"blank"}, {})])

checkAdminShares ==
    Check(TRUE, <<"admin_shares">>,
      [admin_shares |-> Must({"both"}, {"lacking", "blank", "noise"}, {})])

checkDNSConditionalForwarder ==
    Check(TRUE, <<"forwarder">>,
      [forwarder |-> Text({"forwarder"}, {"not_found"}, {}, {"wrong_type", "blank", "noise"}, {})])

reportDSAccessAudit == Text({"success"}, {"no_auditing"}, {"noise"}, {"blank"}, {})

checkDCSACLAudit == Check(TRUE, <<"auditpol">>, [auditpol |-> reportDSAccessAudit])

checkLDAPDiagnosticLogging ==
    Closing(Check(TRUE, <<"field_engineering">>,
              [field_engineering |-> Json({"more"}, {"absent", "0"}, {}, {})]),
            {"field_engineering"}, "INFO")

checkASRRules ==
    Check(TRUE, <<"asr">>, [asr |-> Json({"rules"}, {"none"}, {}, {})])

------------------------------------------------------------------------------
RunQuickChecks ==
    [CredentialDiscovery |-> checkCredentialDiscovery,
     NetworkMisconfigs |-> checkNetworkMisconfigs,
     MSSQL |-> checkMSSQL, ADCS |-> checkADCS, ADCSESC7 |-> checkADCSESC7,
     ADCSESC6 |-> checkADCSESC6, DomainTrusts |-> checkDomainTrusts,
     Services |-> checkServices, ScheduledTasks |-> checkScheduledTasks]

RunAllChecks == RunQuickChecks @@
    [ConfiguredUsers |-> checkConfiguredUsers, ConfiguredGroups |-> checkConfiguredGroups,
     CrossDomainGroups |-> checkCrossDomainGroupMemberships,
     UsernamePasswordEqual |-> checkUsernamePasswordEqual,
     AutologonRegistry |-> checkAutologonRegistry, CmdkeyCredentials |-> checkCmdkeyCredentials,
     SysvolPlaintext |-> checkSysvolPlaintext, ShareFilePlaintext |-> checkShareFilePlaintext,
     SharePermissions |-> checkSharePermissions, AdministratorFolder |-> checkAdministratorFolder,
     KerberosAttacks |-> checkKerberosAttacks, AnonymousSMB |-> checkAnonymousSMB,
     SMBv1 |-> checkSMBv1, CredSSP |-> checkCredSSP, WebDAVRedirector |-> checkWebDAVRedirector,
     Delegation |-> checkDelegation, MachineAccountQuota |-> checkMachineAccountQuota,
     ADCSESC1 |-> checkADCSESC1, ADCSESC2 |-> checkADCSESC2, ADCSESC3 |-> checkADCSESC3,
     ADCSESC4 |-> checkADCSESC4, ADCSESC9 |-> checkADCSESC9, ADCSESC10 |-> checkADCSESC10,
     ADCSESC11 |-> checkADCSESC11, ADCSESC13 |-> checkADCSESC13, ADCSESC15 |-> checkADCSESC15,
     CertEnrollShare |-> checkCertEnrollShare, ACLPermissions |-> checkACLPermissions,
     SIDFiltering |-> checkSIDFiltering, SIDHistory |-> checkSIDHistory, LLMNR |-> checkLLMNR,
     GPOAbuse |-> checkGPOAbuse, GMSA |-> checkGMSA, LAPS |-> checkLAPS,
     SMBShares |-> checkSMBShares, FirewallDisabled |-> checkFirewallDisabled,
     PasswordPolicy |-> checkPasswordPolicy, LDAPSigning |-> checkLDAPSigning,
     RunAsPPL |-> checkRunAsPPL, IISUploadPermissions |-> checkIISUploadPermissions,
     LocalAdmins |-> checkLocalAdmins, CVEPatches |-> checkCVEPatches,
     AdminShares |-> checkAdminShares, DNSConditionalForwarder |-> checkDNSConditionalForwarder,
     DCSACLAudit |-> checkDCSACLAudit, LDAPDiagnosticLogging |-> checkLDAPDiagnosticLogging,
     ASRRules |-> checkASRRules]
=============================================================================
