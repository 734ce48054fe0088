----------------------------- MODULE RangeInfra -----------------------------
(***************************************************************************)
(* The infra commands (cmd/infra_cmd.go, infra_state.go, the terragrunt    *)
(* runner) on AWS and Azure, and the power commands of cmd/lab.go.  A unit *)
(* is a Terragrunt directory: one per host, and the optional ones that an  *)
(* exclude block hides unless an environment variable shows them.          *)
(* Terragrunt itself and the clouds are external: run --all may stop after *)
(* any part of its units, and a machine whose configuration changed may be *)
(* replaced or kept.                                                       *)
(***************************************************************************)
EXTENDS UpPipeline

Infra(point) == At("infra", point)
Action == cmd.req.action

(* materializeLabConfig, for every action alike: a variant must have a     *)
(* complete target (validateVariantMaterializationTarget), then the copy   *)
(* Terraform reads is written, then the marker that says whose it is.      *)
validateVariantMaterializationTarget == range.variant => disk.target = "complete"
materializeLabConfig ==
    /\ Infra("start")
    /\ IF validateVariantMaterializationTarget
       THEN disk' = [disk EXCEPT !.mat = disk.config] /\ Go("own")
       ELSE Fails /\ UNCHANGED disk
    /\ UNCHANGED <<range, inv, cloud, lab, spent>>
recordMaterializedConfigOwnership ==
    /\ Infra("own")
    /\ disk' = [disk EXCEPT !.marker = disk.mat]
    /\ Go("confirm")
    /\ UNCHANGED <<range, inv, cloud, lab, spent>>

(* confirmDestroy: no terminal or any other word than yes cancels. *)
confirmDestroy ==
    /\ Infra("confirm")
    /\ IF Action = "destroy" /\ ~cmd.req.approve THEN Go("check") \/ Fails ELSE Go("check")
    /\ UNCHANGED <<range, disk, inv, cloud, lab, spent>>

(* checkLocalInfraState: Azure's state is local, and without it there is   *)
(* nothing to destroy by.  AWS keeps state in a remote backend, so only    *)
(* the directory is checked (checkInfraWorkDir).  Then --module must exist *)
(* (runTerragruntModule); "goad" is the group of the hosts.                *)
Dirs == LabHosts \cup range.optional
Module == cmd.req.module
checkLocalInfraState ==
    /\ Infra("check")
    /\ IF \/ ~AWS /\ Action = "destroy" /\ ~disk.state
          \/ Module \notin Dirs \cup {None, "goad"}
       THEN Fails ELSE Go("init")
    /\ UNCHANGED <<range, disk, inv, cloud, lab, spent>>

(* azureModuleEnv and shouldEnableAWSKali: asked for, or on a destroy      *)
(* found in the layout.                                                    *)
\* mutant: a destroy, too, only touches what its flags name
AskedModuleEnv == cmd.req.with
azureModuleEnv ==
    cmd.req.with \cup IF Action = "destroy" THEN range.optional ELSE {}

(* The units an invocation runs: one module, the hosts of goad/ one by one *)
(* (RunIndividual), or all that are neither hidden nor excluded.           *)
Selected ==
    LET shown == LabHosts \cup (azureModuleEnv \cap range.optional) IN
    CASE Module = None -> shown \ cmd.req.exclude
      [] Module = "goad" -> IF cmd.req.individual THEN LabHosts \ cmd.req.exclude ELSE {}
      [] OTHER -> {Module} \cap shown

(* Run, RunAll: init -upgrade first.  A missing backend bucket fails it    *)
(* unless --backend-bootstrap creates it; Azure's backend is a directory.  *)
runAllInit ==
    /\ Infra("init")
    /\ \/ /\ AWS => cloud.backend \/ cmd.req.bootstrap
          /\ cloud' = [cloud EXCEPT !.backend = @ \/ cmd.req.bootstrap]
          /\ Go("run")
          /\ UNCHANGED spent
       \/ AWS /\ ~cloud.backend /\ ~cmd.req.bootstrap /\ Fails /\ UNCHANGED <<cloud, spent>>
       \/ Fault /\ Fails /\ UNCHANGED cloud
    /\ UNCHANGED <<range, disk, inv, lab>>

(* What apply and destroy do to the machines of the units in U.  Stale     *)
(* machines, built from another config, are replaced if they are in R; a   *)
(* machine that Terraform's state does not hold is left alone.             *)
Managed == {m \in cloud.machines : m.gen > 0}
Stale == {m \in Managed : m.built # disk.mat}
Applied(U, R) ==
    LET kept == cloud.machines \ {m \in Stale : m.role \in U \cap R /\ Buildable(m.role)}
        new == {h \in U \cap LabHosts : Buildable(h) /\ ~\E m \in kept \cap Managed : m.role = h} IN
    [cloud EXCEPT !.machines = kept \cup {Fresh(h) : h \in new},
                  !.last = [h \in LabHosts |-> IF h \in new THEN @[h] + 1 ELSE @[h]],
                  !.extras = @ \cup (U \cap Optional)]
Destroyed(U) ==
    [cloud EXCEPT !.machines = @ \ {m \in Managed : m.role \in U}, !.extras = @ \ U]
Effect(U, R) ==
    CASE Action = "apply" -> Applied(U, R) [] Action = "destroy" -> Destroyed(U) [] OTHER -> cloud

(* An AD object lives as long as its domain controller. *)
Survivors(machines) == {o \in lab.ad : \E m \in machines : m.role = o.dc /\ m \in cloud.machines}

(* RunAll: the action proper, complete or, failing, in part.  The run is   *)
(* non-interactive, so that an apply nobody approved fails at its prompt;  *)
(* run --all has no directory to run in for the group of the hosts.  State *)
(* is local on Azure; an apply writes it, unless it failed before that.    *)
Refused == \/ Action = "apply" /\ ~cmd.req.approve
           \/ Module = "goad" /\ ~(cmd.req.individual /\ Action = "apply")
RunAll ==
    /\ Infra("run")
    /\ \E U \in IF Refused THEN {{}} ELSE SUBSET Selected, R \in {{}, {m.role : m \in Stale}} :
        /\ cloud' = Effect(U, R)
        /\ \/ /\ ~Refused /\ U = Selected
              /\ IF Action = "destroy" /\ AWS /\ Module = None THEN Go("bucket") ELSE NextStep
              /\ UNCHANGED spent
           \/ Fault /\ Fails
           \/ Refused /\ Fails /\ UNCHANGED spent
        /\ \E written \in {U # {}} \cup IF Refused \/ U = Selected THEN {} ELSE {TRUE} :
              disk' = [disk EXCEPT !.state = @ \/ (~AWS /\ Action = "apply" /\ written)]
    /\ lab' = [lab EXCEPT !.ad = Survivors(cloud'.machines)]
    /\ UNCHANGED <<range, inv>>

(* deleteSSMBucket: the bucket the inventory names, AUTO is none; a failure *)
(* is only a warning.                                                      *)
ssmBucketCleanupTarget ==
    /\ "bucket" \in DOMAIN inv.vars /\ inv.vars["bucket"] # "AUTO"
    /\ "ansible_connection" \in DOMAIN inv.vars /\ inv.vars["ansible_connection"] = "aws_ssm"
deleteSSMBucket ==
    /\ Infra("bucket")
    /\ \/ cloud' = [cloud EXCEPT !.bucket = @ /\ ~ssmBucketCleanupTarget] /\ UNCHANGED spent
       \/ Fault /\ UNCHANGED cloud
    /\ NextStep
    /\ UNCHANGED <<range, disk, inv, lab>>

InfraStep ==
    \/ materializeLabConfig \/ recordMaterializedConfigOwnership \/ confirmDestroy
    \/ checkLocalInfraState \/ runAllInit \/ RunAll \/ deleteSSMBucket

---------------------------------------------------------------------------
(* lab start and stop: every stopped, or every running, machine. *)
runLabAction ==
    /\ At("power", "start")
    /\ LET want == cmd.req.action = "start"
           those == {m \in cloud.machines : m.on # want} IN
       IF those = {} THEN Fails /\ UNCHANGED cloud
       ELSE /\ cloud' = [cloud EXCEPT !.machines =
                    (@ \ those) \cup {[m EXCEPT !.on = want] : m \in those}]
            /\ NextStep
    /\ UNCHANGED <<range, disk, inv, lab, spent>>

(* lab destroy-vm: the first machine whose name contains the host name.    *)
(* Without --yes and with no terminal it says Aborted and succeeds.        *)
destroyVM ==
    /\ At("destroy-vm", "start")
    /\ LET found == {m \in cloud.machines : m.role = Module} IN
       IF found = {} THEN Fails /\ UNCHANGED <<cloud, lab>>
       ELSE \E m \in found :
            /\ cloud' = [cloud EXCEPT !.machines = IF cmd.req.approve THEN @ \ {m} ELSE @]
            /\ lab' = [lab EXCEPT !.ad = Survivors(cloud'.machines)]
            /\ NextStep
    /\ UNCHANGED <<range, disk, inv, spent>>
=============================================================================
