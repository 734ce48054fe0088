----------------------------- MODULE UpPipeline -----------------------------
(***************************************************************************)
(* cmd/up.go: which steps a command runs, how it advances, and the command *)
(* it suggests when a step fails.  The other lifecycle commands are single *)
(* steps of the same machine, and suggest nothing.                         *)
(***************************************************************************)
EXTENDS RangeState

UpSteps == <<"doctor", "infra", "provision", "health-check">>
Index(seq, x) == CHOOSE i \in DOMAIN seq : seq[i] = x /\ \A j \in DOMAIN seq : seq[j] = x => i <= j
In(seq, x) == \E i \in DOMAIN seq : seq[i] = x

(* selectUpSteps: --from cuts the front, --skip-doctor counts only without *)
(* it, --infra-only cuts what follows infra.                               *)
selectUpSteps(req) ==
    LET first == IF req.from # None THEN Index(UpSteps, req.from) ELSE IF req.skipDoctor THEN 2 ELSE 1
        last == IF req.infraOnly /\ first <= 2 THEN 2 ELSE 4 IN
    SubSeq(UpSteps, first, last)

(* validateUpExecutionOptions and validateUpProvisionResume. *)
Provisions(req) == req.limit.set \/ req.plays # <<>> \/ req.fromPlaybook # None
validateUpExecutionOptions(req) ==
    /\ "kali" \notin req.limit.hosts
    /\ req.infraOnly => req.from \in {None, "doctor", "infra"} /\ ~Provisions(req)
validateUpProvisionResume(req) ==
    req.fromPlaybook # None => req.plays = <<>> /\ In(selectUpSteps(req), "provision")

(* newUpInfraCommand: always approved, and on Azure with what provisioning *)
(* reaches the machines through.                                           *)
newUpInfraCommand(req) ==
    [req EXCEPT !.approve = TRUE, !.individual = FALSE,
                !.with = @ \cup IF AWS THEN {} ELSE {"bastion", "controller"}]

(* remainingPlaybookSelection: from the first occurrence of the failed one. *)
\* mutant: the failed playbook is taken to be done
remainingAfter(selected, failed) == SubSeq(selected, Index(selected, failed) + 1, Len(selected))
remainingPlaybookSelection(selected, failed) ==
    IF In(selected, failed) THEN SubSeq(selected, Index(selected, failed), Len(selected)) ELSE selected

(* appendUpInfraResumeFlags: --backend-bootstrap is not among them. *)
appendUpInfraResumeFlags(hint, step, req) ==
    IF step \notin {"doctor", "infra"} THEN hint
    ELSE [hint EXCEPT !.module = req.module, !.exclude = req.exclude, !.with = req.with \cap {"kali"},
                      !.infraOnly = req.infraOnly]

(* appendUpProvisionResumeFlags: failed is the playbook a provisionFailure *)
(* names, None for any other error.                                        *)
appendUpProvisionResumeFlags(hint, step, failed, req) ==
    IF step = "provision" /\ failed # None
    THEN IF req.plays # <<>>
         THEN [hint EXCEPT !.plays = remainingPlaybookSelection(req.plays, failed)]
         ELSE [hint EXCEPT !.fromPlaybook = failed]
    ELSE IF req.plays # <<>> THEN [hint EXCEPT !.plays = req.plays]
    ELSE [hint EXCEPT !.fromPlaybook = req.fromPlaybook]

(* upResumeCommand: a health check is resumed without any option. *)
upResumeCommand(step, failed, req) ==
    LET bare == [Defaults EXCEPT !.from = step] IN
    IF step = "health-check" THEN bare
    ELSE [appendUpProvisionResumeFlags(appendUpInfraResumeFlags(bare, step, req), step, failed, req)
            EXCEPT !.limit = req.limit]

---------------------------------------------------------------------------
Step == Head(cmd.todo)

(* runUp's loop: the next step, or the end and its message.  The flags of  *)
(* the infra step are the synthetic command's.  The phases of score reset  *)
(* all run, and any error of one then fails the command.                   *)
Done(c) ==
    IF Len(c.todo) > 1
    THEN [c EXCEPT !.todo = Tail(@), !.at = "start", !.seen = {}, !.over = {}, !.passed = @ \cup {Head(c.todo)}]
    ELSE [Idle EXCEPT !.told = IF c.errs THEN "failed"
                               ELSE IF c.do = "up" /\ ~c.req.infraOnly THEN "Lab is up" ELSE "ok",
                      !.req = c.req, !.passed = c.passed \cup {Head(c.todo)},
                      !.seen = c.seen, !.slips = c.slips, !.tally = c.tally,
                      !.list = c.list, !.blind = c.blind]
NextStep == cmd' = Done(cmd)

(* A failed step ends the command; up prints how to resume. *)
FailsAt(failed) ==
    cmd' = [Idle EXCEPT !.told = "failed", !.req = cmd.req, !.passed = cmd.passed, !.at = cmd.at,
                        !.hint = IF cmd.do = "up" THEN {upResumeCommand(Step, failed, cmd.req)} ELSE {}]
Fails == FailsAt(None)

StepsOf(req) ==
    CASE req.do = "up" -> selectUpSteps(req)
      [] req.do = "reset" -> (IF req.skipPurge THEN <<>> ELSE <<"purge">>) \o <<"provision">>
      [] req.do = "score" -> req.phases
      [] OTHER -> <<req.do>>

(* The command line is parsed, checked and started; up looks for the range's *)
(* health command before anything else (requireUpHealth: the built-in one  *)
(* is always there).                                                       *)
Runnable(req) == req.do = "up" => validateUpExecutionOptions(req) /\ validateUpProvisionResume(req)
Start(req) ==
    cmd' = [Idle EXCEPT !.do = req.do, !.req = IF req.do = "up" THEN newUpInfraCommand(req) ELSE req,
                        !.todo = StepsOf(req)]

(* SIGKILL, or a terminal that closes: nothing is told. *)
Dies == /\ Running /\ Fault
        /\ cmd' = [Idle EXCEPT !.told = "died", !.req = cmd.req]
        /\ UNCHANGED <<range, disk, inv, cloud, lab>>
=============================================================================
