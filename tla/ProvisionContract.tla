------------------------- MODULE ProvisionContract -------------------------
(***************************************************************************)
(* What provisioning promises an operator, whatever fails: the playbooks   *)
(* come in order, a playbook is passed over only when a run of it          *)
(* succeeded, and then it is not run again; no playbook is run more often  *)
(* than MaxRuns; an interrupt leaves at most Grace runs to come, and no    *)
(* further playbook; the command ends well exactly when all are through.   *)
(* Provision implements it with ImplementsContract.                        *)
(***************************************************************************)
EXTENDS Naturals

CONSTANTS Last,     \* number of playbooks
          MaxRuns,  \* runs of ansible-playbook that one playbook may take
          Grace     \* runs that may still begin after an interrupt

VARIABLES stage,        \* "idle" between runs, "running", "done", "failed"
          playbook,     \* the one that is due; Last + 1 when all are through
          left,         \* how many runs of it may still begin
          interrupted
vars == <<stage, playbook, left, interrupted>>

Init == stage = "idle" /\ playbook = 1 /\ left = MaxRuns /\ interrupted = FALSE

Begin ==
    /\ stage = "idle" /\ left > 0
    /\ stage' = "running" /\ left' = left - 1
    /\ UNCHANGED <<playbook, interrupted>>

\* A run that failed may be the last but some of those that are left.
Falter ==
    /\ stage = "running" /\ stage' = "idle"
    /\ left' \in 0..left
    /\ UNCHANGED <<playbook, interrupted>>

Pass ==
    /\ stage = "running"
    /\ stage' = IF playbook = Last THEN "done" ELSE "idle"
    /\ playbook' = playbook + 1
    /\ left' = IF interrupted \/ playbook = Last THEN 0 ELSE MaxRuns
    /\ UNCHANGED interrupted

GiveUp ==
    /\ stage \in {"idle", "running"}
    /\ stage' = "failed" /\ left' = 0
    /\ UNCHANGED <<playbook, interrupted>>

Interrupt ==
    /\ ~interrupted /\ interrupted' = TRUE
    /\ left' \in 0..left /\ left' <= Grace
    /\ UNCHANGED <<stage, playbook>>

Next == Begin \/ Falter \/ Pass \/ GiveUp \/ Interrupt

Spec == Init /\ [][Next]_vars
=============================================================================
