---------------------------- MODULE MCProcesses ----------------------------
(* The two places that own a tree of processes: the console, which reads a  *)
(* CLI command (RunningCommand), and the CLI, which reads ansible-playbook  *)
(* (PlaybookRun).  which says whose tree is looked at; the variables of the *)
(* other keep their initial values.                                         *)
EXTENDS RunningCommand

CONSTANTS Workers, IdleTicks
ASSUME TicksAssumption == IdleTicks \in Nat

VARIABLES main, playbook, ended, forked, workers, pipe, scanner, watchdog, fresh,
          quiet, silent, timedOut, interrupted, result, which

P == INSTANCE PlaybookRun WITH leader <- playbook, code <- ended, cancelled <- interrupted
playbookVars == <<main, playbook, ended, forked, workers, pipe, scanner, watchdog, fresh,
                  quiet, silent, timedOut, interrupted, result>>
allVars == <<vars, playbookVars, which>>

MCInit ==
    /\ Init /\ P!Init /\ which \in {"command", "playbook"}
    /\ which = "playbook" => mode = "stream"

(* A command that nobody reads on may stop; a playbook's run may not. *)
MCNext ==
    /\ UNCHANGED which
    /\ \/ which = "command" /\ Next /\ UNCHANGED playbookVars
       \/ which = "command" /\ UNCHANGED <<vars, playbookVars>>
       \/ which = "playbook" /\ P!Next /\ UNCHANGED vars
MCSpec ==
    /\ MCInit /\ [][MCNext]_allVars
    /\ which = "command" => Fairness
    /\ which = "playbook" => P!Fairness

(* The types of PlaybookRun, and: RunPlaybook returns only when no process  *)
(* of the playbook is left.                                                 *)
PlaybookLeavesNothing == P!TypeOK /\ P!NothingLeft

(* The watchdog strikes when it should: only after a whole idle timeout     *)
(* without a line, and then the call does end.                              *)
WatchdogStrikes == P!TimeoutJustified /\ (which = "playbook" => P!StallEnds)
=============================================================================
