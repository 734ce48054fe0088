---------------------------- MODULE LiveDashboard ----------------------------
(* The live dashboard of `dreadgoad validate` (internal/validate/tui.go): a   *)
(* goroutine (runLoop) runs the checks pass after pass, the program consumes  *)
(* two channels that are not ordered with each other, and quitting cancels    *)
(* the goroutine and waits for it.  What the checks conclude is in Validation;*)
(* here a result is the number of the pass that added it, 0 for Discovery.    *)
EXTENDS Integers, Sequences, FiniteSets

CONSTANTS MaxPasses,        \* bound on the passes of a polling run
          PerPass,          \* bound on the results of a pass
          Seed,             \* results of DiscoverHosts
          Capacity,         \* of the results channel (256)
          PhaseCapacity     \* of the phases channel (8)

ASSUME ChannelsAssumption ==
    /\ MaxPasses \in Nat \ {0} /\ PerPass \in Nat /\ Seed \in Nat
    /\ Capacity \in Nat \ {0} /\ PhaseCapacity \in Nat \ {0}

Pass == 0..MaxPasses
Nothing == [p \in Pass |-> 0]
Discovered == [Nothing EXCEPT ![0] = Seed]

VARIABLES polling,    \* PollInterval > 0
          loop,       \* where runLoop is
          pass,       \* passes begun
          report,     \* v.report: results by the pass that added them
          results,    \* the channel of results, the oldest first
          dropped,    \* live updates that found the channel full
          phases,     \* the channel of phase events
          shown,      \* m.report: results that the dashboard counts
          iteration,  \* m.iteration
          finished,   \* m.finished
          stopped,  \* runCtx
          program     \* the bubbletea program and RunTUI around it

liveVars == <<polling, loop, pass, report, results, dropped, phases, shown, iteration,
          finished, stopped, program>>
queues == <<results, dropped, phases>>
model == <<shown, iteration, finished>>

(* RunTUI: the model is seeded with what is on the report.                    *)
LiveInit ==
    /\ polling \in BOOLEAN /\ loop = "announce" /\ pass = 1
    /\ report = Discovered /\ shown = Discovered
    /\ results = <<>> /\ dropped = 0 /\ phases = <<>>
    /\ iteration = 0 /\ finished = FALSE
    /\ stopped = FALSE /\ program = "open"

------------------------------------------------------------------------------
(* runLoop                                                                    *)

sendBlocking(event, next) ==   \* mutant: the send does not watch the context
    /\ Len(phases) < PhaseCapacity
    /\ phases' = Append(phases, event) /\ loop' = next

(* A select over the send and the context: either may be taken when both can. *)
sendPhase(event, next) ==
    \/ /\ Len(phases) < PhaseCapacity
       /\ phases' = Append(phases, event) /\ loop' = next
    \/ /\ stopped
       /\ loop' = "closed" /\ UNCHANGED phases

(* From the second pass on the report starts empty, Discovery included.       *)
Reset ==
    /\ loop = "reset" /\ report' = Nothing /\ loop' = "announce"
    /\ UNCHANGED <<polling, pass, queues, model, stopped, program>>

SendRunning ==
    /\ loop = "announce" /\ sendPhase("running", "checks")
    /\ UNCHANGED <<polling, pass, report, results, dropped, model, stopped, program>>

(* A check adds a result: on the report, and on the channel if there is room. *)
addLiveResult ==
    /\ loop = "checks" /\ report[pass] < PerPass
    /\ report' = [report EXCEPT ![pass] = @ + 1]
    /\ IF Len(results) < Capacity
       THEN results' = Append(results, pass) /\ UNCHANGED dropped
       ELSE dropped' = dropped + 1 /\ UNCHANGED results
    /\ UNCHANGED <<polling, loop, pass, phases, model, stopped, program>>

(* cfg.Run returned: all its goroutines did.                                  *)
Ran ==
    /\ loop = "checks"
    /\ loop' = IF stopped THEN "closed" ELSE IF polling THEN "to_wait" ELSE "to_done"
    /\ UNCHANGED <<polling, pass, report, queues, model, stopped, program>>

SendDone ==
    /\ loop = "to_done" /\ sendPhase("done", "closed")
    /\ UNCHANGED <<polling, pass, report, results, dropped, model, stopped, program>>

SendWaiting ==
    /\ loop = "to_wait" /\ sendPhase("waiting", "waiting")
    /\ UNCHANGED <<polling, pass, report, results, dropped, model, stopped, program>>

PollAgain ==
    /\ loop = "waiting" /\ pass < MaxPasses
    /\ loop' = "reset" /\ pass' = pass + 1
    /\ UNCHANGED <<polling, report, queues, model, stopped, program>>

WaitCancelled ==
    /\ loop = "waiting" /\ stopped
    /\ loop' = "closed"
    /\ UNCHANGED <<polling, pass, report, queues, model, stopped, program>>

runLoop ==
    Reset \/ SendRunning \/ addLiveResult \/ Ran \/ SendDone \/ SendWaiting \/ PollAgain
    \/ WaitCancelled

------------------------------------------------------------------------------
(* The program: one message at a time, from whichever channel is ready.       *)

applyResult ==
    /\ program = "open" /\ results # <<>>
    /\ shown' = [shown EXCEPT ![Head(results)] = @ + 1]
    /\ results' = Tail(results)
    /\ UNCHANGED <<polling, loop, pass, report, dropped, phases, iteration, finished,
                   stopped, program>>

applyPhaseClearing ==   \* mutant: the first pass clears the view too
    /\ program = "open" /\ phases # <<>>
    /\ phases' = Tail(phases)
    /\ IF Head(phases) = "running"
       THEN shown' = Nothing /\ iteration' = iteration + 1 /\ UNCHANGED finished
       ELSE finished' = (finished \/ Head(phases) = "done") /\ UNCHANGED <<shown, iteration>>
    /\ UNCHANGED <<polling, loop, pass, report, results, dropped, stopped, program>>

applyPhase ==
    /\ program = "open" /\ phases # <<>>
    /\ phases' = Tail(phases)
    /\ IF Head(phases) = "running"
       THEN /\ shown' = IF iteration > 0 THEN Nothing ELSE shown
            /\ iteration' = iteration + 1
            /\ UNCHANGED finished
       ELSE /\ finished' = (finished \/ Head(phases) = "done")
            /\ UNCHANGED <<shown, iteration>>
    /\ UNCHANGED <<polling, loop, pass, report, results, dropped, stopped, program>>

phasesClosed ==
    /\ program = "open" /\ loop = "closed" /\ phases = <<>> /\ ~finished
    /\ finished' = TRUE
    /\ UNCHANGED <<polling, loop, pass, report, queues, shown, iteration, stopped, program>>

Update == applyResult \/ applyPhase \/ phasesClosed

(* A signal ends the command's own context, which the goroutine's derives     *)
(* from.                                                                      *)
Signalled ==
    /\ program = "open" /\ ~stopped /\ stopped' = TRUE
    /\ UNCHANGED <<polling, loop, pass, report, queues, model, program>>

(* q, esc or ctrl+c, or the command's own context: p.Run returns.             *)
Quit ==
    /\ program = "open" /\ program' = "quit"
    /\ UNCHANGED <<polling, loop, pass, report, queues, model, stopped>>

CancelRun ==
    /\ program = "quit" /\ program' = "draining" /\ stopped' = TRUE
    /\ UNCHANGED <<polling, loop, pass, report, queues, model>>

(* <-runDone                                                                  *)
RunTUIReturns ==
    /\ program = "draining" /\ loop = "closed" /\ program' = "returned"
    /\ UNCHANGED <<polling, loop, pass, report, queues, model, stopped>>

RunTUI == Signalled \/ Quit \/ CancelRun \/ RunTUIReturns

LiveNext == runLoop \/ Update \/ RunTUI

LiveSpec == LiveInit /\ [][LiveNext]_liveVars

(* The checks of a pass come to an end (RunEnds of Validation), the program   *)
(* serves both channels, RunTUI goes on, and a signal ends the program.       *)
(* Nobody has to quit, nothing has to be found, and a polling run may wait    *)
(* for ever.                                                                  *)
FairLoop ==
    /\ WF_liveVars(Reset) /\ WF_liveVars(SendRunning) /\ WF_liveVars(Ran)
    /\ WF_liveVars(SendDone) /\ WF_liveVars(SendWaiting) /\ WF_liveVars(WaitCancelled)
    /\ WF_liveVars(applyResult) /\ WF_liveVars(applyPhase) /\ WF_liveVars(phasesClosed)
    /\ WF_liveVars(stopped /\ Quit) /\ WF_liveVars(CancelRun) /\ WF_liveVars(RunTUIReturns)
LiveFairSpec == LiveSpec /\ FairLoop

------------------------------------------------------------------------------
LiveTypeOK ==
    /\ polling \in BOOLEAN /\ pass \in Pass /\ iteration \in Pass
    /\ loop \in {"reset", "announce", "checks", "to_wait", "to_done", "waiting", "closed"}
    /\ report \in [Pass -> Nat] /\ shown \in [Pass -> Nat]
    /\ results \in Seq(Pass) /\ Len(results) <= Capacity /\ dropped \in Nat
    /\ phases \in Seq({"running", "waiting", "done"}) /\ Len(phases) <= PhaseCapacity
    /\ finished \in BOOLEAN /\ stopped \in BOOLEAN
    /\ program \in {"open", "quit", "draining", "returned"}

(* The types, and: when everything that was sent has been shown, a one-shot run's dashboard   *)
(* counts exactly what is on the report it saves, Discovery's rows included,  *)
(* unless an update found the channel full.                                   *)
OneShotExact ==
    /\ LiveTypeOK
    /\ ~polling /\ finished /\ loop = "closed" /\ results = <<>> /\ dropped = 0 => shown = report

(* The report is settled when RunTUI hands control back: it is saved and      *)
(* decides the exit code while no check adds to it.                           *)
ReportSettled == [][program = "returned" => UNCHANGED report]_liveVars

(* Quitting, or a signal, ends the command at any point of a pass, of the     *)
(* wait between two and of a send that nobody receives any more.              *)
QuitReturns == program = "quit" \/ stopped ~> program = "returned"

(* A one-shot run that nobody quits ends up finished, with nothing unread.    *)
Finishes == ~polling ~> (program # "open" \/ (finished /\ results = <<>>))
==============================================================================
