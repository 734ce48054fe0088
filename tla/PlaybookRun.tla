----------------------------- MODULE PlaybookRun -----------------------------
(***************************************************************************)
(* One RunPlaybook call of internal/ansible/runner.go: ansible-playbook    *)
(* and the workers it forks, in a process group of their own; the          *)
(* goroutine that scans its stdout; the watchdog goroutine that kills the  *)
(* group when the output stalls; os/exec, which kills the leader when the  *)
(* context is cancelled; and the caller, which waits for all of them.      *)
(*                                                                         *)
(* Time is the watchdog's 5 s ticker: IdleTicks ticks without output are   *)
(* the idle timeout.  The pipe holds lines; a "long" one does not fit in   *)
(* the scanner's 1 MB buffer.  stderr goes through a goroutine of os/exec  *)
(* that ends when its last writer has exited.                              *)
(***************************************************************************)
EXTENDS Naturals, Sequences

CONSTANTS
    Workers,    \* processes ansible-playbook may fork
    IdleTicks,  \* the idle timeout, in ticks
    PipeSize    \* lines the pipe holds before a writer blocks

VARIABLES
    main,       \* where RunPlaybook is
    leader,     \* ansible-playbook: "none", "running", "exited" or "reaped"
    code,       \* how it exited: "ok", "fail", "killed" or "none"
    forked, workers,    \* workers ever forked, and alive
    pipe,       \* unread lines of stdout
    scanner,    \* "reading" or "stopped" (doneCh closed)
    watchdog,   \* "none", "watching", "kill", "term" or "done"
    fresh,      \* bytesWritten has grown since the watchdog's last look
    quiet,      \* ticks since lastActivity
    silent,     \* history: ticks since a line was read
    timedOut,   \* the bool the watchdog shares with the caller
    cancelled,  \* ctx.Done()
    result      \* "none", "ok", "fail" or "timeout"

procs    == <<leader, code, forked, workers>>
watching == <<watchdog, fresh, quiet, silent, timedOut>>
vars     == <<main, leader, code, forked, workers, pipe, scanner, watchdog,
              fresh, quiet, silent, timedOut, cancelled, result>>

Init ==
    /\ main = "start"
    /\ leader = "none" /\ code = "none"
    /\ forked = {} /\ workers = {}
    /\ pipe = <<>> /\ scanner = "reading"
    /\ watchdog = "none" /\ fresh = FALSE /\ quiet = 0 /\ silent = 0
    /\ timedOut = FALSE
    /\ cancelled = FALSE
    /\ result = "none"

-----------------------------------------------------------------------------
(* The caller. *)

\* cmd.Start fails, at the latest on a context that is already cancelled.
StartFailed ==
    /\ main = "start"
    /\ main' = "returned" /\ result' = "fail"
    /\ UNCHANGED <<procs, pipe, scanner, watching, cancelled>>

Started ==
    /\ main = "start" /\ ~cancelled
    /\ main' = "scanning"
    /\ leader' = "running" /\ watchdog' = "watching"
    /\ UNCHANGED <<code, forked, workers, pipe, scanner, fresh, quiet, silent,
                   timedOut, cancelled, result>>

\* <-doneCh
ScanDone ==
    /\ main = "scanning" /\ scanner = "stopped"
    /\ main' = "waiting"
    /\ UNCHANGED <<procs, pipe, scanner, watching, cancelled, result>>

\* cmd.Wait reaps the leader ...
Reaped ==
    /\ main = "waiting" /\ leader = "exited"
    /\ leader' = "reaped" /\ main' = "copying"
    /\ UNCHANGED <<code, forked, workers, pipe, scanner, watching, cancelled, result>>

\* Mutant: stderr is a file, so that Wait has no copy to wait for.
StderrClosedAtOnce == TRUE

StderrClosed == workers = {}

\* ... and waits for the copy of stderr; then the flag is read.  Exit status 0
\* is a success unless the output reports failures.
Returned ==
    /\ main = "copying" /\ StderrClosed
    /\ main' = "returned"
    /\ result' \in IF timedOut THEN {"timeout"}
                   ELSE IF code = "ok" THEN {"ok", "fail"} ELSE {"fail"}
    /\ UNCHANGED <<procs, pipe, scanner, watching, cancelled>>

-----------------------------------------------------------------------------
(* The process group. *)

Alive == leader = "running" \/ workers # {}

Fork(w) ==
    /\ leader = "running" /\ w \notin forked
    /\ forked' = forked \cup {w} /\ workers' = workers \cup {w}
    /\ UNCHANGED <<main, leader, code, pipe, scanner, watching, cancelled, result>>

\* The leader or a worker prints a line on the stdout they share.
Write ==
    /\ Alive
    /\ Len(pipe) < PipeSize
    /\ \E line \in {"line", "long"} : pipe' = Append(pipe, line)
    /\ UNCHANGED <<main, procs, scanner, watching, cancelled, result>>

LeaderExit ==
    /\ leader = "running"
    /\ leader' = "exited" /\ code' \in {"ok", "fail"}
    /\ UNCHANGED <<main, forked, workers, pipe, scanner, watching, cancelled, result>>

WorkerExit(w) ==
    /\ w \in workers
    /\ workers' = workers \ {w}
    /\ UNCHANGED <<main, leader, code, forked, pipe, scanner, watching, cancelled, result>>

Cancel ==
    /\ ~cancelled
    /\ cancelled' = TRUE
    /\ UNCHANGED <<main, procs, pipe, scanner, watching, result>>

\* exec.CommandContext kills the process it started, not its group.
CancelKill ==
    /\ cancelled /\ leader = "running"
    /\ leader' = "exited" /\ code' = "killed"
    /\ UNCHANGED <<main, forked, workers, pipe, scanner, watching, cancelled, result>>

-----------------------------------------------------------------------------
(* The scanner. *)

\* Scan returns false at the first line that does not fit, without draining.
Scan ==
    /\ leader # "none" /\ scanner = "reading" /\ pipe # <<>>
    /\ pipe' = Tail(pipe)
    /\ IF Head(pipe) = "line"
       THEN fresh' = TRUE /\ silent' = 0 /\ UNCHANGED scanner
       ELSE scanner' = "stopped" /\ UNCHANGED <<fresh, silent>>
    /\ UNCHANGED <<main, procs, watchdog, quiet, timedOut, cancelled, result>>

ScanEOF ==
    /\ leader \in {"exited", "reaped"} /\ workers = {}
    /\ scanner = "reading" /\ pipe = <<>>
    /\ scanner' = "stopped"
    /\ UNCHANGED <<main, procs, pipe, watching, cancelled, result>>

-----------------------------------------------------------------------------
(* monitorIdleTimeout. *)

\* doneCh is closed, or ctx is done.
WatchOver == scanner = "stopped" \/ cancelled

WatchEnds ==
    /\ watchdog = "watching" /\ WatchOver
    /\ watchdog' = "done"
    /\ UNCHANGED <<main, procs, pipe, scanner, fresh, quiet, silent, timedOut,
                   cancelled, result>>

\* Mutants: output does not set the time of the last activity, or clears it.

QuietAfterOutput == 0

\* Of the ready cases a select takes any, so one tick may still win when the
\* watch is over.
Tick ==
    /\ watchdog = "watching"
    /\ silent' = IF silent < IdleTicks THEN silent + 1 ELSE silent
    /\ IF ~fresh /\ quiet = IdleTicks
       THEN /\ timedOut' = TRUE /\ watchdog' = "kill"
            /\ UNCHANGED <<fresh, quiet>>
       ELSE /\ quiet' = IF fresh THEN QuietAfterOutput ELSE quiet + 1
            /\ fresh' = FALSE
            /\ watchdog' = IF WatchOver THEN "done" ELSE "watching"
            /\ UNCHANGED timedOut
    /\ UNCHANGED <<main, procs, pipe, scanner, cancelled, result>>

\* killProcessGroup: SIGTERM, which a process may ignore; a leader that has been
\* reaped has no group any more.
Term ==
    /\ watchdog = "kill"
    /\ \/ /\ leader = "reaped"
          /\ watchdog' = "done"
          /\ UNCHANGED <<leader, code, workers>>
       \/ /\ leader # "reaped"
          /\ watchdog' = "term"
          /\ workers' \in SUBSET workers
          /\ \/ UNCHANGED <<leader, code>>
             \/ leader = "running" /\ leader' = "exited" /\ code' = "killed"
    /\ UNCHANGED <<main, forked, pipe, scanner, fresh, quiet, silent, timedOut,
                   cancelled, result>>

\* Mutant: SIGKILL goes to the leader alone.
KilledLeader == UNCHANGED workers

KilledGroup == workers' = {}

\* ... and SIGKILL two seconds later.
Kill ==
    /\ watchdog = "term"
    /\ watchdog' = "done"
    /\ KilledGroup
    /\ IF leader = "running" THEN leader' = "exited" /\ code' = "killed"
                             ELSE UNCHANGED <<leader, code>>
    /\ UNCHANGED <<main, forked, pipe, scanner, fresh, quiet, silent, timedOut,
                   cancelled, result>>

\* Nothing is left of the call.
Over ==
    /\ main = "returned"
    /\ UNCHANGED vars

-----------------------------------------------------------------------------
Next ==
    \/ StartFailed \/ Started \/ ScanDone \/ Reaped \/ Returned
    \/ Write \/ LeaderExit \/ Cancel \/ CancelKill
    \/ \E w \in Workers : Fork(w) \/ WorkerExit(w)
    \/ Scan \/ ScanEOF \/ WatchEnds \/ Tick \/ Term \/ Kill \/ Over

(* The goroutines run, the ticker ticks and signals are delivered.  Nothing *)
(* makes the playbook print, fork or exit.                                  *)
Fairness ==
    /\ WF_vars(StartFailed \/ Started) /\ WF_vars(ScanDone) /\ WF_vars(Reaped)
    /\ WF_vars(Returned) /\ WF_vars(CancelKill) /\ WF_vars(Scan)
    /\ WF_vars(ScanEOF) /\ WF_vars(WatchEnds) /\ WF_vars(Tick)
    /\ WF_vars(Term) /\ WF_vars(Kill)

Spec     == Init /\ [][Next]_vars
FairSpec == Spec /\ Fairness

-----------------------------------------------------------------------------
(* Every variable has its type. *)
TypeOK ==
    /\ main \in {"start", "scanning", "waiting", "copying", "returned"}
    /\ leader \in {"none", "running", "exited", "reaped"}
    /\ code \in {"none", "ok", "fail", "killed"}
    /\ forked \subseteq Workers /\ workers \subseteq forked
    /\ pipe \in Seq({"line", "long"}) /\ Len(pipe) <= PipeSize
    /\ scanner \in {"reading", "stopped"}
    /\ watchdog \in {"none", "watching", "kill", "term", "done"}
    /\ fresh \in BOOLEAN
    /\ quiet \in 0..IdleTicks /\ silent \in 0..IdleTicks
    /\ timedOut \in BOOLEAN /\ cancelled \in BOOLEAN
    /\ result \in {"none", "ok", "fail", "timeout"}

(* RunPlaybook returns only when no process of the playbook is left, however *)
(* the run ended: a retry never runs beside the workers of the attempt it    *)
(* replaces ("Set process group so we can kill the entire tree").            *)
NothingLeft ==
    main = "returned" => leader \in {"none", "reaped"} /\ workers = {}

(* The watchdog strikes only after a whole idle timeout in which no line was *)
(* read, whichever way its looks interleave with the scanner.                *)
TimeoutJustified ==
    [][timedOut' # timedOut => silent = IdleTicks]_vars

\* Nothing ends the watchdog before the playbook: no interrupt, and no line
\* that ends the scan early.
Watched ==
    /\ ~cancelled
    /\ scanner = "stopped" => leader # "running" /\ workers = {}

(* A playbook that prints no more does not hold the call for ever, whatever  *)
(* ignores SIGTERM, as long as nothing else ends its watchdog                *)
(* (monitorIdleTimeout "watches for output stalls and kills the process if   *)
(* idle too long").                                                          *)
StallEnds == []Watched => <>(main = "returned") \/ []<><<Write>>_vars
=============================================================================
