--------------------------- MODULE RunningCommand ---------------------------
(***************************************************************************)
(* RunningCommand of the console's cli.py: a CLI process in a process      *)
(* group of its own, with the helpers it leaves behind; stream_lines or    *)
(* communicate, which reads its output; the task that escalates a cancel   *)
(* from SIGINT to SIGKILL; and the callers that cancel it.                 *)
(*                                                                         *)
(* Every timeout may expire at any moment once it runs.  SIGINT and        *)
(* SIGTERM let a process exit, which it may do anyway; only SIGKILL forces *)
(* it to.  Helpers stay in the group and hold the output pipe.             *)
(***************************************************************************)
EXTENDS Naturals

CONSTANTS
    Helpers,    \* processes the CLI may start
    PipeSize    \* bound: unread lines

ASSUME PipeAssumption == PipeSize \in Nat

VARIABLES
    mode,       \* "stream" (stream_lines) or "capture" (communicate)
    leader,     \* the CLI: "running", "exited", or "reaped": returncode is set
    code,       \* how it ended: "none", "ok", "fail" or "killed"
    open,       \* the CLI has not closed its stdout
    helpers,    \* helpers alive
    lines,      \* unread lines
    cancelled, closed,  \* the fields of those names
    killTask,   \* "none", or "sleeping" through the grace
    reader,     \* "reading", "draining", "exit" (waits for it) or "done"
    deadline,   \* the drain budget: "none", "set" or "passed"
    torn,       \* the reading task has been cancelled
    reported,   \* the exit code the caller sees
    abandoned   \* history: the wait for the exit was given up

process  == <<leader, code, open, helpers>>
handle   == <<cancelled, closed, killTask>>
reading  == <<reader, deadline, reported, abandoned>>
vars     == <<mode, process, lines, handle, reading, torn>>

Init ==
    /\ mode \in {"stream", "capture"}
    /\ leader = "running" /\ code = "none" /\ open = TRUE
    /\ helpers = {} /\ lines = 0
    /\ cancelled = FALSE /\ closed = FALSE /\ killTask = "none"
    /\ reader = "reading" /\ deadline = "none"
    /\ torn = FALSE /\ reported = "none" /\ abandoned = FALSE

-----------------------------------------------------------------------------
(* The processes. *)

Reaped == leader = "reaped"
Held   == helpers # {} \/ (leader = "running" /\ open)  \* someone can write

Fork(h) ==
    /\ leader = "running" /\ helpers' = helpers \cup {h}
    /\ UNCHANGED <<mode, leader, code, open, lines, handle, reading, torn>>

Output ==
    /\ mode = "stream" /\ Held /\ lines < PipeSize
    /\ lines' = lines + 1
    /\ UNCHANGED <<mode, process, handle, reading, torn>>

CloseStdout ==
    /\ leader = "running" /\ open' = FALSE
    /\ UNCHANGED <<mode, leader, code, helpers, lines, handle, reading, torn>>

LeaderExit ==
    /\ leader = "running"
    /\ leader' = "exited" /\ code' \in {"ok", "fail"}
    /\ UNCHANGED <<mode, open, helpers, lines, handle, reading, torn>>

HelperExit(h) ==
    /\ h \in helpers /\ helpers' = helpers \ {h}
    /\ UNCHANGED <<mode, leader, code, open, lines, handle, reading, torn>>

\* asyncio's child watcher sets returncode.
Watch ==
    /\ leader = "exited" /\ leader' = "reaped"
    /\ UNCHANGED <<mode, code, open, helpers, lines, handle, reading, torn>>

KilledLeader ==         \* mutant: signals the process, not its group
    /\ UNCHANGED <<helpers, open>>
    /\ IF leader = "running" THEN leader' = "exited" /\ code' = "killed"
                             ELSE UNCHANGED <<leader, code>>

\* _killpg(SIGKILL)
Killed ==
    /\ helpers' = {} /\ UNCHANGED open
    /\ IF leader = "running" THEN leader' = "exited" /\ code' = "killed"
                             ELSE UNCHANGED <<leader, code>>

-----------------------------------------------------------------------------
(* Cancelling. *)

\* cancel: SIGINT now, SIGKILL after the grace.
Interrupted ==
    IF closed THEN UNCHANGED handle
    ELSE cancelled' = TRUE /\ killTask' = "sleeping" /\ UNCHANGED closed

\* The turn is cancelled while the command is among the running ones.
Cancel ==
    /\ reader # "done" /\ Interrupted
    /\ UNCHANGED <<mode, process, lines, reading, torn>>

\* _force_kill_after, when the grace is over.
Escalate ==
    /\ killTask = "sleeping" /\ killTask' = "none"
    /\ IF cancelled /\ ~closed THEN Killed ELSE UNCHANGED process
    /\ UNCHANGED <<mode, lines, cancelled, closed, reading, torn>>

\* force_kill
Forced ==
    IF closed THEN UNCHANGED <<process, handle>>
    ELSE cancelled' = TRUE /\ killTask' = "none" /\ Killed /\ UNCHANGED closed

\* Shutdown force-kills the running commands, then cancels the turn's task.
ShutDown ==
    /\ reader # "done" /\ ~torn /\ torn' = TRUE
    /\ Forced
    /\ UNCHANGED <<mode, lines, reading>>

\* The post-cancel refresh gives its capture up after _REFRESH_TIMEOUT.
RefreshTimeout ==
    /\ mode = "capture" /\ reader # "done" /\ ~torn /\ torn' = TRUE
    /\ UNCHANGED <<mode, process, lines, handle, reading>>

-----------------------------------------------------------------------------
(* _reap_group, and what the caller then reads from returncode. *)

Disarmed == killTask' = "none"

\* Nothing before returncode is set.  SIGTERM, or SIGKILL for a cancelled command;
\* with force, the group has been sent SIGKILL already.
ReapGroup(force) ==
    /\ IF force \/ (Reaped /\ cancelled) THEN Killed ELSE UNCHANGED process
    /\ IF Reaped THEN Disarmed /\ closed' = TRUE ELSE UNCHANGED <<killTask, closed>>
    /\ UNCHANGED cancelled

\* returncode: 0 also while the process has none.
Done ==
    /\ reader' = "done" /\ abandoned' = (reader = "exit" /\ ~Reaped)
    /\ reported' = IF Reaped THEN code ELSE "ok"
    /\ UNCHANGED <<mode, deadline>>

-----------------------------------------------------------------------------
(* stream_lines *)

\* The loop's end: whoever still runs is given _EXIT_GRACE to exit.
Leave ==
    IF Reaped THEN ReapGroup(FALSE) /\ Done
    ELSE /\ reader' = "exit"
         /\ UNCHANGED <<mode, process, handle, deadline, reported, abandoned>>

LateChecked == deadline = "passed" /\ lines = 0     \* mutant: only after a read timed out

Overdue == deadline = "passed"

\* One round of the loop: the budget, a line, the pipe's end, or a read that times out.
Poll ==
    /\ mode = "stream" /\ reader = "reading" /\ ~torn
    /\ \/ Overdue /\ Leave /\ UNCHANGED lines
       \/ ~Overdue /\ lines = 0 /\ ~Held /\ Leave /\ UNCHANGED lines
       \/ /\ ~Overdue /\ (lines > 0 \/ Held)
          /\ lines' = IF lines > 0 THEN lines - 1 ELSE 0
          /\ deadline' = IF Reaped /\ deadline = "none" THEN "set" ELSE deadline
          /\ UNCHANGED <<mode, process, handle, reader, reported, abandoned>>
    /\ UNCHANGED torn

DeadlinePasses ==
    /\ deadline = "set" /\ deadline' = "passed"
    /\ UNCHANGED <<mode, process, lines, handle, reader, reported, abandoned, torn>>

\* The task's cancellation ends the loop.
StreamTorn ==
    /\ mode = "stream" /\ reader = "reading" /\ torn
    /\ torn' = FALSE /\ Leave /\ UNCHANGED lines

\* proc.wait() returns when the process is gone and its pipe is closed.
ExitSeen ==
    /\ mode = "stream" /\ reader = "exit" /\ Reaped /\ ~Held
    /\ ReapGroup(FALSE) /\ Done
    /\ UNCHANGED <<lines, torn>>

\* Else the group is killed, after _EXIT_GRACE or when the task is cancelled, which
\* the except clause swallows.
ExitGrace ==
    /\ mode = "stream" /\ reader = "exit"
    /\ ReapGroup(TRUE) /\ Done
    /\ torn' = FALSE /\ UNCHANGED lines

-----------------------------------------------------------------------------
(* communicate *)

\* Once returncode is set the readers get _DRAIN_BUDGET to reach the pipes' end.
Captured ==
    /\ mode = "capture" /\ reader = "reading" /\ ~torn /\ Reaped
    /\ reader' = "draining" /\ deadline' = "set"
    /\ UNCHANGED <<mode, process, lines, handle, reported, abandoned, torn>>

Drained ==
    /\ mode = "capture" /\ reader = "draining" /\ ~torn
    /\ ~Held \/ deadline = "passed"
    /\ ReapGroup(FALSE) /\ Done
    /\ UNCHANGED <<lines, torn>>

\* Cancelled: force_kill, and _FORCE_REAP_GRACE for the exit status.
CaptureTorn ==
    /\ mode = "capture" /\ reader \in {"reading", "draining"} /\ torn
    /\ Forced /\ reader' = "exit" /\ torn' = FALSE
    /\ UNCHANGED <<mode, lines, deadline, reported, abandoned>>

CaptureReaped ==
    /\ mode = "capture" /\ reader = "exit"
    /\ ReapGroup(FALSE) /\ Done
    /\ UNCHANGED <<lines, torn>>

\* The refresh cancels the command once communicate has raised.
CancelAfter ==
    /\ mode = "capture" /\ reader = "done" /\ cancelled /\ Interrupted
    /\ UNCHANGED <<mode, process, lines, reading, torn>>

-----------------------------------------------------------------------------

ReaderNext ==
    \/ Poll \/ StreamTorn \/ ExitSeen \/ ExitGrace
    \/ Captured \/ Drained \/ CaptureTorn \/ CaptureReaped

Next ==
    \/ \E h \in Helpers : Fork(h) \/ HelperExit(h)
    \/ Output \/ CloseStdout \/ LeaderExit \/ Watch
    \/ Cancel \/ Escalate \/ ShutDown \/ RefreshTimeout
    \/ DeadlinePasses \/ ReaderNext \/ CancelAfter

\* The event loop runs what is ready and its timers, the kernel reaps; nothing makes
\* the processes exit.
Fairness ==
    /\ WF_vars(Watch) /\ WF_vars(Escalate)
    /\ WF_vars(DeadlinePasses) /\ WF_vars(ReaderNext)
Spec == Init /\ [][Next]_vars /\ Fairness

-----------------------------------------------------------------------------
(* Properties. *)

\* Types.
TypeOK ==
    /\ leader \in {"running", "exited", "reaped"}
    /\ code \in {"none", "ok", "fail", "killed"} /\ (code = "none" <=> leader = "running")
    /\ helpers \subseteq Helpers /\ lines \in 0 .. PipeSize
    /\ open \in BOOLEAN /\ cancelled \in BOOLEAN /\ closed \in BOOLEAN
    /\ torn \in BOOLEAN /\ abandoned \in BOOLEAN
    /\ killTask \in {"none", "sleeping"}
    /\ reader \in {"reading", "draining", "exit", "done"}
    /\ deadline \in {"none", "set", "passed"}
    /\ reported \in {"none", "ok", "fail", "killed"}

\* "A cancelled run must leave no helper behind" (_reap_group), nor the CLI itself,
\* whichever of the reader, the escalation and the shutdown comes first.
NothingLeft ==
    reader = "done" /\ cancelled => helpers = {} /\ leader # "running"

\* The caller reads the code the process really ended with, although the pipe may
\* close before the exit is seen.  Unless the wait for the exit was given up: the
\* code is then 0.
ExitReported == reader = "done" /\ ~abandoned => reported = code

\* Once the command is over nothing is armed that would signal its old group id,
\* which may belong to others by then (force_kill's comment), even if it is
\* cancelled again.  The same exception.
Disarms == reader = "done" /\ ~abandoned => killTask = "none"

\* What a command leaves behind, whichever of the reader, the escalation and the
\* shutdown ends it: its own exit code, no process once it was cancelled, and
\* nothing armed against its group; and the types.
EndsClean == TypeOK /\ NothingLeft /\ ExitReported /\ Disarms

\* Reading ends after the CLI does, though helpers hold the pipe or keep writing,
\* and after a cancel, though the CLI ignores SIGINT.
StreamEnds == leader # "running" \/ cancelled ~> reader = "done"
=============================================================================
