----------------------------- MODULE CommandTurn -----------------------------
(***************************************************************************)
(* Inside one chat turn: the dreadgoad commands its agent or a slash       *)
(* command runs (command_runner.py), the operator's approval of the two    *)
(* protected ones (approvals.py), what a cancel does to each of them       *)
(* (chat_runtime.cancel_session), and what they write: the session's       *)
(* lifecycle status and the agent context that a new range root makes      *)
(* stale.                                                                  *)
(*                                                                         *)
(* An agent may call its tool several times in parallel; Calls are slots   *)
(* for the run_cli invocations of the turn, each a task of its own.  pc[c] *)
(* names the await a call is suspended on.  A cancelled task sees          *)
(* CancelledError at that await (creq).  Turns follow each other, one at a *)
(* time: that is SessionRuntime's TurnsSerialized.                         *)
(***************************************************************************)
EXTENDS Naturals, FiniteSets

CONSTANTS
    Calls,          \* slots for the run_cli calls of the running turn
    Commands,       \* the slash commands an instance exercises
    Ids,            \* approval ids (secrets.token_urlsafe: never repeated)
    None

\* commands.REGISTRY and approvals.REQUIRED_COMMANDS.
Registry == {"/up", "/provision", "/reset", "/start", "/stop", "/restart",
             "/destroy", "/instances", "/health", "/secure", "/validate",
             "/exec", "/score", "/scrub", "/variant", "/extensions", "/login"}
Protected    == {"/up", "/destroy"}
LongRunning  == {"/up", "/provision", "/reset", "/destroy", "/health", "/secure",
                 "/validate", "/exec"}
CloudOps     == {"/up", "/provision", "/reset", "/start", "/stop", "/restart",
                 "/destroy", "/exec", "/scrub", "/extensions"}
ChangesRange == {"/up", "/provision", "/variant"}

ASSUME CommandsAssumption == Commands \subseteq Registry
ASSUME NoneAssumption     == None \notin Ids /\ None \notin Registry

VARIABLES
    turn,       \* the turn: "idle", "model", "stopping" or "ending"
    cancelled,  \* TurnState.cancelled
    call,       \* per slot, the locals of run_cli and its callees:
                \*   pc         the await it is suspended on
                \*   cmd        the command
                \*   creq       its task was cancelled, not delivered yet
                \*   signalled  RunningCommand.cancelled of its subprocess
                \*   stopped    _RunResult.cancelled
                \*   raising    CancelledError is passing through a finally
                \*   stage      the capture of _finalize_command that runs
                \*   grant      the approval id it asked for
                \*   verdict    what approvals.require will return
    approval,   \* runtime.pending_approval: its id
    decision,   \* its future: "open", "yes" or "no"
    expired,    \* its 300 s timer has fired
    shown,      \* the command each id was issued for; None if not issued
    confirmed,  \* ids the operator has ever confirmed
    status,     \* the session document's status
    context,    \* the cached agent: "none", "fresh", or "stale"
    startable,  \* whether the CLI can always be executed; else a spawn may raise
                \* OSError
    clean       \* history: the turn began with a settled status and agent

turnVars == <<turn, cancelled>>
askVars  == <<approval, decision, expired, shown>>
effects  == <<status, context>>
history  == <<confirmed, clean, startable>>
vars     == <<turn, cancelled, call, approval, decision, expired, shown,
              confirmed, status, context, clean, startable>>

CallStates == {"idle", "prepare", "askEmit", "ask", "askEnd", "startEmit",
               "mark", "starting", "failing", "stream", "final", "endEmit",
               "capStart", "capture", "report"}
Stages     == {"none", "check", "recheck", "renew"}
Statuses   == {"running", "provisioning", "interrupted", "error", "destroyed"}

NoCall == [pc |-> "idle", cmd |-> None, creq |-> FALSE, signalled |-> FALSE,
           stopped |-> FALSE, raising |-> FALSE, stage |-> "none",
           grant |-> None, verdict |-> FALSE]

Init ==
    /\ turn = "idle" /\ cancelled = FALSE
    /\ call = [c \in Calls |-> NoCall]
    /\ approval = None /\ decision = "no" /\ expired = FALSE
    /\ shown = [i \in Ids |-> None]
    /\ confirmed = {}
    /\ status = "running" /\ context = "none" /\ clean = TRUE
    /\ startable \in BOOLEAN

At(c, state)   == call[c].pc = state /\ ~call[c].creq
Goto(c, state) == call' = [call EXCEPT ![c].pc = state]
Return(c)      == call' = [call EXCEPT ![c] = NoCall]

\* A capture is owned by the turn unless it cleans up after a cancelled command:
\* _capture_for_turn against _capture_for_refresh.
TurnOwned(c) == \/ call[c].stage = "check"
                \/ call[c].stage = "renew" /\ ~call[c].stopped

\* runtime.running and turn.commands_starting.  A start that failed is counted
\* until its error has been reported.
InRunning(c) == call[c].pc \in {"stream", "capture"}
Starting(c)  == \/ call[c].pc \in {"starting", "failing"}
                \/ call[c].pc = "capStart" /\ TurnOwned(c)

-----------------------------------------------------------------------------
(* The turn: agent generations between batches of tool calls. *)

\* dispatch and _get_agent: a cached agent is used as it is.
BeginTurn ==
    /\ turn = "idle"
    /\ turn' = "model" /\ cancelled' = FALSE
    /\ context' \in {context, IF context = "none" THEN "fresh" ELSE context}
    /\ clean' = (status # "provisioning" /\ context # "stale")
    /\ UNCHANGED <<call, askVars, confirmed, status, startable>>

Call(c) ==
    /\ turn = "model"
    /\ call[c].pc = "idle"
    /\ \E k \in Commands :
          call' = [call EXCEPT ![c].cmd = k,
                       ![c].pc = IF k = "/login" THEN "startEmit" ELSE "prepare"]
    /\ UNCHANGED <<turnVars, askVars, effects, history>>

\* The stream ends once its tool calls have; the thread is saved, agent_end sent.
EndTurn ==
    /\ turn \in {"model", "stopping"}
    /\ \A c \in Calls : call[c].pc = "idle"
    /\ turn' = "ending"
    /\ UNCHANGED <<cancelled, call, askVars, effects, history>>

TurnEnded ==
    /\ turn = "ending"
    /\ turn' = "idle"
    /\ UNCHANGED <<cancelled, call, askVars, effects, history>>

-----------------------------------------------------------------------------
(* Operator frames. *)

\* Mutant: commands are signalled only if nothing is starting.
SignalledUnlessStarting(c) ==
    \/ call[c].signalled
    \/ InRunning(c) /\ \A d \in Calls : ~Starting(d)

Signalled(c) == call[c].signalled \/ InRunning(c)

\* cancel_session: deny the pending approval, signal what runs, and cancel the
\* turn's task (with the calls it awaits) if nothing runs or starts.
Cancel ==
    LET taskToo == \A c \in Calls : ~InRunning(c) /\ ~Starting(c) IN
    /\ turn # "idle"
    /\ cancelled' = TRUE
    /\ decision' = IF approval # None /\ decision = "open" THEN "no" ELSE decision
    /\ call' = [c \in Calls |-> [call[c] EXCEPT
           !.signalled = Signalled(c),
           !.creq = @ \/ (taskToo /\ call[c].pc # "idle")]]
    /\ turn' = IF taskToo /\ turn = "model" THEN "stopping" ELSE turn
    /\ UNCHANGED <<approval, expired, shown, effects, history>>

\* Mutant: any pending approval is resolved, whatever id the frame names.
ResolvesAny(i) == approval # None /\ decision = "open"

\* resolve: the frame must name the pending approval, and be the first.
Resolves(i) == approval = i /\ decision = "open"

\* The operator answers an approval that was shown, now or in an old tab.
Answer(i, yes) ==
    /\ shown[i] # None
    /\ confirmed' = IF yes THEN confirmed \cup {i} ELSE confirmed
    /\ decision' = IF Resolves(i) THEN (IF yes THEN "yes" ELSE "no") ELSE decision
    /\ UNCHANGED <<turnVars, call, approval, expired, shown, effects, clean,
                   startable>>

-----------------------------------------------------------------------------
(* run_cli: prepare, approve. *)

\* _Aborted, or an exception, before anything was started.
PrepareFailed(c) ==
    /\ At(c, "prepare")
    /\ Return(c)
    /\ UNCHANGED <<turnVars, askVars, effects, history>>

\* require raises if another call waits for an answer; else it issues an id.
Prepared(c) ==
    /\ At(c, "prepare")
    /\ \/ /\ call[c].cmd \notin Protected
          /\ Goto(c, "startEmit")
          /\ UNCHANGED askVars
       \/ /\ call[c].cmd \in Protected /\ approval # None
          /\ Return(c)
          /\ UNCHANGED askVars
       \/ /\ call[c].cmd \in Protected /\ approval = None
          /\ \E i \in Ids :
                /\ shown[i] = None
                /\ approval' = i
                /\ call' = [call EXCEPT ![c].pc = "askEmit", ![c].grant = i]
                /\ shown' = [shown EXCEPT ![i] = call[c].cmd]
          /\ decision' = "open" /\ expired' = FALSE
    /\ UNCHANGED <<turnVars, effects, history>>

Asked(c) ==
    /\ At(c, "askEmit")
    /\ Goto(c, "ask")
    /\ UNCHANGED <<turnVars, askVars, effects, history>>

\* wait_for's timer; an answer may already be there, or arrive before the task
\* runs again.
Expire(c) ==
    /\ call[c].pc = "ask" /\ ~expired
    /\ expired' = TRUE
    /\ UNCHANGED <<turnVars, call, approval, decision, shown, effects, history>>

\* Mutant: a request that expired stays pending.
WithdrawInTime(c) == IF approval = call[c].grant /\ ~expired THEN None ELSE approval

\* The finally of require: the request is withdrawn before anything else.
Withdraw(c) == IF approval = call[c].grant THEN None ELSE approval

Decided(c) ==
    /\ At(c, "ask")
    /\ decision # "open" \/ expired
    /\ approval' = Withdraw(c)
    /\ call' = [call EXCEPT ![c].pc = "askEnd",
                    ![c].verdict = decision = "yes" /\ ~expired]
    /\ UNCHANGED <<turnVars, decision, expired, shown, effects, history>>

AskEnded(c) ==
    /\ At(c, "askEnd")
    /\ IF call[c].verdict THEN Goto(c, "startEmit") ELSE Return(c)
    /\ UNCHANGED <<turnVars, askVars, effects, history>>

-----------------------------------------------------------------------------
(* _spawn_and_stream. *)

\* The spawn itself does not suspend: it fails at once, or the process exists
\* (and may replace the range root) before start_command returns.
Spawn(c) ==
    \/ /\ Goto(c, "starting")
       /\ context' = IF call[c].cmd \in ChangesRange /\ context = "fresh"
                     THEN "stale" ELSE context
    \/ /\ ~startable
       /\ Goto(c, "failing")
       /\ UNCHANGED context

StartEmitted(c) ==
    /\ At(c, "startEmit")
    /\ IF call[c].cmd \in LongRunning
       THEN Goto(c, "mark") /\ UNCHANGED context
       ELSE Spawn(c)
    /\ UNCHANGED <<turnVars, askVars, status, history>>

\* set_status("provisioning"): a read and a write of the whole document.
Marked(c) ==
    /\ At(c, "mark")
    /\ status' = "provisioning"
    /\ Spawn(c)
    /\ UNCHANGED <<turnVars, askVars, history>>

\* Mutant: the failure is reported, the status is left as it is.
FailStatusKept(c) == status

FailStatus(c) == IF call[c].cmd \in LongRunning THEN "error" ELSE status

\* The OSError path: status and events, then the counter is decremented.
Failed(c) ==
    /\ At(c, "failing")
    /\ status' = FailStatus(c)
    /\ Return(c)
    /\ UNCHANGED <<turnVars, askVars, context, history>>

\* Mutant: a cancel that landed while the process was being created is missed.
StartUnsignalled(c) == FALSE

StartSignalled(c) == cancelled

Started(c) ==
    /\ At(c, "starting")
    /\ call' = [call EXCEPT ![c].pc = "stream", ![c].signalled = StartSignalled(c)]
    /\ UNCHANGED <<turnVars, askVars, effects, history>>

\* The process exits, its output is drained, the handle leaves running.
Streamed(c) ==
    /\ At(c, "stream")
    /\ Goto(c, IF call[c].cmd \in LongRunning THEN "final" ELSE "endEmit")
    /\ UNCHANGED <<turnVars, askVars, effects, history>>

\* final_status, for either exit code.
FinalStatuses(name, wasCancelled) ==
    IF wasCancelled THEN {"interrupted"}
    ELSE IF name \in {"/health", "/secure"} THEN {"running"}
    ELSE {"error", IF name = "/destroy" THEN "destroyed" ELSE "running"}

FinalMarked(c) ==
    /\ At(c, "final")
    /\ status' \in FinalStatuses(call[c].cmd, call[c].signalled)
    /\ Goto(c, "endEmit")
    /\ UNCHANGED <<turnVars, askVars, context, history>>

-----------------------------------------------------------------------------
(* _finalize_command.  A call that raises the operator's cancel makes its    *)
(* agent stop: no further generation, no further calls.                     *)

Leave(c, raises) ==
    /\ Return(c)
    /\ turn' = IF raises /\ turn = "model" THEN "stopping" ELSE turn

\* The outer finally: rebuild the range's artifacts if its root may have changed.
Finally(c, raises, stopped) ==
    IF call[c].cmd \in ChangesRange
    THEN /\ call' = [call EXCEPT ![c] = [@ EXCEPT
                !.pc = "capStart", !.stage = "renew", !.raising = raises,
                !.stopped = stopped, !.creq = FALSE]]
         /\ UNCHANGED turn
    ELSE Leave(c, raises)

\* The end event is sent; the result was cancelled if the process or the turn was.
EndEmitted(c) ==
    LET stopped == call[c].signalled \/ cancelled
        Capture(which, state) ==
            /\ call' = [call EXCEPT ![c] = [@ EXCEPT
                  !.pc = state, !.stage = which, !.stopped = stopped]]
            /\ UNCHANGED turn
    IN
    /\ At(c, "endEmit")
    /\ \/ call[c].cmd = "/login" /\ Leave(c, stopped)
       \/ /\ call[c].cmd # "/login" /\ stopped
          /\ IF call[c].cmd \in CloudOps THEN Capture("recheck", "capStart")
                                         ELSE Finally(c, TRUE, TRUE)
       \/ /\ call[c].cmd # "/login" /\ ~stopped
          /\ Capture("check", "capStart")
       \/ /\ call[c].cmd = "/instances" /\ ~stopped  \* its output is the inventory
          /\ Capture("check", "report")
    /\ UNCHANGED <<cancelled, askVars, effects, history>>

CaptureStarted(c) ==
    /\ At(c, "capStart")
    /\ call' = [call EXCEPT ![c].pc = "capture",
                    ![c].signalled = TurnOwned(c) /\ cancelled]
    /\ UNCHANGED <<turnVars, askVars, effects, history>>

\* An OSError is a failed read, which is not fatal.
CaptureNotStarted(c) ==
    /\ ~startable
    /\ At(c, "capStart")
    /\ Goto(c, "report")
    /\ UNCHANGED <<turnVars, askVars, effects, history>>

\* invalidate_range_context
Invalidate == context' = "none"

\* communicate() returns, or a refresh is killed after its 15 s.  A capture of a
\* cancelled turn raises; the others are read, and reported.
Captured(c) ==
    LET raises == TurnOwned(c) /\ (call[c].signalled \/ cancelled) IN
    /\ At(c, "capture")
    /\ \/ /\ ~raises
          /\ Goto(c, "report")
          /\ UNCHANGED <<turn, context>>
       \/ /\ raises /\ call[c].stage # "renew"
          /\ Finally(c, TRUE, call[c].stopped)
          /\ UNCHANGED context
       \/ /\ raises /\ call[c].stage = "renew"
          /\ Invalidate
          /\ Leave(c, TRUE)
    /\ UNCHANGED <<cancelled, askVars, status, history>>

Reported(c) ==
    /\ At(c, "report")
    /\ IF call[c].stage = "renew"
       THEN Invalidate /\ Leave(c, call[c].raising)
       ELSE /\ Finally(c, call[c].stage = "recheck", call[c].stopped)
            /\ UNCHANGED context
    /\ UNCHANGED <<cancelled, askVars, status, history>>

-----------------------------------------------------------------------------
\* CancelledError reaches the await the call is suspended on.  Only
\* _finalize_command has a finally that does more than withdraw a request; a
\* document write already handed to the database may still happen.
Unwind(c) ==
    /\ call[c].creq
    /\ IF call[c].pc \in {"capStart", "capture", "report"} /\ call[c].stage # "renew"
       THEN Finally(c, TRUE, call[c].stopped)
       ELSE Leave(c, TRUE)
    /\ IF call[c].stage = "renew" THEN Invalidate ELSE UNCHANGED context
    /\ approval' = IF call[c].pc \in {"askEmit", "ask"} THEN Withdraw(c)
                                                       ELSE approval
    /\ \/ UNCHANGED status
       \/ call[c].pc = "mark" /\ status' = "provisioning"
       \/ /\ call[c].pc = "final"
          /\ status' \in FinalStatuses(call[c].cmd, call[c].signalled)
    /\ UNCHANGED <<cancelled, decision, expired, shown, history>>

\* The backend dies and is started again: nothing in memory survives, and
\* reconcile_interrupted repairs the status.
Restart ==
    /\ turn' = "idle" /\ cancelled' = FALSE
    /\ call' = [c \in Calls |-> NoCall]
    /\ approval' = None /\ decision' = "no" /\ expired' = FALSE
    /\ status' = IF status = "provisioning" THEN "interrupted" ELSE status
    /\ context' = "none" /\ clean' = TRUE
    /\ UNCHANGED <<shown, confirmed, startable>>

-----------------------------------------------------------------------------
CallNext(c) ==
    \/ Call(c) \/ PrepareFailed(c) \/ Prepared(c) \/ Asked(c) \/ Expire(c)
    \/ Decided(c) \/ AskEnded(c) \/ StartEmitted(c) \/ Marked(c) \/ Failed(c)
    \/ Started(c) \/ Streamed(c) \/ FinalMarked(c) \/ EndEmitted(c)
    \/ CaptureStarted(c) \/ CaptureNotStarted(c) \/ Captured(c) \/ Reported(c)
    \/ Unwind(c)

Next ==
    \/ BeginTurn \/ EndTurn \/ TurnEnded \/ Cancel \/ Restart
    \/ \E i \in Ids, yes \in BOOLEAN : Answer(i, yes)
    \/ \E c \in Calls : CallNext(c)

(* A ready task runs, the database answers, timers fire, and a signalled      *)
(* process dies (SIGINT, then SIGKILL after its grace).  Nothing is assumed   *)
(* of a command nobody cancelled, of the model, or of the operator.           *)
Fairness ==
    /\ WF_vars(turn = "stopping" /\ EndTurn) /\ WF_vars(TurnEnded)
    /\ \A c \in Calls :
          /\ WF_vars(PrepareFailed(c) \/ Prepared(c)) /\ WF_vars(Asked(c))
          /\ WF_vars(Expire(c)) /\ WF_vars(Decided(c)) /\ WF_vars(AskEnded(c))
          /\ WF_vars(StartEmitted(c)) /\ WF_vars(Marked(c)) /\ WF_vars(Failed(c))
          /\ WF_vars(Started(c)) /\ WF_vars(call[c].signalled /\ Streamed(c))
          /\ WF_vars(FinalMarked(c)) /\ WF_vars(EndEmitted(c))
          /\ WF_vars(CaptureStarted(c))
          /\ WF_vars((call[c].signalled \/ ~TurnOwned(c)) /\ Captured(c))
          /\ WF_vars(Reported(c)) /\ WF_vars(Unwind(c))

Spec     == Init /\ [][Next]_vars
FairSpec == Spec /\ Fairness

-----------------------------------------------------------------------------
(* Every variable has its type. *)
TypeOK ==
    /\ turn \in {"idle", "model", "stopping", "ending"}
    /\ cancelled \in BOOLEAN
    /\ call \in [Calls -> [pc : CallStates, cmd : Commands \cup {None},
                           creq : BOOLEAN, signalled : BOOLEAN,
                           stopped : BOOLEAN, raising : BOOLEAN, stage : Stages,
                           grant : Ids \cup {None}, verdict : BOOLEAN]]
    /\ approval \in Ids \cup {None}
    /\ decision \in {"open", "yes", "no"}
    /\ expired \in BOOLEAN
    /\ shown \in [Ids -> Commands \cup {None}]
    /\ confirmed \subseteq Ids
    /\ status \in Statuses
    /\ context \in {"none", "fresh", "stale"}
    /\ clean \in BOOLEAN /\ startable \in BOOLEAN

\* From the spawn of a call's command to the end of the call.
Spawned(c) ==
    call[c].pc \notin {"idle", "prepare", "askEmit", "ask", "askEnd"}

(* A protected command reaches its spawn only with an id that was issued for *)
(* that command and that the operator confirmed, whatever frames for older   *)
(* requests arrive, in whatever order with the timer and a cancel; and no    *)
(* two calls share an id (SECURITY.md: "a separate, exact, single-use        *)
(* approval ... fails closed").                                              *)
ApprovedSpawn ==
    \A c \in Calls : Spawned(c) /\ call[c].cmd \in Protected =>
        /\ call[c].grant \in confirmed
        /\ shown[call[c].grant] = call[c].cmd
        /\ \A d \in Calls \ {c} : call[d].grant # call[c].grant

(* A pending request belongs to a call that waits for it: whichever way the  *)
(* call ends, the next protected command can ask again (approvals.require).  *)
PendingOwned ==
    approval # None =>
        \E c \in Calls : /\ call[c].grant = approval
                         /\ call[c].pc \in {"askEmit", "ask"}

(* Approval is exact and ends with its call; and the types.                  *)
ApprovalExact == TypeOK /\ ApprovedSpawn /\ PendingOwned

(* Every subprocess the turn owns has been signalled once the turn is        *)
(* cancelled, even one that was being created when the cancel came.          *)
CancelReachesCommands ==
    cancelled => \A c \in Calls :
        (call[c].pc = "stream" \/ (call[c].pc = "capture" /\ TurnOwned(c)))
            => call[c].signalled

(* A turn nobody cancelled does not leave the session "provisioning", nor an *)
(* agent built for the old range root to the next turn, whichever commands   *)
(* ran in parallel and whichever failed to start.                            *)
TurnSettles ==
    turn = "idle" /\ ~cancelled /\ clean =>
        status # "provisioning" /\ context # "stale"

(* A cancelled turn ends: nothing it awaits can hold it, not an approval, a  *)
(* command that ignores SIGINT, or the refresh after a cancelled command.    *)
(* (Where a start fails, a cancel may be lost: Failed and CaptureNotStarted  *)
(* do not look at it.)                                                       *)
CancelEndsIfStarted ==
    startable /\ cancelled /\ turn # "idle" ~> turn = "idle"

(* A request for approval is withdrawn in the end, answered or not.          *)
RequestEnds == approval # None ~> approval = None

(* Nothing a turn waits for holds the session: neither a cancelled turn nor  *)
(* a request for approval is there forever.                                  *)
CancelAndRequestEnd == CancelEndsIfStarted /\ RequestEnds
=============================================================================
