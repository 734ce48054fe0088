--------------------------- MODULE SessionRuntime ---------------------------
(***************************************************************************)
(* One console session as the backend's event loop sees it: the runtime    *)
(* object of chat_runtime.py, turn admission and the turn task of chat.py, *)
(* the WebSocket loop of chat_socket.py, the DELETE and PUT model requests  *)
(* of session_routes.py, and the server's shutdown.                        *)
(*                                                                         *)
(* asyncio runs one coroutine at a time, so an action is the code between  *)
(* two awaits.  pc[p] names the await at which coroutine p is suspended.   *)
(* The database runs its jobs on one worker thread in the order they were  *)
(* submitted (db.py): "waiting" holds the coroutines with a job in that    *)
(* queue and ahead[p] those whose job precedes p's.  A job's effect and    *)
(* its caller's resumption are one step: what it wrote is visible only to  *)
(* later jobs, which resume later.                                         *)
(*                                                                         *)
(* Turn, swap and delete identities are slots: a finished one is reused,   *)
(* so behaviours are unbounded.  What a command does inside a turn is the  *)
(* subject of CommandTurn.                                                 *)
(***************************************************************************)
EXTENDS Naturals, FiniteSets

CONSTANTS
    Sockets,    \* browser connections to /ws/chat
    Turns,      \* slots for admitted chat turns
    Swaps,      \* PUT /api/sessions/{id}/model requests
    Deletes,    \* DELETE /api/sessions/{id} requests
    Server,     \* the application's lifespan, which shuts the runtime down
    Runtimes,   \* SessionRuntime objects
    StartMayFail,   \* whether a command's subprocess may fail to start
    None

Procs == Sockets \cup Turns \cup Swaps \cup Deletes \cup {Server}

ASSUME NoneAssumption ==
    /\ None \notin Procs
    /\ None \notin Runtimes

ASSUME StartAssumption == StartMayFail \in BOOLEAN

ASSUME RolesAssumption ==
    /\ Sockets \cap Turns = {} /\ Sockets \cap Swaps = {} /\ Sockets \cap Deletes = {}
    /\ Turns \cap Swaps = {} /\ Turns \cap Deletes = {} /\ Swaps \cap Deletes = {}
    /\ Server \notin Sockets \cup Turns \cup Swaps \cup Deletes

VARIABLES
    rt,         \* runtimes.get(session_id): the registered object, or None
    conn,       \* conn[r]: its current socket
    turnOf,     \* turnOf[r]: its admitted turn
    agent,      \* agent[r]: whether it holds a live agent
    closing,    \* closing[r]: reserved for deletion or shutdown
    lock,       \* lock[r]: the coroutine that holds its asyncio.Lock
    pc, ref,    \* per coroutine: its await, and the runtime object it captured
    cancelled,  \* TurnState.cancelled
    cancelReq,  \* task.cancel() was called and is not delivered yet
    waiting, ahead,         \* the database worker's queue
    row, dir, thread,       \* the session's row, directory, persisted thread
    deleted     \* history: a DELETE answered {"deleted": id}

rtVars   == <<rt, conn, turnOf, agent, closing>>
taskVars == <<cancelled, cancelReq>>
dbVars   == <<waiting, ahead>>
store    == <<row, dir, thread, deleted>>
vars     == <<rt, conn, turnOf, agent, closing, lock, pc, ref, cancelled,
              cancelReq, waiting, ahead, row, dir, thread, deleted>>

SocketStates == {"closed", "recv", "lookup"}
TurnStates   == {"idle", "created", "lockwait", "emit", "work", "command",
                 "saving", "ending", "callback"}
SwapStates   == {"idle", "lockwait", "get", "put", "save", "note"}
DeleteStates == {"idle", "check", "reget", "rmtree", "purge"}
ServerStates == {"up", "waiting", "reaping", "down"}

\* The awaits that wait for a database job.
DbStates == {"lookup", "emit", "saving", "ending", "get", "put", "save", "note",
             "check", "reget", "purge"}

\* A turn that has been admitted and whose coroutine has not left its finally.
LiveStates     == TurnStates \ {"idle", "callback"}
PipelineStates == {"emit", "work", "command", "saving"}    \* inside handle_message
Live(t)        == pc[t] \in LiveStates
InPipeline(t)  == pc[t] \in PipelineStates
InSwap(w)      == pc[w] \in {"get", "put", "save"}
Reserved(d)    == pc[d] \in {"reget", "rmtree", "purge"}

Init ==
    /\ rt = None
    /\ conn = [r \in Runtimes |-> None]
    /\ turnOf = [r \in Runtimes |-> None]
    /\ agent = [r \in Runtimes |-> FALSE]
    /\ closing = [r \in Runtimes |-> FALSE]
    /\ lock = [r \in Runtimes |-> None]
    /\ pc = [p \in Procs |-> IF p \in Sockets THEN "closed"
                             ELSE IF p = Server THEN "up" ELSE "idle"]
    /\ ref = [p \in Procs |-> None]
    /\ cancelled = [t \in Turns |-> FALSE]
    /\ cancelReq = [t \in Turns |-> FALSE]
    /\ waiting = {}
    /\ ahead = [p \in Procs |-> {}]
    /\ row = TRUE /\ dir = TRUE /\ thread = FALSE
    /\ deleted = FALSE

-----------------------------------------------------------------------------
(* The database worker's queue. *)

Served(p) == p \in waiting /\ ahead[p] = {}

\* p submits a job; its previous one, if it has just been served, leaves.
Submit(p) ==
    /\ waiting' = waiting \cup {p}
    /\ ahead' = [q \in Procs |-> IF q = p THEN waiting \ {p} ELSE ahead[q] \ {p}]

\* Mutant: the job of a cancelled coroutine stays in the queue.

\* p's job leaves the queue, served or abandoned by a cancelled caller.
Leave(p) ==
    /\ waiting' = waiting \ {p}
    /\ ahead' = [q \in Procs |-> IF q = p THEN {} ELSE ahead[q] \ {p}]

-----------------------------------------------------------------------------
(* The registry of runtime objects. *)

\* An object nobody refers to; it is indistinguishable from a new one.
Fresh(r) == r # rt /\ \A p \in Procs : ref[p] # r

\* runtime(session_id): the registered object, created on first use.
Current(r) == IF rt = None THEN Fresh(r) ELSE r = rt

\* discard_if_idle, given the fields the caller has just written.
Discard(r, hasAgent, socket, turn, isClosing) ==
    rt' = IF /\ r = rt /\ ~hasAgent /\ socket = None /\ turn = None
             /\ ~isClosing
          THEN None ELSE rt

Register(s, r) ==
    /\ pc[s] = "recv"
    /\ Current(r)
    /\ rt' = r
    /\ conn' = [conn EXCEPT ![r] = s]

\* cancel_session: an owned subprocess unwinds its turn; otherwise the turn's
\* task is cancelled, provided it has started.
CancelSession(r) ==
    IF turnOf[r] = None
    THEN UNCHANGED taskVars
    ELSE LET t == turnOf[r] IN
         /\ cancelled' = [cancelled EXCEPT ![t] = TRUE]
         /\ cancelReq' = [cancelReq EXCEPT
                ![t] = @ \/ pc[t] \notin {"created", "command"}]

\* asyncio.Lock is entered without suspending only if nobody holds it or waits;
\* which waiter a release wakes is left open.
LockFree(r) ==
    lock[r] = None /\ \A p \in Procs : ~(ref[p] = r /\ pc[p] = "lockwait")

Goto(p, state) == pc' = [pc EXCEPT ![p] = state]

-----------------------------------------------------------------------------
(* ws_chat: one frame at a time, then back to receive_text. *)

Connect(s) ==
    /\ pc[s] = "closed" /\ pc[Server] = "up"
    /\ Goto(s, "recv")
    /\ UNCHANGED <<rtVars, lock, ref, taskVars, dbVars, store>>

\* WebSocketDisconnect, then unregister_conn in the finally.
Disconnect(s) ==
    /\ pc[s] = "recv"
    /\ Goto(s, "closed")
    /\ IF rt # None /\ conn[rt] = s
       THEN /\ conn' = [conn EXCEPT ![rt] = None]
            /\ Discard(rt, agent[rt], None, turnOf[rt], closing[rt])
       ELSE UNCHANGED <<rt, conn>>
    /\ UNCHANGED <<turnOf, agent, closing, lock, ref, taskVars, dbVars, store>>

\* A "resume" or "approval" frame only registers the socket here.
RecvOther(s) ==
    /\ \E r \in Runtimes : Register(s, r)
    /\ UNCHANGED <<turnOf, agent, closing, lock, pc, ref, taskVars, dbVars, store>>

RecvCancel(s) ==
    /\ \E r \in Runtimes : Register(s, r) /\ CancelSession(r)
    /\ UNCHANGED <<turnOf, agent, closing, lock, pc, ref, dbVars, store>>

RecvMessage(s) ==
    /\ \E r \in Runtimes :
          /\ Register(s, r)
          /\ IF closing[r]
             THEN UNCHANGED <<pc, dbVars>>
             ELSE Goto(s, "lookup") /\ Submit(s)
    /\ UNCHANGED <<turnOf, agent, closing, lock, ref, taskVars, store>>

Idle(t) == pc[t] = "idle"

\* Mutants: admission that ignores the running turn, or the reservation.
BusyIfClosing(r) == closing[r]
BusyIfTurn(r)    == turnOf[r] # None

Busy(r) == turnOf[r] # None \/ closing[r]

\* dispatch: admission is reserved before the task can yield.
Dispatch(s) ==
    /\ pc[s] = "lookup" /\ Served(s)
    /\ Leave(s)
    /\ IF row
       THEN \E r \in Runtimes :
              /\ Current(r)
              /\ rt' = r
              /\ IF Busy(r)
                 THEN /\ Goto(s, "recv")
                      /\ UNCHANGED <<turnOf, ref, cancelled>>
                 ELSE \E t \in Turns :
                        /\ Idle(t)
                        /\ pc' = [pc EXCEPT ![s] = "recv", ![t] = "created"]
                        /\ turnOf' = [turnOf EXCEPT ![r] = t]
                        /\ ref' = [ref EXCEPT ![t] = r]
                        /\ cancelled' = [cancelled EXCEPT ![t] = FALSE]
       ELSE Goto(s, "recv") /\ UNCHANGED <<rt, turnOf, ref, cancelled>>
    /\ UNCHANGED <<conn, agent, closing, lock, cancelReq, store>>

-----------------------------------------------------------------------------
(* The turn task. *)

At(t, state) == pc[t] = state /\ ~cancelReq[t]

\* async with runtime.lock, then handle_message records the user's message.
Enter(t) ==
    /\ lock' = [lock EXCEPT ![ref[t]] = t]
    /\ Goto(t, "emit") /\ Submit(t)

\* Mutant: a cancel that arrives before the task runs is forgotten.
StartUnchecked(t) ==
    /\ At(t, "created")
    /\ \/ LockFree(ref[t]) /\ Enter(t)
       \/ ~LockFree(ref[t]) /\ Goto(t, "lockwait") /\ UNCHANGED <<lock, dbVars>>
    /\ UNCHANGED <<rtVars, ref, taskVars, store>>

\* _runner begins: a cancel that came first ends the turn before its pipeline.
Start(t) ==
    /\ At(t, "created")
    /\ \/ cancelled[t] /\ Goto(t, "ending") /\ Submit(t) /\ UNCHANGED lock
       \/ ~cancelled[t] /\ LockFree(ref[t]) /\ Enter(t)
       \/ /\ ~cancelled[t] /\ ~LockFree(ref[t])
          /\ Goto(t, "lockwait")
          /\ UNCHANGED <<lock, dbVars>>
    /\ UNCHANGED <<rtVars, ref, taskVars, store>>

Acquire(t) ==
    /\ At(t, "lockwait")
    /\ lock[ref[t]] = None
    /\ Enter(t)
    /\ UNCHANGED <<rtVars, ref, taskVars, store>>

\* Leaving the async with block: the exception path still reports agent_end.
Abort(t) ==
    /\ lock' = [lock EXCEPT ![ref[t]] = None]
    /\ Goto(t, "ending") /\ Submit(t)

\* append_event refuses an event of a session that has no row.
Emitted(t) ==
    /\ At(t, "emit") /\ Served(t)
    /\ IF row THEN Goto(t, "work") /\ Leave(t) /\ UNCHANGED lock
              ELSE Abort(t)
    /\ UNCHANGED <<rtVars, ref, taskVars, store>>

\* _get_agent: the agent is kept on the registered object for later turns.
BuildAgent(t) ==
    /\ At(t, "work")
    /\ rt # None
    /\ agent' = [agent EXCEPT ![rt] = TRUE]
    /\ UNCHANGED <<rt, conn, turnOf, closing, lock, pc, ref, taskVars, dbVars, store>>

\* invalidate_range_context, after a command that may replace the range root.
InvalidateContext(t) ==
    /\ At(t, "work")
    /\ rt # None
    /\ agent' = [agent EXCEPT ![rt] = FALSE]
    /\ UNCHANGED <<rt, conn, turnOf, closing, lock, pc, ref, taskVars, dbVars, store>>

RunCommand(t) ==
    /\ At(t, "work")
    /\ Goto(t, "command")
    /\ UNCHANGED <<rtVars, lock, ref, taskVars, dbVars, store>>

\* A cancelled command raises CancelledError: the agent stops and its thread
\* is saved, a direct command leaves the pipeline at once.  A cancel that finds
\* a failed start being reported is not noticed (CommandTurn!Failed).
CommandDone(t) ==
    /\ At(t, "command")
    /\ \/ /\ ~cancelled[t]
          /\ Goto(t, "work")
          /\ UNCHANGED <<lock, dbVars>>
       \/ cancelled[t] /\ Abort(t)
       \/ /\ cancelled[t]
          /\ Goto(t, "saving") /\ Submit(t)
          /\ UNCHANGED lock
       \/ /\ cancelled[t] /\ StartMayFail
          /\ Goto(t, "work")
          /\ UNCHANGED <<lock, dbVars>>
    /\ UNCHANGED <<rtVars, ref, taskVars, store>>

\* The agent's stream ends and the thread is saved; an exception skips that.
Finish(t) ==
    /\ At(t, "work")
    /\ \/ Goto(t, "saving") /\ Submit(t) /\ UNCHANGED lock
       \/ Abort(t)
    /\ UNCHANGED <<rtVars, ref, taskVars, store>>

\* _save_thread returns.  A turn that is unwinding goes on to report it; any
\* other leaves the lock and _runner's finally in the same step.
Saved(t) ==
    /\ At(t, "saving") /\ Served(t)
    /\ thread' = TRUE
    /\ \/ /\ lock' = [lock EXCEPT ![ref[t]] = None]
          /\ turnOf' = [turnOf EXCEPT ![ref[t]] = IF @ = t THEN None ELSE @]
          /\ Goto(t, "callback") /\ Leave(t)
       \/ cancelled[t] /\ Abort(t) /\ UNCHANGED turnOf
    /\ UNCHANGED <<rt, conn, agent, closing, ref, taskVars, row, dir, deleted>>

\* agent_end is emitted (or its append raised); the finally clears the turn.
Ended(t) ==
    /\ At(t, "ending") /\ Served(t)
    /\ turnOf' = [turnOf EXCEPT ![ref[t]] = IF @ = t THEN None ELSE @]
    /\ Goto(t, "callback") /\ Leave(t)
    /\ UNCHANGED <<rt, conn, agent, closing, lock, ref, taskVars, store>>

\* The loop delivers CancelledError at the await the task is suspended on.
Unwind(t) ==
    /\ cancelReq[t]
    /\ cancelReq' = [cancelReq EXCEPT ![t] = FALSE]
    /\ \/ /\ pc[t] = "created"        \* never ran: only the callback sees it
          /\ Goto(t, "callback")
          /\ UNCHANGED <<turnOf, lock, dbVars>>
       \/ /\ pc[t] = "lockwait"
          /\ Goto(t, "ending") /\ Submit(t)
          /\ UNCHANGED <<turnOf, lock>>
       \/ /\ pc[t] \in PipelineStates
          /\ Abort(t)
          /\ UNCHANGED turnOf
       \/ /\ pc[t] \in {"work", "command"}     \* _run_agent's finally
          /\ Goto(t, "saving") /\ Submit(t)
          /\ UNCHANGED <<turnOf, lock>>
       \/ /\ pc[t] = "ending"
          /\ turnOf' = [turnOf EXCEPT ![ref[t]] = IF @ = t THEN None ELSE @]
          /\ Goto(t, "callback") /\ Leave(t)
          /\ UNCHANGED lock
    \* a save already handed to the worker may still be written
    /\ thread' \in IF pc[t] = "saving" /\ Served(t) THEN {thread, TRUE} ELSE {thread}
    /\ UNCHANGED <<rt, conn, agent, closing, ref, cancelled, row, dir, deleted>>

\* _turn_task_done works on the registered object, not on the captured one.
Callback(t) ==
    /\ pc[t] = "callback"
    /\ pc' = [pc EXCEPT ![t] = "idle"]
    /\ ref' = [ref EXCEPT ![t] = None]
    /\ IF rt = None
       THEN UNCHANGED <<rt, turnOf>>
       ELSE LET rest == IF turnOf[rt] = t THEN None ELSE turnOf[rt] IN
            /\ turnOf' = [turnOf EXCEPT ![rt] = rest]
            /\ Discard(rt, agent[rt], conn[rt], rest, closing[rt])
    /\ UNCHANGED <<conn, agent, closing, lock, taskVars, dbVars, store>>

-----------------------------------------------------------------------------
(* swap_model. *)

PutModel(w) ==
    /\ pc[w] = "idle" /\ pc[Server] = "up"
    /\ \E r \in Runtimes :
          /\ Current(r)
          /\ rt' = r
          /\ ref' = [ref EXCEPT ![w] = r]
          /\ IF LockFree(r)
             THEN /\ lock' = [lock EXCEPT ![r] = w]
                  /\ Goto(w, "get") /\ Submit(w)
             ELSE Goto(w, "lockwait") /\ UNCHANGED <<lock, dbVars>>
    /\ UNCHANGED <<conn, turnOf, agent, closing, taskVars, store>>

SwapAcquire(w) ==
    /\ pc[w] = "lockwait"
    /\ lock[ref[w]] = None
    /\ lock' = [lock EXCEPT ![ref[w]] = w]
    /\ Goto(w, "get") /\ Submit(w)
    /\ UNCHANGED <<rtVars, ref, taskVars, store>>

SwapGet(w) ==
    /\ pc[w] = "get" /\ Served(w)
    /\ IF row
       THEN Goto(w, "put") /\ Submit(w) /\ UNCHANGED <<lock, ref>>
       ELSE /\ Goto(w, "idle") /\ Leave(w)
            /\ lock' = [lock EXCEPT ![ref[w]] = None]
            /\ ref' = [ref EXCEPT ![w] = None]
    /\ UNCHANGED <<rtVars, taskVars, store>>

\* upsert_session inserts the row again if it is gone.  A live agent is
\* rebuilt at once (its capabilities are cached with it) and its thread saved.
SwapPut(w) ==
    /\ pc[w] = "put" /\ Served(w)
    /\ row' = TRUE
    /\ Submit(w)
    /\ \E r \in Runtimes :
          /\ Current(r)
          /\ rt' = r
          /\ IF agent[r]
             THEN Goto(w, "save") /\ UNCHANGED lock
             ELSE Goto(w, "note") /\ lock' = [lock EXCEPT ![ref[w]] = None]
    /\ UNCHANGED <<conn, turnOf, agent, closing, ref, taskVars, dir, thread, deleted>>

SwapSaved(w) ==
    /\ pc[w] = "save" /\ Served(w)
    /\ thread' = TRUE
    /\ lock' = [lock EXCEPT ![ref[w]] = None]
    /\ Goto(w, "note") /\ Submit(w)
    /\ UNCHANGED <<rtVars, ref, taskVars, row, dir, deleted>>

SwapDone(w) ==
    /\ pc[w] = "note" /\ Served(w)
    /\ Goto(w, "idle") /\ Leave(w)
    /\ ref' = [ref EXCEPT ![w] = None]
    /\ UNCHANGED <<rtVars, lock, taskVars, store>>

-----------------------------------------------------------------------------
(* delete_session. *)

DeleteCheck(d) ==
    /\ pc[d] = "idle" /\ pc[Server] = "up"
    /\ Goto(d, "check") /\ Submit(d)
    /\ UNCHANGED <<rtVars, lock, ref, taskVars, store>>

\* The 409 answer leaves everything as it is.  Mutant: it releases.

Refuse(d, r) ==
    /\ Goto(d, "idle") /\ Leave(d)
    /\ UNCHANGED <<conn, agent, closing, ref>>

\* begin_cleanup refuses an object that is closing or has a turn (a subprocess
\* or a pending approval belongs to one).  cleanup_session of an idle object
\* does not wait for anything, so it evicts in the same step.
DeleteReserve(d) ==
    /\ pc[d] = "check" /\ Served(d)
    /\ IF row
       THEN \E r \in Runtimes :
              /\ Current(r)
              /\ rt' = r
              /\ IF Busy(r)
                 THEN Refuse(d, r)
                 ELSE /\ closing' = [closing EXCEPT ![r] = TRUE]
                      /\ agent' = [agent EXCEPT ![r] = FALSE]
                      /\ conn' = [conn EXCEPT ![r] = None]
                      /\ ref' = [ref EXCEPT ![d] = r]
                      /\ Goto(d, "reget") /\ Submit(d)
       ELSE /\ Goto(d, "idle") /\ Leave(d)
            /\ UNCHANGED <<rt, conn, agent, closing, ref>>
    /\ UNCHANGED <<turnOf, lock, taskVars, store>>

\* release_cleanup
Release(d) ==
    /\ Goto(d, "idle")
    /\ ref' = [ref EXCEPT ![d] = None]
    /\ IF rt = None
       THEN UNCHANGED <<rt, closing>>
       ELSE /\ closing' = [closing EXCEPT ![rt] = FALSE]
            /\ Discard(rt, agent[rt], conn[rt], turnOf[rt], FALSE)

DeleteReget(d) ==
    /\ pc[d] = "reget" /\ Served(d)
    /\ Leave(d)
    /\ IF row THEN Goto(d, "rmtree") /\ UNCHANGED <<rt, closing, ref>>
              ELSE Release(d)
    /\ UNCHANGED <<conn, turnOf, agent, lock, taskVars, store>>

\* shutil.rmtree on a worker thread; a failure releases the reservation.
DeleteTree(d) ==
    /\ pc[d] = "rmtree"
    /\ \/ /\ dir' = FALSE
          /\ Goto(d, "purge") /\ Submit(d)
          /\ UNCHANGED <<rt, closing, ref>>
       \/ /\ Release(d)
          /\ UNCHANGED <<dir, dbVars>>
    /\ UNCHANGED <<conn, turnOf, agent, lock, taskVars, row, thread, deleted>>

\* Mutant: the session's row goes, its thread in the meta table stays.
EraseRowOnly == row' = FALSE /\ UNCHANGED thread

\* Database._delete_session: one transaction.
Erase == row' = FALSE /\ thread' = FALSE

DeletePurge(d) ==
    /\ pc[d] = "purge" /\ Served(d)
    /\ Erase
    /\ deleted' = TRUE
    /\ Release(d) /\ Leave(d)
    /\ UNCHANGED <<conn, turnOf, agent, lock, taskVars, dir>>

-----------------------------------------------------------------------------
(* cleanup_all at shutdown.  The web server has closed the sockets and       *)
(* finished the requests by then.                                           *)

Evict(r) ==
    /\ agent' = [agent EXCEPT ![r] = FALSE]
    /\ conn' = [conn EXCEPT ![r] = None]
    /\ turnOf' = [turnOf EXCEPT ![r] = None]

ShutdownBegin ==
    /\ pc[Server] = "up"
    /\ \A s \in Sockets : pc[s] = "closed"
    /\ \A p \in Swaps \cup Deletes : pc[p] = "idle"
    /\ IF rt = None
       THEN /\ Goto(Server, "down")
            /\ UNCHANGED <<rtVars, ref, taskVars>>
       ELSE /\ closing' = [closing EXCEPT ![rt] = TRUE]
            /\ ref' = [ref EXCEPT ![Server] = rt]
            /\ CancelSession(rt)
            /\ IF turnOf[rt] = None
               THEN Goto(Server, "down") /\ Evict(rt)
               ELSE Goto(Server, "waiting") /\ UNCHANGED <<conn, turnOf, agent>>
            /\ UNCHANGED rt
    /\ UNCHANGED <<lock, dbVars, store>>

\* Mutant: after the timeout the cancelled task is not awaited.

\* The awaited task is done: its finally or its callback has cleared the turn.
TaskDone == turnOf[ref[Server]] = None

\* asyncio.wait timed out: force_kill, then task.cancel() whatever the state.
ShutdownTimeout ==
    /\ pc[Server] = "waiting"
    /\ ~TaskDone
    /\ cancelReq' = [cancelReq EXCEPT ![turnOf[ref[Server]]] = TRUE]
    /\ Goto(Server, "reaping")
    /\ UNCHANGED <<rtVars, lock, ref, cancelled, dbVars, store>>

ShutdownEvict ==
    /\ pc[Server] \in {"waiting", "reaping"}
    /\ TaskDone
    /\ Evict(ref[Server])
    /\ Goto(Server, "down")
    /\ UNCHANGED <<rt, closing, lock, ref, taskVars, dbVars, store>>

\* The process exits; nothing is left to do.
Stopped ==
    /\ pc[Server] = "down"
    /\ \A t \in Turns : pc[t] = "idle"
    /\ UNCHANGED vars

-----------------------------------------------------------------------------
SocketNext(s) ==
    \/ Connect(s) \/ Disconnect(s) \/ RecvOther(s) \/ RecvCancel(s)
    \/ RecvMessage(s) \/ Dispatch(s)

TurnNext(t) ==
    \/ Start(t) \/ Acquire(t) \/ Emitted(t) \/ BuildAgent(t)
    \/ InvalidateContext(t) \/ RunCommand(t) \/ CommandDone(t) \/ Finish(t)
    \/ Saved(t) \/ Ended(t) \/ Unwind(t) \/ Callback(t)

SwapNext(w) ==
    \/ PutModel(w) \/ SwapAcquire(w) \/ SwapGet(w) \/ SwapPut(w)
    \/ SwapSaved(w) \/ SwapDone(w)

DeleteNext(d) ==
    \/ DeleteCheck(d) \/ DeleteReserve(d) \/ DeleteReget(d) \/ DeleteTree(d)
    \/ DeletePurge(d)

ServerNext == ShutdownBegin \/ ShutdownTimeout \/ ShutdownEvict \/ Stopped

Next ==
    \/ \E s \in Sockets : SocketNext(s)
    \/ \E t \in Turns : TurnNext(t)
    \/ \E w \in Swaps : SwapNext(w)
    \/ \E d \in Deletes : DeleteNext(d)
    \/ ServerNext

(* What the event loop, the database worker and SIGKILL guarantee: a job is *)
(* served, a ready coroutine runs, asyncio.Lock is first come first served, *)
(* and a cancelled command ends.  Nothing is assumed about the model, about *)
(* commands nobody cancelled, or about clients.                             *)
Fairness ==
    /\ \A s \in Sockets : WF_vars(Dispatch(s))
    /\ \A t \in Turns :
          /\ WF_vars(Start(t)) /\ SF_vars(Acquire(t)) /\ WF_vars(Emitted(t))
          /\ WF_vars(cancelled[t] /\ CommandDone(t))
          /\ WF_vars(Saved(t)) /\ WF_vars(Ended(t))
          /\ WF_vars(Unwind(t)) /\ WF_vars(Callback(t))
    /\ \A w \in Swaps :
          /\ SF_vars(SwapAcquire(w)) /\ WF_vars(SwapGet(w)) /\ WF_vars(SwapPut(w))
          /\ WF_vars(SwapSaved(w)) /\ WF_vars(SwapDone(w))
    /\ \A d \in Deletes :
          /\ WF_vars(DeleteReserve(d)) /\ WF_vars(DeleteReget(d))
          /\ WF_vars(DeleteTree(d)) /\ WF_vars(DeletePurge(d))
    /\ WF_vars(ShutdownTimeout) /\ WF_vars(ShutdownEvict)

Spec     == Init /\ [][Next]_vars
FairSpec == Spec /\ Fairness

-----------------------------------------------------------------------------
FieldsOK ==
    /\ rt \in Runtimes \cup {None}
    /\ conn \in [Runtimes -> Sockets \cup {None}]
    /\ turnOf \in [Runtimes -> Turns \cup {None}]
    /\ agent \in [Runtimes -> BOOLEAN]
    /\ closing \in [Runtimes -> BOOLEAN]
    /\ lock \in [Runtimes -> Turns \cup Swaps \cup {None}]
    /\ row \in BOOLEAN /\ dir \in BOOLEAN /\ thread \in BOOLEAN
    /\ deleted \in BOOLEAN

CoroutinesOK ==
    /\ pc \in [Procs -> SocketStates \cup TurnStates \cup SwapStates
                        \cup DeleteStates \cup ServerStates]
    /\ \A s \in Sockets : pc[s] \in SocketStates
    /\ \A t \in Turns : pc[t] \in TurnStates
    /\ \A w \in Swaps : pc[w] \in SwapStates
    /\ \A d \in Deletes : pc[d] \in DeleteStates
    /\ pc[Server] \in ServerStates
    /\ ref \in [Procs -> Runtimes \cup {None}]
    /\ cancelled \in [Turns -> BOOLEAN]
    /\ cancelReq \in [Turns -> BOOLEAN]

QueueOK ==
    /\ waiting = {p \in Procs : pc[p] \in DbStates}
    /\ ahead \in [Procs -> SUBSET Procs]

(* Every variable has its type, and the worker's queue holds exactly the    *)
(* jobs of the coroutines that wait for it.                                 *)
TypeOK == FieldsOK /\ CoroutinesOK /\ QueueOK

(* A session runs one turn at a time, although a reconnect, a discarded     *)
(* runtime object or an unfinished callback may replace the object whose    *)
(* lock and turn field enforce it (console/README.md: "turns are serialized *)
(* per session").                                                           *)
TurnsSerialized ==
    \A t, u \in Turns : Live(t) /\ Live(u) => t = u

(* From the reservation of a deletion until its release no turn is live and *)
(* no second deletion is under way: the directory and the row are never     *)
(* removed under a running turn (delete_session, begin_cleanup, dispatch).  *)
DeletionExclusive ==
    \A d \in Deletes : Reserved(d) =>
        /\ \A t \in Turns : ~Live(t)
        /\ \A e \in Deletes : Reserved(e) => e = d

(* Once a DELETE has answered, nothing of the session is stored: no late    *)
(* frame, turn or second request writes a row or a thread again             *)
(* (chat_runtime.py: "stale WebSockets cannot recreate orphan data").       *)
NoOrphanData == deleted => ~row /\ ~dir /\ ~thread

(* When shutdown has finished, no turn is left running: neither the 15 s    *)
(* timeout nor a task that had not started escapes cleanup_session.         *)
ShutdownQuiet ==
    pc[Server] = "down" => \A t \in Turns : ~Live(t)

(* The types; at most one turn at a time, however often the runtime object  *)
(* that serializes them is replaced, and none after the shutdown.           *)
TurnsContained == TypeOK /\ TurnsSerialized /\ ShutdownQuiet

(* Only the request that reserved the session lifts the reservation; a      *)
(* concurrent DELETE that is refused leaves it in place.                    *)
ReservationKept ==
    [][\A r \in Runtimes : closing[r] /\ ~closing'[r] =>
          \E d \in Deletes : ref[d] = r /\ Reserved(d) /\ ~Reserved(d)']_vars

(* The session as its users see it, SessionContract, with its phase read    *)
(* off the turn tasks, the deletion and the shutdown.                       *)
Phase ==
    IF \E t \in Turns : Live(t) THEN "turn"
    ELSE IF deleted THEN "gone"
    ELSE IF \E d \in Deletes : Reserved(d) THEN "deleting"
    ELSE IF pc[Server] = "up" THEN "open"
    ELSE "stopped"

Contract == INSTANCE SessionContract WITH phase <- Phase

(* The runtime implements the contract: turns and the deletion exclude each *)
(* other step by step, a failed deletion leaves a usable session, and       *)
(* nothing happens to a session after it is gone or the server has stopped. *)
ImplementsContract == Contract!Spec

(* A cancelled turn ends and the session can be used again, wherever the    *)
(* cancel lands: before the task ran, waiting for the lock, in the model,   *)
(* in a command, while saving or while reporting (cancel_session).          *)
CancelReleases ==
    \A t \in Turns : (Live(t) /\ cancelled[t]) ~> ~Live(t)
=============================================================================
