------------------------ MODULE SessionRuntimeProofs ------------------------
(***************************************************************************)
(* Proofs about SessionRuntime, for every number of sockets, turns, model  *)
(* switches, deletions and runtime objects.                                *)
(*                                                                         *)
(* The properties are not inductive: "one live turn" follows only because  *)
(* the object that admitted it stays the registered one (discard_if_idle   *)
(* keeps an object that has a turn or is closing), and a reservation       *)
(* excludes turns only because its object is the one dispatch looks at.    *)
(* IInv says so.                                                           *)
(***************************************************************************)
EXTENDS SessionRuntime, TLAPS

(* A live turn is the one its runtime object admitted, and that object is   *)
(* the registered one.                                                      *)
TurnOwnsRuntime ==
    \A t \in Turns : Live(t) => rt # None /\ ref[t] = rt /\ turnOf[rt] = t

(* Only the registered object has a turn; it is live or its done-callback   *)
(* is still to run.                                                         *)
AdmittedTurn ==
    \A r \in Runtimes : \A t \in Turns : turnOf[r] = t =>
        r = rt /\ ref[t] = r /\ (Live(t) \/ pc[t] = "callback")

(* A deletion's reservation is on the registered object, which has no turn. *)
ReservedRuntime ==
    \A d \in Deletes : Reserved(d) =>
        rt # None /\ ref[d] = rt /\ closing[rt] /\ turnOf[rt] = None

OneReservation ==
    \A d, e \in Deletes : Reserved(d) /\ Reserved(e) => d = e

ClosingRegistered == \A r \in Runtimes : closing[r] => r = rt

(* Shutdown begins when requests and sockets are finished, and it holds the *)
(* registered object closed from then on.                                   *)
Stopping ==
    /\ pc[Server] # "up" => /\ \A s \in Sockets : pc[s] = "closed"
                            /\ \A p \in Swaps \cup Deletes : pc[p] = "idle"
    /\ pc[Server] \in {"waiting", "reaping"} =>
           rt # None /\ ref[Server] = rt /\ closing[rt]
    /\ pc[Server] = "down" =>
           (rt = None \/ closing[rt]) /\ \A t \in Turns : ~Live(t)

Ownership ==
    /\ TurnOwnsRuntime /\ AdmittedTurn
    /\ ReservedRuntime /\ OneReservation /\ ClosingRegistered
    /\ Stopping

IInv == TypeOK /\ Ownership

-----------------------------------------------------------------------------
(* The initial state satisfies the invariant. *)
LEMMA InitIInv == Init => IInv
<1> SUFFICES ASSUME Init PROVE IInv
    OBVIOUS
<1> USE NoneAssumption, RolesAssumption
    DEF Init, Procs, SocketStates, TurnStates, SwapStates, DeleteStates,
        ServerStates
<1>1. FieldsOK /\ QueueOK
      BY DEF FieldsOK, QueueOK, DbStates
<1>2. CoroutinesOK
      BY DEF CoroutinesOK
<1>3. Ownership
      BY DEF Ownership, TurnOwnsRuntime, AdmittedTurn, ReservedRuntime,
             OneReservation, ClosingRegistered, Stopping, Live, LiveStates,
             Reserved
<1> QED BY <1>1, <1>2, <1>3 DEF IInv, TypeOK

(* The queue matches the coroutines' awaits when a step of p submits a job  *)
(* as it enters a database await, or leaves the queue with the await.       *)
LEMMA QueueStep ==
    ASSUME QueueOK, NEW p \in Procs,
           \A q \in Procs \ {p} : pc'[q] \in DbStates <=> pc[q] \in DbStates,
           \/ pc'[p] \in DbStates /\ Submit(p)
           \/ pc'[p] \notin DbStates /\ Leave(p)
           \/ (pc'[p] \in DbStates <=> pc[p] \in DbStates) /\ UNCHANGED dbVars
    PROVE  QueueOK'
<1>1. waiting' = {q \in Procs : pc'[q] \in DbStates}
  <2>1. CASE pc'[p] \in DbStates /\ Submit(p)
        BY <2>1 DEF QueueOK, Submit
  <2>2. CASE pc'[p] \notin DbStates /\ Leave(p)
        BY <2>2 DEF QueueOK, Leave
  <2>3. CASE (pc'[p] \in DbStates <=> pc[p] \in DbStates) /\ UNCHANGED dbVars
        BY <2>3 DEF QueueOK, dbVars
  <2> QED BY <2>1, <2>2, <2>3
<1>2. waiting \subseteq Procs
      BY DEF QueueOK
<1>3. ahead' \in [Procs -> SUBSET Procs]
  <2>1. CASE Submit(p) BY <1>2, <2>1 DEF QueueOK, Submit
  <2>2. CASE Leave(p)  BY <1>2, <2>2 DEF QueueOK, Leave
  <2>3. CASE UNCHANGED dbVars BY <2>3 DEF QueueOK, dbVars
  <2> QED BY <2>1, <2>2, <2>3
<1> QED BY <1>1, <1>3 DEF QueueOK

(* cancel_session only raises flags of turns. *)
LEMMA CancelSessionType ==
    ASSUME FieldsOK, CoroutinesOK, NEW r \in Runtimes, CancelSession(r)
    PROVE  /\ cancelled' \in [Turns -> BOOLEAN]
           /\ cancelReq' \in [Turns -> BOOLEAN]
<1>1. CASE turnOf[r] = None
      BY <1>1 DEF CoroutinesOK, CancelSession, taskVars
<1>2. CASE turnOf[r] # None
  <2>1. cancelled' = [cancelled EXCEPT ![turnOf[r]] = TRUE]
        BY <1>2 DEF CancelSession
  <2>2. PICK b \in BOOLEAN : cancelReq' = [cancelReq EXCEPT ![turnOf[r]] = b]
        BY <1>2 DEF CancelSession
  <2> QED BY <2>1, <2>2 DEF CoroutinesOK
<1> QED BY <1>1, <1>2

(* Every action keeps the variables in their types. *)
LEMMA TypeStep == TypeOK /\ [Next]_vars => TypeOK'
<1> SUFFICES ASSUME FieldsOK, CoroutinesOK, QueueOK, [Next]_vars
             PROVE  (FieldsOK /\ CoroutinesOK /\ QueueOK)'
    BY DEF TypeOK
<1> USE NoneAssumption, RolesAssumption
    DEF Procs, SocketStates, TurnStates, SwapStates, DeleteStates,
        ServerStates, DbStates, rtVars, taskVars, store
<1>1. ASSUME NEW s \in Sockets, SocketNext(s) PROVE (FieldsOK /\ CoroutinesOK /\ QueueOK)'
  <2>1. CASE Connect(s)
    <3>1. FieldsOK'     BY <2>1 DEF FieldsOK, Connect
    <3>2. CoroutinesOK' BY <2>1 DEF CoroutinesOK, Goto, Connect
    <3>3. QueueOK'      BY <2>1, QueueStep
                      DEF CoroutinesOK, Goto, Connect
    <3> QED BY <3>1, <3>2, <3>3
  <2>2. CASE Disconnect(s)
    <3>1. FieldsOK'     BY <2>2 DEF FieldsOK, Disconnect, Discard
    <3>2. CoroutinesOK' BY <2>2 DEF CoroutinesOK, Goto, Disconnect, Discard
    <3>3. QueueOK'      BY <2>2, QueueStep
                      DEF CoroutinesOK, Goto, Disconnect, Discard
    <3> QED BY <3>1, <3>2, <3>3
  <2>3. CASE RecvOther(s)
    <3>1. FieldsOK'     BY <2>3 DEF FieldsOK, RecvOther, Register, Current
    <3>2. CoroutinesOK' BY <2>3 DEF CoroutinesOK, Goto, RecvOther, Register, Current
    <3>3. QueueOK'      BY <2>3, QueueStep
                      DEF CoroutinesOK, Goto, RecvOther, Register, Current
    <3> QED BY <3>1, <3>2, <3>3
  <2>4. CASE RecvCancel(s)
    <3>1. FieldsOK'     BY <2>4 DEF FieldsOK, RecvCancel, Register, Current, CancelSession
    <3>2. CoroutinesOK' BY <2>4, CancelSessionType DEF CoroutinesOK, RecvCancel, Register, Current
    <3>3. QueueOK'      BY <2>4, QueueStep
                      DEF CoroutinesOK, Goto, RecvCancel, Register, Current, CancelSession
    <3> QED BY <3>1, <3>2, <3>3
  <2>5. CASE RecvMessage(s)
    <3>1. FieldsOK'     BY <2>5 DEF FieldsOK, RecvMessage, Register, Current
    <3>2. CoroutinesOK' BY <2>5 DEF CoroutinesOK, Goto, RecvMessage, Register, Current
    <3>3. QueueOK'      BY <2>5, QueueStep
                      DEF CoroutinesOK, Goto, RecvMessage, Register, Current
    <3> QED BY <3>1, <3>2, <3>3
  <2>6. CASE Dispatch(s)
    <3>1. FieldsOK'     BY <2>6 DEF FieldsOK, Dispatch, Current, Busy, Idle
    <3>2. CoroutinesOK'
      <4>1. CASE pc' = [pc EXCEPT ![s] = "recv"] /\ UNCHANGED <<ref, cancelled>>
            BY <2>6, <4>1 DEF CoroutinesOK, Dispatch
      <4>2. CASE \E r \in Runtimes, t \in Turns :
                   /\ pc' = [pc EXCEPT ![s] = "recv", ![t] = "created"]
                   /\ ref' = [ref EXCEPT ![t] = r]
                   /\ cancelled' = [cancelled EXCEPT ![t] = FALSE]
            BY <2>6, <4>2 DEF CoroutinesOK, Dispatch
      <4> QED BY <2>6, <4>1, <4>2 DEF Dispatch, Goto
    <3>3. QueueOK'      BY <2>6, QueueStep
                      DEF CoroutinesOK, Goto, Dispatch, Current, Busy, Idle
    <3> QED BY <3>1, <3>2, <3>3
  <2> QED BY <1>1, <2>1, <2>2, <2>3, <2>4, <2>5, <2>6 DEF SocketNext
<1>2. ASSUME NEW t \in Turns, TurnNext(t) PROVE (FieldsOK /\ CoroutinesOK /\ QueueOK)'
  <2>1. CASE Start(t)
    <3>1. FieldsOK'     BY <2>1 DEF FieldsOK, Start, At, Enter
    <3>2. CoroutinesOK' BY <2>1 DEF CoroutinesOK, Goto, Start, At, Enter
    <3>3. QueueOK'      BY <2>1, QueueStep
                      DEF CoroutinesOK, Goto, Start, At, Enter
    <3> QED BY <3>1, <3>2, <3>3
  <2>2. CASE Acquire(t)
    <3>1. FieldsOK'     BY <2>2 DEF FieldsOK, Acquire, At, Enter
    <3>2. CoroutinesOK' BY <2>2 DEF CoroutinesOK, Goto, Acquire, At, Enter
    <3>3. QueueOK'      BY <2>2, QueueStep
                      DEF CoroutinesOK, Goto, Acquire, At, Enter
    <3> QED BY <3>1, <3>2, <3>3
  <2>3. CASE Emitted(t)
    <3>1. FieldsOK'     BY <2>3 DEF FieldsOK, Emitted, At, Abort
    <3>2. CoroutinesOK' BY <2>3 DEF CoroutinesOK, Goto, Emitted, At, Abort
    <3>3. QueueOK'      BY <2>3, QueueStep
                      DEF CoroutinesOK, Goto, Emitted, At, Abort
    <3> QED BY <3>1, <3>2, <3>3
  <2>4. CASE BuildAgent(t)
    <3>1. FieldsOK'     BY <2>4 DEF FieldsOK, BuildAgent, At
    <3>2. CoroutinesOK' BY <2>4 DEF CoroutinesOK, Goto, BuildAgent, At
    <3>3. QueueOK'      BY <2>4, QueueStep
                      DEF CoroutinesOK, Goto, BuildAgent, At
    <3> QED BY <3>1, <3>2, <3>3
  <2>5. CASE InvalidateContext(t)
    <3>1. FieldsOK'     BY <2>5 DEF FieldsOK, InvalidateContext, At
    <3>2. CoroutinesOK' BY <2>5 DEF CoroutinesOK, Goto, InvalidateContext, At
    <3>3. QueueOK'      BY <2>5, QueueStep
                      DEF CoroutinesOK, Goto, InvalidateContext, At
    <3> QED BY <3>1, <3>2, <3>3
  <2>6. CASE RunCommand(t)
    <3>1. FieldsOK'     BY <2>6 DEF FieldsOK, RunCommand, At
    <3>2. CoroutinesOK' BY <2>6 DEF CoroutinesOK, Goto, RunCommand, At
    <3>3. QueueOK'      BY <2>6, QueueStep
                      DEF CoroutinesOK, Goto, RunCommand, At
    <3> QED BY <3>1, <3>2, <3>3
  <2>7. CASE CommandDone(t)
    <3>1. FieldsOK'     BY <2>7 DEF FieldsOK, CommandDone, At, Abort
    <3>2. CoroutinesOK' BY <2>7 DEF CoroutinesOK, Goto, CommandDone, At, Abort
    <3>3. QueueOK'      BY <2>7, QueueStep
                      DEF CoroutinesOK, Goto, CommandDone, At, Abort
    <3> QED BY <3>1, <3>2, <3>3
  <2>8. CASE Finish(t)
    <3>1. FieldsOK'     BY <2>8 DEF FieldsOK, Finish, At, Abort
    <3>2. CoroutinesOK' BY <2>8 DEF CoroutinesOK, Goto, Finish, At, Abort
    <3>3. QueueOK'      BY <2>8, QueueStep
                      DEF CoroutinesOK, Goto, Finish, At, Abort
    <3> QED BY <3>1, <3>2, <3>3
  <2>9. CASE Saved(t)
    <3>1. FieldsOK'     BY <2>9 DEF FieldsOK, Saved, At, Abort
    <3>2. CoroutinesOK' BY <2>9 DEF CoroutinesOK, Goto, Saved, At, Abort
    <3>3. QueueOK'      BY <2>9, QueueStep
                      DEF CoroutinesOK, Goto, Saved, At, Abort
    <3> QED BY <3>1, <3>2, <3>3
  <2>10. CASE Ended(t)
    <3>1. FieldsOK'     BY <2>10 DEF FieldsOK, Ended, At
    <3>2. CoroutinesOK' BY <2>10 DEF CoroutinesOK, Goto, Ended, At
    <3>3. QueueOK'      BY <2>10, QueueStep
                      DEF CoroutinesOK, Goto, Ended, At
    <3> QED BY <3>1, <3>2, <3>3
  <2>11. CASE Unwind(t)
    <3>1. FieldsOK'     BY ZenonT(60), <2>11 DEF FieldsOK, Unwind, Abort, PipelineStates
    <3>2. CoroutinesOK' BY <2>11 DEF CoroutinesOK, Goto, Unwind, Abort, PipelineStates
    <3>3. QueueOK'      BY <2>11, QueueStep
                      DEF CoroutinesOK, Goto, Unwind, Abort, PipelineStates
    <3> QED BY <3>1, <3>2, <3>3
  <2>12. CASE Callback(t)
    <3>1. FieldsOK'     BY <2>12 DEF FieldsOK, Callback, Discard
    <3>2. CoroutinesOK' BY <2>12 DEF CoroutinesOK, Goto, Callback, Discard
    <3>3. QueueOK'      BY <2>12, QueueStep
                      DEF CoroutinesOK, Goto, Callback, Discard
    <3> QED BY <3>1, <3>2, <3>3
  <2> QED BY <1>2, <2>1, <2>2, <2>3, <2>4, <2>5, <2>6, <2>7, <2>8, <2>9, <2>10, <2>11, <2>12 DEF TurnNext
<1>3. ASSUME NEW w \in Swaps, SwapNext(w) PROVE (FieldsOK /\ CoroutinesOK /\ QueueOK)'
  <2>1. CASE PutModel(w)
    <3>1. FieldsOK'     BY <2>1 DEF FieldsOK, PutModel, Current
    <3>2. CoroutinesOK' BY <2>1 DEF CoroutinesOK, Goto, PutModel, Current
    <3>3. QueueOK'      BY <2>1, QueueStep
                      DEF CoroutinesOK, Goto, PutModel, Current
    <3> QED BY <3>1, <3>2, <3>3
  <2>2. CASE SwapAcquire(w)
    <3>1. FieldsOK'     BY <2>2 DEF FieldsOK, SwapAcquire
    <3>2. CoroutinesOK' BY <2>2 DEF CoroutinesOK, Goto, SwapAcquire
    <3>3. QueueOK'      BY <2>2, QueueStep
                      DEF CoroutinesOK, Goto, SwapAcquire
    <3> QED BY <3>1, <3>2, <3>3
  <2>3. CASE SwapGet(w)
    <3>1. FieldsOK'     BY <2>3 DEF FieldsOK, SwapGet
    <3>2. CoroutinesOK' BY <2>3 DEF CoroutinesOK, Goto, SwapGet
    <3>3. QueueOK'      BY <2>3, QueueStep
                      DEF CoroutinesOK, Goto, SwapGet
    <3> QED BY <3>1, <3>2, <3>3
  <2>4. CASE SwapPut(w)
    <3>1. FieldsOK'     BY <2>4 DEF FieldsOK, SwapPut, Current
    <3>2. CoroutinesOK' BY <2>4 DEF CoroutinesOK, Goto, SwapPut, Current
    <3>3. QueueOK'      BY <2>4, QueueStep
                      DEF CoroutinesOK, Goto, SwapPut, Current
    <3> QED BY <3>1, <3>2, <3>3
  <2>5. CASE SwapSaved(w)
    <3>1. FieldsOK'     BY <2>5 DEF FieldsOK, SwapSaved
    <3>2. CoroutinesOK' BY <2>5 DEF CoroutinesOK, Goto, SwapSaved
    <3>3. QueueOK'      BY <2>5, QueueStep
                      DEF CoroutinesOK, Goto, SwapSaved
    <3> QED BY <3>1, <3>2, <3>3
  <2>6. CASE SwapDone(w)
    <3>1. FieldsOK'     BY <2>6 DEF FieldsOK, SwapDone
    <3>2. CoroutinesOK' BY <2>6 DEF CoroutinesOK, Goto, SwapDone
    <3>3. QueueOK'      BY <2>6, QueueStep
                      DEF CoroutinesOK, Goto, SwapDone
    <3> QED BY <3>1, <3>2, <3>3
  <2> QED BY <1>3, <2>1, <2>2, <2>3, <2>4, <2>5, <2>6 DEF SwapNext
<1>4. ASSUME NEW d \in Deletes, DeleteNext(d) PROVE (FieldsOK /\ CoroutinesOK /\ QueueOK)'
  <2>1. CASE DeleteCheck(d)
    <3>1. FieldsOK'     BY <2>1 DEF FieldsOK, DeleteCheck
    <3>2. CoroutinesOK' BY <2>1 DEF CoroutinesOK, Goto, DeleteCheck
    <3>3. QueueOK'      BY <2>1, QueueStep
                      DEF CoroutinesOK, Goto, DeleteCheck
    <3> QED BY <3>1, <3>2, <3>3
  <2>2. CASE DeleteReserve(d)
    <3>1. FieldsOK'     BY ZenonT(60), <2>2 DEF FieldsOK, DeleteReserve, Current, Busy, Refuse
    <3>2. CoroutinesOK' BY <2>2 DEF CoroutinesOK, Goto, DeleteReserve, Current, Busy, Refuse
    <3>3. QueueOK'      BY <2>2, QueueStep
                      DEF CoroutinesOK, Goto, DeleteReserve, Current, Busy, Refuse
    <3> QED BY <3>1, <3>2, <3>3
  <2>3. CASE DeleteReget(d)
    <3>1. FieldsOK'     BY <2>3 DEF FieldsOK, DeleteReget, Release, Discard
    <3>2. CoroutinesOK' BY <2>3 DEF CoroutinesOK, Goto, DeleteReget, Release, Discard
    <3>3. QueueOK'      BY <2>3, QueueStep
                      DEF CoroutinesOK, Goto, DeleteReget, Release, Discard
    <3> QED BY <3>1, <3>2, <3>3
  <2>4. CASE DeleteTree(d)
    <3>1. FieldsOK'     BY <2>4 DEF FieldsOK, DeleteTree, Release, Discard
    <3>2. CoroutinesOK' BY <2>4 DEF CoroutinesOK, Goto, DeleteTree, Release, Discard
    <3>3. QueueOK'      BY <2>4, QueueStep
                      DEF CoroutinesOK, Goto, DeleteTree, Release, Discard
    <3> QED BY <3>1, <3>2, <3>3
  <2>5. CASE DeletePurge(d)
    <3>1. FieldsOK'     BY <2>5 DEF FieldsOK, DeletePurge, Release, Discard, Erase
    <3>2. CoroutinesOK' BY <2>5 DEF CoroutinesOK, Goto, DeletePurge, Release, Discard, Erase
    <3>3. QueueOK'      BY <2>5, QueueStep
                      DEF CoroutinesOK, Goto, DeletePurge, Release, Discard, Erase
    <3> QED BY <3>1, <3>2, <3>3
  <2> QED BY <1>4, <2>1, <2>2, <2>3, <2>4, <2>5 DEF DeleteNext
<1>5. ASSUME ServerNext PROVE (FieldsOK /\ CoroutinesOK /\ QueueOK)'
  <2>2. CASE ShutdownBegin
    <3>1. FieldsOK'     BY ZenonT(60), <2>2 DEF FieldsOK, ShutdownBegin, CancelSession, Evict
    <3>2. CoroutinesOK' BY <2>2, CancelSessionType DEF CoroutinesOK, Goto, FieldsOK, ShutdownBegin
    <3>3. QueueOK'      BY <2>2, QueueStep DEF CoroutinesOK, Goto, ShutdownBegin
    <3> QED BY <3>1, <3>2, <3>3
  <2>3. CASE ShutdownTimeout
    <3>1. FieldsOK'     BY <2>3 DEF FieldsOK, ShutdownTimeout, TaskDone
    <3>2. CoroutinesOK' BY <2>3 DEF CoroutinesOK, Goto, ShutdownTimeout, TaskDone
    <3>3. QueueOK'      BY <2>3, QueueStep DEF CoroutinesOK, Goto, ShutdownTimeout
    <3> QED BY <3>1, <3>2, <3>3
  <2>4. CASE ShutdownEvict
    <3>1. FieldsOK'     BY <2>4 DEF FieldsOK, ShutdownEvict, Evict
    <3>2. CoroutinesOK' BY <2>4 DEF CoroutinesOK, Goto, ShutdownEvict, Evict
    <3>3. QueueOK'      BY <2>4, QueueStep DEF CoroutinesOK, Goto, ShutdownEvict
    <3> QED BY <3>1, <3>2, <3>3
  <2>5. CASE Stopped
    <3>1. FieldsOK'     BY <2>5 DEF FieldsOK, Stopped, vars
    <3>2. CoroutinesOK' BY <2>5 DEF CoroutinesOK, Goto, Stopped, vars
    <3>3. QueueOK'      BY <2>5, QueueStep DEF CoroutinesOK, Goto, Stopped, vars, dbVars
    <3> QED BY <3>1, <3>2, <3>3
  <2> QED BY <1>5, <2>2, <2>3, <2>4, <2>5 DEF ServerNext
<1>6. CASE UNCHANGED vars BY <1>6 DEF vars, FieldsOK, CoroutinesOK, QueueOK
<1> QED BY <1>1, <1>2, <1>3, <1>4, <1>5, <1>6 DEF Next

(* Every action keeps the ownership invariant. *)
LEMMA OwnershipStep == IInv /\ [Next]_vars => Ownership'
<1> SUFFICES ASSUME IInv, [Next]_vars PROVE Ownership'
    OBVIOUS
<1> USE NoneAssumption, RolesAssumption
    DEF IInv, TypeOK, FieldsOK, CoroutinesOK, Ownership, TurnOwnsRuntime, AdmittedTurn, ReservedRuntime,
        OneReservation, ClosingRegistered, Stopping, Live, LiveStates,
        Reserved, Procs, SocketStates, TurnStates, SwapStates, DeleteStates,
        ServerStates, Goto, rtVars, taskVars, store
<1>1. ASSUME NEW s \in Sockets, SocketNext(s) PROVE Ownership'
  <2>1. CASE Connect(s) BY <2>1 DEF Connect
  <2>2. CASE Disconnect(s) BY <2>2 DEF Disconnect, Discard
  <2>3. CASE RecvOther(s) BY <2>3 DEF RecvOther, Register, Current
  <2>4. CASE RecvCancel(s) BY <2>4 DEF RecvCancel, Register, Current
  <2>5. CASE RecvMessage(s) BY <2>5 DEF RecvMessage, Register, Current
  <2>6. CASE Dispatch(s)
    <3>1. TurnOwnsRuntime' BY <2>6 DEF Dispatch, Current, Busy, Idle
    <3>2. AdmittedTurn' BY <2>6 DEF Dispatch, Current, Busy, Idle
    <3>3. ReservedRuntime' BY <2>6 DEF Dispatch, Current, Busy, Idle
    <3>4. OneReservation' BY <2>6 DEF Dispatch, Current, Busy, Idle
    <3>5. ClosingRegistered' BY <2>6 DEF Dispatch, Current, Busy, Idle
    <3>6. Stopping' BY <2>6 DEF Dispatch, Current, Busy, Idle
    <3> QED BY <3>1, <3>2, <3>3, <3>4, <3>5, <3>6
  <2> QED BY <1>1, <2>1, <2>2, <2>3, <2>4, <2>5, <2>6 DEF SocketNext
<1>2. ASSUME NEW t \in Turns, TurnNext(t) PROVE Ownership'
  <2>1. CASE Start(t) BY <2>1 DEF Start, At, Enter
  <2>2. CASE Acquire(t) BY <2>2 DEF Acquire, At, Enter
  <2>3. CASE Emitted(t) BY <2>3 DEF Emitted, At, Abort
  <2>4. CASE BuildAgent(t) BY <2>4 DEF BuildAgent, At
  <2>5. CASE InvalidateContext(t) BY <2>5 DEF InvalidateContext, At
  <2>6. CASE RunCommand(t) BY <2>6 DEF RunCommand, At
  <2>7. CASE CommandDone(t) BY <2>7 DEF CommandDone, At, Abort
  <2>8. CASE Finish(t) BY <2>8 DEF Finish, At, Abort
  <2>9. CASE Saved(t) BY <2>9 DEF Saved, At, Abort
  <2>10. CASE Ended(t) BY <2>10 DEF Ended, At
  <2>11. CASE Unwind(t) BY <2>11 DEF Unwind, Abort, PipelineStates
  <2>12. CASE Callback(t)
    <3>1. TurnOwnsRuntime' BY <2>12 DEF Callback, Discard
    <3>2. AdmittedTurn' BY <2>12 DEF Callback, Discard
    <3>3. ReservedRuntime' BY <2>12 DEF Callback, Discard
    <3>4. OneReservation' BY <2>12 DEF Callback, Discard
    <3>5. ClosingRegistered' BY <2>12 DEF Callback, Discard
    <3>6. Stopping' BY <2>12 DEF Callback, Discard
    <3> QED BY <3>1, <3>2, <3>3, <3>4, <3>5, <3>6
  <2> QED BY <1>2, <2>1, <2>2, <2>3, <2>4, <2>5, <2>6, <2>7, <2>8, <2>9, <2>10, <2>11, <2>12 DEF TurnNext
<1>3. ASSUME NEW w \in Swaps, SwapNext(w) PROVE Ownership'
  <2>1. CASE PutModel(w) BY <2>1 DEF PutModel, Current
  <2>2. CASE SwapAcquire(w) BY <2>2 DEF SwapAcquire
  <2>3. CASE SwapGet(w) BY <2>3 DEF SwapGet
  <2>4. CASE SwapPut(w) BY <2>4 DEF SwapPut, Current
  <2>5. CASE SwapSaved(w) BY <2>5 DEF SwapSaved
  <2>6. CASE SwapDone(w) BY <2>6 DEF SwapDone
  <2> QED BY <1>3, <2>1, <2>2, <2>3, <2>4, <2>5, <2>6 DEF SwapNext
<1>4. ASSUME NEW d \in Deletes, DeleteNext(d) PROVE Ownership'
  <2>1. CASE DeleteCheck(d) BY <2>1 DEF DeleteCheck
  <2>2. CASE DeleteReserve(d)
    <3>1. TurnOwnsRuntime' BY <2>2 DEF DeleteReserve, Current, Busy, Refuse
    <3>2. AdmittedTurn' BY <2>2 DEF DeleteReserve, Current, Busy, Refuse
    <3>3. ReservedRuntime' BY <2>2 DEF DeleteReserve, Current, Busy, Refuse
    <3>4. OneReservation' BY <2>2 DEF DeleteReserve, Current, Busy, Refuse
    <3>5. ClosingRegistered' BY <2>2 DEF DeleteReserve, Current, Busy, Refuse
    <3>6. Stopping' BY <2>2 DEF DeleteReserve, Current, Busy, Refuse
    <3> QED BY <3>1, <3>2, <3>3, <3>4, <3>5, <3>6
  <2>3. CASE DeleteReget(d) BY <2>3 DEF DeleteReget, Release, Discard
  <2>4. CASE DeleteTree(d) BY <2>4 DEF DeleteTree, Release, Discard
  <2>5. CASE DeletePurge(d) BY <2>5 DEF DeletePurge, Release, Discard
  <2> QED BY <1>4, <2>1, <2>2, <2>3, <2>4, <2>5 DEF DeleteNext
<1>5. ASSUME ServerNext PROVE Ownership'
  <2>1. CASE ShutdownBegin BY <2>1 DEF ShutdownBegin, Evict
  <2>2. CASE ShutdownTimeout BY <2>2 DEF ShutdownTimeout
  <2>3. CASE ShutdownEvict BY <2>3 DEF ShutdownEvict, Evict, TaskDone
  <2>4. CASE Stopped BY <2>4 DEF Stopped, vars
  <2> QED BY <1>5, <2>1, <2>2, <2>3, <2>4 DEF ServerNext
<1>6. CASE UNCHANGED vars BY <1>6 DEF vars
<1> QED BY <1>1, <1>2, <1>3, <1>4, <1>5, <1>6 DEF Next
-----------------------------------------------------------------------------
(* The invariant holds in every reachable state. *)
THEOREM Invariance == Spec => []IInv
<1>1. IInv /\ [Next]_vars => IInv'
      BY TypeStep, OwnershipStep DEF IInv
<1> QED BY InitIInv, <1>1, PTL DEF Spec

(* Every variable has its type, and the worker's queue holds exactly the    *)
(* jobs of the coroutines that wait for it.                                 *)
THEOREM TypeCorrect == Spec => []TypeOK
<1>1. IInv => TypeOK
      BY DEF IInv
<1> QED BY Invariance, <1>1, PTL

(* A session never runs two turns at once (dispatch, discard_if_idle,       *)
(* _turn_task_done).                                                        *)
THEOREM TurnSafety == Spec => []TurnsSerialized
<1>1. IInv => TurnsSerialized
      BY DEF IInv, Ownership, TurnOwnsRuntime, TurnsSerialized
<1> QED BY Invariance, <1>1, PTL

(* A reserved session has no live turn and no second deletion               *)
(* (begin_cleanup, dispatch).                                               *)
THEOREM DeletionSafety == Spec => []DeletionExclusive
<1>1. IInv => DeletionExclusive
  <2>1. ASSUME IInv, NEW d \in Deletes, Reserved(d), NEW t \in Turns, Live(t)
        PROVE  FALSE
        BY <2>1, NoneAssumption
           DEF IInv, Ownership, TurnOwnsRuntime, ReservedRuntime, Procs
  <2> QED BY <2>1 DEF IInv, Ownership, OneReservation, DeletionExclusive
<1> QED BY Invariance, <1>1, PTL

(* After shutdown no turn runs (cleanup_session, _lifespan).                *)
THEOREM ShutdownSafety == Spec => []ShutdownQuiet
<1>1. IInv => ShutdownQuiet
      BY DEF IInv, Ownership, Stopping, ShutdownQuiet
<1> QED BY Invariance, <1>1, PTL

(* The three together: however often the runtime object of a session is     *)
(* replaced, its turns stay one at a time and end with the server.          *)
THEOREM TurnsAreContained == Spec => []TurnsContained
<1>1. TypeOK /\ TurnsSerialized /\ ShutdownQuiet => TurnsContained
      BY DEF TurnsContained
<1> QED BY TypeCorrect, TurnSafety, ShutdownSafety, <1>1, PTL

-----------------------------------------------------------------------------
(* Only the deletion that holds the reservation of an object lifts it:      *)
(* every other action leaves closing alone or sets it.                      *)
LEMMA ReservationStep ==
    ASSUME IInv, [Next]_vars, NEW r \in Runtimes, closing[r], ~closing'[r]
    PROVE  \E d \in Deletes : ref[d] = r /\ Reserved(d) /\ ~Reserved(d)'
<1> USE DEF IInv, TypeOK, FieldsOK
<1>1. ASSUME NEW d \in Deletes, Reserved(d), Release(d)
      PROVE  ref[d] = r /\ ~Reserved(d)'
  <2>1. ref[d] = rt /\ rt \in Runtimes
        BY <1>1, NoneAssumption DEF Ownership, ReservedRuntime
  <2>2. r = rt
        BY <1>1, <2>1 DEF Release
  <2>3. ~Reserved(d)'
        BY <1>1 DEF Release, Goto, Reserved, CoroutinesOK, Procs
  <2> QED BY <2>1, <2>2, <2>3
<1>2. ASSUME NEW d \in Deletes, DeleteNext(d)
      PROVE  Reserved(d) /\ Release(d)
  <2>1. CASE DeleteCheck(d)
        BY <2>1 DEF DeleteCheck, rtVars
  <2>2. CASE DeleteReserve(d)
        BY <2>2 DEF DeleteReserve, Refuse
  <2>3. CASE DeleteReget(d)
        BY <2>3 DEF DeleteReget, Reserved
  <2>4. CASE DeleteTree(d)
        BY <2>4 DEF DeleteTree, Reserved
  <2>5. CASE DeletePurge(d)
        BY <2>5 DEF DeletePurge, Reserved
  <2> QED BY <1>2, <2>1, <2>2, <2>3, <2>4, <2>5 DEF DeleteNext
<1>3. ASSUME NEW s \in Sockets, SocketNext(s) PROVE FALSE
      BY <1>3 DEF SocketNext, Connect, Disconnect, RecvOther, RecvCancel,
                  RecvMessage, Dispatch, rtVars
<1>4. ASSUME NEW t \in Turns, TurnNext(t) PROVE FALSE
      BY <1>4 DEF TurnNext, Start, Acquire, Emitted, BuildAgent,
                  InvalidateContext, RunCommand, CommandDone, Finish, Saved,
                  Ended, Unwind, Callback, rtVars
<1>5. ASSUME NEW w \in Swaps, SwapNext(w) PROVE FALSE
      BY <1>5 DEF SwapNext, PutModel, SwapAcquire, SwapGet, SwapPut,
                  SwapSaved, SwapDone, rtVars
<1>6. ASSUME ServerNext PROVE FALSE
      BY <1>6 DEF ServerNext, ShutdownBegin, ShutdownTimeout, ShutdownEvict,
                  Stopped, rtVars, vars
<1>7. CASE UNCHANGED vars BY <1>7 DEF vars
<1> QED BY <1>1, <1>2, <1>3, <1>4, <1>5, <1>6, <1>7 DEF Next

(* A refused DELETE, a turn, a switch or a frame never lifts a reservation. *)
THEOREM ReservationSafety == Spec => ReservationKept
<1>1. IInv /\ [Next]_vars =>
          [\A r \in Runtimes : closing[r] /\ ~closing'[r] =>
              \E d \in Deletes : ref[d] = r /\ Reserved(d) /\ ~Reserved(d)']_vars
      BY ReservationStep
<1> QED BY Invariance, <1>1, PTL DEF Spec, ReservationKept

-----------------------------------------------------------------------------
(* Without model switches, nothing of a deleted session is stored and no    *)
(* turn is admitted for it; the directory is gone before the row is.        *)
Gone ==
    /\ deleted => /\ ~row /\ ~dir /\ ~thread
                  /\ \A t \in Turns : ~Live(t)
    /\ \A d \in Deletes : pc[d] = "purge" => ~dir

(* The row of a deleted session is what keeps turns away from it.           *)
LEMMA GoneStep ==
    ASSUME Swaps = {}, IInv, Gone, [Next]_vars
    PROVE  Gone'
<1> USE RolesAssumption
    DEF IInv, TypeOK, CoroutinesOK, Gone, Live, LiveStates, Procs, TurnStates,
        SocketStates, DeleteStates, ServerStates, Goto, store
<1>1. ASSUME NEW s \in Sockets, SocketNext(s) PROVE Gone'
      BY <1>1 DEF SocketNext, Connect, Disconnect, RecvOther, RecvCancel,
                  RecvMessage, Dispatch
<1>2. ASSUME NEW t \in Turns, TurnNext(t) PROVE Gone'
  <2>1. CASE Callback(t) BY <2>1 DEF Callback
  <2>2. CASE ~Callback(t)
    <3>1. Live(t)
          BY <1>2, <2>2
             DEF TurnNext, At, Start, Acquire, Emitted, BuildAgent,
                 InvalidateContext, RunCommand, CommandDone, Finish, Saved,
                 Ended, Unwind, PipelineStates
    <3>2. deleted' = deleted /\ dir' = dir
          BY <1>2, <2>2
             DEF TurnNext, Start, Acquire, Emitted, BuildAgent,
                 InvalidateContext, RunCommand, CommandDone, Finish, Saved,
                 Ended, Unwind
    <3>3. \A d \in Deletes : pc'[d] = pc[d]
          BY ZenonT(60), <1>2, <2>2
             DEF TurnNext, Start, Enter, Acquire, Emitted, BuildAgent, Abort,
                 InvalidateContext, RunCommand, CommandDone, Finish, Saved,
                 Ended, Unwind
    <3> QED BY <3>1, <3>2, <3>3
  <2> QED BY <2>1, <2>2
<1>3. ASSUME NEW d \in Deletes, DeleteNext(d) PROVE Gone'
  <2>1. CASE DeleteCheck(d)   BY <2>1 DEF DeleteCheck
  <2>2. CASE DeleteReserve(d) BY <2>2 DEF DeleteReserve, Refuse
  <2>3. CASE DeleteReget(d)   BY ZenonT(60), <2>3 DEF DeleteReget, Release
  <2>4. CASE DeleteTree(d)
    <3>1. CASE dir' = FALSE   BY <2>4, <3>1 DEF DeleteTree, Release
    <3>2. CASE dir' = dir     BY <2>4, <3>2 DEF DeleteTree, Release
    <3> QED BY <2>4, <3>1, <3>2 DEF DeleteTree
  <2>5. CASE DeletePurge(d)
    <3>1. \A t \in Turns : ~Live(t)
          BY <2>5, NoneAssumption
             DEF DeletePurge, Reserved, Ownership, TurnOwnsRuntime,
                 ReservedRuntime
    <3> QED BY <2>5, <3>1 DEF DeletePurge, Release, Erase
  <2> QED BY <1>3, <2>1, <2>2, <2>3, <2>4, <2>5 DEF DeleteNext
<1>4. ASSUME ServerNext PROVE Gone'
      BY <1>4 DEF ServerNext, ShutdownBegin, ShutdownTimeout, ShutdownEvict,
                  Stopped, vars
<1>5. CASE UNCHANGED vars BY <1>5 DEF vars
<1> QED BY <1>1, <1>2, <1>3, <1>4, <1>5 DEF Next

(* The strengthened invariant of a session whose model is never switched.   *)
LEMMA GoneInvariance ==
    ASSUME Swaps = {}
    PROVE  Spec => []Gone
<1>1. Init => Gone
      BY RolesAssumption DEF Init, Gone, Procs
<1>2. IInv /\ Gone /\ [Next]_vars => Gone'
      BY GoneStep
<1> QED BY Invariance, <1>1, <1>2, PTL DEF Spec

(* No orphan data, as long as the model is not switched: the run            *)
(* SessionSwapDelete shows the switch that breaks it.                       *)
THEOREM DeletionComplete ==
    ASSUME Swaps = {}
    PROVE  Spec => []NoOrphanData
<1>1. Gone => NoOrphanData
      BY DEF Gone, NoOrphanData
<1> QED BY GoneInvariance, <1>1, PTL

-----------------------------------------------------------------------------
(* Refinement.  A step changes the phase only through what its actor owns:  *)
(* frames start turns, turns end, deletions reserve, give back and delete,  *)
(* and shutdown leaves "up".                                                *)
HasTurn  == \E t \in Turns : Live(t)
Deleting == \E d \in Deletes : Reserved(d)

(* What the invariants say about the phase.                                 *)
LEMMA PhaseFacts ==
    ASSUME IInv, Gone
    PROVE  /\ HasTurn => ~deleted /\ ~Deleting
           /\ Deleting => pc[Server] = "up"
<1>1. ASSUME NEW t \in Turns, Live(t), NEW d \in Deletes, Reserved(d)
      PROVE  FALSE
      BY <1>1, NoneAssumption
         DEF IInv, Ownership, TurnOwnsRuntime, ReservedRuntime, Procs
<1>2. HasTurn => ~deleted
      BY DEF Gone, HasTurn
<1>3. Deleting => pc[Server] = "up"
      BY DEF IInv, Ownership, Stopping, Deleting, Reserved
<1> QED BY <1>1, <1>2, <1>3 DEF HasTurn, Deleting

(* A step of the runtime is a step of the contract or leaves the phase.     *)
LEMMA PhaseStep ==
    ASSUME Swaps = {}, IInv, Gone, [Next]_vars
    PROVE  [Contract!Next]_Phase
<1> DEFINE Moved == [Contract!Next]_Phase
<1>p. /\ HasTurn => ~deleted /\ ~Deleting
      /\ Deleting => pc[Server] = "up"
      BY PhaseFacts
<1>d. Deleting /\ deleted => ~row
      BY DEF Gone
<1> USE RolesAssumption
    DEF IInv, TypeOK, CoroutinesOK, Procs, Goto, store, Live, LiveStates,
        Reserved, TurnStates, SocketStates, DeleteStates, ServerStates,
        HasTurn, Deleting
<1>1. ASSUME NEW s \in Sockets, SocketNext(s) PROVE Moved
  <2>1. /\ deleted' = deleted
        /\ pc'[Server] = pc[Server]
        /\ \A d \in Deletes : pc'[d] = pc[d]
        BY <1>1 DEF SocketNext, Connect, Disconnect, RecvOther, RecvCancel,
                    RecvMessage, Dispatch
  <2>2. CASE \A t \in Turns : pc'[t] = pc[t]
        BY <2>1, <2>2 DEF Phase
  <2>3. CASE \E t \in Turns : pc'[t] # pc[t]
    <3>1. Dispatch(s) /\ row /\ HasTurn'
          BY <1>1, <2>3 DEF SocketNext, Connect, Disconnect, RecvOther,
             RecvCancel, RecvMessage, Dispatch
    <3>2. ~deleted
          BY <3>1 DEF Gone
    <3>3. pc[Server] = "up"
          BY <3>1 DEF Dispatch, Ownership, Stopping
    <3>4. ~Deleting /\ ~HasTurn
          BY <2>3, <3>1, NoneAssumption
             DEF Dispatch, Current, Busy, Ownership, TurnOwnsRuntime,
                 ReservedRuntime
    <3>5. Phase = "open" /\ Phase' = "turn"
          BY <3>1, <3>2, <3>3, <3>4 DEF Phase
    <3> QED BY <3>5 DEF Contract!Next, Contract!AdmitTurn, Contract!Step
  <2> QED BY <2>2, <2>3
<1>2. ASSUME NEW t \in Turns, TurnNext(t) PROVE Moved
  <2>0. deleted' = deleted
        BY <1>2 DEF TurnNext, Start, Acquire, Emitted, BuildAgent,
                    InvalidateContext, RunCommand, CommandDone, Finish, Saved,
                    Ended, Unwind, Callback
  <2>9. PICK state \in TurnStates : pc' = [pc EXCEPT ![t] = state]
    <3>1. pc = [pc EXCEPT ![t] = pc[t]]
          OBVIOUS
    <3> QED BY <1>2, <3>1
               DEF TurnNext, Start, Enter, Acquire, Emitted, BuildAgent,
                   Abort, InvalidateContext, RunCommand, CommandDone, Finish,
                   Saved, Ended, Unwind, Callback
  <2>1. /\ deleted' = deleted
        /\ pc'[Server] = pc[Server]
        /\ \A d \in Deletes : pc'[d] = pc[d]
        /\ \A u \in Turns \ {t} : pc'[u] = pc[u]
        BY <2>0, <2>9
  <2>2. CASE Live(t)' <=> Live(t)
        BY <2>1, <2>2 DEF Phase
  <2>3. CASE ~Live(t) /\ Live(t)'
        BY <1>2, <2>3 DEF TurnNext, At, Start, Acquire, Emitted, BuildAgent,
                    InvalidateContext, RunCommand, CommandDone, Finish, Saved,
                    Ended, Unwind, PipelineStates, Callback
  <2>4. CASE Live(t) /\ ~Live(t)'
    <3>1. Phase = "turn"
          BY <2>4 DEF Phase
    <3>2. Phase' \in {"turn", "open", "stopped"}
          BY <1>p, <2>1, <2>4 DEF Phase
    <3> QED BY <3>1, <3>2 DEF Contract!Next, Contract!EndTurn,
                              Contract!StopTurn, Contract!Step
  <2> QED BY <2>2, <2>3, <2>4
<1>3. ASSUME NEW d \in Deletes, DeleteNext(d) PROVE Moved
  <2>1. /\ pc'[Server] = pc[Server]
        /\ \A t \in Turns : pc'[t] = pc[t]
        /\ \A e \in Deletes \ {d} : pc'[e] = pc[e]
    <3>1. pc = [pc EXCEPT ![d] = pc[d]]
          OBVIOUS
    <3>2. PICK state \in DeleteStates : pc' = [pc EXCEPT ![d] = state]
          BY <1>3, <3>1 DEF DeleteNext, DeleteCheck, DeleteReserve, Refuse,
                            DeleteReget, DeleteTree, DeletePurge, Release
    <3> QED BY <3>2
  <2>2. CASE deleted' = deleted /\ (Reserved(d)' <=> Reserved(d))
        BY <2>1, <2>2 DEF Phase
  <2>3. CASE deleted' = deleted /\ ~Reserved(d) /\ Reserved(d)'
    <3>1. DeleteReserve(d) /\ row
          BY ZenonT(60), <1>3, <2>3 DEF DeleteNext, DeleteCheck, DeleteReserve,
                            DeleteReget, DeleteTree, DeletePurge, Release
    <3>2. ~deleted /\ pc[Server] = "up"
          BY <3>1 DEF Gone, DeleteReserve, Ownership, Stopping
    <3>3. ~Deleting /\ ~HasTurn
          BY <2>3, <3>1, NoneAssumption
             DEF DeleteReserve, Current, Busy, Refuse, Ownership,
                 TurnOwnsRuntime, ReservedRuntime
    <3>4. Phase = "open" /\ Phase' = "deleting"
          BY <2>1, <2>3, <3>2, <3>3 DEF Phase
    <3> QED BY <3>4 DEF Contract!Next, Contract!Reserve, Contract!Step
  <2>4. CASE Reserved(d) /\ ~Reserved(d)'
    <3>1. \A e \in Deletes : ~Reserved(e)'
          BY <2>1, <2>4 DEF Ownership, OneReservation
    <3>2. CASE deleted
          BY <1>3, <1>p, <2>1, <3>2
             DEF Phase, DeleteNext, DeleteCheck, DeleteReserve, DeleteReget,
                 DeleteTree, DeletePurge
    <3>3. CASE ~deleted
      <4>1. Phase = "deleting" /\ Phase' \in {"open", "gone"}
            BY <1>p, <2>1, <2>4, <3>1, <3>3 DEF Phase
      <4> QED BY <4>1 DEF Contract!Next, Contract!GiveBack, Contract!Delete,
                          Contract!Step
    <3> QED BY <3>2, <3>3
  <2>5. CASE deleted' # deleted
        BY <1>3, <2>4, <2>5
           DEF DeleteNext, DeleteCheck, DeleteReserve, DeleteReget,
               DeleteTree, DeletePurge, Release
  <2> QED BY <2>2, <2>3, <2>4, <2>5
<1>4. ASSUME ServerNext PROVE Moved
  <2>1. /\ deleted' = deleted
        /\ \A p \in Turns \cup Deletes : pc'[p] = pc[p]
        BY <1>4 DEF ServerNext, ShutdownBegin, ShutdownTimeout, ShutdownEvict,
                    Stopped, vars
  <2>2. CASE pc'[Server] = pc[Server]
        BY <2>1, <2>2 DEF Phase
  <2>3. CASE pc'[Server] # pc[Server] /\ pc[Server] # "up"
    <3>1. pc'[Server] # "up"
          BY <1>4, <2>3 DEF ServerNext, ShutdownBegin, ShutdownTimeout,
                            ShutdownEvict, Stopped, vars
    <3> QED BY <2>1, <2>3, <3>1 DEF Phase
  <2>4. CASE pc'[Server] # pc[Server] /\ pc[Server] = "up"
    <3>1. pc'[Server] # "up" /\ ~Deleting
          BY <1>4, <2>4 DEF ServerNext, ShutdownBegin, ShutdownTimeout,
                            ShutdownEvict, Stopped, vars
    <3>2. Phase' = Phase \/ (Phase = "open" /\ Phase' = "stopped")
          BY <2>1, <2>4, <3>1 DEF Phase
    <3> QED BY <3>2 DEF Contract!Next, Contract!Stop, Contract!Step
  <2> QED BY <2>2, <2>3, <2>4
<1>5. CASE UNCHANGED vars BY <1>5 DEF vars, Phase
<1> QED BY <1>1, <1>2, <1>3, <1>4, <1>5 DEF Next

(* The runtime implements SessionContract, for every number of clients, as  *)
(* long as the model is not switched: turns and deletion exclude each other *)
(* and nothing happens to a session that is gone or stopped.                *)
THEOREM Refinement ==
    ASSUME Swaps = {}
    PROVE  Spec => ImplementsContract
<1>1. Init => Contract!Init
      BY RolesAssumption DEF Init, Contract!Init, Phase, Live, LiveStates,
         Reserved, Procs
<1>2. IInv /\ Gone /\ [Next]_vars => [Contract!Next]_Phase
      BY PhaseStep
<1> QED BY Invariance, GoneInvariance, <1>1, <1>2, PTL
       DEF Spec, ImplementsContract, Contract!Spec
=============================================================================
