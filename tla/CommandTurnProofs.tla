-------------------------- MODULE CommandTurnProofs --------------------------
(***************************************************************************)
(* Proofs about CommandTurn, for every set of calls, commands and approval *)
(* ids.                                                                    *)
(*                                                                         *)
(* The properties look at a spawned command, a signalled process and a     *)
(* turn that has ended.  What makes them inductive is the way there: where *)
(* a call's approval comes from before its spawn (Granted), and which call *)
(* will take back the status and the context it has spoilt (Settling).     *)
(*                                                                         *)
(* Nearly every action is a step of one call, so OwnStep says once what    *)
(* such a step owes to the invariant; the lemmas after it say it for a     *)
(* call that moves on, that is finalized and that ends.                    *)
(***************************************************************************)
EXTENDS CommandTurn, TLAPS

Asking(c) == call[c].pc \in {"askEmit", "ask"}

(* A slot is used only inside a turn, and cancelled only with it. *)
Slot(c) ==
    /\ call[c].pc = "idle" => call[c] = NoCall
    /\ call[c].pc # "idle" => call[c].cmd # None
    /\ call[c].pc = "mark" => call[c].cmd \in LongRunning
    /\ turn \in {"idle", "ending"} => call[c].pc = "idle"
    /\ call[c].creq => cancelled

(* An id is issued for the command of its call, pending while the call asks, *)
(* and confirmed once the call has been let through.                         *)
Granted(c) ==
    /\ call[c].grant # None => shown[call[c].grant] = call[c].cmd
    /\ call[c].pc = "prepare" => call[c].grant = None
    /\ Asking(c) => call[c].grant # None /\ approval = call[c].grant
    /\ call[c].pc = "askEnd" /\ call[c].verdict => call[c].grant \in confirmed
    /\ Spawned(c) /\ call[c].cmd \in Protected => call[c].grant \in confirmed

Reached(c) ==
    cancelled /\ (call[c].pc = "stream" \/ (call[c].pc = "capture" /\ TurnOwned(c)))
        => call[c].signalled

GrantsDistinct ==
    \A c, d \in Calls :
        c # d /\ call[c].grant # None => call[d].grant # call[c].grant

Answered == approval # None /\ decision = "yes" => approval \in confirmed

(* A call on its way to a final status, and one on its way to the renewal of *)
(* the range's artifacts.                                                    *)
WillSettle(c) == /\ call[c].cmd \in LongRunning
                 /\ call[c].pc \in {"starting", "failing", "stream", "final"}

WillRenew(c) == /\ call[c].cmd \in ChangesRange
                /\ call[c].pc \in {"starting", "stream", "final", "endEmit",
                                   "capStart", "capture", "report"}

(* While nobody has cancelled the turn, whatever is unsettled has a call     *)
(* that will settle it.                                                      *)
Settling ==
    ~cancelled /\ clean =>
        /\ status = "provisioning" => \E c \in Calls : WillSettle(c)
        /\ context = "stale" => \E c \in Calls : WillRenew(c)

IInv == /\ TypeOK
        /\ \A c \in Calls : Slot(c) /\ Granted(c) /\ Reached(c)
        /\ GrantsDistinct /\ PendingOwned /\ Answered /\ Settling

-----------------------------------------------------------------------------
(* The effect of each way to write a slot. *)
CallRecords == [pc : CallStates, cmd : Commands \cup {None},
                creq : BOOLEAN, signalled : BOOLEAN,
                stopped : BOOLEAN, raising : BOOLEAN, stage : Stages,
                grant : Ids \cup {None}, verdict : BOOLEAN]

Only(c) == \A d \in Calls \ {c} : call'[d] = call[d]

Same(c) == /\ call'[c].cmd = call[c].cmd /\ call'[c].grant = call[c].grant

(* Goto changes the await and nothing else. *)
LEMMA GotoEffect ==
    ASSUME TypeOK, NEW c \in Calls, NEW state \in CallStates, Goto(c, state)
    PROVE  /\ call' \in [Calls -> CallRecords] /\ Only(c) /\ Same(c)
           /\ call'[c].pc = state
           /\ call'[c].creq = call[c].creq
           /\ call'[c].signalled = call[c].signalled
           /\ call'[c].stopped = call[c].stopped
           /\ call'[c].stage = call[c].stage
           /\ call'[c].verdict = call[c].verdict
BY DEF TypeOK, Goto, CallRecords, Only, Same

(* Return frees the slot. *)
LEMMA ReturnEffect ==
    ASSUME TypeOK, NEW c \in Calls, Return(c)
    PROVE  /\ call' \in [Calls -> CallRecords] /\ Only(c)
           /\ call'[c] = NoCall
BY DEF TypeOK, Return, CallRecords, Only, NoCall, CallStates, Stages

(* Spawn starts the process or fails, and only a start changes the range. *)
LEMMA SpawnEffect ==
    ASSUME TypeOK, NEW c \in Calls, Spawn(c)
    PROVE  /\ call' \in [Calls -> CallRecords] /\ Only(c) /\ Same(c)
           /\ call'[c].pc \in {"starting", "failing"}
           /\ call'[c].creq = call[c].creq
           /\ context' \in {context, "stale"}
           /\ context' # context => call[c].cmd \in ChangesRange /\ call'[c].pc = "starting"
<1>1. "starting" \in CallStates /\ "failing" \in CallStates
      BY DEF CallStates
<1>2. CASE /\ Goto(c, "starting")
           /\ context' = IF call[c].cmd \in ChangesRange /\ context = "fresh"
                         THEN "stale" ELSE context
      BY <1>1, <1>2, GotoEffect
<1>3. CASE Goto(c, "failing") /\ UNCHANGED context
      BY <1>1, <1>3, GotoEffect
<1> QED BY <1>2, <1>3 DEF Spawn

(* Finally ends the call, or starts the renewal if it may have changed the   *)
(* range.                                                                    *)
LEMMA FinallyEffect ==
    ASSUME TypeOK, NEW c \in Calls, NEW raises \in BOOLEAN, NEW stopped \in BOOLEAN,
           Finally(c, raises, stopped)
    PROVE  /\ call' \in [Calls -> CallRecords] /\ Only(c)
           /\ \/ call[c].cmd \notin ChangesRange /\ call'[c] = NoCall
              \/ /\ call[c].cmd \in ChangesRange /\ Same(c)
                 /\ call'[c].pc = "capStart" /\ call'[c].creq = FALSE
           /\ turn' = turn \/ (turn = "model" /\ turn' = "stopping")
<1>1. CASE call[c].cmd \in ChangesRange
  <2> DEFINE r == call[c]
             q == [r EXCEPT !.pc = "capStart", !.stage = "renew", !.raising = raises,
                            !.stopped = stopped, !.creq = FALSE]
  <2>1. call' = [call EXCEPT ![c] = q] /\ UNCHANGED turn
        BY <1>1 DEF Finally
  <2>2. r \in CallRecords
        BY DEF TypeOK, CallRecords
  <2>3. /\ q \in CallRecords /\ q.pc = "capStart" /\ q.creq = FALSE
        /\ q.cmd = r.cmd /\ q.grant = r.grant
    <3> HIDE DEF r
    <3> QED BY <2>2 DEF CallRecords, CallStates, Stages
  <2>4. call \in [Calls -> CallRecords]
        BY DEF TypeOK, CallRecords
  <2>5. r = call[c]
        OBVIOUS
  <2> HIDE DEF r, q
  <2>6. call'[c] = q /\ Only(c)
        BY <2>1, <2>4 DEF Only
  <2>7. call' \in [Calls -> CallRecords]
        BY <2>1, <2>3, <2>4
  <2> QED BY <1>1, <2>1, <2>3, <2>5, <2>6, <2>7 DEF Same
<1>2. CASE call[c].cmd \notin ChangesRange
  <2>1. Leave(c, raises)
        BY <1>2 DEF Finally
  <2> QED BY <1>2, <2>1, ReturnEffect DEF Leave
<1> QED BY <1>1, <1>2

-----------------------------------------------------------------------------
(* What a step of one call owes: its own part of the invariant, a request    *)
(* withdrawn unless the call goes on asking, and a status or a context left  *)
(* unsettled only if the call did not answer for it, or still does.          *)
LEMMA OwnStep ==
    ASSUME IInv, NEW c \in Calls, Only(c),
           call' \in [Calls -> CallRecords],
           UNCHANGED <<cancelled, shown, confirmed, clean, startable>>,
           decision' = decision \/ approval' = None, decision' \in {"open", "yes", "no"},
           expired' \in BOOLEAN,
           call'[c].grant \in {call[c].grant, None},
           \/ approval' = Withdraw(c)
           \/ /\ approval' = approval
              /\ Asking(c) => Asking(c)' /\ call'[c].grant = call[c].grant,
           turn' = turn \/ (turn = "model" /\ turn' = "stopping"),
           status' \in Statuses, context' \in {"none", "fresh", "stale"},
           Slot(c)', Granted(c)', Reached(c)',
           ~cancelled =>
             /\ status' = "provisioning" =>
                   \/ WillSettle(c)'
                   \/ status = "provisioning" /\ ~WillSettle(c)
             /\ context' = "stale" =>
                   \/ WillRenew(c)'
                   \/ context = "stale" /\ ~WillRenew(c)
    PROVE  IInv'
<1>1. TypeOK'
      BY DEF IInv, TypeOK, CallRecords, Withdraw
<1>2. GrantsDistinct'
      BY DEF IInv, GrantsDistinct, Only
<1>3. ASSUME NEW d \in Calls \ {c}
      PROVE  Slot(d)' /\ Granted(d)' /\ Reached(d)'
  <2>1. call'[d] = call[d]
        BY <1>3 DEF Only
  <2>2. Slot(d) /\ Granted(d) /\ Reached(d)
        BY <1>3 DEF IInv
  <2>3. Asking(d) => approval' = approval
        BY <1>3, <2>2 DEF IInv, GrantsDistinct, Granted, Withdraw, Asking
  <2>4. Slot(d)'
        BY <2>1, <2>2 DEF Slot
  <2>5. Granted(d)'
        BY <2>1, <2>2, <2>3 DEF Granted, Spawned, Asking
  <2>6. Reached(d)'
        BY <2>1, <2>2 DEF Reached, TurnOwned
  <2> QED BY <2>4, <2>5, <2>6
<1>4. \A d \in Calls : Slot(d)' /\ Granted(d)' /\ Reached(d)'
      BY <1>3
<1>5. PendingOwned'
  <2> SUFFICES ASSUME approval' # None
               PROVE  \E d \in Calls : call'[d].grant = approval' /\ Asking(d)'
      BY DEF PendingOwned, Asking
  <2>1. approval' = approval
        BY DEF Withdraw
  <2>2. PICK d \in Calls : call[d].grant = approval /\ Asking(d)
        BY <2>1 DEF IInv, PendingOwned, Asking
  <2>3. CASE d = c
        BY <2>1, <2>2, <2>3 DEF Withdraw
  <2>4. CASE d # c
        BY <2>1, <2>2, <2>4 DEF Only, Asking
  <2> QED BY <2>3, <2>4
<1>6. Answered'
      BY DEF IInv, Answered, Withdraw
<1>7. Settling'
  <2> SUFFICES ASSUME ~cancelled, clean
               PROVE  /\ status' = "provisioning" => \E d \in Calls : WillSettle(d)'
                      /\ context' = "stale" => \E d \in Calls : WillRenew(d)'
      BY DEF Settling
  <2>1. \A d \in Calls \ {c} : /\ WillSettle(d) => WillSettle(d)'
                               /\ WillRenew(d) => WillRenew(d)'
        BY DEF Only, WillSettle, WillRenew
  <2>2. /\ status = "provisioning" => \E d \in Calls : WillSettle(d)
        /\ context = "stale" => \E d \in Calls : WillRenew(d)
        BY DEF IInv, Settling
  <2> QED BY <2>1, <2>2
<1> QED BY <1>1, <1>2, <1>4, <1>5, <1>6, <1>7 DEF IInv

(* A record that asks. *)
LEMMA RequestRecord ==
    ASSUME NEW r \in CallRecords, NEW i \in Ids,
           NEW q, q = [r EXCEPT !.pc = "askEmit", !.grant = i]
    PROVE  /\ q.pc = "askEmit" /\ q.cmd = r.cmd /\ q.creq = r.creq
           /\ q.grant = i /\ q \in CallRecords
BY DEF CallRecords, CallStates

(* Setting one slot. *)
LEMMA SlotSet ==
    ASSUME TypeOK, NEW c \in Calls, NEW q \in CallRecords, call' = [call EXCEPT ![c] = q]
    PROVE  call' \in [Calls -> CallRecords] /\ Only(c) /\ call'[c] = q
BY DEF TypeOK, CallRecords, Only

(* A protected command issues an id nobody holds and waits for its answer. *)
LEMMA RequestStep ==
    ASSUME IInv, NEW c \in Calls, call[c].pc = "prepare",
           UNCHANGED <<turn, cancelled, status, context, confirmed, clean, startable>>,
           approval = None,
           NEW i \in Ids, shown[i] = None, approval' = i,
           call' = [call EXCEPT ![c].pc = "askEmit", ![c].grant = i],
           shown' = [shown EXCEPT ![i] = call[c].cmd],
           decision' = "open", expired' = FALSE
    PROVE  IInv'
<1> DEFINE q == [call[c] EXCEPT !.pc = "askEmit", !.grant = i]
<1>0. /\ TypeOK /\ Slot(c) /\ Granted(c) /\ call[c] \in CallRecords
      /\ i # None
      BY NoneAssumption DEF IInv, TypeOK, CallRecords, NoneAssumption
<1>1. /\ q.pc = "askEmit" /\ q.cmd = call[c].cmd /\ q.creq = call[c].creq
      /\ q.grant = i /\ q \in CallRecords
      BY <1>0, RequestRecord
<1>2. call'[c] = q /\ Only(c)
      BY <1>0 DEF TypeOK, Only
<1>3. call' = [call EXCEPT ![c] = q]
      OBVIOUS
<1> HIDE DEF q
<1>4. call' \in [Calls -> CallRecords]
      BY <1>0, <1>1, <1>3, SlotSet
<1>5. \A d \in Calls : d # c => call'[d] = call[d] /\ call[d].grant # i
  <2> SUFFICES ASSUME NEW d \in Calls, d # c
               PROVE  call'[d] = call[d] /\ call[d].grant # i
      OBVIOUS
  <2>1. Slot(d) /\ Granted(d) /\ call[d].cmd \in Commands \cup {None}
        BY DEF IInv, TypeOK
  <2>2. call[d].grant = i => call[d].cmd = None
        BY <1>0, <2>1 DEF Granted
  <2>3. call[d].cmd = None => call[d].grant = None
        BY <2>1 DEF Slot, NoCall
  <2> QED BY <1>0, <1>2, <2>2, <2>3 DEF Only
<1>6. TypeOK'
      BY <1>0, <1>4 DEF TypeOK, CallRecords
<1>7. Slot(c)' /\ Granted(c)' /\ Reached(c)'
      BY <1>0, <1>1, <1>2 DEF Slot, Granted, Reached, Asking, Spawned, TypeOK
<1>8. ASSUME NEW d \in Calls, d # c PROVE Slot(d)' /\ Granted(d)' /\ Reached(d)'
  <2>1. Slot(d) /\ Granted(d) /\ Reached(d) /\ call'[d] = call[d] /\ call[d].grant # i
        BY <1>5, <1>8 DEF IInv
  <2>2. call[d].grant # None => shown'[call[d].grant] = shown[call[d].grant]
        BY <1>0, <2>1 DEF TypeOK
  <2>3. ~Asking(d)
        BY <2>1 DEF Granted
  <2>4. Slot(d)' /\ Reached(d)'
        BY <2>1 DEF Slot, Reached, TurnOwned
  <2>5. Granted(d)'
    <3>1. call[d].grant # None => shown'[call[d].grant] = call[d].cmd
          BY <2>1, <2>2 DEF Granted
    <3>2. UNCHANGED confirmed
          OBVIOUS
    <3> QED BY <2>1, <2>3, <3>1, <3>2 DEF Granted, Asking, Spawned
  <2> QED BY <2>4, <2>5
<1>9. GrantsDistinct'
  <2>1. GrantsDistinct /\ call'[c].grant = i
        BY <1>1, <1>2 DEF IInv
  <2> SUFFICES ASSUME NEW d \in Calls, NEW e \in Calls, d # e, call'[d].grant # None
               PROVE  call'[e].grant # call'[d].grant
      BY DEF GrantsDistinct
  <2>2. CASE d = c
        BY <1>5, <2>1, <2>2
  <2>3. CASE e = c
        BY <1>5, <2>1, <2>3
  <2>4. CASE d # c /\ e # c
        BY <1>5, <2>1, <2>4 DEF GrantsDistinct
  <2> QED BY <2>2, <2>3, <2>4
<1>10. PendingOwned' /\ Answered'
      BY <1>1, <1>2 DEF PendingOwned, Answered
<1>11. Settling'
  <2>1. \A d \in Calls : /\ WillSettle(d) => WillSettle(d)'
                         /\ WillRenew(d) => WillRenew(d)'
        BY <1>5 DEF WillSettle, WillRenew
  <2> QED BY <2>1 DEF Settling, IInv
<1> QED BY <1>6, <1>7, <1>8, <1>9, <1>10, <1>11 DEF IInv

(* A call that ends, having withdrawn the request it may have made. *)
LEMMA ReturnStep ==
    ASSUME IInv, NEW c \in Calls, Return(c),
           UNCHANGED <<cancelled, decision, expired, shown, confirmed, clean, startable>>,
           approval' = IF Asking(c) THEN Withdraw(c) ELSE approval,
           turn' = turn \/ (turn = "model" /\ turn' = "stopping"),
           status' \in Statuses, context' \in {"none", "fresh", "stale"},
           ~cancelled =>
             /\ status' = "provisioning" => status = "provisioning" /\ ~WillSettle(c)
             /\ context' = "stale" => context = "stale" /\ ~WillRenew(c)
    PROVE  IInv'
<1>1. TypeOK /\ decision' \in {"open", "yes", "no"} /\ expired' \in BOOLEAN
      BY DEF IInv, TypeOK
<1>2. call' \in [Calls -> CallRecords] /\ Only(c) /\ call'[c] = NoCall
      BY <1>1, ReturnEffect
<1>3. Slot(c)' /\ Granted(c)' /\ Reached(c)'
      BY <1>2 DEF NoCall, Slot, Granted, Reached, Asking, Spawned
<1>4. call'[c].grant = None
      BY <1>2 DEF NoCall
<1> QED BY <1>1, <1>2, <1>3, <1>4, OwnStep

(* The end of _finalize_command. *)
LEMMA FinallyStep ==
    ASSUME IInv, NEW c \in Calls, NEW raises \in BOOLEAN, NEW stopped \in BOOLEAN,
           Finally(c, raises, stopped),
           call[c].pc \in {"endEmit", "capStart", "capture", "report"},
           UNCHANGED <<cancelled, approval, decision, expired, shown, confirmed,
                       status, context, clean, startable>>
    PROVE  IInv'
<1>1. TypeOK /\ Slot(c) /\ Granted(c)
      BY DEF IInv
<1>2. CASE call[c].cmd \notin ChangesRange
  <2>1. Leave(c, raises)
        BY <1>2 DEF Finally
  <2>2. Return(c) /\ (turn' = turn \/ (turn = "model" /\ turn' = "stopping"))
        BY <2>1 DEF Leave
  <2>3. ~WillSettle(c) /\ ~WillRenew(c) /\ ~Asking(c)
        BY <1>2 DEF WillSettle, WillRenew, Asking
  <2> QED BY <1>1, <2>2, <2>3, ReturnStep DEF TypeOK
<1>3. CASE call[c].cmd \in ChangesRange
  <2>1. /\ call' \in [Calls -> CallRecords] /\ Only(c) /\ Same(c)
        /\ call'[c].pc = "capStart" /\ call'[c].creq = FALSE
        /\ turn' = turn \/ (turn = "model" /\ turn' = "stopping")
        BY <1>1, <1>3, FinallyEffect
  <2>2. Slot(c)' /\ Reached(c)'
        BY <1>1, <2>1 DEF Slot, Same, Reached
  <2>3. Granted(c)'
        BY <1>1, <2>1 DEF Granted, Same, Asking, Spawned
  <2>4. ~WillSettle(c) /\ WillRenew(c)' /\ ~Asking(c)
        BY <1>3, <2>1 DEF WillSettle, WillRenew, Asking, Same
  <2> QED BY <1>1, <2>1, <2>2, <2>3, <2>4, OwnStep DEF Same, TypeOK
<1> QED BY <1>2, <1>3

(* A call that only moves on, to a state in which it asks nobody, or to the  *)
(* wait for an answer.                                                       *)
LEMMA MoveStep ==
    ASSUME IInv, NEW c \in Calls, NEW state \in CallStates, Goto(c, state),
           UNCHANGED <<turn, cancelled, approval, decision, expired, shown, confirmed,
                       clean, startable>>,
           \/ Asking(c) /\ state = "ask"
           \/ ~Asking(c) /\ state \in {"startEmit", "mark", "starting", "failing", "final",
                                       "endEmit", "report"},
           call[c].pc # "idle",
           state = "mark" => call[c].cmd \in LongRunning,
           \/ Spawned(c) \/ state = "ask" \/ call[c].cmd \notin Protected
           \/ call[c].pc = "askEnd" /\ call[c].verdict,
           status' \in Statuses, context' \in {"none", "fresh", "stale"},
           ~cancelled =>
             /\ status' = "provisioning" =>
                   \/ WillSettle(c)'
                   \/ status = "provisioning" /\ ~WillSettle(c)
             /\ context' = "stale" =>
                   \/ WillRenew(c)'
                   \/ context = "stale" /\ ~WillRenew(c)
    PROVE  IInv'
<1>1. TypeOK /\ Slot(c) /\ Granted(c) /\ Reached(c)
      BY DEF IInv
<1>2. /\ call' \in [Calls -> CallRecords] /\ Only(c) /\ Same(c) /\ call'[c].pc = state
      /\ call'[c].creq = call[c].creq
      BY <1>1, GotoEffect
<1>3. Slot(c)' /\ Reached(c)'
      BY <1>1, <1>2 DEF Slot, Same, Reached, Asking
<1>4. Granted(c)'
      BY <1>1, <1>2 DEF Granted, Same, Asking, Spawned
<1>5. Asking(c) => Asking(c)'
      BY <1>2 DEF Asking
<1> QED BY <1>1, <1>2, <1>3, <1>4, <1>5, OwnStep DEF Same, TypeOK

(* What run_cli does up to the end of its process. *)
LEMMA RunSteps ==
    ASSUME IInv, NEW c \in Calls,
           \/ Call(c) \/ PrepareFailed(c) \/ Prepared(c) \/ Asked(c) \/ Expire(c)
           \/ Decided(c) \/ AskEnded(c) \/ StartEmitted(c) \/ Marked(c) \/ Failed(c)
           \/ Started(c) \/ Streamed(c) \/ FinalMarked(c)
    PROVE  IInv'
<1> DEFINE vs == <<turn, cancelled, approval, decision, expired, shown,
                   confirmed, status, context, clean, startable>>
<1>0. /\ TypeOK /\ Slot(c) /\ Granted(c) /\ Reached(c)
      /\ call[c] \in CallRecords
      BY DEF IInv, TypeOK, CallRecords
<1>00. \A state \in {"ask", "startEmit", "mark", "starting", "failing", "stream",
                     "final", "endEmit"} : state \in CallStates
       BY DEF CallStates
<1>1. CASE Call(c)
  <2>0. PICK k \in Commands :
           call' = [call EXCEPT ![c].cmd = k,
                       ![c].pc = IF k = "/login" THEN "startEmit" ELSE "prepare"]
        BY <1>1 DEF Call
  <2> DEFINE state == IF k = "/login" THEN "startEmit" ELSE "prepare"
             q == [NoCall EXCEPT !.cmd = k, !.pc = state]
  <2>1. call[c] = NoCall
        BY <1>0, <1>1 DEF Call, Slot
  <2>2. call'[c] = [call[c] EXCEPT !.cmd = k, !.pc = state] /\ Only(c)
        BY <1>0, <2>0 DEF TypeOK, Only
  <2>3. call'[c] = q
        BY <2>1, <2>2
  <2>4. /\ q.pc = state /\ q.cmd = k /\ q.creq = FALSE /\ q.grant = None
        /\ q \in CallRecords
        BY DEF NoCall, CallRecords, CallStates, Stages
  <2>5. call' \in [Calls -> CallRecords]
        BY <1>0, <2>0, <2>2, <2>3, <2>4 DEF TypeOK, CallRecords
  <2>6. k # None /\ k \in Registry
        BY CommandsAssumption, NoneAssumption DEF CommandsAssumption, NoneAssumption
  <2>7. UNCHANGED vs /\ turn = "model"
        BY <1>1 DEF Call, turnVars, askVars, effects, history
  <2> HIDE DEF q
  <2>8. Slot(c)'
        BY <2>3, <2>4, <2>6, <2>7 DEF Slot
  <2>9. Granted(c)' /\ Reached(c)'
        BY <2>3, <2>4, <2>6, <2>7 DEF Granted, Reached, Spawned, Asking, Protected, Registry
  <2> QED BY <1>0, <2>1, <2>2, <2>3, <2>4, <2>5, <2>7, <2>8, <2>9, OwnStep
          DEF NoCall, IInv, TypeOK, Asking, WillSettle, WillRenew
<1>2. CASE PrepareFailed(c)
  <2>1. UNCHANGED vs /\ call[c].pc = "prepare" /\ Return(c)
        BY <1>2 DEF PrepareFailed, At, turnVars, askVars, effects, history
  <2> QED BY <1>0, <2>1, ReturnStep DEF TypeOK, Asking, WillSettle, WillRenew
<1>3. CASE Prepared(c)
  <2>1. /\ UNCHANGED <<turn, cancelled, status, context, confirmed, clean, startable>>
        /\ call[c].pc = "prepare"
        BY <1>3 DEF Prepared, At, turnVars, effects, history
  <2>2. CASE call[c].cmd \notin Protected /\ Goto(c, "startEmit") /\ UNCHANGED askVars
    <3>1. UNCHANGED vs
          BY <2>1, <2>2 DEF askVars
    <3> QED BY <1>0, <1>00, <2>1, <2>2, <3>1, MoveStep
            DEF TypeOK, Asking, WillSettle, WillRenew
  <2>3. CASE approval # None /\ Return(c) /\ UNCHANGED askVars
    <3>1. UNCHANGED vs
          BY <2>1, <2>3 DEF askVars
    <3> QED BY <1>0, <2>1, <2>3, <3>1, ReturnStep DEF TypeOK, Asking, WillSettle, WillRenew
  <2>4. CASE /\ call[c].cmd \in Protected /\ approval = None
             /\ \E i \in Ids :
                   /\ shown[i] = None
                   /\ approval' = i
                   /\ call' = [call EXCEPT ![c].pc = "askEmit", ![c].grant = i]
                   /\ shown' = [shown EXCEPT ![i] = call[c].cmd]
             /\ decision' = "open" /\ expired' = FALSE
        BY <2>1, <2>4, RequestStep
  <2> QED BY <1>3, <2>2, <2>3, <2>4 DEF Prepared
<1>4. CASE Asked(c)
  <2>1. UNCHANGED vs /\ call[c].pc = "askEmit" /\ Goto(c, "ask")
        BY <1>4 DEF Asked, At, turnVars, askVars, effects, history
  <2> QED BY <1>0, <1>00, <2>1, MoveStep DEF TypeOK, Asking, WillSettle, WillRenew
<1>5. CASE Expire(c)
  <2>1. /\ UNCHANGED <<turn, cancelled, call, approval, decision, shown, confirmed,
                       status, context, clean, startable>>
        /\ expired' \in BOOLEAN
        BY <1>5 DEF Expire, turnVars, effects, history
  <2>2. \A d \in Calls : Slot(d)' /\ Granted(d)' /\ Reached(d)'
        BY <2>1 DEF IInv, Slot, Granted, Reached, TurnOwned, Spawned, Asking
  <2>3. GrantsDistinct' /\ PendingOwned' /\ Answered' /\ Settling'
        BY <2>1 DEF IInv, GrantsDistinct, PendingOwned, Answered, Settling,
           WillSettle, WillRenew
  <2>4. TypeOK'
        BY <1>0, <2>1 DEF TypeOK
  <2> QED BY <2>2, <2>3, <2>4 DEF IInv
<1>6. CASE Decided(c)
  <2> DEFINE b == decision = "yes" /\ ~expired
             q == [call[c] EXCEPT !.pc = "askEnd", !.verdict = b]
  <2>1. /\ UNCHANGED <<turn, cancelled, decision, expired, shown, status, context,
                       confirmed, clean, startable>>
        /\ call[c].pc = "ask" /\ approval' = Withdraw(c)
        BY <1>6 DEF Decided, At, turnVars, effects, history
  <2>2. call' = [call EXCEPT ![c] = q]
        BY <1>6 DEF Decided
  <2>3. /\ q.pc = "askEnd" /\ q.cmd = call[c].cmd /\ q.creq = call[c].creq
        /\ q.grant = call[c].grant /\ q.verdict = b /\ q \in CallRecords
    <3>1. PICK r \in CallRecords, v \in BOOLEAN : r = call[c] /\ v = b
          BY <1>0
    <3>2. q = [r EXCEPT !.pc = "askEnd", !.verdict = v]
          BY <3>1
    <3> HIDE DEF q, b
    <3> QED BY <3>1, <3>2 DEF CallRecords, CallStates
  <2>4. b => call[c].grant \in confirmed
        BY <1>0, <2>1 DEF Granted, Asking, IInv, Answered
  <2> HIDE DEF q, b
  <2>5. call' \in [Calls -> CallRecords] /\ Only(c) /\ call'[c] = q
        BY <1>0, <2>2, <2>3, SlotSet
  <2>6. Slot(c)' /\ Reached(c)'
        BY <1>0, <2>1, <2>3, <2>5 DEF Slot, Reached
  <2>7. Granted(c)'
        BY <1>0, <2>1, <2>3, <2>4, <2>5 DEF Granted, Asking, Spawned
  <2> QED BY <1>0, <2>1, <2>3, <2>5, <2>6, <2>7, OwnStep DEF TypeOK, WillSettle, WillRenew
<1>7. CASE AskEnded(c)
  <2>1. UNCHANGED vs /\ call[c].pc = "askEnd"
        BY <1>7 DEF AskEnded, At, turnVars, askVars, effects, history
  <2>2. CASE call[c].verdict /\ Goto(c, "startEmit")
        BY <1>0, <1>00, <2>1, <2>2, MoveStep DEF TypeOK, Asking, WillSettle, WillRenew
  <2>3. CASE Return(c)
        BY <1>0, <2>1, <2>3, ReturnStep DEF TypeOK, Asking, WillSettle, WillRenew
  <2> QED BY <1>7, <2>2, <2>3 DEF AskEnded
<1> HIDE DEF vs
<1>8. CASE StartEmitted(c) \/ Marked(c)
  <2>1. /\ UNCHANGED <<turn, cancelled, approval, decision, expired, shown,
                       confirmed, clean, startable>>
        /\ Spawned(c) /\ ~Asking(c) /\ call[c].pc # "idle"
        /\ ~WillSettle(c) /\ ~WillRenew(c)
        BY <1>8 DEF StartEmitted, Marked, At, turnVars, askVars, history, Spawned, Asking,
           WillSettle, WillRenew
  <2>2. CASE /\ call[c].cmd \in LongRunning /\ Goto(c, "mark")
             /\ UNCHANGED <<status, context>>
        BY <1>0, <1>00, <2>1, <2>2, MoveStep DEF TypeOK
  <2>3. CASE Spawn(c)
    <3>1. /\ status' \in {status, "provisioning"}
          /\ status' = "provisioning" => call[c].cmd \in LongRunning \/ status = "provisioning"
          BY <1>0, <1>8 DEF StartEmitted, Marked, At, Slot
    <3>2. CASE /\ Goto(c, "starting")
               /\ context' = IF call[c].cmd \in ChangesRange /\ context = "fresh"
                             THEN "stale" ELSE context
      <4>1. Same(c) /\ call'[c].pc = "starting"
            BY <1>0, <1>00, <3>2, GotoEffect
      <4>2. /\ call[c].cmd \in LongRunning => WillSettle(c)'
            /\ call[c].cmd \in ChangesRange => WillRenew(c)'
            BY <4>1 DEF WillSettle, WillRenew, Same
      <4> QED BY <1>0, <1>00, <2>1, <3>1, <3>2, <4>2, MoveStep DEF TypeOK, Statuses
    <3>3. CASE Goto(c, "failing") /\ UNCHANGED context
      <4>1. Same(c) /\ call'[c].pc = "failing"
            BY <1>0, <1>00, <3>3, GotoEffect
      <4>2. call[c].cmd \in LongRunning => WillSettle(c)'
            BY <4>1 DEF WillSettle, Same
      <4> QED BY <1>0, <1>00, <2>1, <3>1, <3>3, <4>2, MoveStep DEF TypeOK, Statuses
    <3> QED BY <2>3, <3>2, <3>3 DEF Spawn
  <2> QED BY <1>8, <2>2, <2>3 DEF StartEmitted, Marked
<1>10. CASE Failed(c)
  <2>1. /\ UNCHANGED <<turn, cancelled, approval, decision, expired, shown,
                       confirmed, context, clean, startable>>
        /\ status' = FailStatus(c)
        /\ call[c].pc = "failing" /\ Return(c)
        BY <1>10 DEF Failed, At, turnVars, askVars, history
  <2> QED BY <1>0, <2>1, ReturnStep DEF TypeOK, Asking, WillSettle, WillRenew,
          FailStatus, Statuses
<1>11. CASE Started(c)
  <2> DEFINE q == [call[c] EXCEPT !.pc = "stream", !.signalled = StartSignalled(c)]
  <2>1. /\ UNCHANGED <<turn, cancelled, approval, decision, expired, shown,
                       confirmed, status, context, clean, startable>>
        /\ call[c].pc = "starting"
        BY <1>11 DEF Started, At, turnVars, askVars, effects, history
  <2>2. call' = [call EXCEPT ![c] = q]
        BY <1>11 DEF Started
  <2>3. /\ q.pc = "stream" /\ q.cmd = call[c].cmd /\ q.creq = call[c].creq
        /\ q.grant = call[c].grant /\ q.signalled = cancelled
        /\ q \in CallRecords
    <3>1. PICK r \in CallRecords, v \in BOOLEAN : r = call[c] /\ v = cancelled
          BY <1>0 DEF TypeOK
    <3>2. q = [r EXCEPT !.pc = "stream", !.signalled = v]
          BY <3>1 DEF StartSignalled
    <3> HIDE DEF q
    <3> QED BY <3>1, <3>2 DEF CallRecords, CallStates
  <2> HIDE DEF q
  <2>4. call' \in [Calls -> CallRecords] /\ Only(c) /\ call'[c] = q
        BY <1>0, <2>2, <2>3, SlotSet
  <2>5. Slot(c)' /\ Granted(c)' /\ Reached(c)'
        BY <1>0, <2>1, <2>3, <2>4 DEF Slot, Granted, Reached, Asking, Spawned
  <2> QED BY <1>0, <2>1, <2>3, <2>4, <2>5, OwnStep
          DEF TypeOK, Asking, WillSettle, WillRenew
<1>12. CASE Streamed(c)
  <2> DEFINE state == IF call[c].cmd \in LongRunning THEN "final" ELSE "endEmit"
  <2>1. /\ UNCHANGED <<turn, cancelled, approval, decision, expired, shown,
                       confirmed, status, context, clean, startable>>
        /\ call[c].pc = "stream" /\ Goto(c, state)
        BY <1>12 DEF Streamed, At, turnVars, askVars, effects, history
  <2>2. /\ state \in CallStates /\ state \in {"final", "endEmit"}
        /\ state = "endEmit" => call[c].cmd \notin LongRunning
        BY <1>00
  <2> HIDE DEF state
  <2>3. Same(c) /\ call'[c].pc = state
        BY <1>0, <2>1, <2>2, GotoEffect
  <2>4. WillSettle(c) => WillSettle(c)'
        BY <2>2, <2>3 DEF WillSettle, Same
  <2>5. WillRenew(c) => WillRenew(c)'
        BY <2>2, <2>3 DEF WillRenew, Same
  <2> QED BY <1>0, <2>1, <2>2, <2>4, <2>5, MoveStep DEF TypeOK, Asking, Spawned
<1>13. CASE FinalMarked(c)
  <2>1. /\ UNCHANGED <<turn, cancelled, approval, decision, expired, shown,
                       confirmed, context, clean, startable>>
        /\ status' \in FinalStatuses(call[c].cmd, call[c].signalled)
        /\ call[c].pc = "final" /\ Goto(c, "endEmit")
        BY <1>13 DEF FinalMarked, At, turnVars, askVars, history
  <2>2. status' \in Statuses /\ status' # "provisioning"
        BY <2>1 DEF FinalStatuses, Statuses
  <2>3. Same(c) /\ call'[c].pc = "endEmit"
        BY <1>0, <1>00, <2>1, GotoEffect
  <2>4. WillRenew(c) => WillRenew(c)'
        BY <2>3 DEF WillRenew, Same
  <2> QED BY <1>0, <1>00, <2>1, <2>2, <2>4, MoveStep DEF TypeOK, Asking, Spawned
<1> QED BY <1>1, <1>2, <1>3, <1>4, <1>5, <1>6, <1>7, <1>8, <1>10, <1>11, <1>12, <1>13

(* What run_cli does once its process has ended. *)
LEMMA FinalizeSteps ==
    ASSUME IInv, NEW c \in Calls,
           \/ EndEmitted(c) \/ CaptureStarted(c) \/ CaptureNotStarted(c)
           \/ Captured(c) \/ Reported(c)
    PROVE  IInv'
<1>0. /\ TypeOK /\ Slot(c) /\ Granted(c) /\ Reached(c)
      /\ call[c] \in CallRecords
      BY DEF IInv, TypeOK, CallRecords
<1>1. CASE EndEmitted(c)
  <2> DEFINE stopped == call[c].signalled \/ cancelled
  <2>1. /\ UNCHANGED <<cancelled, approval, decision, expired, shown,
                       confirmed, status, context, clean, startable>>
        /\ call[c].pc = "endEmit" /\ stopped \in BOOLEAN
        BY <1>0, <1>1 DEF EndEmitted, At, askVars, effects, history, CallRecords
  <2>2. CASE call[c].cmd = "/login" /\ Leave(c, stopped)
    <3>1. Return(c) /\ (turn' = turn \/ (turn = "model" /\ turn' = "stopping"))
          BY <2>2 DEF Leave
    <3>2. ~WillSettle(c) /\ ~WillRenew(c) /\ ~Asking(c)
          BY <2>1, <2>2 DEF WillSettle, WillRenew, Asking, ChangesRange
    <3> QED BY <1>0, <2>1, <3>1, <3>2, ReturnStep DEF TypeOK
  <2>3. CASE Finally(c, TRUE, TRUE)
        BY <2>1, <2>3, FinallyStep
  <2>4. ASSUME NEW which \in {"check", "recheck"}, NEW state \in {"capStart", "report"},
               call' = [call EXCEPT ![c] = [call[c] EXCEPT
                  !.pc = state, !.stage = which, !.stopped = stopped]],
               UNCHANGED turn
        PROVE  IInv'
    <3> DEFINE q == [call[c] EXCEPT !.pc = state, !.stage = which, !.stopped = stopped]
    <3>1. call' = [call EXCEPT ![c] = q]
          BY <2>4
    <3>2. /\ q.pc = state /\ q.cmd = call[c].cmd /\ q.creq = call[c].creq
          /\ q.grant = call[c].grant /\ q \in CallRecords
      <4>1. PICK r \in CallRecords, v \in BOOLEAN : r = call[c] /\ v = stopped
            BY <1>0, <2>1
      <4>2. q = [r EXCEPT !.pc = state, !.stage = which, !.stopped = v]
            BY <4>1
      <4>3. state \in CallStates /\ which \in Stages
            BY DEF CallStates, Stages
      <4> HIDE DEF q, stopped
      <4> QED BY <4>1, <4>2, <4>3 DEF CallRecords
    <3> HIDE DEF q, stopped
    <3>3. call' \in [Calls -> CallRecords] /\ Only(c) /\ call'[c] = q
          BY <1>0, <3>1, <3>2, SlotSet
    <3>4. Slot(c)' /\ Granted(c)' /\ Reached(c)'
          BY <1>0, <2>1, <2>4, <3>2, <3>3 DEF Slot, Granted, Reached, Asking, Spawned
    <3> QED BY <1>0, <2>1, <2>4, <3>2, <3>3, <3>4, OwnStep
            DEF TypeOK, Asking, WillSettle, WillRenew
  <2> HIDE DEF stopped
  <2> QED BY <1>1, <2>2, <2>3, <2>4 DEF EndEmitted, stopped
<1>2. CASE CaptureStarted(c)
  <2> DEFINE b == TurnOwned(c) /\ cancelled
             q == [call[c] EXCEPT !.pc = "capture", !.signalled = b]
  <2>1. /\ UNCHANGED <<turn, cancelled, approval, decision, expired, shown,
                       confirmed, status, context, clean, startable>>
        /\ call[c].pc = "capStart"
        BY <1>2 DEF CaptureStarted, At, turnVars, askVars, effects, history
  <2>2. call' = [call EXCEPT ![c] = q]
        BY <1>2 DEF CaptureStarted
  <2>3. /\ q.pc = "capture" /\ q.cmd = call[c].cmd /\ q.creq = call[c].creq
        /\ q.grant = call[c].grant /\ q.signalled = b /\ q.stage = call[c].stage
        /\ q.stopped = call[c].stopped /\ q \in CallRecords
    <3>1. PICK r \in CallRecords, v \in BOOLEAN : r = call[c] /\ v = b
          BY <1>0
    <3>2. q = [r EXCEPT !.pc = "capture", !.signalled = v]
          BY <3>1
    <3> HIDE DEF q, b
    <3> QED BY <3>1, <3>2 DEF CallRecords, CallStates
  <2>4. call' \in [Calls -> CallRecords] /\ Only(c) /\ call'[c] = q
    <3> HIDE DEF q
    <3> QED BY <1>0, <2>2, <2>3, SlotSet
  <2>5. Reached(c)'
    <3>1. TurnOwned(c)' => TurnOwned(c)
      <4> HIDE DEF q, b
      <4> QED BY <2>3, <2>4 DEF TurnOwned
    <3> HIDE DEF q
    <3> QED BY <2>1, <2>3, <2>4, <3>1 DEF Reached
  <2> HIDE DEF q, b
  <2>6. Slot(c)' /\ Granted(c)'
        BY <1>0, <2>1, <2>3, <2>4 DEF Slot, Granted, Asking, Spawned
  <2> QED BY <1>0, <2>1, <2>3, <2>4, <2>5, <2>6, OwnStep
          DEF TypeOK, Asking, WillSettle, WillRenew
<1>3. ASSUME Goto(c, "report"), call[c].pc \in {"capStart", "capture"},
             UNCHANGED <<turn, cancelled, approval, decision, expired, shown,
                         confirmed, status, context, clean, startable>>
      PROVE  IInv'
  <2>1. "report" \in CallStates
        BY DEF CallStates
  <2>2. Same(c) /\ call'[c].pc = "report"
        BY <1>0, <1>3, <2>1, GotoEffect
  <2>3. /\ WillRenew(c) => WillRenew(c)'
        /\ ~WillSettle(c) /\ ~Asking(c) /\ Spawned(c)
        BY <1>3, <2>2 DEF WillSettle, WillRenew, Same, Asking, Spawned
  <2> QED BY <1>0, <1>3, <2>1, <2>3, MoveStep DEF TypeOK
<1>4. CASE CaptureNotStarted(c)
      BY <1>3, <1>4 DEF CaptureNotStarted, At, turnVars, askVars, effects, history
<1>5. ASSUME NEW raises \in BOOLEAN, Invalidate, Leave(c, raises), ~Asking(c),
             UNCHANGED <<cancelled, approval, decision, expired, shown,
                         confirmed, status, clean, startable>>,
             cancelled \/ ~WillSettle(c)
      PROVE  IInv'
  <2>1. Return(c) /\ (turn' = turn \/ (turn = "model" /\ turn' = "stopping"))
        BY <1>5 DEF Leave
  <2> QED BY <1>0, <1>5, <2>1, ReturnStep DEF TypeOK, Invalidate
<1>6. CASE Captured(c)
  <2> DEFINE raises == TurnOwned(c) /\ (call[c].signalled \/ cancelled)
  <2>1. /\ UNCHANGED <<cancelled, approval, decision, expired, shown,
                       confirmed, status, clean, startable>>
        /\ call[c].pc = "capture" /\ call[c].stopped \in BOOLEAN
        /\ ~Asking(c) /\ ~WillSettle(c)
        BY <1>0, <1>6 DEF Captured, At, askVars, history, Asking, WillSettle, CallRecords
  <2>2. CASE ~raises /\ Goto(c, "report") /\ UNCHANGED <<turn, context>>
        BY <1>3, <2>1, <2>2
  <2>3. CASE Finally(c, TRUE, call[c].stopped) /\ UNCHANGED context
        BY <2>1, <2>3, FinallyStep
  <2>4. CASE Invalidate /\ Leave(c, TRUE)
        BY <1>5, <2>1, <2>4
  <2> QED BY <1>6, <2>2, <2>3, <2>4 DEF Captured
<1>7. CASE Reported(c)
  <2>1. /\ UNCHANGED <<cancelled, approval, decision, expired, shown,
                       confirmed, status, clean, startable>>
        /\ call[c].pc = "report" /\ call[c].stopped \in BOOLEAN
        /\ call[c].raising \in BOOLEAN
        /\ ~Asking(c) /\ ~WillSettle(c)
        BY <1>0, <1>7 DEF Reported, At, askVars, history, Asking, WillSettle, CallRecords
  <2>2. CASE Finally(c, call[c].stage = "recheck", call[c].stopped) /\ UNCHANGED context
        BY <2>1, <2>2, FinallyStep
  <2>3. CASE Invalidate /\ Leave(c, call[c].raising)
        BY <1>5, <2>1, <2>3
  <2> QED BY <1>7, <2>2, <2>3 DEF Reported
<1> QED BY <1>1, <1>2, <1>4, <1>6, <1>7

(* A cancelled call, wherever CancelledError finds it. *)
LEMMA UnwindStep ==
    ASSUME IInv, NEW c \in Calls, Unwind(c)
    PROVE  IInv'
<1>1. /\ TypeOK /\ call[c].creq /\ cancelled /\ call[c].stopped \in BOOLEAN
      BY DEF IInv, Unwind, Slot, TypeOK
<1>2. /\ UNCHANGED <<cancelled, decision, expired, shown, confirmed, clean, startable>>
      /\ approval' = IF Asking(c) THEN Withdraw(c) ELSE approval
      /\ context' \in {context, "none"}
      BY DEF Unwind, history, Asking, Invalidate
<1>3. /\ status' \in Statuses
      /\ status' = status \/ call[c].pc \in {"mark", "final"}
      BY <1>1 DEF Unwind, FinalStatuses, Statuses, TypeOK
<1>4. CASE /\ call[c].pc \in {"capStart", "capture", "report"} /\ call[c].stage # "renew"
           /\ Finally(c, TRUE, call[c].stopped)
  <2>1. UNCHANGED <<approval, status, context>>
        BY <1>2, <1>3, <1>4 DEF Unwind, Asking
  <2> QED BY <1>1, <1>2, <1>4, <2>1, FinallyStep
<1>5. CASE Leave(c, TRUE)
  <2>1. Return(c) /\ (turn' = turn \/ (turn = "model" /\ turn' = "stopping"))
        BY <1>5 DEF Leave
  <2> QED BY <1>1, <1>2, <1>3, <2>1, ReturnStep DEF TypeOK
<1> QED BY <1>4, <1>5 DEF Unwind

(* Beginning, ending and leaving a turn move no call. *)
LEMMA TurnSteps ==
    ASSUME IInv, BeginTurn \/ EndTurn \/ TurnEnded
    PROVE  IInv'
<1>0. /\ TypeOK /\ GrantsDistinct /\ PendingOwned /\ Answered /\ Settling
      /\ \A c \in Calls : Slot(c) /\ Granted(c) /\ Reached(c)
      BY DEF IInv
<1>1. /\ UNCHANGED <<call, approval, decision, expired, shown, confirmed, status, startable>>
      /\ cancelled' \in {cancelled, FALSE}
      /\ turn' \in {"idle", "model", "ending"}
      /\ \A c \in Calls : turn' # "model" => call[c].pc = "idle"
      /\ \A c \in Calls : cancelled' # cancelled => call[c].pc = "idle"
      BY <1>0 DEF BeginTurn, EndTurn, TurnEnded, askVars, effects, history, Slot
<1>2. TypeOK'
      BY ZenonT(60), <1>0, <1>1 DEF TypeOK, BeginTurn, EndTurn, TurnEnded, effects, history
<1>3. ASSUME NEW c \in Calls PROVE Slot(c)' /\ Granted(c)' /\ Reached(c)'
  <2>1. Slot(c) /\ Granted(c) /\ Reached(c) /\ cancelled \in BOOLEAN
        BY <1>0 DEF TypeOK
  <2>2. call[c].pc = "idle" => ~call[c].creq
        BY <2>1 DEF Slot, NoCall
  <2>3. Slot(c)'
        BY <1>1, <2>1, <2>2 DEF Slot
  <2>4. Granted(c)'
        BY <1>1, <2>1 DEF Granted, Asking, Spawned
  <2>5. Reached(c)'
        BY <1>1, <2>1 DEF Reached, TurnOwned
  <2> QED BY <2>3, <2>4, <2>5
<1>4. GrantsDistinct' /\ PendingOwned' /\ Answered'
      BY <1>0, <1>1 DEF GrantsDistinct, PendingOwned, Answered
<1>5. Settling'
  <2>1. CASE BeginTurn
        BY <1>0, <2>1 DEF BeginTurn, Settling, TypeOK
  <2>2. CASE EndTurn \/ TurnEnded
        BY <1>0, <2>2 DEF EndTurn, TurnEnded, Settling, effects, history, askVars,
           WillSettle, WillRenew
  <2> QED BY <2>1, <2>2
<1> QED BY <1>2, <1>3, <1>4, <1>5 DEF IInv

(* A cancel signals every call it can reach and denies the request. *)
LEMMA CancelStep ==
    ASSUME IInv, Cancel
    PROVE  IInv'
<1>0. /\ TypeOK /\ GrantsDistinct /\ PendingOwned /\ Answered
      /\ \A c \in Calls : Slot(c) /\ Granted(c) /\ Reached(c)
      BY DEF IInv
<1> DEFINE taskToo == \A c \in Calls : ~InRunning(c) /\ ~Starting(c)
           q(c) == [call[c] EXCEPT !.signalled = Signalled(c),
                                   !.creq = @ \/ (taskToo /\ call[c].pc # "idle")]
<1>1. /\ cancelled' = TRUE /\ turn # "idle"
      /\ decision' = IF approval # None /\ decision = "open" THEN "no" ELSE decision
      /\ call' = [c \in Calls |-> q(c)]
      /\ turn' = IF taskToo /\ turn = "model" THEN "stopping" ELSE turn
      /\ UNCHANGED <<approval, expired, shown, status, context, confirmed, clean, startable>>
      BY DEF Cancel, effects, history
<1>2. ASSUME NEW c \in Calls
      PROVE  /\ q(c) \in CallRecords
             /\ q(c).pc = call[c].pc /\ q(c).cmd = call[c].cmd
             /\ q(c).grant = call[c].grant /\ q(c).verdict = call[c].verdict
             /\ q(c).stage = call[c].stage /\ q(c).stopped = call[c].stopped
             /\ q(c).signalled = Signalled(c)
             /\ call[c].pc = "idle" => q(c) = call[c]
  <2>1. PICK r \in CallRecords, v \in BOOLEAN, w \in BOOLEAN :
           /\ r = call[c] /\ v = Signalled(c)
           /\ w = (call[c].creq \/ (taskToo /\ call[c].pc # "idle"))
    <3>1. call[c] \in CallRecords
          BY <1>0 DEF TypeOK, CallRecords
    <3>2. Signalled(c) \in BOOLEAN
          BY <3>1 DEF Signalled, InRunning, CallRecords
    <3>3. (call[c].creq \/ (taskToo /\ call[c].pc # "idle")) \in BOOLEAN
          OBVIOUS
    <3> HIDE DEF taskToo
    <3> QED BY <3>1, <3>2, <3>3
  <2>2. q(c) = [r EXCEPT !.signalled = v, !.creq = w]
        BY <2>1
  <2>3. r.pc = "idle" => v = r.signalled /\ w = r.creq
    <3>1. r.creq \in BOOLEAN /\ r.signalled \in BOOLEAN
          BY DEF CallRecords
    <3> HIDE DEF taskToo
    <3> QED BY <2>1, <3>1 DEF Signalled, InRunning
  <2> HIDE DEF q, taskToo
  <2>4. /\ q(c) \in CallRecords
        /\ q(c).pc = r.pc /\ q(c).cmd = r.cmd /\ q(c).grant = r.grant
        /\ q(c).verdict = r.verdict /\ q(c).stage = r.stage
        /\ q(c).stopped = r.stopped /\ q(c).signalled = v
        /\ v = r.signalled /\ w = r.creq => q(c) = r
        BY ZenonT(60), <2>2 DEF CallRecords
  <2> QED BY <2>1, <2>3, <2>4
<1> HIDE DEF q, taskToo
<1>3. TypeOK'
  <2>1. call' \in [Calls -> CallRecords]
        BY <1>1, <1>2
  <2> QED BY <1>0, <1>1, <2>1 DEF TypeOK, CallRecords
<1>4. ASSUME NEW c \in Calls PROVE Slot(c)' /\ Granted(c)' /\ Reached(c)'
  <2>1. /\ Slot(c) /\ Granted(c)
        /\ call'[c] = q(c)
        BY <1>0, <1>1
  <2>2. Slot(c)'
        BY <1>1, <1>2, <2>1 DEF Slot
  <2>3. Granted(c)'
        BY <1>1, <1>2, <2>1 DEF Granted, Asking, Spawned
  <2>4. Reached(c)'
        BY <1>2, <2>1 DEF Reached, Signalled, InRunning
  <2> QED BY <2>2, <2>3, <2>4
<1>5. \A c \in Calls : call'[c].pc = call[c].pc /\ call'[c].grant = call[c].grant
      BY <1>1, <1>2
<1>6. GrantsDistinct' /\ PendingOwned' /\ Answered'
      BY <1>0, <1>1, <1>5 DEF GrantsDistinct, PendingOwned, Answered
<1>7. Settling'
      BY <1>1 DEF Settling
<1> QED BY <1>3, <1>4, <1>6, <1>7 DEF IInv

(* An answer counts for the request it names and for no other. *)
LEMMA AnswerStep ==
    ASSUME IInv, NEW i \in Ids, NEW yes \in BOOLEAN, Answer(i, yes)
    PROVE  IInv'
<1>0. /\ TypeOK /\ GrantsDistinct /\ PendingOwned /\ Answered /\ Settling
      /\ \A c \in Calls : Slot(c) /\ Granted(c) /\ Reached(c)
      BY DEF IInv
<1>1. /\ UNCHANGED <<turn, cancelled, call, approval, expired, shown, status, context,
                     clean, startable>>
      /\ confirmed' = IF yes THEN confirmed \cup {i} ELSE confirmed
      /\ decision' = IF Resolves(i) THEN (IF yes THEN "yes" ELSE "no") ELSE decision
      BY DEF Answer, turnVars, effects
<1>2. TypeOK'
      BY <1>0, <1>1 DEF TypeOK
<1>3. \A c \in Calls : Slot(c)' /\ Granted(c)' /\ Reached(c)'
      BY <1>0, <1>1 DEF Slot, Granted, Reached, TurnOwned, Asking, Spawned
<1>4. GrantsDistinct' /\ PendingOwned'
      BY <1>0, <1>1 DEF GrantsDistinct, PendingOwned
<1>5. Answered'
      BY <1>0, <1>1 DEF Answered, Resolves
<1>6. Settling'
      BY <1>0, <1>1 DEF Settling, WillSettle, WillRenew
<1> QED BY <1>2, <1>3, <1>4, <1>5, <1>6 DEF IInv

(* Nothing in memory survives a restart. *)
LEMMA RestartStep ==
    ASSUME IInv, Restart
    PROVE  IInv'
<1>1. /\ turn' = "idle" /\ cancelled' = FALSE
      /\ call' = [c \in Calls |-> NoCall]
      /\ approval' = None /\ decision' = "no" /\ expired' = FALSE
      /\ status' = IF status = "provisioning" THEN "interrupted" ELSE status
      /\ context' = "none" /\ clean' = TRUE
      /\ UNCHANGED <<shown, confirmed, startable>>
      /\ TypeOK
      BY DEF Restart, IInv
<1>2. NoCall \in CallRecords
      BY DEF NoCall, CallRecords, CallStates, Stages
<1>3. TypeOK'
      BY <1>1, <1>2 DEF TypeOK, CallRecords, Statuses
<1>4. \A c \in Calls : call'[c] = NoCall
      BY <1>1
<1>5. ASSUME NEW c \in Calls PROVE Slot(c)' /\ Granted(c)' /\ Reached(c)'
  <2>1. call'[c] = NoCall
        BY <1>4
  <2>2. Slot(c)'
        BY <2>1 DEF Slot, NoCall
  <2>3. Granted(c)'
        BY <2>1 DEF Granted, Asking, Spawned, NoCall
  <2>4. Reached(c)'
        BY <2>1 DEF Reached, NoCall
  <2> QED BY <2>2, <2>3, <2>4
<1>6. GrantsDistinct'
      BY <1>4 DEF GrantsDistinct, NoCall
<1>7. PendingOwned' /\ Answered' /\ Settling'
      BY <1>1 DEF PendingOwned, Answered, Settling
<1> QED BY <1>3, <1>5, <1>6, <1>7 DEF IInv

-----------------------------------------------------------------------------
(* The initial state satisfies the invariant. *)
LEMMA InitIInv == Init => IInv
<1> SUFFICES ASSUME Init PROVE IInv
    OBVIOUS
<1>1. NoCall \in CallRecords
      BY DEF NoCall, CallRecords, CallStates, Stages
<1>2. TypeOK
      BY <1>1 DEF Init, TypeOK, CallRecords, Statuses
<1>3. \A c \in Calls : call[c] = NoCall
      BY DEF Init
<1>4. ASSUME NEW c \in Calls PROVE Slot(c) /\ Granted(c) /\ Reached(c)
  <2>1. call[c] = NoCall
        BY <1>3
  <2>2. Slot(c)
        BY <2>1 DEF Slot, NoCall
  <2>3. Granted(c)
        BY <2>1 DEF Granted, Asking, Spawned, NoCall
  <2>4. Reached(c)
        BY <2>1 DEF Reached, NoCall
  <2> QED BY <2>2, <2>3, <2>4
<1>5. GrantsDistinct
      BY <1>3 DEF GrantsDistinct, NoCall
<1>6. PendingOwned /\ Answered /\ Settling
      BY DEF Init, PendingOwned, Answered, Settling
<1> QED BY <1>2, <1>4, <1>5, <1>6 DEF IInv

(* Every step keeps it. *)
LEMMA NextIInv == IInv /\ [Next]_vars => IInv'
<1> SUFFICES ASSUME IInv, [Next]_vars PROVE IInv'
    OBVIOUS
<1>1. CASE BeginTurn \/ EndTurn \/ TurnEnded
      BY <1>1, TurnSteps
<1>2. CASE Cancel
      BY <1>2, CancelStep
<1>3. CASE Restart
      BY <1>3, RestartStep
<1>4. CASE \E i \in Ids, yes \in BOOLEAN : Answer(i, yes)
      BY <1>4, AnswerStep
<1>5. CASE \E c \in Calls : CallNext(c)
      BY <1>5, RunSteps, FinalizeSteps, UnwindStep DEF CallNext
<1>6. CASE UNCHANGED vars
      BY <1>6 DEF vars, IInv, TypeOK, Slot, Granted, Reached, TurnOwned, Spawned, Asking,
         GrantsDistinct, PendingOwned, Answered, Settling, WillSettle, WillRenew
<1> QED BY <1>1, <1>2, <1>3, <1>4, <1>5, <1>6 DEF Next

(* The invariant holds throughout. *)
LEMMA Invariance == Spec => []IInv
BY InitIInv, NextIInv, PTL DEF Spec

-----------------------------------------------------------------------------
(* A protected command is spawned only with an id issued for it, confirmed   *)
(* by the operator and used by no other call, and a pending request belongs  *)
(* to a call that still waits (approvals.require, run_cli).                  *)
THEOREM ApprovalIsExact == Spec => []ApprovalExact
<1>1. IInv => ApprovalExact
  <2> SUFFICES ASSUME IInv PROVE ApprovedSpawn
      BY DEF IInv, ApprovalExact
  <2>1. ASSUME NEW c \in Calls, Spawned(c), call[c].cmd \in Protected
        PROVE  /\ call[c].grant \in confirmed
               /\ shown[call[c].grant] = call[c].cmd
               /\ \A d \in Calls \ {c} : call[d].grant # call[c].grant
    <3>1. call[c].grant \in confirmed /\ confirmed \subseteq Ids
          BY <2>1 DEF IInv, Granted, TypeOK
    <3>2. call[c].grant # None
          BY <3>1, NoneAssumption DEF NoneAssumption
    <3> QED BY <3>1, <3>2 DEF IInv, Granted, GrantsDistinct
  <2> QED BY <2>1 DEF ApprovedSpawn
<1> QED BY Invariance, <1>1, PTL

(* Once the turn is cancelled, every subprocess it owns has been signalled,  *)
(* one that was being created at the time included (cancel_session).         *)
THEOREM CancelReaches == Spec => []CancelReachesCommands
<1>1. IInv => CancelReachesCommands
      BY DEF IInv, Reached, CancelReachesCommands
<1> QED BY Invariance, <1>1, PTL

(* A turn nobody cancelled leaves neither a status "provisioning" nor an     *)
(* agent of the old range root to the next one (_finalize_command).          *)
THEOREM TurnsSettle == Spec => []TurnSettles
<1>1. IInv => TurnSettles
      BY DEF IInv, Slot, Settling, WillSettle, WillRenew, TurnSettles
<1> QED BY Invariance, <1>1, PTL
=============================================================================
