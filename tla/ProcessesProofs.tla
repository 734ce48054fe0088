--------------------------- MODULE ProcessesProofs ---------------------------
(***************************************************************************)
(* Proofs about the two trees of processes, for every set of helpers and   *)
(* workers, pipe size and idle timeout: RunningCommand first, PlaybookRun  *)
(* and the two as MCProcesses composes them after it.                      *)
(*                                                                         *)
(* The properties of a command speak of a reader that is done; what makes  *)
(* them inductive is what holds on the way there: a command is closed only *)
(* when its reader is done, draining starts after the exit, and a torn     *)
(* communicate waits for a group that has been killed.                     *)
(***************************************************************************)
EXTENDS MCProcesses, Sequences, TLAPS

OnTheWay ==
    /\ mode \in {"stream", "capture"}
    /\ closed => reader = "done"
    /\ reader = "draining" => mode = "capture" /\ leader = "reaped"
    /\ mode = "capture" /\ reader = "exit" => helpers = {} /\ leader # "running"

Finished ==
    /\ reader = "done" => leader # "running"
    /\ reader = "done" /\ ~abandoned => closed

IInv == TypeOK /\ OnTheWay /\ Finished /\ NothingLeft /\ ExitReported /\ Disarms

-----------------------------------------------------------------------------
(* Killing the group leaves no helper and no running leader, and keeps the  *)
(* code of one that had exited.                                             *)
LEMMA KilledGroup ==
    ASSUME TypeOK, Killed
    PROVE  /\ helpers' = {} /\ open' = open
           /\ leader' \in {"exited", "reaped"} /\ (Reaped => leader' = leader)
           /\ code' \in {"ok", "fail", "killed"}
           /\ leader # "running" => leader' = leader /\ code' = code
BY DEF TypeOK, Killed, Reaped

(* Reaping the group: a command whose code is known is closed and disarmed, *)
(* and if it was cancelled, or killed by force, nothing of it is left.      *)
LEMMA ReapedGroup ==
    ASSUME TypeOK, NEW force \in BOOLEAN, ReapGroup(force)
    PROVE  /\ cancelled' = cancelled /\ open' = open
           /\ leader' \in {"running", "exited", "reaped"}
           /\ code' \in {"none", "ok", "fail", "killed"}
           /\ code' = "none" <=> leader' = "running"
           /\ leader # "running" => leader' = leader /\ code' = code
           /\ helpers' \subseteq helpers
           /\ closed' \in BOOLEAN /\ killTask' \in {"none", "sleeping"}
           /\ Reaped => closed' /\ killTask' = "none"
           /\ force \/ (Reaped /\ cancelled) => helpers' = {} /\ leader' # "running"
<1>1. CASE force \/ (Reaped /\ cancelled)
      BY <1>1, KilledGroup DEF ReapGroup, Disarmed, TypeOK, Reaped
<1>2. CASE ~(force \/ (Reaped /\ cancelled))
      BY <1>2 DEF ReapGroup, Disarmed, TypeOK, Reaped, process
<1> QED BY <1>1, <1>2

(* A step of the reader that reaps the group and is done.                   *)
LEMMA DoneStep ==
    ASSUME IInv, NEW force \in BOOLEAN, ReapGroup(force), Done,
           lines' \in 0 .. PipeSize, torn' \in BOOLEAN,
           Reaped \/ force \/ (mode = "capture" /\ reader = "exit"),
           Reaped \/ reader = "exit"
    PROVE  IInv'
<1>1. TypeOK'
      BY ReapedGroup DEF IInv, Done, TypeOK, Reaped
<1>2. OnTheWay'
      BY ReapedGroup DEF IInv, Done, OnTheWay, Reaped, TypeOK
<1>3. Finished' /\ Disarms'
      BY ReapedGroup DEF IInv, Done, OnTheWay, Finished, Disarms, Reaped, TypeOK
<1>4. NothingLeft'
      BY ReapedGroup DEF IInv, Done, OnTheWay, NothingLeft, Reaped, TypeOK
<1>5. ExitReported'
      BY ReapedGroup DEF IInv, Done, ExitReported, Reaped, TypeOK
<1> QED BY <1>1, <1>2, <1>3, <1>4, <1>5 DEF IInv

(* A step of the stream's loop that leaves it.                              *)
LEMMA LeaveStep ==
    ASSUME IInv, mode = "stream", reader = "reading", Leave,
           UNCHANGED lines, torn' \in BOOLEAN
    PROVE  IInv'
<1>1. lines' \in 0 .. PipeSize
      BY DEF IInv, TypeOK
<1>2. CASE Reaped
      BY <1>1, <1>2, DoneStep DEF Leave
<1>3. CASE ~Reaped
      BY <1>1, <1>3 DEF Leave, IInv, TypeOK, OnTheWay, Finished, NothingLeft,
         ExitReported, Disarms, process, handle
<1> QED BY <1>2, <1>3

-----------------------------------------------------------------------------
(* The initial state satisfies the invariant.                               *)
LEMMA InitIInv == Init => IInv
<1> SUFFICES ASSUME Init PROVE IInv
    OBVIOUS
<1>0. lines \in 0 .. PipeSize
      BY PipeAssumption DEF PipeAssumption, Init
<1>1. TypeOK
      BY <1>0 DEF Init, TypeOK
<1>2. OnTheWay /\ Finished /\ NothingLeft /\ ExitReported /\ Disarms
      BY DEF Init, OnTheWay, Finished, NothingLeft, ExitReported, Disarms
<1> QED BY <1>1, <1>2 DEF IInv

(* Every step keeps it.                                                     *)
LEMMA NextIInv == IInv /\ [Next]_vars => IInv'
<1> SUFFICES ASSUME IInv, [Next]_vars PROVE IInv'
    OBVIOUS
<1> USE PipeAssumption DEF PipeAssumption
<1>p. CASE \/ \E h \in Helpers : Fork(h) \/ HelperExit(h)
           \/ Output \/ CloseStdout \/ LeaderExit \/ Watch \/ DeadlinePasses
  <2> USE DEF IInv, OnTheWay, Finished, NothingLeft, ExitReported, Disarms,
              handle, reading
  <2>1. CASE \E h \in Helpers : Fork(h) \/ HelperExit(h)
        BY <2>1 DEF Fork, HelperExit, TypeOK
  <2>2. CASE Output
        BY <2>2 DEF Output, process, TypeOK
  <2>3. CASE CloseStdout
        BY ZenonT(60), <2>3 DEF CloseStdout, TypeOK
  <2>4. CASE LeaderExit
        BY <2>4 DEF LeaderExit, TypeOK
  <2>5. CASE Watch
        BY <2>5 DEF Watch, TypeOK
  <2>6. CASE DeadlinePasses
        BY <2>6 DEF DeadlinePasses, process, TypeOK
  <2> QED BY <1>p, <2>1, <2>2, <2>3, <2>4, <2>5, <2>6
<1>c. CASE Cancel \/ CancelAfter \/ RefreshTimeout
  <2> USE DEF IInv, OnTheWay, Finished, NothingLeft, ExitReported, Disarms,
              handle, reading, process, TypeOK
  <2>1. CASE Cancel
    <3>1. TypeOK'
          BY ZenonT(60), <2>1 DEF Cancel, Interrupted
    <3>2. OnTheWay' /\ Finished' /\ NothingLeft' /\ ExitReported' /\ Disarms'
          BY <2>1 DEF Cancel, Interrupted
    <3> QED BY <3>1, <3>2
  <2>2. CASE CancelAfter
        BY ZenonT(60), <2>2 DEF CancelAfter, Interrupted
  <2>3. CASE RefreshTimeout
        BY <2>3 DEF RefreshTimeout
  <2> QED BY <1>c, <2>1, <2>2, <2>3
<1>e. CASE Escalate
  <2>1. CASE Killed
        BY <1>e, <2>1, KilledGroup DEF Escalate, IInv, TypeOK, OnTheWay, Finished,
           NothingLeft, ExitReported, Disarms, reading, Reaped
  <2>2. CASE UNCHANGED process
        BY <1>e, <2>2 DEF Escalate, IInv, TypeOK, OnTheWay, Finished,
           NothingLeft, ExitReported, Disarms, reading, process
  <2> QED BY <1>e, <2>1, <2>2 DEF Escalate
<1>s. CASE ShutDown \/ CaptureTorn
  <2>1. ~closed /\ Forced
        BY <1>s DEF ShutDown, CaptureTorn, IInv, OnTheWay
  <2>2. Killed /\ cancelled' = TRUE /\ killTask' = "none" /\ closed' = closed
        BY <2>1 DEF Forced
  <2>3. CASE ShutDown
        BY <2>1, <2>2, <2>3, KilledGroup DEF ShutDown, IInv, TypeOK, OnTheWay, Finished,
           NothingLeft, ExitReported, Disarms, reading, Reaped
  <2>4. CASE CaptureTorn
        BY <2>1, <2>2, <2>4, KilledGroup DEF CaptureTorn, IInv, TypeOK, OnTheWay,
           Finished, NothingLeft, ExitReported, Disarms, Reaped
  <2> QED BY <1>s, <2>3, <2>4
<1>r. CASE ReaderNext
  <2>1. CASE Poll
    <3>1. CASE Leave /\ UNCHANGED lines
          BY <2>1, <3>1, LeaveStep DEF Poll, IInv, TypeOK
    <3>2. CASE /\ ~Overdue /\ (lines > 0 \/ Held)
               /\ lines' = IF lines > 0 THEN lines - 1 ELSE 0
               /\ deadline' = IF Reaped /\ deadline = "none" THEN "set" ELSE deadline
               /\ UNCHANGED <<mode, process, handle, reader, reported, abandoned>>
          BY <2>1, <3>2 DEF Poll, IInv, TypeOK, OnTheWay, Finished, NothingLeft,
             ExitReported, Disarms, process, handle
    <3> QED BY <2>1, <3>1, <3>2 DEF Poll
  <2>2. CASE StreamTorn
        BY <2>2, LeaveStep DEF StreamTorn
  <2>3. CASE ExitSeen
        BY <2>3, DoneStep DEF ExitSeen, IInv, TypeOK
  <2>4. CASE ExitGrace
        BY <2>4, DoneStep DEF ExitGrace, IInv, TypeOK
  <2>5. CASE Captured
        BY <2>5 DEF Captured, IInv, TypeOK, OnTheWay, Finished, NothingLeft,
           ExitReported, Disarms, process, handle, Reaped
  <2>6. CASE Drained
        BY <2>6, DoneStep DEF Drained, IInv, TypeOK, OnTheWay, Reaped
  <2>7. CASE CaptureReaped
        BY <2>7, DoneStep DEF CaptureReaped, IInv, TypeOK
  <2> QED BY <1>r, <1>s, <2>1, <2>2, <2>3, <2>4, <2>5, <2>6, <2>7 DEF ReaderNext
<1>u. CASE UNCHANGED vars
      BY <1>u DEF vars, process, handle, reading, IInv, TypeOK, OnTheWay, Finished,
         NothingLeft, ExitReported, Disarms
<1> QED BY <1>p, <1>c, <1>e, <1>s, <1>r, <1>u DEF Next

(* The invariant holds throughout.                                          *)
LEMMA Invariance == Spec => []IInv
BY InitIInv, NextIInv, PTL DEF Spec

-----------------------------------------------------------------------------
(* The state of a command is always well-formed.                            *)
THEOREM TypesHold == Spec => []TypeOK
<1>1. IInv => TypeOK BY DEF IInv
<1> QED BY Invariance, <1>1, PTL

(* However reading ended, a cancelled command has left neither the CLI nor  *)
(* a helper running.                                                        *)
THEOREM CancelledLeavesNothing == Spec => []NothingLeft
<1>1. IInv => NothingLeft BY DEF IInv
<1> QED BY Invariance, <1>1, PTL

(* The caller sees the code the process ended with, unless waiting for the  *)
(* exit was given up.                                                       *)
THEOREM RealCode == Spec => []ExitReported
<1>1. IInv => ExitReported BY DEF IInv
<1> QED BY Invariance, <1>1, PTL

(* No escalation outlives the command, with the same exception.             *)
THEOREM NothingArmed == Spec => []Disarms
<1>1. IInv => Disarms BY DEF IInv
<1> QED BY Invariance, <1>1, PTL

(* All of it: what a command leaves behind, however it ended (cli.py).      *)
THEOREM CommandEndsClean == Spec => []EndsClean
<1>1. TypeOK /\ NothingLeft /\ ExitReported /\ Disarms => EndsClean BY DEF EndsClean
<1> QED BY TypesHold, CancelledLeavesNothing, RealCode, NothingArmed, <1>1, PTL

-----------------------------------------------------------------------------
(* The playbook: what is left of its tree at each place of RunPlaybook, and *)
(* that output the watchdog has not yet seen is all that can make the time  *)
(* it measures longer than the silence.                                     *)
Places ==
    /\ main = "start" => playbook = "none" /\ workers = {}
    /\ main \in {"scanning", "waiting"} => playbook \in {"running", "exited"}
    /\ main = "copying" => playbook = "reaped"
    /\ P!NothingLeft

Measured == ~fresh => quiet <= silent

PInv == P!TypeOK /\ Places /\ Measured

LEMMA InitPInv == P!Init => PInv
<1> SUFFICES ASSUME P!Init PROVE PInv
    OBVIOUS
<1>1. pipe \in Seq({"line", "long"}) /\ Len(pipe) <= PipeSize
      BY PipeAssumption DEF PipeAssumption, P!Init
<1>2. quiet \in 0..IdleTicks /\ silent \in 0..IdleTicks
      BY TicksAssumption DEF TicksAssumption, P!Init
<1>3. P!TypeOK
      BY <1>1, <1>2 DEF P!Init, P!TypeOK
<1> QED BY <1>3 DEF P!Init, PInv, Places, Measured, P!NothingLeft

(* The caller's steps.                                                      *)
LEMMA CallerPInv ==
    ASSUME PInv, P!StartFailed \/ P!Started \/ P!ScanDone \/ P!Reaped \/ P!Returned
    PROVE  PInv'
<1> USE DEF PInv, P!TypeOK, Places, Measured, P!NothingLeft, P!procs, P!watching
<1>1. CASE P!StartFailed
      BY <1>1 DEF P!StartFailed
<1>2. CASE P!Started
      BY <1>2 DEF P!Started
<1>3. CASE P!ScanDone
      BY <1>3 DEF P!ScanDone
<1>4. CASE P!Reaped
      BY <1>4 DEF P!Reaped
<1>5. CASE P!Returned
      BY <1>5 DEF P!Returned, P!StderrClosed
<1> QED BY <1>1, <1>2, <1>3, <1>4, <1>5

(* The processes' steps.                                                    *)
LEMMA ProcessPInv ==
    ASSUME PInv,
           \/ P!Write \/ P!LeaderExit \/ P!Cancel \/ P!CancelKill
           \/ \E w \in Workers : P!Fork(w) \/ P!WorkerExit(w)
    PROVE  PInv'
<1> USE DEF PInv, P!TypeOK, Places, Measured, P!NothingLeft, P!procs, P!watching
<1>1. CASE P!Write
  <2>1. PICK line \in {"line", "long"} : pipe' = Append(pipe, line)
        BY <1>1 DEF P!Write
  <2>2. pipe' \in Seq({"line", "long"}) /\ Len(pipe') = Len(pipe) + 1
        BY <2>1
  <2>3. Len(pipe') <= PipeSize
        BY <1>1, <2>2, PipeAssumption DEF PipeAssumption, P!Write
  <2> QED BY <1>1, <2>2, <2>3 DEF P!Write
<1>2. CASE P!LeaderExit
      BY <1>2 DEF P!LeaderExit
<1>3. CASE P!Cancel
      BY <1>3 DEF P!Cancel
<1>4. CASE P!CancelKill
      BY <1>4 DEF P!CancelKill
<1>5. ASSUME NEW w \in Workers, P!Fork(w) PROVE PInv'
      BY <1>5 DEF P!Fork
<1>6. ASSUME NEW w \in Workers, P!WorkerExit(w) PROVE PInv'
      BY <1>6 DEF P!WorkerExit
<1> QED BY <1>1, <1>2, <1>3, <1>4, <1>5, <1>6

(* The scanner's and the watchdog's steps.                                  *)
LEMMA WatchPInv ==
    ASSUME PInv, P!Scan \/ P!ScanEOF \/ P!WatchEnds \/ P!Tick \/ P!Term \/ P!Kill
    PROVE  PInv'
<1> USE TicksAssumption DEF TicksAssumption, PInv, P!TypeOK, Places, Measured,
        P!NothingLeft, P!procs, P!watching
<1>1. CASE P!Scan
  <2>1. pipe # <<>> /\ pipe' = Tail(pipe)
        BY <1>1 DEF P!Scan
  <2>2. pipe' \in Seq({"line", "long"}) /\ Len(pipe') <= PipeSize
        BY <2>1, PipeAssumption DEF PipeAssumption
  <2>3. CASE Head(pipe) = "line"
        BY <1>1, <2>2, <2>3 DEF P!Scan
  <2>4. CASE Head(pipe) # "line"
        BY <1>1, <2>2, <2>4 DEF P!Scan
  <2> QED BY <2>3, <2>4
<1>2. CASE P!ScanEOF
      BY <1>2 DEF P!ScanEOF
<1>3. CASE P!WatchEnds
      BY <1>3 DEF P!WatchEnds
<1>4. CASE P!Tick
  <2>1. CASE ~fresh /\ quiet = IdleTicks
        BY <1>4, <2>1 DEF P!Tick
  <2>2. CASE ~(~fresh /\ quiet = IdleTicks)
    <3>1. quiet' \in 0..IdleTicks /\ silent' \in 0..IdleTicks /\ quiet' <= silent'
          BY <1>4, <2>2 DEF P!Tick, P!QuietAfterOutput
    <3>2. fresh' = FALSE /\ watchdog' \in {"done", "watching"} /\ timedOut' = timedOut
          BY <1>4, <2>2 DEF P!Tick
    <3> QED BY ZenonT(60), <1>4, <3>1, <3>2 DEF P!Tick
  <2> QED BY <2>1, <2>2
<1>5. CASE P!Term
      BY <1>5 DEF P!Term
<1>6. CASE P!Kill
      BY <1>6 DEF P!Kill, P!KilledGroup
<1> QED BY <1>1, <1>2, <1>3, <1>4, <1>5, <1>6

LEMMA IdlePInv == ASSUME PInv, UNCHANGED playbookVars PROVE PInv'
BY DEF playbookVars, PInv, P!TypeOK, Places, Measured, P!NothingLeft

LEMMA NextPInv == PInv /\ P!Next => PInv'
<1> SUFFICES ASSUME PInv, P!Next PROVE PInv'
    OBVIOUS
<1>1. P!Over => UNCHANGED playbookVars
      BY DEF P!Over, P!vars, playbookVars
<1> QED BY <1>1, CallerPInv, ProcessPInv, WatchPInv, IdlePInv DEF P!Next

(* Both trees: each step is a step of one and leaves the other alone.       *)
LEMMA MCInvariance == MCSpec => [](IInv /\ PInv)
<1>1. MCInit => IInv /\ PInv
      BY InitIInv, InitPInv DEF MCInit
<1>2. IInv /\ PInv /\ [MCNext]_allVars => IInv' /\ PInv'
  <2>1. [MCNext]_allVars => [Next]_vars
        BY DEF MCNext, allVars
  <2>2. [MCNext]_allVars => P!Next \/ UNCHANGED playbookVars
        BY DEF MCNext, allVars
  <2> QED BY <2>1, <2>2, NextIInv, NextPInv, IdlePInv
<1> QED BY <1>1, <1>2, PTL DEF MCSpec

-----------------------------------------------------------------------------
(* RunPlaybook returns only when no process of the playbook is left, for    *)
(* any number of workers and whoever ends it (runner.go); and its types.    *)
THEOREM PlaybookEndsClean == MCSpec => []PlaybookLeavesNothing
<1>1. IInv /\ PInv => PlaybookLeavesNothing
      BY DEF PInv, Places, PlaybookLeavesNothing
<1> QED BY MCInvariance, <1>1, PTL

(* The watchdog strikes only after a whole idle timeout in which no line    *)
(* was read, for any timeout (monitorIdleTimeout).                          *)
THEOREM WatchdogIsPatient == MCSpec => P!TimeoutJustified
<1>1. PInv /\ [MCNext]_allVars => [timedOut' # timedOut => silent = IdleTicks]_P!vars
  <2> SUFFICES ASSUME PInv, [MCNext]_allVars, timedOut' # timedOut
               PROVE  silent = IdleTicks
      BY DEF P!vars
  <2>1. P!Next
        BY DEF MCNext, allVars, playbookVars
  <2>2. P!Tick
        BY <2>1 DEF P!Next, P!StartFailed, P!Started, P!ScanDone, P!Reaped, P!Returned,
           P!Write, P!LeaderExit, P!Cancel, P!CancelKill, P!Fork, P!WorkerExit, P!Scan,
           P!ScanEOF, P!WatchEnds, P!Term, P!Kill, P!Over, P!vars, P!watching
  <2>3. ~fresh /\ quiet = IdleTicks
        BY <2>2 DEF P!Tick
  <2> QED BY <2>3, TicksAssumption DEF TicksAssumption, PInv, P!TypeOK, Measured
<1> QED BY MCInvariance, <1>1, PTL DEF MCSpec, P!TimeoutJustified

(* What a command leaves behind, in the composition that TLC runs.          *)
THEOREM CommandEndsCleanBeside == MCSpec => []EndsClean
<1>1. IInv /\ PInv => EndsClean
      BY DEF IInv, EndsClean
<1> QED BY MCInvariance, <1>1, PTL
=============================================================================
