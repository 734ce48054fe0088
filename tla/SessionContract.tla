-------------------------- MODULE SessionContract --------------------------
(***************************************************************************)
(* What a console session promises its users: turns and deletion exclude   *)
(* each other, a deletion that fails gives the session back, and a session *)
(* that is gone, or whose server has stopped, never runs a turn again.     *)
(* SessionRuntime implements it with ImplementsContract.                   *)
(***************************************************************************)
VARIABLE phase

Init == phase = "open"

Step(from, to) == phase = from /\ phase' = to

AdmitTurn   == Step("open", "turn")
EndTurn     == Step("turn", "open")
Reserve     == Step("open", "deleting")
GiveBack    == Step("deleting", "open")
Delete      == Step("deleting", "gone")
Stop        == Step("open", "stopped")
StopTurn    == Step("turn", "stopped")

Next == AdmitTurn \/ EndTurn \/ Reserve \/ GiveBack \/ Delete \/ Stop \/ StopTurn

Spec == Init /\ [][Next]_phase
=============================================================================
