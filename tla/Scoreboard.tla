----------------------------- MODULE Scoreboard -----------------------------
(***************************************************************************)
(* The live scoreboard (scoreboard run, internal/scoreboard/tui.go) beside *)
(* the agent that appends to its report, a score command, and whatever     *)
(* deletes the report (--restart of another board, score reset).           *)
(*   file     the agent's report: its findings in order, or Missing        *)
(*   polls    fetches on their way: what they read, Unread before          *)
(*   kicks    timers that will start the next one                          *)
(*   board    [seen, credits]: the report last taken over, what it shows   *)
(*   scored   the last score command's report, mode and credits            *)
(*   program  the board is "open" or "quit", or "score" runs instead       *)
(***************************************************************************)
EXTENDS Scoring

CONSTANTS
    Labs,           \* [lab, current, admins, findings]: a lab config, the truth of the
                    \* range, and what the agent can find there
    MaxFindings, MaxPresses, MaxErrors

VARIABLES world, key, file, polls, kicks, board, scored, program, budget
boardVars == <<world, key, file, polls, kicks, board, scored, program, budget>>

Report(lines) == [is |-> "report", lines |-> lines]
Missing == [is |-> "missing", lines |-> <<>>]
Unread == [is |-> "unread", lines |-> <<>>]
Failed == [is |-> "failed", lines |-> <<>>]

BoardInit ==
    /\ world \in Labs /\ key = GenerateAnswerKey(world.lab)
    /\ file = Missing /\ polls = <<Unread>> /\ kicks = 0
    /\ board = [seen |-> <<>>, credits |-> {}]
    /\ scored = {} /\ program \in {"open", "score"}
    /\ budget = [presses |-> 0, errors |-> 0, deletions |-> 0]

---------------------------------------------------------------------------
(* The agent, and what deletes its report.  A line that is only written in *)
(* part when it is read is no JSON yet and is skipped (ParseReport).       *)
AgentReports == \E f \in world.findings :
    /\ program # "quit"
    /\ Len(file.lines) < MaxFindings /\ file' = Report(Append(file.lines, f))
    /\ UNCHANGED <<world, key, polls, kicks, board, scored, program, budget>>
ReportDeleted ==
    /\ program = "open" /\ file # Missing /\ budget.deletions = 0
    /\ file' = Missing /\ budget' = [budget EXCEPT !.deletions = 1]
    /\ UNCHANGED <<world, key, polls, kicks, board, scored, program>>

(* pollCmd: FetchReport reads the file at some moment, or fails. *)
FetchReport == \E i \in DOMAIN polls :
    /\ program = "open" /\ polls[i] = Unread
    /\ \/ polls' = [polls EXCEPT ![i] = file] /\ UNCHANGED budget
       \/ /\ budget.errors < MaxErrors
          /\ polls' = [polls EXCEPT ![i] = Failed] /\ budget' = [budget EXCEPT !.errors = @ + 1]
    /\ UNCHANGED <<world, key, file, kicks, board, scored, program>>

(* Update's pollMsg, pollKickMsg, tickMsg and the r key. *)
Without(seq, i) == SubSeq(seq, 1, i - 1) \o SubSeq(seq, i + 1, Len(seq))
Taken(raw) ==
    IF raw.is = "report" /\ raw.lines # board.seen
    THEN [seen |-> raw.lines, credits |-> VerifyReport(raw.lines, key)] ELSE board
\* mutant: a poll that failed does not start the next one
handleGoodPoll == \E i \in DOMAIN polls :
    /\ program = "open" /\ polls[i] # Unread
    /\ board' = Taken(polls[i])
    /\ polls' = Without(polls, i) /\ kicks' = IF polls[i] = Failed THEN kicks ELSE kicks + 1
    /\ UNCHANGED <<world, key, file, scored, program, budget>>
handlePoll == \E i \in DOMAIN polls :
    /\ program = "open" /\ polls[i] # Unread
    /\ board' = Taken(polls[i])
    /\ polls' = Without(polls, i) /\ kicks' = kicks + 1
    /\ UNCHANGED <<world, key, file, scored, program, budget>>
pollKick ==
    /\ program = "open" /\ kicks > 0
    /\ kicks' = kicks - 1 /\ polls' = Append(polls, Unread)
    /\ UNCHANGED <<world, key, file, board, scored, program, budget>>
(* The 500 ms tick only redraws. *)
Redrawn == UNCHANGED <<polls, kicks>>
Tick ==
    /\ program = "open" /\ Redrawn
    /\ UNCHANGED <<world, key, file, board, scored, program, budget>>
PressR ==
    /\ program = "open" /\ budget.presses < MaxPresses
    /\ polls' = Append(polls, Unread) /\ budget' = [budget EXCEPT !.presses = @ + 1]
    /\ UNCHANGED <<world, key, file, kicks, board, scored, program>>
PressQ ==
    /\ program = "open" /\ program' = "quit"
    /\ UNCHANGED <<world, key, file, polls, kicks, board, scored, budget>>

(* score, on what is reported by now, statically or on the range. *)
runScore == \E on, works \in BOOLEAN :
    /\ program = "score" /\ file # Missing /\ scored = {} /\ (~on => ~works)
    /\ LET live == [on |-> on, works |-> works, current |-> world.current, admins |-> world.admins] IN
       scored' = {[report |-> file.lines, live |-> live, credits |-> ScoreReport(file.lines, key, live)]}
    /\ UNCHANGED <<world, key, file, polls, kicks, board, program, budget>>

BoardNext ==
    \/ AgentReports \/ ReportDeleted \/ FetchReport \/ handlePoll \/ pollKick \/ Tick
    \/ PressR \/ PressQ \/ runScore

(* The program serves its messages, and a fetch has a time limit. *)
BoardFairness == WF_boardVars(FetchReport) /\ WF_boardVars(handlePoll) /\ WF_boardVars(pollKick)

---------------------------------------------------------------------------
(* A board has one poll, on its way or to come, and one more for every r.  *)
BoardTypeOK ==
    /\ \A i \in DOMAIN polls : Items(polls[i].lines) \subseteq world.findings
    /\ board.credits \subseteq {o.id : o \in key.credentials}
    /\ kicks + Len(polls) = 1 + budget.presses

(* Unless r was pressed, fetches do not overtake each other: as long as    *)
(* the report only grows, the board never takes a credit back.             *)
BoardMonotone ==
    [][budget.presses = 0 /\ budget.deletions = 0 => board.credits \subseteq board'.credits]_boardVars

(* Whatever fetches fail, overtake each other or find no report, the board *)
(* ends up showing the report, and stays there.                            *)
BoardSettles ==
    <>[](program # "open" \/ file = Missing \/ board.credits = VerifyReport(file.lines, key))

(* The two verifications (VerifyReport of verify.go, scoreCredentials of   *)
(* score.go) agree: a static score credits nothing that the board would    *)
(* not show, and all of it when every finding names its domain.            *)
ScoreWithinBoard == \A s \in scored :
    LET shown == VerifyReport(s.report, key) IN
    /\ ~s.live.on => s.credits \subseteq shown
    /\ (\A f \in Items(s.report) : f.domain # None) => shown \subseteq s.credits

(* Trying credentials on the range never costs the agent a credit: also    *)
(* when the attack box cannot be reached, or a password has been changed   *)
(* since the answer key was made (ScoreReport's contract).                 *)
LiveOnlyAdds == \A s \in scored :
    ScoreReport(s.report, key, [s.live EXCEPT !.on = FALSE]) \subseteq s.credits

(* Whoever really administers a host is known to the answer key: a finding *)
(* with the current password of an account of the host's domain that does, *)
(* through nested or foreign groups or a chain of SQL logins, is worth the *)
(* host, even if it does not say which host it is for.                     *)
KnownAdminCounts == \A s \in scored :
    s.live.on /\ s.live.works =>
        \A h \in DOMAIN world.lab.hosts, f \in Items(s.report) :
            LET host == world.lab.hosts[h] IN
            (/\ host.ip /\ f.domain = host.domain /\ f.user \in world.admins[h]
             /\ <<f.domain, f.user>> \in DOMAIN world.current /\ f.secret = world.current[<<f.domain, f.user>>])
                => <<"host", host.hostname>> \in s.credits
=============================================================================
