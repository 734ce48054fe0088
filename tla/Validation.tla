----------------------------- MODULE Validation -----------------------------
(* One pass of `dreadgoad validate`: the checks run concurrently, each makes  *)
(* its probes one after the other, and three layers of retries stand between  *)
(* a host and a verdict (internal/validate/validator.go, script_runner.go,    *)
(* and the loops of checks.go).                                               *)
(*   runPSTransport  tries a call again after a transport failure, counts the *)
(*                   calls that gave up and declares the host dead            *)
(*   runPSErr        asks again while the answer is empty                     *)
(*   the form        json asks again without an envelope, must while the      *)
(*                   answer is negative, marked while it is inconclusive      *)
(* What a check concludes from an answer is in Table: ValidationChecks        *)
(* translates it from checks.go.                                              *)
EXTENDS Integers, Sequences, FiniteSets

CONSTANTS Hosts, DCs,     \* the roles of the lab, those that are controllers
          Workers,        \* goroutines of runChecks
          Table,          \* the checks: see ValidationChecks
          Together,       \* checks that are also run two at a time
          Attempts,       \* runPSAttempts
          Retries,        \* transientRetries
          DeadThreshold,
          None

ASSUME BoundsAssumption ==
    Attempts \in Nat \ {0} /\ Retries \in Nat \ {0} /\ DeadThreshold \in Nat \ {0}

Forms == {"text", "json", "sql", "must", "marked"}
Statuses == {"PASS", "FAIL", "WARN", "INFO"}
Probes(c) == Table[c].probes
Verdict(probe, a) ==
    a \in DOMAIN probe.out /\ \E i \in DOMAIN probe.out[a] : probe.out[a][i] \in {"PASS", "FAIL"}

(* A probe that discards the error of its call and then reads "nothing there" *)
(* as absence: checkADCSESC13 on the policy's OID.                            *)
Careless == {"esc13_policy"}

(* Checks that may look at a host and report nothing of it.                   *)
Silent == {"Delegation", "SIDHistory", "Services"}

(* Every probe decides an error, every fact it names and, when the form       *)
(* leaves it to the check, an empty answer; every follow-up exists.           *)
ASSUME TableAssumption ==
    /\ Together \subseteq DOMAIN Table
    /\ \A c \in DOMAIN Table : \A p \in DOMAIN Probes(c) :
        LET probe == Probes(c)[p]
        IN  /\ probe.form \in Forms /\ "error" \in DOMAIN probe.out
            /\ probe.form \notin {"json", "sql"} => "blank" \in DOMAIN probe.out
            /\ \A a \in DOMAIN probe.out : probe.out[a] \in Seq(Statuses)
            /\ \A a \in DOMAIN probe.then :
                  a \in DOMAIN probe.out /\ probe.then[a] \in DOMAIN Probes(c)

(* An error is no verdict, nor is what a marked probe calls inconclusive; and *)
(* only a condition that must hold has negatives to be confirmed.             *)
ASSUME HonestAssumption ==
    \A c \in DOMAIN Table : \A p \in DOMAIN Probes(c) :
        LET probe == Probes(c)[p]
        IN  /\ p \notin Careless => ~Verdict(probe, "error")
            /\ probe.form = "marked" => ~Verdict(probe, "blank") /\ ~Verdict(probe, "noise")
            /\ probe.form # "must" => probe.negative = {}

(* The probes a check may make before it has said anything: an answer of      *)
(* theirs that adds no result leads to another of them, on a host it may ask. *)
Opens(c, probes) ==
    /\ Table[c].entries \in Seq(probes)
    /\ c \notin Silent /\ Table[c].closing = <<>> =>
        \A p \in probes : \A a \in DOMAIN Probes(c)[p].out :
            LET probe == Probes(c)[p]
            IN  probe.out[a] = <<>> =>
                    /\ a \in DOMAIN probe.then /\ probe.then[a] \in probes
                    /\ probe.guarded \/ ~Probes(c)[probe.then[a]].guarded

ASSUME OpeningAssumption ==
    \A c \in DOMAIN Table : \E probes \in SUBSET DOMAIN Probes(c) : Opens(c, probes)

VARIABLES phase,      \* "discover", "checks", "done"
          hosts,      \* v.hosts: the roles that were discovered
          failures,   \* v.failures
          dead,       \* v.dead
          failed,     \* v.report.Failed > 0
          cancelled,  \* the context of the command
          exit,       \* "none", "ok" or "error"
          work        \* one record per goroutine

vars == <<phase, hosts, failures, dead, failed, cancelled, exit, work>>

Begun(c, items) ==
    [check |-> c, todo |-> items, pc |-> IF c = None THEN "done" ELSE "ready",
     probe |-> None, host |-> None, tries |-> 0, blanks |-> 0, rounds |-> 0,
     heard |-> None, answer |-> None, given |-> items # <<>>,
     asked |-> FALSE, spoke |-> FALSE, met |-> FALSE]

(* A check has something configured for it in the lab, or nothing.            *)
Items(c) == IF c = None THEN {<<>>} ELSE {<<>>, Table[c].entries}

Plans ==
    {[w \in Workers |-> IF w = first THEN c ELSE None] :
        first \in {CHOOSE w \in Workers : TRUE}, c \in DOMAIN Table}
    \cup [Workers -> Together]

Init ==
    /\ phase = "discover" /\ hosts = {} /\ dead = {} /\ failed = FALSE
    /\ failures = [h \in Hosts |-> 0]
    /\ cancelled = FALSE /\ exit = "none"
    /\ \E plan \in Plans : \E items \in [Workers -> UNION {Items(plan[w]) : w \in Workers}] :
          /\ \A w \in Workers : items[w] \in Items(plan[w])
          /\ work = [w \in Workers |-> Begun(plan[w], items[w])]

------------------------------------------------------------------------------
(* A required host that is missing ends the command.                          *)
DiscoverHosts ==
    /\ phase = "discover"
    /\ \E found \in SUBSET Hosts :
          /\ hosts' = found
          /\ IF DCs \subseteq found THEN /\ phase' = "checks" /\ UNCHANGED <<failed, exit>>
                                    ELSE /\ phase' = "done" /\ failed' = TRUE /\ exit' = "error"
    /\ UNCHANGED <<failures, dead, cancelled, work>>

Interrupt ==
    /\ phase = "checks" /\ ~cancelled
    /\ cancelled' = TRUE
    /\ UNCHANGED <<phase, hosts, failures, dead, failed, exit, work>>

------------------------------------------------------------------------------
(* A worker's record after a step of it.                                      *)
Answered(k, a) == [k EXCEPT !.pc = "answered", !.answer = a, !.tries = 0]

(* Between two subjects: the locals of the probe are gone.                    *)
Ready(k) ==
    [k EXCEPT !.pc = "ready", !.probe = None, !.host = None, !.tries = 0, !.blanks = 0,
              !.rounds = 0, !.heard = None, !.answer = None]

(* Entry of runPSErr: an unknown or a dead host is an error at once.          *)
runPSErr(k) ==
    IF k.host \notin hosts \/ k.host \in dead THEN Answered(k, "error")
    ELSE [k EXCEPT !.pc = "call", !.tries = 1, !.blanks = 1]

Ask(k, p, h) ==
    IF Probes(k.check)[p].guarded /\ h \notin hosts THEN Ready(k)
    ELSE runPSErr([k EXCEPT !.probe = p, !.host = h, !.rounds = 1, !.heard = None,
                            !.asked = TRUE])

Asking(k) == Probes(k.check)[k.probe]

(* What the form makes of the output that runPSErr returned.                  *)
Inconclusive(probe, out) ==
    CASE probe.form = "json"   -> out = "noise"
      [] probe.form = "must"   -> out \in probe.negative
      [] probe.form = "marked" -> out \in {"blank", "noise"}
      [] OTHER                 -> FALSE

Reading(probe, out) ==
    IF probe.form \in {"json", "sql"} /\ out \in {"blank", "noise"} THEN "error" ELSE out

Read(k, out) ==
    IF Inconclusive(Asking(k), out) /\ k.rounds < Retries
    THEN [k EXCEPT !.pc = "backoff", !.tries = 0, !.blanks = 0]
    ELSE Answered(k, Reading(Asking(k), out))

(* The rest of runPSErr after a call that succeeded.                          *)
Received(k, out) ==
    IF out = "blank" /\ k.blanks < Retries
    THEN [k EXCEPT !.pc = "settle", !.heard = out]
    ELSE Read([k EXCEPT !.heard = out], out)

CutShortTrusted(k) ==   \* mutant: the negative of an unfinished series counts
    Answered(k, k.heard)

(* A backoff that the cancellation cut short: a negative is not a verdict.    *)
CutShort(k) ==
    Answered(k, IF Asking(k).form = "marked" THEN k.heard ELSE "error")

Outputs(probe) ==
    (DOMAIN probe.out \ {"error"})
    \cup (IF probe.form \in {"json", "sql"} THEN {"blank", "noise"} ELSE {})

------------------------------------------------------------------------------
Turn(w, pc) == phase = "checks" /\ work[w].pc = pc

Step(w, k) ==
    /\ work' = [work EXCEPT ![w] = k]
    /\ UNCHANGED <<phase, hosts, cancelled, exit>>

(* Nothing configured: SKIP.  Otherwise the next subject, on its host.        *)
NextItem(w) ==
    LET k == work[w]
    IN  /\ Turn(w, "ready") /\ k.todo # <<>>
        /\ \E h \in Hosts : Step(w, Ask([k EXCEPT !.todo = Tail(@)], Head(k.todo), h))
        /\ UNCHANGED <<failures, dead, failed>>

EndCheck(w) ==
    LET k == work[w]
        closes == Table[k.check].closing # <<>> /\ k.given /\ ~k.met
        skips  == Table[k.check].skips /\ ~k.given
    IN  /\ Turn(w, "ready") /\ k.todo = <<>>
        /\ Step(w, [k EXCEPT !.pc = "done", !.spoke = @ \/ closes \/ skips])
        /\ failed' = (failed \/ (closes /\ Table[k.check].closing = <<"FAIL">>))
        /\ UNCHANGED <<failures, dead>>

(* provider.RunCommand succeeded: the host's failures are forgotten.          *)
CallSucceeds(w) ==
    /\ Turn(w, "call")
    /\ \E out \in Outputs(Asking(work[w])) : Step(w, Received(work[w], out))
    /\ failures' = [failures EXCEPT ![work[w].host] = 0]
    /\ UNCHANGED <<dead, failed>>

CallFails(w) ==
    LET k == work[w]
    IN  /\ Turn(w, "call")
        /\ IF k.tries < Attempts
           THEN /\ Step(w, [k EXCEPT !.pc = "sleep"])
                /\ UNCHANGED <<failures, dead>>
           ELSE /\ Step(w, Answered(k, "error"))
                /\ failures' = [failures EXCEPT ![k.host] = IF @ < DeadThreshold THEN @ + 1 ELSE @]
                /\ dead' = IF failures[k.host] + 1 >= DeadThreshold
                           THEN dead \cup {k.host} ELSE dead
        /\ UNCHANGED failed

WakeForgetful(w) ==   \* mutant: the empty answers are not counted
    /\ \/ Turn(w, "sleep")   /\ Step(w, [work[w] EXCEPT !.pc = "call", !.tries = @ + 1])
       \/ Turn(w, "settle")  /\ Step(w, [work[w] EXCEPT !.pc = "call", !.tries = 1])
       \/ Turn(w, "backoff") /\ Step(w, runPSErr([work[w] EXCEPT !.rounds = @ + 1]))
    /\ UNCHANGED <<failures, dead, failed>>

(* The three waits: each is over, or the cancellation cuts it short.          *)
Wake(w) ==
    LET k == work[w]
    IN  /\ \/ Turn(w, "sleep")   /\ Step(w, [k EXCEPT !.pc = "call", !.tries = @ + 1])
           \/ Turn(w, "settle")  /\ Step(w, [k EXCEPT !.pc = "call", !.tries = 1, !.blanks = @ + 1])
           \/ Turn(w, "backoff") /\ Step(w, runPSErr([k EXCEPT !.rounds = @ + 1]))
        /\ UNCHANGED <<failures, dead, failed>>

WakeCancelledMute(w) ==   \* mutant: a cancelled probe is left without a result
    /\ cancelled /\ work[w].pc \in {"sleep", "settle", "backoff"}
    /\ phase = "checks" /\ Step(w, Ready(work[w]))
    /\ UNCHANGED <<failures, dead, failed>>

WakeCancelled(w) ==
    LET k == work[w]
    IN  /\ cancelled
        /\ \/ Turn(w, "sleep")   /\ Step(w, Answered(k, "error"))
           \/ Turn(w, "settle")  /\ Step(w, Answered(k, "error"))
           \/ Turn(w, "backoff") /\ Step(w, CutShort(k))
        /\ UNCHANGED <<failures, dead, failed>>

(* The results of the answer (addResult), then the probe that follows it.     *)
addResult(w) ==
    LET k     == work[w]
        added == Asking(k).out[k.answer]
        told  == [k EXCEPT !.spoke = @ \/ added # <<>>,
                           !.met = @ \/ (k.probe \in Table[k.check].passed
                                         /\ \E i \in DOMAIN added : added[i] = "PASS")]
    IN  /\ Turn(w, "answered")
        /\ failed' = (failed \/ \E i \in DOMAIN added : added[i] = "FAIL")
        /\ Step(w, IF k.answer \in DOMAIN Asking(k).then
                   THEN Ask(told, Asking(k).then[k.answer], k.host)
                   ELSE Ready(told))
        /\ UNCHANGED <<failures, dead>>

(* Every goroutine has returned: the report and the command's exit.           *)
runGOADValidate ==
    /\ phase = "checks" /\ \A w \in Workers : work[w].pc = "done"
    /\ phase' = "done"
    /\ \E noFail \in BOOLEAN : exit' = IF ~noFail /\ failed THEN "error" ELSE "ok"
    /\ UNCHANGED <<hosts, failures, dead, failed, cancelled, work>>

Worker(w) ==
    NextItem(w) \/ EndCheck(w) \/ CallSucceeds(w) \/ CallFails(w) \/ Wake(w)
    \/ WakeCancelled(w) \/ addResult(w)

Next == DiscoverHosts \/ Interrupt \/ runGOADValidate \/ \E w \in Workers : Worker(w)

Spec == Init /\ [][Next]_vars

(* A call returns (runPSTimeout), a wait ends, and the goroutines are run.    *)
FairSpec == Spec /\ WF_vars(DiscoverHosts) /\ WF_vars(runGOADValidate)
                 /\ \A w \in Workers : WF_vars(Worker(w))
------------------------------------------------------------------------------
TypeOK ==
    /\ phase \in {"discover", "checks", "done"} /\ exit \in {"none", "ok", "error"}
    /\ hosts \subseteq Hosts /\ dead \subseteq Hosts
    /\ failures \in [Hosts -> 0..DeadThreshold]
    /\ failed \in BOOLEAN /\ cancelled \in BOOLEAN
    /\ \A w \in Workers :
          /\ work[w].pc \in {"ready", "call", "sleep", "settle", "backoff", "answered", "done"}
          /\ work[w].tries \in 0..Attempts
          /\ work[w].blanks \in 0..Retries /\ work[w].rounds \in 0..Retries
          /\ work[w].pc = "answered" => work[w].answer \in DOMAIN Asking(work[w]).out

(* A PASS or a FAIL rests on what the host said: whatever the interleaving of *)
(* transport failures, hosts that die under another check, empty answers and  *)
(* Ctrl-C, the probe's last call was answered, an empty answer was given as   *)
(* often as the settling host is allowed, and a must-exist condition was      *)
(* found absent by that many completed probes (retryMustExist, runPSErr).     *)
VerdictEvidenced ==
    \A w \in Workers :
        LET k == work[w]
        IN  /\ k.pc = "answered" /\ Verdict(Asking(k), k.answer) /\ k.probe \notin Careless
            => /\ k.answer = k.heard
               /\ k.heard = "blank" => k.blanks = Retries
               /\ k.answer \in Asking(k).negative => k.rounds = Retries

(* The types, and: a check that asked a host about something the lab          *)
(* configures says what became of it: no retry, no follow-up probe and no     *)
(* cancellation ends it without a line in the report.                         *)
NothingDropped ==
    /\ TypeOK
    /\ \A w \in Workers :
        work[w].pc = "done" /\ work[w].asked => work[w].spoke \/ work[w].check \in Silent

(* Once the hosts are discovered the pass comes to its end, whatever the      *)
(* hosts answer or fail to answer, and also when it is interrupted.           *)
RunEnds == <>(phase = "done")
=============================================================================
