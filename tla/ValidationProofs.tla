--------------------------- MODULE ValidationProofs ---------------------------
(* Theorems about Validation, for every lab, table of checks, number of       *)
(* workers and bound on retries: verdicts rest on answers, and no check that  *)
(* asked a host stays silent about it.  After them, the two dashboards that   *)
(* show results as they come: LiveDashboard, and Scoreboard as an instance.   *)
EXTENDS Validation, LiveDashboard, TLAPS

ProbeNames == UNION {DOMAIN Probes(c) : c \in DOMAIN Table}

Said ==
    {"blank", "noise"}
    \cup UNION {UNION {DOMAIN Probes(c)[p].out : p \in DOMAIN Probes(c)} : c \in DOMAIN Table}

Waiting == {"sleep", "settle", "backoff"}
Busy == {"call", "answered"} \cup Waiting

(* The fields of a worker's record.                                           *)
Pcs     == {"ready", "done"} \cup Busy
Probed  == ProbeNames \cup {None}
On      == Hosts \cup {None}
Tries   == 0..Attempts
Rounds  == 0..Retries
Answers == Said \cup {None}

Records ==
    [check : DOMAIN Table \cup {None}, todo : Seq(ProbeNames), pc : Pcs,
     probe : Probed, host : On, tries : Tries, blanks : Rounds, rounds : Rounds,
     heard : Answers, answer : Answers,
     given : BOOLEAN, asked : BOOLEAN, spoke : BOOLEAN, met : BOOLEAN]

(* The probes that are asked before the check has said anything.              *)
Opening(c) == CHOOSE probes \in SUBSET DOMAIN Probes(c) : Opens(c, probes)

(* The check has spoken, closes with a result of its own, or need not speak.  *)
Heard(k) == k.spoke \/ k.check \in Silent \/ Table[k.check].closing # <<>>

(* What holds of a check that is under way.                                   *)
Underway(k) ==
    /\ k.check \in DOMAIN Table
    /\ k.todo \in Seq(Opening(k.check))
    /\ k.todo # <<>> \/ k.asked => k.given
    /\ k.met => k.spoke

(* What holds while it asks: the probe it makes and the host it asks.         *)
Asks(k, known) ==
    /\ Underway(k) /\ k.given /\ k.asked
    /\ k.probe \in DOMAIN Probes(k.check) /\ k.host \in Hosts
    /\ Asking(k).guarded => k.host \in known
    /\ Heard(k) \/ k.probe \in Opening(k.check)

(* What a verdict that is read from the answer a rests on.                    *)
Evidence(k, a) ==
    Verdict(Asking(k), a) /\ k.probe \notin Careless
    => /\ a = k.heard
       /\ k.heard = "blank" => k.blanks = Retries
       /\ a \in Asking(k).negative => k.rounds = Retries

Sane(k, known) ==
    /\ k \in Records
    /\ k.pc = "ready" => Underway(k) /\ (k.asked => Heard(k))
    /\ k.pc \in Busy => Asks(k, known)
    /\ k.pc = "sleep" => k.tries < Attempts
    /\ k.pc = "settle" => k.blanks < Retries
    /\ k.pc = "backoff" =>
         /\ k.rounds < Retries
         /\ Asking(k).form = "marked" => k.heard \in {"blank", "noise"} \cap DOMAIN Asking(k).out
    /\ k.pc = "answered" => k.answer \in DOMAIN Asking(k).out /\ Evidence(k, k.answer)
    /\ k.pc = "done" /\ k.asked => k.spoke \/ k.check \in Silent

StateOK ==
    /\ phase \in {"discover", "checks", "done"} /\ exit \in {"none", "ok", "error"}
    /\ hosts \subseteq Hosts /\ dead \subseteq Hosts
    /\ failures \in [Hosts -> 0..DeadThreshold]
    /\ failed \in BOOLEAN /\ cancelled \in BOOLEAN

IInv ==
    /\ StateOK
    /\ work \in [Workers -> Records]
    /\ \A w \in Workers : Sane(work[w], hosts)
    /\ phase = "discover" => \A w \in Workers : work[w].pc \in {"ready", "done"}

------------------------------------------------------------------------------
LEMMA Values ==
    /\ None \in Probed /\ None \in On /\ None \in Answers
    /\ 0 \in Tries /\ 1 \in Tries /\ 0 \in Rounds /\ 1 \in Rounds
    /\ Pcs = {"ready", "done", "call", "answered", "sleep", "settle", "backoff"}
    /\ Tries \subseteq Nat /\ Rounds \subseteq Nat
    /\ ProbeNames \subseteq Probed /\ Hosts \subseteq On /\ Said \subseteq Answers
BY BoundsAssumption DEF Probed, On, Answers, Tries, Rounds, Pcs, Busy, Waiting

LEMMA OpeningOpens ==
    ASSUME NEW c \in DOMAIN Table
    PROVE  Opening(c) \in SUBSET DOMAIN Probes(c) /\ Opens(c, Opening(c))
BY OpeningAssumption DEF Opening

(* What the record's type asks of a probe and of an answer.                   *)
LEMMA Named ==
    ASSUME NEW c \in DOMAIN Table, NEW p \in DOMAIN Probes(c)
    PROVE  /\ p \in ProbeNames
           /\ DOMAIN Probes(c)[p].out \subseteq Said
           /\ "error" \in DOMAIN Probes(c)[p].out
           /\ "error" \in Said
<1>1. "error" \in DOMAIN Probes(c)[p].out
      BY TableAssumption
<1>2. p \in ProbeNames
      BY DEF ProbeNames
<1>3. DOMAIN Probes(c)[p].out \subseteq Said
      BY DEF Said
<1> QED BY <1>1, <1>2, <1>3

LEMMA OpeningNamed ==
    ASSUME NEW c \in DOMAIN Table, NEW todo \in Seq(Opening(c)), todo # <<>>
    PROVE  /\ Head(todo) \in Opening(c) /\ Head(todo) \in DOMAIN Probes(c)
           /\ Tail(todo) \in Seq(Opening(c)) /\ Tail(todo) \in Seq(ProbeNames)
<1>1. Head(todo) \in Opening(c) /\ Tail(todo) \in Seq(Opening(c))
      OBVIOUS
<1>2. Opening(c) \subseteq DOMAIN Probes(c) /\ Opening(c) \subseteq ProbeNames
      BY OpeningOpens DEF ProbeNames
<1>3. Tail(todo) \in Seq(ProbeNames)
      BY <1>1, <1>2
<1> QED BY <1>1, <1>2, <1>3

------------------------------------------------------------------------------
(* The functions of a worker's record.                                        *)
LEMMA AnsweredSane ==
    ASSUME NEW k \in Records, NEW known, Asks(k, known),
           NEW a \in DOMAIN Asking(k).out, Evidence(k, a)
    PROVE  Sane(Answered(k, a), known)
<1> DEFINE q == Answered(k, a)
<1>1. a \in Said
      BY Named DEF Asks, Underway, Asking
<1>2. /\ q.pc = "answered" /\ q.answer = a
      /\ q.check = k.check /\ q.todo = k.todo /\ q.probe = k.probe /\ q.host = k.host
      /\ q.heard = k.heard /\ q.blanks = k.blanks /\ q.rounds = k.rounds
      /\ q.given = k.given /\ q.asked = k.asked /\ q.spoke = k.spoke /\ q.met = k.met
      BY DEF Answered, Records
<1>3. q \in Records
      BY <1>1, Values DEF Answered, Records
<1> HIDE DEF q
<1>4. Asking(q) = Asking(k)
      BY <1>2 DEF Asking
<1>5. Asks(q, known)
      BY <1>2, <1>4 DEF Asks, Underway, Heard
<1>6. Evidence(q, a)
      BY <1>2, <1>4 DEF Evidence
<1>7. Sane(q, known)
      BY <1>2, <1>3, <1>4, <1>5, <1>6 DEF Sane, Busy, Waiting
<1> QED BY <1>7 DEF q

(* An error is always an answer, and no verdict.                              *)
LEMMA ErrorSane ==
    ASSUME NEW k \in Records, NEW known, Asks(k, known)
    PROVE  Sane(Answered(k, "error"), known)
<1>1. "error" \in DOMAIN Asking(k).out
      BY Named DEF Asks, Underway, Asking
<1>2. Evidence(k, "error")
      BY HonestAssumption DEF Evidence, Asks, Underway, Asking
<1> QED BY <1>1, <1>2, AnsweredSane

LEMMA ReadySane ==
    ASSUME NEW k \in Records, NEW known, Underway(k), k.asked => Heard(k)
    PROVE  Sane(Ready(k), known)
<1> DEFINE q == Ready(k)
<1>1. /\ q.pc = "ready" /\ q.check = k.check /\ q.todo = k.todo
      /\ q.given = k.given /\ q.asked = k.asked /\ q.spoke = k.spoke /\ q.met = k.met
      BY DEF Ready, Records
<1>2. q \in Records
      BY Values DEF Ready, Records
<1> HIDE DEF q
<1>3. Underway(q) /\ (q.asked => Heard(q))
      BY <1>1 DEF Underway, Heard
<1>4. Sane(q, known)
      BY <1>1, <1>2, <1>3 DEF Sane, Busy, Waiting
<1> QED BY <1>4 DEF q

(* What is kept of a record whose waits and counts alone have changed.        *)
LEMMA AsksOn ==
    ASSUME NEW k \in Records, NEW q, NEW known, Asks(k, known),
           q.check = k.check, q.todo = k.todo, q.probe = k.probe, q.host = k.host,
           q.given = k.given, q.asked = k.asked, q.spoke = k.spoke, q.met = k.met
    PROVE  Asks(q, known) /\ Asking(q) = Asking(k)
BY DEF Asks, Underway, Heard, Asking

LEMMA runPSErrSane ==
    ASSUME NEW k \in Records, Asks(k, hosts)
    PROVE  Sane(runPSErr(k), hosts)
<1>1. CASE k.host \notin hosts \/ k.host \in dead
      BY <1>1, ErrorSane DEF runPSErr
<1>2. CASE ~(k.host \notin hosts \/ k.host \in dead)
  <2> DEFINE q == [k EXCEPT !.pc = "call", !.tries = 1, !.blanks = 1]
  <2>1. /\ q.pc = "call" /\ q.check = k.check /\ q.todo = k.todo /\ q.probe = k.probe
        /\ q.host = k.host /\ q.given = k.given /\ q.asked = k.asked
        /\ q.spoke = k.spoke /\ q.met = k.met
        BY DEF Records
  <2>2. q \in Records
        BY Values DEF Records
  <2> HIDE DEF q
  <2>3. Sane(q, hosts)
        BY <2>1, <2>2, AsksOn DEF Sane, Busy, Waiting
  <2> QED BY <1>2, <2>3 DEF runPSErr, q
<1> QED BY <1>1, <1>2

(* The next probe: it speaks, or it is one of those that open the check.      *)
LEMMA AskSane ==
    ASSUME NEW k \in Records, Underway(k), k.given,
           NEW p \in DOMAIN Probes(k.check), NEW h \in Hosts,
           Heard(k) \/ p \in Opening(k.check),
           (k.asked => Heard(k)) \/ (Probes(k.check)[p].guarded => h \in hosts)
    PROVE  Sane(Ask(k, p, h), hosts)
<1>1. CASE Probes(k.check)[p].guarded /\ h \notin hosts
      BY <1>1, ReadySane DEF Ask
<1>2. CASE ~(Probes(k.check)[p].guarded /\ h \notin hosts)
  <2> DEFINE q == [k EXCEPT !.probe = p, !.host = h, !.rounds = 1, !.heard = None,
                            !.asked = TRUE]
  <2>1. /\ q.check = k.check /\ q.todo = k.todo /\ q.probe = p /\ q.host = h
        /\ q.given = k.given /\ q.asked = TRUE /\ q.spoke = k.spoke /\ q.met = k.met
        BY DEF Records
  <2>2. p \in ProbeNames
        BY Named DEF Underway
  <2>3. q \in Records
        BY <2>2, Values DEF Records
  <2> HIDE DEF q
  <2>4. Asks(q, hosts)
        BY <1>2, <2>1 DEF Asks, Underway, Heard, Asking
  <2>5. Sane(runPSErr(q), hosts)
        BY <2>3, <2>4, runPSErrSane
  <2> QED BY <1>2, <2>5 DEF Ask, q
<1> QED BY <1>1, <1>2

(* What the form makes of an output: another round, or an answer that is the  *)
(* output itself or an error.                                                 *)
LEMMA ReadSane ==
    ASSUME NEW k \in Records, NEW known, Asks(k, known),
           NEW out \in Outputs(Asking(k)), k.heard = out,
           out = "blank" => k.blanks = Retries
    PROVE  Sane(Read(k, out), known)
<1> DEFINE probe == Asking(k)
<1>1. CASE Inconclusive(probe, out) /\ k.rounds < Retries
  <2> DEFINE q == [k EXCEPT !.pc = "backoff", !.tries = 0, !.blanks = 0]
  <2>1. /\ q.pc = "backoff" /\ q.check = k.check /\ q.todo = k.todo /\ q.probe = k.probe
        /\ q.host = k.host /\ q.given = k.given /\ q.asked = k.asked
        /\ q.spoke = k.spoke /\ q.met = k.met /\ q.heard = k.heard /\ q.rounds = k.rounds
        BY DEF Records
  <2>2. q \in Records
        BY Values DEF Records
  <2>3. probe.form = "marked" => out \in {"blank", "noise"} \cap DOMAIN probe.out
        BY <1>1 DEF Inconclusive, Outputs
  <2> HIDE DEF q
  <2>4. Asks(q, known) /\ Asking(q) = probe
        BY <2>1, AsksOn
  <2>5. Sane(q, known)
        BY <1>1, <2>1, <2>2, <2>3, <2>4 DEF Sane, Busy, Waiting
  <2> QED BY <1>1, <2>5 DEF Read, q
<1>2. CASE ~(Inconclusive(probe, out) /\ k.rounds < Retries)
  <2>1. CASE probe.form \in {"json", "sql"} /\ out \in {"blank", "noise"}
    <3>1. Reading(probe, out) = "error"
          BY <2>1 DEF Reading
    <3> QED BY <1>2, <3>1, ErrorSane DEF Read
  <2>2. CASE ~(probe.form \in {"json", "sql"} /\ out \in {"blank", "noise"})
    <3>1. Reading(probe, out) = out /\ out \in DOMAIN probe.out
          BY <2>2 DEF Reading, Outputs
    <3>2. k.rounds \in 0..Retries
          BY DEF Records, Rounds
    <3>3. out \in probe.negative => k.rounds = Retries
      <4>1. probe.form # "must" => probe.negative = {}
            BY HonestAssumption DEF Asks, Underway, Asking
      <4>2. probe.form = "must" /\ out \in probe.negative => Inconclusive(probe, out)
            BY DEF Inconclusive
      <4> QED BY <1>2, <3>2, <4>1, <4>2, BoundsAssumption
    <3>4. Evidence(k, out)
          BY <3>3 DEF Evidence
    <3>5. Sane(Answered(k, out), known)
          BY <3>1, <3>4, AnsweredSane
    <3> QED BY <1>2, <3>1, <3>5 DEF Read
  <2> QED BY <2>1, <2>2
<1> QED BY <1>1, <1>2

LEMMA OutputsSaid ==
    ASSUME NEW k \in Records, NEW known, Asks(k, known)
    PROVE  Outputs(Asking(k)) \subseteq Said
<1>1. DOMAIN Asking(k).out \subseteq Said
      BY Named DEF Asks, Underway, Asking
<1> QED BY <1>1 DEF Outputs, Said

LEMMA ReceivedSane ==
    ASSUME NEW k \in Records, NEW known, Asks(k, known), NEW out \in Outputs(Asking(k))
    PROVE  Sane(Received(k, out), known)
<1> DEFINE r == [k EXCEPT !.heard = out]
           q == [k EXCEPT !.pc = "settle", !.heard = out]
<1>1. out \in Said
      BY OutputsSaid
<1>2. /\ r.check = k.check /\ r.todo = k.todo /\ r.probe = k.probe
      /\ r.host = k.host /\ r.given = k.given /\ r.asked = k.asked
      /\ r.spoke = k.spoke /\ r.met = k.met /\ r.heard = out /\ r.blanks = k.blanks
      /\ r \in Records
      BY <1>1, Values DEF Records
<1>3. /\ q.pc = "settle" /\ q.check = k.check /\ q.todo = k.todo /\ q.probe = k.probe
      /\ q.host = k.host /\ q.given = k.given /\ q.asked = k.asked
      /\ q.spoke = k.spoke /\ q.met = k.met /\ q.blanks = k.blanks
      /\ q \in Records
      BY <1>1, Values DEF Records
<1>4. k.blanks \in 0..Retries
      BY DEF Records, Rounds
<1>5. CASE out = "blank" /\ k.blanks < Retries
  <2> HIDE DEF q
  <2>1. Asks(q, known)
        BY <1>3, AsksOn
  <2>2. Sane(q, known)
        BY <1>3, <1>5, <2>1 DEF Sane, Busy, Waiting
  <2> QED BY <1>5, <2>2 DEF Received, q
<1>6. CASE ~(out = "blank" /\ k.blanks < Retries)
  <2> HIDE DEF r
  <2>1. Asks(r, known) /\ Asking(r) = Asking(k)
        BY <1>2, AsksOn
  <2>2. out = "blank" => r.blanks = Retries
        BY <1>2, <1>4, <1>6, BoundsAssumption
  <2>3. Sane(Read(r, out), known)
        BY <1>2, <2>1, <2>2, ReadSane
  <2> QED BY <1>6, <2>3 DEF Received, r
<1> QED BY <1>5, <1>6

LEMMA CutShortSane ==
    ASSUME NEW k, NEW known, Sane(k, known), k.pc = "backoff"
    PROVE  Sane(CutShort(k), known)
<1>1. k \in Records /\ Asks(k, known)
      BY DEF Sane, Busy, Waiting
<1>2. CASE Asking(k).form = "marked"
  <2>1. k.heard \in {"blank", "noise"} \cap DOMAIN Asking(k).out
        BY <1>2 DEF Sane
  <2>2. Evidence(k, k.heard)
        BY <1>1, <1>2, <2>1, HonestAssumption DEF Evidence, Asks, Underway, Asking
  <2>3. Sane(Answered(k, k.heard), known)
        BY <1>1, <2>1, <2>2, AnsweredSane
  <2> QED BY <1>2, <2>3 DEF CutShort
<1>3. CASE Asking(k).form # "marked"
      BY <1>1, <1>3, ErrorSane DEF CutShort
<1> QED BY <1>2, <1>3

------------------------------------------------------------------------------
LEMMA BegunSane ==
    ASSUME NEW c \in DOMAIN Table \cup {None}, NEW items \in Items(c), NEW known
    PROVE  /\ Sane(Begun(c, items), known)
           /\ Begun(c, items).pc \in {"ready", "done"}
<1> DEFINE q == Begun(c, items)
<1>1. /\ q.check = c /\ q.todo = items /\ q.pc = (IF c = None THEN "done" ELSE "ready")
      /\ q.given = (items # <<>>) /\ q.asked = FALSE /\ q.spoke = FALSE /\ q.met = FALSE
      BY DEF Begun
<1>2. items \in Seq(ProbeNames)
  <2>1. CASE items = <<>>
        BY <2>1
  <2>2. CASE items # <<>>
    <3>1. c \in DOMAIN Table /\ items = Table[c].entries
          BY <2>2 DEF Items
    <3>2. Opening(c) \subseteq ProbeNames /\ items \in Seq(Opening(c))
          BY <3>1, OpeningOpens DEF Opens, ProbeNames
    <3> QED BY <3>2
  <2> QED BY <2>1, <2>2
<1>3. q \in Records
  <2>1. q.pc \in Pcs
        BY <1>1, Values
  <2> QED BY <1>2, <2>1, Values DEF Begun, Records
<1>4. c # None => c \in DOMAIN Table /\ items \in Seq(Opening(c))
  <2> SUFFICES ASSUME c # None PROVE c \in DOMAIN Table /\ items \in Seq(Opening(c))
      OBVIOUS
  <2>1. c \in DOMAIN Table /\ items \in {<<>>, Table[c].entries}
        BY DEF Items
  <2>2. Table[c].entries \in Seq(Opening(c))
        BY <2>1, OpeningOpens DEF Opens
  <2>3. <<>> \in Seq(Opening(c))
        OBVIOUS
  <2> QED BY <2>1, <2>2, <2>3
<1> HIDE DEF q
<1>5. c # None => Underway(q)
      BY <1>1, <1>4 DEF Underway
<1>6. Sane(q, known)
      BY <1>1, <1>3, <1>5 DEF Sane, Busy, Waiting
<1> QED BY <1>1, <1>6 DEF q

LEMMA InitIInv == Init => IInv
<1> SUFFICES ASSUME Init PROVE IInv
    OBVIOUS
<1>1. PICK plan \in Plans : \E items \in [Workers -> UNION {Items(plan[w]) : w \in Workers}] :
          /\ \A w \in Workers : items[w] \in Items(plan[w])
          /\ work = [w \in Workers |-> Begun(plan[w], items[w])]
      BY DEF Init
<1>2. PICK items \in [Workers -> UNION {Items(plan[w]) : w \in Workers}] :
          /\ \A w \in Workers : items[w] \in Items(plan[w])
          /\ work = [w \in Workers |-> Begun(plan[w], items[w])]
      BY <1>1
<1>3. \A w \in Workers : plan[w] \in DOMAIN Table \cup {None}
      BY TableAssumption DEF Plans
<1>4. \A w \in Workers : Sane(work[w], hosts) /\ work[w].pc \in {"ready", "done"}
      BY <1>2, <1>3, BegunSane
<1>5. work \in [Workers -> Records]
  <2>1. \A w \in Workers : work[w] \in Records
        BY <1>4 DEF Sane
  <2>2. work = [w \in Workers |-> work[w]]
        BY <1>2
  <2> QED BY <2>1, <2>2
<1>6. StateOK
  <2>1. failures = [h \in Hosts |-> 0] /\ 0 \in 0..DeadThreshold
        BY BoundsAssumption DEF Init
  <2>2. failures \in [Hosts -> 0..DeadThreshold]
        BY <2>1
  <2> QED BY <2>2 DEF StateOK, Init
<1> QED BY <1>4, <1>5, <1>6 DEF IInv

------------------------------------------------------------------------------
(* A step of one worker keeps the invariant when the record it leaves is sane.*)
LEMMA StepIInv ==
    ASSUME IInv, NEW w \in Workers, NEW k, phase = "checks", Step(w, k), Sane(k, hosts),
           failures' \in [Hosts -> 0..DeadThreshold], dead' \subseteq Hosts, failed' \in BOOLEAN
    PROVE  IInv'
<1>1. StateOK' /\ hosts' = hosts /\ phase' = "checks"
      BY DEF IInv, StateOK, Step
<1>2. k \in Records
      BY DEF Sane
<1>3. work' \in [Workers -> Records]
      BY <1>2 DEF IInv, Step
<1>4. ASSUME NEW v \in Workers PROVE Sane(work'[v], hosts')
  <2>1. CASE v = w
        BY <1>1, <2>1 DEF IInv, Step
  <2>2. CASE v # w
        BY <1>1, <2>2 DEF IInv, Step
  <2> QED BY <2>1, <2>2
<1> QED BY <1>1, <1>3, <1>4 DEF IInv

(* The record of a worker that takes a turn.                                  *)
LEMMA AtWork ==
    ASSUME IInv, NEW w \in Workers, NEW pc, Turn(w, pc)
    PROVE  /\ phase = "checks" /\ work[w] \in Records /\ work[w].pc = pc
           /\ Sane(work[w], hosts)
           /\ pc \in Busy => Asks(work[w], hosts)
BY DEF IInv, Turn, Sane

LEMMA Unmoved ==
    ASSUME IInv, UNCHANGED <<failures, dead>>
    PROVE  failures' \in [Hosts -> 0..DeadThreshold] /\ dead' \subseteq Hosts
BY DEF IInv, StateOK

LEMMA NextItemIInv ==
    ASSUME IInv, NEW w \in Workers, NextItem(w) PROVE IInv'
<1> DEFINE k == work[w]
<1>1. Turn(w, "ready") /\ k.todo # <<>> /\ UNCHANGED <<failures, dead, failed>>
      BY DEF NextItem
<1>2. PICK h \in Hosts : Step(w, Ask([k EXCEPT !.todo = Tail(@)], Head(k.todo), h))
      BY DEF NextItem
<1>3. k \in Records /\ phase = "checks" /\ Underway(k) /\ (k.asked => Heard(k))
      BY <1>1, AtWork DEF Sane
<1> DEFINE q == [k EXCEPT !.todo = Tail(@)]
<1>4. /\ Head(k.todo) \in Opening(k.check) /\ Head(k.todo) \in DOMAIN Probes(k.check)
      /\ Tail(k.todo) \in Seq(Opening(k.check)) /\ Tail(k.todo) \in Seq(ProbeNames)
      BY <1>1, <1>3, OpeningNamed DEF Underway
<1>5. /\ q.todo = Tail(k.todo) /\ q.check = k.check /\ q.given = k.given /\ q.asked = k.asked
      /\ q.spoke = k.spoke /\ q.met = k.met
      /\ q \in Records
      BY <1>3, <1>4 DEF Records
<1> HIDE DEF q
<1>6. Underway(q) /\ q.given /\ (q.asked => Heard(q))
      BY <1>1, <1>3, <1>4, <1>5 DEF Underway, Heard
<1>7. Sane(Ask(q, Head(k.todo), h), hosts)
      BY <1>4, <1>5, <1>6, AskSane
<1>8. Step(w, Ask(q, Head(k.todo), h))
      BY <1>2 DEF q
<1>9. failed' \in BOOLEAN
      BY <1>1 DEF IInv, StateOK
<1> QED BY <1>1, <1>3, <1>7, <1>8, <1>9, Unmoved, StepIInv

LEMMA EndCheckIInv ==
    ASSUME IInv, NEW w \in Workers, EndCheck(w) PROVE IInv'
<1> DEFINE k == work[w]
           closes == Table[k.check].closing # <<>> /\ k.given /\ ~k.met
           said == k.spoke \/ closes \/ (Table[k.check].skips /\ ~k.given)
           q == [k EXCEPT !.pc = "done", !.spoke = said]
<1>1. /\ Turn(w, "ready") /\ k.todo = <<>> /\ UNCHANGED <<failures, dead>>
      /\ Step(w, q)
      /\ failed' = (failed \/ (closes /\ Table[k.check].closing = <<"FAIL">>))
      BY DEF EndCheck
<1>2. k \in Records /\ phase = "checks" /\ Underway(k) /\ (k.asked => Heard(k))
      BY <1>1, AtWork DEF Sane
<1>3. k.asked => said \/ k.check \in Silent
      BY <1>2 DEF Underway, Heard
<1>4. said \in BOOLEAN
      OBVIOUS
<1> HIDE DEF said
<1>5. /\ q.pc = "done" /\ q.check = k.check /\ q.asked = k.asked /\ q.spoke = said
      /\ q \in Records
      BY <1>2, <1>4, Values DEF Records
<1> HIDE DEF q
<1>6. Sane(q, hosts)
      BY <1>3, <1>5 DEF Sane, Busy, Waiting
<1>7. failed' \in BOOLEAN
      BY <1>1 DEF IInv, StateOK
<1> QED BY <1>1, <1>2, <1>6, <1>7, Unmoved, StepIInv

LEMMA CallSucceedsIInv ==
    ASSUME IInv, NEW w \in Workers, CallSucceeds(w) PROVE IInv'
<1> DEFINE k == work[w]
<1>1. /\ Turn(w, "call") /\ failures' = [failures EXCEPT ![k.host] = 0]
      /\ UNCHANGED <<dead, failed>>
      BY DEF CallSucceeds
<1>2. PICK out \in Outputs(Asking(k)) : Step(w, Received(k, out))
      BY DEF CallSucceeds
<1>3. k \in Records /\ phase = "checks" /\ Asks(k, hosts)
      BY <1>1, AtWork DEF Busy
<1>4. Sane(Received(k, out), hosts)
      BY <1>3, ReceivedSane
<1>5. failures' \in [Hosts -> 0..DeadThreshold] /\ dead' \subseteq Hosts /\ failed' \in BOOLEAN
  <2>1. 0 \in 0..DeadThreshold
        BY BoundsAssumption
  <2> QED BY <1>1, <2>1 DEF IInv, StateOK
<1> HIDE DEF k
<1> QED BY <1>2, <1>3, <1>4, <1>5, StepIInv

LEMMA CallFailsIInv ==
    ASSUME IInv, NEW w \in Workers, CallFails(w) PROVE IInv'
<1> DEFINE k == work[w]
<1>1. Turn(w, "call") /\ UNCHANGED failed
      BY DEF CallFails
<1>2. k \in Records /\ phase = "checks" /\ Asks(k, hosts)
      BY <1>1, AtWork DEF Busy
<1>3. failed' \in BOOLEAN
      BY <1>1 DEF IInv, StateOK
<1>4. CASE k.tries < Attempts
  <2> DEFINE q == [k EXCEPT !.pc = "sleep"]
  <2>1. Step(w, q) /\ UNCHANGED <<failures, dead>>
        BY <1>4 DEF CallFails
  <2>2. /\ q.pc = "sleep" /\ q.check = k.check /\ q.todo = k.todo /\ q.probe = k.probe
        /\ q.host = k.host /\ q.given = k.given /\ q.asked = k.asked
        /\ q.spoke = k.spoke /\ q.met = k.met /\ q.tries = k.tries
        /\ q \in Records
        BY <1>2, Values DEF Records
  <2> HIDE DEF q
  <2>3. Sane(q, hosts)
        BY <1>2, <1>4, <2>2, AsksOn DEF Sane, Busy, Waiting
  <2> HIDE DEF k
  <2> QED BY <1>2, <1>3, <2>1, <2>3, Unmoved, StepIInv
<1>5. CASE ~(k.tries < Attempts)
  <2>1. /\ Step(w, Answered(k, "error"))
        /\ failures' = [failures EXCEPT ![k.host] = IF @ < DeadThreshold THEN @ + 1 ELSE @]
        /\ dead' = IF failures[k.host] + 1 >= DeadThreshold THEN dead \cup {k.host} ELSE dead
        BY <1>5 DEF CallFails
  <2>2. Sane(Answered(k, "error"), hosts)
        BY <1>2, ErrorSane
  <2>3. k.host \in Hosts
        BY <1>2 DEF Asks
  <2>4. failures' \in [Hosts -> 0..DeadThreshold] /\ dead' \subseteq Hosts
        BY <2>1, <2>3, BoundsAssumption DEF IInv, StateOK
  <2> HIDE DEF k
  <2> QED BY <1>2, <1>3, <2>1, <2>2, <2>4, StepIInv
<1> QED BY <1>4, <1>5

LEMMA WakeIInv ==
    ASSUME IInv, NEW w \in Workers, Wake(w) PROVE IInv'
<1> DEFINE k == work[w]
<1>1. UNCHANGED <<failures, dead, failed>>
      BY DEF Wake
<1>2. failures' \in [Hosts -> 0..DeadThreshold] /\ dead' \subseteq Hosts /\ failed' \in BOOLEAN
      BY <1>1 DEF IInv, StateOK
<1>3. CASE Turn(w, "sleep") /\ Step(w, [k EXCEPT !.pc = "call", !.tries = @ + 1])
  <2> DEFINE q == [k EXCEPT !.pc = "call", !.tries = @ + 1]
  <2>1. k \in Records /\ phase = "checks" /\ Asks(k, hosts) /\ k.tries < Attempts
        BY <1>3, AtWork DEF Sane, Busy, Waiting
  <2>2. k.tries + 1 \in Tries
        BY <2>1, BoundsAssumption DEF Records, Tries
  <2>3. /\ q.pc = "call" /\ q.check = k.check /\ q.todo = k.todo /\ q.probe = k.probe
        /\ q.host = k.host /\ q.given = k.given /\ q.asked = k.asked
        /\ q.spoke = k.spoke /\ q.met = k.met
        /\ q \in Records
        BY <2>1, <2>2, Values DEF Records
  <2>4. Step(w, q)
        BY <1>3
  <2> HIDE DEF q
  <2>5. Sane(q, hosts)
        BY <2>1, <2>3, AsksOn DEF Sane, Busy, Waiting
  <2> HIDE DEF k
  <2> QED BY <1>2, <2>1, <2>4, <2>5, StepIInv
<1>4. CASE Turn(w, "settle") /\ Step(w, [k EXCEPT !.pc = "call", !.tries = 1, !.blanks = @ + 1])
  <2> DEFINE q == [k EXCEPT !.pc = "call", !.tries = 1, !.blanks = @ + 1]
  <2>1. k \in Records /\ phase = "checks" /\ Asks(k, hosts) /\ k.blanks < Retries
        BY <1>4, AtWork DEF Sane, Busy, Waiting
  <2>2. k.blanks + 1 \in Rounds
        BY <2>1, BoundsAssumption DEF Records, Rounds
  <2>3. /\ q.pc = "call" /\ q.check = k.check /\ q.todo = k.todo /\ q.probe = k.probe
        /\ q.host = k.host /\ q.given = k.given /\ q.asked = k.asked
        /\ q.spoke = k.spoke /\ q.met = k.met
        /\ q \in Records
        BY <2>1, <2>2, Values DEF Records
  <2>4. Step(w, q)
        BY <1>4
  <2> HIDE DEF q
  <2>5. Sane(q, hosts)
        BY <2>1, <2>3, AsksOn DEF Sane, Busy, Waiting
  <2> HIDE DEF k
  <2> QED BY <1>2, <2>1, <2>4, <2>5, StepIInv
<1>5. CASE Turn(w, "backoff") /\ Step(w, runPSErr([k EXCEPT !.rounds = @ + 1]))
  <2> DEFINE q == [k EXCEPT !.rounds = @ + 1]
  <2>1. k \in Records /\ phase = "checks" /\ Asks(k, hosts) /\ k.rounds < Retries
        BY <1>5, AtWork DEF Sane, Busy, Waiting
  <2>2. k.rounds + 1 \in Rounds
        BY <2>1, BoundsAssumption DEF Records, Rounds
  <2>3. /\ q.check = k.check /\ q.todo = k.todo /\ q.probe = k.probe
        /\ q.host = k.host /\ q.given = k.given /\ q.asked = k.asked
        /\ q.spoke = k.spoke /\ q.met = k.met
        /\ q \in Records
        BY <2>1, <2>2, Values DEF Records
  <2>4. Step(w, runPSErr(q))
        BY <1>5
  <2> HIDE DEF q
  <2>5. Sane(runPSErr(q), hosts)
        BY <2>1, <2>3, AsksOn, runPSErrSane
  <2> HIDE DEF k
  <2> QED BY <1>2, <2>1, <2>4, <2>5, StepIInv
<1> QED BY <1>3, <1>4, <1>5 DEF Wake

LEMMA WakeCancelledIInv ==
    ASSUME IInv, NEW w \in Workers, WakeCancelled(w) PROVE IInv'
<1> DEFINE k == work[w]
<1>1. UNCHANGED <<failures, dead, failed>>
      BY DEF WakeCancelled
<1>2. failures' \in [Hosts -> 0..DeadThreshold] /\ dead' \subseteq Hosts /\ failed' \in BOOLEAN
      BY <1>1 DEF IInv, StateOK
<1>3. CASE (Turn(w, "sleep") \/ Turn(w, "settle")) /\ Step(w, Answered(k, "error"))
  <2>1. k \in Records /\ phase = "checks" /\ Asks(k, hosts)
        BY <1>3, AtWork DEF Busy, Waiting
  <2>2. Sane(Answered(k, "error"), hosts)
        BY <2>1, ErrorSane
  <2> HIDE DEF k
  <2> QED BY <1>2, <1>3, <2>1, <2>2, StepIInv
<1>4. CASE Turn(w, "backoff") /\ Step(w, CutShort(k))
  <2>1. phase = "checks" /\ Sane(CutShort(k), hosts)
        BY <1>4, AtWork, CutShortSane
  <2> HIDE DEF k
  <2> QED BY <1>2, <1>4, <2>1, StepIInv
<1> QED BY <1>3, <1>4 DEF WakeCancelled

(* The answer's results, and the probe that follows: a probe that added none  *)
(* has another to follow it, unless the check need not speak.                 *)
LEMMA addResultIInv ==
    ASSUME IInv, NEW w \in Workers, addResult(w) PROVE IInv'
<1> DEFINE k     == work[w]
           probe == Asking(k)
           added == probe.out[k.answer]
           spoke == k.spoke \/ added # <<>>
           met   == k.met \/ (k.probe \in Table[k.check].passed
                              /\ \E i \in DOMAIN added : added[i] = "PASS")
           told  == [k EXCEPT !.spoke = spoke, !.met = met]
<1>1. /\ Turn(w, "answered") /\ UNCHANGED <<failures, dead>>
      /\ failed' = (failed \/ \E i \in DOMAIN added : added[i] = "FAIL")
      /\ Step(w, IF k.answer \in DOMAIN probe.then
                 THEN Ask(told, probe.then[k.answer], k.host) ELSE Ready(told))
      BY DEF addResult
<1>2. /\ k \in Records /\ phase = "checks" /\ Asks(k, hosts)
      /\ k.answer \in DOMAIN probe.out
      BY <1>1, AtWork DEF Sane, Busy
<1>3. met => spoke
      BY <1>2 DEF Asks, Underway
<1>4. spoke \in BOOLEAN /\ met \in BOOLEAN /\ (spoke <=> k.spoke \/ added # <<>>)
      OBVIOUS
<1> HIDE DEF spoke, met
<1>5. /\ told.check = k.check /\ told.todo = k.todo /\ told.given = k.given
      /\ told.asked = k.asked /\ told.spoke = spoke /\ told.met = met
      /\ told \in Records
      BY <1>2, <1>4 DEF Records
<1> HIDE DEF told
<1>6. Underway(told) /\ told.given /\ told.asked
      BY <1>2, <1>3, <1>5 DEF Asks, Underway
<1>7. Opening(k.check) \subseteq DOMAIN Probes(k.check) /\ Opens(k.check, Opening(k.check))
      BY <1>2, OpeningOpens DEF Asks, Underway
<1>8. CASE k.answer \in DOMAIN probe.then
  <2> DEFINE next == probe.then[k.answer]
  <2>1. next \in DOMAIN Probes(k.check)
        BY <1>2, <1>8, TableAssumption DEF Asks, Underway, Asking
  <2>2. Heard(told) \/ (next \in Opening(k.check) /\ (Probes(k.check)[next].guarded => k.host \in hosts))
    <3> SUFFICES ASSUME ~Heard(told)
                 PROVE  next \in Opening(k.check) /\ (Probes(k.check)[next].guarded => k.host \in hosts)
        OBVIOUS
    <3>1. added = <<>> /\ ~Heard(k)
          BY <1>4, <1>5 DEF Heard
    <3>2. k.probe \in Opening(k.check)
          BY <1>2, <3>1 DEF Asks
    <3>3. next \in Opening(k.check) /\ (probe.guarded \/ ~Probes(k.check)[next].guarded)
          BY <1>2, <1>7, <3>1, <3>2 DEF Opens, Heard, Asking
    <3> QED BY <1>2, <3>3 DEF Asks
  <2> HIDE DEF next
  <2>3. Sane(Ask(told, next, k.host), hosts)
    <3>1. k.host \in Hosts
          BY <1>2 DEF Asks
    <3> QED BY <1>5, <1>6, <2>1, <2>2, <3>1, AskSane
  <2>4. Step(w, Ask(told, next, k.host))
        BY <1>1, <1>8 DEF next
  <2>5. failed' \in BOOLEAN
        BY <1>1 DEF IInv, StateOK
  <2> HIDE DEF k
  <2> QED BY <1>1, <1>2, <2>3, <2>4, <2>5, Unmoved, StepIInv
<1>9. CASE k.answer \notin DOMAIN probe.then
  <2>1. Heard(told)
    <3> SUFFICES ASSUME ~Heard(told) PROVE FALSE
        OBVIOUS
    <3>1. added = <<>> /\ ~Heard(k)
          BY <1>4, <1>5 DEF Heard
    <3>2. k.probe \in Opening(k.check)
          BY <1>2, <3>1 DEF Asks
    <3> QED BY <1>2, <1>7, <1>9, <3>1, <3>2 DEF Opens, Heard, Asking
  <2>2. Sane(Ready(told), hosts)
        BY <1>5, <1>6, <2>1, ReadySane
  <2>3. Step(w, Ready(told)) /\ failed' \in BOOLEAN
        BY <1>1, <1>9 DEF IInv, StateOK
  <2> HIDE DEF k
  <2> QED BY <1>1, <1>2, <2>2, <2>3, Unmoved, StepIInv
<1> QED BY <1>8, <1>9

(* Before the hosts are known no worker asks, so the hosts found disturb no   *)
(* record.                                                                    *)
LEMMA DiscoverHostsIInv ==
    ASSUME IInv, DiscoverHosts PROVE IInv'
<1>1. hosts' \subseteq Hosts /\ StateOK' /\ work' = work /\ phase' \in {"checks", "done"}
      BY DEF IInv, StateOK, DiscoverHosts
<1>2. ASSUME NEW w \in Workers PROVE Sane(work[w], hosts')
  <2>1. work[w].pc \in {"ready", "done"} /\ Sane(work[w], hosts)
        BY DEF IInv, DiscoverHosts
  <2> QED BY <2>1 DEF Sane, Busy, Waiting
<1> QED BY <1>1, <1>2 DEF IInv

LEMMA NextIInv == IInv /\ [Next]_vars => IInv'
<1> SUFFICES ASSUME IInv, [Next]_vars PROVE IInv'
    OBVIOUS
<1>1. CASE DiscoverHosts
      BY <1>1, DiscoverHostsIInv
<1>2. CASE Interrupt
      BY <1>2 DEF Interrupt, IInv, StateOK
<1>3. CASE runGOADValidate
      BY <1>3 DEF runGOADValidate, IInv, StateOK
<1>4. ASSUME NEW w \in Workers, Worker(w) PROVE IInv'
      BY <1>4, NextItemIInv, EndCheckIInv, CallSucceedsIInv, CallFailsIInv, WakeIInv,
         WakeCancelledIInv, addResultIInv DEF Worker
<1>5. CASE UNCHANGED vars
      BY <1>5 DEF vars, IInv, StateOK
<1> QED BY <1>1, <1>2, <1>3, <1>4, <1>5 DEF Next

LEMMA Invariance == Spec => []IInv
BY InitIInv, NextIInv, PTL DEF Spec

------------------------------------------------------------------------------
(* For every table that satisfies the assumptions, any lab and any bounds: a  *)
(* PASS or a FAIL rests on what the host said, an empty answer was given as   *)
(* often as a settling host is allowed, and an absence was found in every     *)
(* round (runPSErr, retryMustExist).                                          *)
THEOREM VerdictsRestOnAnswers == Spec => []VerdictEvidenced
<1>1. IInv => VerdictEvidenced
      BY DEF IInv, Sane, Evidence, VerdictEvidenced, Busy
<1> QED BY Invariance, <1>1, PTL

(* The types, and: a check that asked a host says what became of it           *)
(* (runChecks, addResult, backoffSleep).                                      *)
THEOREM NoCheckFallsSilent == Spec => []NothingDropped
<1>1. ASSUME IInv PROVE TypeOK
  <2>1. ASSUME NEW w \in Workers
        PROVE  /\ work[w].pc \in {"ready", "call", "sleep", "settle", "backoff", "answered", "done"}
               /\ work[w].tries \in 0..Attempts
               /\ work[w].blanks \in 0..Retries /\ work[w].rounds \in 0..Retries
               /\ work[w].pc = "answered" => work[w].answer \in DOMAIN Asking(work[w]).out
    <3>1. work[w] \in Records /\ Sane(work[w], hosts)
          BY <1>1 DEF IInv
    <3> QED BY <3>1, Values DEF Sane, Records, Tries, Rounds
  <2> QED BY <1>1, <2>1 DEF IInv, StateOK, TypeOK
<1>2. ASSUME IInv PROVE NothingDropped
      BY <1>1, <1>2 DEF IInv, Sane, NothingDropped
<1> QED BY Invariance, <1>2, PTL

------------------------------------------------------------------------------
(* The dashboard that shows a run of the checks (LiveDashboard).              *)
(* Appending to a sequence, and taking its head: what is where.               *)
LEMMA AppendIs ==
    ASSUME NEW S, NEW q \in Seq(S), NEW e \in S
    PROVE  /\ Append(q, e) \in Seq(S) /\ Len(Append(q, e)) = Len(q) + 1
           /\ \A i \in DOMAIN Append(q, e) :
                 \/ i \in DOMAIN q /\ Append(q, e)[i] = q[i]
                 \/ i = Len(q) + 1 /\ Append(q, e)[i] = e
           /\ \A i \in DOMAIN q : i \in DOMAIN Append(q, e) /\ Append(q, e)[i] = q[i]
OBVIOUS

Odd(n) == \E k \in Nat : n = 2 * k + 1

LEMMA OddIs ==
    ASSUME NEW k \in Nat
    PROVE  /\ Odd(2 * k + 1) /\ ~Odd(2 * k)
           /\ \A n \in Nat : n = 2 * k - 1 => Odd(n)
BY DEF Odd

(* Phase events are sent in turns: a pass begins, then it waits or is done.   *)
(* handled counts those that the program has taken, so that the ones in the   *)
(* channel are the next, and what runLoop has sent tells where it is.         *)
InTurn(handled) ==
    /\ handled \in Nat /\ handled \in {2 * iteration - 1, 2 * iteration}
    /\ \A i \in DOMAIN phases : phases[i] = "running" <=> Odd(handled + i)
    /\ handled + Len(phases) <= 2 * pass
    /\ loop \in {"reset", "announce"} => handled + Len(phases) = 2 * pass - 2
    /\ loop \in {"checks", "to_wait", "to_done"} => handled + Len(phases) = 2 * pass - 1
    /\ loop = "waiting" => handled + Len(phases) = 2 * pass

(* A one-shot run has one pass, whose results are shown, on their way or      *)
(* dropped.                                                                   *)
OnePass ==
    /\ pass = 1 /\ loop \notin {"reset", "to_wait", "waiting"}
    /\ \A i \in DOMAIN results : results[i] = 1
    /\ report[1] = shown[1] + Len(results) + dropped
    /\ \A p \in Pass \ {1} : report[p] = shown[p]

DashInv ==
    /\ LiveTypeOK /\ pass >= 1
    /\ \E handled \in Nat : InTurn(handled)
    /\ ~polling => OnePass
    /\ program = "returned" => loop = "closed"

LEMMA DashInit == ASSUME LiveInit PROVE DashInv
<1>1. LiveTypeOK /\ pass = 1
      BY ChannelsAssumption DEF ChannelsAssumption, LiveInit, LiveTypeOK, Pass, Nothing, Discovered
<1>2. InTurn(0)
      BY DEF LiveInit, InTurn
<1>3. OnePass
      BY <1>1 DEF LiveInit, OnePass, LiveTypeOK, Pass
<1> QED BY <1>1, <1>2, <1>3 DEF DashInv, LiveInit

(* An event is appended: it is "running" exactly when its turn is odd.        *)
(* An event is appended: it is "running" exactly when its turn is odd.        *)
(* An event is appended: it is "running" exactly when its turn is odd.        *)
(* An event is appended: it is "running" exactly when its turn is odd.        *)
LEMMA TailIs ==
    ASSUME NEW S, NEW q \in Seq(S), q # <<>>
    PROVE  /\ Tail(q) \in Seq(S) /\ Len(Tail(q)) = Len(q) - 1 /\ Len(q) \in Nat \ {0}
           /\ 1 \in DOMAIN q /\ Head(q) = q[1] /\ Head(q) \in S
           /\ \A i \in DOMAIN Tail(q) : i \in Nat /\ i + 1 \in DOMAIN q /\ Tail(q)[i] = q[i + 1]
OBVIOUS

(* An event is appended: it says running exactly when its turn is odd.        *)
LEMMA DashSends ==
    ASSUME DashInv, NEW event \in {"running", "waiting", "done"}, NEW next,
           sendPhase(event, next),
           <<loop, event, next>> \in {<<"announce", "running", "checks">>, <<"to_wait", "waiting", "waiting">>,
                                     <<"to_done", "done", "closed">>},
           UNCHANGED <<polling, pass, report, results, dropped, shown, iteration, finished,
                       stopped, program>>
    PROVE  DashInv'
<1>1. CASE stopped /\ loop' = "closed" /\ UNCHANGED phases
      BY ChannelsAssumption, <1>1 DEF DashInv, LiveTypeOK, ChannelsAssumption, InTurn, OnePass, Pass
<1>2. CASE Len(phases) < PhaseCapacity /\ phases' = Append(phases, event) /\ loop' = next
  <2>1. /\ phases' \in Seq({"running", "waiting", "done"}) /\ Len(phases') = Len(phases) + 1
        /\ \A i \in DOMAIN phases' :
              \/ i \in DOMAIN phases /\ phases'[i] = phases[i]
              \/ i = Len(phases) + 1 /\ phases'[i] = event
        BY <1>2, AppendIs DEF DashInv, LiveTypeOK
  <2>2. LiveTypeOK' /\ pass \in Nat /\ Len(phases) \in Nat
        BY ChannelsAssumption, <1>2, <2>1 DEF DashInv, LiveTypeOK, ChannelsAssumption, Pass
  <2>3. PICK r \in Nat : InTurn(r)
        BY DEF DashInv
  <2>4. r + Len(phases') = IF event = "running" THEN 2 * (pass - 1) + 1 ELSE 2 * pass
        BY <2>1, <2>2, <2>3 DEF InTurn
  <2>5. ASSUME NEW i \in DOMAIN phases'
        PROVE  phases'[i] = "running" <=> Odd(r + i)
    <3>1. Odd(r + Len(phases')) <=> event = "running"
          BY <2>2, <2>4, OddIs
    <3> QED BY <2>1, <2>3, <3>1 DEF InTurn
  <2>6. InTurn(r)'
        BY <1>2, <2>1, <2>2, <2>3, <2>4, <2>5 DEF InTurn
  <2>7. ~polling' => OnePass'
        BY <1>2 DEF DashInv, OnePass
  <2> QED BY <1>2, <2>2, <2>6, <2>7 DEF DashInv
<1> QED BY <1>1, <1>2 DEF sendPhase

(* The program takes the first event.  In a one-shot run none is the second   *)
(* that says running, so that nothing shown is cleared.                       *)
LEMMA DashTakes == ASSUME DashInv, applyPhase PROVE DashInv'
<1>1. PICK r \in Nat : InTurn(r)
      BY DEF DashInv
<1>2. /\ phases' \in Seq({"running", "waiting", "done"}) /\ Len(phases') = Len(phases) - 1
      /\ Len(phases) \in Nat \ {0} /\ 1 \in DOMAIN phases /\ Head(phases) = phases[1]
      /\ \A i \in DOMAIN phases' : i \in Nat /\ i + 1 \in DOMAIN phases /\ phases'[i] = phases[i + 1]
      BY TailIs DEF DashInv, LiveTypeOK, applyPhase
<1>3. UNCHANGED <<polling, loop, pass, report, results, dropped, stopped, program>>
      BY DEF applyPhase
<1>4. pass \in Nat /\ iteration \in Nat /\ MaxPasses \in Nat /\ pass <= MaxPasses
      BY ChannelsAssumption DEF DashInv, LiveTypeOK, ChannelsAssumption, Pass
<1>5. Head(phases) = "running" <=> r = 2 * iteration
  <2>1. Head(phases) = "running" <=> Odd(r + 1)
        BY <1>1, <1>2 DEF InTurn
  <2>2. CASE r = 2 * iteration
        BY <2>1, <2>2, <1>4, OddIs
  <2>3. CASE r = 2 * iteration - 1
    <3>1. r + 1 = 2 * iteration /\ r # 2 * iteration
          BY <2>3, <1>4
    <3> QED BY <2>1, <3>1, <1>4, OddIs
  <2> QED BY <1>1, <2>2, <2>3 DEF InTurn
<1>6. iteration' = IF Head(phases) = "running" THEN iteration + 1 ELSE iteration
      BY DEF applyPhase
<1>7. r + 1 \in {2 * iteration' - 1, 2 * iteration'}
      BY <1>1, <1>4, <1>5, <1>6 DEF InTurn
<1>8. iteration' \in Pass
      BY <1>1, <1>2, <1>4, <1>5, <1>6 DEF InTurn, Pass
<1>9. InTurn(r + 1)'
  <2>1. \A i \in DOMAIN phases' : phases'[i] = "running" <=> Odd(r + 1 + i)
    <3>1. \A i \in Nat : r + 1 + i = r + (i + 1)
          OBVIOUS
    <3> QED BY <1>1, <1>2, <3>1 DEF InTurn
  <2> QED BY <1>1, <1>2, <1>3, <1>4, <1>7, <2>1 DEF InTurn
<1>10. shown' \in [Pass -> Nat] /\ finished' \in BOOLEAN
  <2>1. Nothing \in [Pass -> Nat]
        BY DEF Nothing
  <2>2. shown' \in {shown, Nothing} /\ finished' \in BOOLEAN
        BY DEF DashInv, LiveTypeOK, applyPhase
  <2> QED BY <2>1, <2>2 DEF DashInv, LiveTypeOK
<1>11. ASSUME ~polling PROVE OnePass'
  <2>1. pass = 1 /\ OnePass
        BY <1>11 DEF DashInv, OnePass
  <2>2. Head(phases) = "running" => iteration = 0
        BY <2>1, <1>1, <1>2, <1>4, <1>5 DEF InTurn
  <2>3. shown' = shown
        BY <1>4, <2>2 DEF applyPhase
  <2> QED BY <2>1, <2>3, <1>3 DEF OnePass
<1>12. LiveTypeOK'
       BY ChannelsAssumption, <1>2, <1>3, <1>8, <1>10 DEF DashInv, LiveTypeOK, ChannelsAssumption
<1>13. r + 1 \in Nat
       OBVIOUS
<1> QED BY <1>3, <1>9, <1>11, <1>12, <1>13 DEF DashInv

(* A result goes on the report, and on the channel or nowhere.                *)
LEMMA DashAdds == ASSUME DashInv, addLiveResult PROVE DashInv'
<1>1. /\ pass \in Pass /\ pass \in Nat /\ report[pass] \in Nat
      /\ report' = [report EXCEPT ![pass] = report[pass] + 1]
      /\ report' \in [Pass -> Nat]
      /\ UNCHANGED <<polling, loop, pass, phases, shown, iteration, finished, stopped, program>>
  <2>1. pass \in Pass /\ pass \in Nat /\ report \in [Pass -> Nat] /\ report[pass] \in Nat
        BY ChannelsAssumption DEF DashInv, LiveTypeOK, ChannelsAssumption, Pass
  <2>2. report' = [report EXCEPT ![pass] = report[pass] + 1]
        BY DEF addLiveResult
  <2> QED BY <2>1, <2>2 DEF addLiveResult, model
<1>2. /\ results' \in Seq(Pass) /\ dropped' \in Nat /\ Len(results') <= Capacity
      /\ Len(results') \in Nat /\ Len(results) \in Nat /\ dropped \in Nat
      /\ Len(results') + dropped' = Len(results) + dropped + 1
      /\ \A i \in DOMAIN results' : (i \in DOMAIN results /\ results'[i] = results[i]) \/ results'[i] = pass
  <2>1. /\ results \in Seq(Pass) /\ dropped \in Nat /\ Len(results) <= Capacity /\ Len(results) \in Nat
        /\ Capacity \in Nat
        BY ChannelsAssumption DEF DashInv, LiveTypeOK, ChannelsAssumption
  <2>2. CASE Len(results) < Capacity /\ results' = Append(results, pass) /\ UNCHANGED dropped
    <3>1. /\ results' \in Seq(Pass) /\ Len(results') = Len(results) + 1
          /\ \A i \in DOMAIN results' : (i \in DOMAIN results /\ results'[i] = results[i]) \/ results'[i] = pass
          BY <1>1, <2>1, <2>2, AppendIs
    <3> QED BY <2>1, <2>2, <3>1
  <2>3. CASE dropped' = dropped + 1 /\ UNCHANGED results
        BY <2>1, <2>3
  <2> QED BY <2>2, <2>3 DEF addLiveResult
<1>3. LiveTypeOK' /\ \E handled \in Nat : InTurn(handled)'
      BY <1>1, <1>2 DEF DashInv, LiveTypeOK, InTurn
<1>4. ASSUME ~polling PROVE OnePass'
  <2>1. OnePass /\ pass = 1 /\ 1 \in Pass /\ LiveTypeOK
        BY <1>1, <1>4 DEF DashInv, OnePass
  <2>2. report'[1] = report[1] + 1 /\ \A p \in Pass \ {1} : report'[p] = report[p]
        BY <1>1, <2>1 DEF LiveTypeOK
  <2>3. report'[1] = shown'[1] + Len(results') + dropped'
    <3>1. shown[1] \in Nat /\ shown' = shown /\ report[1] = shown[1] + Len(results) + dropped
          BY <1>1, <2>1 DEF OnePass, LiveTypeOK
    <3>2. /\ Len(results') + dropped' = (Len(results) + dropped) + 1 /\ Len(results') \in Nat
          /\ dropped' \in Nat /\ Len(results) \in Nat /\ dropped \in Nat
          BY <1>2
    <3>3. shown'[1] = shown[1]
          BY <3>1
    <3>4. report'[1] = report[1] + 1
          BY <2>2
    <3> HIDE <1>1, <1>2
    <3> QED BY <3>1, <3>2, <3>3, <3>4
  <2> QED BY <1>1, <1>2, <2>1, <2>2, <2>3 DEF OnePass
<1> QED BY <1>1, <1>3, <1>4 DEF DashInv

(* The program takes the oldest result on the channel and counts it.          *)
LEMMA DashShows == ASSUME DashInv, applyResult PROVE DashInv'
<1>1. /\ results' \in Seq(Pass) /\ Len(results') = Len(results) - 1 /\ Len(results) \in Nat \ {0}
      /\ 1 \in DOMAIN results /\ Head(results) = results[1] /\ Head(results) \in Pass
      /\ \A i \in DOMAIN results' : i \in Nat /\ i + 1 \in DOMAIN results /\ results'[i] = results[i + 1]
      BY TailIs DEF DashInv, LiveTypeOK, applyResult
<1>2. /\ shown' = [shown EXCEPT ![Head(results)] = shown[Head(results)] + 1]
      /\ shown' \in [Pass -> Nat]
      /\ UNCHANGED <<polling, loop, pass, report, dropped, phases, iteration, finished, stopped, program>>
      BY <1>1 DEF DashInv, LiveTypeOK, applyResult
<1>3. LiveTypeOK' /\ \E handled \in Nat : InTurn(handled)'
  <2>1. Len(results') <= Capacity
        BY ChannelsAssumption, <1>1 DEF DashInv, LiveTypeOK, ChannelsAssumption
  <2> QED BY <1>1, <1>2, <2>1 DEF DashInv, LiveTypeOK, InTurn
<1>4. ASSUME ~polling PROVE OnePass'
  <2>1. OnePass /\ Head(results) = 1 /\ LiveTypeOK
        BY <1>1, <1>4 DEF DashInv, OnePass
  <2>2. shown'[1] = shown[1] + 1 /\ \A p \in Pass \ {1} : shown'[p] = shown[p]
        BY <1>1, <1>2, <2>1 DEF LiveTypeOK
  <2>3. report'[1] = shown'[1] + Len(results') + dropped'
        BY <1>1, <1>2, <2>1, <2>2 DEF OnePass, LiveTypeOK
  <2> QED BY <1>1, <1>2, <2>1, <2>2, <2>3 DEF OnePass
<1> QED BY <1>2, <1>3, <1>4 DEF DashInv

LEMMA DashNext == ASSUME DashInv, [LiveNext]_liveVars PROVE DashInv'
<1>1. CASE Reset
  <2>1. Nothing \in [Pass -> Nat]
        BY DEF Nothing
  <2> QED BY <1>1, <2>1 DEF Reset, queues, model, DashInv, LiveTypeOK, InTurn, OnePass
<1>2. CASE SendRunning
  <2>1. /\ loop = "announce" /\ sendPhase("running", "checks")
        /\ UNCHANGED <<polling, pass, report, results, dropped, shown, iteration, finished,
                       stopped, program>>
        BY <1>2 DEF SendRunning, model
  <2> QED BY <2>1, DashSends
<1>3. CASE addLiveResult
      BY <1>3, DashAdds
<1>4. CASE Ran
      BY <1>4 DEF Ran, queues, model, DashInv, LiveTypeOK, InTurn, OnePass
<1>5. CASE SendDone
      BY <1>5, DashSends DEF SendDone, model
<1>6. CASE SendWaiting
  <2>1. /\ loop = "to_wait" /\ sendPhase("waiting", "waiting")
        /\ UNCHANGED <<polling, pass, report, results, dropped, shown, iteration, finished,
                       stopped, program>>
        BY <1>6 DEF SendWaiting, model
  <2> QED BY <2>1, DashSends
<1>7. CASE PollAgain
  <2>1. polling
        BY <1>7 DEF PollAgain, DashInv, OnePass
  <2>2. pass' = pass + 1 /\ pass \in Nat /\ pass' \in Pass
        BY ChannelsAssumption, <1>7 DEF PollAgain, DashInv, LiveTypeOK, ChannelsAssumption, Pass
  <2>3. PICK r \in Nat : InTurn(r)
        BY DEF DashInv
  <2>4. InTurn(r)'
    <3>1. r + Len(phases) = 2 * pass /\ 2 * pass' - 2 = 2 * pass /\ 2 * pass <= 2 * pass'
          BY <1>7, <2>2, <2>3 DEF PollAgain, InTurn
    <3>2. loop' = "reset" /\ UNCHANGED <<phases, iteration>>
          BY <1>7 DEF PollAgain, queues, model
    <3> QED BY <2>3, <3>1, <3>2 DEF InTurn
  <2> QED BY <1>7, <2>1, <2>2, <2>4 DEF PollAgain, queues, model, DashInv, LiveTypeOK
<1>8. CASE WaitCancelled
      BY <1>8 DEF WaitCancelled, queues, model, DashInv, LiveTypeOK, InTurn, OnePass
<1>9. CASE applyResult
      BY <1>9, DashShows
<1>10. CASE applyPhase
       BY <1>10, DashTakes
<1>11. CASE phasesClosed
       BY <1>11 DEF phasesClosed, queues, DashInv, LiveTypeOK, InTurn, OnePass
<1>12. CASE RunTUI
       BY <1>12 DEF RunTUI, Signalled, Quit, CancelRun, RunTUIReturns,
                    queues, model, DashInv, LiveTypeOK, InTurn, OnePass
<1>13. CASE UNCHANGED liveVars
       BY <1>13 DEF liveVars, DashInv, LiveTypeOK, InTurn, OnePass
<1> QED BY <1>1, <1>2, <1>3, <1>4, <1>5, <1>6, <1>7, <1>8, <1>9, <1>10, <1>11, <1>12, <1>13
        DEF LiveNext, runLoop, Update

LEMMA DashInvariance == LiveSpec => []DashInv
BY DashInit, DashNext, PTL DEF LiveSpec

(* For any number of passes, results and any size of the channels: once what  *)
(* was sent is shown, a one-shot dashboard counts what is on the report, when *)
(* no update was dropped (runLoop, applyResult and applyPhase of tui.go).     *)
THEOREM OneShotIsExact == LiveSpec => []OneShotExact
<1>1. ASSUME DashInv PROVE OneShotExact
  <2>1. ASSUME ~polling, results = <<>>, dropped = 0 PROVE shown = report
        BY <1>1, <2>1, ChannelsAssumption DEF ChannelsAssumption, DashInv, OnePass, LiveTypeOK, Pass
  <2> QED BY <1>1, <2>1 DEF DashInv, OneShotExact
<1> QED BY DashInvariance, <1>1, PTL

(* No check adds to the report that RunTUI hands back (<-runDone).            *)
THEOREM SavedReportIsSettled == LiveSpec => ReportSettled
<1>1. ASSUME DashInv, [LiveNext]_liveVars
      PROVE  [program = "returned" => UNCHANGED report]_liveVars
      BY <1>1 DEF DashInv, liveVars, LiveNext, runLoop, Update, RunTUI, Reset,
         SendRunning, addLiveResult, Ran, SendDone, SendWaiting, PollAgain,
         WaitCancelled, applyResult, applyPhase, phasesClosed, Signalled,
         Quit, CancelRun, RunTUIReturns, queues
<1> QED BY DashInvariance, <1>1, PTL DEF LiveSpec, ReportSettled

------------------------------------------------------------------------------
(* The scoreboard beside the agent that is scored (Scoreboard).               *)
CONSTANTS Labs, DomainOrder, MaxFindings, MaxPresses, MaxErrors
VARIABLES world, key, file, polls, kicks, board, scored, client, budget

SB == INSTANCE Scoreboard WITH program <- client

(* What a fetch may bring.                                                    *)
Reads == [is : {"report", "missing", "unread", "failed"}, lines : Seq(world.findings)]

(* As long as r has not been pressed and nothing was deleted, what the board  *)
(* has taken over is in what the one fetch brings, and that in the report.    *)
Behind ==
    /\ SB!Items(board.seen) \subseteq SB!Items(file.lines)
    /\ \A i \in DOMAIN polls : polls[i].is = "report" =>
          /\ SB!Items(board.seen) \subseteq SB!Items(polls[i].lines)
          /\ SB!Items(polls[i].lines) \subseteq SB!Items(file.lines)

BoardInv ==
    /\ file \in Reads /\ polls \in Seq(Reads) /\ kicks \in Nat
    /\ board = [seen |-> board.seen, credits |-> board.credits]
    /\ board.seen \in Seq(world.findings)
    /\ board.credits \in {{}, SB!VerifyReport(board.seen, key)}
    /\ budget.presses \in Nat /\ budget.deletions \in Nat
    /\ budget = [presses |-> budget.presses, errors |-> budget.errors, deletions |-> budget.deletions]
    /\ kicks + Len(polls) = 1 + budget.presses
    /\ budget.presses = 0 /\ budget.deletions = 0 => Behind

(* A report that says more is worth no less (VerifyReport).                   *)
LEMMA MoreIsWorthMore ==
    ASSUME NEW a, NEW b, NEW k, SB!Items(a) \subseteq SB!Items(b)
    PROVE  SB!VerifyReport(a, k) \subseteq SB!VerifyReport(b, k)
BY DEF SB!VerifyReport

LEMMA WithoutIs ==
    ASSUME NEW S, NEW q \in Seq(S), NEW i \in DOMAIN q
    PROVE  /\ SB!Without(q, i) \in Seq(S) /\ Len(SB!Without(q, i)) = Len(q) - 1
<1>1. i \in 1..Len(q) /\ Len(q) \in Nat
      OBVIOUS
<1>2. SubSeq(q, 1, i - 1) \in Seq(S) /\ Len(SubSeq(q, 1, i - 1)) = i - 1
      BY <1>1
<1>3. SubSeq(q, i + 1, Len(q)) \in Seq(S) /\ Len(SubSeq(q, i + 1, Len(q))) = Len(q) - i
      BY <1>1
<1>4. ASSUME NEW x \in Seq(S), NEW y \in Seq(S)
      PROVE  x \o y \in Seq(S) /\ Len(x \o y) = Len(x) + Len(y)
      OBVIOUS
<1>5. SB!Without(q, i) \in Seq(S) /\ Len(SB!Without(q, i)) = (i - 1) + (Len(q) - i)
      BY <1>2, <1>3, <1>4 DEF SB!Without
<1> QED BY <1>1, <1>5

LEMMA BoardInit == ASSUME SB!BoardInit PROVE BoardInv
BY DEF SB!BoardInit, BoardInv, Reads, SB!Missing, SB!Unread, SB!Items, Behind

(* The board takes over the only fetch there is.                              *)
LEMMA BoardTakes ==
    ASSUME BoardInv, NEW i \in DOMAIN polls, polls[i] # SB!Unread
    PROVE  /\ SB!Taken(polls[i]).seen \in Seq(world.findings)
           /\ SB!Taken(polls[i]) = [seen |-> SB!Taken(polls[i]).seen, credits |-> SB!Taken(polls[i]).credits]
           /\ SB!Taken(polls[i]).credits \in {{}, SB!VerifyReport(SB!Taken(polls[i]).seen, key)}
           /\ budget.presses = 0 /\ budget.deletions = 0 =>
                /\ SB!Items(SB!Taken(polls[i]).seen) \subseteq SB!Items(file.lines)
                /\ board.credits \subseteq SB!Taken(polls[i]).credits
<1>1. polls[i] \in Reads
      BY DEF BoardInv
<1>2. CASE polls[i].is = "report" /\ polls[i].lines # board.seen
  <2>1. SB!Taken(polls[i]) = [seen |-> polls[i].lines, credits |-> SB!VerifyReport(polls[i].lines, key)]
        BY <1>2 DEF SB!Taken
  <2>2. ASSUME budget.presses = 0, budget.deletions = 0
        PROVE  /\ SB!Items(polls[i].lines) \subseteq SB!Items(file.lines)
               /\ board.credits \subseteq SB!VerifyReport(polls[i].lines, key)
    <3>1. /\ SB!Items(board.seen) \subseteq SB!Items(polls[i].lines)
          /\ SB!Items(polls[i].lines) \subseteq SB!Items(file.lines)
          BY <1>2, <2>2 DEF BoardInv, Behind
    <3>2. SB!VerifyReport(board.seen, key) \subseteq SB!VerifyReport(polls[i].lines, key)
          BY <3>1, MoreIsWorthMore
    <3> QED BY <3>1, <3>2 DEF BoardInv
  <2> QED BY <1>1, <2>1, <2>2 DEF Reads
<1>3. CASE ~(polls[i].is = "report" /\ polls[i].lines # board.seen)
      BY <1>3 DEF SB!Taken, BoardInv, Behind
<1> QED BY <1>2, <1>3

LEMMA BoardNext == ASSUME BoardInv, [SB!BoardNext]_SB!boardVars PROVE BoardInv'
<1>1. CASE SB!AgentReports
  <2>1. PICK f \in world.findings : file' = SB!Report(Append(file.lines, f))
        BY <1>1 DEF SB!AgentReports
  <2>2. UNCHANGED <<world, key, polls, kicks, board, budget>>
        BY <1>1 DEF SB!AgentReports
  <2>3. file.lines \in Seq(world.findings)
        BY DEF BoardInv, Reads
  <2>4. /\ file' \in Reads /\ SB!Items(file.lines) \subseteq SB!Items(file'.lines)
        /\ Append(file.lines, f) \in Seq(world.findings)
    <3>1. Append(file.lines, f) \in Seq(world.findings)
          BY <2>3, AppendIs
    <3>2. file'.lines = Append(file.lines, f) /\ file'.is = "report"
          BY <2>1 DEF SB!Report
    <3>3. ASSUME NEW j \in DOMAIN file.lines PROVE file.lines[j] \in SB!Items(file'.lines)
      <4>1. j \in DOMAIN file'.lines /\ file'.lines[j] = file.lines[j]
            BY <2>3, <3>2, AppendIs
      <4> QED BY <4>1 DEF SB!Items
    <3> QED BY <2>1, <3>1, <3>3 DEF SB!Items, SB!Report, Reads
  <2> QED BY <2>2, <2>4 DEF BoardInv, Behind, Reads
<1>2. CASE SB!ReportDeleted
  <2>1. /\ file' \in Reads /\ UNCHANGED <<world, key, polls, kicks, board>>
        /\ budget' = [budget EXCEPT !.deletions = 1]
        BY <1>2 DEF SB!ReportDeleted, SB!Missing, Reads
  <2>2. budget'.deletions = 1 /\ budget'.presses = budget.presses /\ budget'.errors = budget.errors
        /\ budget' = [presses |-> budget.presses, errors |-> budget.errors, deletions |-> 1]
        BY <2>1 DEF BoardInv
  <2> QED BY <2>1, <2>2 DEF BoardInv, Reads
<1>3. CASE SB!FetchReport
  <2>1. PICK i \in DOMAIN polls :
           /\ \/ polls' = [polls EXCEPT ![i] = file] /\ UNCHANGED budget
              \/ /\ polls' = [polls EXCEPT ![i] = SB!Failed]
                 /\ budget' = [budget EXCEPT !.errors = @ + 1]
           /\ UNCHANGED <<world, key, file, kicks, board>>
        BY <1>3 DEF SB!FetchReport
  <2>2. file \in Reads /\ SB!Failed \in Reads /\ polls \in Seq(Reads)
        BY DEF BoardInv, Reads, SB!Failed
  <2>3. polls' \in Seq(Reads) /\ Len(polls') = Len(polls) /\ DOMAIN polls' = DOMAIN polls
        /\ \A j \in DOMAIN polls : polls'[j] \in {polls[j], file, SB!Failed}
        BY <2>1, <2>2
  <2>4. /\ budget'.presses = budget.presses /\ budget'.deletions = budget.deletions
        /\ budget' = [presses |-> budget'.presses, errors |-> budget'.errors, deletions |-> budget'.deletions]
        BY <2>1 DEF BoardInv
  <2>5. Reads' = Reads /\ SB!Failed.is = "failed"
        BY <2>1 DEF Reads, SB!Failed
  <2>6. Behind => Behind'
        BY <2>1, <2>3, <2>5 DEF Behind
  <2> QED BY <2>1, <2>3, <2>4, <2>5, <2>6 DEF BoardInv
<1>4. CASE SB!handlePoll
  <2>1. PICK i \in DOMAIN polls :
           /\ polls[i] # SB!Unread /\ board' = SB!Taken(polls[i]) /\ polls' = SB!Without(polls, i)
           /\ kicks' = kicks + 1 /\ UNCHANGED <<world, key, file, budget>>
        BY <1>4 DEF SB!handlePoll
  <2>2. polls' \in Seq(Reads) /\ Len(polls') = Len(polls) - 1 /\ Len(polls) \in Nat
        BY <2>1, WithoutIs DEF BoardInv
  <2>3. ASSUME budget.presses = 0, budget.deletions = 0 PROVE Behind'
    <3>1. Len(polls') = 0
          BY <2>2, <2>3 DEF BoardInv
    <3>2. DOMAIN polls' = {}
          BY <2>2, <3>1
    <3> QED BY <2>1, <2>3, <3>2, BoardTakes DEF Behind
  <2>4. Reads' = Reads
        BY <2>1 DEF Reads
  <2>5. /\ board'.seen \in Seq(world.findings)
        /\ board' = [seen |-> board'.seen, credits |-> board'.credits]
        /\ board'.credits \in {{}, SB!VerifyReport(board'.seen, key)}
        BY <2>1, BoardTakes
  <2>6. kicks' \in Nat /\ kicks' + Len(polls') = 1 + budget.presses
        BY <2>1, <2>2 DEF BoardInv
  <2> QED BY <2>1, <2>2, <2>3, <2>4, <2>5, <2>6 DEF BoardInv
<1>5. CASE SB!pollKick
  <2>1. /\ kicks > 0 /\ kicks' = kicks - 1 /\ polls' = Append(polls, SB!Unread)
        /\ UNCHANGED <<world, key, file, board, budget>>
        BY <1>5 DEF SB!pollKick
  <2>2. SB!Unread \in Reads /\ SB!Unread.is = "unread" /\ Reads' = Reads
        BY <2>1 DEF SB!Unread, Reads
  <2>3. /\ polls' \in Seq(Reads) /\ Len(polls') = Len(polls) + 1 /\ Len(polls) \in Nat
        /\ \A j \in DOMAIN polls' : polls'[j] = SB!Unread \/ (j \in DOMAIN polls /\ polls'[j] = polls[j])
    <3>1. polls \in Seq(Reads)
          BY DEF BoardInv
    <3>2. /\ Append(polls, SB!Unread) \in Seq(Reads) /\ Len(Append(polls, SB!Unread)) = Len(polls) + 1
          /\ \A j \in DOMAIN Append(polls, SB!Unread) :
                \/ j \in DOMAIN polls /\ Append(polls, SB!Unread)[j] = polls[j]
                \/ Append(polls, SB!Unread)[j] = SB!Unread
          BY <2>2, <3>1, AppendIs
    <3>3. polls' = Append(polls, SB!Unread) /\ Len(polls) \in Nat
          BY <2>1, <3>1
    <3> QED BY <3>2, <3>3
  <2>4. Behind => Behind'
        BY <2>1, <2>2, <2>3 DEF Behind
  <2> QED BY <2>1, <2>2, <2>3, <2>4 DEF BoardInv
<1>6. CASE SB!PressR
  <2>1. /\ polls' = Append(polls, SB!Unread) /\ budget' = [budget EXCEPT !.presses = @ + 1]
        /\ UNCHANGED <<world, key, file, board, kicks>>
        BY <1>6 DEF SB!PressR
  <2>2. SB!Unread \in Reads /\ Reads' = Reads
        BY <2>1 DEF SB!Unread, Reads
  <2>3. /\ polls' \in Seq(Reads) /\ Len(polls') = Len(polls) + 1 /\ Len(polls) \in Nat
        BY <2>1, <2>2, AppendIs DEF BoardInv
  <2>4. /\ budget'.presses = budget.presses + 1 /\ budget'.deletions = budget.deletions
        /\ budget' = [presses |-> budget'.presses, errors |-> budget'.errors, deletions |-> budget'.deletions]
        BY <2>1 DEF BoardInv
  <2> QED BY <2>1, <2>2, <2>3, <2>4 DEF BoardInv
<1>7. CASE SB!Tick \/ SB!PressQ \/ SB!runScore \/ UNCHANGED SB!boardVars
      BY <1>7 DEF SB!Tick, SB!Redrawn, SB!PressQ, SB!runScore, SB!boardVars, BoardInv, Reads, Behind
<1> QED BY <1>1, <1>2, <1>3, <1>4, <1>5, <1>6, <1>7 DEF SB!BoardNext

LEMMA BoardInvariance == SB!BoardInit /\ [][SB!BoardNext]_SB!boardVars => []BoardInv
BY BoardInit, BoardNext, PTL

(* For any labs, findings and keys pressed: the board has one fetch on its    *)
(* way or to come and one more for every r, each brings what the agent wrote, *)
(* and credits are for what the answer key lists (pollCmd, handlePoll).       *)
THEOREM BoardHasOnePoll == SB!BoardInit /\ [][SB!BoardNext]_SB!boardVars => []SB!BoardTypeOK
<1>1. ASSUME BoardInv PROVE SB!BoardTypeOK
  <2>1. ASSUME NEW i \in DOMAIN polls PROVE SB!Items(polls[i].lines) \subseteq world.findings
    <3>1. polls[i] \in Reads
          BY <1>1, <2>1 DEF BoardInv
    <3>2. polls[i].lines \in Seq(world.findings)
          BY <3>1 DEF Reads
    <3> QED BY <3>2 DEF SB!Items
  <2>2. board.credits \subseteq {o.id : o \in key.credentials}
        BY <1>1 DEF BoardInv, SB!VerifyReport
  <2> QED BY <1>1, <2>1, <2>2 DEF BoardInv, SB!BoardTypeOK
<1> QED BY BoardInvariance, <1>1, PTL

(* Unless r was pressed or the report deleted, the board takes no credit back *)
(* whatever fetches fail (handlePoll).                                        *)
THEOREM BoardTakesNothingBack ==
    SB!BoardInit /\ [][SB!BoardNext]_SB!boardVars => SB!BoardMonotone
<1>1. ASSUME BoardInv, [SB!BoardNext]_SB!boardVars
      PROVE  [budget.presses = 0 /\ budget.deletions = 0 => board.credits \subseteq board'.credits]_SB!boardVars
  <2>1. CASE SB!handlePoll
        BY <1>1, <2>1, BoardTakes DEF SB!handlePoll
  <2>2. CASE ~SB!handlePoll
    <3>1. board' = board
          BY <1>1, <2>2 DEF SB!BoardNext, SB!boardVars, SB!AgentReports, SB!ReportDeleted, SB!FetchReport,
             SB!pollKick, SB!Tick, SB!PressR, SB!PressQ, SB!runScore
    <3> QED BY <3>1
  <2> QED BY <2>1, <2>2
<1> QED BY BoardInvariance, <1>1, PTL DEF SB!BoardMonotone
===============================================================================
