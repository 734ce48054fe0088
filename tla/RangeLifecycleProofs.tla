------------------------ MODULE RangeLifecycleProofs ------------------------
(***************************************************************************)
(* Proofs about RangeLifecycle, for any lab, ranges and requests, and any  *)
(* number of machines rebuilt, faults, outside changes and commands.       *)
(*                                                                         *)
(* None of the properties is inductive.  The invariant says of the command *)
(* that runs that it is one that was asked for, at one of its own steps    *)
(* (OnTrack), also when it was a hint of up: what HintsGood is for.  With  *)
(* it a destroy runs no step but infra's and a reset none of infra's.      *)
(* Standing says what the cloud and the lab are made of; Emptied that the  *)
(* whole is gone before the bucket's turn comes; Handing that the          *)
(* addresses are right from their reconciliation on, through every step    *)
(* that follows it up to the playbooks; Cleaned what a score reset has     *)
(* removed, phase by phase and host by host, as long as its two numbers    *)
(* agree; Restoring what a lab reset has purged and restored, controller   *)
(* by controller, as long as nothing went wrong.                           *)
(* For up, whose word is about the whole chain of hints, Upheld says what  *)
(* the first request and the command of the moment, or the hint that       *)
(* waits, have to do with each other: the flags that are still needed are  *)
(* carried, and every playbook that was asked for is either still pending  *)
(* or done on the machine that the host's line reaches (Progress).  No     *)
(* step takes back what was reached (Grown, UptoStays), also not the       *)
(* rewriting of the lines when a hint runs the preflight again.            *)
(***************************************************************************)
EXTENDS RangeLifecycle, FiniteSetTheorems, SequenceTheorems, TLAPS

-----------------------------------------------------------------------------
(* Commands and requests as records.                                        *)
IsCmd(c) ==
    c = [do |-> c.do, req |-> c.req, todo |-> c.todo, at |-> c.at, seen |-> c.seen, left |-> c.left,
         over |-> c.over, slips |-> c.slips, errs |-> c.errs, passed |-> c.passed, tally |-> c.tally,
         list |-> c.list, blind |-> c.blind, hint |-> c.hint, told |-> c.told]
IsReq(r) ==
    r = [do |-> r.do, action |-> r.action, from |-> r.from, skipDoctor |-> r.skipDoctor,
         infraOnly |-> r.infraOnly, plays |-> r.plays, fromPlaybook |-> r.fromPlaybook, limit |-> r.limit,
         module |-> r.module, individual |-> r.individual, exclude |-> r.exclude, with |-> r.with,
         approve |-> r.approve, bootstrap |-> r.bootstrap, skipPurge |-> r.skipPurge,
         skipCreator |-> r.skipCreator, apply |-> r.apply, checkOnly |-> r.checkOnly, phases |-> r.phases]

\* What c and d have in common as long as the step does not change.
Kin(c, d) ==
    /\ IsCmd(d) /\ d.do = c.do /\ d.req = c.req /\ d.todo = c.todo
    /\ d.told = c.told /\ d.hint = c.hint /\ d.passed = c.passed
\* A step of a command goes on, is done, or fails.
Moves == Kin(cmd, cmd') \/ (\E d : Kin(cmd, d) /\ cmd' = Done(d)) \/ (\E f : FailsAt(f))

StepsFor(do) ==
    IF do = "up" THEN {"doctor", "infra", "provision", "health-check"}
    ELSE IF do = "reset" THEN {"purge", "provision"}
    ELSE IF do = "score" THEN {"kali", "windows", "purge"}
    ELSE {do}

\* What is asked for, by the operator or by a hint.
GoodRequest(r) ==
    /\ IsReq(r) /\ r.do \in Commands
    /\ r.from \in {None, "doctor", "infra", "provision", "health-check"}
    /\ r.phases \in PhaseLists
    /\ r.limit.exact => r.limit.set
    /\ r.do = "reset" => r.apply /\ r.fromPlaybook = None

\* The command that runs is one that was asked for, at one of its steps.
OnTrack ==
    /\ IsCmd(cmd) /\ \A r \in cmd.hint : GoodRequest(r) /\ r.do = "up"
    /\ Running => /\ GoodRequest(cmd.req) /\ cmd.req.do = cmd.do
                  /\ cmd.told = None
                  /\ cmd.todo \in Seq(StepsFor(cmd.do)) /\ cmd.todo # <<>>
                  /\ cmd.do \notin {"up", "reset", "score"} => Len(cmd.todo) = 1
    /\ ~Running => (cmd.told # None => cmd.req.do \in Commands)

-----------------------------------------------------------------------------
(* What becomes of a command.                                               *)
LEMMA Finished ==
    ASSUME NEW c, IsCmd(c), NEW d, d = Done(c)
    PROVE  /\ IsCmd(d) /\ d.req = c.req /\ d.at = "start" /\ d.passed = c.passed \cup {Head(c.todo)}
           /\ d.list = c.list /\ d.blind = c.blind
           /\ Len(c.todo) > 1 => /\ d.do = c.do /\ d.todo = Tail(c.todo) /\ d.seen = {} /\ d.over = {}
                                 /\ d.hint = c.hint /\ d.told = c.told /\ d.slips = c.slips /\ d.tally = c.tally
                                 /\ d.errs = c.errs
           /\ ~(Len(c.todo) > 1) =>
                /\ d.do = "none" /\ d.hint = {} /\ d.seen = c.seen /\ d.slips = c.slips /\ d.tally = c.tally
                /\ d.told = IF c.errs THEN "failed"
                            ELSE IF c.do = "up" /\ ~c.req.infraOnly THEN "Lab is up" ELSE "ok"
<1>1. CASE Len(c.todo) > 1
      BY <1>1 DEF IsCmd, Done
<1>2. CASE ~(Len(c.todo) > 1)
      BY <1>2 DEF IsCmd, Done, Idle
<1> QED BY <1>1, <1>2

LEMMA Failed ==
    ASSUME NEW f, FailsAt(f)
    PROVE  /\ IsCmd(cmd') /\ cmd'.do = "none" /\ cmd'.req = cmd.req /\ cmd'.told = "failed"
           /\ cmd'.passed = cmd.passed
           /\ cmd'.hint = IF cmd.do = "up" THEN {upResumeCommand(Step, f, cmd.req)} ELSE {}
BY DEF IsCmd, FailsAt, Idle

LEMMA Started ==
    ASSUME NEW r, Start(r)
    PROVE  /\ IsCmd(cmd') /\ cmd'.do = r.do /\ cmd'.told = None /\ cmd'.hint = {} /\ cmd'.passed = {}
           /\ cmd'.req = (IF r.do = "up" THEN newUpInfraCommand(r) ELSE r)
           /\ cmd'.todo = StepsOf(r) /\ cmd'.at = "start" /\ cmd'.slips = FALSE
           /\ cmd'.over = {} /\ cmd'.tally = [found |-> 0, removed |-> 0] /\ cmd'.blind = {}
BY DEF IsCmd, Start, Idle

(* The steps that change what a command carries keep what it is about.      *)
LEMMA Goes ==
    ASSUME IsCmd(cmd), NEW point, Go(point)
    PROVE  /\ Kin(cmd, cmd') /\ cmd'.at = point /\ cmd'.seen = cmd.seen /\ cmd'.over = cmd.over
           /\ cmd'.left = cmd.left /\ cmd'.slips = cmd.slips /\ cmd'.errs = cmd.errs /\ cmd'.tally = cmd.tally
           /\ cmd'.list = cmd.list /\ cmd'.blind = cmd.blind
BY DEF Go, IsCmd, Kin

LEMMA Changed ==
    ASSUME IsCmd(cmd), NEW x, NEW y, NEW z, NEW w, NEW d,
           \/ d = cmd
           \/ d = [cmd EXCEPT !.slips = x] \/ d = [cmd EXCEPT !.errs = x]
           \/ d = [cmd EXCEPT !.left = x] \/ d = [cmd EXCEPT !.at = x, !.left = y]
           \/ d = [cmd EXCEPT !.slips = x, !.left = y] \/ d = [cmd EXCEPT !.tally = x, !.blind = y]
           \/ d = [cmd EXCEPT !.at = x, !.seen = y] \/ d = [cmd EXCEPT !.at = x, !.list = y, !.seen = z]
           \/ d = [cmd EXCEPT !.over = x, !.slips = y] \/ d = [cmd EXCEPT !.over = x, !.errs = y]
           \/ d = [cmd EXCEPT !.over = x, !.blind = y, !.slips = z, !.tally = w]
    PROVE  Kin(cmd, d)
BY DEF IsCmd, Kin

LEMMA NextStepMoves == ASSUME IsCmd(cmd), NextStep PROVE Moves
<1>1. Kin(cmd, cmd) /\ cmd' = Done(cmd)
      BY DEF Kin, NextStep
<1> QED BY <1>1 DEF Moves

LEMMA DoneMoves ==
    ASSUME IsCmd(cmd), NEW x, NEW y,
           \/ cmd' = Done([cmd EXCEPT !.slips = x]) \/ cmd' = Done([cmd EXCEPT !.errs = x])
           \/ cmd' = Done([cmd EXCEPT !.tally = x, !.blind = y])
    PROVE  Moves
<1>1. PICK d : /\ cmd' = Done(d)
               /\ \/ d = [cmd EXCEPT !.slips = x] \/ d = [cmd EXCEPT !.errs = x]
                  \/ d = [cmd EXCEPT !.tally = x, !.blind = y]
      OBVIOUS
<1>2. Kin(cmd, d)
      BY <1>1, Changed
<1> QED BY <1>1, <1>2 DEF Moves

LEMMA InfraMoves == ASSUME IsCmd(cmd), InfraStep \/ runLabAction \/ destroyVM PROVE Moves /\ range' = range
<1>1. Kin(cmd, cmd') => Moves
      BY DEF Moves
<1>2. ASSUME NEW f, FailsAt(f) PROVE Moves
      BY <1>2 DEF Moves
<1>3. range' = range
      BY DEF InfraStep, materializeLabConfig, recordMaterializedConfigOwnership, confirmDestroy,
         checkLocalInfraState, runAllInit, RunAll, deleteSSMBucket, runLabAction, destroyVM
<1>4. \/ \E point \in {"own", "confirm", "check", "init", "run", "bucket"} : Go(point)
      \/ Fails \/ NextStep
      BY DEF InfraStep, materializeLabConfig, recordMaterializedConfigOwnership, confirmDestroy,
         checkLocalInfraState, runAllInit, RunAll, deleteSSMBucket, runLabAction, destroyVM
<1> QED BY <1>1, <1>2, <1>3, <1>4, Goes, NextStepMoves DEF Fails

(* A playbook that is over: on all that was reached, or not and given up.   *)
LEMMA Played ==
    ASSUME IsCmd(cmd), RunPlaybook
    PROVE  \/ FailsAt(Head(cmd.left))
           \/ LET hosts == SelectedHosts(cmd.req) \cap DOMAIN inv.hosts IN
              /\ \A h \in hosts : Reached(h) # {}
              /\ \E kept : /\ Ran(Head(cmd.left), UNION {Reached(h) : h \in hosts}, kept)
                           /\ LET slips == cmd.slips \/ kept # {} IN
                              IF Len(cmd.left) > 1 THEN cmd' = [cmd EXCEPT !.slips = slips, !.left = Tail(@)]
                              ELSE cmd' = Done([cmd EXCEPT !.slips = slips])
<1> DEFINE hosts == SelectedHosts(cmd.req) \cap DOMAIN inv.hosts
           reached == UNION {Reached(h) : h \in hosts}
           now(kept) == [cmd EXCEPT !.slips = @ \/ kept # {}]
<1>1. CASE ~FailsAt(Head(cmd.left))
  <2>1. /\ \A h \in hosts : Reached(h) # {}
        /\ \E kept : /\ Ran(Head(cmd.left), reached, kept)
                     /\ cmd' = IF Len(cmd.left) > 1 THEN [now(kept) EXCEPT !.left = Tail(@)] ELSE Done(now(kept))
        BY <1>1, Zenon DEF RunPlaybook
  <2>2. ASSUME NEW kept
        PROVE  LET slips == cmd.slips \/ kept # {} IN
               /\ now(kept) = [cmd EXCEPT !.slips = slips]
               /\ [now(kept) EXCEPT !.left = Tail(@)] = [cmd EXCEPT !.slips = slips, !.left = Tail(@)]
    <3> DEFINE slips == cmd.slips \/ kept # {}
    <3>1. now(kept) = [cmd EXCEPT !.slips = slips]
          BY DEF IsCmd
    <3> HIDE DEF slips
    <3>2. ASSUME NEW c, c = [cmd EXCEPT !.slips = slips]
          PROVE  [c EXCEPT !.left = Tail(@)] = [cmd EXCEPT !.slips = slips, !.left = Tail(@)]
          BY <3>2 DEF IsCmd
    <3> HIDE DEF now
    <3> QED BY <3>1, <3>2 DEF slips
  <2> HIDE DEF reached, hosts, now
  <2>3. \E kept : /\ Ran(Head(cmd.left), reached, kept)
                  /\ LET slips == cmd.slips \/ kept # {} IN
                     IF Len(cmd.left) > 1 THEN cmd' = [cmd EXCEPT !.slips = slips, !.left = Tail(@)]
                     ELSE cmd' = Done([cmd EXCEPT !.slips = slips])
    <3>1. PICK kept : /\ Ran(Head(cmd.left), reached, kept)
                      /\ cmd' = IF Len(cmd.left) > 1 THEN [now(kept) EXCEPT !.left = Tail(@)] ELSE Done(now(kept))
          BY <2>1
    <3> QED BY <2>2, <3>1
  <2> QED BY <2>1, <2>3 DEF reached, hosts
<1> QED BY <1>1

LEMMA ProvisionMoves == ASSUME IsCmd(cmd), ProvisionStep \/ runUpDoctor PROVE Moves /\ range' = range
<1> USE DEF OnlyCmd
<1>1. Kin(cmd, cmd') => Moves
      BY DEF Moves
<1>2. range' = range
      BY DEF ProvisionStep, runProvision, checkAnsibleRuntime, BuildCollection, ensureVariant, generateVariant,
         ensureInventoryTopology, ensureTransport, ensureSSMBucket, ensureInventorySynced, syncAzureInventoryIPs,
         syncAzurePasswords, validateInventory, maybeStartSOCKSTunnel, RunPlaybook, runUpDoctor
<1>3. \/ \E point \in {"collection", "variant", "generate", "topology", "transport", "sync", "bucket", "gates",
                       "tunnel", "play"} : Go(point)
      \/ \E f \in {None, Head(cmd.left)} : FailsAt(f)
      \/ NextStep
      \/ cmd' = [cmd EXCEPT !.at = "tools", !.left = resolvePlaybooks(cmd.req)]
      \/ \E x \in {"gates", "passwords"} : cmd' = [cmd EXCEPT !.at = x, !.seen = DiscoverInstances]
      \/ \E slips : cmd' = [cmd EXCEPT !.slips = slips, !.left = Tail(@)] \/ cmd' = Done([cmd EXCEPT !.slips = slips])
  <2> USE DEF Fails
  <2>1. CASE runProvision
        BY <2>1 DEF runProvision
  <2>2. CASE checkAnsibleRuntime \/ BuildCollection \/ ensureVariant \/ generateVariant
        BY <2>2 DEF checkAnsibleRuntime, BuildCollection, ensureVariant, generateVariant
  <2>3. CASE ensureInventoryTopology \/ ensureTransport \/ ensureSSMBucket
        BY <2>3 DEF ensureInventoryTopology, ensureTransport, ensureSSMBucket
  <2>4. CASE ensureInventorySynced
        BY <2>4 DEF ensureInventorySynced
  <2>5. CASE syncAzureInventoryIPs
        BY <2>5 DEF syncAzureInventoryIPs
  <2>6. CASE syncAzurePasswords \/ validateInventory \/ maybeStartSOCKSTunnel
        BY <2>6 DEF syncAzurePasswords, validateInventory, maybeStartSOCKSTunnel
  <2>7. CASE RunPlaybook
        BY <2>7, Played
  <2>8. CASE runUpDoctor
        BY <2>8 DEF runUpDoctor
  <2> QED BY <2>1, <2>2, <2>3, <2>4, <2>5, <2>6, <2>7, <2>8 DEF ProvisionStep
<1>4. ASSUME \E x, y : \/ cmd' = [cmd EXCEPT !.at = x, !.left = y] \/ cmd' = [cmd EXCEPT !.at = x, !.seen = y]
                       \/ cmd' = [cmd EXCEPT !.slips = x, !.left = y]
      PROVE  Kin(cmd, cmd')
      BY <1>4, Changed
<1>5. (\E f : FailsAt(f)) => Moves
      BY DEF Moves
<1> QED BY <1>1, <1>2, <1>3, <1>4, <1>5, Goes, NextStepMoves, DoneMoves

LEMMA HealthMoves == ASSUME IsCmd(cmd), HealthStep PROVE Moves /\ range' = range
<1>1. Kin(cmd, cmd') => Moves
      BY DEF Moves
<1>2. range' = range
      BY DEF HealthStep, requireInfra, checkSSMOnline, runHealthChecks
<1>3. (\E f : FailsAt(f)) => Moves
      BY DEF Moves
<1>4. ASSUME \E x, y : cmd' = [cmd EXCEPT !.at = x, !.seen = y] \/ cmd' = [cmd EXCEPT !.over = x, !.errs = y]
      PROVE  Moves
      BY <1>1, <1>4, Changed
<1>5. NotFound => Moves
      BY <1>3, DoneMoves DEF NotFound, Fails
<1>6. CASE requireInfra
      BY <1>4, <1>5, <1>6 DEF requireInfra
<1>7. CASE checkSSMOnline
      BY <1>4, <1>5, <1>7 DEF checkSSMOnline, Found
<1>8. CASE runHealthChecks
      BY <1>3, <1>4, <1>8, NextStepMoves DEF runHealthChecks, Fails
<1> QED BY <1>2, <1>6, <1>7, <1>8 DEF HealthStep

LEMMA ResetMoves == ASSUME IsCmd(cmd), ResetStep PROVE Moves /\ range' = range
<1>1. Kin(cmd, cmd') => Moves
      BY DEF Moves
<1>2. range' = range
      BY DEF ResetStep, liveDCTargets, runPurgeOnDC, resetKali, runKaliCleanup, runWindowsCleanup
<1>3. (\E f : FailsAt(f)) => Moves
      BY DEF Moves
<1>4. ASSUME \E x, y, z, w : \/ cmd' = [cmd EXCEPT !.at = x, !.list = y, !.seen = z]
                             \/ cmd' = [cmd EXCEPT !.over = x, !.slips = y]
                             \/ cmd' = [cmd EXCEPT !.over = x, !.errs = y]
                             \/ cmd' = [cmd EXCEPT !.over = x, !.blind = y, !.slips = z, !.tally = w]
      PROVE  Moves
  <2>1. PICK x, y, z, w : \/ cmd' = [cmd EXCEPT !.at = x, !.list = y, !.seen = z]
                          \/ cmd' = [cmd EXCEPT !.over = x, !.slips = y]
                          \/ cmd' = [cmd EXCEPT !.over = x, !.errs = y]
                          \/ cmd' = [cmd EXCEPT !.over = x, !.blind = y, !.slips = z, !.tally = w]
        BY <1>4
  <2>2. Kin(cmd, cmd')
        BY <2>1 DEF IsCmd, Kin
  <2> QED BY <1>1, <2>2
<1>5. CannotPurge => Moves
      BY <1>3, DoneMoves DEF CannotPurge, Fails
<1>6. CASE liveDCTargets
      BY <1>4, <1>5, <1>6 DEF liveDCTargets
<1>7. CASE runPurgeOnDC
      BY <1>4, <1>7, NextStepMoves DEF runPurgeOnDC
<1>8. CASE resetKali
      BY <1>1, <1>8, Goes, DoneMoves DEF resetKali
<1>9. CASE runKaliCleanup
      BY <1>9, DoneMoves DEF runKaliCleanup
<1>10. CASE runWindowsCleanup
  <2> DEFINE swept(h, unseen, kept) == IF cmd.req.apply THEN RemovableOn(h) \ (unseen \cup kept) ELSE {}
             hushed(unseen) == {a \in unseen : a.kind \notin Accounts}
             then(h, unseen, kept) ==
                [cmd EXCEPT !.over = @ \cup {h}, !.blind = @ \cup hushed(unseen),
                            !.slips = @ \/ kept # {} \/ unseen # hushed(unseen),
                            !.tally = [found |-> @.found + Cardinality(CountedOn(h) \ unseen),
                                       removed |-> @.removed + Cardinality(swept(h, unseen, kept) \cap CountedOn(h))]]
  <2>1. \/ NextStep
        \/ \E h : cmd' = [cmd EXCEPT !.over = @ \cup {h}, !.errs = TRUE]
        \/ \E h, unseen, kept : cmd' = then(h, unseen, kept)
        BY <1>10, ZenonT(90) DEF runWindowsCleanup
  <2>2. ASSUME NEW h, cmd' = [cmd EXCEPT !.over = @ \cup {h}, !.errs = TRUE] PROVE Kin(cmd, cmd')
        BY <2>2 DEF IsCmd, Kin
  <2>3. ASSUME NEW h, NEW unseen, NEW kept PROVE Kin(cmd, then(h, unseen, kept))
    <3> DEFINE over == cmd.over \cup {h}
               blind == cmd.blind \cup hushed(unseen)
               slips == cmd.slips \/ kept # {} \/ unseen # hushed(unseen)
               tally == [found |-> cmd.tally.found + Cardinality(CountedOn(h) \ unseen),
                         removed |-> cmd.tally.removed + Cardinality(swept(h, unseen, kept) \cap CountedOn(h))]
    <3>1. then(h, unseen, kept) = [cmd EXCEPT !.over = over, !.blind = blind, !.slips = slips, !.tally = tally]
          OBVIOUS
    <3> HIDE DEF then, over, blind, slips, tally
    <3> QED BY <3>1 DEF IsCmd, Kin
  <2>4. CASE NextStep
        BY <1>2, <2>4, NextStepMoves
  <2>5. CASE \E h : cmd' = [cmd EXCEPT !.over = @ \cup {h}, !.errs = TRUE]
        BY <1>1, <1>2, <2>2, <2>5
  <2> HIDE DEF then
  <2>6. CASE \E h, unseen, kept : cmd' = then(h, unseen, kept)
        BY <1>1, <1>2, <2>3, <2>6
  <2> QED BY <2>1, <2>4, <2>5, <2>6
<1> QED BY <1>2, <1>6, <1>7, <1>8, <1>9, <1>10 DEF ResetStep

LEMMA WorksMoves == ASSUME IsCmd(cmd), Works PROVE Moves /\ range' = range /\ Running
<1>1. Running
      BY DEF Works, runUpDoctor, InfraStep, ProvisionStep, HealthStep, ResetStep, runLabAction, destroyVM,
         materializeLabConfig, recordMaterializedConfigOwnership, confirmDestroy,
         checkLocalInfraState, runAllInit, RunAll, deleteSSMBucket, runProvision, checkAnsibleRuntime,
         BuildCollection, ensureVariant, generateVariant, ensureInventoryTopology, ensureTransport,
         ensureSSMBucket, ensureInventorySynced, syncAzureInventoryIPs, syncAzurePasswords, validateInventory,
         maybeStartSOCKSTunnel, RunPlaybook, requireInfra, checkSSMOnline, runHealthChecks, liveDCTargets,
         runPurgeOnDC, resetKali, runKaliCleanup, runWindowsCleanup, Infra, Provisioning, Requiring, At
<1> QED BY <1>1, InfraMoves, ProvisionMoves, HealthMoves, ResetMoves DEF Works

-----------------------------------------------------------------------------
(* Which steps a command runs.                                              *)
LEMMA IndexOfStep ==
    /\ Index(UpSteps, "doctor") = 1 /\ Index(UpSteps, "infra") = 2
    /\ Index(UpSteps, "provision") = 3 /\ Index(UpSteps, "health-check") = 4
<1>1. DOMAIN UpSteps = 1 .. 4
      BY DEF UpSteps
<1>2. ASSUME NEW n \in 1 .. 4 PROVE Index(UpSteps, UpSteps[n]) = n
  <2>1. \A i \in 1 .. 4 : UpSteps[i] = UpSteps[n] => i = n
        BY DEF UpSteps
  <2>2. \A i \in 1 .. 4 : (UpSteps[i] = UpSteps[n] /\ \A j \in 1 .. 4 : UpSteps[j] = UpSteps[n] => i <= j) <=> i = n
        BY <2>1
  <2> QED BY <1>1, <2>2 DEF Index
<1>3. UpSteps[1] = "doctor" /\ UpSteps[2] = "infra" /\ UpSteps[3] = "provision" /\ UpSteps[4] = "health-check"
      BY DEF UpSteps
<1>4. /\ Index(UpSteps, UpSteps[1]) = 1 /\ Index(UpSteps, UpSteps[2]) = 2
      /\ Index(UpSteps, UpSteps[3]) = 3 /\ Index(UpSteps, UpSteps[4]) = 4
      BY <1>2
<1> QED BY <1>3, <1>4

\* The first and the last step of an up.
FirstStep(r) == IF r.from # None THEN Index(UpSteps, r.from) ELSE IF r.skipDoctor THEN 2 ELSE 1
LastStep(r) == IF r.infraOnly /\ FirstStep(r) <= 2 THEN 2 ELSE 4
LEMMA UpStepsAre ==
    ASSUME NEW r, GoodRequest(r)
    PROVE  /\ FirstStep(r) \in 1 .. 4 /\ LastStep(r) \in {2, 4} /\ FirstStep(r) <= LastStep(r)
           /\ selectUpSteps(r) = SubSeq(UpSteps, FirstStep(r), LastStep(r))
           /\ selectUpSteps(r) \in Seq(StepsFor("up")) /\ selectUpSteps(r) # <<>>
           /\ Len(selectUpSteps(r)) = LastStep(r) - FirstStep(r) + 1
           /\ \A i \in 1 .. Len(selectUpSteps(r)) : selectUpSteps(r)[i] = UpSteps[FirstStep(r) + i - 1]
<1>1. /\ FirstStep(r) \in 1 .. 4 /\ LastStep(r) \in {2, 4} /\ FirstStep(r) <= LastStep(r)
      BY IndexOfStep DEF GoodRequest, FirstStep, LastStep
<1>2. selectUpSteps(r) = SubSeq(UpSteps, FirstStep(r), LastStep(r))
      BY DEF selectUpSteps, FirstStep, LastStep
<1>3. UpSteps \in Seq(StepsFor("up")) /\ Len(UpSteps) = 4
      BY DEF UpSteps, StepsFor
<1> DEFINE first == FirstStep(r)
           last == LastStep(r)
           steps == SubSeq(UpSteps, first, last)
<1> HIDE DEF first, last
<1>4. /\ first \in 1 .. 4 /\ last \in 1 .. 4 /\ first <= last
      BY <1>1 DEF first, last
<1>a. /\ \A i \in first .. last : UpSteps[i] \in StepsFor("up")
      /\ first \in Int /\ last \in Int
      BY <1>3, <1>4, SMTT(60)
<1>5. /\ steps \in Seq(StepsFor("up")) /\ Len(steps) = last - first + 1
      /\ \A i \in 1 .. Len(steps) : steps[i] = UpSteps[first + i - 1]
  <2>1. /\ SubSeq(UpSteps, first, last) \in Seq(StepsFor("up"))
        /\ Len(SubSeq(UpSteps, first, last)) = IF first <= last THEN last - first + 1 ELSE 0
        /\ \A i \in 1 .. last - first + 1 : SubSeq(UpSteps, first, last)[i] = UpSteps[first + i - 1]
        BY <1>a, SubSeqProperties
  <2> QED BY <2>1, <1>4
<1> HIDE DEF steps
<1>6. steps # <<>>
  <2>1. Len(steps) >= 1
        BY <1>4, <1>5
  <2> QED BY <2>1
<1> QED BY <1>1, <1>2, <1>5, <1>6 DEF first, last, steps

(* The phases of score reset: the attack box only ever comes first.         *)
LEMMA PhasesAre ==
    ASSUME NEW p \in PhaseLists
    PROVE  /\ p \in Seq({"kali", "windows", "purge"}) /\ p # <<>> /\ Head(p) \in {"kali", "windows", "purge"}
           /\ Len(p) > 1 => Tail(p) \in PhaseLists /\ Head(Tail(p)) # "kali"
<1>1. ASSUME NEW x \in {"kali", "windows", "purge"}, p = <<x>>
      PROVE  /\ p \in Seq({"kali", "windows", "purge"}) /\ p # <<>> /\ Len(p) = 1 /\ Head(p) = x
      BY <1>1
<1>2. ASSUME NEW x \in {"kali", "windows", "purge"}, NEW y \in {"kali", "windows", "purge"}, p = <<x, y>>
      PROVE  /\ p \in Seq({"kali", "windows", "purge"}) /\ p # <<>> /\ Head(p) = x /\ Tail(p) = <<y>>
             /\ Head(Tail(p)) = y
      BY <1>2
<1>3. CASE p = <<"kali", "windows", "purge">>
  <2>1. /\ p \in Seq({"kali", "windows", "purge"}) /\ p # <<>> /\ Head(p) = "kali" /\ Tail(p) = <<"windows", "purge">>
        /\ Head(Tail(p)) = "windows"
        BY <1>3
  <2> QED BY <2>1 DEF PhaseLists
<1>4. CASE p \in {<<"kali">>, <<"windows">>, <<"purge">>}
      BY <1>1, <1>4
<1>5. CASE p \in {<<"kali", "windows">>, <<"kali", "purge">>, <<"windows", "purge">>}
      BY <1>2, <1>5 DEF PhaseLists
<1> QED BY <1>3, <1>4, <1>5 DEF PhaseLists

LEMMA StepsAre ==
    ASSUME NEW r, GoodRequest(r)
    PROVE  /\ StepsOf(r) \in Seq(StepsFor(r.do)) /\ StepsOf(r) # <<>>
           /\ r.do \notin {"up", "reset", "score"} => StepsOf(r) = <<r.do>> /\ Len(StepsOf(r)) = 1
<1>1. CASE r.do = "up"
      BY <1>1, UpStepsAre DEF StepsOf
<1>2. CASE r.do = "reset"
  <2>1. StepsOf(r) = (IF r.skipPurge THEN <<>> ELSE <<"purge">>) \o <<"provision">>
        BY <1>2 DEF StepsOf
  <2>2. <<"provision">> \in Seq({"provision"}) /\ <<"purge">> \in Seq({"purge"})
        OBVIOUS
  <2>3. CASE r.skipPurge
    <3>1. <<>> \o <<"provision">> = <<"provision">>
          BY <2>2, ConcatEmptySeq
    <3>2. StepsOf(r) = <<"provision">> /\ <<"provision">> # <<>> /\ <<"provision">> \in Seq({"purge", "provision"})
          BY <2>1, <2>3, <3>1
    <3> QED BY <1>2, <3>2 DEF StepsFor
  <2>4. CASE ~r.skipPurge
    <3>1. StepsOf(r) = <<"purge">> \o <<"provision">>
          BY <2>1, <2>4
    <3>2. <<"purge">> \in Seq({"purge", "provision"}) /\ <<"provision">> \in Seq({"purge", "provision"})
          OBVIOUS
    <3>3. /\ <<"purge">> \o <<"provision">> \in Seq({"purge", "provision"})
          /\ <<"purge">> \o <<"provision">> # <<>>
          BY <3>2
    <3> QED BY <1>2, <3>1, <3>3 DEF StepsFor
  <2> QED BY <2>3, <2>4
<1>3. CASE r.do = "score"
  <2>1. StepsOf(r) = r.phases /\ r.phases \in PhaseLists
        BY <1>3 DEF StepsOf, GoodRequest
  <2> QED BY <1>3, <2>1, PhasesAre DEF StepsFor
<1>4. CASE r.do \notin {"up", "reset", "score"}
  <2>1. StepsOf(r) = <<r.do>>
        BY <1>4 DEF StepsOf
  <2>2. StepsFor(r.do) = {r.do}
        BY <1>4 DEF StepsFor
  <2> HIDE DEF StepsFor, StepsOf
  <2> DEFINE it == r.do
  <2> HIDE DEF it
  <2>3. <<it>> \in Seq({it}) /\ <<it>> # <<>> /\ Len(<<it>>) = 1
        OBVIOUS
  <2> QED BY <2>1, <2>2, <2>3, <1>4 DEF it
<1> QED BY <1>1, <1>2, <1>3, <1>4

(* What a failed up suggests is something that can be asked for.            *)
LEMMA DefaultsGood == GoodRequest(Defaults) /\ Defaults.do = "up"
BY DEF GoodRequest, IsReq, Defaults, Commands, NoLimit, PhaseLists

LEMMA HintsGood ==
    ASSUME NEW step \in StepsFor("up"), NEW failed, NEW r, GoodRequest(r)
    PROVE  LET hint == upResumeCommand(step, failed, r)
           IN  /\ GoodRequest(hint) /\ hint.do = "up" /\ hint.from = step
               /\ step = "health-check" => hint.plays = <<>> /\ hint.fromPlaybook = None
               /\ step # "health-check" =>
                    /\ hint.limit = r.limit
                    /\ IF step = "provision" /\ failed # None
                       THEN IF r.plays # <<>>
                            THEN hint.plays = remainingPlaybookSelection(r.plays, failed) /\ hint.fromPlaybook = None
                            ELSE hint.plays = <<>> /\ hint.fromPlaybook = failed
                       ELSE IF r.plays # <<>> THEN hint.plays = r.plays /\ hint.fromPlaybook = None
                       ELSE hint.plays = <<>> /\ hint.fromPlaybook = r.fromPlaybook
               /\ step \in {"doctor", "infra"} =>
                    /\ hint.module = r.module /\ hint.exclude = r.exclude
                    /\ hint.with \subseteq r.with /\ hint.infraOnly = r.infraOnly
<1> DEFINE bare == [Defaults EXCEPT !.from = step]
           flags == appendUpInfraResumeFlags(bare, step, r)
           all == appendUpProvisionResumeFlags(flags, step, failed, r)
<1>1. /\ IsReq(bare) /\ bare.do = "up" /\ bare.from = step /\ bare.phases = Defaults.phases
      /\ bare.limit = NoLimit /\ bare.module = None /\ bare.exclude = {} /\ bare.with = {}
      /\ bare.infraOnly = FALSE /\ bare.plays = <<>> /\ bare.fromPlaybook = None
  <2>1. /\ IsReq(bare) /\ bare.do = Defaults.do /\ bare.from = step /\ bare.phases = Defaults.phases
        /\ bare.limit = Defaults.limit /\ bare.module = Defaults.module /\ bare.exclude = Defaults.exclude
        /\ bare.with = Defaults.with /\ bare.infraOnly = Defaults.infraOnly
        /\ bare.plays = Defaults.plays /\ bare.fromPlaybook = Defaults.fromPlaybook
    <3>1. IsReq(Defaults)
          BY DefaultsGood DEF GoodRequest
    <3> DEFINE old == Defaults
    <3> HIDE DEF old
    <3>2. bare = [old EXCEPT !.from = step] /\ IsReq(old)
          BY <3>1 DEF old
    <3> HIDE DEF bare
    <3>3. /\ IsReq(bare) /\ bare.do = old.do /\ bare.from = step /\ bare.phases = old.phases
          /\ bare.limit = old.limit /\ bare.module = old.module /\ bare.exclude = old.exclude
          /\ bare.with = old.with /\ bare.infraOnly = old.infraOnly
          /\ bare.plays = old.plays /\ bare.fromPlaybook = old.fromPlaybook
          BY <3>2 DEF IsReq
    <3> QED BY <3>3 DEF old
  <2> HIDE DEF bare
  <2>2. /\ Defaults.do = "up" /\ Defaults.limit = NoLimit /\ Defaults.module = None /\ Defaults.exclude = {}
        /\ Defaults.with = {} /\ Defaults.infraOnly = FALSE /\ Defaults.plays = <<>>
        /\ Defaults.fromPlaybook = None
        BY DEF Defaults
  <2> QED BY <2>1, <2>2
<1> HIDE DEF bare
<1>2. /\ IsReq(flags) /\ flags.do = "up" /\ flags.from = step /\ flags.phases = Defaults.phases
      /\ flags.limit = NoLimit /\ flags.plays = <<>> /\ flags.fromPlaybook = None
      /\ IF step \in {"doctor", "infra"}
         THEN /\ flags.module = r.module /\ flags.exclude = r.exclude
              /\ flags.with = r.with \cap {"kali"} /\ flags.infraOnly = r.infraOnly
         ELSE /\ flags.module = None /\ flags.exclude = {} /\ flags.with = {} /\ flags.infraOnly = FALSE
  <2>1. CASE step \in {"doctor", "infra"}
        BY <1>1, <2>1 DEF IsReq, appendUpInfraResumeFlags
  <2>2. CASE step \notin {"doctor", "infra"}
    <3>1. flags = bare
          BY <2>2 DEF appendUpInfraResumeFlags
    <3> HIDE DEF flags
    <3> QED BY <1>1, <2>2, <3>1
  <2> QED BY <2>1, <2>2
<1> HIDE DEF flags
<1>3. /\ IsReq(all) /\ all.do = "up" /\ all.from = step /\ all.phases = Defaults.phases
      /\ all.limit = NoLimit /\ all.module = flags.module /\ all.exclude = flags.exclude
      /\ all.with = flags.with /\ all.infraOnly = flags.infraOnly
      /\ IF step = "provision" /\ failed # None
         THEN IF r.plays # <<>>
              THEN all.plays = remainingPlaybookSelection(r.plays, failed) /\ all.fromPlaybook = None
              ELSE all.plays = <<>> /\ all.fromPlaybook = failed
         ELSE IF r.plays # <<>> THEN all.plays = r.plays /\ all.fromPlaybook = None
         ELSE all.plays = <<>> /\ all.fromPlaybook = r.fromPlaybook
      BY <1>2 DEF IsReq, appendUpProvisionResumeFlags
<1> HIDE DEF all
<1> DEFINE hint == upResumeCommand(step, failed, r)
<1>4. CASE step = "health-check"
  <2>1. hint = bare
        BY <1>4 DEF upResumeCommand, bare
  <2> HIDE DEF hint
  <2>2. GoodRequest(hint)
        BY <1>1, <1>4, <2>1, DefaultsGood DEF GoodRequest, NoLimit
  <2>3. /\ hint.do = "up" /\ hint.from = step /\ hint.limit = NoLimit /\ hint.module = None /\ hint.exclude = {}
        /\ hint.with = {} /\ hint.infraOnly = FALSE /\ hint.plays = <<>> /\ hint.fromPlaybook = None
        BY <1>1, <2>1
  <2> QED BY <1>4, <2>2, <2>3 DEF hint
<1>5. CASE step # "health-check"
  <2>1. hint = [all EXCEPT !.limit = r.limit]
        BY <1>5 DEF upResumeCommand, all, flags, bare
  <2> HIDE DEF hint
  <2>2. /\ IsReq(hint) /\ hint.do = "up" /\ hint.from = step /\ hint.phases = Defaults.phases
        /\ hint.limit = r.limit /\ hint.module = all.module /\ hint.exclude = all.exclude
        /\ hint.with = all.with /\ hint.infraOnly = all.infraOnly
        /\ hint.plays = all.plays /\ hint.fromPlaybook = all.fromPlaybook
        BY <1>3, <2>1 DEF IsReq
  <2>3. GoodRequest(hint)
        BY <2>2, DefaultsGood DEF GoodRequest, StepsFor
  <2> QED BY <1>2, <1>3, <1>5, <2>2, <2>3 DEF hint
<1> QED BY <1>4, <1>5
-----------------------------------------------------------------------------
(* The range, the cloud and the lab.                                        *)
IsMachine(m) ==
    /\ m = [role |-> m.role, gen |-> m.gen, on |-> m.on, online |-> m.online, built |-> m.built, done |-> m.done]
    /\ m.role \in LabHosts /\ m.gen \in 0 .. MaxGen
IsCloud(c) ==
    /\ c = [machines |-> c.machines, extras |-> c.extras, backend |-> c.backend, bucket |-> c.bucket, last |-> c.last]
    /\ \A m \in c.machines : IsMachine(m)
    /\ c.extras \subseteq Optional \cap range.optional
    /\ c.last \in [LabHosts -> 0 .. MaxGen]
IsLab(l) ==
    /\ l = [ad |-> l.ad, drift |-> l.drift, left |-> l.left, loopback |-> l.loopback, sudo |-> l.sudo]
    /\ l.ad \subseteq Objects /\ l.left \subseteq Artifacts
IsBudget(b) ==
    /\ b = [faults |-> b.faults, events |-> b.events, commands |-> b.commands, calm |-> b.calm]
    /\ b.faults \in Nat /\ b.events \in Nat /\ b.commands \in Nat
Addressed == AWS => \A h \in DOMAIN inv.hosts : inv.hosts[h].addr # None

Standing ==
    /\ range.name \in DOMAIN Requests
    /\ IsCloud(cloud) /\ IsLab(lab) /\ IsBudget(spent) /\ Addressed

LEMMA RequestsGood == ASSUME NEW r \in Requests[range.name], range.name \in DOMAIN Requests PROVE GoodRequest(r)
<1>1. /\ r \in [do : Commands, action : STRING, from : {None, "doctor", "infra", "provision", "health-check"},
                skipDoctor : BOOLEAN, infraOnly : BOOLEAN, plays : Seq(STRING), fromPlaybook : STRING,
                limit : [set : BOOLEAN, exact : BOOLEAN, hosts : SUBSET Hosts],
                module : STRING, individual : BOOLEAN, exclude : SUBSET STRING, with : SUBSET Optional,
                approve : BOOLEAN, bootstrap : BOOLEAN, skipPurge : BOOLEAN, skipCreator : BOOLEAN,
                apply : BOOLEAN, checkOnly : BOOLEAN, phases : PhaseLists]
      /\ r.limit.exact => r.limit.set
      /\ r.do = "reset" => r.apply /\ r.fromPlaybook = None
      BY RequestsAssumption
<1>2. IsReq(r)
      BY <1>1 DEF IsReq
<1> QED BY <1>1, <1>2 DEF GoodRequest

(* Machines are replaced one for one or in sets, and keep their names.      *)
LEMMA Remade ==
    ASSUME NEW m, IsMachine(m), NEW x
    PROVE  /\ IsMachine([m EXCEPT !.on = x]) /\ [m EXCEPT !.on = x].role = m.role /\ [m EXCEPT !.on = x].gen = m.gen
           /\ IsMachine([m EXCEPT !.online = x]) /\ [m EXCEPT !.online = x].role = m.role
           /\ [m EXCEPT !.online = x].gen = m.gen
           /\ IsMachine([m EXCEPT !.done = x]) /\ [m EXCEPT !.done = x].role = m.role
           /\ [m EXCEPT !.done = x].gen = m.gen
BY DEF IsMachine

LEMMA FreshIsMachine ==
    ASSUME IsCloud(cloud), NEW h \in LabHosts, Buildable(h)
    PROVE  IsMachine(Fresh(h)) /\ Fresh(h).role = h /\ cloud.last[h] + 1 \in 0 .. MaxGen
<1>1. cloud.last[h] \in 0 .. MaxGen /\ cloud.last[h] < MaxGen /\ MaxGen \in Nat
      BY BoundsAssumption DEF IsCloud, Buildable
<1>2. cloud.last[h] + 1 \in 0 .. MaxGen
      BY <1>1
<1> QED BY <1>2 DEF Fresh, Built, IsMachine

\* What c keeps of the cloud when its machines become M and its units E.
LEMMA CloudRemade ==
    ASSUME IsCloud(cloud), NEW M, NEW E, NEW b, NEW k, NEW l \in [LabHosts -> 0 .. MaxGen],
           \A m \in M : IsMachine(m), E \subseteq Optional \cap range.optional, range' = range, NEW c,
           \/ c = cloud
           \/ c = [cloud EXCEPT !.machines = M] \/ c = [cloud EXCEPT !.backend = b]
           \/ c = [cloud EXCEPT !.bucket = k]
           \/ c = [cloud EXCEPT !.machines = M, !.last = l, !.extras = E]
           \/ c = [cloud EXCEPT !.machines = M, !.last = l]
           \/ c = [cloud EXCEPT !.machines = M, !.extras = E]
    PROVE  /\ c = [machines |-> c.machines, extras |-> c.extras, backend |-> c.backend, bucket |-> c.bucket,
                   last |-> c.last]
           /\ \A m \in c.machines : IsMachine(m)
           /\ c.extras \subseteq Optional \cap range'.optional
           /\ c.last \in [LabHosts -> 0 .. MaxGen]
           /\ c.machines \in {M, cloud.machines} /\ c.extras \in {E, cloud.extras}
BY DEF IsCloud

LEMMA LabRemade ==
    ASSUME IsLab(lab), NEW a \in SUBSET Objects, NEW d, NEW l \in SUBSET Artifacts, NEW k,
           \/ k = lab
           \/ k = [lab EXCEPT !.ad = a] \/ k = [lab EXCEPT !.ad = a, !.drift = d] \/ k = [lab EXCEPT !.left = l]
           \/ k = [lab EXCEPT !.ad = a, !.drift = d, !.left = l]
    PROVE  IsLab(k) /\ k.ad \in {lab.ad, a}
BY DEF IsLab

LEMMA SelectedShown == Selected \subseteq LabHosts \cup range.optional
BY DEF Selected

LEMMA AppliedKeeps ==
    ASSUME IsCloud(cloud), range' = range, NEW U, U \subseteq LabHosts \cup range.optional, NEW R,
           cloud' = Applied(U, R)
    PROVE  IsCloud(cloud)'
<1> DEFINE kept == cloud.machines \ {m \in Stale : m.role \in U \cap R /\ Buildable(m.role)}
           new == {h \in U \cap LabHosts : Buildable(h) /\ ~\E m \in kept \cap Managed : m.role = h}
           M == kept \cup {Fresh(h) : h \in new}
           l == [h \in LabHosts |-> IF h \in new THEN cloud.last[h] + 1 ELSE cloud.last[h]]
           E == cloud.extras \cup (U \cap Optional)
<1>1. cloud' = [cloud EXCEPT !.machines = M, !.last = l, !.extras = E]
      BY DEF Applied, IsCloud
<1>2. \A h \in new : IsMachine(Fresh(h)) /\ cloud.last[h] + 1 \in 0 .. MaxGen
      BY FreshIsMachine
<1>3. \A m \in M : IsMachine(m)
  <2>1. kept \subseteq cloud.machines
        OBVIOUS
  <2> HIDE DEF kept, new
  <2> QED BY <1>2, <2>1 DEF IsCloud
<1>4. l \in [LabHosts -> 0 .. MaxGen]
  <2> HIDE DEF new
  <2> QED BY <1>2 DEF IsCloud
<1>5. E \subseteq Optional \cap range.optional
      BY LabAssumption DEF IsCloud
<1> HIDE DEF M, l, E
<1> QED BY <1>1, <1>3, <1>4, <1>5, CloudRemade DEF IsCloud

LEMMA DestroyedKeeps ==
    ASSUME IsCloud(cloud), range' = range, NEW U, cloud' = Destroyed(U)
    PROVE  /\ IsCloud(cloud)' /\ cloud'.extras = cloud.extras \ U
           /\ cloud'.machines = cloud.machines \ {m \in Managed : m.role \in U}
<1> DEFINE M == cloud.machines \ {m \in Managed : m.role \in U}
           E == cloud.extras \ U
<1>1. cloud' = [cloud EXCEPT !.machines = M, !.extras = E]
      BY DEF Destroyed, IsCloud
<1>2. (\A m \in M : IsMachine(m)) /\ E \subseteq Optional \cap range.optional
      BY DEF IsCloud
<1>3. cloud'.machines = M /\ cloud'.extras = E
      BY <1>1 DEF IsCloud
<1>4. IsCloud(cloud)'
  <2> HIDE DEF M, E
  <2> QED BY <1>1, <1>2, CloudRemade DEF IsCloud
<1> QED BY <1>3, <1>4

LEMMA SurvivorsAre ==
    ASSUME IsLab(lab), NEW M, lab' = [lab EXCEPT !.ad = Survivors(M)]
    PROVE  IsLab(lab)'
<1>1. Survivors(M) \in SUBSET Objects
      BY DEF Survivors, IsLab
<1> QED BY <1>1, LabRemade DEF IsLab

LEMMA InfraStands ==
    ASSUME IsCloud(cloud), IsLab(lab), range' = range, InfraStep
    PROVE  IsCloud(cloud)' /\ IsLab(lab)'
<1>0. UNCHANGED cloud => IsCloud(cloud)'
      BY DEF IsCloud
<1>1. UNCHANGED lab => IsLab(lab)'
      BY DEF IsLab
<1>2. CASE materializeLabConfig \/ recordMaterializedConfigOwnership \/ confirmDestroy \/ checkLocalInfraState
      BY <1>0, <1>1, <1>2 DEF materializeLabConfig, recordMaterializedConfigOwnership, confirmDestroy,
         checkLocalInfraState
<1>3. CASE runAllInit
  <2>1. \/ UNCHANGED cloud
        \/ cloud' = [cloud EXCEPT !.backend = cloud.backend \/ cmd.req.bootstrap]
        BY <1>3 DEF runAllInit, IsCloud
  <2>2. UNCHANGED lab
        BY <1>3 DEF runAllInit
  <2>3. ASSUME NEW b, cloud' = [cloud EXCEPT !.backend = b] PROVE IsCloud(cloud)'
        BY <2>3 DEF IsCloud
  <2> QED BY <1>0, <1>1, <2>1, <2>2, <2>3
<1>4. CASE RunAll
  <2>1. PICK U \in IF Refused THEN {{}} ELSE SUBSET Selected, R \in {{}, {m.role : m \in Stale}} :
            cloud' = Effect(U, R)
        BY <1>4 DEF RunAll
  <2>2. U \subseteq LabHosts \cup range.optional
        BY <2>1, SelectedShown
  <2>3. cloud' = Applied(U, R) \/ cloud' = Destroyed(U) \/ cloud' = cloud
        BY <2>1 DEF Effect
  <2>4. lab' = [lab EXCEPT !.ad = Survivors(cloud'.machines)]
        BY <1>4 DEF RunAll
  <2> QED BY <1>0, <2>2, <2>3, <2>4, AppliedKeeps, DestroyedKeeps, SurvivorsAre
<1>5. CASE deleteSSMBucket
  <2>1. \/ UNCHANGED cloud
        \/ cloud' = [cloud EXCEPT !.bucket = cloud.bucket /\ ~ssmBucketCleanupTarget]
        BY <1>5 DEF deleteSSMBucket, IsCloud
  <2>2. UNCHANGED lab
        BY <1>5 DEF deleteSSMBucket
  <2>3. ASSUME NEW b, cloud' = [cloud EXCEPT !.bucket = b] PROVE IsCloud(cloud)'
        BY <2>3 DEF IsCloud
  <2> QED BY <1>0, <1>1, <2>1, <2>2, <2>3
<1> QED BY <1>2, <1>3, <1>4, <1>5 DEF InfraStep

(* Machines switched, removed or worked on.                                 *)
LEMMA MachinesStand ==
    ASSUME IsCloud(cloud), range' = range, NEW M, cloud' = [cloud EXCEPT !.machines = M],
           \A m \in M : IsMachine(m)
    PROVE  IsCloud(cloud)' /\ cloud'.machines = M /\ cloud'.extras = cloud.extras
BY DEF IsCloud

LEMMA PowerStands ==
    ASSUME IsCloud(cloud), IsLab(lab), range' = range, runLabAction \/ destroyVM
    PROVE  IsCloud(cloud)' /\ IsLab(lab)'
<1>0. (UNCHANGED cloud => IsCloud(cloud)') /\ (UNCHANGED lab => IsLab(lab)')
      BY DEF IsCloud, IsLab
<1>1. CASE runLabAction
  <2> DEFINE want == cmd.req.action = "start"
             those == {m \in cloud.machines : m.on # want}
             M == (cloud.machines \ those) \cup {[m EXCEPT !.on = want] : m \in those}
  <2>1. lab' = lab /\ (cloud' = cloud \/ cloud' = [cloud EXCEPT !.machines = M])
        BY <1>1 DEF runLabAction, IsCloud
  <2>2. \A m \in those : IsMachine([m EXCEPT !.on = want])
        BY Remade DEF IsCloud
  <2>3. those \subseteq cloud.machines
        OBVIOUS
  <2> HIDE DEF those, want
  <2>4. \A m \in M : IsMachine(m)
        BY <2>2, <2>3 DEF IsCloud
  <2> HIDE DEF M
  <2> QED BY <1>0, <2>1, <2>4, MachinesStand
<1>2. CASE destroyVM
  <2>1. \/ UNCHANGED <<cloud, lab>>
        \/ /\ \E M \in SUBSET cloud.machines : cloud' = [cloud EXCEPT !.machines = M]
           /\ lab' = [lab EXCEPT !.ad = Survivors(cloud'.machines)]
        BY <1>2 DEF destroyVM, IsCloud
  <2>2. ASSUME NEW M \in SUBSET cloud.machines, cloud' = [cloud EXCEPT !.machines = M] PROVE IsCloud(cloud)'
    <3>1. \A m \in M : IsMachine(m)
          BY DEF IsCloud
    <3> QED BY <2>2, <3>1, MachinesStand
  <2> QED BY <1>0, <2>1, <2>2, SurvivorsAre
<1> QED BY <1>1, <1>2

(* A playbook adds objects to the lab and names to its machines.            *)
LEMMA RanStands ==
    ASSUME IsCloud(cloud), IsLab(lab), range' = range, NEW p, NEW M, M \subseteq cloud.machines, NEW kept,
           Ran(p, M, kept)
    PROVE  IsCloud(cloud)' /\ IsLab(lab)' /\ lab.ad \subseteq lab'.ad
<1> DEFINE N == (cloud.machines \ M) \cup {[m EXCEPT !.done = @ \cup {p}] : m \in M}
           A == lab.ad \cup Restorable(p, M)
           D == lab.drift \ (Correctable(p, M) \ kept)
<1>1. cloud' = [cloud EXCEPT !.machines = N]
      BY DEF Ran, IsCloud
<1>2. lab' = [lab EXCEPT !.ad = A, !.drift = D]
      BY DEF Ran, IsLab
<1>3. \A m \in M : IsMachine([m EXCEPT !.done = m.done \cup {p}])
      BY Remade DEF IsCloud
<1>4. \A m \in M : [m EXCEPT !.done = @ \cup {p}] = [m EXCEPT !.done = m.done \cup {p}]
      OBVIOUS
<1>5. \A m \in N : IsMachine(m)
      BY <1>3, <1>4 DEF IsCloud
<1>6. A \in SUBSET Objects /\ lab.ad \subseteq A
      BY DEF IsLab, Restorable
<1> HIDE DEF N, A, D
<1>7. IsCloud(cloud)'
      BY <1>1, <1>5, MachinesStand
<1>8. IsLab(lab)' /\ lab.ad \subseteq lab'.ad
      BY <1>2, <1>6, LabRemade DEF IsLab
<1> QED BY <1>7, <1>8

LEMMA ProvisionStands ==
    ASSUME IsCloud(cloud), IsLab(lab), range' = range, ProvisionStep \/ runUpDoctor
    PROVE  IsCloud(cloud)' /\ IsLab(lab)' /\ lab.ad \subseteq lab'.ad
<1>0. (UNCHANGED cloud => IsCloud(cloud)') /\ (UNCHANGED lab => IsLab(lab)' /\ lab.ad \subseteq lab'.ad)
      BY DEF IsCloud, IsLab
<1>1. CASE ensureSSMBucket
  <2>1. /\ UNCHANGED lab
        /\ \/ UNCHANGED cloud
           \/ cloud' = [cloud EXCEPT !.bucket = TRUE]
        BY <1>1 DEF ensureSSMBucket
  <2>2. cloud' = [cloud EXCEPT !.bucket = TRUE] => IsCloud(cloud)'
        BY DEF IsCloud
  <2> QED BY <1>0, <2>1, <2>2
<1>2. CASE RunPlaybook
  <2>1. PICK hosts, M, kept : /\ M \subseteq UNION {Reached(h) : h \in hosts}
                              /\ Ran(Head(cmd.left), M, kept)
        BY <1>2, Zenon DEF RunPlaybook
  <2>2. M \subseteq cloud.machines
        BY <2>1 DEF Reached
  <2> QED BY <2>1, <2>2, RanStands
<1>3. CASE \/ runProvision \/ checkAnsibleRuntime \/ BuildCollection \/ ensureVariant \/ generateVariant
           \/ ensureInventoryTopology \/ ensureTransport
           \/ ensureInventorySynced \/ syncAzureInventoryIPs \/ syncAzurePasswords
           \/ validateInventory \/ maybeStartSOCKSTunnel \/ runUpDoctor
  <2>1. UNCHANGED <<cloud, lab>>
        BY <1>3 DEF runProvision, checkAnsibleRuntime, BuildCollection, ensureVariant, generateVariant,
           ensureInventoryTopology, ensureTransport, ensureInventorySynced, syncAzureInventoryIPs,
           syncAzurePasswords, validateInventory, maybeStartSOCKSTunnel, runUpDoctor, OnlyCmd
  <2> QED BY <1>0, <2>1
<1> QED BY <1>1, <1>2, <1>3 DEF ProvisionStep

LEMMA HealthStands ==
    ASSUME IsCloud(cloud), IsLab(lab), range' = range, HealthStep
    PROVE  IsCloud(cloud)' /\ lab' = lab
<1>0. UNCHANGED cloud => IsCloud(cloud)'
      BY DEF IsCloud
<1>1. CASE requireInfra \/ runHealthChecks
      BY <1>0, <1>1 DEF requireInfra, runHealthChecks
<1>2. CASE checkSSMOnline
  <2>1. PICK revived \in SUBSET cloud.machines :
            \/ cloud' = cloud
            \/ cloud' = [cloud EXCEPT !.machines = (cloud.machines \ revived) \cup {[m EXCEPT !.online = TRUE] : m \in revived}]
    <3>1. CASE Now(cmd.seen) \ Answering(cmd.seen) = {}
          BY <1>2, <3>1 DEF checkSSMOnline
    <3>2. CASE Now(cmd.seen) \ Answering(cmd.seen) # {}
      <4>1. PICK revived \in SUBSET {m \in Now(cmd.seen) \ Answering(cmd.seen) : m.on} :
                cloud' = [cloud EXCEPT !.machines = (@ \ revived) \cup {[m EXCEPT !.online = TRUE] : m \in revived}]
            BY <1>2, <3>2, Zenon DEF checkSSMOnline
      <4>2. revived \in SUBSET cloud.machines
            BY <4>1 DEF Now
      <4> QED BY <4>1, <4>2 DEF IsCloud
    <3> QED BY <3>1, <3>2
  <2> DEFINE M == (cloud.machines \ revived) \cup {[m EXCEPT !.online = TRUE] : m \in revived}
  <2>5. \A m \in revived : IsMachine(m)
        BY <2>1 DEF IsCloud
  <2>6. \A m \in revived : IsMachine([m EXCEPT !.online = TRUE])
        BY <2>5, Remade
  <2>2. \A m \in M : IsMachine(m)
        BY <2>6 DEF IsCloud
  <2>3. cloud' = cloud \/ cloud' = [cloud EXCEPT !.machines = M]
        BY <2>1
  <2> HIDE DEF M
  <2>4. lab' = lab
        BY <1>2 DEF checkSSMOnline
  <2> QED BY <1>0, <2>2, <2>3, <2>4, MachinesStand
<1> QED BY <1>1, <1>2 DEF HealthStep, requireInfra, runHealthChecks

(* A reset deletes only what is flagged, and the less the more it can look  *)
(* up.                                                                      *)
LEMMA SurelyFlagged ==
    ASSUME IsLab(lab), NEW d, NEW o \in flagged(d, TRUE)
    PROVE  o \in flagged(d, FALSE) /\ ~o.trust
<1>1. o \in Objects /\ (o.trust => o.class # "group")
      BY ObjectsAssumption DEF flagged, flaggedUsers, flaggedComputers, flaggedGroups, Unlisted, IsLab
<1>2. CASE o \in flaggedUsers(d, TRUE)
  <2>1. o \in flaggedUsers(d, FALSE) /\ ~o.trust /\ o.class = "user"
        BY <1>2 DEF flaggedUsers, Unlisted, AdminMade
  <2>2. cmd.do # "score"
        BY <2>1 DEF flagged, flaggedComputers, Unlisted
  <2> QED BY <2>1, <2>2 DEF flagged
<1>3. CASE o \in flaggedComputers(d, TRUE)
      BY <1>3 DEF flagged, flaggedComputers, Unlisted, AdminMade
<1>4. CASE o \in flaggedGroups(d)
  <2>1. o.class = "group"
        BY <1>4 DEF flaggedGroups, Unlisted
  <2>2. cmd.do # "score"
        BY <2>1 DEF flagged, flaggedComputers, Unlisted
  <2> QED BY <1>1, <1>4, <2>1, <2>2 DEF flagged
<1> QED BY <1>2, <1>3, <1>4 DEF flagged

LEMMA ResetStands ==
    ASSUME IsCmd(cmd), IsCloud(cloud), IsLab(lab), range' = range, ResetStep
    PROVE  /\ IsCloud(cloud)' /\ IsLab(lab)' /\ cloud' = cloud /\ lab'.left \subseteq lab.left
           /\ \A o \in lab.ad \ lab'.ad :
                /\ At("purge", "dcs") /\ (o.trust => cmd'.slips)
                /\ \E d : \E sure \in BOOLEAN : o \in flagged(d, sure) /\ (sure \/ Fault)
<1>0. (UNCHANGED cloud => IsCloud(cloud)') /\ (UNCHANGED lab => IsLab(lab)')
      BY DEF IsCloud, IsLab
<1>1. CASE liveDCTargets \/ resetKali
      BY <1>0, <1>1 DEF liveDCTargets, resetKali
<1>2. CASE runKaliCleanup \/ runWindowsCleanup
  <2>1. cloud' = cloud /\ (lab' = lab \/ \E gone : lab' = [lab EXCEPT !.left = @ \ gone])
    <3>1. CASE runKaliCleanup
          BY <3>1 DEF runKaliCleanup
    <3>2. CASE runWindowsCleanup
          BY <3>2 DEF runWindowsCleanup
    <3> QED BY <1>2, <3>1, <3>2
  <2>2. ASSUME NEW gone, lab' = [lab EXCEPT !.left = @ \ gone]
        PROVE  IsLab(lab)' /\ lab'.ad = lab.ad /\ lab'.left \subseteq lab.left
    <3>1. IsLab(lab') /\ lab'.ad = lab.ad /\ lab'.left = lab.left \ gone
      <4> DEFINE l == lab.left \ gone
      <4>1. lab' = [lab EXCEPT !.left = l] /\ l \subseteq Artifacts
            BY <2>2 DEF IsLab
      <4> HIDE DEF l
      <4>2. IsLab(lab') /\ lab'.ad = lab.ad /\ lab'.left = l
            BY <4>1 DEF IsLab
      <4> QED BY <4>2 DEF l
    <3> QED BY <3>1 DEF IsLab
  <2> QED BY <1>0, <2>1, <2>2
<1>3. CASE runPurgeOnDC
  <2>1. At("purge", "dcs") /\ cloud' = cloud
        BY <1>3 DEF runPurgeOnDC
  <2>2. \/ lab' = lab
        \/ \E d, gone : \E sure \in BOOLEAN :
              /\ gone \subseteq flagged(d, sure) /\ (sure \/ Fault) /\ lab' = [lab EXCEPT !.ad = lab.ad \ gone]
              /\ (\E o \in gone : o.trust) => cmd'.slips
    <3> DEFINE left == {m.role : m \in cmd.seen} \ cmd.over
               apply(d) == cmd.req.apply /\ \E m \in Answering(cmd.seen) : m.role = d
               gone(d, sure) == IF apply(d) THEN flagged(d, sure) ELSE {}
               adminMade(d) == {o \in gone(d, FALSE) \ gone(d, TRUE) : ~o.trust}
    <3>1. \/ UNCHANGED lab
          \/ \E d \in left :
                \/ \E missed \in SUBSET adminMade(d) :
                    /\ lab' = [lab EXCEPT !.ad = @ \ (gone(d, TRUE) \cup missed)]
                    /\ missed = {} \/ Fault
                \/ /\ Fault /\ \E part \in SUBSET gone(d, FALSE) : lab' = [lab EXCEPT !.ad = @ \ part]
                   /\ cmd' = [cmd EXCEPT !.over = @ \cup {d}, !.slips = TRUE]
          BY <1>3, ZenonT(60) DEF runPurgeOnDC
    <3>2. /\ \A d, sure : gone(d, sure) \subseteq flagged(d, sure)
          /\ \A d : \A o \in gone(d, TRUE) : o \in flagged(d, FALSE) /\ ~o.trust
          BY SurelyFlagged
    <3>3. \A part : [lab EXCEPT !.ad = @ \ part] = [lab EXCEPT !.ad = lab.ad \ part]
          BY DEF IsLab
    <3>4. \A d : cmd' = [cmd EXCEPT !.over = @ \cup {d}, !.slips = TRUE] => cmd'.slips
          BY DEF IsCmd
    <3> HIDE DEF left, gone
    <3>5. ASSUME NEW d \in left, NEW missed \in SUBSET adminMade(d), missed = {} \/ Fault,
                 lab' = [lab EXCEPT !.ad = @ \ (gone(d, TRUE) \cup missed)]
          PROVE  \E g : \E sure \in BOOLEAN :
                    /\ g \subseteq flagged(d, sure) /\ (sure \/ Fault) /\ lab' = [lab EXCEPT !.ad = lab.ad \ g]
                    /\ (\E o \in g : o.trust) => cmd'.slips
      <4> DEFINE g == gone(d, TRUE) \cup missed
      <4>1. lab' = [lab EXCEPT !.ad = lab.ad \ g] /\ ~\E o \in g : o.trust
            BY <3>2, <3>3, <3>5
      <4>2. g \subseteq flagged(d, FALSE) /\ (missed = {} => g \subseteq flagged(d, TRUE))
            BY <3>2
      <4> HIDE DEF g
      <4> QED BY <3>5, <4>1, <4>2
    <3>6. CASE \E d \in left :
                /\ Fault /\ \E part \in SUBSET gone(d, FALSE) : lab' = [lab EXCEPT !.ad = @ \ part]
                /\ cmd' = [cmd EXCEPT !.over = @ \cup {d}, !.slips = TRUE]
          BY <3>2, <3>3, <3>4, <3>6
    <3> QED BY <3>1, <3>5, <3>6
  <2>3. ASSUME NEW d, NEW gone, NEW sure, gone \subseteq flagged(d, sure), lab' = [lab EXCEPT !.ad = lab.ad \ gone]
        PROVE  IsLab(lab)' /\ lab.ad \ lab'.ad \subseteq flagged(d, sure) /\ lab'.left = lab.left
    <3>1. lab.ad \ gone \in SUBSET Objects
          BY DEF IsLab
    <3>2. IsLab(lab)' /\ lab'.ad = lab.ad \ gone /\ lab'.left = lab.left
          BY <2>3, <3>1 DEF IsLab
    <3> QED BY <2>3, <3>2
  <2>4. CASE lab' = lab
        BY <1>0, <2>1, <2>4 DEF IsCloud
  <2>5. CASE \E d, gone : \E sure \in BOOLEAN :
                /\ gone \subseteq flagged(d, sure) /\ (sure \/ Fault) /\ lab' = [lab EXCEPT !.ad = lab.ad \ gone]
                /\ (\E o \in gone : o.trust) => cmd'.slips
    <3>1. PICK d, gone : \E sure \in BOOLEAN :
                /\ gone \subseteq flagged(d, sure) /\ (sure \/ Fault) /\ lab' = [lab EXCEPT !.ad = lab.ad \ gone]
                /\ (\E o \in gone : o.trust) => cmd'.slips
          BY <2>5
    <3>2. PICK sure \in BOOLEAN :
                /\ gone \subseteq flagged(d, sure) /\ (sure \/ Fault) /\ lab' = [lab EXCEPT !.ad = lab.ad \ gone]
                /\ (\E o \in gone : o.trust) => cmd'.slips
          BY <3>1
    <3>3. IsLab(lab)' /\ lab'.left = lab.left
          BY <2>3, <3>2
    <3>4. lab.ad \ lab'.ad \subseteq gone
      <4> DEFINE rest == lab.ad \ gone
      <4>1. lab' = [lab EXCEPT !.ad = rest]
            BY <3>2
      <4> HIDE DEF rest
      <4>2. lab'.ad = rest
            BY <4>1 DEF IsLab
      <4> QED BY <4>2 DEF rest
    <3>5. \A o \in lab.ad \ lab'.ad :
             /\ At("purge", "dcs") /\ (o.trust => cmd'.slips)
             /\ \E c : \E certain \in BOOLEAN : o \in flagged(c, certain) /\ (certain \/ Fault)
          BY <2>1, <3>2, <3>4
    <3>6. IsCloud(cloud)'
          BY <1>0, <2>1
    <3> QED BY <2>1, <3>3, <3>5, <3>6
  <2> QED BY <2>2, <2>4, <2>5
<1> QED BY <1>1, <1>2, <1>3 DEF ResetStep, liveDCTargets, resetKali

(* What happens behind the CLI's back.                                      *)
Happens == MachineReplaced \/ MachineDuplicated \/ MachineStopped \/ AgentDropped \/ ConfigEdited \/ Engaged
LEMMA HappensStands ==
    ASSUME Standing, Happens
    PROVE  /\ Standing' /\ spent'.events = spent.events + 1
           /\ UNCHANGED <<range, inv, cmd>>
           /\ Managed = {} => Managed' = {} /\ cloud'.extras = cloud.extras
<1>1. UNCHANGED <<range, inv, cmd>> /\ spent' = [spent EXCEPT !.events = @ + 1, !.calm = FALSE]
      BY DEF Happens, MachineReplaced, MachineDuplicated, MachineStopped, AgentDropped, ConfigEdited, Engaged,
         Outside
<1>2. IsBudget(spent)' /\ spent'.events = spent.events + 1
  <2>1. IsBudget(spent)
        BY DEF Standing
  <2>2. /\ spent' = [faults |-> spent'.faults, events |-> spent'.events, commands |-> spent'.commands,
                    calm |-> spent'.calm]
        /\ spent'.events = spent.events + 1 /\ spent'.faults = spent.faults /\ spent'.commands = spent.commands
        BY <1>1, <2>1 DEF IsBudget
  <2>3. spent'.events \in Nat
        BY <2>1, <2>2 DEF IsBudget
  <2> QED BY <2>1, <2>2, <2>3 DEF IsBudget
<1>3. Addressed'
      BY <1>1 DEF Standing, Addressed, AWS
<1>0. /\ UNCHANGED cloud => IsCloud(cloud)' /\ (Managed = {} => Managed' = {} /\ cloud'.extras = cloud.extras)
      /\ UNCHANGED lab => IsLab(lab)'
      BY <1>1 DEF Standing, IsCloud, IsLab, Managed
<1>4. IsCloud(cloud)' /\ IsLab(lab)' /\ (Managed = {} => Managed' = {} /\ cloud'.extras = cloud.extras)
  <2> USE DEF Standing
  <2>1. CASE MachineReplaced
    <3>1. PICK m \in Managed :
            /\ Buildable(m.role)
            /\ cloud' = [cloud EXCEPT !.machines = (@ \ {m}) \cup {Fresh(m.role)}, !.last[m.role] = @ + 1]
            /\ lab' = [lab EXCEPT !.ad = {o \in @ : o.dc # m.role}]
          BY <2>1 DEF MachineReplaced
    <3> DEFINE M == (cloud.machines \ {m}) \cup {Fresh(m.role)}
               l == [cloud.last EXCEPT ![m.role] = @ + 1]
               A == {o \in lab.ad : o.dc # m.role}
    <3>2. m.role \in LabHosts
          BY DEF Managed, IsCloud, IsMachine
    <3>3. l \in [LabHosts -> 0 .. MaxGen] /\ \A n \in M : IsMachine(n)
          BY <3>1, <3>2, FreshIsMachine DEF IsCloud
    <3>4. cloud' = [cloud EXCEPT !.machines = M, !.last = l] /\ lab' = [lab EXCEPT !.ad = A] /\ A \in SUBSET Objects
          BY <3>1 DEF IsCloud, IsLab
    <3>5. Managed # {}
          OBVIOUS
    <3> HIDE DEF M, l, A
    <3>6. IsCloud(cloud)'
          BY <1>1, <3>3, <3>4 DEF IsCloud
    <3> QED BY <3>4, <3>5, <3>6, LabRemade DEF IsLab
  <2>2. CASE MachineDuplicated
    <3>1. PICK m \in Managed : cloud' = [cloud EXCEPT !.machines = @ \cup {Built(m.role, 0)}] /\ lab' = lab
          BY <2>2 DEF MachineDuplicated
    <3> DEFINE M == cloud.machines \cup {Built(m.role, 0)}
    <3>2. m.role \in LabHosts /\ 0 \in 0 .. MaxGen
          BY BoundsAssumption DEF Managed, IsCloud, IsMachine
    <3>3. \A n \in M : IsMachine(n)
          BY <3>2 DEF IsCloud, Built, IsMachine
    <3>4. cloud' = [cloud EXCEPT !.machines = M]
          BY <3>1 DEF IsCloud
    <3>5. Managed # {}
          OBVIOUS
    <3> HIDE DEF M
    <3> QED BY <1>0, <1>1, <3>1, <3>3, <3>4, <3>5, MachinesStand
  <2>3. CASE MachineStopped \/ AgentDropped
    <3>0. PICK m \in cloud.machines :
             \E n \in {[m EXCEPT !.on = FALSE], [m EXCEPT !.online = FALSE]} :
                 cloud' = [cloud EXCEPT !.machines = (@ \ {m}) \cup {n}] /\ lab' = lab
          BY <2>3 DEF MachineStopped, AgentDropped
    <3>1. PICK n \in {[m EXCEPT !.on = FALSE], [m EXCEPT !.online = FALSE]} :
             cloud' = [cloud EXCEPT !.machines = (@ \ {m}) \cup {n}] /\ lab' = lab
          BY <3>0
    <3> DEFINE M == (cloud.machines \ {m}) \cup {n}
    <3>2. IsMachine(m)
          BY DEF IsCloud
    <3>3. IsMachine(n) /\ n.gen = m.gen
      <4>1. CASE n = [m EXCEPT !.on = FALSE]
            BY <3>2, <4>1, Remade
      <4>2. CASE n = [m EXCEPT !.online = FALSE]
            BY <3>2, <4>2, Remade
      <4> QED BY <3>1, <4>1, <4>2
    <3>4. cloud' = [cloud EXCEPT !.machines = M] /\ \A k \in M : IsMachine(k)
          BY <3>1, <3>3 DEF IsCloud
    <3>5. IsCloud(cloud)' /\ cloud'.machines = M /\ cloud'.extras = cloud.extras
      <4> HIDE DEF M
      <4> QED BY <1>1, <3>4, MachinesStand
    <3>6. Managed = {} => Managed' = {}
          BY <3>3, <3>5 DEF Managed
    <3> QED BY <1>0, <3>1, <3>5, <3>6
  <2>4. CASE ConfigEdited
        BY <1>0, <2>4 DEF ConfigEdited
  <2>5. CASE Engaged
    <3>0. PICK dc \in {o.dc : o \in lab.ad} :
            /\ UNCHANGED <<disk, cloud>>
            /\ \E made \in SUBSET Objects, deleted \in SUBSET lab.ad :
                lab' = [lab EXCEPT !.ad = (@ \cup made) \ deleted, !.drift = @ \cup [dc : {dc}, covered : BOOLEAN],
                                   !.left = Artifacts]
          BY <2>5 DEF Engaged
    <3>1. PICK made \in SUBSET Objects, deleted \in SUBSET lab.ad :
            lab' = [lab EXCEPT !.ad = (@ \cup made) \ deleted, !.drift = @ \cup [dc : {dc}, covered : BOOLEAN],
                               !.left = Artifacts]
          BY <3>0
    <3> DEFINE A == (lab.ad \cup made) \ deleted
               D == lab.drift \cup [dc : {dc}, covered : BOOLEAN]
    <3>2. A \in SUBSET Objects /\ lab' = [lab EXCEPT !.ad = A, !.drift = D, !.left = Artifacts]
          BY <3>1 DEF IsLab
    <3> HIDE DEF A, D
    <3>3. IsLab(lab)'
          BY <3>2 DEF IsLab
    <3> QED BY <1>0, <3>0, <3>3
  <2> QED BY <2>1, <2>2, <2>3, <2>4, <2>5 DEF Happens
<1> QED BY <1>1, <1>2, <1>3, <1>4 DEF Standing

-----------------------------------------------------------------------------
(* The command that runs stays on its track.                                *)
LEMMA ApprovedGood ==
    ASSUME NEW r, GoodRequest(r)
    PROVE  LET a == newUpInfraCommand(r)
           IN  /\ GoodRequest(a) /\ a.do = r.do /\ a.action = r.action /\ a.limit = r.limit
               /\ a.plays = r.plays /\ a.fromPlaybook = r.fromPlaybook /\ a.from = r.from
               /\ a.infraOnly = r.infraOnly /\ a.skipDoctor = r.skipDoctor /\ a.module = r.module
               /\ a.exclude = r.exclude
               /\ a.with = r.with \cup IF AWS THEN {} ELSE {"bastion", "controller"}
<1> DEFINE yes == TRUE
           no == FALSE
           more == r.with \cup IF AWS THEN {} ELSE {"bastion", "controller"}
           a == [r EXCEPT !.approve = yes, !.individual = no, !.with = more]
<1>0. newUpInfraCommand(r) = a
      BY DEF newUpInfraCommand
<1> HIDE DEF yes, no, more
<1>a. IsReq(r)
      BY DEF GoodRequest
<1>b. /\ IsReq([r EXCEPT !.approve = yes])
      /\ IsReq([r EXCEPT !.approve = yes, !.individual = no])
      /\ IsReq(a)
  <2>1. \A t, x : IsReq(t) => /\ IsReq([t EXCEPT !.approve = x]) /\ IsReq([t EXCEPT !.individual = x])
                             /\ IsReq([t EXCEPT !.with = x])
        BY DEF IsReq
  <2> HIDE DEF a
  <2>2. a = [[[r EXCEPT !.approve = yes] EXCEPT !.individual = no] EXCEPT !.with = more]
        BY DEF a
  <2> QED BY <1>a, <2>1, <2>2
<1>1. /\ IsReq(a) /\ a.do = r.do /\ a.action = r.action /\ a.limit = r.limit
      /\ a.plays = r.plays /\ a.fromPlaybook = r.fromPlaybook /\ a.from = r.from /\ a.phases = r.phases
      /\ a.infraOnly = r.infraOnly /\ a.skipDoctor = r.skipDoctor /\ a.module = r.module
      /\ a.exclude = r.exclude /\ a.with = more /\ a.apply = r.apply
      BY <1>a, <1>b DEF IsReq
<1> HIDE DEF a
<1>2. GoodRequest(a)
      BY <1>1 DEF GoodRequest
<1> QED BY <1>0, <1>1, <1>2 DEF more

LEMMA Ends ==
    ASSUME NEW d, IsCmd(d), cmd' = Done(d)
    PROVE  /\ IsCmd(cmd') /\ cmd'.req = d.req /\ cmd'.at = "start" /\ cmd'.passed = d.passed \cup {Head(d.todo)}
           /\ Len(d.todo) > 1 => /\ cmd'.do = d.do /\ cmd'.hint = d.hint /\ cmd'.told = d.told
                                 /\ cmd'.todo = Tail(d.todo) /\ cmd'.over = {} /\ cmd'.errs = d.errs
                                 /\ cmd'.tally = d.tally /\ cmd'.slips = d.slips
           /\ cmd'.list = d.list /\ cmd'.blind = d.blind
           /\ ~(Len(d.todo) > 1) => /\ cmd'.do = "none" /\ cmd'.hint = {} /\ cmd'.tally = d.tally
                                    /\ cmd'.slips = d.slips
                                    /\ cmd'.told = "ok" => ~d.errs
<1> DEFINE e == Done(d)
<1>1. e = Done(d)
      OBVIOUS
<1> HIDE DEF e
<1>2. CASE Len(d.todo) > 1
  <2>1. /\ IsCmd(e) /\ e.req = d.req /\ e.at = "start" /\ e.passed = d.passed \cup {Head(d.todo)}
        /\ e.list = d.list /\ e.blind = d.blind
        BY <1>1, <1>2 DEF IsCmd, Done
  <2>2. /\ e.do = d.do /\ e.hint = d.hint /\ e.told = d.told
        /\ e.todo = Tail(d.todo) /\ e.over = {} /\ e.errs = d.errs /\ e.tally = d.tally /\ e.slips = d.slips
        BY <1>1, <1>2 DEF IsCmd, Done
  <2> QED BY <1>1, <1>2, <2>1, <2>2
<1>3. CASE ~(Len(d.todo) > 1)
  <2>1. /\ IsCmd(e) /\ e.req = d.req /\ e.at = "start" /\ e.passed = d.passed \cup {Head(d.todo)}
        /\ e.do = "none" /\ e.hint = {} /\ e.tally = d.tally /\ e.slips = d.slips
        /\ e.list = d.list /\ e.blind = d.blind
        BY <1>1, <1>3 DEF IsCmd, Done, Idle
  <2>2. e.told = IF d.errs THEN "failed"
                 ELSE IF d.do = "up" /\ ~d.req.infraOnly THEN "Lab is up" ELSE "ok"
        BY <1>1, <1>3 DEF Done, Idle
  <2> QED BY <1>1, <1>3, <2>1, <2>2
<1> QED BY <1>2, <1>3

LEMMA EndsUp ==
    ASSUME NEW d, cmd' = Done(d), ~(Len(d.todo) > 1), cmd'.told = "Lab is up"
    PROVE  ~d.req.infraOnly
<1>1. cmd'.told = IF d.errs THEN "failed" ELSE IF d.do = "up" /\ ~d.req.infraOnly THEN "Lab is up" ELSE "ok"
      BY DEF Done, Idle
<1> QED BY <1>1

LEMMA TrackMoves ==
    ASSUME OnTrack, Running, Moves
    PROVE  OnTrack'
<1>0. /\ IsCmd(cmd) /\ GoodRequest(cmd.req) /\ cmd.req.do = cmd.do /\ cmd.told = None
      /\ cmd.todo \in Seq(StepsFor(cmd.do)) /\ cmd.todo # <<>>
      /\ cmd.do \notin {"up", "reset", "score"} => Len(cmd.todo) = 1
      /\ \A r \in cmd.hint : GoodRequest(r) /\ r.do = "up"
      /\ cmd.req.do \in Commands
      BY DEF OnTrack, GoodRequest
<1>1. CASE Kin(cmd, cmd')
      BY <1>0, <1>1 DEF OnTrack, Kin, Running
<1>2. ASSUME NEW d, Kin(cmd, d), cmd' = Done(d) PROVE OnTrack'
  <2>0. IsCmd(d) /\ d.do = cmd.do /\ d.req = cmd.req /\ d.todo = cmd.todo /\ d.hint = cmd.hint /\ d.told = None
        BY <1>0, <1>2 DEF Kin
  <2>1. CASE Len(cmd.todo) > 1
    <3>1. /\ IsCmd(cmd') /\ cmd'.req = cmd.req /\ cmd'.do = cmd.do /\ cmd'.todo = Tail(cmd.todo)
          /\ cmd'.hint = cmd.hint /\ cmd'.told = None
      <4>1. Len(d.todo) > 1
            BY <2>0, <2>1
      <4>2. IsCmd(cmd') /\ cmd'.req = d.req /\ cmd'.do = d.do /\ cmd'.hint = d.hint /\ cmd'.told = d.told
            BY <1>2, <2>0, <4>1, Ends
      <4>3. cmd'.todo = Tail(d.todo)
            BY <1>2, <2>0, <4>1 DEF Done, IsCmd
      <4> QED BY <2>0, <4>2, <4>3
    <3> DEFINE S == StepsFor(cmd.do)
               q == cmd.todo
    <3> HIDE DEF S, q
    <3>a. q \in Seq(S) /\ q # <<>> /\ Len(q) > 1
          BY <1>0, <2>1 DEF S, q
    <3>b. Tail(q) \in Seq(S) /\ Len(Tail(q)) = Len(q) - 1
          BY <3>a
    <3>c. Tail(q) # <<>>
      <4> DEFINE t == Tail(q)
      <4>1. Len(t) # 0 /\ t \in Seq(S)
            BY <3>a, <3>b
      <4> HIDE DEF t
      <4>2. t # <<>>
            BY <4>1
      <4> QED BY <4>2 DEF t
    <3>2. Tail(cmd.todo) \in Seq(StepsFor(cmd.do))
          BY <3>b DEF S, q
    <3>3. Tail(cmd.todo) # <<>>
          BY <3>c DEF q
    <3>4. cmd'.do \in {"up", "reset", "score"}
      <4>1. cmd.do \in {"up", "reset", "score"}
        <5>1. ~(Len(q) = 1)
          <6>1. Len(q) \in Nat /\ Len(q) > 1
                BY <3>a
          <6> QED BY <6>1
        <5> QED BY <1>0, <5>1 DEF q
      <4> QED BY <3>1, <4>1
    <3>5. cmd'.todo \in Seq(StepsFor(cmd'.do)) /\ cmd'.todo # <<>>
          BY <3>1, <3>2, <3>3
    <3> QED BY <1>0, <3>1, <3>4, <3>5 DEF OnTrack, Running
  <2>2. CASE ~(Len(cmd.todo) > 1)
    <3>1. IsCmd(cmd') /\ cmd'.req = cmd.req /\ cmd'.do = "none" /\ cmd'.hint = {}
      <4>1. ~(Len(d.todo) > 1)
            BY <2>0, <2>2
      <4>2. IsCmd(cmd') /\ cmd'.req = d.req /\ cmd'.do = "none" /\ cmd'.hint = {}
            BY <1>2, <2>0, <4>1, Ends
      <4> QED BY <2>0, <4>2
    <3> QED BY <1>0, <3>1 DEF OnTrack, Running
  <2> QED BY <2>1, <2>2
<1>3. ASSUME NEW f, FailsAt(f) PROVE OnTrack'
  <2>1. /\ IsCmd(cmd') /\ cmd'.do = "none" /\ cmd'.req = cmd.req
        /\ cmd'.hint = IF cmd.do = "up" THEN {upResumeCommand(Step, f, cmd.req)} ELSE {}
        BY <1>3, Failed
  <2>2. cmd.do = "up" => Step \in StepsFor("up")
        BY <1>0 DEF Step
  <2>3. ASSUME cmd.do = "up"
        PROVE  GoodRequest(upResumeCommand(Step, f, cmd.req)) /\ upResumeCommand(Step, f, cmd.req).do = "up"
        BY <1>0, <2>2, <2>3, HintsGood
  <2> QED BY <1>0, <2>1, <2>3 DEF OnTrack, Running
<1> QED BY <1>1, <1>2, <1>3 DEF Moves

LEMMA TrackStarts ==
    ASSUME OnTrack, Standing, NEW req, Run(req), req \in Requests[range.name] \cup cmd.hint
    PROVE  /\ OnTrack' /\ GoodRequest(req) /\ cmd'.do = req.do /\ cmd'.at = "start" /\ cmd'.told = None
           /\ cmd'.req = (IF req.do = "up" THEN newUpInfraCommand(req) ELSE req)
           /\ cmd'.todo = StepsOf(req) /\ cmd'.passed = {} /\ cmd'.blind = {}
           /\ cmd'.over = {} /\ cmd'.tally = [found |-> 0, removed |-> 0]
           /\ spent' = [spent EXCEPT !.commands = @ + 1, !.calm = TRUE]
           /\ UNCHANGED <<range, disk, inv, cloud, lab>>
<1>1. GoodRequest(req)
      BY RequestsGood DEF Standing, OnTrack
<1>2. /\ IsCmd(cmd') /\ cmd'.do = req.do /\ cmd'.told = None /\ cmd'.hint = {} /\ cmd'.at = "start"
      /\ cmd'.req = (IF req.do = "up" THEN newUpInfraCommand(req) ELSE req)
      /\ cmd'.todo = StepsOf(req) /\ cmd'.passed = {} /\ cmd'.blind = {}
      /\ cmd'.over = {} /\ cmd'.tally = [found |-> 0, removed |-> 0]
      BY Started DEF Run
<1>3. GoodRequest(cmd'.req) /\ cmd'.req.do = req.do
      BY <1>1, <1>2, ApprovedGood
<1>4. OnTrack'
      BY <1>1, <1>2, <1>3, StepsAre DEF OnTrack, Running
<1> QED BY <1>1, <1>2, <1>4 DEF Run

LEMMA TrackEnds ==
    ASSUME OnTrack, Dies
    PROVE  /\ OnTrack' /\ cmd'.do = "none" /\ cmd'.told = "died" /\ cmd'.hint = {} /\ cmd'.req = cmd.req
           /\ UNCHANGED <<range, disk, inv, cloud, lab>> /\ Fault
<1>1. IsCmd(cmd') /\ cmd'.do = "none" /\ cmd'.hint = {} /\ cmd'.told = "died" /\ cmd'.req = cmd.req
      BY DEF Dies, IsCmd, Idle
<1>2. cmd.req.do \in Commands
      BY DEF Dies, OnTrack, GoodRequest
<1> QED BY <1>1, <1>2 DEF OnTrack, Running, Dies

-----------------------------------------------------------------------------
(* What the steps of a command do to the budget and to the inventory.       *)
LEMMA BudgetKept ==
    ASSUME IsBudget(spent),
           \/ spent' = spent \/ Fault
           \/ spent' = [spent EXCEPT !.commands = @ + 1, !.calm = TRUE]
    PROVE  IsBudget(spent)' /\ spent'.events = spent.events
<1>1. CASE spent' = spent
      BY <1>1 DEF IsBudget
<1>2. CASE Fault
      BY <1>2 DEF IsBudget, Fault
<1>3. CASE spent' = [spent EXCEPT !.commands = @ + 1, !.calm = TRUE]
  <2> DEFINE yes == TRUE
             n == spent.commands + 1
  <2>1. spent' = [spent EXCEPT !.commands = n, !.calm = yes] /\ n \in Nat
        BY <1>3 DEF IsBudget
  <2> HIDE DEF yes, n
  <2> QED BY <2>1 DEF IsBudget
<1> QED BY <1>1, <1>2, <1>3

LEMMA WorksSpend == ASSUME Works PROVE spent' = spent \/ Fault
<1>1. CASE InfraStep \/ runLabAction \/ destroyVM
      BY <1>1 DEF InfraStep, materializeLabConfig, recordMaterializedConfigOwnership, confirmDestroy,
         checkLocalInfraState, runAllInit, RunAll, deleteSSMBucket, runLabAction, destroyVM
<1>2. CASE ProvisionStep \/ runUpDoctor
      BY <1>2 DEF ProvisionStep, runProvision, checkAnsibleRuntime, BuildCollection, ensureVariant, generateVariant,
         ensureInventoryTopology, ensureTransport, ensureSSMBucket, ensureInventorySynced, syncAzureInventoryIPs,
         syncAzurePasswords, validateInventory, maybeStartSOCKSTunnel, RunPlaybook, runUpDoctor, OnlyCmd
<1>3. CASE HealthStep
      BY <1>3 DEF HealthStep, requireInfra, checkSSMOnline, runHealthChecks
<1>4. CASE ResetStep
      BY <1>4 DEF ResetStep, liveDCTargets, runPurgeOnDC, resetKali, runKaliCleanup, runWindowsCleanup
<1> QED BY <1>1, <1>2, <1>3, <1>4 DEF Works

\* On AWS the host lines change in one place.
Syncs == inv' = applyInventoryAddresses(inv, expectedAWSInventoryAddresses(inv, DiscoverInstances))
LEMMA WorksRewrite ==
    ASSUME Works, AWS, ~Provisioning("passwords")
    PROVE  inv'.hosts = inv.hosts \/ (Provisioning("sync") /\ Syncs)
<1>1. CASE InfraStep \/ runLabAction \/ destroyVM
      BY <1>1 DEF InfraStep, materializeLabConfig, recordMaterializedConfigOwnership, confirmDestroy,
         checkLocalInfraState, runAllInit, RunAll, deleteSSMBucket, runLabAction, destroyVM
<1>2. CASE \/ runProvision \/ checkAnsibleRuntime \/ BuildCollection \/ ensureVariant \/ generateVariant
           \/ validateInventory \/ maybeStartSOCKSTunnel \/ RunPlaybook \/ runUpDoctor
      BY <1>2 DEF runProvision, checkAnsibleRuntime, BuildCollection, ensureVariant, generateVariant,
         validateInventory, maybeStartSOCKSTunnel, RunPlaybook, runUpDoctor, OnlyCmd
<1>3. CASE ensureInventoryTopology
      BY <1>3 DEF ensureInventoryTopology, ensureProviderInventoryVariables, replaceInventoryVariable,
         ensureInventoryTopologyFromSource
<1>4. CASE ensureTransport \/ ensureSSMBucket
      BY <1>4 DEF ensureTransport, ensureSSMBucket, ensureAWSInventoryTransport, materializeSSMBucketName,
         replaceInventoryVariable
<1>5. CASE ensureInventorySynced
      BY <1>5 DEF ensureInventorySynced, Syncs
<1>6. CASE syncAzureInventoryIPs
      BY <1>6 DEF syncAzureInventoryIPs
<1>7. CASE syncAzurePasswords
      BY <1>7 DEF syncAzurePasswords
<1>8. CASE HealthStep
      BY <1>8 DEF HealthStep, requireInfra, checkSSMOnline, runHealthChecks
<1>9. CASE runPurgeOnDC \/ resetKali \/ runKaliCleanup \/ runWindowsCleanup
      BY <1>9 DEF runPurgeOnDC, resetKali, runKaliCleanup, runWindowsCleanup
<1>10. CASE liveDCTargets
  <2>1. inv' = ensureAWSInventoryTransport(inv, "region")
        BY <1>10 DEF liveDCTargets
  <2> QED BY <2>1 DEF ensureAWSInventoryTransport
<1> QED BY <1>1, <1>2, <1>3, <1>4, <1>5, <1>6, <1>7, <1>8, <1>9, <1>10 DEF Works, ProvisionStep, ResetStep

(* Reconciling the addresses of an inventory whose host names differ by     *)
(* more than case writes what it resolved into every host line that has an  *)
(* address at all, and touches the line of no other host: the check after   *)
(* the write fails only for a line without ansible_host.                    *)
THEOREM AddressesAreWritten ==
    ASSUME NEW d, NEW instances, ~GlobalProblem(d),
           \A h \in DOMAIN d.hosts : d.hosts[h].addr # None
    PROVE  LET expected == expectedAWSInventoryAddresses(d, instances)
               new == applyInventoryAddresses(d, expected)
           IN  /\ AddressesHold(new, expected)
               /\ \A h \in DOMAIN d.hosts \ DOMAIN expected : new.hosts[h] = d.hosts[h]
<1> DEFINE expected == expectedAWSInventoryAddresses(d, instances)
           new == applyInventoryAddresses(d, expected)
           Same(h) == {k \in DOMAIN expected : Lower[k] = Lower[h]}
           Matched(h) == {expected[k] : k \in Same(h)}
<1>1. DOMAIN expected \subseteq DOMAIN d.hosts
      BY DEF expectedAWSInventoryAddresses
<1> HIDE DEF expected
<1>2. ASSUME NEW h \in DOMAIN d.hosts
      PROVE  Same(h) = IF h \in DOMAIN expected THEN {h} ELSE {}
      BY <1>1, <1>2 DEF GlobalProblem
<1>3. /\ DOMAIN new.hosts = DOMAIN d.hosts
      /\ \A h \in DOMAIN d.hosts : new.hosts[h] =
            IF d.hosts[h].addr = None \/ Matched(h) = {} THEN d.hosts[h]
            ELSE [addr |-> CHOOSE a \in Matched(h) : TRUE, first |-> d.hosts[h].first,
                  conn |-> d.hosts[h].conn, pw |-> d.hosts[h].pw]
      BY DEF applyInventoryAddresses
<1> HIDE DEF new
<1>4. ASSUME NEW h \in DOMAIN expected
      PROVE  h \in DOMAIN new.hosts /\ new.hosts[h].addr = expected[h]
  <2>1. h \in DOMAIN d.hosts /\ Same(h) = {h}
        BY <1>1, <1>2
  <2>2. Matched(h) = {expected[h]}
        BY <2>1
  <2>3. \A a \in Matched(h) : a = expected[h]
        BY <2>2
  <2>4. (CHOOSE a \in Matched(h) : TRUE) = expected[h]
        BY <2>2, <2>3
  <2>5. new.hosts[h] = [addr |-> expected[h], first |-> d.hosts[h].first,
                        conn |-> d.hosts[h].conn, pw |-> d.hosts[h].pw]
        BY <1>3, <2>1, <2>2, <2>4
  <2> QED BY <1>3, <2>1, <2>5
<1>5. ASSUME NEW h \in DOMAIN d.hosts \ DOMAIN expected PROVE new.hosts[h] = d.hosts[h]
  <2>1. Matched(h) = {}
        BY <1>2
  <2> QED BY <2>1, <1>3
<1>6. AddressesHold(new, expected)
      BY <1>4 DEF AddressesHold
<1> QED BY <1>5, <1>6 DEF expected, new

(* What the addresses of the machines that were found are, and that no      *)
(* line that has an address loses it.                                       *)
LEMMA ExpectedIs ==
    ASSUME NEW d, NEW instances, NEW h \in DOMAIN expectedAWSInventoryAddresses(d, instances)
    PROVE  /\ h \in DOMAIN d.hosts
           /\ \E i \in instances : /\ OfRole(instances, Lower[h]) = {i}
                                   /\ expectedAWSInventoryAddresses(d, instances)[h] = expectedAWSHostAddress(d, h, i)
                                   /\ expectedAWSHostAddress(d, h, i) # None
<1>1. h \in DOMAIN d.hosts /\ Resolvable(d, instances, h)
      BY DEF expectedAWSInventoryAddresses
<1>2. PICK i \in instances : OfRole(instances, Lower[h]) = {i} /\ expectedAWSHostAddress(d, h, i) # None
      BY <1>1 DEF Resolvable
<1>3. (CHOOSE j \in OfRole(instances, Lower[h]) : TRUE) = i
      BY <1>2
<1>4. expectedAWSInventoryAddresses(d, instances)[h] =
        expectedAWSHostAddress(d, h, CHOOSE j \in OfRole(instances, Lower[h]) : TRUE)
      BY DEF expectedAWSInventoryAddresses
<1> QED BY <1>1, <1>2, <1>3, <1>4

LEMMA AddressesStay ==
    ASSUME NEW d, NEW instances, \A h \in DOMAIN d.hosts : d.hosts[h].addr # None
    PROVE  LET new == applyInventoryAddresses(d, expectedAWSInventoryAddresses(d, instances))
           IN  \A h \in DOMAIN new.hosts : h \in DOMAIN d.hosts /\ new.hosts[h].addr # None
<1> DEFINE expected == expectedAWSInventoryAddresses(d, instances)
           new == applyInventoryAddresses(d, expected)
           Matched(h) == {expected[k] : k \in {k \in DOMAIN expected : Lower[k] = Lower[h]}}
<1>1. \A k \in DOMAIN expected : expected[k] # None
      BY ExpectedIs
<1> HIDE DEF expected
<1>2. /\ DOMAIN new.hosts = DOMAIN d.hosts
      /\ \A h \in DOMAIN d.hosts : new.hosts[h] =
            IF d.hosts[h].addr = None \/ Matched(h) = {} THEN d.hosts[h]
            ELSE [addr |-> CHOOSE a \in Matched(h) : TRUE, first |-> d.hosts[h].first,
                  conn |-> d.hosts[h].conn, pw |-> d.hosts[h].pw]
      BY DEF applyInventoryAddresses
<1> HIDE DEF new
<1>3. ASSUME NEW h \in DOMAIN d.hosts PROVE new.hosts[h].addr # None
  <2>1. CASE d.hosts[h].addr = None \/ Matched(h) = {}
        BY <1>2, <2>1
  <2>2. CASE ~(d.hosts[h].addr = None \/ Matched(h) = {})
    <3>1. (CHOOSE a \in Matched(h) : TRUE) \in Matched(h)
          BY <2>2
    <3>2. \A a \in Matched(h) : a # None
          BY <1>1
    <3> DEFINE a == CHOOSE x \in Matched(h) : TRUE
    <3>3. new.hosts[h] = [addr |-> a, first |-> d.hosts[h].first, conn |-> d.hosts[h].conn, pw |-> d.hosts[h].pw]
          BY <1>2, <2>2
    <3>4. a # None
          BY <3>1, <3>2
    <3> HIDE DEF a
    <3> QED BY <3>3, <3>4
  <2> QED BY <2>1, <2>2
<1> QED BY <1>2, <1>3 DEF expected, new

-----------------------------------------------------------------------------
(* The addresses that provisioning hands over.                              *)
\* What was looked up are machines of the lab.
Located == \A i \in cmd.seen : \E g \in LabHosts, n \in 0 .. MaxGen :
                i.name.role = g /\ i.id = Ids[g][n] /\ i.ip = Ips[g][n]
HandedOver ==
    /\ Located
    /\ \A h \in SelectedHosts(cmd.req) \cap DOMAIN inv.hosts :
        \E i \in cmd.seen :
            /\ i.name.role = Lower[h] /\ inv.hosts[h].addr = expectedAWSHostAddress(inv, h, i)
            /\ \A j \in cmd.seen : j.name.role = Lower[h] => j = i
Handing ==
    AWS => /\ ~Provisioning("passwords")
           /\ (\E point \in {"gates", "tunnel", "play"} : Provisioning(point)) => HandedOver

\* Writing addresses changes no connection.
LEMMA ConnectionStays ==
    ASSUME NEW d, NEW addresses, NEW h \in DOMAIN d.hosts, NEW i
    PROVE  LET new == applyInventoryAddresses(d, addresses)
           IN  h \in DOMAIN new.hosts /\ expectedAWSHostAddress(new, h, i) = expectedAWSHostAddress(d, h, i)
<1> DEFINE new == applyInventoryAddresses(d, addresses)
           Matched == {addresses[k] : k \in {k \in DOMAIN addresses : Lower[k] = Lower[h]}}
           a == CHOOSE x \in Matched : TRUE
<1>1. /\ h \in DOMAIN new.hosts /\ new.vars = d.vars
      /\ \/ new.hosts[h] = d.hosts[h]
         \/ new.hosts[h] = [addr |-> a, first |-> d.hosts[h].first, conn |-> d.hosts[h].conn, pw |-> d.hosts[h].pw]
      BY DEF applyInventoryAddresses
<1> HIDE DEF new, a
<1>2. new.hosts[h].conn = d.hosts[h].conn
      BY <1>1
<1>3. Connection(new, h) = Connection(d, h)
      BY <1>1, <1>2 DEF Connection
<1> QED BY <1>1, <1>3 DEF expectedAWSHostAddress, new

LEMMA FoundHasRole ==
    ASSUME NEW i \in DiscoverInstances
    PROVE  extractHostRole(i.name) = i.name.role
<1>1. PICK m : i = Instance(m)
      BY DEF DiscoverInstances
<1>2. i.name = [style |-> "dreadgoad", role |-> m.role]
      BY <1>1 DEF Instance, Name
<1> QED BY <1>2 DEF extractHostRole

LEMMA HandoverMade ==
    ASSUME AWS, Addressed, IsCloud(cloud), GoodRequest(cmd.req), cmd'.req = cmd.req,
           cmd'.seen = DiscoverInstances, Syncs,
           ~ReconcileFails(inv, DiscoverInstances) \/ awsReconciliationOutsideLimit(cmd.req)
    PROVE  HandedOver'
<1> DEFINE I == DiscoverInstances
           expected == expectedAWSInventoryAddresses(inv, I)
           new == applyInventoryAddresses(inv, expected)
<1>1. ~GlobalProblem(inv)
      BY DEF ReconcileFails, awsReconciliationOutsideLimit
<1>2. AddressesHold(new, expected)
      BY <1>1, AddressesAreWritten DEF Addressed
<1>3. DOMAIN new.hosts = DOMAIN inv.hosts /\ inv' = new
      BY DEF applyInventoryAddresses, Syncs
<1>4. ASSUME NEW h \in DOMAIN inv.hosts, h \in SelectedHosts(cmd.req)' PROVE h \in DOMAIN expected
  <2>1. CASE ~ReconcileFails(inv, I)
        BY <2>1 DEF ReconcileFails, affectedHosts, expectedAWSInventoryAddresses
  <2>2. CASE awsReconciliationOutsideLimit(cmd.req)
    <3>1. cmd.req.limit.set /\ affectedHosts(inv, I) \cap Lowered(cmd.req.limit.hosts) = {}
          BY <2>2 DEF awsReconciliationOutsideLimit, GoodRequest
    <3>2. h \in cmd.req.limit.hosts
          BY <1>4, <3>1 DEF SelectedHosts
    <3>3. Lower[h] \notin affectedHosts(inv, I)
          BY <3>1, <3>2 DEF Lowered
    <3>4. Resolvable(inv, I, h)
          BY <3>3 DEF affectedHosts
    <3> QED BY <3>4 DEF expectedAWSInventoryAddresses
  <2> QED BY <2>1, <2>2
<1>5. ASSUME NEW h \in SelectedHosts(cmd.req)' \cap DOMAIN inv'.hosts
      PROVE  \E i \in cmd'.seen :
                /\ i.name.role = Lower[h] /\ inv'.hosts[h].addr = expectedAWSHostAddress(inv', h, i)
                /\ \A j \in cmd'.seen : j.name.role = Lower[h] => j = i
  <2>1. h \in DOMAIN inv.hosts /\ h \in DOMAIN expected
        BY <1>3, <1>4
  <2> HIDE DEF expected, new
  <2>2. PICK i \in I : OfRole(I, Lower[h]) = {i} /\ expected[h] = expectedAWSHostAddress(inv, h, i)
    <3>1. h \in DOMAIN expectedAWSInventoryAddresses(inv, I)
          BY <2>1 DEF expected
    <3> HIDE DEF I
    <3>2. \E i \in I : /\ OfRole(I, Lower[h]) = {i}
                       /\ expectedAWSInventoryAddresses(inv, I)[h] = expectedAWSHostAddress(inv, h, i)
                       /\ expectedAWSHostAddress(inv, h, i) # None
          BY ONLY <3>1, ExpectedIs
    <3> QED BY <3>2 DEF expected
  <2>3. inv'.hosts[h].addr = expected[h]
        BY <1>2, <1>3, <2>1 DEF AddressesHold
  <2>4. expectedAWSHostAddress(inv', h, i) = expectedAWSHostAddress(inv, h, i)
        BY <1>3, <2>1, ConnectionStays DEF new
  <2>5. i.name.role = Lower[h] /\ \A j \in I : j.name.role = Lower[h] => j = i
        BY <2>2, FoundHasRole DEF OfRole
  <2> QED BY <2>2, <2>3, <2>4, <2>5
<1>6. Located'
  <2>1. ASSUME NEW i \in DiscoverInstances
        PROVE  \E g \in LabHosts, n \in 0 .. MaxGen : i.name.role = g /\ i.id = Ids[g][n] /\ i.ip = Ips[g][n]
    <3>1. PICK m \in cloud.machines : i = Instance(m)
          BY DEF DiscoverInstances
    <3>2. /\ m.role \in LabHosts /\ m.gen \in 0 .. MaxGen
          /\ i.name.role = m.role /\ i.id = Ids[m.role][m.gen] /\ i.ip = Ips[m.role][m.gen]
          BY <3>1 DEF Instance, Name, IsCloud, IsMachine
    <3> QED BY <3>2
  <2> QED BY <2>1 DEF Located
<1> QED BY <1>5, <1>6 DEF HandedOver

\* A step that was done or failed leaves no point but the first.
LEMMA Restarts ==
    ASSUME OnTrack, Moves, cmd'.do # "none", cmd'.at # "start"
    PROVE  Kin(cmd, cmd')
<1>1. ASSUME NEW d, Kin(cmd, d), cmd' = Done(d) PROVE FALSE
  <2>1. IsCmd(d)
        BY <1>1 DEF Kin
  <2>2. cmd'.at = "start" \/ cmd'.do = "none"
    <3>1. CASE Len(d.todo) > 1
          BY <1>1, <2>1, <3>1, Finished
    <3>2. CASE ~(Len(d.todo) > 1)
          BY <1>1, <2>1, <3>2, Finished
    <3> QED BY <3>1, <3>2
  <2> QED BY <2>2
<1>2. ASSUME NEW f, FailsAt(f) PROVE FALSE
      BY <1>2, Failed
<1> QED BY <1>1, <1>2 DEF Moves

LEMMA HandingWorks ==
    ASSUME OnTrack, Standing, Handing, Works
    PROVE  Handing'
<1>0. IsCmd(cmd) /\ Moves /\ range' = range /\ Running /\ GoodRequest(cmd.req) /\ Addressed /\ IsCloud(cloud)
      BY WorksMoves DEF OnTrack, Standing
<1> SUFFICES ASSUME AWS,
                    cmd'.do # "none", Head(cmd'.todo) = "provision",
                    cmd'.at \in {"gates", "tunnel", "play", "passwords"}
             PROVE  HandedOver' /\ cmd'.at # "passwords"
      BY <1>0 DEF Handing, AWS, Provisioning, At, Running
<1>1. Kin(cmd, cmd')
      BY <1>0, Restarts
<1>2. /\ cmd'.todo = cmd.todo /\ cmd'.req = cmd.req /\ cmd'.do = cmd.do /\ Head(cmd.todo) = "provision"
      /\ IsCmd(cmd')
      BY <1>1 DEF Kin
<1>3. ASSUME cmd.at \in {"gates", "tunnel", "play"}, inv'.hosts = inv.hosts, inv'.vars = inv.vars,
             cmd'.seen = cmd.seen
      PROVE  HandedOver'
  <2>1. HandedOver
        BY <1>0, <1>2, <1>3 DEF Handing, Provisioning, At
  <2>2. SelectedHosts(cmd.req)' = SelectedHosts(cmd.req)
        BY <1>2, <1>3 DEF SelectedHosts
  <2>3. \A h, i : expectedAWSHostAddress(inv', h, i) = expectedAWSHostAddress(inv, h, i)
        BY <1>3 DEF expectedAWSHostAddress, Connection
  <2> QED BY <1>3, <2>1, <2>2, <2>3 DEF HandedOver, Located
<1>4. ASSUME NEW point, Go(point) PROVE cmd'.at = point /\ cmd'.seen = cmd.seen
      BY <1>0, <1>4, Goes
<1>5. ASSUME NEW f, FailsAt(f) PROVE FALSE
      BY <1>5, Failed
<1>6. CASE \/ runProvision \/ checkAnsibleRuntime \/ BuildCollection \/ ensureVariant \/ generateVariant
           \/ ensureInventoryTopology \/ ensureTransport \/ ensureSSMBucket
  <2>1. \/ \E point \in {"collection", "variant", "generate", "topology", "transport", "sync", "bucket"} : Go(point)
        \/ FailsAt(None)
        \/ cmd' = [cmd EXCEPT !.at = "tools", !.left = resolvePlaybooks(cmd.req)]
        BY <1>6 DEF runProvision, checkAnsibleRuntime, BuildCollection, ensureVariant, generateVariant,
           ensureInventoryTopology, ensureTransport, ensureSSMBucket, Fails
  <2>2. ASSUME NEW x, cmd' = [cmd EXCEPT !.at = "tools", !.left = x] PROVE cmd'.at = "tools"
        BY <1>0, <2>2 DEF IsCmd
  <2> QED BY <1>4, <1>5, <2>1, <2>2
<1>7. CASE ensureInventorySynced
  <2>1. \/ /\ ~ReconcileFails(inv, DiscoverInstances) \/ awsReconciliationOutsideLimit(cmd.req)
           /\ Syncs /\ cmd' = [cmd EXCEPT !.at = "gates", !.seen = DiscoverInstances]
        \/ FailsAt(None)
        BY <1>7 DEF ensureInventorySynced, Syncs, Fails
  <2>2. ASSUME NEW x, cmd' = [cmd EXCEPT !.at = "gates", !.seen = x] PROVE cmd'.at = "gates" /\ cmd'.seen = x
        BY <1>0, <2>2 DEF IsCmd
  <2> QED BY <1>0, <1>2, <1>5, <2>1, <2>2, HandoverMade
<1>8. CASE syncAzureInventoryIPs \/ syncAzurePasswords
      BY <1>8 DEF syncAzureInventoryIPs, syncAzurePasswords, Handing
<1>9. CASE validateInventory \/ maybeStartSOCKSTunnel
  <2>1. /\ cmd.at \in {"gates", "tunnel", "play"} /\ inv' = inv
        /\ (\E point \in {"tunnel", "play"} : Go(point)) \/ FailsAt(None)
        BY <1>9 DEF validateInventory, maybeStartSOCKSTunnel, OnlyCmd, Provisioning, At, Fails
  <2> QED BY <1>3, <1>4, <1>5, <2>1
<1>10. CASE RunPlaybook
  <2>1. /\ cmd.at = "play" /\ inv' = inv
        /\ \/ \E f : FailsAt(f)
           \/ \E x, y : cmd' = [cmd EXCEPT !.slips = x, !.left = y]
           \/ \E x : cmd' = Done([cmd EXCEPT !.slips = x])
    <3>1. Provisioning("play") /\ inv' = inv
          BY <1>10 DEF RunPlaybook
    <3>2. \/ \E f : FailsAt(f)
          \/ \E x, y : cmd' = [cmd EXCEPT !.slips = x, !.left = y]
          \/ \E x : cmd' = Done([cmd EXCEPT !.slips = x])
          BY <1>0, <1>10, Played
    <3> QED BY <3>1, <3>2 DEF Provisioning, At
  <2>2. ASSUME NEW x, NEW y, cmd' = [cmd EXCEPT !.slips = x, !.left = y]
        PROVE  cmd'.at = cmd.at /\ cmd'.seen = cmd.seen
        BY <1>0, <2>2 DEF IsCmd
  <2>3. ASSUME NEW x, cmd' = Done([cmd EXCEPT !.slips = x]) PROVE FALSE
    <3> DEFINE d == [cmd EXCEPT !.slips = x]
    <3>1. IsCmd(d)
          BY <1>0 DEF IsCmd
    <3>2. cmd'.at = "start" \/ cmd'.do = "none"
      <4>1. CASE Len(d.todo) > 1
            BY <2>3, <3>1, <4>1, Finished
      <4>2. CASE ~(Len(d.todo) > 1)
            BY <2>3, <3>1, <4>2, Finished
      <4> QED BY <4>1, <4>2
    <3> QED BY <3>2
  <2> QED BY <1>3, <1>5, <2>1, <2>2, <2>3
<1>11. CASE \/ InfraStep \/ runLabAction \/ destroyVM \/ HealthStep \/ ResetStep \/ runUpDoctor
  <2>1. Head(cmd.todo) # "provision"
        BY <1>11 DEF InfraStep, materializeLabConfig, recordMaterializedConfigOwnership, confirmDestroy,
           checkLocalInfraState, runAllInit, RunAll, deleteSSMBucket, runLabAction, destroyVM,
           HealthStep, requireInfra, checkSSMOnline, runHealthChecks, ResetStep, liveDCTargets,
           runPurgeOnDC, resetKali, runKaliCleanup, runWindowsCleanup, runUpDoctor, Infra, Requiring, At
  <2> QED BY <1>2, <2>1
<1> QED BY <1>6, <1>7, <1>8, <1>9, <1>10, <1>11 DEF Works, ProvisionStep

-----------------------------------------------------------------------------
(* A destroy of the whole range.                                            *)
Whole(req) == req.do = "infra" /\ req.action = "destroy" /\ req.module = None /\ req.exclude = {}
Emptied ==
    Whole(cmd.req) /\ (cmd.told = "ok" \/ Infra("bucket")) => Managed = {} /\ cloud.extras = {}

LEMMA WholeIsSelected ==
    ASSUME Whole(cmd.req)
    PROVE  LabHosts \cup range.optional \subseteq Selected
<1>1. Selected = (LabHosts \cup (azureModuleEnv \cap range.optional)) \ cmd.req.exclude
      BY DEF Selected, Whole, Module, None
<1>2. azureModuleEnv = cmd.req.with \cup range.optional
      BY DEF azureModuleEnv, Action, Whole
<1> QED BY <1>1, <1>2 DEF Whole

LEMMA DestroyedAll ==
    ASSUME IsCloud(cloud), range' = range, Whole(cmd.req), cloud' = Destroyed(Selected)
    PROVE  Managed' = {} /\ cloud'.extras = {}
<1>1. /\ cloud'.extras = cloud.extras \ Selected
      /\ cloud'.machines = cloud.machines \ {m \in Managed : m.role \in Selected}
      BY DestroyedKeeps
<1>2. \A m \in Managed : m.role \in Selected
      BY WholeIsSelected DEF Managed, IsCloud, IsMachine
<1>3. cloud.extras \subseteq Selected
      BY WholeIsSelected DEF IsCloud
<1>4. cloud'.machines = cloud.machines \ Managed
      BY <1>1, <1>2
<1> QED BY <1>1, <1>3, <1>4 DEF Managed

LEMMA EmptiedWorks ==
    ASSUME OnTrack, Standing, Emptied, Works
    PROVE  Emptied'
<1>0. IsCmd(cmd) /\ Moves /\ range' = range /\ Running /\ GoodRequest(cmd.req) /\ IsCloud(cloud)
      BY WorksMoves DEF OnTrack, Standing
<1>1. cmd'.req = cmd.req
  <2>1. ASSUME NEW d, Kin(cmd, d), cmd' = Done(d) PROVE cmd'.req = cmd.req
        BY <2>1, Ends DEF Kin
  <2> QED BY <1>0, <2>1, Failed DEF Moves, Kin
<1> SUFFICES ASSUME Whole(cmd.req), cmd'.told = "ok" \/ Infra("bucket")'
             PROVE  Managed' = {} /\ cloud'.extras = {}
      BY <1>1 DEF Emptied
<1>2. cmd.do = "infra" /\ Head(cmd.todo) = "infra" /\ Len(cmd.todo) = 1 /\ cmd.told = None
  <2>1. /\ cmd.do = "infra" /\ cmd.told = None /\ Len(cmd.todo) = 1
        /\ cmd.todo \in Seq(StepsFor("infra")) /\ StepsFor("infra") = {"infra"}
        BY <1>0 DEF OnTrack, Whole, StepsFor
  <2>2. Head(cmd.todo) \in {"infra"}
        BY <2>1
  <2> QED BY <2>1, <2>2
<1>3. ASSUME NEW point, Go(point), point # "bucket" PROVE FALSE
  <2>1. Kin(cmd, cmd') /\ cmd'.at = point
        BY <1>0, <1>3, Goes
  <2> QED BY <1>2, <1>3, <2>1 DEF Infra, At, Kin, None
<1>4. ~Fails
  <2> SUFFICES ASSUME Fails PROVE FALSE
        OBVIOUS
  <2>1. cmd'.told = "failed" /\ cmd'.do = "none"
        BY Failed DEF Fails
  <2> QED BY <2>1 DEF Infra, At, Running
<1>5. InfraStep
      BY <1>2 DEF Works, runLabAction, destroyVM, ProvisionStep, runProvision, checkAnsibleRuntime, BuildCollection,
         ensureVariant, generateVariant, ensureInventoryTopology, ensureTransport, ensureSSMBucket,
         ensureInventorySynced, syncAzureInventoryIPs, syncAzurePasswords, validateInventory,
         maybeStartSOCKSTunnel, RunPlaybook, Provisioning,
         HealthStep, requireInfra, checkSSMOnline, runHealthChecks, ResetStep, liveDCTargets,
         runPurgeOnDC, resetKali, runKaliCleanup, runWindowsCleanup, runUpDoctor, Requiring, At
<1>6. CASE materializeLabConfig \/ recordMaterializedConfigOwnership \/ confirmDestroy \/ checkLocalInfraState
           \/ runAllInit
  <2>1. (\E point \in {"own", "confirm", "check", "init", "run"} : Go(point)) \/ Fails
        BY <1>6 DEF materializeLabConfig, recordMaterializedConfigOwnership, confirmDestroy,
           checkLocalInfraState, runAllInit
  <2> QED BY <1>3, <1>4, <2>1
<1>7. CASE RunAll
  <2>1. PICK U \in IF Refused THEN {{}} ELSE SUBSET Selected, R \in {{}, {m.role : m \in Stale}} :
            /\ cloud' = Effect(U, R)
            /\ U = Selected \/ Fails
        BY <1>7 DEF RunAll
  <2>2. cloud' = Destroyed(Selected)
        BY <1>4, <2>1 DEF Effect, Whole, Action
  <2> QED BY <1>0, <2>2, DestroyedAll
<1>8. CASE deleteSSMBucket
  <2>1. Managed = {} /\ cloud.extras = {}
        BY <1>8 DEF deleteSSMBucket, Emptied
  <2>2. \/ UNCHANGED cloud
        \/ cloud' = [cloud EXCEPT !.bucket = cloud.bucket /\ ~ssmBucketCleanupTarget]
        BY <1>0, <1>8 DEF deleteSSMBucket, IsCloud
  <2>3. ASSUME NEW b, cloud' = [cloud EXCEPT !.bucket = b]
        PROVE  cloud'.machines = cloud.machines /\ cloud'.extras = cloud.extras
        BY <1>0, <2>3 DEF IsCloud
  <2>4. cloud'.machines = cloud.machines /\ cloud'.extras = cloud.extras
        BY <2>2, <2>3
  <2> QED BY <2>1, <2>4 DEF Managed
<1> QED BY <1>5, <1>6, <1>7, <1>8 DEF InfraStep

-----------------------------------------------------------------------------
(* What a purge deletes, when it takes the config that is there for the     *)
(* list.                                                                    *)
Listed ==
    At("purge", "dcs") /\ spent.calm /\ (range.variant => disk.target = "complete") => cmd.list = disk.config

\* A step of a command leaves it as calm as it was.
LEMMA CalmStays == ASSUME IsBudget(spent), Works PROVE spent'.calm = spent.calm
BY WorksSpend DEF IsBudget, Fault

LEMMA FlaggedIsSpare ==
    ASSUME IsLab(lab), NEW d, NEW sure \in BOOLEAN, NEW o \in flagged(d, sure)
    PROVE  ~Spared(o, cmd.list, sure)
<1>1. /\ o \in Objects /\ o.rid \in Nat /\ (o.exempt => o.class = "user") /\ (o.trust => o.class # "group")
      /\ cmd.list \notin o.lists
      BY ObjectsAssumption DEF flagged, flaggedUsers, flaggedComputers, flaggedGroups, Unlisted, IsLab
<1>2. CASE o \in flaggedUsers(d, sure)
      BY <1>1, <1>2 DEF flaggedUsers, Unlisted, AdminMade, Spared
<1>3. CASE o \in flaggedComputers(d, sure)
      BY <1>1, <1>3 DEF flaggedComputers, Unlisted, AdminMade, Spared
<1>4. CASE o \in flaggedGroups(d)
  <2>1. ~(o.rid < 1000)
        BY <1>1, <1>4 DEF flaggedGroups
  <2> QED BY <1>1, <1>4, <2>1 DEF flaggedGroups, Unlisted, Spared
<1> QED BY <1>2, <1>3, <1>4 DEF flagged

LEMMA PurgeWorks ==
    ASSUME OnTrack, Standing, Listed, Works, Purging, NEW o \in lab.ad \ lab'.ad,
           disk.config = disk.mat, range.variant => disk.target = "complete"
    PROVE  ~Spared(o, disk.mat, spent' = spent) /\ (o.trust => cmd'.slips)
<1>0. IsCmd(cmd) /\ range' = range /\ Running /\ IsCloud(cloud) /\ IsLab(lab)
      /\ cmd.do \in {"reset", "score", "purge"}
      BY WorksMoves DEF OnTrack, Standing, Purging
<1>1. Head(cmd.todo) \in {"purge", "provision", "kali", "windows"}
  <2>1. cmd.todo \in Seq(StepsFor(cmd.do)) /\ cmd.todo # <<>>
        BY <1>0 DEF OnTrack
  <2> DEFINE S == StepsFor(cmd.do)
             q == cmd.todo
  <2> HIDE DEF S, q
  <2>2. q \in Seq(S) /\ q # <<>>
        BY <2>1 DEF S, q
  <2>3. Head(q) \in S
        BY <2>2
  <2> QED BY <1>0, <2>3 DEF S, q, StepsFor
<1>2. CASE InfraStep \/ destroyVM \/ runLabAction
      BY <1>1, <1>2 DEF InfraStep, materializeLabConfig, recordMaterializedConfigOwnership, confirmDestroy,
         checkLocalInfraState, runAllInit, RunAll, deleteSSMBucket, runLabAction, destroyVM, Infra, At
<1>3. CASE ProvisionStep \/ runUpDoctor
      BY <1>0, <1>3, ProvisionStands
<1>4. CASE HealthStep
      BY <1>0, <1>4, HealthStands
<1>5. CASE ResetStep
  <2>1. /\ At("purge", "dcs") /\ (o.trust => cmd'.slips)
        /\ \E d : \E sure \in BOOLEAN : o \in flagged(d, sure) /\ (sure \/ Fault)
        BY <1>0, <1>5, ResetStands
  <2>. PICK d : \E sure \in BOOLEAN : o \in flagged(d, sure) /\ (sure \/ Fault)
        BY <2>1
  <2>. PICK sure \in BOOLEAN : o \in flagged(d, sure) /\ (sure \/ Fault)
        OBVIOUS
  <2>2. ~Spared(o, disk.mat, sure)
        BY <1>0, <2>1, FlaggedIsSpare DEF Listed, Purging
  <2>3. Fault => spent' # spent
    <3>1. spent.faults \in Nat /\ spent = [faults |-> spent.faults, events |-> spent.events,
                                           commands |-> spent.commands, calm |-> spent.calm]
          BY DEF Standing, IsBudget
    <3>2. Fault => spent'.faults = spent.faults + 1
          BY <3>1 DEF Fault
    <3> QED BY <3>1, <3>2
  <2> DEFINE calm == spent' = spent
  <2>4. calm => sure
        BY <2>3
  <2>5. ~Spared(o, disk.mat, calm)
    <3> HIDE DEF calm
    <3> QED BY <2>2, <2>4 DEF Spared
  <2> QED BY <2>1, <2>5
<1> QED BY <1>2, <1>3, <1>4, <1>5 DEF Works

LEMMA ListedWorks ==
    ASSUME OnTrack, Standing, Listed, Works
    PROVE  Listed'
<1>0. IsCmd(cmd) /\ Moves /\ range' = range /\ Running /\ spent'.calm = spent.calm /\ cmd.told = None
      BY WorksMoves, CalmStays DEF OnTrack, Standing
<1> SUFFICES ASSUME At("purge", "dcs")', spent'.calm, range'.variant => disk'.target = "complete"
             PROVE  cmd'.list = disk'.config
      BY DEF Listed
<1>1. Kin(cmd, cmd')
  <2>1. ASSUME NEW d, Kin(cmd, d), cmd' = Done(d) PROVE FALSE
        BY <2>1, Ends DEF At, Running, Kin
  <2>2. ASSUME NEW f, FailsAt(f) PROVE FALSE
        BY <2>2, Failed DEF At, Running
  <2> QED BY <1>0, <2>1, <2>2 DEF Moves
<1>2. Head(cmd.todo) = "purge"
      BY <1>1 DEF Kin, At
<1>3. liveDCTargets \/ runPurgeOnDC
      BY <1>2 DEF Works, InfraStep, materializeLabConfig, recordMaterializedConfigOwnership, confirmDestroy,
         checkLocalInfraState, runAllInit, RunAll, deleteSSMBucket, runLabAction, destroyVM, Infra,
         ProvisionStep, runProvision, checkAnsibleRuntime, BuildCollection,
         ensureVariant, generateVariant, ensureInventoryTopology, ensureTransport, ensureSSMBucket,
         ensureInventorySynced, syncAzureInventoryIPs, syncAzurePasswords, validateInventory,
         maybeStartSOCKSTunnel, RunPlaybook, Provisioning,
         HealthStep, requireInfra, checkSSMOnline, runHealthChecks, ResetStep,
         resetKali, runKaliCleanup, runWindowsCleanup, runUpDoctor, Requiring, At
<1>4. CASE liveDCTargets
  <2>1. (\E list \in LabConfigs : \E y : cmd' = [cmd EXCEPT !.at = "dcs", !.list = list, !.seen = y]) \/ CannotPurge
        BY <1>4 DEF liveDCTargets
  <2>2. ~CannotPurge
    <3>1. ASSUME NEW d, d = [cmd EXCEPT !.slips = TRUE] \/ d = [cmd EXCEPT !.errs = TRUE], cmd' = Done(d)
          PROVE FALSE
      <4>1. Kin(cmd, d)
            BY <1>0, <3>1, Changed
      <4> QED BY <3>1, <4>1, Ends, <1>0 DEF At, Running, Kin
    <3> QED BY <3>1, Failed DEF CannotPurge, Fails, At, Running
  <2>3. LabConfigs = {disk.config} /\ disk' = disk
        BY <1>0, <1>4 DEF LabConfigs, liveDCTargets
  <2> QED BY <1>0, <2>1, <2>2, <2>3 DEF IsCmd
<1>5. CASE runPurgeOnDC
  <2>1. NextStep \/ \E x, y : cmd' = [cmd EXCEPT !.over = x, !.slips = y]
        BY <1>5 DEF runPurgeOnDC
  <2>2. ~NextStep
        BY <1>0, Ends DEF NextStep, At, Running, Kin
  <2>3. cmd'.list = cmd.list
        BY <1>0, <2>1, <2>2 DEF IsCmd
  <2> QED BY <1>0, <1>5, <2>3 DEF Listed, runPurgeOnDC
<1> QED BY <1>3, <1>4, <1>5

-----------------------------------------------------------------------------
(* What a score reset has removed when it found no more than it removed,    *)
(* but for what was hidden from it.                                         *)
Fits(t) == t.found \in Nat /\ t.removed \in Nat /\ t.removed <= t.found
OnRoles == {m.role : m \in {m \in cloud.machines : m.on}}
KaliWithin(hidden) == \A t \in KaliTargets : Of("kali", t.counts) \subseteq hidden
WindowsWithin(hidden) == \A h \in OnRoles : CountedOn(h) \subseteq hidden
\* The same of the next state, for what is known already.
KaliThen(hidden) == \A t \in KaliTargets : Of("kali", t.counts)' \subseteq hidden
WindowsThen(hidden) == \A h \in OnRoles' : CountedOn(h)' \subseteq hidden

\* The phases that are over have kept their word.
Accounted(tally, passed, hidden) ==
    /\ Fits(tally)
    /\ tally.removed = tally.found =>
        /\ "kali" \in passed => KaliWithin(hidden)
        /\ "windows" \in passed => WindowsWithin(hidden)
AccountedThen(tally, passed, hidden) ==
    /\ Fits(tally)
    /\ tally.removed = tally.found =>
        /\ "kali" \in passed => KaliThen(hidden)
        /\ "windows" \in passed => WindowsThen(hidden)
\* So have the hosts that are over, and no running host is overlooked.
Sweeping ==
    Running /\ Head(cmd.todo) = "windows" =>
        /\ cmd.tally.removed = cmd.tally.found => \A h \in cmd.over : CountedOn(h) \subseteq cmd.blind
        /\ cmd.at \in {"ssm", "hosts"} => OnRoles \subseteq {m.role : m \in cmd.seen}
Phased ==
    Running => cmd.todo \in PhaseLists /\ (Head(cmd.todo) = "kali" => cmd.passed = {})
Judged == cmd.req.apply /\ spent.calm /\ ~cmd.slips /\ ((Running /\ ~cmd.errs) \/ cmd.told = "ok")
Cleaned ==
    cmd.req.do = "score" => Phased /\ (Judged => Accounted(cmd.tally, cmd.passed, cmd.blind) /\ Sweeping)

LEMMA CountedIsLeft ==
    /\ \A K : Of("kali", K) \subseteq lab.left
    /\ \A h : CountedOn(h) \subseteq lab.left
BY DEF Of, On, CountedOn

LEMMA LeftShrinks ==
    ASSUME lab'.left \subseteq lab.left
    PROVE  /\ \A K : Of("kali", K)' \subseteq Of("kali", K) \cap lab'.left
           /\ \A h : CountedOn(h)' \subseteq CountedOn(h) \cap lab'.left
BY DEF Of, On, CountedOn, DCs

\* What is done stays done: nothing comes back and no machine is started.
LEMMA AccountStays ==
    ASSUME lab'.left \subseteq lab.left, OnRoles' \subseteq OnRoles, NEW tally, NEW passed, NEW hidden,
           Accounted(tally, passed, hidden), NEW known, hidden \subseteq known
    PROVE  AccountedThen(tally, passed, known)
<1>1. KaliWithin(hidden) => KaliThen(known)
      BY LeftShrinks DEF KaliWithin, KaliThen
<1>2. WindowsWithin(hidden) => WindowsThen(known)
      BY LeftShrinks DEF WindowsWithin, WindowsThen
<1> QED BY <1>1, <1>2 DEF Accounted, AccountedThen

LEMMA ThenIsNext ==
    ASSUME AccountedThen(cmd'.tally, cmd'.passed, cmd'.blind)
    PROVE  Accounted(cmd.tally, cmd.passed, cmd.blind)'
<1>1. KaliThen(cmd'.blind) => KaliWithin(cmd.blind)'
      BY DEF KaliThen, KaliWithin, KaliTargets
<1>2. WindowsThen(cmd'.blind) => WindowsWithin(cmd.blind)'
      BY DEF WindowsThen, WindowsWithin
<1> QED BY <1>1, <1>2 DEF Accounted, AccountedThen, Fits

\* A phase of score reset ends, with the account d.
LEMMA PhaseEnds ==
    ASSUME OnTrack, Cleaned, Running, cmd.req.do = "score", NEW d, Kin(cmd, d), cmd' = Done(d),
           cmd.req.apply /\ spent'.calm /\ ~d.errs /\ ~d.slips =>
                AccountedThen(d.tally, cmd.passed \cup {Head(cmd.todo)}, d.blind)
    PROVE  Cleaned'
<1>0. /\ IsCmd(d) /\ d.req = cmd.req /\ d.todo = cmd.todo /\ d.passed = cmd.passed /\ d.do = cmd.do
      /\ d.told = None /\ cmd.do = "score" /\ cmd.todo \in PhaseLists
      BY DEF OnTrack, Kin, Cleaned, Phased
<1>2. /\ cmd'.req = cmd.req /\ cmd'.at = "start" /\ cmd'.passed = cmd.passed \cup {Head(cmd.todo)}
      /\ cmd'.tally = d.tally /\ cmd'.blind = d.blind /\ cmd'.slips = d.slips
      /\ Len(cmd.todo) > 1 => cmd'.do = "score" /\ cmd'.todo = Tail(cmd.todo) /\ cmd'.over = {} /\ cmd'.told = None
                              /\ cmd'.errs = d.errs
      /\ ~(Len(cmd.todo) > 1) => cmd'.do = "none" /\ (cmd'.told = "ok" => ~d.errs)
      BY <1>0, Ends
<1>3. Judged' => cmd.req.apply /\ spent'.calm /\ ~d.errs /\ ~d.slips
      BY <1>2 DEF Judged, Running, None
<1>4. Phased'
      BY <1>0, <1>2, PhasesAre DEF Phased, Running
<1>5. Judged' => Accounted(cmd.tally, cmd.passed, cmd.blind)'
      BY <1>2, <1>3, ThenIsNext
<1>6. Sweeping'
      BY <1>2 DEF Sweeping, Running
<1> QED BY <1>4, <1>5, <1>6 DEF Cleaned

\* Or goes on.
LEMMA PhaseGoesOn ==
    ASSUME OnTrack, Cleaned, Running, cmd.req.do = "score", Kin(cmd, cmd'),
           Judged' => AccountedThen(cmd'.tally, cmd.passed, cmd'.blind) /\ Sweeping'
    PROVE  Cleaned'
<1>1. Phased'
      BY DEF Cleaned, Phased, Kin, Running
<1>2. Judged' => Accounted(cmd.tally, cmd.passed, cmd.blind)'
      BY ThenIsNext DEF Kin
<1> QED BY <1>1, <1>2 DEF Cleaned, Kin

(* The steps of the phases, in turn.                                        *)
LEMMA KaliCleans ==
    ASSUME OnTrack, Standing, Cleaned, cmd.req.do = "score", Works, resetKali \/ runKaliCleanup
    PROVE  Cleaned'
<1>0. IsCmd(cmd) /\ IsLab(lab) /\ IsBudget(spent) /\ Running /\ Head(cmd.todo) = "kali" /\ cmd.passed = {}
      /\ spent'.calm = spent.calm /\ cmd.told = None
      BY CalmStays DEF OnTrack, Standing, resetKali, runKaliCleanup, At, Cleaned, Phased
<1>1. ASSUME cmd' = Done([cmd EXCEPT !.errs = TRUE]) PROVE Cleaned'
  <2> DEFINE d == [cmd EXCEPT !.errs = TRUE]
  <2>1. d.errs /\ cmd' = Done(d)
        BY <1>0, <1>1 DEF IsCmd
  <2>2. Kin(cmd, d)
        BY <1>0, Changed
  <2> HIDE DEF d
  <2> QED BY <1>0, <2>1, <2>2, PhaseEnds
<1>2. CASE resetKali /\ Go("clean")
  <2>1. /\ Kin(cmd, cmd') /\ cmd'.tally = cmd.tally /\ cmd'.errs = cmd.errs /\ cmd'.slips = cmd.slips
        BY <1>0, <1>2, Goes
  <2>2. Judged' => Judged /\ Running /\ ~cmd.errs
        BY <1>0, <2>1 DEF Judged, Kin, Running, None
  <2>3. Sweeping'
        BY <1>0, <2>1 DEF Sweeping, Kin
  <2>4. Judged' => AccountedThen(cmd'.tally, cmd.passed, cmd'.blind)
        BY <1>0, <2>1, <2>2 DEF Cleaned, Accounted, AccountedThen
  <2> QED BY <1>0, <2>1, <2>3, <2>4, PhaseGoesOn
<1>3. CASE runKaliCleanup /\ ~(cmd' = Done([cmd EXCEPT !.errs = TRUE]))
  <2> DEFINE Cleaning(unseen, missed, kept) ==
            LET results == {cleaned(t, cmd.req.apply, unseen, missed, kept) : t \in KaliTargets} IN
            /\ lab' = [lab EXCEPT !.left = @ \ UNION {r.gone : r \in results}]
            /\ cmd' = Done([cmd EXCEPT !.tally = [found |-> Cardinality(UNION {r.found : r \in results}),
                                                  removed |-> Cardinality(UNION {r.removed : r \in results})],
                                       !.blind = @ \cup unseen \cup missed])
  <2>0. \E unseen, missed, kept : Cleaning(unseen, missed, kept)
    <3>1. \E lost \in SUBSET On("kali"), how \in {"unseen", "missed", "kept"} :
            LET as(way) == IF how = way THEN lost ELSE {}
                results == {cleaned(t, cmd.req.apply, as("unseen"), as("missed"), as("kept")) : t \in KaliTargets} IN
            /\ lab' = [lab EXCEPT !.left = @ \ UNION {r.gone : r \in results}]
            /\ cmd' = Done([cmd EXCEPT !.tally = [found |-> Cardinality(UNION {r.found : r \in results}),
                                                  removed |-> Cardinality(UNION {r.removed : r \in results})],
                                       !.blind = @ \cup as("unseen") \cup as("missed")])
          BY <1>3, Zenon DEF runKaliCleanup
    <3> PICK lost \in SUBSET On("kali"), how \in {"unseen", "missed", "kept"} :
            LET as(way) == IF how = way THEN lost ELSE {}
                results == {cleaned(t, cmd.req.apply, as("unseen"), as("missed"), as("kept")) : t \in KaliTargets} IN
            /\ lab' = [lab EXCEPT !.left = @ \ UNION {r.gone : r \in results}]
            /\ cmd' = Done([cmd EXCEPT !.tally = [found |-> Cardinality(UNION {r.found : r \in results}),
                                                  removed |-> Cardinality(UNION {r.removed : r \in results})],
                                       !.blind = @ \cup as("unseen") \cup as("missed")])
          BY <3>1, Zenon
    <3> DEFINE as(way) == IF how = way THEN lost ELSE {}
    <3>2. Cleaning(as("unseen"), as("missed"), as("kept"))
          OBVIOUS
    <3> HIDE DEF as, Cleaning
    <3> QED BY <3>2
  <2>. PICK unseen, missed, kept : Cleaning(unseen, missed, kept)
        BY <2>0
  <2> DEFINE results == {cleaned(t, cmd.req.apply, unseen, missed, kept) : t \in KaliTargets}
             found == UNION {r.found : r \in results}
             removed == UNION {r.removed : r \in results}
             gone == UNION {r.gone : r \in results}
             tally == [found |-> Cardinality(found), removed |-> Cardinality(removed)]
             blind == cmd.blind \cup unseen \cup missed
             d == [cmd EXCEPT !.tally = tally, !.blind = blind]
  <2>1. lab' = [lab EXCEPT !.left = @ \ gone] /\ cmd' = Done(d)
        BY <1>0 DEF IsCmd
  <2>2. lab'.left = lab.left \ gone
        BY <1>0, <2>1 DEF IsLab
  <2>3. /\ \A t \in KaliTargets : Of("kali", t.counts) \ unseen \subseteq found
        /\ found \subseteq lab.left /\ removed \subseteq found /\ removed \subseteq gone \cup missed
    <3> DEFINE r(t) == cleaned(t, cmd.req.apply, unseen, missed, kept)
    <3>1. \A t \in KaliTargets : /\ r(t).found = Of("kali", t.counts) \ unseen
                                 /\ r(t).removed \subseteq r(t).found
                                 /\ r(t).removed \subseteq r(t).gone \cup missed
          BY DEF cleaned
    <3>2. \A t \in KaliTargets : Of("kali", t.counts) \subseteq lab.left
          BY CountedIsLeft
    <3> HIDE DEF r
    <3>3. results = {r(t) : t \in KaliTargets}
          BY DEF r
    <3> HIDE DEF results
    <3> QED BY <3>1, <3>2, <3>3
  <2>4. IsFiniteSet(found)
        BY <1>0, <2>3, ArtifactsAssumption, FS_Subset DEF IsLab
  <2>5. /\ Cardinality(found) \in Nat /\ Cardinality(removed) \in Nat
        /\ Cardinality(removed) <= Cardinality(found)
        /\ Cardinality(removed) = Cardinality(found) => removed = found
        BY <2>3, <2>4, FS_Subset, FS_CardinalityType
  <2>6. d.tally = tally /\ d.blind = blind /\ Kin(cmd, d)
    <3> HIDE DEF tally, blind
    <3>1. d.tally = tally /\ d.blind = blind
          BY <1>0 DEF IsCmd
    <3>2. Kin(cmd, d)
          BY <1>0, Changed
    <3> QED BY <3>1, <3>2
  <2>7. Fits(d.tally) /\ (d.tally.removed = d.tally.found => removed = found)
    <3> HIDE DEF d, found, removed
    <3> QED BY <2>5, <2>6 DEF Fits
  <2>8. ASSUME d.tally.removed = d.tally.found PROVE KaliThen(d.blind)
    <3>1. removed = found
          BY <2>7, <2>8
    <3>2. \A a \in lab'.left : a \in lab.left /\ (a \in found => a \in missed)
          BY <2>2, <2>3, <3>1
    <3>3. unseen \cup missed \subseteq d.blind
          BY <2>6
    <3> HIDE DEF found, removed, gone, results, d, tally, blind
    <3>4. \A t \in KaliTargets : Of("kali", t.counts)' \subseteq d.blind
          BY <2>3, <3>2, <3>3, LeftShrinks
    <3> QED BY <3>4 DEF KaliThen
  <2>9. cmd.passed \cup {Head(cmd.todo)} = {"kali"}
        BY <1>0
  <2>10. AccountedThen(d.tally, cmd.passed \cup {Head(cmd.todo)}, d.blind)
        BY <2>7, <2>8, <2>9 DEF AccountedThen
  <2> HIDE DEF d
  <2> QED BY <1>0, <2>1, <2>6, <2>10, PhaseEnds
<1> QED BY <1>1, <1>2, <1>3 DEF resetKali

\* What the account of a phase needs when its step adds nothing to it.
LEMMA AccountKept ==
    ASSUME Cleaned, Running, ~cmd.errs, ~cmd.slips, cmd.req.do = "score", cmd.req.apply, spent.calm,
           lab'.left \subseteq lab.left, OnRoles' \subseteq OnRoles, NEW known, cmd.blind \subseteq known
    PROVE  AccountedThen(cmd.tally, cmd.passed, known)
<1>1. Accounted(cmd.tally, cmd.passed, cmd.blind)
      BY DEF Cleaned, Judged
<1> QED BY <1>1, AccountStays

\* A phase that cannot start is an error.
LEMMA PhaseErrs ==
    ASSUME OnTrack, Cleaned, Running, cmd.req.do = "score", cmd' = Done([cmd EXCEPT !.errs = TRUE])
    PROVE  Cleaned'
<1> DEFINE d == [cmd EXCEPT !.errs = TRUE]
<1>0. IsCmd(cmd)
      BY DEF OnTrack
<1>1. d.errs /\ cmd' = Done(d)
      BY <1>0 DEF IsCmd
<1>2. Kin(cmd, d)
      BY <1>0, Changed
<1> HIDE DEF d
<1> QED BY <1>1, <1>2, PhaseEnds

LEMMA PurgeLeaves ==
    ASSUME OnTrack, Standing, Cleaned, cmd.req.do = "score", Works, liveDCTargets \/ runPurgeOnDC
    PROVE  Cleaned'
<1>0. IsCmd(cmd) /\ Running /\ cmd.do = "score" /\ Head(cmd.todo) = "purge" /\ cmd.told = None
      /\ spent'.calm = spent.calm
      BY CalmStays DEF OnTrack, Standing, liveDCTargets, runPurgeOnDC, At
<1>1. lab'.left \subseteq lab.left /\ OnRoles' \subseteq OnRoles
  <2>1. ResetStep /\ range' = range
        BY DEF ResetStep, liveDCTargets, runPurgeOnDC
  <2> QED BY <1>0, <2>1, ResetStands DEF Standing, OnRoles
<1>2. CASE cmd' = Done([cmd EXCEPT !.errs = TRUE])
      BY <1>0, <1>2, PhaseErrs
<1>3. CASE NextStep
  <2>1. Kin(cmd, cmd) /\ cmd' = Done(cmd)
        BY <1>0, <1>3 DEF Kin, NextStep
  <2>2. ASSUME cmd.req.apply, spent'.calm, ~cmd.errs, ~cmd.slips
        PROVE  AccountedThen(cmd.tally, cmd.passed \cup {Head(cmd.todo)}, cmd.blind)
    <3>1. AccountedThen(cmd.tally, cmd.passed, cmd.blind)
          BY <1>0, <1>1, <2>2, AccountKept
    <3> QED BY <1>0, <3>1 DEF AccountedThen
  <2> QED BY <1>0, <2>1, <2>2, PhaseEnds
<1>4. ASSUME Kin(cmd, cmd'), cmd'.tally = cmd.tally, cmd'.errs = cmd.errs, cmd'.blind = cmd.blind,
             cmd.slips => cmd'.slips
      PROVE  Cleaned'
  <2>1. Judged' => cmd.req.apply /\ spent.calm /\ ~cmd.errs /\ ~cmd.slips
        BY <1>0, <1>4 DEF Judged, Kin, None
  <2>2. Sweeping'
        BY <1>0, <1>4 DEF Sweeping, Kin
  <2>3. Judged' => AccountedThen(cmd'.tally, cmd.passed, cmd'.blind)
        BY <1>0, <1>1, <1>4, <2>1, AccountKept
  <2> QED BY <1>0, <1>4, <2>2, <2>3, PhaseGoesOn
<1>5. CASE liveDCTargets
  <2>1. \/ cmd' = Done([cmd EXCEPT !.errs = TRUE])
        \/ \E x, y, z : cmd' = [cmd EXCEPT !.at = x, !.list = y, !.seen = z]
    <3>1. CannotPurge => cmd' = Done([cmd EXCEPT !.errs = TRUE])
          BY <1>0 DEF CannotPurge
    <3>2. CannotPurge \/ \E list : \E z : cmd' = [cmd EXCEPT !.at = "dcs", !.list = list, !.seen = z]
          BY <1>5, Zenon DEF liveDCTargets
    <3> QED BY <3>1, <3>2
  <2>2. ASSUME NEW x, NEW y, NEW z, cmd' = [cmd EXCEPT !.at = x, !.list = y, !.seen = z] PROVE Cleaned'
    <3>1. Kin(cmd, cmd')
          BY <1>0, <2>2, Changed
    <3>2. cmd'.tally = cmd.tally /\ cmd'.errs = cmd.errs /\ cmd'.blind = cmd.blind /\ cmd'.slips = cmd.slips
          BY <1>0, <2>2 DEF IsCmd
    <3> QED BY <1>4, <3>1, <3>2
  <2> QED BY <1>2, <2>1, <2>2
<1>6. CASE runPurgeOnDC
  <2>1. NextStep \/ \E x, y : cmd' = [cmd EXCEPT !.over = x, !.slips = @ \/ y]
    <3>1. ASSUME NEW d, cmd' = [cmd EXCEPT !.over = @ \cup {d}, !.slips = TRUE]
          PROVE  \E x, y : cmd' = [cmd EXCEPT !.over = x, !.slips = @ \/ y]
      <4>1. cmd' = [cmd EXCEPT !.over = cmd.over \cup {d}, !.slips = @ \/ TRUE]
            BY <1>0, <3>1 DEF IsCmd
      <4> QED BY <4>1
    <3>2. ASSUME NEW d, NEW e, cmd' = [cmd EXCEPT !.over = @ \cup {d}, !.slips = @ \/ e]
          PROVE  \E x, y : cmd' = [cmd EXCEPT !.over = x, !.slips = @ \/ y]
      <4>1. cmd' = [cmd EXCEPT !.over = cmd.over \cup {d}, !.slips = @ \/ e]
            BY <1>0, <3>2 DEF IsCmd
      <4> QED BY <4>1
    <3>3. \/ NextStep
          \/ \E d : cmd' = [cmd EXCEPT !.over = @ \cup {d}, !.slips = TRUE]
          \/ \E d, e : cmd' = [cmd EXCEPT !.over = @ \cup {d}, !.slips = @ \/ e]
          BY <1>6, Zenon DEF runPurgeOnDC
    <3> QED BY <3>1, <3>2, <3>3
  <2>2. ASSUME NEW x, NEW y, cmd' = [cmd EXCEPT !.over = x, !.slips = @ \/ y] PROVE Cleaned'
    <3> DEFINE slips == cmd.slips \/ y
    <3>0. cmd' = [cmd EXCEPT !.over = x, !.slips = slips]
          BY <1>0, <2>2 DEF IsCmd
    <3> HIDE DEF slips
    <3>1. Kin(cmd, cmd')
          BY <1>0, <3>0, Changed
    <3>2. cmd'.tally = cmd.tally /\ cmd'.errs = cmd.errs /\ cmd'.blind = cmd.blind /\ cmd'.slips = slips
          BY <1>0, <3>0 DEF IsCmd
    <3> QED BY <1>4, <3>1, <3>2 DEF slips
  <2> QED BY <1>3, <2>1, <2>2
<1> QED BY <1>5, <1>6

\* The host map has every machine that runs, and reviving agents starts none.
LEMMA AllNamed ==
    ASSUME IsCloud(cloud), NEW f \in HostMaps
    PROVE  OnRoles \subseteq {m.role : m \in {f[h] : h \in DOMAIN f}}
<1> DEFINE found == {h \in LabHosts : Named(h) # {}}
<1>1. DOMAIN f = found /\ \A h \in found : f[h] \in Named(h)
      BY DEF HostMaps
<1>2. ASSUME NEW m \in cloud.machines, m.on PROVE m.role \in found
      BY <1>2 DEF Named, IsCloud, IsMachine
<1>3. ASSUME NEW h \in found PROVE f[h].role = h
      BY <1>1 DEF Named
<1> HIDE DEF found
<1> QED BY <1>1, <1>2, <1>3 DEF OnRoles

LEMMA NoneStarted ==
    ASSUME IsCloud(cloud), requireInfra \/ checkSSMOnline
    PROVE  OnRoles' \subseteq OnRoles
<1>1. CASE UNCHANGED cloud
      BY <1>1 DEF OnRoles
<1>2. CASE checkSSMOnline /\ ~UNCHANGED cloud
  <2>1. PICK revived \in SUBSET {m \in Now(cmd.seen) \ Answering(cmd.seen) : m.on} :
            cloud' = [cloud EXCEPT !.machines = (@ \ revived) \cup {[m EXCEPT !.online = TRUE] : m \in revived}]
        BY <1>2, Zenon DEF checkSSMOnline
  <2>2. revived \subseteq {m \in cloud.machines : m.on}
        BY DEF Now
  <2> DEFINE M == (cloud.machines \ revived) \cup {[m EXCEPT !.online = TRUE] : m \in revived}
  <2>3. cloud' = [cloud EXCEPT !.machines = M]
        BY <2>1 DEF IsCloud
  <2>4. \A m \in revived : [m EXCEPT !.online = TRUE].role = m.role
        BY <2>2 DEF IsCloud, IsMachine
  <2>5. \A n \in M : n.on => n.role \in OnRoles
        BY <2>2, <2>4 DEF OnRoles
  <2> HIDE DEF M
  <2>6. cloud'.machines = M
        BY <2>3 DEF IsCloud
  <2> QED BY <2>5, <2>6 DEF OnRoles
<1> QED BY <1>1, <1>2 DEF requireInfra

LEMMA WindowsFound ==
    ASSUME OnTrack, Standing, Cleaned, cmd.req.do = "score", Works, requireInfra \/ checkSSMOnline,
           Head(cmd.todo) = "windows"
    PROVE  Cleaned'
<1>0. IsCmd(cmd) /\ IsCloud(cloud) /\ Running /\ cmd.do = "score" /\ cmd.told = None
      /\ spent'.calm = spent.calm /\ lab' = lab
      BY CalmStays DEF OnTrack, Standing, requireInfra, checkSSMOnline, Requiring, At
<1>1. lab'.left \subseteq lab.left /\ OnRoles' \subseteq OnRoles
      BY <1>0, NoneStarted
<1>2. CASE NotFound
      BY <1>0, <1>2, PhaseErrs DEF NotFound
<1>3. ASSUME NEW x, NEW y, cmd' = [cmd EXCEPT !.at = x, !.seen = y], OnRoles \subseteq {m.role : m \in y}
      PROVE  Cleaned'
  <2>1. Kin(cmd, cmd')
        BY <1>0, <1>3, Changed
  <2>2. /\ cmd'.tally = cmd.tally /\ cmd'.errs = cmd.errs /\ cmd'.over = cmd.over /\ cmd'.seen = y
        /\ cmd'.blind = cmd.blind /\ cmd'.slips = cmd.slips
        BY <1>0, <1>3 DEF IsCmd
  <2>3. Judged' => cmd.req.apply /\ spent.calm /\ ~cmd.errs /\ ~cmd.slips
        BY <1>0, <2>1, <2>2 DEF Judged, Kin, None
  <2>4. Judged' => Sweeping'
    <3> SUFFICES ASSUME Judged' PROVE Sweeping'
          OBVIOUS
    <3>1. Sweeping
          BY <1>0, <2>3 DEF Cleaned, Judged
    <3>2. cmd'.tally.removed = cmd'.tally.found => \A h \in cmd'.over : CountedOn(h)' \subseteq cmd'.blind
          BY <1>0, <1>1, <2>2, <3>1, LeftShrinks DEF Sweeping
    <3>3. OnRoles' \subseteq {m.role : m \in cmd'.seen}
          BY <1>1, <1>3, <2>2
    <3> QED BY <3>2, <3>3 DEF Sweeping
  <2>5. Judged' => AccountedThen(cmd'.tally, cmd.passed, cmd'.blind)
        BY <1>0, <1>1, <2>2, <2>3, AccountKept
  <2> QED BY <1>0, <2>1, <2>4, <2>5, PhaseGoesOn
<1>4. CASE requireInfra
  <2>1. NotFound \/ \E f \in HostMaps : \E x : cmd' = [cmd EXCEPT !.at = x, !.seen = {f[h] : h \in DOMAIN f}]
        BY <1>4 DEF requireInfra
  <2>2. ASSUME NEW f \in HostMaps, NEW x, cmd' = [cmd EXCEPT !.at = x, !.seen = {f[h] : h \in DOMAIN f}]
        PROVE  Cleaned'
    <3> DEFINE y == {f[h] : h \in DOMAIN f}
    <3>1. OnRoles \subseteq {m.role : m \in y} /\ cmd' = [cmd EXCEPT !.at = x, !.seen = y]
          BY <1>0, <2>2, AllNamed
    <3> HIDE DEF y
    <3> QED BY <1>3, <3>1
  <2> QED BY <1>2, <2>1, <2>2
<1>5. CASE checkSSMOnline
  <2>1. NotFound \/ cmd' = [cmd EXCEPT !.at = "hosts", !.seen = cmd.seen]
        BY <1>5 DEF checkSSMOnline, Found
  <2>2. CASE Judged /\ cmd' = [cmd EXCEPT !.at = "hosts", !.seen = cmd.seen]
    <3>1. cmd.at = "ssm"
          BY <1>0, <1>5 DEF checkSSMOnline, Requiring, At
    <3>2. OnRoles \subseteq {m.role : m \in cmd.seen}
          BY <1>0, <2>2, <3>1 DEF Cleaned, Sweeping
    <3> QED BY <1>3, <2>2, <3>2
  <2>3. CASE ~Judged /\ cmd' = [cmd EXCEPT !.at = "hosts", !.seen = cmd.seen]
    <3>1. Kin(cmd, cmd')
          BY <1>0, <2>3, Changed
    <3>2. cmd'.errs = cmd.errs /\ cmd'.slips = cmd.slips
          BY <1>0, <2>3 DEF IsCmd
    <3>3. ~Judged'
          BY <1>0, <2>3, <3>1, <3>2 DEF Judged, Kin, Running, None
    <3> QED BY <1>0, <3>1, <3>3, PhaseGoesOn
  <2> QED BY <1>2, <2>1, <2>2, <2>3
<1> QED BY <1>4, <1>5

LEMMA WindowsSwept ==
    ASSUME OnTrack, Standing, Cleaned, cmd.req.do = "score", Works, runWindowsCleanup
    PROVE  Cleaned'
<1>0. IsCmd(cmd) /\ IsLab(lab) /\ Running /\ cmd.told = None /\ Head(cmd.todo) = "windows" /\ cmd.at = "hosts"
      /\ spent'.calm = spent.calm /\ cloud' = cloud
      BY CalmStays DEF OnTrack, Standing, runWindowsCleanup, At
<1>1. lab'.left \subseteq lab.left /\ OnRoles' \subseteq OnRoles
  <2>1. ResetStep /\ range' = range
        BY DEF ResetStep, runWindowsCleanup
  <2> QED BY <1>0, <2>1, ResetStands DEF Standing, OnRoles
<1>2. CASE {m.role : m \in cmd.seen} \ cmd.over = {} /\ NextStep /\ lab' = lab
  <2>1. Kin(cmd, cmd) /\ cmd' = Done(cmd)
        BY <1>0, <1>2 DEF Kin, NextStep
  <2>2. ASSUME cmd.req.apply /\ spent'.calm /\ ~cmd.errs /\ ~cmd.slips
        PROVE  AccountedThen(cmd.tally, cmd.passed \cup {Head(cmd.todo)}, cmd.blind)
    <3>1. Sweeping /\ Judged
          BY <1>0, <2>2 DEF Cleaned, Judged
    <3>2. OnRoles \subseteq cmd.over
          BY <1>0, <1>2, <3>1 DEF Sweeping
    <3>3. cmd.tally.removed = cmd.tally.found => WindowsThen(cmd.blind)
          BY <1>0, <1>1, <3>1, <3>2, LeftShrinks DEF Sweeping, WindowsThen
    <3>4. AccountedThen(cmd.tally, cmd.passed, cmd.blind)
          BY <1>0, <1>1, <2>2, AccountKept
    <3> QED BY <1>0, <3>3, <3>4 DEF AccountedThen
  <2> QED BY <1>0, <2>1, <2>2, PhaseEnds
<1>3. ASSUME NEW h, cmd' = [cmd EXCEPT !.over = @ \cup {h}, !.errs = TRUE] PROVE Cleaned'
  <2> DEFINE over == cmd.over \cup {h}
             d == [cmd EXCEPT !.over = over, !.errs = TRUE]
  <2>0. cmd' = d
        BY <1>0, <1>3 DEF IsCmd
  <2> HIDE DEF over
  <2>1. Kin(cmd, cmd')
        BY <1>0, <2>0, Changed
  <2>2. cmd'.errs = TRUE
        BY <1>0, <2>0 DEF IsCmd
  <2>3. ~Judged'
        BY <1>0, <2>1, <2>2 DEF Judged, Kin, None
  <2> QED BY <1>0, <2>1, <2>3, PhaseGoesOn
<1> DEFINE Swept(h, unseen, kept, silent, gone) ==
              /\ lab' = [lab EXCEPT !.left = @ \ gone]
              /\ cmd' = [cmd EXCEPT !.over = @ \cup {h}, !.blind = @ \cup silent,
                                    !.slips = @ \/ kept # {} \/ unseen # silent,
                                    !.tally = [found |-> @.found + Cardinality(CountedOn(h) \ unseen),
                                               removed |-> @.removed + Cardinality(gone \cap CountedOn(h))]]
<1>4. ASSUME NEW h, NEW unseen, NEW kept, NEW silent, NEW gone, gone \cap unseen = {},
             Swept(h, unseen, kept, silent, gone)
      PROVE  Cleaned'
  <2> DEFINE over == cmd.over \cup {h}
             blind == cmd.blind \cup silent
             slips == cmd.slips \/ kept # {} \/ unseen # silent
             counted == CountedOn(h) \ unseen
             found == Cardinality(counted)
             removed == Cardinality(gone \cap CountedOn(h))
             tally == [found |-> cmd.tally.found + found, removed |-> cmd.tally.removed + removed]
  <2>0. cmd' = [cmd EXCEPT !.over = over, !.blind = blind, !.slips = slips, !.tally = tally]
        BY <1>0, <1>4 DEF IsCmd
  <2>1. lab'.left = lab.left \ gone
        BY <1>0, <1>4 DEF IsLab
  <2>2. /\ found \in Nat /\ removed \in Nat /\ removed <= found
        /\ removed = found => gone \cap CountedOn(h) = counted
    <3>1. IsFiniteSet(counted)
          BY <1>0, CountedIsLeft, ArtifactsAssumption, FS_Subset DEF IsLab
    <3>2. gone \cap CountedOn(h) \subseteq counted
          BY <1>4
    <3> HIDE DEF counted
    <3> QED BY <3>1, <3>2, FS_Subset, FS_CardinalityType
  <2>3. tally.found = cmd.tally.found + found /\ tally.removed = cmd.tally.removed + removed
        OBVIOUS
  <2>4. removed = found /\ ~slips => CountedOn(h)' \subseteq blind
    <3>1. gone \cap CountedOn(h) = counted => CountedOn(h) \cap lab'.left \subseteq unseen
          BY <2>1
    <3>2. ~slips => unseen \subseteq blind
          OBVIOUS
    <3>3. CountedOn(h)' \subseteq CountedOn(h) \cap lab'.left
          BY <1>1, LeftShrinks
    <3> HIDE DEF slips, blind, counted, found, removed
    <3> QED BY <2>2, <3>1, <3>2, <3>3
  <2>5. cmd.blind \subseteq blind /\ (cmd.slips => slips)
        OBVIOUS
  <2> HIDE DEF counted, found, removed, tally, blind, slips
  <2>6. /\ Kin(cmd, cmd') /\ cmd'.tally = tally /\ cmd'.over = over /\ cmd'.errs = cmd.errs /\ cmd'.seen = cmd.seen
        /\ cmd'.blind = blind /\ cmd'.slips = slips
    <3> HIDE DEF over
    <3>1. Kin(cmd, cmd')
          BY <1>0, <2>0 DEF IsCmd, Kin
    <3> QED BY <1>0, <2>0, <3>1 DEF IsCmd
  <2>7. ASSUME Judged'
        PROVE  /\ Fits(tally)
               /\ tally.removed = tally.found =>
                    cmd.tally.removed = cmd.tally.found /\ CountedOn(h)' \subseteq blind
               /\ cmd.req.apply /\ spent.calm /\ ~cmd.errs /\ ~cmd.slips
               /\ AccountedThen(cmd.tally, cmd.passed, blind)
    <3>1. cmd.req.apply /\ spent.calm /\ ~cmd.errs /\ ~cmd.slips /\ ~slips
          BY <1>0, <2>5, <2>6, <2>7 DEF Judged, Kin, None
    <3>2. AccountedThen(cmd.tally, cmd.passed, blind)
          BY <1>0, <1>1, <2>5, <3>1, AccountKept
    <3>3. /\ Fits(tally)
          /\ tally.removed = tally.found => cmd.tally.removed = cmd.tally.found /\ removed = found
          BY <2>2, <2>3, <3>2 DEF Fits, AccountedThen
    <3> QED BY <2>4, <3>1, <3>2, <3>3
  <2>8. Judged' => Sweeping'
    <3> SUFFICES ASSUME Judged' PROVE Sweeping'
          OBVIOUS
    <3>1. Sweeping
          BY <1>0, <2>7 DEF Cleaned, Judged
    <3>2. OnRoles' \subseteq {m.role : m \in cmd'.seen}
          BY <1>0, <1>1, <2>6, <3>1 DEF Sweeping
    <3>3. tally.removed = tally.found => \A g \in over : CountedOn(g)' \subseteq blind
          BY <1>0, <1>1, <2>5, <2>7, <3>1, LeftShrinks DEF Sweeping
    <3> QED BY <2>6, <3>2, <3>3 DEF Sweeping
  <2>9. Judged' => AccountedThen(tally, cmd.passed, blind)
        BY <2>7 DEF AccountedThen
  <2> QED BY <1>0, <2>6, <2>8, <2>9, PhaseGoesOn
<1> DEFINE swept(h, unseen, kept) == IF cmd.req.apply THEN RemovableOn(h) \ (unseen \cup kept) ELSE {}
           hushed(unseen) == {a \in unseen : a.kind \notin Accounts}
<1>5. \A h, unseen, kept : swept(h, unseen, kept) \cap unseen = {}
      OBVIOUS
<1>6. \/ {m.role : m \in cmd.seen} \ cmd.over = {} /\ NextStep /\ lab' = lab
      \/ \E h : cmd' = [cmd EXCEPT !.over = @ \cup {h}, !.errs = TRUE]
      \/ \E h, unseen, kept : Swept(h, unseen, kept, hushed(unseen), swept(h, unseen, kept))
      BY ZenonT(60) DEF runWindowsCleanup
<1> HIDE DEF Swept, swept, hushed
<1>7. CASE \E h, unseen, kept : Swept(h, unseen, kept, hushed(unseen), swept(h, unseen, kept))
      BY <1>4, <1>5, <1>7
<1> QED BY <1>2, <1>3, <1>6, <1>7

LEMMA CleanedWorks ==
    ASSUME OnTrack, Standing, Cleaned, Works
    PROVE  Cleaned'
<1>0. IsCmd(cmd) /\ Moves /\ range' = range /\ Running /\ cmd.req.do = cmd.do
      BY WorksMoves DEF OnTrack
<1>1. cmd'.req = cmd.req
  <2>1. ASSUME NEW d, Kin(cmd, d), cmd' = Done(d) PROVE cmd'.req = cmd.req
        BY <2>1, Ends DEF Kin
  <2> QED BY <1>0, <2>1, Failed DEF Moves, Kin
<1> SUFFICES ASSUME cmd.req.do = "score" PROVE Cleaned'
      BY <1>1 DEF Cleaned
<1>2. Head(cmd.todo) \in {"kali", "windows", "purge"}
      BY <1>0, PhasesAre DEF Cleaned, Phased
<1>3. CASE InfraStep \/ destroyVM \/ runLabAction
      BY <1>2, <1>3 DEF InfraStep, materializeLabConfig, recordMaterializedConfigOwnership, confirmDestroy,
         checkLocalInfraState, runAllInit, RunAll, deleteSSMBucket, runLabAction, destroyVM, Infra, At
<1>4. CASE ProvisionStep \/ runUpDoctor
      BY <1>2, <1>4 DEF ProvisionStep, runProvision, checkAnsibleRuntime, BuildCollection, ensureVariant,
         generateVariant, ensureInventoryTopology, ensureTransport, ensureSSMBucket, ensureInventorySynced,
         syncAzureInventoryIPs, syncAzurePasswords, validateInventory, maybeStartSOCKSTunnel, RunPlaybook,
         runUpDoctor, Provisioning, At
<1>5. CASE HealthStep
  <2>1. Head(cmd.todo) = "windows" /\ ~runHealthChecks
        BY <1>2, <1>5 DEF HealthStep, requireInfra, checkSSMOnline, runHealthChecks, Requiring, At
  <2> QED BY <1>5, <2>1, WindowsFound DEF HealthStep
<1>6. CASE ResetStep
      BY <1>6, KaliCleans, PurgeLeaves, WindowsSwept DEF ResetStep
<1> QED BY <1>3, <1>4, <1>5, <1>6 DEF Works

-----------------------------------------------------------------------------
(* What a lab reset has brought back.                                       *)
Controllers == Lowered(DCs \cap DOMAIN inv.hosts)
\* An inventory lists no controller or every one it has a line for.
Grouped == Members(inv, "dc") = {} \/ DCs \cap DOMAIN inv.hosts \subseteq Members(inv, "dc")

Purged(d) == \A o \in lab.ad : o.dc = d => Spared(o, cmd.list, TRUE)
Restored(d) ==
    /\ [dc |-> d, covered |-> TRUE] \notin lab.drift
    /\ \A o \in Objects : o.dc = d /\ disk.config \in o.defined => o \in lab.ad

\* A purge, if there is one, comes first.
Staged ==
    Running => /\ cmd.todo \in {<<"purge", "provision">>, <<"provision">>}
               /\ cmd.todo # <<"provision">> => cmd.passed = {} /\ (cmd.at = "start" => cmd.over = {})
\* The purge goes through the controllers, then ad-data.yml is to be played or was.  What
\* it adds is on the list of the purge if the config is still the same.
Awaited ==
    /\ At("purge", "dcs") => /\ AWS /\ Controllers \subseteq {m.role : m \in cmd.seen}
                             /\ \A d \in cmd.over : Purged(d)
    /\ "purge" \in cmd.passed =>
        /\ AWS
        /\ \/ \A d \in Controllers : Purged(d)
           \/ cmd.list # disk.config /\ (~Running \/ cmd.at = "play")
        /\ Running /\ cmd.at # "start" =>
                /\ cmd.left \in Seq(STRING)
                /\ In(cmd.left, "ad-data.yml") \/ (cmd.at = "play" /\ \A d \in Controllers : Restored(d))
        /\ ~Running => \A d \in Controllers : Restored(d)
\* The resets that ResetToBaseline is about.
Plain == ~cmd.req.limit.set /\ cmd.req.plays = <<>> /\ ~cmd.req.checkOnly
Hopeful == spent.calm /\ ~cmd.slips /\ Plain /\ (Running \/ cmd.told = "ok")
Restoring == cmd.req.do = "reset" => Staged /\ (Hopeful => Awaited)

\* The stages of a reset, as runLabReset lists them.
LEMMA StagesAre ==
    /\ <<>> \o <<"provision">> = <<"provision">>
    /\ <<"purge">> \o <<"provision">> = <<"purge", "provision">>
<1> DEFINE S == {"purge", "provision"}
           p == <<"purge">>
           q == <<"provision">>
           both == <<"purge", "provision">>
<1>1. p \in Seq(S) /\ q \in Seq(S) /\ both \in Seq(S) /\ Len(p) = 1 /\ Len(q) = 1 /\ Len(both) = 2
      OBVIOUS
<1>2. p[1] = "purge" /\ q[1] = "provision" /\ both[1] = "purge" /\ both[2] = "provision"
      OBVIOUS
<1> HIDE DEF p, q, both, S
<1>3. /\ p \o q \in Seq(S) /\ Len(p \o q) = 2
      /\ (p \o q)[1] = p[1] /\ (p \o q)[2] = q[1]
  <2>1. /\ p \o q \in Seq(S) /\ Len(p \o q) = Len(p) + Len(q)
        /\ \A i \in 1 .. Len(p) + Len(q) : (p \o q)[i] = IF i <= Len(p) THEN p[i] ELSE q[i - Len(p)]
        BY <1>1, ConcatProperties
  <2> QED BY <1>1, <2>1
<1>4. \A i \in 1 .. Len(p \o q) : (p \o q)[i] = both[i]
      BY <1>2, <1>3
<1>5. p \o q = both
      BY <1>1, <1>3, <1>4, SeqEqual
<1>6. <<>> \o q = q
      BY <1>1, ConcatEmptySeq
<1> QED BY <1>5, <1>6 DEF p, q, both

(* Every rewrite of the inventory keeps its lines and its controllers.      *)
LEMMA GroupsKept ==
    ASSUME Works
    PROVE  \/ DOMAIN inv'.hosts = DOMAIN inv.hosts /\ inv'.groups = inv.groups
           \/ ensureInventoryTopology
<1>1. CASE InfraStep \/ runLabAction \/ destroyVM
      BY <1>1 DEF InfraStep, materializeLabConfig, recordMaterializedConfigOwnership, confirmDestroy,
         checkLocalInfraState, runAllInit, RunAll, deleteSSMBucket, runLabAction, destroyVM
<1>2. CASE \/ runProvision \/ checkAnsibleRuntime \/ BuildCollection \/ ensureVariant \/ generateVariant
           \/ validateInventory \/ maybeStartSOCKSTunnel \/ RunPlaybook \/ runUpDoctor
      BY <1>2 DEF runProvision, checkAnsibleRuntime, BuildCollection, ensureVariant, generateVariant,
         validateInventory, maybeStartSOCKSTunnel, RunPlaybook, runUpDoctor, OnlyCmd
<1>3. CASE ensureTransport \/ ensureSSMBucket
      BY <1>3 DEF ensureTransport, ensureSSMBucket, ensureAWSInventoryTransport, materializeSSMBucketName,
         replaceInventoryVariable
<1>4. CASE ensureInventorySynced
      BY <1>4 DEF ensureInventorySynced, applyInventoryAddresses
<1>5. CASE syncAzureInventoryIPs
      BY <1>5 DEF syncAzureInventoryIPs, applyInventoryAddresses
<1>6. CASE syncAzurePasswords
      BY <1>6 DEF syncAzurePasswords, syncAzureInventoryPasswords
<1>7. CASE HealthStep
      BY <1>7 DEF HealthStep, requireInfra, checkSSMOnline, runHealthChecks
<1>8. CASE runPurgeOnDC \/ resetKali \/ runKaliCleanup \/ runWindowsCleanup
      BY <1>8 DEF runPurgeOnDC, resetKali, runKaliCleanup, runWindowsCleanup
<1>9. CASE liveDCTargets
  <2>1. inv' = inv \/ inv' = ensureAWSInventoryTransport(inv, "region")
        BY <1>9 DEF liveDCTargets
  <2> QED BY <2>1 DEF ensureAWSInventoryTransport
<1> QED BY <1>1, <1>2, <1>3, <1>4, <1>5, <1>6, <1>7, <1>8, <1>9 DEF Works, ProvisionStep, ResetStep

LEMMA GroupedWorks ==
    ASSUME Works, Grouped
    PROVE  Grouped' /\ Controllers' = Controllers
<1>1. CASE DOMAIN inv'.hosts = DOMAIN inv.hosts /\ inv'.groups = inv.groups
      BY <1>1 DEF Grouped, Controllers, Members, DCs
<1>2. CASE ensureInventoryTopology /\ ~(DOMAIN inv'.hosts = DOMAIN inv.hosts /\ inv'.groups = inv.groups)
  <2> DEFINE new == ensureInventoryTopologyFromSource(inv, Canonical, {"ansible_connection"})
             sections == filterCanonicalTopology(Canonical, inv)
  <2>1. ~TopologyRefused(inv, Canonical) /\ inv'.hosts = new.hosts /\ inv'.groups = new.groups
        BY <1>2 DEF ensureInventoryTopology, ensureProviderInventoryVariables, replaceInventoryVariable
  <2>2. IsAD(Canonical) /\ "dc" \in DOMAIN Canonical.groups
        BY <1>2, <2>1 DEF ensureInventoryTopologyFromSource, TopologyRefused, IncompleteAD
  <2>3. DOMAIN inv'.hosts = DOMAIN inv.hosts /\ inv'.groups = addInventoryTopology(inv, sections)
        BY <2>1, <2>2 DEF ensureInventoryTopologyFromSource
  <2>4. "dc" \in DOMAIN sections /\ DCs \cap DOMAIN inv.hosts \subseteq sections["dc"]
        BY <2>2 DEF filterCanonicalTopology, Deployed, DCs, Lowered
  <2>5. Members(inv', "dc") = Members(inv, "dc") \cup missingMembers(inv, sections, "dc")
        BY <2>3, <2>4 DEF Members, addInventoryTopology
  <2>6. Members(inv, "dc") = {} => missingMembers(inv, sections, "dc") = sections["dc"]
        BY DEF missingMembers, Lowered
  <2> HIDE DEF sections, new
  <2> QED BY <2>3, <2>4, <2>5, <2>6 DEF Grouped, Controllers, DCs
<1> QED BY <1>1, <1>2, GroupsKept

(* A purge leaves only what it must spare, and nothing but a listed object  *)
(* is added afterwards.                                                     *)
LEMMA UnflaggedIsSpared ==
    ASSUME IsLab(lab), cmd.do = "reset", NEW d, NEW o \in lab.ad, o.dc = d, o \notin flagged(d, TRUE)
    PROVE  Spared(o, cmd.list, TRUE)
<1>1. o.rid \in Nat /\ o.class \in {"user", "computer", "group"}
      BY ObjectsAssumption DEF IsLab
<1>2. o \notin flaggedUsers(d, TRUE) /\ o \notin flaggedComputers(d, TRUE) /\ o \notin flaggedGroups(d)
      BY DEF flagged
<1>3. CASE o.class = "user"
      BY <1>2, <1>3 DEF flaggedUsers, Unlisted, AdminMade, Spared
<1>4. CASE o.class = "computer"
      BY <1>2, <1>4 DEF flaggedComputers, Unlisted, AdminMade, Spared
<1>5. CASE o.class = "group"
  <2>1. o.rid >= 1000 \/ o.rid < 1000
        BY <1>1
  <2> QED BY <1>2, <1>5, <2>1 DEF flaggedGroups, Unlisted, Spared
<1> QED BY <1>1, <1>3, <1>4, <1>5

LEMMA PurgedStays ==
    ASSUME cmd'.req = cmd.req, cmd'.list = cmd.list, \A o \in lab'.ad \ lab.ad : cmd.list \in o.lists,
           NEW d, Purged(d)
    PROVE  Purged(d)'
BY DEF Purged, Spared

(* A machine that a playbook reaches under a host's address is the host's.  *)
LEMMA ReachedHasRole ==
    ASSUME AWS, IsCloud(cloud), HandedOver, NEW h \in SelectedHosts(cmd.req) \cap DOMAIN inv.hosts,
           NEW m \in Reached(h)
    PROVE  m.role = Lower[h]
<1>1. PICK i \in cmd.seen : i.name.role = Lower[h] /\ inv.hosts[h].addr = expectedAWSHostAddress(inv, h, i)
      BY DEF HandedOver
<1>2. PICK g \in LabHosts, n \in 0 .. MaxGen : i.name.role = g /\ i.id = Ids[g][n] /\ i.ip = Ips[g][n]
      BY <1>1 DEF HandedOver, Located
<1>3. m.role \in LabHosts /\ m.gen \in 0 .. MaxGen /\ inv.hosts[h].addr = Ids[m.role][m.gen]
      BY DEF Reached, ReachedAs, IsCloud, IsMachine
<1>4. inv.hosts[h].addr = Ids[g][n] \/ inv.hosts[h].addr = Ips[g][n]
      BY <1>1, <1>2 DEF expectedAWSHostAddress
<1> QED BY <1>1, <1>2, <1>3, <1>4, IdsAssumption

LEMMA ResetIs ==
    ASSUME OnTrack, Standing, Restoring, cmd.req.do = "reset", Works
    PROVE  /\ IsCmd(cmd) /\ IsCloud(cloud) /\ IsLab(lab) /\ Running /\ cmd.do = "reset" /\ cmd.told = None
           /\ cmd.req.apply /\ cmd.req.fromPlaybook = None
           /\ cmd.todo \in {<<"purge", "provision">>, <<"provision">>} /\ Head(cmd.todo) \in {"purge", "provision"}
           /\ spent'.calm = spent.calm /\ range' = range /\ cmd'.req = cmd.req /\ Moves
<1>1. /\ IsCmd(cmd) /\ Moves /\ range' = range /\ Running /\ cmd.req.do = cmd.do /\ cmd.told = None
      /\ GoodRequest(cmd.req)
      BY WorksMoves DEF OnTrack
<1>2. cmd'.req = cmd.req
  <2>1. ASSUME NEW d, Kin(cmd, d), cmd' = Done(d) PROVE cmd'.req = cmd.req
        BY <2>1, Ends DEF Kin
  <2> QED BY <1>1, <2>1, Failed DEF Moves, Kin
<1>3. cmd.todo \in {<<"purge", "provision">>, <<"provision">>}
      BY <1>1 DEF Restoring, Staged
<1>4. Head(cmd.todo) \in {"purge", "provision"}
      BY <1>3
<1> QED BY <1>1, <1>2, <1>3, <1>4, CalmStays DEF Standing, GoodRequest

\* A stage ends, with d.
LEMMA StageEnds ==
    ASSUME OnTrack, Standing, Restoring, cmd.req.do = "reset", Works, NEW d, Kin(cmd, d), cmd' = Done(d),
           spent.calm /\ ~d.slips /\ Plain
              => /\ "purge" \in cmd.passed \cup {Head(cmd.todo)} =>
                        /\ AWS
                        /\ \/ \A c \in Controllers' : Purged(c)'
                           \/ Head(cmd.todo) = "provision" /\ cmd'.list # disk'.config
                 /\ Head(cmd.todo) = "provision" /\ "purge" \in cmd.passed => \A c \in Controllers' : Restored(c)'
    PROVE  Restoring'
<1>0. /\ IsCmd(d) /\ d.todo = cmd.todo /\ d.passed = cmd.passed /\ d.req = cmd.req /\ d.do = cmd.do
      /\ cmd.todo \in {<<"purge", "provision">>, <<"provision">>} /\ spent'.calm = spent.calm /\ AWS' = AWS
      BY ResetIs DEF Kin, AWS
<1>1. CASE cmd.todo = <<"purge", "provision">>
  <2>1. Len(cmd.todo) > 1 /\ Tail(cmd.todo) = <<"provision">> /\ Head(cmd.todo) = "purge"
        BY <1>1
  <2>2. /\ cmd'.todo = <<"provision">> /\ cmd'.at = "start" /\ cmd'.slips = d.slips
        /\ cmd'.req = cmd.req /\ cmd'.passed = cmd.passed \cup {"purge"} /\ cmd'.do = "reset"
    <3>1. Len(d.todo) > 1 /\ Tail(d.todo) = <<"provision">> /\ Head(d.todo) = "purge"
          BY <1>0, <2>1
    <3>2. /\ cmd'.todo = Tail(d.todo) /\ cmd'.at = "start" /\ cmd'.slips = d.slips /\ cmd'.req = d.req
          /\ cmd'.passed = d.passed \cup {Head(d.todo)} /\ cmd'.do = d.do
          BY <1>0, <3>1, Ends
    <3> QED BY <1>0, <3>1, <3>2, ResetIs
  <2>3. Staged' /\ ~At("purge", "dcs")' /\ Running'
        BY <2>2 DEF Staged, At, Running
  <2> QED BY <1>0, <2>1, <2>2, <2>3 DEF Restoring, Hopeful, Plain, Awaited
<1>2. CASE cmd.todo = <<"provision">>
  <2>1. ~(Len(cmd.todo) > 1) /\ Head(cmd.todo) = "provision"
        BY <1>2
  <2>2. /\ cmd'.do = "none" /\ cmd'.slips = d.slips
        /\ cmd'.req = cmd.req /\ cmd'.passed = cmd.passed \cup {"provision"}
        BY <1>0, <2>1, Ends, ResetIs
  <2>3. Staged' /\ ~At("purge", "dcs")' /\ ~Running'
        BY <2>2 DEF Staged, At, Running
  <2> QED BY <1>0, <2>1, <2>2, <2>3 DEF Restoring, Hopeful, Plain, Awaited
<1> QED BY <1>0, <1>1, <1>2

\* It goes on.
LEMMA StageGoesOn ==
    ASSUME OnTrack, Standing, Restoring, cmd.req.do = "reset", Works, Kin(cmd, cmd'),
           Head(cmd.todo) = "purge" /\ cmd'.at = "start" => cmd'.over = {},
           Hopeful' => Awaited'
    PROVE  Restoring'
<1>1. Running' /\ cmd'.todo = cmd.todo /\ cmd'.passed = cmd.passed /\ Staged
      BY ResetIs DEF Kin, Restoring, Running
<1>2. cmd.todo # <<"provision">> => Head(cmd.todo) = "purge"
      BY ResetIs
<1>3. Staged'
      BY <1>1, <1>2, ResetIs DEF Staged
<1> QED BY <1>3 DEF Restoring

LEMMA StageFails ==
    ASSUME NEW f, FailsAt(f) PROVE Restoring'
<1>1. cmd'.do = "none" /\ cmd'.told = "failed"
      BY Failed
<1> QED BY <1>1 DEF Restoring, Staged, Hopeful, Running
LEMMA PurgeStarts ==
    ASSUME OnTrack, Standing, Restoring, Grouped, cmd.req.do = "reset", Works, liveDCTargets
    PROVE  Restoring'
<1>0. /\ IsCmd(cmd) /\ cmd.do = "reset" /\ Head(cmd.todo) = "purge" /\ Running /\ cmd.at = "start"
      /\ lab' = lab /\ AWS' = AWS /\ Controllers' = Controllers /\ cmd'.req = cmd.req
      BY ResetIs, GroupedWorks DEF liveDCTargets, At, AWS
<1>1. cmd.todo # <<"provision">> /\ cmd.passed = {} /\ cmd.over = {}
      BY <1>0 DEF Restoring, Staged
<1>2. CASE CannotPurge
  <2> DEFINE d == [cmd EXCEPT !.slips = TRUE]
  <2>1. cmd' = Done(d)
        BY <1>0, <1>2 DEF CannotPurge
  <2>2. d.slips
        BY <1>0 DEF IsCmd
  <2>3. Kin(cmd, d)
        BY <1>0, Changed
  <2> HIDE DEF d
  <2> QED BY <2>1, <2>2, <2>3, StageEnds
<1>3. CASE ~CannotPurge
  <2> DEFINE found == {m \in cloud.machines : m.on /\ m.role \in Lowered(wantedDCs)}
  <2>1. PICK list : /\ AWS /\ wantedDCs # {} /\ OneEach(inv)
                    /\ cmd' = [cmd EXCEPT !.at = "dcs", !.list = list, !.seen = found]
        BY <1>3 DEF liveDCTargets
  <2>2. \A h \in wantedDCs : \E m \in found : m.role = Lower[h]
    <3> SUFFICES ASSUME NEW h \in wantedDCs PROVE \E m \in found : m.role = Lower[h]
          OBVIOUS
    <3>1. OfRole(DiscoverInstances, Lower[h]) # {}
      <4>1. Cardinality(OfRole(DiscoverInstances, Lower[h])) = 1
            BY <2>1 DEF OneEach
      <4> QED BY <4>1, FS_EmptySet
    <3>2. PICK i \in DiscoverInstances : i.name.role = Lower[h]
          BY <3>1, FoundHasRole DEF OfRole
    <3>3. PICK m \in cloud.machines : m.on /\ i = Instance(m)
          BY DEF DiscoverInstances
    <3>4. m.role = Lower[h]
          BY <3>2, <3>3 DEF Instance, Name
    <3> QED BY <3>3, <3>4 DEF Lowered
  <2>3. Controllers \subseteq {m.role : m \in found}
    <3>1. DCs \cap DOMAIN inv.hosts \subseteq wantedDCs
          BY <2>1 DEF Grouped, wantedDCs
    <3> HIDE DEF found
    <3> QED BY <2>2, <3>1 DEF Controllers, Lowered
  <2> HIDE DEF found
  <2>4. Kin(cmd, cmd') /\ cmd'.at = "dcs" /\ cmd'.seen = found /\ cmd'.over = {}
    <3>1. Kin(cmd, cmd')
          BY <1>0, <2>1, Changed
    <3> QED BY <1>0, <1>1, <2>1, <3>1 DEF IsCmd
  <2>5. Awaited'
        BY <1>0, <1>1, <2>1, <2>3, <2>4 DEF Awaited, Kin
  <2> QED BY <2>4, <2>5, StageGoesOn
<1> QED BY <1>2, <1>3

LEMMA PurgeGoes ==
    ASSUME OnTrack, Standing, Restoring, Grouped, cmd.req.do = "reset", Works, runPurgeOnDC
    PROVE  Restoring'
<1>0. /\ IsCmd(cmd) /\ IsLab(lab) /\ cmd.do = "reset" /\ cmd.req.apply /\ Head(cmd.todo) = "purge" /\ Running
      /\ At("purge", "dcs") /\ cmd.at = "dcs" /\ spent'.calm = spent.calm /\ cmd.told = None
      /\ AWS' = AWS /\ Controllers' = Controllers /\ cmd'.req = cmd.req
      BY ResetIs, GroupedWorks DEF runPurgeOnDC, At, AWS
<1>1. cmd.passed = {}
      BY <1>0 DEF Restoring, Staged
<1>2. ASSUME spent.calm, ~cmd.slips, Plain
      PROVE  AWS /\ Controllers \subseteq {m.role : m \in cmd.seen} /\ \A d \in cmd.over : Purged(d)
      BY <1>0, <1>2 DEF Restoring, Hopeful, Awaited
<1>3. CASE {m.role : m \in cmd.seen} \ cmd.over = {} /\ NextStep /\ lab' = lab
  <2>1. Kin(cmd, cmd) /\ cmd' = Done(cmd)
        BY <1>0, <1>3 DEF Kin, NextStep
  <2>2. ASSUME spent.calm, ~cmd.slips, Plain
        PROVE  AWS /\ \A c \in Controllers' : Purged(c)'
    <3>1. \A c \in Controllers : Purged(c)
          BY <1>2, <1>3, <2>2
    <3>2. cmd'.list = cmd.list
          BY <1>0, <2>1, Ends
    <3> QED BY <1>0, <1>2, <1>3, <2>2, <3>1, <3>2, PurgedStays
  <2> QED BY <1>0, <1>1, <2>1, <2>2, StageEnds
<1>4. ASSUME NEW d, NEW slips, cmd' = [cmd EXCEPT !.over = @ \cup {d}, !.slips = slips], lab'.ad \subseteq lab.ad,
             ~slips => ~cmd.slips /\ lab'.ad \subseteq lab.ad \ flagged(d, TRUE)
      PROVE  Restoring'
  <2> DEFINE over == cmd.over \cup {d}
  <2>1. cmd' = [cmd EXCEPT !.over = over, !.slips = slips]
        BY <1>0, <1>4 DEF IsCmd
  <2> HIDE DEF over
  <2>2. Kin(cmd, cmd')
        BY <1>0, <2>1, Changed
  <2>3. /\ cmd'.at = "dcs" /\ cmd'.seen = cmd.seen /\ cmd'.over = over /\ cmd'.slips = slips
        /\ cmd'.list = cmd.list
        BY <1>0, <2>1 DEF IsCmd
  <2>4. ASSUME Hopeful' PROVE Awaited'
    <3>1. spent.calm /\ ~slips /\ Plain
          BY <1>0, <2>3, <2>4 DEF Hopeful, Plain
    <3>2. ~cmd.slips /\ lab'.ad \subseteq lab.ad \ flagged(d, TRUE)
          BY <1>4, <3>1
    <3>3. AWS /\ Controllers \subseteq {m.role : m \in cmd.seen} /\ \A c \in cmd.over : Purged(c)
          BY <1>2, <3>1, <3>2
    <3>4. \A c \in cmd.over : Purged(c)'
          BY <1>0, <2>3, <3>2, <3>3, PurgedStays
    <3>5. Purged(d)'
      <4>1. \A o \in lab'.ad : o.dc = d => Spared(o, cmd.list, TRUE)
            BY <1>0, <3>2, UnflaggedIsSpared
      <4> QED BY <1>0, <2>3, <4>1 DEF Purged, Spared
    <3>6. \A c \in over : Purged(c)'
          BY <3>4, <3>5 DEF over
    <3> QED BY <1>0, <1>1, <2>2, <2>3, <3>3, <3>6 DEF Awaited, Kin
  <2> QED BY <2>2, <2>3, <2>4, StageGoesOn
<1>5. \/ {m.role : m \in cmd.seen} \ cmd.over = {} /\ NextStep /\ lab' = lab
      \/ \E d, slips : /\ cmd' = [cmd EXCEPT !.over = @ \cup {d}, !.slips = slips]
                       /\ lab'.ad \subseteq lab.ad
                       /\ ~slips => ~cmd.slips /\ lab'.ad \subseteq lab.ad \ flagged(d, TRUE)
  <2> DEFINE left == {m.role : m \in cmd.seen} \ cmd.over
             apply(d) == cmd.req.apply /\ \E m \in Answering(cmd.seen) : m.role = d
             gone(d, sure) == IF apply(d) THEN flagged(d, sure) ELSE {}
  <2>1. \/ left = {} /\ NextStep /\ lab' = lab
        \/ \E d \in left :
            \/ \E missed :
               /\ lab' = [lab EXCEPT !.ad = @ \ (gone(d, TRUE) \cup missed)]
               /\ cmd' = [cmd EXCEPT !.over = @ \cup {d}, !.slips = @ \/ (cmd.req.apply /\ ~apply(d))]
            \/ /\ \E part \in SUBSET gone(d, FALSE) : lab' = [lab EXCEPT !.ad = @ \ part]
               /\ cmd' = [cmd EXCEPT !.over = @ \cup {d}, !.slips = TRUE]
        BY ZenonT(60) DEF runPurgeOnDC
  <2>2. ASSUME NEW d, NEW missed, lab' = [lab EXCEPT !.ad = @ \ (gone(d, TRUE) \cup missed)],
               cmd' = [cmd EXCEPT !.over = @ \cup {d}, !.slips = @ \/ (cmd.req.apply /\ ~apply(d))]
        PROVE  \E slips : /\ cmd' = [cmd EXCEPT !.over = @ \cup {d}, !.slips = slips]
                          /\ lab'.ad \subseteq lab.ad
                          /\ ~slips => ~cmd.slips /\ lab'.ad \subseteq lab.ad \ flagged(d, TRUE)
    <3> DEFINE slips == cmd.slips \/ (cmd.req.apply /\ ~apply(d))
    <3>1. cmd' = [cmd EXCEPT !.over = @ \cup {d}, !.slips = slips]
          BY <1>0, <2>2 DEF IsCmd
    <3>2. lab'.ad = lab.ad \ (gone(d, TRUE) \cup missed)
          BY <1>0, <2>2 DEF IsLab
    <3>3. ~slips => ~cmd.slips /\ apply(d)
          BY <1>0
    <3> HIDE DEF slips
    <3> QED BY <3>1, <3>2, <3>3
  <2>3. ASSUME NEW d, NEW part, lab' = [lab EXCEPT !.ad = @ \ part],
               cmd' = [cmd EXCEPT !.over = @ \cup {d}, !.slips = TRUE]
        PROVE  \E slips : /\ cmd' = [cmd EXCEPT !.over = @ \cup {d}, !.slips = slips]
                          /\ lab'.ad \subseteq lab.ad
                          /\ ~slips => ~cmd.slips /\ lab'.ad \subseteq lab.ad \ flagged(d, TRUE)
    <3>1. lab'.ad = lab.ad \ part
          BY <1>0, <2>3 DEF IsLab
    <3> QED BY <2>3, <3>1
  <2> HIDE DEF gone, apply
  <2> QED BY <2>1, <2>2, <2>3
<1> QED BY <1>3, <1>4, <1>5

(* Nothing a reset has done is undone by what prepares the playbooks, which *)
(* are all of adStatePlaybooks.                                             *)
LEMMA PlaysPrepared ==
    ASSUME OnTrack, Standing, Restoring, Grouped, cmd.req.do = "reset", Works, ProvisionStep, ~RunPlaybook
    PROVE  Restoring'
<1>0. /\ IsCmd(cmd) /\ cmd.do = "reset" /\ Head(cmd.todo) = "provision" /\ Running
      /\ cmd.req.fromPlaybook = None /\ spent'.calm = spent.calm /\ cmd.told = None
      /\ AWS' = AWS /\ Controllers' = Controllers /\ cmd'.req = cmd.req /\ cmd.at # "play"
  <2>1. Head(cmd.todo) = "provision" /\ cmd.at # "play"
        BY DEF ProvisionStep, runProvision, checkAnsibleRuntime, BuildCollection, ensureVariant,
           generateVariant, ensureInventoryTopology, ensureTransport, ensureSSMBucket, ensureInventorySynced,
           syncAzureInventoryIPs, syncAzurePasswords, validateInventory, maybeStartSOCKSTunnel, RunPlaybook,
           Provisioning, At
  <2> QED BY <2>1, ResetIs, GroupedWorks DEF AWS
<1>1. lab' = lab
      BY DEF ProvisionStep, runProvision, checkAnsibleRuntime, BuildCollection, ensureVariant, generateVariant,
         ensureInventoryTopology, ensureTransport, ensureSSMBucket, ensureInventorySynced, syncAzureInventoryIPs,
         syncAzurePasswords, validateInventory, maybeStartSOCKSTunnel, OnlyCmd
<1>2. \/ \E x : cmd.at # "start" /\ (Go(x) \/ \E y : cmd' = [cmd EXCEPT !.at = x, !.seen = y])
      \/ cmd' = [cmd EXCEPT !.at = "tools", !.left = resolvePlaybooks(cmd.req)]
      \/ FailsAt(None)
  <2> USE DEF Fails, Provisioning, At
  <2>1. CASE runProvision
        BY <2>1 DEF runProvision
  <2>2. CASE checkAnsibleRuntime \/ BuildCollection \/ ensureVariant \/ generateVariant
        BY <2>2 DEF checkAnsibleRuntime, BuildCollection, ensureVariant, generateVariant
  <2>3. CASE ensureInventoryTopology \/ ensureTransport \/ ensureSSMBucket
        BY <2>3 DEF ensureInventoryTopology, ensureTransport, ensureSSMBucket
  <2>4. CASE ensureInventorySynced \/ syncAzureInventoryIPs
        BY <2>4 DEF ensureInventorySynced, syncAzureInventoryIPs
  <2>5. CASE syncAzurePasswords \/ validateInventory \/ maybeStartSOCKSTunnel
        BY <2>5 DEF syncAzurePasswords, validateInventory, maybeStartSOCKSTunnel
  <2> QED BY <2>1, <2>2, <2>3, <2>4, <2>5 DEF ProvisionStep
<1>3. ASSUME Kin(cmd, cmd'), cmd'.slips = cmd.slips, cmd'.list = cmd.list,
             (cmd'.left = cmd.left /\ cmd.at # "start") \/ cmd'.left = resolvePlaybooks(cmd.req)
      PROVE  Restoring'
  <2>1. ASSUME Hopeful' PROVE Awaited'
    <3>1. Hopeful
          BY <1>0, <1>3, <2>1 DEF Hopeful, Plain
    <3>2. Awaited /\ cmd.req.plays = <<>>
          BY <1>0, <3>1 DEF Restoring, Hopeful, Plain
    <3>3. \A d : Purged(d) => Purged(d)'
          BY <1>0, <1>1, <1>3 DEF Purged, Spared
    <3>4. resolvePlaybooks(cmd.req) = AdPlaybooks
          BY <1>0, <3>2 DEF resolvePlaybooks
    <3>5. "purge" \in cmd.passed =>
            /\ AWS /\ \A d \in Controllers : Purged(d)'
            /\ cmd'.left \in Seq(STRING) /\ In(cmd'.left, "ad-data.yml")
          BY <1>0, <1>3, <3>2, <3>3, <3>4, AdPlaybooksAssumption DEF Awaited
    <3>6. Running' /\ ~At("purge", "dcs")' /\ cmd'.passed = cmd.passed
          BY <1>0, <1>3 DEF Kin, Running, At
    <3> QED BY <1>0, <3>5, <3>6 DEF Awaited
  <2> QED BY <1>0, <1>3, <2>1, StageGoesOn
<1>4. ASSUME NEW x, cmd.at # "start", Go(x) PROVE Restoring'
      BY <1>0, <1>3, <1>4, Goes
<1>5. ASSUME NEW x, NEW y, cmd.at # "start", cmd' = [cmd EXCEPT !.at = x, !.seen = y] PROVE Restoring'
  <2>1. Kin(cmd, cmd') /\ cmd'.slips = cmd.slips /\ cmd'.left = cmd.left /\ cmd'.list = cmd.list
    <3>1. Kin(cmd, cmd')
          BY <1>0, <1>5, Changed
    <3> QED BY <1>0, <1>5, <3>1 DEF IsCmd
  <2> QED BY <1>3, <1>5, <2>1
<1>6. ASSUME NEW x, x = resolvePlaybooks(cmd.req), cmd' = [cmd EXCEPT !.at = "tools", !.left = x]
      PROVE  Restoring'
  <2>1. Kin(cmd, cmd') /\ cmd'.slips = cmd.slips /\ cmd'.left = x /\ cmd'.list = cmd.list
    <3>1. Kin(cmd, cmd')
          BY <1>0, <1>6, Changed
    <3> QED BY <1>0, <1>6, <3>1 DEF IsCmd
  <2> QED BY <1>3, <1>6, <2>1
<1> QED BY <1>2, <1>4, <1>5, <1>6, StageFails

\* ad-data.yml on every line of the inventory restores every controller.
LEMMA AdDataRestores ==
    ASSUME IsLab(lab), disk' = disk, ~cmd.req.checkOnly, NEW M, Ran("ad-data.yml", M, {}),
           NEW d, \E m \in M : m.role = d
    PROVE  Restored(d)'
<1>1. lab'.ad = lab.ad \cup Restorable("ad-data.yml", M) /\ lab'.drift = lab.drift \ Correctable("ad-data.yml", M)
      BY DEF Ran, IsLab
<1>2. [dc |-> d, covered |-> TRUE] \notin lab'.drift
      BY <1>1 DEF Correctable
<1>3. \A o \in Objects : o.dc = d /\ disk.config \in o.defined => o \in lab'.ad
      BY <1>1 DEF Restorable
<1> QED BY <1>2, <1>3 DEF Restored

LEMMA RanKeeps ==
    ASSUME IsLab(lab), disk' = disk, cmd'.req = cmd.req, cmd'.list = cmd.list,
           NEW p, NEW M, NEW kept, Ran(p, M, kept), NEW d
    PROVE  /\ Purged(d) /\ cmd.list = disk.config => Purged(d)'
           /\ Restored(d) => Restored(d)'
<1>1. lab'.ad = lab.ad \cup Restorable(p, M) /\ lab'.drift \subseteq lab.drift
      BY DEF Ran, IsLab
<1>2. \A o \in lab'.ad \ lab.ad : disk.config \in o.lists
      BY <1>1, ObjectsAssumption DEF Restorable
<1>3. Restored(d) => Restored(d)'
      BY <1>1 DEF Restored
<1> QED BY <1>2, <1>3, PurgedStays

LEMMA LaterOn ==
    ASSUME NEW S, NEW q \in Seq(S), Len(q) > 1, NEW x
    PROVE  Tail(q) \in Seq(S) /\ (In(q, x) => Head(q) = x \/ In(Tail(q), x))
<1>1. Tail(q) \in Seq(S) /\ Len(Tail(q)) = Len(q) - 1 /\ \A i \in 1 .. Len(q) - 1 : Tail(q)[i] = q[i + 1]
      OBVIOUS
<1>2. ASSUME NEW i \in DOMAIN q, q[i] = x, Head(q) # x PROVE In(Tail(q), x)
  <2>1. i \in 1 .. Len(q) /\ i # 1 /\ Len(q) \in Nat
        BY <1>2
  <2>2. i - 1 \in 1 .. Len(q) - 1 /\ (i - 1) + 1 = i
        BY <2>1
  <2>3. Tail(q)[i - 1] = x /\ i - 1 \in DOMAIN Tail(q)
        BY <1>1, <1>2, <2>2
  <2> QED BY <2>3 DEF In
<1> QED BY <1>1, <1>2 DEF In

LEMMA PlaysRestore ==
    ASSUME OnTrack, Standing, Handing, Restoring, Grouped, cmd.req.do = "reset", Works, RunPlaybook
    PROVE  Restoring'
<1> DEFINE p == Head(cmd.left)
           hosts == SelectedHosts(cmd.req) \cap DOMAIN inv.hosts
           reached == UNION {Reached(h) : h \in hosts}
<1>0. /\ IsCmd(cmd) /\ IsCloud(cloud) /\ IsLab(lab) /\ cmd.do = "reset" /\ Head(cmd.todo) = "provision" /\ Running
      /\ spent'.calm = spent.calm /\ cmd.told = None /\ cmd.at = "play" /\ Provisioning("play")
      /\ AWS' = AWS /\ Controllers' = Controllers /\ cmd'.req = cmd.req /\ disk' = disk
      BY ResetIs, GroupedWorks DEF RunPlaybook, Provisioning, At, AWS
<1>1. CASE \E f : FailsAt(f)
      BY <1>1, StageFails
<1>2. CASE ~\E f : FailsAt(f)
  <2>. PICK kept :
        /\ \A h \in hosts : Reached(h) # {}
        /\ Ran(p, reached, kept)
        /\ LET slips == cmd.slips \/ kept # {} IN
           IF Len(cmd.left) > 1 THEN cmd' = [cmd EXCEPT !.slips = slips, !.left = Tail(@)]
           ELSE cmd' = Done([cmd EXCEPT !.slips = slips])
        BY <1>0, <1>2, Played
  <2> DEFINE slips == cmd.slips \/ kept # {}
             t == Tail(cmd.left)
             d == [cmd EXCEPT !.slips = slips]
  <2>1. /\ \A h \in hosts : Reached(h) # {}
        /\ Ran(p, reached, kept)
        /\ IF Len(cmd.left) > 1 THEN cmd' = [cmd EXCEPT !.slips = slips, !.left = t] ELSE cmd' = Done(d)
        BY <1>0 DEF IsCmd
  <2>2. ~slips => ~cmd.slips /\ kept = {}
        OBVIOUS
  <2> HIDE DEF reached, slips, t
  <2>3. cmd'.list = cmd.list
    <3>1. Kin(cmd, d) /\ d.list = cmd.list
      <4>1. d.list = cmd.list
            BY <1>0 DEF IsCmd
      <4>2. Kin(cmd, d)
            BY <1>0, Changed
      <4> QED BY <4>1, <4>2
    <3>2. CASE Len(cmd.left) > 1
          BY <1>0, <2>1, <3>2 DEF IsCmd
    <3> HIDE DEF d
    <3>3. CASE ~(Len(cmd.left) > 1)
          BY <2>1, <3>1, <3>3, Ends DEF Kin
    <3> QED BY <3>2, <3>3
  <2>4. \A c : /\ Purged(c) /\ cmd.list = disk.config => Purged(c)'
               /\ Restored(c) => Restored(c)'
        BY <1>0, <2>1, <2>3, RanKeeps
  <2>5. ASSUME spent.calm, ~cmd.slips, Plain, "purge" \in cmd.passed
        PROVE  /\ AWS
               /\ (\A c \in Controllers : Purged(c)') \/ cmd'.list # disk'.config
               /\ cmd.left \in Seq(STRING)
               /\ In(cmd.left, "ad-data.yml") \/ \A c \in Controllers : Restored(c)
        BY <1>0, <2>3, <2>4, <2>5 DEF Restoring, Hopeful, Awaited
  <2>6. ASSUME spent.calm, ~slips, Plain, "purge" \in cmd.passed, p = "ad-data.yml"
        PROVE  \A c \in Controllers : Restored(c)'
    <3>1. HandedOver /\ AWS
          BY <1>0, <2>2, <2>5, <2>6 DEF Handing
    <3>2. hosts = DOMAIN inv.hosts
          BY <2>6 DEF SelectedHosts, Plain
    <3>3. ASSUME NEW h \in DOMAIN inv.hosts PROVE \E m \in reached : m.role = Lower[h]
      <4>1. h \in SelectedHosts(cmd.req) \cap DOMAIN inv.hosts
            BY <3>2
      <4>2. PICK m : m \in Reached(h)
            BY <2>1, <4>1
      <4>3. m.role = Lower[h]
            BY <1>0, <3>1, <4>1, <4>2, ReachedHasRole
      <4> QED BY <4>1, <4>2, <4>3 DEF reached
    <3>4. \A c \in Controllers : \E m \in reached : m.role = c
          BY <3>3 DEF Controllers, Lowered
    <3>5. Ran("ad-data.yml", reached, {}) /\ ~cmd.req.checkOnly
          BY <2>1, <2>2, <2>6 DEF Plain
    <3> QED BY <1>0, <3>4, <3>5, AdDataRestores
  <2>7. CASE Len(cmd.left) > 1
    <3>1. cmd' = [cmd EXCEPT !.slips = slips, !.left = t]
          BY <2>1, <2>7
    <3>2. cmd.left \in Seq(STRING) =>
            /\ t \in Seq(STRING)
            /\ In(cmd.left, "ad-data.yml") => p = "ad-data.yml" \/ In(t, "ad-data.yml")
          BY <2>7, LaterOn DEF t
    <3>4. Kin(cmd, cmd')
          BY <1>0, <3>1 DEF IsCmd, Kin
    <3>5. cmd'.left = t /\ cmd'.slips = slips /\ cmd'.at = "play"
          BY <1>0, <3>1 DEF IsCmd
    <3>6. ASSUME Hopeful' PROVE Awaited'
      <4>1. spent.calm /\ ~slips /\ ~cmd.slips /\ Plain
            BY <1>0, <2>2, <3>5, <3>6 DEF Hopeful, Plain
      <4>2. Running' /\ ~At("purge", "dcs")' /\ cmd'.passed = cmd.passed
            BY <1>0, <3>4 DEF Kin, Running, At
      <4>3. ASSUME "purge" \in cmd.passed
            PROVE  /\ AWS /\ ((\A c \in Controllers : Purged(c)') \/ cmd'.list # disk'.config)
                   /\ t \in Seq(STRING) /\ (In(t, "ad-data.yml") \/ \A c \in Controllers : Restored(c)')
            BY <2>4, <2>5, <2>6, <3>2, <4>1, <4>3
      <4> QED BY <1>0, <3>5, <4>2, <4>3 DEF Awaited
    <3> QED BY <1>0, <3>4, <3>6, StageGoesOn
  <2>8. CASE ~(Len(cmd.left) > 1)
    <3>1. Kin(cmd, d) /\ cmd' = Done(d) /\ d.slips = slips
      <4>1. Kin(cmd, d)
            BY <1>0, Changed
      <4> QED BY <1>0, <2>1, <2>8, <4>1 DEF IsCmd
    <3>2. cmd.left \in Seq(STRING) /\ In(cmd.left, "ad-data.yml") => p = "ad-data.yml"
          BY <2>8 DEF In
    <3>3. ASSUME spent.calm, ~slips, Plain, "purge" \in cmd.passed
          PROVE  /\ AWS /\ ((\A c \in Controllers : Purged(c)') \/ cmd'.list # disk'.config)
                 /\ \A c \in Controllers : Restored(c)'
          BY <2>2, <2>4, <2>5, <2>6, <3>2, <3>3
    <3> HIDE DEF d
    <3> QED BY <1>0, <3>1, <3>3, StageEnds
  <2> QED BY <2>7, <2>8
<1> QED BY <1>1, <1>2

LEMMA RestoringWorks ==
    ASSUME OnTrack, Standing, Handing, Restoring, Grouped, Works
    PROVE  Restoring'
<1>1. cmd'.req = cmd.req
  <2>0. IsCmd(cmd) /\ Moves
        BY WorksMoves DEF OnTrack
  <2>1. ASSUME NEW d, Kin(cmd, d), cmd' = Done(d) PROVE cmd'.req = cmd.req
        BY <2>1, Ends DEF Kin
  <2> QED BY <2>0, <2>1, Failed DEF Moves, Kin
<1> SUFFICES ASSUME cmd.req.do = "reset" PROVE Restoring'
      BY <1>1 DEF Restoring
<1>2. Head(cmd.todo) \in {"purge", "provision"}
      BY ResetIs
<1>3. CASE InfraStep \/ runLabAction \/ destroyVM \/ HealthStep \/ runUpDoctor \/ resetKali \/ runKaliCleanup
           \/ runWindowsCleanup
      BY <1>2, <1>3 DEF InfraStep, materializeLabConfig, recordMaterializedConfigOwnership, confirmDestroy,
         checkLocalInfraState, runAllInit, RunAll, deleteSSMBucket, runLabAction, destroyVM,
         HealthStep, requireInfra, checkSSMOnline, runHealthChecks, runUpDoctor, resetKali, runKaliCleanup,
         runWindowsCleanup, Infra, Requiring, At
<1> QED BY <1>3, PurgeStarts, PurgeGoes, PlaysPrepared, PlaysRestore DEF Works, ResetStep

-----------------------------------------------------------------------------
(* The invariant.                                                           *)
Kept == OnTrack /\ Standing /\ Handing /\ Emptied /\ Listed /\ Cleaned /\ Grouped /\ Restoring

LEMMA InitKept == Init => Kept
<1> SUFFICES ASSUME Init PROVE Kept
      OBVIOUS
<1>1. PICK r \in Ranges : range = r.range /\ disk = r.disk /\ inv = r.inv /\ cloud = r.cloud /\ lab = r.lab
      BY DEF Init
<1>2. /\ r.range.name \in DOMAIN Requests
      /\ r.cloud \in [machines : SUBSET Machines, extras : SUBSET (Optional \cap r.range.optional),
                      backend : BOOLEAN, bucket : BOOLEAN, last : [LabHosts -> 0..MaxGen]]
      /\ r.lab \in [ad : SUBSET Objects, drift : SUBSET Drifts, left : SUBSET Artifacts,
                    loopback : BOOLEAN, sudo : BOOLEAN]
      /\ \A h \in DOMAIN r.inv.hosts : r.inv.hosts[h].addr # None
      /\ Members(r.inv, "dc") = {} \/ DCs \cap DOMAIN r.inv.hosts \subseteq Members(r.inv, "dc")
      BY RangesAssumption
<1>3. \A m \in Machines : IsMachine(m)
      BY DEF Machines, IsMachine
<1>4. IsCloud(cloud) /\ IsLab(lab)
      BY <1>1, <1>2, <1>3 DEF IsCloud, IsLab
<1>5. IsBudget(spent) /\ Addressed
      BY <1>1, <1>2 DEF Init, IsBudget, Addressed
<1>6. IsCmd(cmd) /\ cmd.do = "none" /\ cmd.told = None /\ cmd.hint = {} /\ cmd.req.do = "up"
      BY DEF Init, Idle, IsCmd, Defaults
<1>7. OnTrack /\ Handing /\ Emptied /\ Listed /\ Cleaned /\ Restoring
      BY <1>6 DEF OnTrack, Handing, Emptied, Listed, Cleaned, Restoring, Running, Provisioning, Infra, At, None
<1>8. Grouped
      BY <1>1, <1>2 DEF Grouped
<1> QED BY <1>1, <1>2, <1>4, <1>5, <1>7, <1>8 DEF Kept, Standing

LEMMA StandingWorks ==
    ASSUME OnTrack, Standing, Handing, Works
    PROVE  Standing' /\ spent'.events = spent.events
<1>0. IsCmd(cmd) /\ range' = range /\ IsCloud(cloud) /\ IsLab(lab) /\ IsBudget(spent) /\ Addressed
      BY WorksMoves DEF OnTrack, Standing
<1>1. IsCloud(cloud)' /\ IsLab(lab)'
  <2>1. UNCHANGED lab => IsLab(lab)'
        BY <1>0 DEF IsLab
  <2> QED BY <1>0, <2>1, InfraStands, PowerStands, ProvisionStands, HealthStands, ResetStands DEF Works
<1>2. IsBudget(spent)' /\ spent'.events = spent.events
      BY <1>0, WorksSpend, BudgetKept
<1>3. Addressed'
  <2> SUFFICES ASSUME AWS PROVE \A h \in DOMAIN inv'.hosts : inv'.hosts[h].addr # None
        BY <1>0 DEF Addressed, AWS
  <2>1. inv'.hosts = inv.hosts \/ Syncs
        BY WorksRewrite DEF Handing
  <2> QED BY <1>0, <2>1, AddressesStay DEF Addressed, Syncs
<1> QED BY <1>0, <1>1, <1>2, <1>3 DEF Standing

LEMMA NextKept == Kept /\ [Next]_vars => Kept'
<1> SUFFICES ASSUME Kept, [Next]_vars PROVE Kept'
      OBVIOUS
<1> USE DEF Kept
<1>1. CASE Works
      BY <1>1, WorksMoves, TrackMoves, StandingWorks, HandingWorks, EmptiedWorks, ListedWorks, CleanedWorks,
         GroupedWorks, RestoringWorks DEF OnTrack
<1>2. CASE RunCommand \/ FollowHint
  <2>1. PICK req \in Requests[range.name] \cup cmd.hint : Run(req)
        BY <1>2 DEF RunCommand, FollowHint
  <2>2. /\ OnTrack' /\ cmd'.at = "start" /\ cmd'.told = None
        /\ cmd'.passed = {} /\ cmd'.over = {} /\ cmd'.tally = [found |-> 0, removed |-> 0]
        /\ cmd'.req.do = "score" => cmd'.todo \in PhaseLists
        /\ cmd'.req.do = "reset" => cmd'.todo \in {<<"purge", "provision">>, <<"provision">>}
        /\ spent' = [spent EXCEPT !.commands = @ + 1, !.calm = TRUE]
        /\ UNCHANGED <<range, disk, inv, cloud, lab>>
    <3>1. /\ OnTrack' /\ GoodRequest(req) /\ cmd'.at = "start" /\ cmd'.told = None /\ cmd'.todo = StepsOf(req)
          /\ cmd'.req = (IF req.do = "up" THEN newUpInfraCommand(req) ELSE req)
          /\ cmd'.passed = {} /\ cmd'.over = {} /\ cmd'.tally = [found |-> 0, removed |-> 0]
          /\ spent' = [spent EXCEPT !.commands = @ + 1, !.calm = TRUE]
          /\ UNCHANGED <<range, disk, inv, cloud, lab>>
          BY <2>1, TrackStarts
    <3>2. cmd'.req.do = "score" => req.do = "score" /\ req.phases \in PhaseLists
          BY <3>1, ApprovedGood DEF GoodRequest
    <3>3. cmd'.req.do = "reset" => cmd'.todo \in {<<"purge", "provision">>, <<"provision">>}
      <4>1. cmd'.req.do = "reset" => req.do = "reset"
            BY <3>1, ApprovedGood
      <4> QED BY <3>1, <4>1, StagesAre DEF StepsOf
    <3> QED BY <3>1, <3>2, <3>3 DEF StepsOf
  <2>3. Standing'
        BY <2>2, BudgetKept DEF Standing, IsCloud, IsLab, Addressed, AWS
  <2>4. Handing' /\ Emptied' /\ Listed'
        BY <2>2 DEF Handing, Emptied, Listed, Provisioning, Infra, At, None
  <2>5. Cleaned'
    <3>1. Fits(cmd.tally)'
          BY <2>2 DEF Fits
    <3> QED BY <2>2, <3>1 DEF Cleaned, Phased, Accounted, Sweeping
  <2>6. Grouped'
        BY <2>2 DEF Grouped, DCs
  <2>7. Restoring'
        BY <2>2 DEF Restoring, Staged, Hopeful, Awaited, At, None
  <2> QED BY <2>2, <2>3, <2>4, <2>5, <2>6, <2>7
<1>3. CASE Killed
  <2>1. /\ OnTrack' /\ cmd'.do = "none" /\ cmd'.told = "died" /\ Fault
        /\ UNCHANGED <<range, disk, inv, cloud, lab>>
        BY <1>3, TrackEnds DEF Killed
  <2>2. Standing'
        BY <2>1, BudgetKept DEF Standing, IsCloud, IsLab, Addressed, AWS
  <2>3. Handing' /\ Emptied' /\ Listed'
        BY <2>1 DEF Handing, Emptied, Listed, Provisioning, Infra, At, Running
  <2>4. Cleaned'
        BY <2>1 DEF Cleaned, Phased, Judged, Running
  <2>5. Grouped' /\ Restoring'
        BY <2>1 DEF Grouped, DCs, Restoring, Staged, Hopeful, Running
  <2> QED BY <2>1, <2>2, <2>3, <2>4, <2>5
<1>4. CASE Happens
  <2>1. /\ Standing' /\ UNCHANGED <<range, inv, cmd>>
        /\ Managed = {} => Managed' = {} /\ cloud'.extras = cloud.extras
        BY <1>4, HappensStands
  <2>2. OnTrack' /\ Handing'
        BY <2>1 DEF OnTrack, Running, Handing, Provisioning, At, HandedOver, Located, AWS, SelectedHosts,
           expectedAWSHostAddress, Connection
  <2>3. Emptied'
        BY <2>1 DEF Emptied, Infra, At, Running
  <2>4. Cleaned' /\ Listed'
    <3>1. ~spent'.calm
          BY <1>4 DEF Happens, MachineReplaced, MachineDuplicated, MachineStopped, AgentDropped, ConfigEdited,
             Engaged, Outside, Standing, IsBudget
    <3>2. Cleaned => (cmd.req.do = "score" => Phased)
          BY DEF Cleaned
    <3>3. Phased => Phased'
          BY <2>1 DEF Phased, Running
    <3> QED BY <2>1, <3>1, <3>2, <3>3 DEF Cleaned, Judged, Listed
  <2>5. Grouped' /\ Restoring'
    <3>1. ~spent'.calm
          BY <1>4 DEF Happens, MachineReplaced, MachineDuplicated, MachineStopped, AgentDropped, ConfigEdited,
             Engaged, Outside, Standing, IsBudget
    <3> QED BY <2>1, <3>1 DEF Grouped, DCs, Restoring, Staged, Hopeful, Running
  <2> QED BY <2>1, <2>2, <2>3, <2>4, <2>5
<1>5. CASE UNCHANGED vars
  <2>1. UNCHANGED <<range, disk, inv, cloud, lab, cmd, spent>>
        BY <1>5 DEF vars
  <2>2. OnTrack' /\ Standing' /\ Handing' /\ Emptied' /\ Listed' /\ Cleaned'
    <3>1. OnTrack' /\ Standing'
          BY <2>1 DEF OnTrack, Running, Standing, IsCloud, IsLab, IsBudget, Addressed, AWS
    <3>2. Handing'
          BY <2>1 DEF Handing, Provisioning, At, Running, HandedOver, Located, AWS, SelectedHosts,
             expectedAWSHostAddress, Connection
    <3>3. Emptied' /\ Listed'
          BY <2>1 DEF Emptied, Listed, Infra, At, Running, Managed
    <3>4. Cleaned'
          BY <2>1 DEF Cleaned, Phased, Judged, Running, Accounted, Sweeping, OnRoles, KaliWithin, KaliTargets,
             WindowsWithin, CountedOn, Of, On, DCs
    <3> QED BY <3>1, <3>2, <3>3, <3>4
  <2>3. Grouped' /\ Restoring'
    <3>1. \A d : (Purged(d) => Purged(d)') /\ (Restored(d) => Restored(d)')
          BY <2>1 DEF Purged, Restored, Spared
    <3>2. Grouped' /\ Controllers' = Controllers /\ AWS' = AWS /\ Running' = Running
          BY <2>1 DEF Grouped, DCs, Controllers, AWS, Running
    <3>3. Awaited => Awaited'
          BY <2>1, <3>1, <3>2 DEF Awaited, At
    <3> QED BY <2>1, <3>2, <3>3 DEF Restoring, Staged, Hopeful, Plain
  <2> QED BY <2>2, <2>3
<1> QED BY <1>1, <1>2, <1>3, <1>4, <1>5 DEF Next, Happens

LEMMA AlwaysKept == Spec => []Kept
<1> QED BY InitKept, NextKept, PTL DEF Spec

(* When playbooks start on AWS, the inventory has for every host they were  *)
(* asked for the address of the one machine that ran under its name when    *)
(* ensureInventorySynced looked, however the run was limited and whichever  *)
(* machines were missing or doubled: a limit is let through only if all of  *)
(* its hosts could be resolved (awsReconciliationOutsideLimit).             *)
THEOREM AddressesAreHandedOver == Spec => []HandoverSound
<1>1. Kept => HandoverSound
      BY DEF Kept, Handing, HandedOver, HandoverSound
<1> QED BY <1>1, AlwaysKept, PTL

(* A destroy of the whole range that says ok has removed every machine and  *)
(* unit that Terraform holds, those its flags did not name included, and    *)
(* nothing the operator or the cloud does before the next command brings    *)
(* one back.                                                                *)
THEOREM DestroyEmpties == Spec => []DestroyedMeansGone
<1>1. Kept => DestroyedMeansGone
      BY DEF Kept, Emptied, Whole, DestroyedMeansGone
<1> QED BY <1>1, AlwaysKept, PTL

(* No step of lab reset, lab purge-unmanaged or score reset --purge-ad,     *)
(* while the config on disk is the one the domain was built from and a      *)
(* variant's target is whole, removes an object that this config lists or   *)
(* that is exempt by its name, its number or as a user's trust account; nor *)
(* a computer that is a controller, nor what an administrator made, unless  *)
(* told to or unless a lookup failed: when the list of the controllers or a *)
(* creator cannot be read, the purge does delete them.  Of the controllers  *)
(* it says so.                                                              *)
THEOREM PurgeIsSelective == Spec => PurgeKeepsLab
<1>1. Kept /\ [Next]_vars =>
        [(/\ Purging /\ spent'.events = spent.events
          /\ disk.config = disk.mat /\ (range.variant => disk.target = "complete"))
            => \A o \in lab.ad \ lab'.ad :
                    ~Spared(o, disk.mat, spent' = spent) /\ (o.trust => cmd'.slips)]_vars
  <2> SUFFICES ASSUME Kept, Next, Purging, spent'.events = spent.events,
                      disk.config = disk.mat, range.variant => disk.target = "complete",
                      NEW o \in lab.ad \ lab'.ad
               PROVE  ~Spared(o, disk.mat, spent' = spent) /\ (o.trust => cmd'.slips)
        OBVIOUS
  <2>0. OnTrack /\ Standing /\ Listed
        BY DEF Kept
  <2>1. CASE Works
        BY <2>0, <2>1, PurgeWorks
  <2>2. CASE RunCommand \/ FollowHint \/ Killed
        BY <2>2 DEF RunCommand, FollowHint, Run, Killed, Dies
  <2>3. CASE Happens
    <3>1. spent'.events = spent.events + 1 /\ spent.events \in Nat
          BY <2>0, <2>3, HappensStands DEF Standing, IsBudget
    <3> QED BY <3>1
  <2> QED BY <2>1, <2>2, <2>3 DEF Next, Happens
<1> QED BY <1>1, AlwaysKept, PTL DEF Spec, PurgeKeepsLab

(* A score reset --apply that says ok, printed no error and removed as much *)
(* as it counted leaves nothing that its phases look for, on the attack box *)
(* or on a machine that runs, but what a listing hid from it that failed    *)
(* without a word (Get-ChildItem -ErrorAction SilentlyContinue, find        *)
(* 2>/dev/null).  What could not be reached shows in the exit code, what    *)
(* could not be removed in the two numbers, and accounts and members that   *)
(* could not be listed in the printed errors (resetResult).                 *)
THEOREM ResetOwnsUp == Spec => []LeftIsReported
<1>1. Kept => LeftIsReported
  <2> SUFFICES ASSUME Cleaned, cmd.told = "ok", spent.calm, cmd.req.do = "score", cmd.req.apply, ~cmd.slips,
                      cmd.tally.found = cmd.tally.removed
               PROVE  Known \subseteq cmd.blind
        BY DEF Kept, LeftIsReported
  <2>1. /\ "kali" \in cmd.passed => KaliWithin(cmd.blind)
        /\ "windows" \in cmd.passed => WindowsWithin(cmd.blind)
        BY DEF Cleaned, Judged, Accounted
  <2> QED BY <2>1 DEF Known, KaliWithin, WindowsWithin, OnRoles
<1> QED BY <1>1, AlwaysKept, PTL

(* A lab reset that says ok, whose stages printed no error or warning, that *)
(* was not told only to check, and whose purge went by the config that its  *)
(* playbooks then used, has brought back the domain of every controller the *)
(* inventory has a line for: the users and groups the config defines there  *)
(* exist, nothing is left that a purge removes, and the memberships and     *)
(* passwords that reconciliation covers are the config's.  Computer         *)
(* accounts and the drift that reconciliation skips are not promised.  The  *)
(* purge found a machine for each controller (liveDCTargets), ad-data.yml   *)
(* was among the playbooks, and each address it was handed is that          *)
(* controller's.                                                            *)
THEOREM ResetRestores == Spec => []ResetToBaseline
<1>1. Kept => ResetToBaseline
  <2> SUFFICES ASSUME OnTrack, Standing, Restoring, cmd.told = "ok", spent.calm, cmd.req.do = "reset", ~cmd.slips,
                      cmd.list = disk.config, "purge" \in cmd.passed, Plain,
                      NEW d \in Controllers
               PROVE  /\ {o \in Objects : o.dc = d /\ disk.config \in o.defined} \subseteq lab.ad
                      /\ {o \in lab.ad : o.dc = d} \subseteq {o \in Objects : Spared(o, disk.config, TRUE)}
                      /\ [dc |-> d, covered |-> TRUE] \notin lab.drift
        BY DEF Kept, ResetToBaseline, Controllers, Plain
  <2>1. ~Running
        BY DEF OnTrack, None
  <2>2. Purged(d) /\ Restored(d)
        BY <2>1 DEF Restoring, Hopeful, Awaited
  <2> QED BY <2>2 DEF Purged, Restored, Standing, IsLab
<1> QED BY <1>1, AlwaysKept, PTL

-----------------------------------------------------------------------------
(* What an up that was asked for has come to.                               *)
Items(s) == {s[i] : i \in DOMAIN s}
SuffixOf(s, t) == s \in Seq(STRING) /\ s # <<>> /\ \E k \in 1 .. Len(t) : s = SubSeq(t, k, Len(t))
InfraTodos == {<<"doctor", "infra">>, <<"infra">>}
UpTodos ==
    {<<"doctor", "infra", "provision", "health-check">>, <<"infra", "provision", "health-check">>,
     <<"provision", "health-check">>, <<"health-check">>}
AllOf(r) == IF r.plays # <<>> THEN r.plays ELSE Playbooks

(* A suffix of a list of playbooks: the rest of it is one too, and what it  *)
(* begins with comes no later in the list than its first occurrence.        *)
LEMMA SuffixesAre ==
    ASSUME NEW t \in Seq(STRING), NEW k \in 1 .. Len(t)
    PROVE  LET s == SubSeq(t, k, Len(t))
           IN  /\ s \in Seq(STRING) /\ s # <<>> /\ Len(s) = Len(t) - k + 1 /\ Head(s) = t[k]
               /\ Items(s) = {t[i] : i \in k .. Len(t)}
               /\ Len(s) > 1 => k + 1 \in 1 .. Len(t) /\ Tail(s) = SubSeq(t, k + 1, Len(t))
<1> DEFINE n == Len(t)
           s == SubSeq(t, k, n)
<1>0. n \in Nat /\ k \in 1 .. n /\ \A i \in k .. n : t[i] \in STRING
      OBVIOUS
<1>1. /\ s \in Seq(STRING) /\ Len(s) = n - k + 1
      /\ \A i \in 1 .. n - k + 1 : s[i] = t[k + i - 1]
  <2> HIDE DEF s
  <2>1. /\ SubSeq(t, k, n) \in Seq(STRING)
        /\ Len(SubSeq(t, k, n)) = IF k <= n THEN n - k + 1 ELSE 0
        /\ \A i \in 1 .. n - k + 1 : SubSeq(t, k, n)[i] = t[k + i - 1]
        BY <1>0, SubSeqProperties
  <2> QED BY <1>0, <2>1 DEF s
<1> HIDE DEF s
<1>2. Len(s) >= 1 /\ Len(s) \in Nat
      BY <1>0, <1>1
<1>3. s # <<>> /\ Head(s) = t[k]
  <2>1. s # <<>>
        BY <1>1, <1>2
  <2>2. Head(s) = s[1] /\ 1 \in 1 .. n - k + 1 /\ k + 1 - 1 = k
        BY <1>0, <1>1, <2>1
  <2>3. s[1] = t[k + 1 - 1]
        BY <1>1, <2>2
  <2> QED BY <2>1, <2>2, <2>3
<1>4. Items(s) = {t[i] : i \in k .. n}
  <2>1. DOMAIN s = 1 .. n - k + 1
        BY <1>1
  <2>2. ASSUME NEW i \in DOMAIN s PROVE s[i] \in {t[j] : j \in k .. n}
    <3>1. k + i - 1 \in k .. n /\ s[i] = t[k + i - 1]
          BY <1>0, <1>1, <2>1
    <3> QED BY <3>1
  <2>3. ASSUME NEW j \in k .. n PROVE t[j] \in Items(s)
    <3>1. j - k + 1 \in 1 .. n - k + 1 /\ k + (j - k + 1) - 1 = j
          BY <1>0
    <3>2. s[j - k + 1] = t[k + (j - k + 1) - 1]
          BY <1>1, <3>1
    <3> QED BY <2>1, <3>1, <3>2 DEF Items
  <2> QED BY <2>2, <2>3 DEF Items
<1>5. ASSUME Len(s) > 1 PROVE k + 1 \in 1 .. n /\ Tail(s) = SubSeq(t, k + 1, n)
  <2>1. k + 1 \in 1 .. n /\ k + 1 <= n
        BY <1>0, <1>1, <1>5
  <2> DEFINE u == SubSeq(t, k + 1, n)
  <2>2. /\ u \in Seq(STRING) /\ Len(u) = n - k
        /\ \A i \in 1 .. n - k : u[i] = t[k + i]
    <3> HIDE DEF u
    <3>1. \A i \in k + 1 .. n : t[i] \in STRING
          BY <1>0
    <3>2. /\ SubSeq(t, k + 1, n) \in Seq(STRING)
          /\ Len(SubSeq(t, k + 1, n)) = IF k + 1 <= n THEN n - (k + 1) + 1 ELSE 0
          /\ \A i \in 1 .. n - (k + 1) + 1 : SubSeq(t, k + 1, n)[i] = t[(k + 1) + i - 1]
          BY <1>0, <2>1, <3>1, SubSeqProperties
    <3>3. n - (k + 1) + 1 = n - k /\ \A i \in 1 .. n - k : (k + 1) + i - 1 = k + i
          BY <1>0
    <3> QED BY <2>1, <3>2, <3>3 DEF u
  <2> HIDE DEF u
  <2>3. Tail(s) \in Seq(STRING) /\ Len(Tail(s)) = n - k /\ \A i \in 1 .. n - k : Tail(s)[i] = s[i + 1]
    <3>1. Tail(s) \in Seq(STRING) /\ Len(Tail(s)) = Len(s) - 1 /\ \A i \in 1 .. Len(s) - 1 : Tail(s)[i] = s[i + 1]
          BY <1>1, <1>3
    <3>2. Len(s) - 1 = n - k
          BY <1>0, <1>1
    <3> QED BY <3>1, <3>2
  <2>4. \A i \in 1 .. n - k : s[i + 1] = t[k + i]
    <3>1. ASSUME NEW i \in 1 .. n - k PROVE s[i + 1] = t[k + i]
      <4>1. i + 1 \in 1 .. n - k + 1 /\ k + (i + 1) - 1 = k + i
            BY <1>0
      <4>2. s[i + 1] = t[k + (i + 1) - 1]
            BY <1>1, <4>1
      <4> QED BY <4>1, <4>2
    <3> QED BY <3>1
  <2>5. Tail(s) = u
        BY <2>2, <2>3, <2>4, SeqEqual
  <2> QED BY <2>1, <2>5 DEF u
<1> QED BY <1>1, <1>3, <1>4, <1>5 DEF s

(* Where something first occurs.  That a set of numbers has a least one:    *)
(* no set of finite sets is without one that contains no other.             *)
LEMMA FirstOf ==
    ASSUME NEW n \in Nat, NEW I \in SUBSET (1 .. n), I # {}
    PROVE  \E i \in I : \A j \in I : i <= j
<1> DEFINE T == {1 .. i : i \in I}
           R == StrictSubsetOrdering(1 .. n)
           S == FiniteSubsetsOf(1 .. n)
<1>1. IsWellFoundedOn(R, S)
      BY FS_StrictSubsetOrderingWellFounded
<1>2. \A i \in I : IsFiniteSet(1 .. i) /\ 1 .. i \subseteq 1 .. n
  <2>1. \A i \in I : i \in Int /\ 1 \in Int /\ i <= n
        OBVIOUS
  <2>2. \A i \in I : IsFiniteSet(1 .. i)
        BY <2>1, FS_Interval
  <2> QED BY <2>1, <2>2
<1>3. T \subseteq S /\ T # {}
      BY <1>2 DEF FiniteSubsetsOf
<1> HIDE DEF S
<1>4. PICK x \in T : \A y \in T : ~(<<y, x>> \in R)
  <2> HIDE DEF R, T
  <2> QED BY <1>1, <1>3, WFMin
<1>5. PICK i \in I : x = 1 .. i
      OBVIOUS
<1>6. ASSUME NEW j \in I PROVE i <= j
  <2>1. <<1 .. j, 1 .. i>> \notin R
        BY <1>4, <1>5
  <2>2. 1 .. j \in SUBSET (1 .. n) /\ 1 .. i \in SUBSET (1 .. n)
        BY <1>2
  <2>3. ~(1 .. j \subseteq 1 .. i /\ 1 .. j # 1 .. i)
        BY <2>1, <2>2, Zenon DEF StrictSubsetOrdering
  <2> QED BY <2>3
<1> QED BY <1>6

LEMMA FirstIndex ==
    ASSUME NEW t \in Seq(STRING), NEW x, In(t, x)
    PROVE  /\ Index(t, x) \in 1 .. Len(t) /\ t[Index(t, x)] = x
           /\ \A i \in 1 .. Len(t) : t[i] = x => Index(t, x) <= i
<1> DEFINE n == Len(t)
           I == {i \in 1 .. n : t[i] = x}
<1>1. n \in Nat /\ DOMAIN t = 1 .. n
      OBVIOUS
<1>2. I \in SUBSET (1 .. n) /\ I # {}
      BY <1>1 DEF In
<1>3. PICK i \in I : \A j \in I : i <= j
  <2> HIDE DEF I, n
  <2> QED BY <1>1, <1>2, FirstOf
<1>4. Index(t, x) = CHOOSE k \in DOMAIN t : t[k] = x /\ \A j \in DOMAIN t : t[j] = x => k <= j
      BY DEF Index
<1>5. i \in DOMAIN t /\ t[i] = x /\ \A j \in DOMAIN t : t[j] = x => i <= j
      BY <1>1, <1>3
<1>6. LET k == Index(t, x) IN k \in DOMAIN t /\ t[k] = x /\ \A j \in DOMAIN t : t[j] = x => k <= j
      BY <1>4, <1>5
<1> QED BY <1>1, <1>6

(* What remains of a list from the first occurrence of what a suffix begins *)
(* with contains the suffix.                                                *)
LEMMA RemainderHolds ==
    ASSUME NEW t \in Seq(STRING), NEW s, SuffixOf(s, t)
    PROVE  LET rest == SubSeq(t, Index(t, Head(s)), Len(t))
           IN  /\ In(t, Head(s)) /\ rest \in Seq(STRING) /\ rest # <<>> /\ Items(s) \subseteq Items(rest)
<1>1. PICK k \in 1 .. Len(t) : s = SubSeq(t, k, Len(t))
      BY DEF SuffixOf
<1>2. Head(s) = t[k] /\ Items(s) = {t[i] : i \in k .. Len(t)}
      BY <1>1, SuffixesAre
<1>3. In(t, Head(s))
      BY <1>2 DEF In
<1> DEFINE first == Index(t, Head(s))
<1>4. first \in 1 .. Len(t) /\ first <= k
      BY <1>2, <1>3, FirstIndex
<1> HIDE DEF first
<1>5. /\ SubSeq(t, first, Len(t)) \in Seq(STRING) /\ SubSeq(t, first, Len(t)) # <<>>
      /\ Items(SubSeq(t, first, Len(t))) = {t[i] : i \in first .. Len(t)}
      BY <1>4, SuffixesAre
<1>6. k .. Len(t) \subseteq first .. Len(t)
      BY <1>4
<1> QED BY <1>2, <1>3, <1>5, <1>6 DEF first

LEMMA SuffixGoesOn ==
    ASSUME NEW t \in Seq(STRING), NEW s, SuffixOf(s, t)
    PROVE  /\ Head(s) \in Items(s)
           /\ Len(s) > 1 => SuffixOf(Tail(s), t) /\ Items(s) = {Head(s)} \cup Items(Tail(s))
           /\ ~(Len(s) > 1) => Items(s) = {Head(s)}
<1>1. PICK k \in 1 .. Len(t) : s = SubSeq(t, k, Len(t))
      BY DEF SuffixOf
<1>2. /\ s \in Seq(STRING) /\ s # <<>> /\ Len(s) = Len(t) - k + 1 /\ Head(s) = t[k]
      /\ Items(s) = {t[i] : i \in k .. Len(t)}
      /\ Len(s) > 1 => k + 1 \in 1 .. Len(t) /\ Tail(s) = SubSeq(t, k + 1, Len(t))
      BY <1>1, SuffixesAre
<1>3. Head(s) \in Items(s)
      BY <1>2
<1>4. ASSUME Len(s) > 1 PROVE SuffixOf(Tail(s), t) /\ Items(s) = {Head(s)} \cup Items(Tail(s))
  <2>1. k + 1 \in 1 .. Len(t) /\ Tail(s) = SubSeq(t, k + 1, Len(t))
        BY <1>2, <1>4
  <2>2. Tail(s) \in Seq(STRING) /\ Tail(s) # <<>> /\ Items(Tail(s)) = {t[i] : i \in k + 1 .. Len(t)}
        BY <2>1, SuffixesAre
  <2>3. k .. Len(t) = {k} \cup (k + 1 .. Len(t))
        BY <2>1
  <2> QED BY <1>2, <2>1, <2>2, <2>3 DEF SuffixOf
<1>5. ASSUME ~(Len(s) > 1) PROVE Items(s) = {Head(s)}
  <2>1. k = Len(t)
        BY <1>2, <1>5
  <2>2. k .. Len(t) = {k}
        BY <2>1
  <2> QED BY <1>2, <2>2
<1> QED BY <1>3, <1>4, <1>5

-----------------------------------------------------------------------------
(* What a request asks for, and what its hints carry of it.                 *)
PlaysGood(r) == r.plays \in Seq(STRING) /\ (r.fromPlaybook # None => r.plays = <<>>)
Carries(a, r, head) ==
    /\ PlaysGood(r)
    /\ head \in {"doctor", "infra"} =>
         /\ r.module = a.module /\ r.exclude = a.exclude /\ r.plays = a.plays /\ r.fromPlaybook = a.fromPlaybook
         /\ r.with \subseteq a.with \cup IF AWS THEN {} ELSE {"bastion", "controller"}
    /\ head # "health-check" => r.limit = a.limit

LEMMA AsksAre ==
    /\ \A r : Asks(r) = Items(resolvePlaybooks(r))
    /\ \A r, s : r.do = s.do /\ r.plays = s.plays /\ r.fromPlaybook = s.fromPlaybook => Asks(r) = Asks(s)
<1>1. \A r : Asks(r) = Items(resolvePlaybooks(r))
      BY DEF Asks, Items
<1>2. ASSUME NEW r, NEW s, r.do = s.do, r.plays = s.plays, r.fromPlaybook = s.fromPlaybook
      PROVE  resolvePlaybooks(r) = resolvePlaybooks(s)
      BY <1>2 DEF resolvePlaybooks
<1> QED BY <1>1, <1>2

LEMMA Resolved ==
    ASSUME NEW r, PlaysGood(r), r.do = "up",
           r.fromPlaybook \in {None} \cup {Playbooks[i] : i \in DOMAIN Playbooks}
    PROVE  SuffixOf(resolvePlaybooks(r), AllOf(r))
<1> DEFINE all == AllOf(r)
<1>1. /\ resolvePlaybooks(r) = IF r.fromPlaybook = None THEN all
                               ELSE SubSeq(all, Index(all, r.fromPlaybook), Len(all))
      BY DEF resolvePlaybooks, AllOf
<1>2. all \in Seq(STRING) /\ all # <<>> /\ (r.fromPlaybook # None => all = Playbooks)
      BY PlaybooksAssumption DEF AllOf, PlaysGood
<1> HIDE DEF all
<1>3. CASE r.fromPlaybook = None
  <2>1. Len(all) >= 1 /\ 1 \in 1 .. Len(all)
        BY <1>2
  <2>2. all = SubSeq(all, 1, Len(all))
        BY <1>2, SubSeqFull
  <2> QED BY <1>1, <1>2, <1>3, <2>1, <2>2 DEF SuffixOf, all
<1>4. CASE r.fromPlaybook # None
  <2>1. In(all, r.fromPlaybook)
        BY <1>2, <1>4 DEF In
  <2> DEFINE k == Index(all, r.fromPlaybook)
  <2>2. k \in 1 .. Len(all)
        BY <1>2, <2>1, FirstIndex
  <2> HIDE DEF k
  <2>3. SubSeq(all, k, Len(all)) \in Seq(STRING) /\ SubSeq(all, k, Len(all)) # <<>>
        BY <1>2, <2>2, SuffixesAre
  <2>4. resolvePlaybooks(r) = SubSeq(all, k, Len(all))
        BY <1>1, <1>4 DEF k
  <2> QED BY <2>2, <2>3, <2>4 DEF SuffixOf, all
<1> QED BY <1>3, <1>4

(* A hint of the provision step asks for all that is left.                  *)
LEMMA HintAsks ==
    ASSUME NEW r, PlaysGood(r), r.do = "up", NEW left, left \in Seq(STRING),
           Items(left) \subseteq Asks(r), NEW f, f = None \/ (f = Head(left) /\ SuffixOf(left, AllOf(r))),
           NEW hint, hint.do = "up",
           IF f # None
           THEN IF r.plays # <<>>
                THEN hint.plays = remainingPlaybookSelection(r.plays, f) /\ hint.fromPlaybook = None
                ELSE hint.plays = <<>> /\ hint.fromPlaybook = f
           ELSE IF r.plays # <<>> THEN hint.plays = r.plays /\ hint.fromPlaybook = None
           ELSE hint.plays = <<>> /\ hint.fromPlaybook = r.fromPlaybook
    PROVE  PlaysGood(hint) /\ Items(left) \subseteq Asks(hint)
<1> DEFINE rest(t) == SubSeq(t, Index(t, f), Len(t))
<1>1. CASE f = None
  <2>1. hint.plays = r.plays /\ hint.fromPlaybook = r.fromPlaybook
        BY <1>1 DEF PlaysGood
  <2>2. Asks(hint) = Asks(r)
        BY <2>1, AsksAre
  <2> QED BY <2>1, <2>2 DEF PlaysGood
<1>2. CASE f # None /\ r.plays # <<>>
  <2>1. f = Head(left) /\ SuffixOf(left, r.plays) /\ r.plays \in Seq(STRING)
        BY <1>2 DEF AllOf, PlaysGood
  <2>2. In(r.plays, f) /\ rest(r.plays) \in Seq(STRING) /\ rest(r.plays) # <<>> /\ Items(left) \subseteq Items(rest(r.plays))
        BY <2>1, RemainderHolds
  <2>3. hint.plays = rest(r.plays) /\ hint.fromPlaybook = None
        BY <1>2, <2>2 DEF remainingPlaybookSelection
  <2> HIDE DEF rest
  <2>4. resolvePlaybooks(hint) = rest(r.plays)
        BY <2>2, <2>3 DEF resolvePlaybooks
  <2> QED BY <2>2, <2>3, <2>4, AsksAre DEF PlaysGood
<1>3. CASE f # None /\ r.plays = <<>>
  <2>1. f = Head(left) /\ SuffixOf(left, Playbooks)
        BY <1>3 DEF AllOf
  <2>2. Items(left) \subseteq Items(rest(Playbooks))
        BY <2>1, PlaybooksAssumption, RemainderHolds
  <2>3. hint.plays = <<>> /\ hint.fromPlaybook = f
        BY <1>3
  <2>4. resolvePlaybooks(hint) = rest(Playbooks)
        BY <1>3, <2>3 DEF resolvePlaybooks
  <2>5. PlaysGood(hint)
        BY <2>3 DEF PlaysGood
  <2> HIDE DEF rest
  <2> QED BY <2>2, <2>4, <2>5, AsksAre
<1> QED BY <1>1, <1>2, <1>3

(* The steps of an up, and what remains of them.                            *)
LEMMA UpTodosAre ==
    ASSUME NEW r, GoodRequest(r), validateUpExecutionOptions(r)
    PROVE  /\ selectUpSteps(r) \in (IF r.infraOnly THEN InfraTodos ELSE UpTodos)
           /\ r.from # None => Head(selectUpSteps(r)) = r.from
           /\ Head(selectUpSteps(r)) = "health-check" => ~In(selectUpSteps(r), "provision")
<1> DEFINE q == selectUpSteps(r)
           i == FirstStep(r)
           j == LastStep(r)
<1>1. /\ i \in 1 .. 4 /\ j \in {2, 4} /\ i <= j
      /\ q \in Seq(StepsFor("up")) /\ q # <<>> /\ Len(q) = j - i + 1
      /\ \A k \in 1 .. Len(q) : q[k] = UpSteps[i + k - 1]
      BY UpStepsAre
<1>2. /\ r.infraOnly => i <= 2 /\ j = 2
      /\ ~r.infraOnly => j = 4
      /\ r.from # None => UpSteps[i] = r.from
  <2>1. r.infraOnly => r.from \in {None, "doctor", "infra"}
        BY DEF validateUpExecutionOptions
  <2>2. r.from \in {None, "doctor", "infra", "provision", "health-check"}
        BY DEF GoodRequest
  <2>3. r.infraOnly => i <= 2
        BY <2>1, IndexOfStep DEF FirstStep
  <2>4. (r.infraOnly => j = 2) /\ (~r.infraOnly => j = 4)
        BY <2>3 DEF LastStep
  <2>5. UpSteps[1] = "doctor" /\ UpSteps[2] = "infra" /\ UpSteps[3] = "provision" /\ UpSteps[4] = "health-check"
        BY DEF UpSteps
  <2>6. r.from # None => UpSteps[i] = r.from
        BY <2>2, <2>5, IndexOfStep DEF FirstStep
  <2> QED BY <2>3, <2>4, <2>6
<1> HIDE DEF q, i, j
<1>3. q[1] = UpSteps[i] /\ Head(q) = q[1]
  <2>1. 1 \in 1 .. Len(q) /\ i + 1 - 1 = i
        BY <1>1
  <2> QED BY <1>1, <2>1
<1>4. /\ UpSteps[1] = "doctor" /\ UpSteps[2] = "infra" /\ UpSteps[3] = "provision" /\ UpSteps[4] = "health-check"
      BY DEF UpSteps
<1>5. ASSUME i = 1, j = 2 PROVE q = <<"doctor", "infra">>
  <2>1. Len(q) = 2 /\ q[1] = "doctor" /\ q[2] = "infra"
        BY <1>1, <1>4, <1>5
  <2> QED BY <1>1, <2>1
<1>6. ASSUME i = 2, j = 2 PROVE q = <<"infra">>
  <2>1. Len(q) = 1 /\ q[1] = "infra"
        BY <1>1, <1>4, <1>6
  <2> QED BY <1>1, <2>1
<1>7. ASSUME i = 1, j = 4 PROVE q = <<"doctor", "infra", "provision", "health-check">>
  <2>1. Len(q) = 4 /\ q[1] = "doctor" /\ q[2] = "infra" /\ q[3] = "provision" /\ q[4] = "health-check"
        BY <1>1, <1>4, <1>7
  <2> QED BY <1>1, <2>1
<1>8. ASSUME i = 2, j = 4 PROVE q = <<"infra", "provision", "health-check">>
  <2>1. Len(q) = 3 /\ q[1] = "infra" /\ q[2] = "provision" /\ q[3] = "health-check"
        BY <1>1, <1>4, <1>8
  <2> QED BY <1>1, <2>1
<1>9. ASSUME i = 3, j = 4 PROVE q = <<"provision", "health-check">>
  <2>1. Len(q) = 2 /\ q[1] = "provision" /\ q[2] = "health-check"
        BY <1>1, <1>4, <1>9
  <2> QED BY <1>1, <2>1
<1>10. ASSUME i = 4, j = 4 PROVE q = <<"health-check">>
  <2>1. Len(q) = 1 /\ q[1] = "health-check"
        BY <1>1, <1>4, <1>10
  <2> QED BY <1>1, <2>1
<1>11. i \in {1, 2, 3, 4}
      BY <1>1
<1>12. q \in (IF r.infraOnly THEN InfraTodos ELSE UpTodos)
  <2>1. CASE r.infraOnly
        BY <1>2, <1>5, <1>6, <1>11, <2>1 DEF InfraTodos
  <2>2. CASE ~r.infraOnly
        BY <1>2, <1>7, <1>8, <1>9, <1>10, <1>11, <2>2 DEF UpTodos
  <2> QED BY <2>1, <2>2
<1>13. ASSUME Head(q) = "health-check" PROVE ~In(q, "provision")
  <2>1. i = 4
        BY <1>3, <1>4, <1>11, <1>13
  <2>2. j = 4
        BY <1>1, <2>1
  <2>3. q = <<"health-check">>
        BY <1>10, <2>1, <2>2
  <2> QED BY <2>3 DEF In
<1> QED BY <1>2, <1>3, <1>12, <1>13 DEF q

LEMMA TodoGoesOn ==
    ASSUME NEW b, NEW q \in (IF b THEN InfraTodos ELSE UpTodos)
    PROVE  /\ Head(q) \in StepsFor("up") /\ q # <<>>
           /\ Len(q) > 1 => /\ Tail(q) \in (IF b THEN InfraTodos ELSE UpTodos)
                            /\ <<Head(q), Head(Tail(q))>> \in {<<"doctor", "infra">>, <<"infra", "provision">>,
                                                               <<"provision", "health-check">>}
           /\ ~(Len(q) > 1) => Head(q) = IF b THEN "infra" ELSE "health-check"
           /\ Head(q) \notin {"doctor", "infra"} => ~b
<1>1. CASE b
  <2>1. CASE q = <<"doctor", "infra">>
    <3>1. Head(q) = "doctor" /\ Tail(q) = <<"infra">> /\ Head(Tail(q)) = "infra"
          BY <2>1
    <3> QED BY <1>1, <2>1, <3>1 DEF InfraTodos, StepsFor
  <2>2. CASE q = <<"infra">>
    <3>1. Head(q) = "infra" /\ Len(q) = 1
          BY <2>2
    <3> QED BY <1>1, <2>2, <3>1 DEF InfraTodos, StepsFor
  <2> QED BY <1>1, <2>1, <2>2 DEF InfraTodos
<1>2. CASE ~b
  <2>1. CASE q = <<"doctor", "infra", "provision", "health-check">>
    <3>1. Head(q) = "doctor" /\ Tail(q) = <<"infra", "provision", "health-check">> /\ Head(Tail(q)) = "infra"
          BY <2>1
    <3> QED BY <1>2, <2>1, <3>1 DEF UpTodos, StepsFor
  <2>2. CASE q = <<"infra", "provision", "health-check">>
    <3>1. Head(q) = "infra" /\ Tail(q) = <<"provision", "health-check">> /\ Head(Tail(q)) = "provision"
          BY <2>2
    <3> QED BY <1>2, <2>2, <3>1 DEF UpTodos, StepsFor
  <2>3. CASE q = <<"provision", "health-check">>
    <3>1. Head(q) = "provision" /\ Tail(q) = <<"health-check">> /\ Head(Tail(q)) = "health-check"
          BY <2>3
    <3> QED BY <1>2, <2>3, <3>1 DEF UpTodos, StepsFor
  <2>4. CASE q = <<"health-check">>
    <3>1. Head(q) = "health-check" /\ Len(q) = 1
          BY <2>4
    <3> QED BY <1>2, <2>4, <3>1 DEF UpTodos, StepsFor
  <2> QED BY <1>2, <2>1, <2>2, <2>3, <2>4 DEF UpTodos
<1> QED BY <1>1, <1>2

-----------------------------------------------------------------------------
(* The hosts an up can be held to (Up), and what provisioning has come to   *)
(* on them: on Azure the line says the address of the one machine called    *)
(* like the host and the password of the lab config, on AWS no line is      *)
(* reached but over SSM; and a machine that the line reaches, the host's    *)
(* own on AWS, has the playbooks in Q.                                      *)
Sole(h, i) == Called(h) = {i}
Playable(h) == AWS \/ \E i \in DiscoverInstances : Sole(h, i)
Given(h) == \A i \in DiscoverInstances : Sole(h, i) => inv.hosts[h].addr = PlainAddress(i)
Passworded(h) ==
    LET want == materializedHostPasswords IN
    (Lower[h] \in DOMAIN want /\ inv.hosts[h].pw # None /\ want[Lower[h]] \in Quotable)
        => inv.hosts[h].pw = want[Lower[h]]
Lined(h) == IF AWS THEN Connection(inv, h) \in {None, "aws_ssm"} ELSE Given(h) /\ Passworded(h)
Ready(h, Q) == Lined(h) /\ \E m \in Reached(h) : (AWS => m.role = Lower[h]) /\ Q \subseteq m.done
Upto(a, Q) == \A h \in SelectedHosts(a) \cap DOMAIN inv.hosts : Playable(h) => Ready(h, Q)

Plays(a) == In(selectUpSteps(a), "provision")
Progress(a, pend) == Plays(a) /\ ~(Asks(a) \subseteq pend) => Upto(a, Asks(a) \ pend)
Passed(a) == Plays(a) => Upto(a, Asks(a))

LEMMA LessIsUpto ==
    ASSUME NEW a, NEW Q, NEW R, R \subseteq Q, Upto(a, Q)
    PROVE  Upto(a, R)
BY DEF Upto, Ready

LEMMA MorePends ==
    ASSUME NEW a, NEW P, NEW Q, P \subseteq Q, Progress(a, P)
    PROVE  Progress(a, Q)
<1> SUFFICES ASSUME Plays(a), ~(Asks(a) \subseteq Q) PROVE Upto(a, Asks(a) \ Q)
      BY DEF Progress
<1>1. Upto(a, Asks(a) \ P) /\ Asks(a) \ Q \subseteq Asks(a) \ P
      BY DEF Progress
<1> QED BY <1>1, LessIsUpto

LEMMA MorePendsThen ==
    ASSUME NEW a, NEW P, NEW Q, P \subseteq Q, Progress(a, P)'
    PROVE  Progress(a, Q)'
<1> SUFFICES ASSUME Plays(a), ~(Asks(a) \subseteq Q) PROVE Upto(a, Asks(a) \ Q)'
      BY DEF Progress
<1>1. Upto(a, Asks(a) \ P)' /\ Asks(a) \ Q \subseteq Asks(a) \ P
      BY DEF Progress
<1> QED BY <1>1 DEF Upto, Ready

(* Machines that were worked on.                                            *)
Later(m, n) ==
    /\ n.role = m.role /\ n.gen = m.gen /\ n.on = m.on /\ n.built = m.built
    /\ (m.online => n.online) /\ m.done \subseteq n.done
Grown ==
    /\ \A m \in cloud.machines : \E n \in cloud'.machines : Later(m, n)
    /\ \A n \in cloud'.machines : \E m \in cloud.machines : Later(m, n)

LEMMA SameGrown == ASSUME cloud'.machines = cloud.machines PROVE Grown
BY DEF Grown, Later

LEMMA WorkedOn ==
    ASSUME IsCloud(cloud), NEW M \in SUBSET cloud.machines, NEW p, NEW N,
           \/ N = (cloud.machines \ M) \cup {[m EXCEPT !.done = @ \cup {p}] : m \in M}
           \/ N = (cloud.machines \ M) \cup {[m EXCEPT !.online = TRUE] : m \in M},
           cloud' = [cloud EXCEPT !.machines = N]
    PROVE  Grown
<1>1. cloud'.machines = N
      BY DEF IsCloud
<1>2. ASSUME NEW m \in cloud.machines
      PROVE  Later(m, m) /\ Later(m, [m EXCEPT !.done = @ \cup {p}]) /\ Later(m, [m EXCEPT !.online = TRUE])
      BY DEF Later, IsCloud, IsMachine
<1>3. CASE N = (cloud.machines \ M) \cup {[m EXCEPT !.done = @ \cup {p}] : m \in M}
  <2> DEFINE f(m) == [m EXCEPT !.done = @ \cup {p}]
  <2>1. N = (cloud.machines \ M) \cup {f(m) : m \in M} /\ \A m \in cloud.machines : Later(m, m) /\ Later(m, f(m))
        BY <1>2, <1>3
  <2> HIDE DEF f
  <2> QED BY <1>1, <2>1 DEF Grown
<1>4. CASE N = (cloud.machines \ M) \cup {[m EXCEPT !.online = TRUE] : m \in M}
  <2> DEFINE f(m) == [m EXCEPT !.online = TRUE]
  <2>1. N = (cloud.machines \ M) \cup {f(m) : m \in M} /\ \A m \in cloud.machines : Later(m, m) /\ Later(m, f(m))
        BY <1>2, <1>4
  <2> HIDE DEF f
  <2> QED BY <1>1, <2>1 DEF Grown
<1> QED BY <1>3, <1>4

LEMMA SameInstances ==
    ASSUME Grown
    PROVE  /\ DiscoverInstances' = DiscoverInstances
           /\ \A h : Called(h)' = Called(h)
           /\ {m.role : m \in cloud'.machines} = {m.role : m \in cloud.machines}
<1>1. \A m, n : Later(m, n) => Instance(n) = Instance(m) /\ (n.on <=> m.on)
      BY DEF Later, Instance, Name
<1>2. DiscoverInstances' = {Instance(m) : m \in {m \in cloud'.machines : m.on}}
      BY DEF DiscoverInstances, Instance, Name
<1>3. DiscoverInstances' \subseteq DiscoverInstances
  <2>1. ASSUME NEW n \in cloud'.machines, n.on PROVE Instance(n) \in DiscoverInstances
    <3>1. PICK m \in cloud.machines : Later(m, n)
          BY DEF Grown
    <3> QED BY <1>1, <2>1, <3>1 DEF DiscoverInstances
  <2> QED BY <1>2, <2>1
<1>4. DiscoverInstances \subseteq DiscoverInstances'
  <2>1. ASSUME NEW m \in cloud.machines, m.on PROVE Instance(m) \in DiscoverInstances'
    <3>1. PICK n \in cloud'.machines : Later(m, n)
          BY DEF Grown
    <3> QED BY <1>1, <1>2, <2>1, <3>1
  <2> QED BY <2>1 DEF DiscoverInstances
<1>5. DiscoverInstances' = DiscoverInstances
      BY <1>3, <1>4
<1>6. \A h : Called(h)' = Called(h)
      BY <1>5 DEF Called
<1>7. {m.role : m \in cloud'.machines} = {m.role : m \in cloud.machines}
      BY DEF Grown, Later
<1> QED BY <1>5, <1>6, <1>7

(* A step that keeps the machines and, of the lines that are ready, what    *)
(* they reach, takes nothing back.                                          *)
LEMMA UptoStays ==
    ASSUME range' = range, Grown, DOMAIN inv'.hosts = DOMAIN inv.hosts, NEW a, NEW Q, Upto(a, Q),
           \A h \in DOMAIN inv.hosts : Playable(h) /\ Ready(h, Q) =>
                /\ Lined(h)' /\ inv'.hosts[h].addr = inv.hosts[h].addr
                /\ AWS \/ inv'.hosts[h].pw = inv.hosts[h].pw
    PROVE  Upto(a, Q)'
<1>1. AWS' = AWS /\ SelectedHosts(a)' = SelectedHosts(a)
      BY DEF AWS, SelectedHosts
<1>2. \A h : Playable(h)' <=> Playable(h)
      BY <1>1, SameInstances DEF Playable, Sole
<1>3. ASSUME NEW h \in SelectedHosts(a) \cap DOMAIN inv.hosts, Playable(h) PROVE Ready(h, Q)'
  <2>1. /\ Ready(h, Q) /\ Lined(h)' /\ inv'.hosts[h].addr = inv.hosts[h].addr
        /\ AWS \/ inv'.hosts[h].pw = inv.hosts[h].pw
        BY <1>3 DEF Upto
  <2>2. PICK m \in Reached(h) : (AWS => m.role = Lower[h]) /\ Q \subseteq m.done
        BY <2>1 DEF Ready
  <2>3. m \in cloud.machines /\ ReachedAs(h, m)
        BY DEF Reached
  <2>4. PICK n \in cloud'.machines : Later(m, n)
        BY <2>3 DEF Grown
  <2>5. ReachedAs(h, n)'
        BY <1>1, <2>1, <2>3, <2>4 DEF ReachedAs, Later
  <2>6. n \in Reached(h)' /\ (AWS => n.role = Lower[h]) /\ Q \subseteq n.done
        BY <2>2, <2>4, <2>5 DEF Reached, Later
  <2> QED BY <1>1, <2>1, <2>6 DEF Ready
<1> QED BY <1>1, <1>2, <1>3 DEF Upto

-----------------------------------------------------------------------------
(* What preparing the playbooks does to the lines of the inventory.         *)
AddrGiven == \A h \in DOMAIN inv.hosts : inv.hosts[h].addr # None
OverSSM(d, h) == Connection(d, h) \in {None, "aws_ssm"}

LEMMA ConnectionKept ==
    ASSUME ensureInventoryTopology \/ ensureTransport \/ ensureSSMBucket
    PROVE  inv'.hosts = inv.hosts /\ \A h : OverSSM(inv, h) => OverSSM(inv', h)
<1> DEFINE ac == "ansible_connection"
           Tells(d, e) == /\ e.hosts = d.hosts
                          /\ \/ /\ ac \in DOMAIN e.vars <=> ac \in DOMAIN d.vars
                                /\ ac \in DOMAIN d.vars => e.vars[ac] = d.vars[ac]
                             \/ ac \in DOMAIN e.vars /\ e.vars[ac] = "aws_ssm"
<1>1. ASSUME NEW d, NEW e, Tells(d, e) PROVE e.hosts = d.hosts /\ \A h : OverSSM(d, h) => OverSSM(e, h)
      BY <1>1 DEF OverSSM, Connection, None
<1>2. \A d, k, v : k # ac => Tells(d, replaceInventoryVariable(d, k, v))
      BY DEF replaceInventoryVariable, Over
<1>3. CASE ensureInventoryTopology
  <2>1. CASE inv' = inv
        BY <1>1, <2>1
  <2>2. CASE inv' # inv
    <3> DEFINE new == ensureInventoryTopologyFromSource(inv, Canonical, {ac})
    <3>1. inv' = replaceInventoryVariable(new, "admin_user", "adm")
          BY <1>3, <2>2 DEF ensureInventoryTopology, ensureProviderInventoryVariables
    <3>2. Tells(inv, new)
      <4>1. CASE ~IsAD(Canonical)
            BY <4>1 DEF ensureInventoryTopologyFromSource
      <4>2. CASE IsAD(Canonical)
        <5> DEFINE more == Only(Canonical.vars, missingVars(inv, Canonical, {ac}))
        <5>1. new.hosts = inv.hosts /\ new.vars = Over(inv.vars, more)
              BY <4>2 DEF ensureInventoryTopologyFromSource, addInventoryVariables
        <5>2. ac \notin DOMAIN more
              BY DEF Only, missingVars
        <5> HIDE DEF new, more
        <5> QED BY <5>1, <5>2 DEF Over
      <4> QED BY <4>1, <4>2
    <3> HIDE DEF new
    <3>3. Tells(new, inv')
          BY <1>2, <3>1
    <3>4. Tells(inv, inv')
          BY <3>2, <3>3
    <3> HIDE DEF Tells
    <3> QED BY <1>1, <3>4
  <2> QED BY <2>1, <2>2
<1>4. CASE ensureTransport
  <2>1. Tells(inv, inv')
        BY <1>4 DEF ensureTransport, ensureAWSInventoryTransport, Over
  <2> QED BY <1>1, <2>1
<1>5. CASE ensureSSMBucket
  <2>1. inv' = inv \/ inv' = replaceInventoryVariable(inv, "bucket", "bucket-of-env")
        BY <1>5 DEF ensureSSMBucket, materializeSSMBucketName
  <2>2. Tells(inv, inv')
        BY <1>2, <2>1
  <2> QED BY <1>1, <2>2
<1> QED BY <1>3, <1>4, <1>5

LEMMA Rewritten ==
    ASSUME NEW d, NEW addresses
    PROVE  LET new == applyInventoryAddresses(d, addresses)
               Matched(h) == {addresses[k] : k \in {k \in DOMAIN addresses : Lower[k] = Lower[h]}}
           IN  /\ DOMAIN new.hosts = DOMAIN d.hosts /\ new.vars = d.vars /\ new.groups = d.groups
               /\ \A h \in DOMAIN d.hosts :
                    /\ new.hosts[h].conn = d.hosts[h].conn /\ new.hosts[h].pw = d.hosts[h].pw
                    /\ Connection(new, h) = Connection(d, h)
                    /\ IF d.hosts[h].addr = None \/ Matched(h) = {} THEN new.hosts[h].addr = d.hosts[h].addr
                       ELSE new.hosts[h].addr \in Matched(h)
<1> DEFINE new == applyInventoryAddresses(d, addresses)
           Matched(h) == {addresses[k] : k \in {k \in DOMAIN addresses : Lower[k] = Lower[h]}}
           a(h) == CHOOSE x \in Matched(h) : TRUE
<1>1. /\ DOMAIN new.hosts = DOMAIN d.hosts /\ new.vars = d.vars /\ new.groups = d.groups
      /\ \A h \in DOMAIN d.hosts : new.hosts[h] =
            IF d.hosts[h].addr = None \/ Matched(h) = {} THEN d.hosts[h]
            ELSE [addr |-> a(h), first |-> d.hosts[h].first, conn |-> d.hosts[h].conn, pw |-> d.hosts[h].pw]
      BY DEF applyInventoryAddresses
<1>2. \A h : Matched(h) # {} => a(h) \in Matched(h)
      OBVIOUS
<1> HIDE DEF new, Matched, a
<1>3. ASSUME NEW h \in DOMAIN d.hosts
      PROVE  /\ new.hosts[h].conn = d.hosts[h].conn /\ new.hosts[h].pw = d.hosts[h].pw
             /\ IF d.hosts[h].addr = None \/ Matched(h) = {} THEN new.hosts[h].addr = d.hosts[h].addr
                ELSE new.hosts[h].addr \in Matched(h)
  <2>1. CASE d.hosts[h].addr = None \/ Matched(h) = {}
    <3>1. new.hosts[h] = d.hosts[h]
          BY <1>1, <2>1
    <3> QED BY <2>1, <3>1
  <2>2. CASE ~(d.hosts[h].addr = None \/ Matched(h) = {})
    <3>1. new.hosts[h] = [addr |-> a(h), first |-> d.hosts[h].first, conn |-> d.hosts[h].conn, pw |-> d.hosts[h].pw]
          BY <1>1, <2>2
    <3> QED BY <1>2, <2>2, <3>1
  <2> QED BY <2>1, <2>2
<1>4. \A h \in DOMAIN d.hosts : Connection(new, h) = Connection(d, h)
      BY <1>1, <1>3 DEF Connection
<1> QED BY <1>1, <1>3, <1>4 DEF new, Matched

(* The address of a machine that is reached, and no other runs under the    *)
(* name, is the one that reconciliation writes.                             *)
LEMMA SyncKeepsReady ==
    ASSUME AWS, AddrGiven, ~GlobalProblem(inv), Syncs, NEW h \in DOMAIN inv.hosts, NEW Q, Ready(h, Q)
    PROVE  inv'.hosts[h].addr = inv.hosts[h].addr /\ OverSSM(inv', h)
<1> DEFINE I == DiscoverInstances
           expected == expectedAWSInventoryAddresses(inv, I)
<1>1. PICK m \in cloud.machines : m.on /\ m.role = Lower[h] /\ inv.hosts[h].addr = Ids[m.role][m.gen]
      BY DEF Ready, Reached, ReachedAs
<1>2. OverSSM(inv, h) /\ Connection(inv', h) = Connection(inv, h)
      BY Rewritten DEF Ready, Lined, OverSSM, Syncs
<1>3. AddressesHold(inv', expected) /\ \A k \in DOMAIN inv.hosts \ DOMAIN expected : inv'.hosts[k] = inv.hosts[k]
      BY AddressesAreWritten DEF Syncs, AddrGiven
<1>4. CASE h \in DOMAIN expected
  <2>1. PICK i \in I : OfRole(I, Lower[h]) = {i} /\ expected[h] = expectedAWSHostAddress(inv, h, i)
    <3> HIDE DEF I
    <3>1. \E i \in I : /\ OfRole(I, Lower[h]) = {i}
                       /\ expectedAWSInventoryAddresses(inv, I)[h] = expectedAWSHostAddress(inv, h, i)
                       /\ expectedAWSHostAddress(inv, h, i) # None
          BY ONLY <1>4, ExpectedIs
    <3> QED BY <3>1
  <2>2. Instance(m) \in I
        BY <1>1 DEF DiscoverInstances
  <2>3. Instance(m) \in OfRole(I, Lower[h]) /\ Instance(m).id = Ids[m.role][m.gen]
        BY <1>1, <2>2, FoundHasRole DEF OfRole, Instance, Name
  <2>4. i = Instance(m)
        BY <2>1, <2>3
  <2>5. expected[h] = inv.hosts[h].addr
        BY <1>1, <1>2, <2>1, <2>3, <2>4 DEF expectedAWSHostAddress, OverSSM
  <2> QED BY <1>2, <1>3, <1>4, <2>5 DEF AddressesHold, OverSSM
<1>5. CASE h \notin DOMAIN expected
      BY <1>2, <1>3, <1>5 DEF OverSSM
<1> QED BY <1>4, <1>5

(* Away from AWS, where nothing is checked, the sync writes the address of  *)
(* the one machine called like the host, if it is one.                      *)
LEMMA PlainIsGiven ==
    ASSUME IsCloud(cloud), NEW i \in DiscoverInstances
    PROVE  /\ i.name.role \in LabHosts /\ i.name.role # None /\ PlainAddress(i) # None
           /\ \E g \in LabHosts, n \in 0 .. MaxGen : i.id = Ids[g][n] /\ i.ip = Ips[g][n]
<1>1. PICK m \in cloud.machines : i = Instance(m)
      BY DEF DiscoverInstances
<1>2. /\ m.role \in LabHosts /\ m.gen \in 0 .. MaxGen
      /\ i.name.role = m.role /\ i.id = Ids[m.role][m.gen] /\ i.ip = Ips[m.role][m.gen]
      BY <1>1 DEF Instance, Name, IsCloud, IsMachine
<1>3. i.id # i.ip
      BY <1>2, IdsAssumption
<1>4. PlainAddress(i) # None
      BY <1>3 DEF PlainAddress
<1> QED BY <1>2, <1>4, LabAssumption

LEMMA AzureSyncs ==
    ASSUME AddrGiven, IsCloud(cloud), NEW addresses \in PlainAddresses(DiscoverInstances),
           inv' = applyInventoryAddresses(inv, addresses)
    PROVE  /\ DOMAIN inv'.hosts = DOMAIN inv.hosts
           /\ \A h \in DOMAIN inv.hosts :
                /\ inv'.hosts[h].pw = inv.hosts[h].pw /\ inv'.hosts[h].addr # None
                /\ \A i \in DiscoverInstances : Sole(h, i) => inv'.hosts[h].addr = PlainAddress(i)
<1> DEFINE I == DiscoverInstances
           roles == {extractHostRole(i.name) : i \in I} \ {None}
           Matched(h) == {addresses[k] : k \in {k \in DOMAIN addresses : Lower[k] = Lower[h]}}
<1>1. /\ addresses \in [roles -> {PlainAddress(i) : i \in I}]
      /\ \A r \in roles : \E i \in OfRole(I, r) : addresses[r] = PlainAddress(i)
      BY DEF PlainAddresses
<1>2. \A i \in I : extractHostRole(i.name) = i.name.role /\ i.name.role # None /\ PlainAddress(i) # None
      BY FoundHasRole, PlainIsGiven
<1>3. roles = {i.name.role : i \in I} /\ DOMAIN addresses = roles
      BY <1>1, <1>2
<1>4. \A k \in roles : \E i \in I : i.name.role = k /\ addresses[k] = PlainAddress(i)
      BY <1>1, <1>2 DEF OfRole
<1> HIDE DEF roles
<1>5. ASSUME NEW h \in DOMAIN inv.hosts
      PROVE  /\ inv'.hosts[h].pw = inv.hosts[h].pw
             /\ IF Matched(h) = {} THEN inv'.hosts[h].addr = inv.hosts[h].addr ELSE inv'.hosts[h].addr \in Matched(h)
      BY Rewritten DEF AddrGiven
<1>6. ASSUME NEW h \in DOMAIN inv.hosts PROVE inv'.hosts[h].addr # None
  <2>1. \A a \in Matched(h) : a # None
        BY <1>2, <1>3, <1>4
  <2> HIDE DEF Matched
  <2> QED BY <1>5, <2>1 DEF AddrGiven
<1>7. ASSUME NEW h \in DOMAIN inv.hosts, NEW i \in I, Sole(h, i) PROVE inv'.hosts[h].addr = PlainAddress(i)
  <2>1. \A j \in I : Lower[j.name.role] = Lower[h] <=> j = i
        BY <1>7 DEF Sole, Called
  <2>2. i.name.role \in roles /\ Lower[i.name.role] = Lower[h]
        BY <1>3, <2>1
  <2>3. Matched(h) # {}
        BY <1>3, <2>2
  <2>4. ASSUME NEW k \in roles, Lower[k] = Lower[h] PROVE addresses[k] = PlainAddress(i)
        BY <1>4, <2>1, <2>4
  <2>5. \A a \in Matched(h) : a = PlainAddress(i)
        BY <1>3, <2>4
  <2> HIDE DEF Matched
  <2> QED BY <1>5, <2>3, <2>5
<1>8. DOMAIN inv'.hosts = DOMAIN inv.hosts
      BY Rewritten
<1> QED BY <1>5, <1>6, <1>7, <1>8

LEMMA PasswordsSync ==
    ASSUME inv' = syncAzureInventoryPasswords(inv, materializedHostPasswords, Quotable), disk' = disk
    PROVE  /\ DOMAIN inv'.hosts = DOMAIN inv.hosts
           /\ \A h \in DOMAIN inv.hosts :
                /\ inv'.hosts[h].addr = inv.hosts[h].addr /\ Passworded(h)'
                /\ Passworded(h) => inv'.hosts[h].pw = inv.hosts[h].pw
<1> DEFINE want == materializedHostPasswords
           Set(h) == Lower[h] \in DOMAIN want /\ inv.hosts[h].pw # None /\ want[Lower[h]] \in Quotable
<1>1. materializedHostPasswords' = want
      BY DEF materializedHostPasswords
<1>2. /\ DOMAIN inv'.hosts = DOMAIN inv.hosts
      /\ \A h \in DOMAIN inv.hosts : inv'.hosts[h] =
            IF Set(h) THEN [addr |-> inv.hosts[h].addr, first |-> inv.hosts[h].first, conn |-> inv.hosts[h].conn,
                            pw |-> want[Lower[h]]]
            ELSE inv.hosts[h]
      BY DEF syncAzureInventoryPasswords
<1> HIDE DEF want
<1>3. ASSUME NEW h \in DOMAIN inv.hosts
      PROVE  /\ inv'.hosts[h].addr = inv.hosts[h].addr
             /\ inv'.hosts[h].pw = IF Set(h) THEN want[Lower[h]] ELSE inv.hosts[h].pw
  <2>1. CASE Set(h)
    <3>1. inv'.hosts[h] = [addr |-> inv.hosts[h].addr, first |-> inv.hosts[h].first, conn |-> inv.hosts[h].conn,
                           pw |-> want[Lower[h]]]
          BY <1>2, <2>1
    <3> QED BY <2>1, <3>1
  <2>2. CASE ~Set(h)
    <3>1. inv'.hosts[h] = inv.hosts[h]
          BY <1>2, <2>2
    <3> QED BY <2>2, <3>1
  <2> QED BY <2>1, <2>2
<1>4. ASSUME NEW h \in DOMAIN inv.hosts PROVE Passworded(h)' /\ (Passworded(h) => inv'.hosts[h].pw = inv.hosts[h].pw)
  <2>1. Passworded(h) <=> (Set(h) => inv.hosts[h].pw = want[Lower[h]])
        BY DEF Passworded, want
  <2>2. Passworded(h)' <=> (/\ Lower[h] \in DOMAIN want /\ inv'.hosts[h].pw # None /\ want[Lower[h]] \in Quotable
                            => inv'.hosts[h].pw = want[Lower[h]])
        BY <1>1 DEF Passworded
  <2> QED BY <1>3, <2>1, <2>2
<1> QED BY <1>2, <1>3, <1>4

-----------------------------------------------------------------------------
(* What an up that was asked for has come to while the command runs or      *)
(* waits for its hint to be followed.  What is pending when provisioning    *)
(* starts is all that the request asks for, later what is left of it; what  *)
(* is not pending is done.                                                  *)
RunsFor(c) ==
    /\ cmd.do = "up" /\ cmd.todo \in (IF cmd.req.infraOnly THEN InfraTodos ELSE UpTodos)
    /\ Carries(c.req, cmd.req, Step) /\ ~cmd.req.individual
    /\ Step = "provision" /\ cmd.at = "start" => Progress(c.req, Asks(cmd.req))
    /\ Step = "provision" /\ cmd.at # "start" =>
          /\ SuffixOf(cmd.left, AllOf(cmd.req)) /\ Items(cmd.left) \subseteq Asks(cmd.req)
          /\ Progress(c.req, Items(cmd.left))
          /\ cmd.at \in {"passwords", "gates", "tunnel", "play"} /\ ~AWS => \A h \in DOMAIN inv.hosts : Given(h)
          /\ cmd.at \in {"gates", "tunnel", "play"} /\ ~AWS => \A h \in DOMAIN inv.hosts : Passworded(h)
    /\ Step = "health-check" => Passed(c.req)
WaitsFor(c) ==
    /\ \A r \in cmd.hint :
         /\ r.from \in StepsFor("up") /\ Carries(c.req, r, r.from)
         /\ r.from = "provision" => Progress(c.req, Asks(r))
         /\ r.from = "health-check" => Passed(c.req)
    /\ cmd.told = "Lab is up" => Passed(c.req)
Upheld == \A c \in chain : c.req.do = "up" /\ IF Running THEN RunsFor(c) ELSE WaitsFor(c)

LEMMA UpRuns ==
    ASSUME OnTrack, Running, NEW c, c.req.do = "up", RunsFor(c)
    PROVE  /\ IsCmd(cmd) /\ GoodRequest(cmd.req) /\ cmd.req.do = "up" /\ cmd.do = "up" /\ cmd.told = None
           /\ Step \in StepsFor("up")
BY TodoGoesOn DEF OnTrack, RunsFor, Step

LEMMA CarriesOn ==
    ASSUME range' = range, NEW a, NEW r, NEW x, Carries(a, r, x), NEW y,
           y \in {"doctor", "infra"} => x \in {"doctor", "infra"}, y # "health-check" => x # "health-check"
    PROVE  Carries(a, r, y)'
BY DEF Carries, AWS, PlaysGood

(* A step that goes on, is done, or fails.                                  *)
LEMMA ChainGoesOn ==
    ASSUME OnTrack, Running, NEW c, RunsFor(c), range' = range, Kin(cmd, cmd'),
           Step = "health-check" => Passed(c.req)',
           Step = "provision" =>
              /\ cmd'.at # "start" /\ SuffixOf(cmd'.left, AllOf(cmd.req)) /\ Items(cmd'.left) \subseteq Asks(cmd.req)
              /\ Progress(c.req, Items(cmd.left))'
              /\ cmd'.at \in {"passwords", "gates", "tunnel", "play"} /\ ~AWS => \A h \in DOMAIN inv'.hosts : Given(h)'
              /\ cmd'.at \in {"gates", "tunnel", "play"} /\ ~AWS => \A h \in DOMAIN inv'.hosts : Passworded(h)'
    PROVE  Running' /\ RunsFor(c)'
<1>1. cmd'.do = cmd.do /\ cmd'.req = cmd.req /\ cmd'.todo = cmd.todo /\ Step' = Step /\ AWS' = AWS
      BY DEF Kin, Step, AWS
<1>2. Carries(c.req, cmd.req, Step)'
      BY <1>1, CarriesOn DEF RunsFor
<1>3. /\ Step = "provision" /\ cmd'.at = "start" => FALSE
      /\ Step = "provision" /\ cmd'.at # "start" =>
          /\ SuffixOf(cmd.left, AllOf(cmd.req))' /\ (Items(cmd.left) \subseteq Asks(cmd.req))'
          /\ Progress(c.req, Items(cmd.left))'
          /\ cmd'.at \in {"passwords", "gates", "tunnel", "play"} /\ ~AWS => \A h \in DOMAIN inv'.hosts : Given(h)'
          /\ cmd'.at \in {"gates", "tunnel", "play"} /\ ~AWS => \A h \in DOMAIN inv'.hosts : Passworded(h)'
      BY <1>1
<1> QED BY <1>1, <1>2, <1>3 DEF RunsFor, Running

LEMMA ChainEnds ==
    ASSUME OnTrack, Running, NEW c, c.req.do = "up", RunsFor(c), range' = range, NEW d, Kin(cmd, d), cmd' = Done(d),
           Step \in {"provision", "health-check"} => Passed(c.req)'
    PROVE  IF Running' THEN RunsFor(c)' ELSE WaitsFor(c)'
<1> DEFINE b == cmd.req.infraOnly
           q == cmd.todo
<1>1. /\ IsCmd(d) /\ d.req = cmd.req /\ d.todo = q /\ d.do = "up" /\ d.told = None
      BY UpRuns DEF Kin
<1>2. /\ q \in (IF b THEN InfraTodos ELSE UpTodos) /\ Carries(c.req, cmd.req, Head(q)) /\ ~cmd.req.individual
      /\ cmd.req.do = "up"
      BY UpRuns DEF RunsFor, Step
<1>3. /\ Len(q) > 1 => /\ Tail(q) \in (IF b THEN InfraTodos ELSE UpTodos)
                       /\ <<Head(q), Head(Tail(q))>> \in {<<"doctor", "infra">>, <<"infra", "provision">>,
                                                          <<"provision", "health-check">>}
      /\ ~(Len(q) > 1) => Head(q) = IF b THEN "infra" ELSE "health-check"
  <2> HIDE DEF b, q
  <2> QED BY <1>2, TodoGoesOn DEF b, q
<1>4. cmd'.req = cmd.req /\ cmd'.at = "start"
      BY <1>1, Ends
<1>5. CASE Len(q) > 1
  <2>1. cmd'.do = "up" /\ cmd'.todo = Tail(q)
        BY <1>1, <1>5, Ends
  <2>2. Running' /\ Step' = Head(Tail(q))
        BY <2>1 DEF Running, Step
  <2>6. Carries(c.req, cmd.req, Step)'
    <3>1. PICK x, y, r : x = Head(q) /\ y = Head(Tail(q)) /\ r = cmd.req
          OBVIOUS
    <3>2. /\ Carries(c.req, r, x) /\ (y \in {"doctor", "infra"} => x \in {"doctor", "infra"})
          /\ (y # "health-check" => x # "health-check")
          BY <1>2, <1>3, <1>5, <3>1
    <3>3. Carries(c.req, r, y)'
          BY <3>2, CarriesOn
    <3>4. cmd'.req = r /\ Step' = y
          BY <1>4, <2>2, <3>1
    <3> QED BY <3>3, <3>4
  <2>4. Head(Tail(q)) = "provision" => Progress(c.req, Asks(cmd.req))'
    <3> SUFFICES ASSUME Head(Tail(q)) = "provision" PROVE Progress(c.req, Asks(cmd.req))'
          OBVIOUS
    <3>1. Head(q) = "infra"
          BY <1>3, <1>5
    <3>2. cmd.req.plays = c.req.plays /\ cmd.req.fromPlaybook = c.req.fromPlaybook
          BY <1>2, <3>1 DEF Carries
    <3>3. Asks(c.req) = Asks(cmd.req)
          BY <1>2, <3>2, AsksAre
    <3>4. Asks(cmd'.req) = Asks(cmd.req)
          BY <1>4
    <3> QED BY <3>3, <3>4 DEF Progress
  <2>5. Head(Tail(q)) = "health-check" => Passed(c.req)'
    <3>1. Head(Tail(q)) = "health-check" => Head(q) = "provision"
          BY <1>3, <1>5
    <3> QED BY <3>1 DEF Step
  <2>7. Step' = "provision" => Progress(c.req, Asks(cmd.req))'
        BY <2>2, <2>4
  <2> QED BY <1>2, <1>3, <1>4, <1>5, <2>1, <2>2, <2>5, <2>6, <2>7 DEF RunsFor
<1>6. CASE ~(Len(q) > 1)
  <2>1. cmd'.do = "none" /\ cmd'.hint = {} /\ (cmd'.told = "Lab is up" => ~b)
        BY <1>1, <1>6, Ends, EndsUp
  <2>2. cmd'.told = "Lab is up" => Head(q) = "health-check"
        BY <1>3, <1>6, <2>1
  <2> QED BY <2>1, <2>2 DEF WaitsFor, Running, Step
<1> QED BY <1>5, <1>6

LEMMA ChainFails ==
    ASSUME OnTrack, Running, NEW c, c.req.do = "up", RunsFor(c), range' = range, NEW f, FailsAt(f), NEW P,
           Step = "provision" =>
              /\ P \subseteq Asks(cmd.req) /\ Progress(c.req, P)'
              /\ f = None \/ (P = Items(cmd.left) /\ SuffixOf(cmd.left, AllOf(cmd.req)) /\ f = Head(cmd.left)),
           Step = "health-check" => Passed(c.req)'
    PROVE  ~Running' /\ WaitsFor(c)'
<1>0. PICK r, s, hint, left : r = cmd.req /\ s = Step /\ left = cmd.left /\ hint = upResumeCommand(s, f, r)
      OBVIOUS
<1>1. GoodRequest(r) /\ r.do = "up" /\ cmd.do = "up" /\ s \in StepsFor("up") /\ Carries(c.req, r, s)
      BY <1>0, UpRuns DEF RunsFor
<1>2. cmd'.do = "none" /\ cmd'.told = "failed" /\ cmd'.hint = {hint}
      BY <1>0, <1>1, Failed
<1>3. /\ hint.do = "up" /\ hint.from = s
      /\ s = "health-check" => hint.plays = <<>> /\ hint.fromPlaybook = None
      /\ s # "health-check" =>
           /\ hint.limit = r.limit
           /\ IF s = "provision" /\ f # None
              THEN IF r.plays # <<>>
                   THEN hint.plays = remainingPlaybookSelection(r.plays, f) /\ hint.fromPlaybook = None
                   ELSE hint.plays = <<>> /\ hint.fromPlaybook = f
              ELSE IF r.plays # <<>> THEN hint.plays = r.plays /\ hint.fromPlaybook = None
              ELSE hint.plays = <<>> /\ hint.fromPlaybook = r.fromPlaybook
      /\ s \in {"doctor", "infra"} =>
           hint.module = r.module /\ hint.exclude = r.exclude /\ hint.with \subseteq r.with
      BY <1>0, <1>1, HintsGood
<1>4. PlaysGood(r)
      BY <1>1 DEF Carries
<1>5. ASSUME s \notin {"provision", "health-check"} \/ (s = "provision" /\ f = None)
      PROVE  PlaysGood(hint) /\ hint.plays = r.plays /\ hint.fromPlaybook = r.fromPlaybook /\ Asks(hint) = Asks(r)
  <2>1. hint.plays = r.plays /\ hint.fromPlaybook = r.fromPlaybook
        BY <1>3, <1>4, <1>5 DEF PlaysGood
  <2> QED BY <1>1, <1>3, <1>4, <2>1, AsksAre DEF PlaysGood
<1>6. ASSUME s = "provision", f # None PROVE PlaysGood(hint) /\ P \subseteq Asks(hint)
  <2>1. P = Items(left) /\ SuffixOf(left, AllOf(r)) /\ f = Head(left) /\ Items(left) \subseteq Asks(r)
        BY <1>0, <1>6
  <2>2. left \in Seq(STRING)
        BY <2>1 DEF SuffixOf
  <2>3. IF f # None
        THEN IF r.plays # <<>>
             THEN hint.plays = remainingPlaybookSelection(r.plays, f) /\ hint.fromPlaybook = None
             ELSE hint.plays = <<>> /\ hint.fromPlaybook = f
        ELSE IF r.plays # <<>> THEN hint.plays = r.plays /\ hint.fromPlaybook = None
        ELSE hint.plays = <<>> /\ hint.fromPlaybook = r.fromPlaybook
        BY <1>3, <1>6
  <2>4. PlaysGood(hint) /\ Items(left) \subseteq Asks(hint)
        BY ONLY <1>1, <1>3, <1>4, <2>1, <2>2, <2>3, HintAsks
  <2> QED BY <2>1, <2>4
<1>7. PlaysGood(hint) /\ (s = "provision" => Progress(c.req, Asks(hint))')
  <2>1. CASE s \notin {"provision", "health-check"}
        BY <1>5, <2>1
  <2>2. CASE s = "health-check"
    <3>1. hint.plays \in Seq(STRING) /\ hint.fromPlaybook = None
          BY <1>3, <2>2, EmptySeq
    <3> QED BY <2>2, <3>1 DEF PlaysGood
  <2>3. CASE s = "provision"
    <3>1. PlaysGood(hint) /\ P \subseteq Asks(hint)
          BY <1>0, <1>5, <1>6, <2>3
    <3>2. Progress(c.req, P)'
          BY <1>0, <2>3
    <3> QED BY <3>1, <3>2, MorePendsThen
  <2> QED BY <2>1, <2>2, <2>3
<1>8. Carries(c.req, hint, s)'
  <2>1. AWS' = AWS
        BY DEF AWS
  <2>2. CASE s \in {"doctor", "infra"}
        BY <1>1, <1>3, <1>5, <1>7, <2>1, <2>2 DEF Carries
  <2>3. CASE s \notin {"doctor", "infra"}
        BY <1>1, <1>3, <1>7, <2>1, <2>3 DEF Carries
  <2> QED BY <2>2, <2>3
<1>9. \A x \in cmd'.hint : /\ x.from \in StepsFor("up") /\ Carries(c.req, x, x.from)'
                           /\ (x.from = "provision" => Progress(c.req, Asks(x))')
                           /\ (x.from = "health-check" => Passed(c.req)')
  <2>1. \A x \in cmd'.hint : x = hint
        BY <1>2 
  <2> QED BY <1>0, <1>1, <1>3, <1>7, <1>8, <2>1
<1> QED BY <1>2, <1>9 DEF WaitsFor, Running

-----------------------------------------------------------------------------
(* Every step that keeps the lines of the inventory takes nothing back.     *)
LEMMA LinedFramed ==
    ASSUME range' = range, Grown, disk'.mat = disk.mat, NEW h, inv'.hosts[h] = inv.hosts[h]
    PROVE  (Given(h) => Given(h)') /\ (Passworded(h) => Passworded(h)')
<1>1. Given(h) => Given(h)'
      BY SameInstances DEF Given, Sole
<1>2. materializedHostPasswords' = materializedHostPasswords
      BY DEF materializedHostPasswords
<1> QED BY <1>1, <1>2 DEF Passworded

LEMMA UptoFramed ==
    ASSUME range' = range, Grown, disk'.mat = disk.mat, inv'.hosts = inv.hosts,
           \A h : OverSSM(inv, h) => OverSSM(inv', h), NEW a, NEW Q, Upto(a, Q)
    PROVE  Upto(a, Q)'
<1>1. ASSUME NEW h, Lined(h) PROVE Lined(h)'
  <2>1. AWS' = AWS
        BY DEF AWS
  <2>2. CASE AWS
    <3>1. OverSSM(inv, h)
          BY <1>1, <2>2 DEF Lined, OverSSM
    <3>2. OverSSM(inv', h)
          BY <3>1
    <3> QED BY <2>1, <2>2, <3>2 DEF Lined, OverSSM
  <2>3. CASE ~AWS
        BY <1>1, <2>1, <2>3, LinedFramed DEF Lined
  <2> QED BY <2>2, <2>3
<1>2. \A h \in DOMAIN inv.hosts : Playable(h) /\ Ready(h, Q) =>
            /\ Lined(h)' /\ inv'.hosts[h].addr = inv.hosts[h].addr
            /\ AWS \/ inv'.hosts[h].pw = inv.hosts[h].pw
      BY <1>1 DEF Ready
<1> QED BY <1>2, UptoStays

(* The steps of provisioning before the playbooks.                          *)
LEMMA SyncKeepsUpto ==
    ASSUME Standing, AddrGiven, ensureInventorySynced, NEW a, NEW Q, Upto(a, Q)
    PROVE  Upto(a, Q)'
<1>1. AWS /\ UNCHANGED <<range, disk, cloud>> /\ Grown /\ AWS' = AWS
      BY SameGrown DEF ensureInventorySynced, AWS
<1>2. CASE inv' = inv
      BY <1>1, <1>2, UptoFramed
<1>3. CASE inv' # inv
  <2>1. Syncs /\ (~ReconcileFails(inv, DiscoverInstances) \/ awsReconciliationOutsideLimit(cmd.req))
        BY <1>3 DEF ensureInventorySynced, Syncs
  <2>2. ~GlobalProblem(inv)
        BY <2>1 DEF ReconcileFails, awsReconciliationOutsideLimit
  <2>3. DOMAIN inv'.hosts = DOMAIN inv.hosts
        BY <2>1, Rewritten DEF Syncs
  <2>4. ASSUME NEW h \in DOMAIN inv.hosts, Ready(h, Q) PROVE Lined(h)' /\ inv'.hosts[h].addr = inv.hosts[h].addr
    <3>1. inv'.hosts[h].addr = inv.hosts[h].addr /\ OverSSM(inv', h)
          BY <1>1, <2>1, <2>2, <2>4, SyncKeepsReady
    <3> QED BY <1>1, <3>1 DEF Lined, OverSSM
  <2> QED BY <1>1, <2>3, <2>4, UptoStays
<1> QED BY <1>2, <1>3

LEMMA AzureSyncKeepsUpto ==
    ASSUME Standing, AddrGiven, syncAzureInventoryIPs, NEW a, NEW Q, Upto(a, Q)
    PROVE  Upto(a, Q)'
<1>1. ~AWS /\ UNCHANGED <<range, disk, cloud>> /\ IsCloud(cloud) /\ Grown /\ AWS' = AWS
      BY SameGrown DEF syncAzureInventoryIPs, Standing, AWS
<1>2. CASE inv' = inv
      BY <1>1, <1>2, UptoFramed
<1>3. CASE \E addresses \in PlainAddresses(DiscoverInstances) : inv' = applyInventoryAddresses(inv, addresses)
  <2>1. /\ DOMAIN inv'.hosts = DOMAIN inv.hosts
        /\ \A h \in DOMAIN inv.hosts :
             /\ inv'.hosts[h].pw = inv.hosts[h].pw
             /\ \A i \in DiscoverInstances : Sole(h, i) => inv'.hosts[h].addr = PlainAddress(i)
        BY <1>1, <1>3, AzureSyncs
  <2>2. ASSUME NEW h \in DOMAIN inv.hosts, Playable(h), Ready(h, Q)
        PROVE  Lined(h)' /\ inv'.hosts[h].addr = inv.hosts[h].addr /\ inv'.hosts[h].pw = inv.hosts[h].pw
    <3>1. PICK i \in DiscoverInstances : Sole(h, i)
          BY <1>1, <2>2 DEF Playable
    <3>2. Given(h) /\ Passworded(h)
          BY <1>1, <2>2 DEF Ready, Lined
    <3>3. inv'.hosts[h].addr = inv.hosts[h].addr
          BY <2>1, <3>1, <3>2 DEF Given
    <3>4. Given(h)'
          BY <1>1, <2>1, SameInstances DEF Given, Sole
    <3>5. Passworded(h)'
      <4>1. materializedHostPasswords' = materializedHostPasswords
            BY <1>1 DEF materializedHostPasswords
      <4> QED BY <2>1, <3>2, <4>1 DEF Passworded
    <3> QED BY <1>1, <2>1, <3>3, <3>4, <3>5 DEF Lined
  <2> QED BY <1>1, <2>1, <2>2, UptoStays
<1> QED BY <1>2, <1>3 DEF syncAzureInventoryIPs

LEMMA PasswordsKeepUpto ==
    ASSUME ~AWS, syncAzurePasswords, NEW a, NEW Q, Upto(a, Q)
    PROVE  Upto(a, Q)'
<1>1. /\ UNCHANGED <<range, disk, cloud>> /\ Grown /\ AWS' = AWS
      /\ inv' = syncAzureInventoryPasswords(inv, materializedHostPasswords, Quotable)
      BY SameGrown DEF syncAzurePasswords, AWS
<1>2. /\ DOMAIN inv'.hosts = DOMAIN inv.hosts
      /\ \A h \in DOMAIN inv.hosts :
            /\ inv'.hosts[h].addr = inv.hosts[h].addr /\ Passworded(h)'
            /\ Passworded(h) => inv'.hosts[h].pw = inv.hosts[h].pw
      BY <1>1, PasswordsSync
<1>3. ASSUME NEW h \in DOMAIN inv.hosts, Ready(h, Q) PROVE Lined(h)' /\ inv'.hosts[h].pw = inv.hosts[h].pw
  <2>1. Given(h) /\ Passworded(h)
        BY <1>3 DEF Ready, Lined
  <2>2. Given(h)'
        BY <1>1, <1>2, <2>1, SameInstances DEF Given, Sole
  <2> QED BY <1>1, <1>2, <2>1, <2>2 DEF Lined
<1> QED BY <1>1, <1>2, <1>3, UptoStays

(* What a playbook, or an agent that is revived, does to the machines.      *)
LEMMA RanGrown ==
    ASSUME IsCloud(cloud), NEW p, NEW M, M \subseteq cloud.machines, NEW kept, Ran(p, M, kept)
    PROVE  /\ Grown /\ cloud'.extras = cloud.extras
           /\ \A m \in M : \E n \in cloud'.machines : Later(m, n) /\ m.done \cup {p} \subseteq n.done
<1> DEFINE f(m) == [m EXCEPT !.done = @ \cup {p}]
           N == (cloud.machines \ M) \cup {f(m) : m \in M}
<1>1. cloud' = [cloud EXCEPT !.machines = N]
      BY DEF Ran
<1>2. Grown
  <2>1. M \in SUBSET cloud.machines
        OBVIOUS
  <2> QED BY <1>1, <2>1, WorkedOn
<1>3. ASSUME NEW m \in M PROVE f(m) \in N /\ Later(m, f(m)) /\ m.done \cup {p} \subseteq f(m).done
  <2>1. IsMachine(m)
        BY DEF IsCloud
  <2>2. Later(m, f(m)) /\ m.done \cup {p} \subseteq f(m).done
        BY <2>1 DEF Later, IsMachine
  <2> HIDE DEF f
  <2> QED BY <2>2
<1> HIDE DEF f, N
<1>4. cloud'.machines = N /\ cloud'.extras = cloud.extras
      BY <1>1 DEF IsCloud
<1>5. ASSUME NEW m \in M PROVE \E n \in cloud'.machines : Later(m, n) /\ m.done \cup {p} \subseteq n.done
      BY <1>3, <1>4
<1> QED BY <1>2, <1>4, <1>5

LEMMA RevivedGrown ==
    ASSUME IsCloud(cloud), checkSSMOnline
    PROVE  Grown /\ cloud'.extras = cloud.extras
<1>1. PICK revived \in SUBSET cloud.machines :
            \/ cloud' = cloud
            \/ cloud' = [cloud EXCEPT !.machines =
                            (cloud.machines \ revived) \cup {[m EXCEPT !.online = TRUE] : m \in revived}]
  <2>1. CASE Now(cmd.seen) \ Answering(cmd.seen) = {}
        BY <2>1 DEF checkSSMOnline
  <2>2. CASE Now(cmd.seen) \ Answering(cmd.seen) # {}
    <3>1. PICK revived \in SUBSET {m \in Now(cmd.seen) \ Answering(cmd.seen) : m.on} :
              cloud' = [cloud EXCEPT !.machines = (@ \ revived) \cup {[m EXCEPT !.online = TRUE] : m \in revived}]
          BY <2>2, Zenon DEF checkSSMOnline
    <3>2. revived \in SUBSET cloud.machines
          BY <3>1 DEF Now
    <3> QED BY <3>1, <3>2 DEF IsCloud
  <2> QED BY <2>1, <2>2
<1> DEFINE N == (cloud.machines \ revived) \cup {[m EXCEPT !.online = TRUE] : m \in revived}
<1>2. cloud' = cloud \/ cloud' = [cloud EXCEPT !.machines = N]
      BY <1>1
<1>3. cloud'.extras = cloud.extras
  <2> HIDE DEF N
  <2> QED BY <1>2 DEF IsCloud
<1>4. CASE cloud' = cloud
      BY <1>3, <1>4, SameGrown
<1>5. CASE cloud' = [cloud EXCEPT !.machines = N]
      BY <1>1, <1>3, <1>5, WorkedOn
<1> QED BY <1>2, <1>4, <1>5

LEMMA PlaybooksGrown ==
    ASSUME IsCloud(cloud), RunPlaybook
    PROVE  Grown /\ cloud'.extras = cloud.extras
<1>1. PICK hosts, M, kept : M \subseteq UNION {Reached(h) : h \in hosts} /\ Ran(Head(cmd.left), M, kept)
      BY Zenon DEF RunPlaybook
<1>2. M \subseteq cloud.machines
      BY <1>1 DEF Reached
<1> QED BY <1>1, <1>2, RanGrown

(* No step of an up but infra's takes anything back.                        *)
IsDisk(d) ==
    /\ d = [target |-> d.target, config |-> d.config, mat |-> d.mat, marker |-> d.marker, state |-> d.state]
    /\ d.target \in {"absent", "partial", "complete"} /\ d.config \in Versions
    /\ d.mat \in {0} \cup Versions /\ d.marker \in {0} \cup Versions

LEMMA WorksKeepUpto ==
    ASSUME Standing, Handing, AddrGiven, IsDisk(disk), ProvisionStep \/ HealthStep, NEW a, NEW Q, Upto(a, Q)
    PROVE  Upto(a, Q)'
<1>0. IsCloud(cloud)
      BY DEF Standing
<1>1. CASE \/ runProvision \/ checkAnsibleRuntime \/ BuildCollection \/ ensureVariant \/ generateVariant
           \/ validateInventory \/ maybeStartSOCKSTunnel \/ requireInfra \/ runHealthChecks
  <2>1. UNCHANGED <<range, inv, cloud>> /\ disk'.mat = disk.mat
    <3>1. CASE ensureVariant \/ generateVariant
      <4>1. \/ disk' = disk \/ \E x : disk' = [disk EXCEPT !.target = x]
            \/ \E x, y : disk' = [disk EXCEPT !.target = x, !.config = y]
            BY <3>1 DEF ensureVariant, generateVariant
      <4>2. disk'.mat = disk.mat
            BY <4>1 DEF IsDisk
      <4> QED BY <3>1, <4>2 DEF ensureVariant, generateVariant
    <3>2. CASE ~(ensureVariant \/ generateVariant)
          BY <1>1, <3>2 DEF runProvision, checkAnsibleRuntime, BuildCollection, validateInventory,
             maybeStartSOCKSTunnel, requireInfra, runHealthChecks, OnlyCmd
    <3> QED BY <3>1, <3>2
  <2> QED BY <2>1, SameGrown, UptoFramed
<1>2. CASE ensureInventoryTopology \/ ensureTransport \/ ensureSSMBucket
  <2>1. inv'.hosts = inv.hosts /\ \A h : OverSSM(inv, h) => OverSSM(inv', h)
        BY <1>2, ConnectionKept
  <2>2. range' = range /\ disk' = disk /\ cloud'.machines = cloud.machines
    <3>1. cloud' = cloud \/ cloud' = [cloud EXCEPT !.bucket = TRUE]
          BY <1>2 DEF ensureInventoryTopology, ensureTransport, ensureSSMBucket
    <3>2. cloud'.machines = cloud.machines
          BY <1>0, <3>1 DEF IsCloud
    <3> QED BY <1>2, <3>2 DEF ensureInventoryTopology, ensureTransport, ensureSSMBucket
  <2> QED BY <2>1, <2>2, SameGrown, UptoFramed
<1>3. CASE ensureInventorySynced
      BY <1>3, SyncKeepsUpto
<1>4. CASE syncAzureInventoryIPs
      BY <1>4, AzureSyncKeepsUpto
<1>5. CASE syncAzurePasswords
      BY <1>5, PasswordsKeepUpto DEF Handing, syncAzurePasswords
<1>6. CASE RunPlaybook \/ checkSSMOnline
  <2>1. Grown
        BY <1>0, <1>6, PlaybooksGrown, RevivedGrown
  <2>2. UNCHANGED <<range, disk, inv>>
        BY <1>6 DEF RunPlaybook, checkSSMOnline
  <2> QED BY <2>1, <2>2, UptoFramed
<1> QED BY <1>1, <1>2, <1>3, <1>4, <1>5, <1>6 DEF ProvisionStep, HealthStep

LEMMA ProgressKept ==
    ASSUME NEW a, \A Q : Upto(a, Q) => Upto(a, Q)'
    PROVE  (\A P : Progress(a, P) => Progress(a, P)') /\ (Passed(a) => Passed(a)')
BY DEF Progress, Passed

-----------------------------------------------------------------------------
(* A playbook that completed.  Where it ran, the machine that the line      *)
(* reaches is, on AWS, the host's own (HandedOver), and the line says what  *)
(* it has to.                                                               *)
LEMMA ReachedIsReady ==
    ASSUME OnTrack, Standing, Handing, Provisioning("play"), NEW c, RunsFor(c),
           \A h \in SelectedHosts(cmd.req) \cap DOMAIN inv.hosts : Reached(h) # {}
    PROVE  SelectedHosts(c.req) = SelectedHosts(cmd.req) /\ Upto(c.req, {})
<1>1. Step = "provision" /\ cmd.at = "play" /\ IsCloud(cloud)
      BY DEF Provisioning, At, Step, Standing
<1>2. SelectedHosts(c.req) = SelectedHosts(cmd.req)
      BY <1>1 DEF RunsFor, Carries, SelectedHosts
<1>3. ASSUME NEW h \in SelectedHosts(cmd.req) \cap DOMAIN inv.hosts PROVE Ready(h, {})
  <2>1. PICK m \in Reached(h) : TRUE
        OBVIOUS
  <2>2. CASE AWS
    <3>1. HandedOver
          BY <2>2 DEF Handing
    <3>2. m.role = Lower[h]
          BY <1>1, <2>2, <3>1, ReachedHasRole
    <3>3. PICK i \in cmd.seen : inv.hosts[h].addr = expectedAWSHostAddress(inv, h, i)
          BY <3>1 DEF HandedOver
    <3>4. PICK g \in LabHosts, n \in 0 .. MaxGen : i.id = Ids[g][n] /\ i.ip = Ips[g][n]
          BY <3>1, <3>3 DEF HandedOver, Located
    <3>5. m.role \in LabHosts /\ m.gen \in 0 .. MaxGen /\ inv.hosts[h].addr = Ids[m.role][m.gen]
          BY <1>1, <2>1, <2>2 DEF Reached, ReachedAs, IsCloud, IsMachine
    <3>6. Connection(inv, h) \in {None, "aws_ssm"}
      <4>1. Ids[m.role][m.gen] # Ips[g][n]
            BY <3>4, <3>5, IdsAssumption
      <4> QED BY <3>3, <3>4, <3>5, <4>1 DEF expectedAWSHostAddress
    <3> QED BY <2>1, <2>2, <3>2, <3>6 DEF Ready, Lined
  <2>3. CASE ~AWS
    <3>1. Given(h) /\ Passworded(h)
          BY <1>1, <2>3 DEF RunsFor
    <3> QED BY <2>1, <2>3, <3>1 DEF Ready, Lined
  <2> QED BY <2>2, <2>3
<1> QED BY <1>2, <1>3 DEF Upto

LEMMA PlayedUpto ==
    ASSUME IsCloud(cloud), UNCHANGED <<range, disk, inv>>, NEW a, NEW Q, Upto(a, Q), NEW p, NEW kept,
           Ran(p, UNION {Reached(h) : h \in SelectedHosts(a) \cap DOMAIN inv.hosts}, kept)
    PROVE  Upto(a, Q \cup {p})'
<1> DEFINE hosts == SelectedHosts(a) \cap DOMAIN inv.hosts
           M == UNION {Reached(h) : h \in hosts}
<1>1. M \subseteq cloud.machines /\ \A h \in hosts : Reached(h) \subseteq M
      BY DEF Reached
<1>2. Grown /\ \A m \in M : \E n \in cloud'.machines : Later(m, n) /\ m.done \cup {p} \subseteq n.done
  <2> HIDE DEF M
  <2> QED BY <1>1, RanGrown DEF M
<1>3. AWS' = AWS /\ SelectedHosts(a)' = SelectedHosts(a)
      BY DEF AWS, SelectedHosts
<1>4. \A h : Playable(h)' <=> Playable(h)
      BY <1>2, <1>3, SameInstances DEF Playable, Sole
<1>5. ASSUME NEW h \in hosts, Playable(h) PROVE Ready(h, Q \cup {p})'
  <2>1. PICK m \in Reached(h) : (AWS => m.role = Lower[h]) /\ Q \subseteq m.done
        BY <1>5 DEF Upto, Ready
  <2>2. PICK n \in cloud'.machines : Later(m, n) /\ m.done \cup {p} \subseteq n.done
        BY <1>1, <1>2, <1>5
  <2>3. ReachedAs(h, n)'
        BY <1>3, <2>1, <2>2 DEF Reached, ReachedAs, Later
  <2>4. Lined(h)'
    <3>1. Lined(h)
          BY <1>5 DEF Upto, Ready
    <3> QED BY <1>2, <1>3, <3>1, LinedFramed DEF Lined
  <2>5. n \in Reached(h)' /\ (AWS => n.role = Lower[h]) /\ Q \cup {p} \subseteq n.done
        BY <2>1, <2>2, <2>3 DEF Reached, Later
  <2> QED BY <1>3, <2>4, <2>5 DEF Ready
<1> QED BY <1>3, <1>4, <1>5 DEF Upto

(* A playbook that completed on the hosts is no longer pending.             *)
LEMMA PlayedProgress ==
    ASSUME OnTrack, Standing, Handing, Provisioning("play"), NEW c, RunsFor(c),
           UNCHANGED <<range, disk, inv>>,
           \A h \in SelectedHosts(cmd.req) \cap DOMAIN inv.hosts : Reached(h) # {},
           NEW kept,
           Ran(Head(cmd.left), UNION {Reached(h) : h \in SelectedHosts(cmd.req) \cap DOMAIN inv.hosts}, kept),
           NEW P, Items(cmd.left) \subseteq P \cup {Head(cmd.left)}
    PROVE  /\ Progress(c.req, P)'
           /\ P = {} => Passed(c.req)'
<1> DEFINE a == c.req
           Q == Asks(a) \ Items(cmd.left)
<1>1. PICK p, R : p = Head(cmd.left) /\ R = Q
      OBVIOUS
<1>2. SelectedHosts(a) = SelectedHosts(cmd.req) /\ Upto(a, {}) /\ IsCloud(cloud)
      BY ReachedIsReady DEF Standing
<1>3. Progress(a, Items(cmd.left))
      BY DEF RunsFor, Provisioning, At, Step
<1>4. Plays(a) => Upto(a, R)
      BY <1>1, <1>2, <1>3 DEF Progress, Upto
<1>5. Plays(a) => Upto(a, R \cup {p})'
      BY <1>1, <1>2, <1>4, PlayedUpto
<1>6. Asks(a) \ P \subseteq R \cup {p}
      BY <1>1
<1>7. Plays(a) => Upto(a, Asks(a) \ P)'
      BY <1>5, <1>6 DEF Upto, Ready
<1>8. P = {} => Asks(a) \ P = Asks(a)
      OBVIOUS
<1> QED BY <1>7, <1>8 DEF Progress, Passed

-----------------------------------------------------------------------------
(* The steps of provisioning: one goes on with the same playbooks left,     *)
(* works them out, fails with none to blame, or runs one.                   *)
LEMMA ProvisionGoes ==
    ASSUME IsCmd(cmd), ProvisionStep
    PROVE  \/ FailsAt(None)
           \/ runProvision /\ cmd.req.fromPlaybook \in {None} \cup {Playbooks[i] : i \in DOMAIN Playbooks}
                /\ cmd' = [cmd EXCEPT !.at = "tools", !.left = resolvePlaybooks(cmd.req)]
           \/ ~Provisioning("start") /\ Kin(cmd, cmd') /\ cmd'.left = cmd.left /\ cmd'.at # "start"
           \/ RunPlaybook
<1>1. CASE runProvision
      BY <1>1 DEF runProvision, Fails
<1>2. CASE \/ checkAnsibleRuntime \/ BuildCollection \/ ensureVariant \/ generateVariant
           \/ ensureInventoryTopology \/ ensureTransport \/ ensureSSMBucket
           \/ ensureInventorySynced \/ syncAzureInventoryIPs \/ syncAzurePasswords
           \/ validateInventory \/ maybeStartSOCKSTunnel
  <2>1. ~Provisioning("start")
        BY <1>2 DEF checkAnsibleRuntime, BuildCollection, ensureVariant, generateVariant, ensureInventoryTopology,
           ensureTransport, ensureSSMBucket, ensureInventorySynced, syncAzureInventoryIPs, syncAzurePasswords,
           validateInventory, maybeStartSOCKSTunnel, Provisioning, At
  <2>2. \/ FailsAt(None)
        \/ \E point \in {"collection", "variant", "generate", "topology", "transport", "sync", "bucket", "gates",
                         "tunnel", "play"} : Go(point)
        \/ \E x \in {"gates", "passwords"} : cmd' = [cmd EXCEPT !.at = x, !.seen = DiscoverInstances]
    <3>1. CASE checkAnsibleRuntime \/ BuildCollection \/ ensureVariant \/ generateVariant
          BY <3>1 DEF checkAnsibleRuntime, BuildCollection, ensureVariant, generateVariant, Fails
    <3>2. CASE ensureInventoryTopology \/ ensureTransport \/ ensureSSMBucket
          BY <3>2 DEF ensureInventoryTopology, ensureTransport, ensureSSMBucket, Fails
    <3>3. CASE ensureInventorySynced
          BY <3>3 DEF ensureInventorySynced, Fails
    <3>4. CASE syncAzureInventoryIPs
          BY <3>4 DEF syncAzureInventoryIPs, Fails
    <3>5. CASE syncAzurePasswords \/ validateInventory \/ maybeStartSOCKSTunnel
          BY <3>5 DEF syncAzurePasswords, validateInventory, maybeStartSOCKSTunnel, Fails
    <3> QED BY <1>2, <3>1, <3>2, <3>3, <3>4, <3>5
  <2>3. ASSUME NEW x \in {"gates", "passwords"}, cmd' = [cmd EXCEPT !.at = x, !.seen = DiscoverInstances]
        PROVE  Kin(cmd, cmd') /\ cmd'.left = cmd.left /\ cmd'.at # "start"
    <3>1. Kin(cmd, cmd')
          BY <2>3, Changed
    <3>2. cmd'.left = cmd.left /\ cmd'.at = x
          BY <2>3 DEF IsCmd
    <3> QED BY <3>1, <3>2
  <2>4. ASSUME NEW point \in {"collection", "variant", "generate", "topology", "transport", "sync", "bucket", "gates",
                              "tunnel", "play"}, Go(point)
        PROVE  Kin(cmd, cmd') /\ cmd'.left = cmd.left /\ cmd'.at # "start"
    <3>1. Kin(cmd, cmd') /\ cmd'.left = cmd.left /\ cmd'.at = point
          BY <2>4, Goes
    <3> QED BY <3>1
  <2> QED BY <2>1, <2>2, <2>3, <2>4
<1>3. CASE RunPlaybook
      BY <1>3
<1> QED BY <1>1, <1>2, <1>3 DEF ProvisionStep

(* On Azure, once the lines were written they stay what they have to be.    *)
LEMMA GivenGoesOn ==
    ASSUME OnTrack, Standing, Handing, AddrGiven, IsDisk(disk), NEW c, RunsFor(c), ProvisionStep, ~AWS, Kin(cmd, cmd')
    PROVE  /\ cmd'.at \in {"passwords", "gates", "tunnel", "play"} => \A h \in DOMAIN inv'.hosts : Given(h)'
           /\ cmd'.at \in {"gates", "tunnel", "play"} => \A h \in DOMAIN inv'.hosts : Passworded(h)'
<1>0. IsCmd(cmd) /\ IsCloud(cloud) /\ cmd'.do = cmd.do /\ cmd.do = "up"
      BY DEF OnTrack, Standing, Kin, RunsFor
<1>1. ASSUME NEW f, FailsAt(f) PROVE FALSE
      BY <1>0, <1>1, Failed
<1>2. ASSUME NEW point, Go(point) PROVE cmd'.at = point
      BY <1>0, <1>2, Goes
<1>3. ASSUME UNCHANGED <<range, disk, inv>>, Grown,
             cmd'.at \in {"passwords", "gates", "tunnel", "play"} =>
                \E x \in {"gates", "tunnel", "play"} : Provisioning(x)
      PROVE  /\ cmd'.at \in {"passwords", "gates", "tunnel", "play"} => \A h \in DOMAIN inv'.hosts : Given(h)'
             /\ cmd'.at \in {"gates", "tunnel", "play"} => \A h \in DOMAIN inv'.hosts : Passworded(h)'
  <2>1. cmd'.at \in {"passwords", "gates", "tunnel", "play"} =>
            \A h \in DOMAIN inv.hosts : Given(h) /\ Passworded(h)
        BY <1>3 DEF RunsFor, Provisioning, At, Step
  <2>2. \A h : (Given(h) => Given(h)') /\ (Passworded(h) => Passworded(h)')
        BY <1>3, LinedFramed
  <2> QED BY <1>3, <2>1, <2>2
<1>4. CASE \/ runProvision \/ checkAnsibleRuntime \/ BuildCollection \/ ensureVariant \/ generateVariant
           \/ ensureInventoryTopology \/ ensureTransport \/ ensureSSMBucket
  <2>1. \/ \E point \in {"collection", "variant", "generate", "topology", "transport", "sync", "bucket"} : Go(point)
        \/ FailsAt(None)
        \/ cmd' = [cmd EXCEPT !.at = "tools", !.left = resolvePlaybooks(cmd.req)]
        BY <1>4 DEF runProvision, checkAnsibleRuntime, BuildCollection, ensureVariant, generateVariant,
           ensureInventoryTopology, ensureTransport, ensureSSMBucket, Fails
  <2>2. ASSUME NEW x, cmd' = [cmd EXCEPT !.at = "tools", !.left = x] PROVE cmd'.at = "tools"
        BY <1>0, <2>2 DEF IsCmd
  <2>3. cmd'.at \notin {"passwords", "gates", "tunnel", "play"}
        BY <1>1, <1>2, <2>1, <2>2
  <2> QED BY <2>3
<1>5. CASE ensureInventorySynced
      BY <1>5 DEF ensureInventorySynced
<1>6. CASE syncAzureInventoryIPs
  <2>1. UNCHANGED <<range, disk, cloud>> /\ Grown
        BY <1>6, SameGrown DEF syncAzureInventoryIPs
  <2>2. PICK addresses \in PlainAddresses(DiscoverInstances) : inv' = applyInventoryAddresses(inv, addresses)
        BY <1>1, <1>6 DEF syncAzureInventoryIPs, Fails
  <2>3. cmd' = [cmd EXCEPT !.at = "passwords", !.seen = DiscoverInstances]
        BY <1>1, <1>6 DEF syncAzureInventoryIPs, Fails
  <2>4. cmd'.at = "passwords"
        BY <1>0, <2>3 DEF IsCmd
  <2>5. \A h \in DOMAIN inv'.hosts : \A i \in DiscoverInstances : Sole(h, i) => inv'.hosts[h].addr = PlainAddress(i)
        BY <1>0, <2>2, AzureSyncs
  <2>6. \A h \in DOMAIN inv'.hosts : Given(h)'
        BY <2>1, <2>5, SameInstances DEF Given, Sole
  <2> QED BY <2>4, <2>6
<1>7. CASE syncAzurePasswords
  <2>1. /\ UNCHANGED <<range, disk, cloud>> /\ Grown /\ Go("gates") /\ Provisioning("passwords")
        /\ inv' = syncAzureInventoryPasswords(inv, materializedHostPasswords, Quotable)
        BY <1>7, SameGrown DEF syncAzurePasswords
  <2>2. /\ DOMAIN inv'.hosts = DOMAIN inv.hosts
        /\ \A h \in DOMAIN inv.hosts : inv'.hosts[h].addr = inv.hosts[h].addr /\ Passworded(h)'
        BY <2>1, PasswordsSync
  <2>3. \A h \in DOMAIN inv.hosts : Given(h)
        BY <2>1 DEF RunsFor, Provisioning, At, Step
  <2>4. \A h \in DOMAIN inv'.hosts : Given(h)'
        BY <2>1, <2>2, <2>3, SameInstances DEF Given, Sole
  <2> QED BY <2>2, <2>4
<1>8. CASE validateInventory \/ maybeStartSOCKSTunnel
  <2>1. UNCHANGED <<range, disk, inv, cloud>> /\ \E x \in {"gates", "tunnel", "play"} : Provisioning(x)
        BY <1>8 DEF validateInventory, maybeStartSOCKSTunnel, OnlyCmd
  <2> QED BY <1>3, <2>1, SameGrown
<1>9. CASE RunPlaybook
  <2>1. UNCHANGED <<range, disk, inv>> /\ Provisioning("play")
        BY <1>9 DEF RunPlaybook
  <2> QED BY <1>0, <1>3, <1>9, <2>1, PlaybooksGrown
<1> QED BY <1>4, <1>5, <1>6, <1>7, <1>8, <1>9 DEF ProvisionStep

LEMMA ChainProvisions ==
    ASSUME OnTrack, Running, Standing, Handing, AddrGiven, IsDisk(disk), NEW c, c.req.do = "up", RunsFor(c),
           ProvisionStep
    PROVE  IF Running' THEN RunsFor(c)' ELSE WaitsFor(c)'
<1> DEFINE a == c.req
<1>1. /\ IsCmd(cmd) /\ range' = range /\ Step = "provision" /\ PlaysGood(cmd.req) /\ cmd.req.do = "up"
      /\ IsCloud(cloud)
  <2>1. Step = "provision"
        BY DEF ProvisionStep, runProvision, checkAnsibleRuntime, BuildCollection, ensureVariant, generateVariant,
           ensureInventoryTopology, ensureTransport, ensureSSMBucket, ensureInventorySynced, syncAzureInventoryIPs,
           syncAzurePasswords, validateInventory, maybeStartSOCKSTunnel, RunPlaybook, Provisioning, At, Step
  <2>2. IsCmd(cmd) /\ cmd.req.do = "up" /\ PlaysGood(cmd.req)
        BY UpRuns DEF RunsFor, Carries
  <2> QED BY <2>1, <2>2, ProvisionMoves DEF Standing
<1>2. (\A P : Progress(a, P) => Progress(a, P)') /\ (Passed(a) => Passed(a)')
  <2>1. PICK b : b = c.req
        OBVIOUS
  <2>2. \A Q : Upto(b, Q) => Upto(b, Q)'
        BY WorksKeepUpto
  <2> QED BY <2>1, <2>2, ProgressKept
<1>3. ASSUME ~Provisioning("start")
      PROVE  /\ SuffixOf(cmd.left, AllOf(cmd.req)) /\ Items(cmd.left) \subseteq Asks(cmd.req)
             /\ Progress(a, Items(cmd.left))
      BY <1>1, <1>3 DEF RunsFor, Provisioning, At, Step
<1>4. CASE FailsAt(None)
  <2>1. PICK P : P = IF Provisioning("start") THEN Asks(cmd.req) ELSE Items(cmd.left)
        OBVIOUS
  <2>2. P \subseteq Asks(cmd.req) /\ Progress(a, P)
    <3>1. CASE Provisioning("start")
          BY <1>1, <2>1, <3>1 DEF RunsFor, Provisioning, At
    <3>2. CASE ~Provisioning("start")
          BY <1>3, <2>1, <3>2
    <3> QED BY <3>1, <3>2
  <2>3. Progress(a, P)'
        BY <1>2, <2>2
  <2> QED BY <1>1, <1>4, <2>2, <2>3, ChainFails
<1>5. CASE /\ runProvision /\ cmd.req.fromPlaybook \in {None} \cup {Playbooks[i] : i \in DOMAIN Playbooks}
           /\ cmd' = [cmd EXCEPT !.at = "tools", !.left = resolvePlaybooks(cmd.req)]
  <2>1. Kin(cmd, cmd')
        BY <1>1, <1>5, Changed
  <2>2. cmd'.left = resolvePlaybooks(cmd.req) /\ cmd'.at = "tools"
        BY <1>1, <1>5 DEF IsCmd
  <2>3. SuffixOf(cmd'.left, AllOf(cmd.req)) /\ Items(cmd'.left) = Asks(cmd.req)
        BY <1>1, <1>5, <2>2, Resolved, AsksAre
  <2>4. Progress(a, Items(cmd.left))'
    <3>1. PICK P : P = Asks(cmd.req)
          OBVIOUS
    <3>2. Progress(a, P)
          BY <1>1, <1>5, <3>1 DEF RunsFor, runProvision, Provisioning, At
    <3>3. Progress(a, P)' /\ Items(cmd'.left) = P
          BY <1>2, <2>3, <3>1, <3>2
    <3> QED BY <3>3 DEF Progress
  <2> QED BY <1>1, <2>1, <2>2, <2>3, <2>4, ChainGoesOn
<1>6. CASE ~Provisioning("start") /\ Kin(cmd, cmd') /\ cmd'.left = cmd.left /\ cmd'.at # "start"
  <2>1. Progress(a, Items(cmd.left))'
    <3>1. PICK P : P = Items(cmd.left)
          OBVIOUS
    <3>2. Progress(a, P)' /\ Items(cmd'.left) = P
          BY <1>2, <1>3, <1>6, <3>1
    <3> QED BY <3>2 DEF Progress
  <2>2. /\ cmd'.at \in {"passwords", "gates", "tunnel", "play"} /\ ~AWS => \A h \in DOMAIN inv'.hosts : Given(h)'
        /\ cmd'.at \in {"gates", "tunnel", "play"} /\ ~AWS => \A h \in DOMAIN inv'.hosts : Passworded(h)'
        BY <1>6, GivenGoesOn
  <2> QED BY <1>1, <1>3, <1>6, <2>1, <2>2, ChainGoesOn
<1>7. CASE RunPlaybook
  <2> DEFINE hosts == SelectedHosts(cmd.req) \cap DOMAIN inv.hosts
             reached == UNION {Reached(h) : h \in hosts}
             p == Head(cmd.left)
  <2>1. Provisioning("play") /\ UNCHANGED <<range, disk, inv>> /\ ~Provisioning("start")
        BY <1>7 DEF RunPlaybook, Provisioning, At
  <2>2. \/ FailsAt(p)
        \/ \E kept, slips :
              /\ \A h \in hosts : Reached(h) # {}
              /\ Ran(p, reached, kept)
              /\ IF Len(cmd.left) > 1 THEN cmd' = [cmd EXCEPT !.slips = slips, !.left = Tail(@)]
                 ELSE cmd' = Done([cmd EXCEPT !.slips = slips])
        BY <1>1, <1>7, Played
  <2>3. /\ p \in Items(cmd.left)
        /\ Len(cmd.left) > 1 => SuffixOf(Tail(cmd.left), AllOf(cmd.req))
                                /\ Items(cmd.left) = {p} \cup Items(Tail(cmd.left))
        /\ ~(Len(cmd.left) > 1) => Items(cmd.left) = {p}
    <3>1. AllOf(cmd.req) \in Seq(STRING) /\ SuffixOf(cmd.left, AllOf(cmd.req))
          BY <1>1, <1>3, <2>1, PlaybooksAssumption DEF AllOf, PlaysGood
    <3> QED BY <3>1, SuffixGoesOn
  <2>4. CASE FailsAt(p)
    <3>1. PICK P, f : P = Items(cmd.left) /\ f = p
          OBVIOUS
    <3>2. Progress(a, P)'
          BY <1>2, <1>3, <2>1, <3>1
    <3> QED BY <1>1, <1>3, <2>1, <2>4, <3>1, <3>2, ChainFails
  <2>5. ASSUME NEW kept, NEW slips, \A h \in hosts : Reached(h) # {}, Ran(p, reached, kept), Len(cmd.left) > 1,
               cmd' = [cmd EXCEPT !.slips = slips, !.left = Tail(@)]
        PROVE  IF Running' THEN RunsFor(c)' ELSE WaitsFor(c)'
    <3>1. Kin(cmd, cmd')
          BY <1>1, <2>5 DEF IsCmd, Kin
    <3>2. cmd'.left = Tail(cmd.left) /\ cmd'.at = "play"
          BY <1>1, <2>1, <2>5 DEF IsCmd, Provisioning, At
    <3>3. PICK P : P = Items(Tail(cmd.left))
          OBVIOUS
    <3>4. Progress(a, P)'
          BY <2>1, <2>3, <2>5, <3>3, PlayedProgress
    <3>5. Progress(a, Items(cmd.left))'
          BY <3>2, <3>3, <3>4 DEF Progress
    <3>6. Items(cmd'.left) \subseteq Asks(cmd.req) /\ SuffixOf(cmd'.left, AllOf(cmd.req))
          BY <1>3, <2>1, <2>3, <2>5, <3>2
    <3>7. /\ cmd'.at \in {"passwords", "gates", "tunnel", "play"} /\ ~AWS => \A h \in DOMAIN inv'.hosts : Given(h)'
          /\ cmd'.at \in {"gates", "tunnel", "play"} /\ ~AWS => \A h \in DOMAIN inv'.hosts : Passworded(h)'
          BY <3>1, GivenGoesOn
    <3> QED BY <1>1, <3>1, <3>2, <3>5, <3>6, <3>7, ChainGoesOn
  <2>6. ASSUME NEW kept, NEW slips, \A h \in hosts : Reached(h) # {}, Ran(p, reached, kept), ~(Len(cmd.left) > 1),
               cmd' = Done([cmd EXCEPT !.slips = slips])
        PROVE  IF Running' THEN RunsFor(c)' ELSE WaitsFor(c)'
    <3>1. Passed(a)'
          BY <2>1, <2>3, <2>6, PlayedProgress
    <3>2. PICK d : d = [cmd EXCEPT !.slips = slips]
          OBVIOUS
    <3>3. Kin(cmd, d) /\ cmd' = Done(d)
          BY <1>1, <2>6, <3>2, Changed
    <3> QED BY <1>1, <3>1, <3>3, ChainEnds
  <2> QED BY <2>2, <2>4, <2>5, <2>6
<1> QED BY <1>1, <1>4, <1>5, <1>6, <1>7, ProvisionGoes

LEMMA ChainWorks ==
    ASSUME OnTrack, Standing, Handing, AddrGiven, IsDisk(disk), Works, NEW c, c.req.do = "up", RunsFor(c)
    PROVE  IF Running' THEN RunsFor(c)' ELSE WaitsFor(c)'
<1>1. Running /\ Moves /\ range' = range /\ IsCmd(cmd)
      BY WorksMoves DEF OnTrack
<1>2. CASE ProvisionStep
      BY <1>1, <1>2, ChainProvisions
<1>3. CASE ~ProvisionStep
  <2>1. Step # "provision" /\ (Step = "health-check" => HealthStep)
        BY <1>3 DEF Works, InfraStep, materializeLabConfig, recordMaterializedConfigOwnership, confirmDestroy,
           checkLocalInfraState, runAllInit, RunAll, deleteSSMBucket, runLabAction, destroyVM,
           ResetStep, liveDCTargets, requireInfra, checkSSMOnline, runHealthChecks, HealthStep,
           runPurgeOnDC, resetKali, runKaliCleanup, runWindowsCleanup, runUpDoctor, Infra, Requiring, At, Step
  <2>2. Step = "health-check" => Passed(c.req)'
    <3> SUFFICES ASSUME Step = "health-check" PROVE Passed(c.req)'
          OBVIOUS
    <3>1. PICK a : a = c.req
          OBVIOUS
    <3>2. \A Q : Upto(a, Q) => Upto(a, Q)'
          BY <2>1, WorksKeepUpto
    <3>3. Passed(a)
          BY <3>1 DEF RunsFor
    <3> QED BY <3>1, <3>2, <3>3, ProgressKept
  <2>3. CASE Kin(cmd, cmd')
        BY <1>1, <2>1, <2>2, <2>3, ChainGoesOn
  <2>4. ASSUME NEW d, Kin(cmd, d), cmd' = Done(d) PROVE IF Running' THEN RunsFor(c)' ELSE WaitsFor(c)'
        BY <1>1, <2>1, <2>2, <2>4, ChainEnds
  <2>5. ASSUME NEW f, FailsAt(f) PROVE IF Running' THEN RunsFor(c)' ELSE WaitsFor(c)'
        BY <1>1, <2>1, <2>2, <2>5, ChainFails
  <2> QED BY <1>1, <2>3, <2>4, <2>5 DEF Moves
<1> QED BY <1>2, <1>3

-----------------------------------------------------------------------------
(* A command that starts carries what it was asked, or what a hint gave it. *)
LEMMA AsksOfApproved ==
    ASSUME NEW r, GoodRequest(r)
    PROVE  Asks(newUpInfraCommand(r)) = Asks(r) /\ ~newUpInfraCommand(r).individual
<1>1. Asks(newUpInfraCommand(r)) = Asks(r)
      BY ApprovedGood, AsksAre
<1>2. newUpInfraCommand(r).individual = FALSE
      BY DEF newUpInfraCommand, GoodRequest, IsReq
<1> QED BY <1>1, <1>2

LEMMA StandsStill ==
    ASSUME UNCHANGED <<range, disk, inv, cloud>>, NEW a
    PROVE  (\A P : Progress(a, P) => Progress(a, P)') /\ (Passed(a) => Passed(a)')
<1>1. \A Q : Upto(a, Q) => Upto(a, Q)'
      BY SameGrown, UptoFramed
<1> QED BY <1>1, ProgressKept

LEMMA ChainStarts ==
    ASSUME OnTrack, Standing, NEW req, Run(req), req \in Requests[range.name] \cup cmd.hint, req.do = "up",
           NEW a, a.do = "up",
           NEW head, head = Head(selectUpSteps(req)),
           Carries(a, req, head),
           head = "provision" => Progress(a, Asks(req)), head = "health-check" => Passed(a),
           NEW c, c.req = a
    PROVE  Running' /\ RunsFor(c)'
<1> DEFINE r == newUpInfraCommand(req)
<1>1. /\ GoodRequest(req) /\ cmd'.do = "up" /\ cmd'.at = "start" /\ cmd'.req = r
      /\ cmd'.todo = selectUpSteps(req) /\ UNCHANGED <<range, disk, inv, cloud, lab>>
      BY TrackStarts DEF StepsOf
<1>2. validateUpExecutionOptions(req)
      BY DEF Run, Runnable
<1>3. Running' /\ Step' = head
      BY <1>1 DEF Running, Step
<1>4. PICK s : s = r
      OBVIOUS
<1>5. /\ s.do = req.do /\ s.limit = req.limit /\ s.plays = req.plays /\ s.fromPlaybook = req.fromPlaybook
      /\ s.infraOnly = req.infraOnly /\ s.module = req.module /\ s.exclude = req.exclude
      /\ s.with = req.with \cup IF AWS THEN {} ELSE {"bastion", "controller"}
      BY <1>1, <1>4, ApprovedGood
<1>6. Asks(s) = Asks(req) /\ ~s.individual
      BY <1>1, <1>4, AsksOfApproved
<1>7. cmd'.todo \in (IF s.infraOnly THEN InfraTodos ELSE UpTodos)
      BY <1>1, <1>2, <1>5, UpTodosAre
<1>8. Carries(a, s, head)
      BY <1>5 DEF Carries, PlaysGood
<1>9. Carries(a, s, head)'
      BY <1>1, <1>8, CarriesOn
<1>10. (head = "provision" => Progress(a, Asks(req))') /\ (head = "health-check" => Passed(a)')
  <2>1. PICK P : P = Asks(req)
        OBVIOUS
  <2>2. head = "provision" => Progress(a, P)'
        BY <1>1, <2>1, StandsStill
  <2>3. Asks(req) = P
        BY <2>1
  <2> QED BY <1>1, <2>2, <2>3, StandsStill
<1>11. Carries(c.req, cmd.req, Step)'
      BY <1>1, <1>3, <1>4, <1>9
<1>12. head = "provision" => Progress(c.req, Asks(cmd.req))'
      BY <1>1, <1>4, <1>6, <1>10
<1>13. head = "health-check" => Passed(c.req)'
      BY <1>10
<1>14. cmd'.req.infraOnly = s.infraOnly /\ ~cmd'.req.individual
      BY <1>1, <1>4, <1>6
<1> QED BY <1>1, <1>3, <1>7, <1>11, <1>12, <1>13, <1>14 DEF RunsFor

LEMMA AskedStarts ==
    ASSUME OnTrack, Standing, NEW req \in Requests[range.name], Run(req), req.do = "up", NEW c, c.req = req
    PROVE  Running' /\ RunsFor(c)'
<1>1. GoodRequest(req) /\ req.plays \in Seq(STRING)
      BY RequestsGood, RequestsAssumption DEF Standing
<1>2. validateUpExecutionOptions(req) /\ (req.fromPlaybook # None => req.plays = <<>>)
      BY DEF Run, Runnable, validateUpProvisionResume
<1>3. PICK head : head = Head(selectUpSteps(req))
      OBVIOUS
<1>4. Carries(req, req, head)
      BY <1>1, <1>2 DEF Carries, PlaysGood
<1>5. head = "provision" => Progress(req, Asks(req))
      BY DEF Progress
<1>6. head = "health-check" => Passed(req)
      BY <1>1, <1>2, <1>3, UpTodosAre DEF Passed, Plays
<1> QED BY <1>3, <1>4, <1>5, <1>6, ChainStarts

LEMMA HintStarts ==
    ASSUME OnTrack, Standing, NEW req \in cmd.hint, Run(req), NEW c, c.req.do = "up", WaitsFor(c)
    PROVE  Running' /\ RunsFor(c)'
<1>1. GoodRequest(req) /\ req.do = "up"
      BY DEF OnTrack
<1>2. /\ req.from \in StepsFor("up") /\ Carries(c.req, req, req.from)
      /\ req.from = "provision" => Progress(c.req, Asks(req))
      /\ req.from = "health-check" => Passed(c.req)
      BY DEF WaitsFor
<1>3. req.from # None
      BY <1>2 DEF StepsFor, None
<1>4. Head(selectUpSteps(req)) = req.from
      BY <1>1, <1>3, UpTodosAre DEF Run, Runnable
<1>5. PICK a, head : a = c.req /\ head = Head(selectUpSteps(req))
      OBVIOUS
<1> QED BY <1>1, <1>2, <1>4, <1>5, ChainStarts

-----------------------------------------------------------------------------
(* What an up builds.                                                       *)
LEMMA AppliedUnits ==
    ASSUME IsCloud(cloud), NEW U, NEW R, cloud' = Applied(U, R)
    PROVE  Units' \subseteq Units \cup U
<1> DEFINE kept == cloud.machines \ {m \in Stale : m.role \in U \cap R /\ Buildable(m.role)}
           new == {h \in U \cap LabHosts : Buildable(h) /\ ~\E m \in kept \cap Managed : m.role = h}
           fresh == {Fresh(h) : h \in new}
           last == [h \in LabHosts |-> IF h \in new THEN cloud.last[h] + 1 ELSE cloud.last[h]]
<1>1. kept \subseteq cloud.machines /\ new \subseteq U
      OBVIOUS
<1>2. cloud' = [cloud EXCEPT !.machines = kept \cup fresh, !.last = last,
                             !.extras = cloud.extras \cup (U \cap Optional)]
      BY DEF Applied, IsCloud
<1>3. \A m \in fresh : m.role \in new
      BY DEF Fresh, Built
<1> HIDE DEF kept, new, fresh, last
<1>4. cloud'.machines = kept \cup fresh /\ cloud'.extras = cloud.extras \cup (U \cap Optional)
      BY <1>2 DEF IsCloud
<1> QED BY <1>1, <1>3, <1>4 DEF Units

LEMMA SelectedIsAsked ==
    ASSUME NEW a, Carries(a, cmd.req, "infra"), ~cmd.req.individual, Action = "apply"
    PROVE  Selected \subseteq Asked(a)
<1>1. Module = a.module /\ cmd.req.exclude = a.exclude
      /\ cmd.req.with \subseteq a.with \cup IF AWS THEN {} ELSE {"bastion", "controller"}
      BY DEF Carries, Module
<1>2. azureModuleEnv = cmd.req.with
      BY DEF azureModuleEnv, Action
<1> DEFINE shown == LabHosts \cup (azureModuleEnv \cap range.optional)
           asked == LabHosts \cup a.with \cup IF AWS THEN {} ELSE {"bastion", "controller"}
<1>3. shown \subseteq asked
      BY <1>1, <1>2
<1> HIDE DEF shown, asked
<1>4. /\ Selected = CASE Module = None -> shown \ cmd.req.exclude
                      [] Module = "goad" -> IF cmd.req.individual THEN LabHosts \ cmd.req.exclude ELSE {}
                      [] OTHER -> {Module} \cap shown
      /\ Asked(a) = IF a.module = None THEN asked \ a.exclude ELSE {a.module} \cap asked
      BY DEF Selected, Asked, shown, asked
<1>5. CASE Module = None
  <2>1. Selected = shown \ cmd.req.exclude
        BY <1>4, <1>5 DEF None
  <2> QED BY <1>1, <1>3, <1>4, <1>5, <2>1
<1>6. CASE Module = "goad"
  <2>1. Selected = {}
        BY <1>4, <1>6 DEF None
  <2> QED BY <2>1
<1>7. CASE Module \notin {None, "goad"}
  <2>1. Selected = {Module} \cap shown
        BY <1>4, <1>7
  <2> QED BY <1>1, <1>3, <1>4, <1>7, <2>1
<1> QED BY <1>5, <1>6, <1>7

LEMMA UnitsOfGrown ==
    ASSUME Grown, cloud'.extras = cloud.extras
    PROVE  Units' = Units
BY SameInstances DEF Units

LEMMA UpBuilds ==
    ASSUME OnTrack, Standing, Works, NEW c, c.req.do = "up", RunsFor(c)
    PROVE  Units' \subseteq Units \cup Asked(c.req)
<1>1. IsCloud(cloud) /\ range' = range /\ cmd.do = "up" /\ Running
      BY WorksMoves DEF OnTrack, Standing, RunsFor
<1>2. Step \in StepsFor("up")
      BY <1>1, UpRuns
<1>3. CASE RunAll
  <2>1. PICK U, R : (U = {} \/ U \subseteq Selected) /\ cloud' = Effect(U, R)
        BY <1>3, Zenon DEF RunAll
  <2>2. CASE Action = "apply"
    <3>1. Units' \subseteq Units \cup U
          BY <1>1, <2>1, <2>2, AppliedUnits DEF Effect
    <3>2. Step = "infra"
          BY <1>3 DEF RunAll, Infra, At, Step
    <3>3. Selected \subseteq Asked(c.req)
          BY <2>2, <3>2, SelectedIsAsked DEF RunsFor
    <3> QED BY <2>1, <3>1, <3>3
  <2>3. CASE Action = "destroy"
    <3>1. cloud' = Destroyed(U)
          BY <2>1, <2>3 DEF Effect
    <3>2. cloud'.extras = cloud.extras \ U /\ cloud'.machines = cloud.machines \ {m \in Managed : m.role \in U}
          BY <1>1, <3>1, DestroyedKeeps
    <3> QED BY <3>2 DEF Units
  <2>4. CASE Action \notin {"apply", "destroy"}
    <3>1. cloud' = cloud
          BY <2>1, <2>4 DEF Effect
    <3> QED BY <3>1 DEF Units
  <2> QED BY <2>2, <2>3, <2>4
<1>4. CASE InfraStep /\ ~RunAll
  <2>1. \/ cloud' = cloud \/ (\E x : cloud' = [cloud EXCEPT !.backend = x])
        \/ \E x : cloud' = [cloud EXCEPT !.bucket = x]
    <3>1. CASE runAllInit \/ deleteSSMBucket
          BY <3>1 DEF runAllInit, deleteSSMBucket
    <3>2. CASE ~(runAllInit \/ deleteSSMBucket)
          BY <1>4, <3>2 DEF InfraStep, materializeLabConfig, recordMaterializedConfigOwnership, confirmDestroy,
             checkLocalInfraState
    <3> QED BY <3>1, <3>2
  <2>2. cloud'.machines = cloud.machines /\ cloud'.extras = cloud.extras
        BY <1>1, <2>1 DEF IsCloud
  <2> QED BY <2>2 DEF Units
<1>5. CASE ProvisionStep \/ runUpDoctor
  <2>1. CASE RunPlaybook
        BY <1>1, <2>1, PlaybooksGrown, UnitsOfGrown
  <2>2. CASE ~RunPlaybook
    <3>1. cloud' = cloud \/ cloud' = [cloud EXCEPT !.bucket = TRUE]
      <4>1. CASE ensureSSMBucket
            BY <4>1 DEF ensureSSMBucket
      <4>2. CASE ~ensureSSMBucket
            BY <1>5, <2>2, <4>2 DEF ProvisionStep, runProvision, checkAnsibleRuntime, BuildCollection, ensureVariant,
               generateVariant, ensureInventoryTopology, ensureTransport, ensureInventorySynced,
               syncAzureInventoryIPs, syncAzurePasswords, validateInventory, maybeStartSOCKSTunnel, runUpDoctor,
               OnlyCmd
      <4> QED BY <4>1, <4>2
    <3>2. cloud'.machines = cloud.machines /\ cloud'.extras = cloud.extras
          BY <1>1, <3>1 DEF IsCloud
    <3> QED BY <3>2 DEF Units
  <2> QED BY <2>1, <2>2
<1>6. CASE HealthStep
  <2>1. CASE checkSSMOnline
        BY <1>1, <2>1, RevivedGrown, UnitsOfGrown
  <2>2. CASE ~checkSSMOnline
    <3>1. cloud' = cloud
          BY <1>6, <2>2 DEF HealthStep, requireInfra, runHealthChecks
    <3> QED BY <3>1 DEF Units
  <2> QED BY <2>1, <2>2
<1>7. CASE ResetStep \/ runLabAction \/ destroyVM
  <2>1. Step \notin StepsFor("up") \/ requireInfra
        BY <1>7 DEF ResetStep, liveDCTargets, runPurgeOnDC, resetKali, runKaliCleanup, runWindowsCleanup, runLabAction,
           destroyVM, At, Step, StepsFor
  <2>2. ~requireInfra \/ HealthStep
        BY DEF HealthStep
  <2> QED BY <1>2, <1>6, <2>1, <2>2
<1> QED BY <1>3, <1>4, <1>5, <1>6, <1>7 DEF Works

-----------------------------------------------------------------------------
(* What every state is made of.                                             *)
LEMMA AddrGivenWorks ==
    ASSUME OnTrack, Standing, Handing, AddrGiven, Works
    PROVE  AddrGiven'
<1>1. range' = range /\ IsCloud(cloud) /\ AWS' = AWS
      BY WorksMoves DEF OnTrack, Standing, AWS
<1>2. CASE AWS
      BY <1>1, <1>2, StandingWorks DEF Standing, Addressed, AddrGiven
<1>3. CASE ~AWS
  <2>1. CASE syncAzureInventoryIPs
    <3>1. inv' = inv \/ \E a \in PlainAddresses(DiscoverInstances) : inv' = applyInventoryAddresses(inv, a)
          BY <2>1 DEF syncAzureInventoryIPs
    <3> QED BY <1>1, <3>1, AzureSyncs DEF AddrGiven
  <2>2. CASE syncAzurePasswords
    <3>1. inv' = syncAzureInventoryPasswords(inv, materializedHostPasswords, Quotable) /\ disk' = disk
          BY <2>2 DEF syncAzurePasswords
    <3> QED BY <3>1, PasswordsSync DEF AddrGiven
  <2>3. CASE ensureInventoryTopology \/ ensureTransport \/ ensureSSMBucket
        BY <2>3, ConnectionKept DEF AddrGiven
  <2>4. CASE liveDCTargets
        BY <1>3, <2>4 DEF liveDCTargets, AddrGiven
  <2>5. CASE ensureInventorySynced
        BY <1>3, <2>5 DEF ensureInventorySynced
  <2>6. CASE InfraStep \/ runLabAction \/ destroyVM
        BY <2>6 DEF InfraStep, materializeLabConfig, recordMaterializedConfigOwnership, confirmDestroy,
           checkLocalInfraState, runAllInit, RunAll, deleteSSMBucket, runLabAction, destroyVM, AddrGiven
  <2>7. CASE \/ runProvision \/ checkAnsibleRuntime \/ BuildCollection \/ ensureVariant \/ generateVariant
             \/ validateInventory \/ maybeStartSOCKSTunnel \/ RunPlaybook \/ runUpDoctor
        BY <2>7 DEF runProvision, checkAnsibleRuntime, BuildCollection, ensureVariant, generateVariant,
           validateInventory, maybeStartSOCKSTunnel, RunPlaybook, runUpDoctor, OnlyCmd, AddrGiven
  <2>8. CASE HealthStep \/ runPurgeOnDC \/ resetKali \/ runKaliCleanup \/ runWindowsCleanup
        BY <2>8 DEF HealthStep, requireInfra, checkSSMOnline, runHealthChecks, runPurgeOnDC, resetKali,
           runKaliCleanup, runWindowsCleanup, AddrGiven
  <2> QED BY <2>1, <2>2, <2>3, <2>4, <2>5, <2>6, <2>7, <2>8 DEF Works, ProvisionStep, ResetStep
<1> QED BY <1>2, <1>3

LEMMA DiskRemade ==
    ASSUME IsDisk(disk), NEW x,
           \/ disk' = disk
           \/ x \in {"absent", "partial", "complete"} /\ disk' = [disk EXCEPT !.target = x]
           \/ x \in Versions /\ disk' = [disk EXCEPT !.config = x]
           \/ x \in Versions /\ disk' = [disk EXCEPT !.target = "complete", !.config = x]
           \/ x \in {0} \cup Versions /\ disk' = [disk EXCEPT !.mat = x]
           \/ x \in {0} \cup Versions /\ disk' = [disk EXCEPT !.marker = x]
           \/ disk' = [disk EXCEPT !.state = x]
    PROVE  IsDisk(disk')
BY DEF IsDisk

LEMMA DiskWorks ==
    ASSUME IsDisk(disk), Works
    PROVE  IsDisk(disk')
<1>1. CASE materializeLabConfig
  <2>1. disk' = disk \/ disk' = [disk EXCEPT !.mat = disk.config]
        BY <1>1 DEF materializeLabConfig
  <2>2. PICK x : x = disk.config
        OBVIOUS
  <2>3. x \in {0} \cup Versions
        BY <2>2 DEF IsDisk
  <2> QED BY <2>1, <2>2, <2>3, DiskRemade
<1>2. CASE recordMaterializedConfigOwnership
  <2>1. PICK x : x = disk.mat
        OBVIOUS
  <2>2. x \in {0} \cup Versions
        BY <2>1 DEF IsDisk
  <2> QED BY <1>2, <2>1, <2>2, DiskRemade DEF recordMaterializedConfigOwnership
<1>3. CASE RunAll
  <2>1. PICK written : disk' = [disk EXCEPT !.state = @ \/ (~AWS /\ Action = "apply" /\ written)]
        BY <1>3, Zenon DEF RunAll
  <2>2. PICK x : x = (disk.state \/ (~AWS /\ Action = "apply" /\ written))
        OBVIOUS
  <2>3. disk' = [disk EXCEPT !.state = x]
        BY <2>1, <2>2 DEF IsDisk
  <2> QED BY <2>3, DiskRemade
<1>4. CASE ensureVariant \/ generateVariant
  <2>1. \/ disk' = disk \/ \E x \in {"absent", "partial", "complete"} : disk' = [disk EXCEPT !.target = x]
        \/ \E x \in Versions : disk' = [disk EXCEPT !.target = "complete", !.config = x]
        BY <1>4 DEF ensureVariant, generateVariant
  <2> QED BY <2>1, DiskRemade
<1>5. CASE ~\/ materializeLabConfig \/ recordMaterializedConfigOwnership \/ RunAll \/ ensureVariant \/ generateVariant
  <2>1. disk' = disk
    <3>1. CASE InfraStep \/ runLabAction \/ destroyVM
          BY <1>5, <3>1 DEF InfraStep, confirmDestroy, checkLocalInfraState, runAllInit, deleteSSMBucket,
             runLabAction, destroyVM
    <3>2. CASE ProvisionStep \/ runUpDoctor
          BY <1>5, <3>2 DEF ProvisionStep, runProvision, checkAnsibleRuntime, BuildCollection,
             ensureInventoryTopology, ensureTransport, ensureSSMBucket, ensureInventorySynced,
             syncAzureInventoryIPs, syncAzurePasswords, validateInventory, maybeStartSOCKSTunnel, RunPlaybook,
             runUpDoctor, OnlyCmd
    <3>3. CASE HealthStep \/ ResetStep
          BY <3>3 DEF HealthStep, requireInfra, checkSSMOnline, runHealthChecks, ResetStep, liveDCTargets,
             runPurgeOnDC, resetKali, runKaliCleanup, runWindowsCleanup
    <3> QED BY <3>1, <3>2, <3>3 DEF Works
  <2> QED BY <2>1, DiskRemade
<1> QED BY <1>1, <1>2, <1>3, <1>4, <1>5

LinesOfLab == DOMAIN inv.hosts \subseteq LabHosts /\ DOMAIN inv.groups \subseteq Groups
LEMMA LinesWorks ==
    ASSUME Works, LinesOfLab
    PROVE  LinesOfLab'
<1>1. CASE DOMAIN inv'.hosts = DOMAIN inv.hosts /\ inv'.groups = inv.groups
      BY <1>1 DEF LinesOfLab, LabHosts
<1>2. CASE ensureInventoryTopology /\ inv' # inv
  <2> DEFINE new == ensureInventoryTopologyFromSource(inv, Canonical, {"ansible_connection"})
  <2>1. inv'.hosts = new.hosts /\ inv'.groups = new.groups
        BY <1>2 DEF ensureInventoryTopology, ensureProviderInventoryVariables, replaceInventoryVariable
  <2>2. CASE new = inv
        BY <2>1, <2>2 DEF LinesOfLab, LabHosts
  <2>3. CASE new # inv
    <3>1. /\ inv'.hosts = inv.hosts
          /\ DOMAIN inv'.groups = DOMAIN inv.groups \cup DOMAIN filterCanonicalTopology(Canonical, inv)
          BY <2>1, <2>3 DEF ensureInventoryTopologyFromSource, addInventoryTopology
    <3>2. DOMAIN filterCanonicalTopology(Canonical, inv) \subseteq Groups
          BY LabAssumption DEF filterCanonicalTopology
    <3> QED BY <3>1, <3>2 DEF LinesOfLab, LabHosts
  <2> QED BY <2>2, <2>3
<1> QED BY <1>1, <1>2, GroupsKept

LEMMA DriftWorks ==
    ASSUME IsLab(lab), lab.drift \subseteq Drifts, Works
    PROVE  lab'.drift \subseteq Drifts
<1>1. CASE RunPlaybook
  <2>1. PICK M, kept : Ran(Head(cmd.left), M, kept)
        BY <1>1, Zenon DEF RunPlaybook
  <2> DEFINE A == lab.ad \cup Restorable(Head(cmd.left), M)
             D == lab.drift \ (Correctable(Head(cmd.left), M) \ kept)
  <2>2. lab' = [lab EXCEPT !.ad = A, !.drift = D]
        BY <2>1 DEF Ran, IsLab
  <2>3. D \subseteq lab.drift
        OBVIOUS
  <2> HIDE DEF A, D
  <2> QED BY <2>2, <2>3 DEF IsLab
<1>2. CASE ~RunPlaybook
  <2>1. lab' = lab \/ (\E x : lab' = [lab EXCEPT !.ad = x]) \/ \E x : lab' = [lab EXCEPT !.left = x]
    <3>1. CASE InfraStep \/ runLabAction \/ destroyVM
          BY <3>1 DEF InfraStep, materializeLabConfig, recordMaterializedConfigOwnership, confirmDestroy,
             checkLocalInfraState, runAllInit, RunAll, deleteSSMBucket, runLabAction, destroyVM
    <3>2. CASE ProvisionStep \/ runUpDoctor
          BY <1>2, <3>2 DEF ProvisionStep, runProvision, checkAnsibleRuntime, BuildCollection, ensureVariant,
             generateVariant, ensureInventoryTopology, ensureTransport, ensureSSMBucket, ensureInventorySynced,
             syncAzureInventoryIPs, syncAzurePasswords, validateInventory, maybeStartSOCKSTunnel, runUpDoctor,
             OnlyCmd
    <3>3. CASE HealthStep \/ liveDCTargets \/ resetKali
          BY <3>3 DEF HealthStep, requireInfra, checkSSMOnline, runHealthChecks, liveDCTargets, resetKali
    <3>4. CASE runPurgeOnDC
          BY <3>4, Zenon DEF runPurgeOnDC, IsLab
    <3>5. CASE runKaliCleanup
          BY <3>5, Zenon DEF runKaliCleanup, IsLab
    <3>6. CASE runWindowsCleanup
          BY <3>6, Zenon DEF runWindowsCleanup, IsLab
    <3> QED BY <3>1, <3>2, <3>3, <3>4, <3>5, <3>6 DEF Works, ResetStep
  <2> QED BY <2>1 DEF IsLab
<1> QED BY <1>1, <1>2

LEMMA TallyFailed == ASSUME NEW f, FailsAt(f) PROVE Fits(cmd'.tally)
<1>1. cmd'.tally = [found |-> 0, removed |-> 0]
      BY DEF FailsAt, Idle
<1> QED BY <1>1 DEF Fits

LEMMA TallyDone == ASSUME NEW d, IsCmd(d), cmd' = d \/ cmd' = Done(d), Fits(d.tally) PROVE Fits(cmd'.tally)
<1>1. cmd'.tally = d.tally
      BY Ends
<1> QED BY <1>1

LEMMA TallyCarried ==
    ASSUME IsCmd(cmd), Fits(cmd.tally), NEW x, NEW y, NEW z, NEW d,
           \/ d = cmd
           \/ d = [cmd EXCEPT !.slips = x] \/ d = [cmd EXCEPT !.errs = x]
           \/ d = [cmd EXCEPT !.slips = x, !.left = y]
           \/ d = [cmd EXCEPT !.at = x] \/ d = [cmd EXCEPT !.at = x, !.left = y]
           \/ d = [cmd EXCEPT !.at = x, !.seen = y] \/ d = [cmd EXCEPT !.at = x, !.list = y, !.seen = z]
           \/ d = [cmd EXCEPT !.over = x, !.slips = y] \/ d = [cmd EXCEPT !.over = x, !.errs = y],
           cmd' = d \/ cmd' = Done(d)
    PROVE  Fits(cmd'.tally)
<1>1. IsCmd(d) /\ d.tally = cmd.tally
      BY DEF IsCmd
<1> QED BY <1>1, TallyDone

LEMMA TallySwept ==
    ASSUME IsCmd(cmd), Fits(cmd.tally), IsLab(lab), runWindowsCleanup
    PROVE  Fits(cmd'.tally)
<1> DEFINE swept(h, unseen, kept) == IF cmd.req.apply THEN RemovableOn(h) \ (unseen \cup kept) ELSE {}
           hushed(unseen) == {a \in unseen : a.kind \notin Accounts}
           Then(h, over, unseen, kept) ==
                [cmd EXCEPT !.over = over, !.blind = @ \cup hushed(unseen),
                            !.slips = @ \/ kept # {} \/ unseen # hushed(unseen),
                            !.tally = [found |-> @.found + Cardinality(CountedOn(h) \ unseen),
                                       removed |-> @.removed + Cardinality(swept(h, unseen, kept) \cap CountedOn(h))]]
<1>1. \/ NextStep
      \/ \E h : cmd' = [cmd EXCEPT !.over = @ \cup {h}, !.errs = TRUE]
      \/ \E h, unseen, kept : cmd' = Then(h, cmd.over \cup {h}, unseen, kept)
      BY ZenonT(90) DEF runWindowsCleanup
<1>2. CASE NextStep \/ \E h : cmd' = [cmd EXCEPT !.over = @ \cup {h}, !.errs = TRUE]
  <2>1. NextStep \/ \E x, y : cmd' = [cmd EXCEPT !.over = x, !.errs = y]
        BY <1>2
  <2> QED BY <2>1, TallyCarried DEF NextStep
<1>3. ASSUME NEW h, NEW unseen, NEW kept, NEW over, cmd' = Then(h, over, unseen, kept)
      PROVE  Fits(cmd'.tally)
  <2> DEFINE gone == swept(h, unseen, kept)
             counted == CountedOn(h) \ unseen
             found == Cardinality(counted)
             removed == Cardinality(gone \cap CountedOn(h))
             tally == [found |-> cmd.tally.found + found, removed |-> cmd.tally.removed + removed]
             blind == cmd.blind \cup hushed(unseen)
             slips == cmd.slips \/ kept # {} \/ unseen # hushed(unseen)
  <2>1. counted \subseteq lab.left /\ IsFiniteSet(lab.left)
        BY CountedIsLeft, ArtifactsAssumption, FS_Subset DEF IsLab
  <2>2. IsFiniteSet(counted) /\ gone \cap CountedOn(h) \subseteq counted
    <3>1. gone \cap unseen = {}
          OBVIOUS
    <3> HIDE DEF gone
    <3>2. gone \cap CountedOn(h) \subseteq counted
          BY <3>1
    <3> QED BY <2>1, <3>2, FS_Subset
  <2>3. found \in Nat /\ removed \in Nat /\ removed <= found
    <3> HIDE DEF gone, counted
    <3> QED BY <2>2, FS_Subset, FS_CardinalityType
  <2>4. cmd'.tally = tally
    <3>1. cmd' = [cmd EXCEPT !.over = over, !.blind = blind, !.slips = slips, !.tally = tally]
          BY <1>3 DEF IsCmd
    <3> HIDE DEF tally, blind, slips
    <3> QED BY <3>1 DEF IsCmd
  <2>5. tally.found = cmd.tally.found + found /\ tally.removed = cmd.tally.removed + removed
        OBVIOUS
  <2> HIDE DEF found, removed, tally
  <2> QED BY <2>3, <2>4, <2>5 DEF Fits
<1> HIDE DEF Then
<1> QED BY <1>1, <1>2, <1>3

LEMMA TallyCleaned ==
    ASSUME IsCmd(cmd), Fits(cmd.tally), IsLab(lab), runKaliCleanup
    PROVE  Fits(cmd'.tally)
<1> DEFINE results(unseen, missed, kept) == {cleaned(t, cmd.req.apply, unseen, missed, kept) : t \in KaliTargets}
           found(unseen, missed, kept) == UNION {r.found : r \in results(unseen, missed, kept)}
           removed(unseen, missed, kept) == UNION {r.removed : r \in results(unseen, missed, kept)}
           tally(unseen, missed, kept) ==
                [found |-> Cardinality(found(unseen, missed, kept)), removed |-> Cardinality(removed(unseen, missed, kept))]
<1>1. \/ cmd' = Done([cmd EXCEPT !.errs = TRUE])
      \/ \E unseen, missed, kept, blind :
            cmd' = Done([cmd EXCEPT !.tally = tally(unseen, missed, kept), !.blind = blind])
  <2> SUFFICES ASSUME ~(cmd' = Done([cmd EXCEPT !.errs = TRUE]))
               PROVE  \E unseen, missed, kept, blind :
                        cmd' = Done([cmd EXCEPT !.tally = tally(unseen, missed, kept), !.blind = blind])
        OBVIOUS
  <2>0. \E lost \in SUBSET On("kali"), how \in {"unseen", "missed", "kept"} :
            LET as(way) == IF how = way THEN lost ELSE {}
                all == {cleaned(t, cmd.req.apply, as("unseen"), as("missed"), as("kept")) : t \in KaliTargets} IN
            /\ lab' = [lab EXCEPT !.left = @ \ UNION {r.gone : r \in all}]
            /\ cmd' = Done([cmd EXCEPT !.tally = [found |-> Cardinality(UNION {r.found : r \in all}),
                                                  removed |-> Cardinality(UNION {r.removed : r \in all})],
                                       !.blind = @ \cup as("unseen") \cup as("missed")])
        BY Zenon DEF runKaliCleanup
  <2>1. PICK lost \in SUBSET On("kali"), how \in {"unseen", "missed", "kept"} :
            LET as(way) == IF how = way THEN lost ELSE {}
                all == {cleaned(t, cmd.req.apply, as("unseen"), as("missed"), as("kept")) : t \in KaliTargets} IN
            /\ lab' = [lab EXCEPT !.left = @ \ UNION {r.gone : r \in all}]
            /\ cmd' = Done([cmd EXCEPT !.tally = [found |-> Cardinality(UNION {r.found : r \in all}),
                                                  removed |-> Cardinality(UNION {r.removed : r \in all})],
                                       !.blind = @ \cup as("unseen") \cup as("missed")])
        BY <2>0, Zenon
  <2> DEFINE as(way) == IF how = way THEN lost ELSE {}
             blind == cmd.blind \cup as("unseen") \cup as("missed")
  <2>2. cmd' = Done([cmd EXCEPT !.tally = tally(as("unseen"), as("missed"), as("kept")), !.blind = blind])
        BY <2>1, Zenon DEF IsCmd
  <2> HIDE DEF tally, as, blind
  <2> QED BY <2>2
<1>2. ASSUME NEW unseen, NEW missed, NEW kept PROVE Fits(tally(unseen, missed, kept))
  <2> DEFINE all == results(unseen, missed, kept)
             F == UNION {r.found : r \in all}
             R == UNION {r.removed : r \in all}
  <2>1. R \subseteq F /\ F \subseteq lab.left
    <3>1. \A r \in all : r.removed \subseteq r.found /\ r.found \subseteq lab.left
          BY CountedIsLeft DEF cleaned
    <3> HIDE DEF all
    <3> QED BY <3>1
  <2> HIDE DEF all
  <2>2. IsFiniteSet(F)
        BY <2>1, ArtifactsAssumption, FS_Subset DEF IsLab
  <2> HIDE DEF F, R
  <2>3. Cardinality(F) \in Nat /\ Cardinality(R) \in Nat /\ Cardinality(R) <= Cardinality(F)
        BY <2>1, <2>2, FS_Subset, FS_CardinalityType
  <2> QED BY <2>3 DEF Fits, F, R, all
<1> HIDE DEF tally
<1>3. ASSUME NEW t, NEW blind, Fits(t), cmd' = Done([cmd EXCEPT !.tally = t, !.blind = blind])
      PROVE  Fits(cmd'.tally)
  <2> DEFINE d == [cmd EXCEPT !.tally = t, !.blind = blind]
  <2>1. IsCmd(d)
        BY Changed DEF Kin
  <2>2. d.tally = t
        BY SMTT(30) DEF IsCmd
  <2> HIDE DEF d
  <2> QED BY <1>3, <2>1, <2>2, TallyDone DEF d
<1> QED BY <1>1, <1>2, <1>3, TallyCarried

LEMMA TallyWorks ==
    ASSUME IsCmd(cmd), Fits(cmd.tally), IsLab(lab), Works
    PROVE  Fits(cmd'.tally)
<1>1. (\E f : FailsAt(f)) => Fits(cmd'.tally)
      BY TallyFailed
<1>2. NextStep \/ (\E point : Go(point)) => Fits(cmd'.tally)
      BY TallyCarried DEF NextStep, Go
<1>3. ASSUME \E x, y, z :
                \/ cmd' = [cmd EXCEPT !.at = x, !.left = y] \/ cmd' = [cmd EXCEPT !.at = x, !.seen = y]
                \/ cmd' = [cmd EXCEPT !.at = x, !.list = y, !.seen = z]
                \/ cmd' = [cmd EXCEPT !.slips = x, !.left = y]
                \/ cmd' = [cmd EXCEPT !.over = x, !.slips = y] \/ cmd' = [cmd EXCEPT !.over = x, !.errs = y]
                \/ cmd' = Done([cmd EXCEPT !.errs = x]) \/ cmd' = Done([cmd EXCEPT !.slips = x])
      PROVE  Fits(cmd'.tally)
      BY <1>3, TallyCarried
<1>4. NotFound \/ CannotPurge => Fits(cmd'.tally)
      BY <1>1, <1>3 DEF NotFound, CannotPurge, Fails
<1>5. CASE InfraStep \/ runLabAction \/ destroyVM
      BY <1>1, <1>2, <1>5 DEF InfraStep, materializeLabConfig, recordMaterializedConfigOwnership, confirmDestroy,
         checkLocalInfraState, runAllInit, RunAll, deleteSSMBucket, runLabAction, destroyVM, Fails
<1>6. CASE ProvisionStep \/ runUpDoctor
  <2> USE DEF Fails
  <2>1. CASE runProvision
        BY <1>1, <1>3, <2>1 DEF runProvision
  <2>2. CASE checkAnsibleRuntime \/ BuildCollection \/ ensureVariant \/ generateVariant
        BY <1>1, <1>2, <2>2 DEF checkAnsibleRuntime, BuildCollection, ensureVariant, generateVariant
  <2>3. CASE ensureInventoryTopology \/ ensureTransport \/ ensureSSMBucket
        BY <1>1, <1>2, <2>3 DEF ensureInventoryTopology, ensureTransport, ensureSSMBucket
  <2>4. CASE ensureInventorySynced \/ syncAzureInventoryIPs
        BY <1>1, <1>3, <2>4 DEF ensureInventorySynced, syncAzureInventoryIPs
  <2>5. CASE syncAzurePasswords \/ validateInventory \/ maybeStartSOCKSTunnel
        BY <1>1, <1>2, <2>5 DEF syncAzurePasswords, validateInventory, maybeStartSOCKSTunnel
  <2>6. CASE runUpDoctor
        BY <1>1, <1>2, <2>6 DEF runUpDoctor
  <2>7. CASE RunPlaybook
        BY <1>1, <1>3, <2>7, Played
  <2> QED BY <1>6, <2>1, <2>2, <2>3, <2>4, <2>5, <2>6, <2>7 DEF ProvisionStep
<1>7. CASE HealthStep
  <2>1. CASE requireInfra
        BY <1>3, <1>4, <2>1 DEF requireInfra
  <2>2. CASE checkSSMOnline
        BY <1>3, <1>4, <2>2 DEF checkSSMOnline, Found
  <2>3. CASE runHealthChecks
        BY <1>1, <1>2, <1>3, <2>3 DEF runHealthChecks, Fails
  <2> QED BY <1>7, <2>1, <2>2, <2>3 DEF HealthStep
<1>8. CASE ResetStep
  <2>1. CASE liveDCTargets
    <3>1. CannotPurge \/ \E list, seen : cmd' = [cmd EXCEPT !.at = "dcs", !.list = list, !.seen = seen]
          BY <2>1 DEF liveDCTargets
    <3>2. ASSUME NEW list, NEW seen, cmd' = [cmd EXCEPT !.at = "dcs", !.list = list, !.seen = seen]
          PROVE  Fits(cmd'.tally)
          BY <3>2, TallyCarried
    <3> QED BY <1>4, <3>1, <3>2
  <2>2. CASE runPurgeOnDC
        BY <1>2, <1>3, <2>2 DEF runPurgeOnDC
  <2>3. CASE resetKali
        BY <1>2, <1>3, <2>3 DEF resetKali
  <2> QED BY <1>8, <2>1, <2>2, <2>3, TallyCleaned, TallySwept DEF ResetStep
<1> QED BY <1>5, <1>6, <1>7, <1>8 DEF Works

Messages == {None, "ok", "failed", "died", "Lab is up"}
Spoken == cmd.told \in Messages /\ (cmd.hint = {} \/ \E r : cmd.hint = {r})
LEMMA DoneTells ==
    ASSUME NEW d, IsCmd(d), cmd' = Done(d)
    PROVE  cmd'.told \in Messages \cup {d.told} /\ (cmd'.hint = {} \/ cmd'.hint = d.hint)
<1>1. CASE Len(d.todo) > 1
  <2>1. cmd'.told = d.told /\ cmd'.hint = d.hint
        BY <1>1, Ends
  <2> QED BY <2>1
<1>2. CASE ~(Len(d.todo) > 1)
  <2>1. cmd'.hint = {}
        BY <1>2, Ends
  <2>2. cmd'.told = IF d.errs THEN "failed" ELSE IF d.do = "up" /\ ~d.req.infraOnly THEN "Lab is up" ELSE "ok"
        BY <1>2 DEF Done, Idle
  <2>3. cmd'.told \in {"failed", "Lab is up", "ok"}
        BY <2>2
  <2> QED BY <2>1, <2>3 DEF Messages
<1> QED BY <1>1, <1>2

LEMMA SpokenWorks ==
    ASSUME OnTrack, Spoken, Works
    PROVE  Spoken'
<1>1. IsCmd(cmd) /\ Moves
      BY WorksMoves DEF OnTrack
<1>2. CASE Kin(cmd, cmd')
      BY <1>2 DEF Kin, Spoken
<1>3. ASSUME NEW d, Kin(cmd, d), cmd' = Done(d) PROVE Spoken'
  <2>1. IsCmd(d) /\ d.told = cmd.told /\ d.hint = cmd.hint
        BY <1>3 DEF Kin
  <2>2. cmd'.told \in Messages \cup {d.told} /\ (cmd'.hint = {} \/ cmd'.hint = d.hint)
        BY <1>3, <2>1, DoneTells
  <2> QED BY <2>1, <2>2 DEF Spoken
<1>4. ASSUME NEW f, FailsAt(f) PROVE Spoken'
  <2>1. cmd'.told = "failed" /\ (cmd'.hint = {} \/ \E r : cmd'.hint = {r})
        BY <1>4, Failed
  <2> QED BY <2>1 DEF Spoken, Messages
<1> QED BY <1>1, <1>2, <1>3, <1>4 DEF Moves

Typed ==
    /\ range.provider \in {"aws", "azure"} /\ IsDisk(disk) /\ LinesOfLab /\ AddrGiven
    /\ lab.drift \subseteq Drifts /\ Spoken /\ Fits(cmd.tally)
    /\ chain = {} \/ \E c : chain = {c}

LEMMA InitTyped == ASSUME Init PROVE Typed
<1>1. PICK r \in Ranges : range = r.range /\ disk = r.disk /\ inv = r.inv /\ cloud = r.cloud /\ lab = r.lab
      BY DEF Init
<1>2. /\ r.range.provider \in {"aws", "azure"}
      /\ r.disk \in [target : {"absent", "partial", "complete"}, config : Versions, mat : {0} \cup Versions,
                     marker : {0} \cup Versions, state : BOOLEAN]
      /\ r.lab \in [ad : SUBSET Objects, drift : SUBSET Drifts, left : SUBSET Artifacts,
                    loopback : BOOLEAN, sudo : BOOLEAN]
      /\ \A h \in DOMAIN r.inv.hosts : h \in LabHosts /\ r.inv.hosts[h].addr # None
      /\ DOMAIN r.inv.groups \subseteq Groups
      BY RangesAssumption
<1>3. IsDisk(disk)
  <2> HIDE DEF Versions
  <2> QED BY <1>1, <1>2 DEF IsDisk
<1>4. LinesOfLab /\ AddrGiven /\ lab.drift \subseteq Drifts
      BY <1>1, <1>2 DEF LinesOfLab, AddrGiven
<1>5. cmd.told = None /\ cmd.hint = {} /\ cmd.tally = [found |-> 0, removed |-> 0] /\ chain = {}
      BY DEF Init, Idle
<1>6. Fits(cmd.tally)
      BY <1>5 DEF Fits
<1> QED BY <1>1, <1>2, <1>3, <1>4, <1>5, <1>6 DEF Typed, Spoken, Messages

LEMMA NextTyped ==
    ASSUME Kept, Typed, [Next]_vars
    PROVE  Typed'
<1>0. OnTrack /\ Standing /\ Handing /\ IsLab(lab) /\ IsCmd(cmd)
      BY DEF Kept, Standing, OnTrack
<1>1. CASE Works
  <2>1. range' = range /\ chain' = chain
        BY <1>0, <1>1, WorksMoves DEF Works
  <2>2. AddrGiven' /\ IsDisk(disk') /\ LinesOfLab' /\ lab'.drift \subseteq Drifts
        BY <1>0, <1>1, AddrGivenWorks, DiskWorks, LinesWorks, DriftWorks DEF Typed
  <2>3. Spoken' /\ Fits(cmd'.tally)
        BY <1>0, <1>1, SpokenWorks, TallyWorks DEF Typed
  <2> QED BY <2>1, <2>2, <2>3 DEF Typed, IsDisk, Fits, LabHosts, Drifts
<1>2. CASE RunCommand \/ FollowHint \/ Killed
  <2>1. UNCHANGED <<range, disk, inv, cloud, lab>>
        BY <1>2 DEF RunCommand, FollowHint, Run, Killed, Dies
  <2>2. cmd'.told \in {None, "died"} /\ cmd'.hint = {} /\ cmd'.tally = [found |-> 0, removed |-> 0]
    <3>1. CASE \E req : Start(req)
          BY <3>1, Started
    <3>2. CASE Dies
          BY <3>2 DEF Dies, Idle
    <3> QED BY <1>2, <3>1, <3>2 DEF RunCommand, FollowHint, Run, Killed
  <2>3. Spoken' /\ Fits(cmd'.tally)
    <3>1. Spoken'
          BY <2>2 DEF Spoken, Messages
    <3>2. cmd'.tally.found = 0 /\ cmd'.tally.removed = 0
          BY <2>2
    <3> QED BY <3>1, <3>2 DEF Fits
  <2>4. chain' = chain \/ chain' = {} \/ \E c : chain' = {c}
        BY <1>2 DEF RunCommand, FollowHint, Killed
  <2> QED BY <2>1, <2>3, <2>4 DEF Typed, IsDisk, Fits, LinesOfLab, AddrGiven, LabHosts, Drifts
<1>3. CASE Happens
  <2>1. UNCHANGED <<range, inv, cmd>> /\ chain' = {}
        BY <1>3 DEF Happens, MachineReplaced, MachineDuplicated, MachineStopped, AgentDropped, ConfigEdited, Engaged,
           Outside
  <2>2. IsDisk(disk')
    <3>1. disk' = disk \/ \E v \in Versions : disk' = [disk EXCEPT !.config = v]
          BY <1>3 DEF Happens, MachineReplaced, MachineDuplicated, MachineStopped, AgentDropped, ConfigEdited, Engaged
    <3> QED BY <3>1, DiskRemade DEF Typed
  <2>3. lab'.drift \subseteq Drifts
    <3>1. CASE Engaged
      <4>1. PICK dc \in {o.dc : o \in lab.ad} : \E A :
                lab' = [lab EXCEPT !.ad = A, !.drift = @ \cup [dc : {dc}, covered : BOOLEAN], !.left = Artifacts]
            BY <3>1, Zenon DEF Engaged, IsLab
      <4>2. dc \in LabHosts
            BY <1>0, ObjectsAssumption DEF IsLab
      <4> DEFINE D == lab.drift \cup [dc : {dc}, covered : BOOLEAN]
      <4>3. \E A : lab' = [lab EXCEPT !.ad = A, !.drift = D, !.left = Artifacts]
            BY <4>1
      <4>4. D \subseteq Drifts
            BY <4>2 DEF Typed, Drifts
      <4> HIDE DEF D
      <4> QED BY <1>0, <4>3, <4>4 DEF IsLab
    <3>2. CASE ~Engaged
      <4>1. lab' = lab \/ \E A : lab' = [lab EXCEPT !.ad = A]
            BY <1>3, <3>2 DEF Happens, MachineReplaced, MachineDuplicated, MachineStopped, AgentDropped, ConfigEdited
      <4> QED BY <1>0, <4>1 DEF IsLab, Typed
    <3> QED BY <3>1, <3>2
  <2> QED BY <2>1, <2>2, <2>3 DEF Typed, IsDisk, Fits, Spoken, LinesOfLab, AddrGiven, LabHosts, Drifts
<1>4. CASE UNCHANGED vars
      BY <1>4 DEF vars, Typed, IsDisk, Fits, Spoken, LinesOfLab, AddrGiven, LabHosts, Drifts
<1> QED BY <1>1, <1>2, <1>3, <1>4 DEF Next, Happens

(* An up that is asked for, or that follows a hint of its own, keeps its    *)
(* word.                                                                    *)
LEMMA NextUpheld ==
    ASSUME Kept, Typed, Upheld, [Next]_vars
    PROVE  Upheld'
<1>0. OnTrack /\ Standing /\ Handing /\ AddrGiven /\ IsDisk(disk)
      BY DEF Kept, Typed
<1>1. CASE Works
  <2>1. Running /\ chain' = chain
        BY <1>0, <1>1, WorksMoves DEF OnTrack, Works
  <2>2. ASSUME NEW c \in chain PROVE c.req.do = "up" /\ IF Running' THEN RunsFor(c)' ELSE WaitsFor(c)'
    <3>1. c.req.do = "up" /\ RunsFor(c)
          BY <2>1, <2>2 DEF Upheld
    <3> QED BY <1>0, <1>1, <3>1, ChainWorks
  <2> QED BY <2>1, <2>2 DEF Upheld
<1>2. CASE RunCommand
  <2>1. PICK req \in Requests[range.name] :
            Run(req) /\ chain' = IF req.do = "up" THEN {[req |-> req, had |-> Units]} ELSE {}
        BY <1>2 DEF RunCommand
  <2>2. CASE req.do = "up"
    <3>1. PICK c : c = [req |-> req, had |-> Units]
          OBVIOUS
    <3>2. c.req = req /\ chain' = {c}
          BY <2>1, <2>2, <3>1
    <3>3. Running' /\ RunsFor(c)'
          BY <1>0, <2>1, <2>2, <3>2, AskedStarts
    <3> QED BY <2>2, <3>2, <3>3 DEF Upheld
  <2>3. CASE req.do # "up"
        BY <2>1, <2>3 DEF Upheld
  <2> QED BY <2>2, <2>3
<1>3. CASE FollowHint
  <2>1. PICK req \in cmd.hint : Run(req) /\ chain' = chain
        BY <1>3 DEF FollowHint
  <2>2. ASSUME NEW c \in chain PROVE c.req.do = "up" /\ Running' /\ RunsFor(c)'
    <3>1. c.req.do = "up" /\ WaitsFor(c)
          BY <2>1, <2>2 DEF Upheld, Run
    <3> QED BY <1>0, <2>1, <3>1, HintStarts
  <2> QED BY <2>1, <2>2 DEF Upheld
<1>4. CASE Killed \/ Happens
      BY <1>4 DEF Killed, Happens, MachineReplaced, MachineDuplicated, MachineStopped, AgentDropped, ConfigEdited,
         Engaged, Outside, Upheld
<1>5. CASE UNCHANGED vars
  <2>1. UNCHANGED <<range, disk, inv, cloud, cmd>> /\ chain' = chain
        BY <1>5 DEF vars
  <2>2. ASSUME NEW c \in chain PROVE c.req.do = "up" /\ IF Running' THEN RunsFor(c)' ELSE WaitsFor(c)'
    <3>1. PICK a : a = c.req
          OBVIOUS
    <3>2. (\A P : Progress(a, P) => Progress(a, P)') /\ (Passed(a) => Passed(a)')
          BY <2>1, StandsStill
    <3>3. a.do = "up" /\ IF Running THEN RunsFor(c) ELSE WaitsFor(c)
          BY <3>1 DEF Upheld
    <3>4. /\ AWS' = AWS /\ Running' = Running /\ Step' = Step /\ \A r, x : Carries(a, r, x)' = Carries(a, r, x)
          /\ \A h : Given(h)' = Given(h) /\ Passworded(h)' = Passworded(h)
          BY <2>1 DEF AWS, Running, Step, Carries, PlaysGood, Given, Passworded, Sole, Called, DiscoverInstances,
             Instance, Name, materializedHostPasswords
    <3>5. RunsFor(c) => RunsFor(c)'
          BY <2>1, <3>1, <3>2, <3>4 DEF RunsFor
    <3>6. WaitsFor(c) => WaitsFor(c)'
          BY <2>1, <3>1, <3>2, <3>4 DEF WaitsFor
    <3> QED BY <3>1, <3>3, <3>4, <3>5, <3>6
  <2> QED BY <2>1, <2>2 DEF Upheld
<1> QED BY <1>1, <1>2, <1>3, <1>4, <1>5 DEF Next, Happens

(* What is there was there, or was asked for.                               *)
LEMMA NextAsked ==
    ASSUME Kept, Upheld, OnlyAsked, [Next]_vars
    PROVE  OnlyAsked'
<1>0. OnTrack /\ Standing
      BY DEF Kept
<1>1. CASE Works
  <2>1. Running /\ range' = range /\ chain' = chain
        BY <1>0, <1>1, WorksMoves DEF OnTrack, Works
  <2>2. ASSUME NEW c \in chain PROVE Units' \subseteq c.had \cup Asked(c.req)
    <3>1. c.req.do = "up" /\ RunsFor(c)
          BY <2>1, <2>2 DEF Upheld
    <3>2. Units' \subseteq Units \cup Asked(c.req)
          BY <1>0, <1>1, <3>1, UpBuilds
    <3> QED BY <3>2 DEF OnlyAsked
  <2>3. \A a : Asked(a)' = Asked(a)
        BY <2>1 DEF Asked, AWS, LabHosts
  <2> QED BY <2>1, <2>2, <2>3 DEF OnlyAsked
<1>2. CASE RunCommand
  <2>1. PICK req \in Requests[range.name] :
            Run(req) /\ chain' = IF req.do = "up" THEN {[req |-> req, had |-> Units]} ELSE {}
        BY <1>2 DEF RunCommand
  <2>2. Units' = Units
        BY <2>1 DEF Run, Units
  <2>3. \A c \in chain' : c.had = Units
        BY <2>1
  <2> QED BY <2>2, <2>3 DEF OnlyAsked
<1>3. CASE FollowHint \/ UNCHANGED vars
  <2>1. range' = range /\ cloud' = cloud /\ chain' = chain
        BY <1>3 DEF FollowHint, Run, vars
  <2>2. Units' = Units /\ \A a : Asked(a)' = Asked(a)
        BY <2>1 DEF Units, Asked, AWS, LabHosts
  <2> QED BY <2>1, <2>2 DEF OnlyAsked
<1>4. CASE Killed \/ Happens
      BY <1>4 DEF Killed, Happens, MachineReplaced, MachineDuplicated, MachineStopped, AgentDropped, ConfigEdited,
         Engaged, Outside, OnlyAsked
<1> QED BY <1>1, <1>2, <1>3, <1>4 DEF Next, Happens

(* When it says so, the lab is up.                                          *)
LEMMA SingleIsSole ==
    ASSUME NEW h, Single(h)
    PROVE  \E i \in DiscoverInstances : Sole(h, i) /\ \A j \in DiscoverInstances : j.ip = i.ip => j = i
<1>1. PICK i \in Called(h) : \A j \in DiscoverInstances : j \in Called(h) \/ j.ip = i.ip => j = i
      BY DEF Single
<1> QED BY <1>1 DEF Sole, Called

LEMMA IdsApart == \A x, y \in LabHosts : \A k, l \in 0 .. MaxGen : Ids[x][k] # Ips[y][l]
BY IdsAssumption, Zenon

LEMMA UpIsUp ==
    ASSUME Kept, Typed, Upheld
    PROVE  UpMeansUp
<1> SUFFICES ASSUME NEW c \in chain, cmd.told = "Lab is up", Plays(c.req),
                    NEW h \in SelectedHosts(c.req) \cap DOMAIN inv.hosts, AWS \/ Single(h)
             PROVE  \E m \in Reached(h) : Lower[m.role] = Lower[h] /\ Asks(c.req) \subseteq m.done
      BY DEF UpMeansUp, Up, Plays
<1>1. OnTrack /\ IsCloud(cloud) /\ DOMAIN inv.hosts \subseteq LabHosts /\ h \in Hosts
      BY LabAssumption DEF Kept, Standing, Typed, LinesOfLab
<1>2. ~Running
      BY <1>1 DEF OnTrack, None
<1>3. Passed(c.req)
      BY <1>2 DEF Upheld, WaitsFor
<1>4. Playable(h)
      BY SingleIsSole DEF Playable
<1>5. Ready(h, Asks(c.req))
      BY <1>3, <1>4 DEF Passed, Upto
<1>6. PICK m \in Reached(h) : (AWS => m.role = Lower[h]) /\ Asks(c.req) \subseteq m.done
      BY <1>5 DEF Ready
<1>7. CASE AWS
      BY <1>1, <1>6, <1>7, LowerAssumption
<1>8. CASE ~AWS
  <2>1. PICK i \in DiscoverInstances : Sole(h, i) /\ \A j \in DiscoverInstances : j.ip = i.ip => j = i
        BY <1>8, SingleIsSole
  <2>2. inv.hosts[h].addr = PlainAddress(i)
        BY <1>5, <1>8, <2>1 DEF Ready, Lined, Given
  <2>3. m \in cloud.machines /\ m.on /\ inv.hosts[h].addr = Ips[m.role][m.gen]
        BY <1>6, <1>8 DEF Reached, ReachedAs
  <2>4. m.role \in LabHosts /\ m.gen \in 0 .. MaxGen
        BY <1>1, <2>3 DEF IsCloud, IsMachine
  <2>5. PICK g \in LabHosts, n \in 0 .. MaxGen : i.id = Ids[g][n] /\ i.ip = Ips[g][n]
        BY <1>1, PlainIsGiven
  <2>6. i.id # Ips[m.role][m.gen]
    <3>1. Ids[g][n] # Ips[m.role][m.gen]
          BY <2>4, IdsApart
    <3> QED BY <2>5, <3>1
  <2>7. i.ip = Ips[m.role][m.gen]
        BY <2>2, <2>3, <2>6 DEF PlainAddress
  <2>8. Instance(m) \in DiscoverInstances /\ Instance(m).ip = Ips[m.role][m.gen] /\ Instance(m).name.role = m.role
        BY <2>3 DEF DiscoverInstances, Instance, Name
  <2>9. Instance(m) = i
        BY <2>1, <2>7, <2>8
  <2>10. Lower[i.name.role] = Lower[h]
        BY <2>1 DEF Sole, Called
  <2> QED BY <1>6, <2>8, <2>9, <2>10
<1> QED BY <1>7, <1>8

LEMMA TypedIsOK ==
    ASSUME Kept, Typed
    PROVE  TypeOK
<1>1. IsCloud(cloud) /\ IsLab(lab)
      BY DEF Kept, Standing
<1>2. /\ \A m \in cloud.machines : m.role \in LabHosts /\ m.gen \in 0 .. MaxGen
      /\ cloud.extras \subseteq Optional /\ lab.ad \subseteq Objects /\ lab.left \subseteq Artifacts
      BY <1>1 DEF IsCloud, IsMachine, IsLab
<1>3. Cardinality(cmd.hint) <= 1
  <2>1. cmd.hint = {} \/ \E r : cmd.hint = {r}
        BY DEF Typed, Spoken
  <2>2. Cardinality(cmd.hint) \in {0, 1}
        BY <2>1, FS_EmptySet, FS_Singleton
  <2> QED BY <2>2
<1>4. Cardinality(chain) <= 1
  <2>1. chain = {} \/ \E c : chain = {c}
        BY DEF Typed
  <2>2. Cardinality(chain) \in {0, 1}
        BY <2>1, FS_EmptySet, FS_Singleton
  <2> QED BY <2>2
<1> QED BY <1>2, <1>3, <1>4 DEF Typed, IsDisk, LinesOfLab, Spoken, Messages, Fits, TypeOK

(* up does what was asked: when it says that the lab is up, at the address  *)
(* of every host that provisioning was asked for runs the host's own        *)
(* machine with every playbook that was asked for, however often steps      *)
(* failed and however often up was resumed by its own hints; and no unit    *)
(* exists that did not before and was not asked for.                        *)
THEOREM UpKeepsItsWord == Spec => []UpDoesAsAsked
<1> DEFINE Inv == Kept /\ Typed /\ Upheld /\ OnlyAsked
<1>1. Init => Inv
  <2> SUFFICES ASSUME Init PROVE Inv
        OBVIOUS
  <2>1. chain = {}
        BY DEF Init
  <2> QED BY <2>1, InitKept, InitTyped DEF Upheld, OnlyAsked
<1>2. Inv /\ [Next]_vars => Inv'
      BY NextKept, NextTyped, NextUpheld, NextAsked
<1>3. Inv => UpDoesAsAsked
      BY TypedIsOK, UpIsUp DEF UpDoesAsAsked
<1> QED BY <1>1, <1>2, <1>3, PTL DEF Spec
=============================================================================
