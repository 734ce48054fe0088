--------------------------- MODULE ProvisionProofs ---------------------------
(***************************************************************************)
(* Proofs about Provision, for any hosts, number of playbooks and retries, *)
(* with or without a tunnel.                                               *)
(*                                                                         *)
(* None of the properties is inductive.  That a run goes through the open  *)
(* tunnel rests on where in the loop there may be no tunnel (TunnelOpen);  *)
(* that a playbook passed over is done rests on what a strategy may rely   *)
(* on when it plays on a part of the hosts only (LeftOut); both need the   *)
(* bounds of the loop (Progress).  That the loop keeps ProvisionContract   *)
(* needs only the bounds, and what is left of an attempt (Left).           *)
(***************************************************************************)
EXTENDS Provision, FiniteSetTheorems, TLAPS

\* The loop is inside a playbook, with attempts left where one is under way.
Progress ==
    /\ pc \in {"delay", "run", "reopen", "reopenStrategy", "prepare", "rerun"}
          => attempt < MaxAttempts
    /\ pc \notin {"unwind", "end"} => play <= Last
    /\ pc = "between" => play < Last

\* The handle is the one open tunnel, and the extra-vars name it; between closing
\* one and opening the next there is none.
TunnelOpen ==
    /\ tunnel <= opened
    /\ open = (IF tunnel = 0 \/ pc = "end" THEN {} ELSE {tunnel})
    /\ tunnel # 0 => runVars = tunnel
    /\ pc \in {"preflight", "connect", "reopen", "reopenStrategy"} => tunnel = 0
    /\ Tunnelled /\ pc \in {"attempt", "delay", "run", "prepare", "rerun", "between"}
          => tunnel # 0
    /\ pc = "rerun" => copied = runVars

\* What the recaps of a playbook's runs say is all there is to know.
Known(p) == p \in gaveUp => limited

\* A strategy that succeeds completes the playbook on the hosts left out so far.
LeftOut ==
    /\ \A p \in Playbooks : p < play /\ Known(p) => completed[p] = Hosts
    /\ pc = "between" /\ Known(play) => completed[play] = Hosts
    /\ pc \in {"reopenStrategy", "prepare", "rerun"} /\ Known(play)
          => Hosts \subseteq completed[play] \cup target

IInv == TypeOK /\ Progress /\ TunnelOpen /\ LeftOut

-----------------------------------------------------------------------------
(* There is a playbook and an attempt at it.                                *)
LEMMA Sizes == MaxAttempts \in Nat \ {0} /\ Last \in Nat \ {0}
BY SizesAssumption DEF SizesAssumption, MaxAttempts

(* Unless Ansible gave up, the hosts a recap does not list are done: the    *)
(* retry of the others completes the playbook.                              *)
LEMMA Narrowed ==
    ASSUME NEW f \in Failures(Hosts), limited \/ f.skipped \in {{}, Hosts}
    PROVE  /\ RetryHosts(Recap(f.failed, f.unreachable)) \subseteq Hosts
           /\ Hosts \subseteq (Hosts \ (f.failed \cup f.unreachable \cup f.skipped))
                              \cup RetryHosts(Recap(f.failed, f.unreachable))
<1>1. /\ f.failed \subseteq Hosts /\ f.unreachable \subseteq Hosts
      /\ f.skipped \cap (f.failed \cup f.unreachable) = {}
      BY DEF Failures
<1>2. CASE f.skipped = {} \/ limited
      BY <1>1, <1>2 DEF RetryHosts, Recap
<1>3. CASE f.skipped = Hosts
  <2>1. Recap(f.failed, f.unreachable) = {}
        BY <1>1, <1>3 DEF Recap
  <2> QED BY <2>1 DEF RetryHosts
<1> QED BY <1>2, <1>3

(* The hosts of a retry are hosts of the run.                               *)
LEMMA RetriedHosts ==
    ASSUME NEW f \in Failures(Hosts)
    PROVE  RetryHosts(Recap(f.failed, f.unreachable)) \in SUBSET Hosts
BY DEF Failures, RetryHosts, Recap

(* Completing a playbook on some hosts adds to what is completed, and to    *)
(* nothing else.                                                            *)
LEMMA Completed ==
    ASSUME TypeOK, Progress, pc \in {"run", "rerun"},
           NEW hosts \in SUBSET Hosts, Complete(hosts)
    PROVE  /\ play \in Playbooks /\ play \in Nat
           /\ completed' \in [Playbooks -> SUBSET Hosts]
           /\ completed'[play] = completed[play] \cup hosts
           /\ \A p \in Playbooks : p # play => completed'[p] = completed[p]
<1>1. play \in Playbooks /\ play \in Nat
      BY Sizes DEF TypeOK, Progress, Playbooks
<1>2. completed \in [Playbooks -> SUBSET Hosts]
      BY DEF TypeOK
<1>3. completed' = [completed EXCEPT ![play] = completed[play] \cup hosts]
      BY DEF Complete
<1> QED BY <1>1, <1>2, <1>3

(* Opening and closing a tunnel keep the types.                             *)
LEMMA TunnelTypes ==
    ASSUME TypeOK,
           \/ OpenTunnel
           \/ open' = open \ {tunnel} /\ tunnel' = 0 /\ UNCHANGED <<opened, runVars>>
           \/ UNCHANGED <<tunnel, open, opened, runVars>>
    PROVE  tunnel' \in Nat /\ open' \subseteq Nat /\ opened' \in Nat /\ runVars' \in Nat
<1>1. open \subseteq Nat /\ tunnel \in Nat /\ opened \in Nat /\ runVars \in Nat
      BY DEF TypeOK
<1>2. CASE OpenTunnel
  <2>1. opened' \in Nat /\ tunnel' = opened' /\ runVars' = opened'
        BY <1>1, <1>2 DEF OpenTunnel
  <2>2. open' = open \cup {opened'}
        BY <1>2 DEF OpenTunnel
  <2>3. open' \subseteq Nat
        BY <1>1, <2>1, <2>2
  <2> QED BY <2>1, <2>3
<1>3. CASE open' = open \ {tunnel} /\ tunnel' = 0 /\ UNCHANGED <<opened, runVars>>
  <2>1. open \ {tunnel} \subseteq Nat /\ 0 \in Nat
        BY <1>1
  <2> QED BY <1>1, <1>3, <2>1
<1>4. CASE UNCHANGED <<tunnel, open, opened, runVars>>
      BY <1>1, <1>4
<1> QED BY <1>2, <1>3, <1>4

(* The initial states.                                                      *)
LEMMA InitIInv == Init => IInv
<1> SUFFICES ASSUME Init PROVE IInv
    OBVIOUS
<1>1. TypeOK
  <2>1. limited \in BOOLEAN /\ pc \in States /\ cause \in {"none", "transport", "other"}
        /\ play \in 1..(Last + 1) /\ attempt \in 0..MaxAttempts /\ target \subseteq Hosts
        BY Sizes DEF Init, States
  <2>2. /\ tunnel \in Nat /\ open \subseteq Nat /\ opened \in Nat
        /\ runVars \in Nat /\ copied \in Nat
        BY DEF Init
  <2>3. cancelled \in BOOLEAN /\ error \in BOOLEAN
        BY DEF Init
  <2>4. completed \in [Playbooks -> SUBSET Hosts] /\ gaveUp \subseteq Playbooks
        BY DEF Init
  <2> QED BY <2>1, <2>2, <2>3, <2>4 DEF TypeOK
<1>2. Progress
      BY Sizes DEF Init, Progress
<1>3. TunnelOpen
      BY DEF Init, TunnelOpen
<1>4. LeftOut
      BY Sizes DEF Init, LeftOut, Playbooks
<1> QED BY <1>1, <1>2, <1>3, <1>4 DEF IInv

-----------------------------------------------------------------------------
(* Every step keeps the invariant: first the steps that touch neither what  *)
(* is completed nor the playbook, then those of the runs.                   *)
(* The preflight leads to the tunnel or the first attempt.                  *)
LEMMA KeepPreflight == ASSUME IInv, Preflight PROVE IInv'
<1>1. TypeOK'
      BY Sizes DEF IInv, TypeOK, Progress, States, Preflight, Goto, Fail, loop, past,
         socks
<1>2. Progress'
      BY Sizes, <1>1 DEF IInv, TypeOK, Progress, States, Preflight, Goto, Fail, loop,
         past, socks
<1>3. TunnelOpen'
      BY DEF IInv, TypeOK, TunnelOpen, Preflight, Goto, Fail, loop, past, socks
<1>4. LeftOut'
      BY DEF IInv, TypeOK, LeftOut, Known, Playbooks, Preflight, Goto, Fail, loop,
         past, socks
<1> QED BY <1>1, <1>2, <1>3, <1>4 DEF IInv

(* The first tunnel.                                                        *)
LEMMA KeepConnect == ASSUME IInv, Connect PROVE IInv'
<1>1. TypeOK'
  <2>1. /\ tunnel' \in Nat /\ open' \subseteq Nat /\ opened' \in Nat
        /\ runVars' \in Nat /\ copied' \in Nat
        BY TunnelTypes DEF IInv, TypeOK, Connect
  <2>2. pc' \in States
        BY DEF States, Connect, OpenTunnel, Goto, Fail, loop, past
  <2>3. error' \in BOOLEAN
        BY DEF IInv, TypeOK, Connect, OpenTunnel, Goto, Fail, loop, past
  <2> QED BY <2>1, <2>2, <2>3 DEF IInv, TypeOK, Connect, loop, past
<1>2. Progress'
      BY Sizes, <1>1 DEF IInv, TypeOK, Progress, States, Connect, OpenTunnel, Goto,
         Fail, loop, past
<1>3. TunnelOpen'
      BY DEF IInv, TypeOK, TunnelOpen, Connect, OpenTunnel, Goto, Fail, loop, past
<1>4. LeftOut'
      BY DEF IInv, TypeOK, LeftOut, Known, Playbooks, Connect, OpenTunnel, Goto, Fail,
         loop, past
<1> QED BY <1>1, <1>2, <1>3, <1>4 DEF IInv

(* The tunnel that replaces another.                                        *)
LEMMA KeepReopen == ASSUME IInv, Reopen PROVE IInv'
<1>1. TypeOK'
  <2>1. /\ tunnel' \in Nat /\ open' \subseteq Nat /\ opened' \in Nat
        /\ runVars' \in Nat /\ copied' \in Nat
        BY TunnelTypes DEF IInv, TypeOK, Reopen
  <2>2. pc' \in States
        BY DEF States, Reopen, OpenTunnel, Goto, Fail, loop, past
  <2>3. error' \in BOOLEAN
        BY DEF IInv, TypeOK, Reopen, OpenTunnel, Goto, Fail, loop, past
  <2> QED BY <2>1, <2>2, <2>3 DEF IInv, TypeOK, Reopen, loop, past
<1>2. Progress'
      BY Sizes, <1>1 DEF IInv, TypeOK, Progress, States, Reopen, OpenTunnel, Goto,
         Fail, loop, past
<1>3. TunnelOpen'
      BY DEF IInv, TypeOK, TunnelOpen, Reopen, OpenTunnel, Goto, Fail, loop, past
<1>4. LeftOut'
      BY DEF IInv, TypeOK, LeftOut, Known, Playbooks, Reopen, OpenTunnel, Goto, Fail,
         loop, past
<1> QED BY <1>1, <1>2, <1>3, <1>4 DEF IInv

(* The loop starts an attempt or gives up.                                  *)
LEMMA KeepAttempt == ASSUME IInv, Attempt PROVE IInv'
<1>1. TypeOK'
      BY Sizes DEF IInv, TypeOK, Progress, States, Attempt, Exhausted, Goto, Fail,
         loop, past, socks
<1>2. Progress'
      BY Sizes, <1>1 DEF IInv, TypeOK, Progress, States, Attempt, Exhausted, Goto,
         Fail, loop, past, socks
<1>3. TunnelOpen'
      BY DEF IInv, TypeOK, TunnelOpen, Attempt, Exhausted, Goto, Fail, loop, past, socks
<1>4. LeftOut'
      BY DEF IInv, TypeOK, LeftOut, Known, Playbooks, Attempt, Exhausted, Goto, Fail,
         loop, past, socks
<1> QED BY <1>1, <1>2, <1>3, <1>4 DEF IInv

(* The wait before an attempt, and the refresh of the transport.            *)
LEMMA KeepDelay == ASSUME IInv, Delay PROVE IInv'
<1>1. TypeOK'
  <2>1. /\ tunnel' \in Nat /\ open' \subseteq Nat /\ opened' \in Nat
        /\ runVars' \in Nat /\ copied' \in Nat
        BY TunnelTypes DEF IInv, TypeOK, Delay, Refresh
  <2>2. pc' \in States
        BY DEF States, Delay, Refresh, Goto, Fail, loop, past
  <2>3. error' \in BOOLEAN
        BY DEF IInv, TypeOK, Delay, Refresh, Goto, Fail, loop, past
  <2> QED BY <2>1, <2>2, <2>3 DEF IInv, TypeOK, Delay, loop, past
<1>2. Progress'
      BY Sizes, <1>1 DEF IInv, TypeOK, Progress, States, Delay, Refresh, Goto, Fail,
         loop, past
<1>3. TunnelOpen'
      BY DEF IInv, TypeOK, TunnelOpen, Delay, Refresh, Goto, Fail, loop, past
<1>4. LeftOut'
      BY DEF IInv, TypeOK, LeftOut, Known, Playbooks, Delay, Refresh, Goto, Fail,
         loop, past
<1> QED BY <1>1, <1>2, <1>3, <1>4 DEF IInv

(* An attempt that timed out counts.                                        *)
LEMMA KeepRunTimesOut == ASSUME IInv, RunTimesOut PROVE IInv'
<1>1. TypeOK'
      BY Sizes DEF IInv, TypeOK, Progress, States, RunTimesOut, NextAttempt, Goto,
         past, socks
<1>2. Progress'
      BY Sizes, <1>1 DEF IInv, TypeOK, Progress, States, RunTimesOut, NextAttempt,
         Goto, past, socks
<1>3. TunnelOpen'
      BY DEF IInv, TypeOK, TunnelOpen, RunTimesOut, NextAttempt, Goto, past, socks
<1>4. LeftOut'
      BY DEF IInv, TypeOK, LeftOut, Known, Playbooks, RunTimesOut, NextAttempt, Goto,
         past, socks
<1> QED BY <1>1, <1>2, <1>3, <1>4 DEF IInv

(* An error that is not retried.                                            *)
LEMMA KeepRunFindsNoHosts == ASSUME IInv, RunFindsNoHosts PROVE IInv'
<1>1. TypeOK'
      BY Sizes DEF IInv, TypeOK, Progress, States, RunFindsNoHosts, Fail, loop, past,
         socks
<1>2. Progress'
      BY Sizes, <1>1 DEF IInv, TypeOK, Progress, States, RunFindsNoHosts, Fail, loop,
         past, socks
<1>3. TunnelOpen'
      BY DEF IInv, TypeOK, TunnelOpen, RunFindsNoHosts, Fail, loop, past, socks
<1>4. LeftOut'
      BY DEF IInv, TypeOK, LeftOut, Known, Playbooks, RunFindsNoHosts, Fail, loop,
         past, socks
<1> QED BY <1>1, <1>2, <1>3, <1>4 DEF IInv

(* The strategy copies the extra-vars of the tunnel that is open.           *)
LEMMA KeepPrepare == ASSUME IInv, Prepare PROVE IInv'
<1>1. TypeOK'
      BY Sizes DEF IInv, TypeOK, Progress, States, Prepare, Goto, loop, past
<1>2. Progress'
      BY Sizes, <1>1 DEF IInv, TypeOK, Progress, States, Prepare, Goto, loop, past
<1>3. TunnelOpen'
      BY DEF IInv, TypeOK, TunnelOpen, Prepare, Goto, loop, past
<1>4. LeftOut'
      BY DEF IInv, TypeOK, LeftOut, Known, Playbooks, Prepare, Goto, loop, past
<1> QED BY <1>1, <1>2, <1>3, <1>4 DEF IInv

(* The deferred call closes the tunnel.                                     *)
LEMMA KeepUnwind == ASSUME IInv, Unwind PROVE IInv'
<1>1. TypeOK'
      BY Sizes DEF IInv, TypeOK, Progress, States, Unwind, Deferred, Goto, loop, past
<1>2. Progress'
      BY Sizes, <1>1 DEF IInv, TypeOK, Progress, States, Unwind, Deferred, Goto, loop,
         past
<1>3. TunnelOpen'
      BY DEF IInv, TypeOK, TunnelOpen, Unwind, Deferred, Goto, loop, past
<1>4. LeftOut'
      BY DEF IInv, TypeOK, LeftOut, Known, Playbooks, Unwind, Deferred, Goto, loop, past
<1> QED BY <1>1, <1>2, <1>3, <1>4 DEF IInv

(* A cancelled context changes nothing else.                                *)
LEMMA KeepCancel == ASSUME IInv, Cancel PROVE IInv'
<1>1. TypeOK'
      BY Sizes DEF IInv, TypeOK, Progress, States, Cancel, loop, past, socks
<1>2. Progress'
      BY Sizes, <1>1 DEF IInv, TypeOK, Progress, States, Cancel, loop, past, socks
<1>3. TunnelOpen'
      BY DEF IInv, TypeOK, TunnelOpen, Cancel, loop, past, socks
<1>4. LeftOut'
      BY DEF IInv, TypeOK, LeftOut, Known, Playbooks, Cancel, loop, past, socks
<1> QED BY <1>1, <1>2, <1>3, <1>4 DEF IInv


(* The next playbook starts when this one is completed everywhere.          *)
LEMMA KeepBetween == ASSUME IInv, Between PROVE IInv'
<1>1. TypeOK'
      BY Sizes DEF IInv, TypeOK, Progress, States, Between, Goto, socks, past
<1>2. Progress'
      BY Sizes, <1>1 DEF IInv, TypeOK, Progress, Between, Goto, socks, past
<1>3. TunnelOpen'
      BY DEF IInv, TypeOK, TunnelOpen, Between, Goto, socks, past
<1>4. LeftOut'
  <2>1. /\ play \in Nat /\ play' = play + 1 /\ pc' = "attempt" /\ pc = "between"
        /\ UNCHANGED <<limited, completed, gaveUp>>
        BY Sizes DEF IInv, TypeOK, Between, Goto, past
  <2>2. ASSUME NEW p \in Playbooks, p < play', Known(p) PROVE completed[p] = Hosts
    <3>1. CASE p < play
          BY <2>2, <3>1 DEF IInv, LeftOut
    <3>2. CASE p = play
          BY <2>1, <2>2, <3>2 DEF IInv, LeftOut
    <3> QED BY <2>1, <2>2, <3>1, <3>2, Sizes DEF Playbooks
  <2> QED BY <2>1, <2>2 DEF LeftOut, Known
<1> QED BY <1>1, <1>2, <1>3, <1>4 DEF IInv

(* A run or a strategy's run that succeeds.                                 *)
LEMMA KeepSuccess ==
    ASSUME IInv, NEW hosts \in SUBSET Hosts, pc \in {"run", "rerun"},
           Known(play) => Hosts \subseteq completed[play] \cup hosts,
           Complete(hosts), NextPlaybook,
           UNCHANGED <<limited, target, socks, cancelled, gaveUp>>
    PROVE  IInv'
<1>1. /\ play \in Playbooks /\ play \in Nat
      /\ completed' \in [Playbooks -> SUBSET Hosts]
      /\ completed'[play] = completed[play] \cup hosts
      /\ \A p \in Playbooks : p # play => completed'[p] = completed[p]
      BY Completed DEF IInv
<1>2. /\ \/ pc' = "between" /\ play < Last /\ play' = play
         \/ pc' = "unwind" /\ play' = play + 1
      /\ UNCHANGED <<attempt, cause, error>>
      BY DEF NextPlaybook, Goto
<1>3. TypeOK'
      BY <1>1, <1>2, Sizes DEF IInv, TypeOK, Progress, States, Playbooks, socks
<1>4. Progress'
      BY <1>1, <1>2, <1>3, Sizes DEF IInv, TypeOK, Progress, socks
<1>5. TunnelOpen'
      BY <1>2 DEF IInv, TunnelOpen, socks
<1>6. Known(play) => completed'[play] = Hosts
      BY <1>1
<1>7. ASSUME NEW p \in Playbooks, p < play, Known(p) PROVE completed'[p] = Hosts
      BY <1>1, <1>7 DEF IInv, LeftOut, Playbooks
<1>8. LeftOut'
  <2>1. ASSUME NEW p \in Playbooks, p < play', Known(p) PROVE completed'[p] = Hosts
    <3>1. CASE p < play
          BY <1>7, <3>1, <2>1
    <3>2. CASE p = play
          BY <1>6, <3>2, <2>1
    <3>3. p <= play
          BY <1>1, <1>2, <2>1, Sizes DEF Playbooks
    <3> QED BY <1>1, <3>1, <3>2, <3>3, Sizes DEF Playbooks
  <2>2. pc' = "between" /\ Known(play) => completed'[play'] = Hosts
        BY <1>2, <1>6
  <2>3. pc' \notin {"reopenStrategy", "prepare", "rerun"} /\ UNCHANGED <<limited, gaveUp>>
        BY <1>2
  <2>4. pc' = "between" => play' = play
        BY <1>2
  <2> QED BY <2>1, <2>2, <2>3, <2>4 DEF LeftOut, Known
<1> QED BY <1>3, <1>4, <1>5, <1>8 DEF IInv

(* A run that fails, with its classification and the transport's refresh.   *)
LEMMA KeepRunFails == ASSUME IInv, RunFails PROVE IInv'
<1>1. PICK f \in Failures(Hosts), type \in {"transport", "other"} :
         /\ Complete(Hosts \ (f.failed \cup f.unreachable \cup f.skipped))
         /\ target' = RetryHosts(Recap(f.failed, f.unreachable))
         /\ gaveUp' = IF f.skipped \in {{}, Hosts} THEN gaveUp ELSE gaveUp \cup {play}
         /\ \/ /\ MaxRetries = 0
               /\ NextAttempt
               /\ UNCHANGED <<tunnel, open, opened, runVars>>
            \/ /\ MaxRetries > 0
               /\ IF Tunnelled /\ type = "transport"
                  THEN Refresh("reopenStrategy")
                  ELSE /\ Goto("prepare")
                       /\ UNCHANGED <<tunnel, open, opened, runVars>>
               /\ UNCHANGED attempt
      BY DEF RunFails
<1>2. pc = "run" /\ UNCHANGED <<limited, play, cause, copied, cancelled>>
      BY DEF RunFails
<1> DEFINE done == Hosts \ (f.failed \cup f.unreachable \cup f.skipped)
<1>3. /\ play \in Playbooks /\ play \in Nat
      /\ completed' \in [Playbooks -> SUBSET Hosts]
      /\ completed'[play] = completed[play] \cup done
      /\ \A p \in Playbooks : p # play => completed'[p] = completed[p]
      BY <1>1, <1>2, Completed DEF IInv
<1>4. target' \in SUBSET Hosts /\ gaveUp' \subseteq Playbooks
      BY <1>1, <1>3, RetriedHosts DEF IInv, TypeOK
<1>5. /\ \/ pc' = "attempt" /\ attempt' = attempt + 1
         \/ pc' \in {"prepare", "reopenStrategy"} /\ attempt' = attempt
      /\ error' = error
      BY <1>1 DEF NextAttempt, Refresh, Goto
<1>6. \/ UNCHANGED <<tunnel, open, opened, runVars>> /\ pc' \in {"attempt", "prepare"}
      \/ open' = open \ {tunnel} /\ tunnel' = 0 /\ UNCHANGED <<opened, runVars>>
            /\ pc' = "reopenStrategy"
      BY <1>1 DEF NextAttempt, Refresh, Goto
<1>7. TypeOK'
  <2>1. limited' \in BOOLEAN /\ cancelled' \in BOOLEAN /\ error' \in BOOLEAN
        BY <1>2, <1>5 DEF IInv, TypeOK
  <2>2. attempt' \in 0..MaxAttempts
        BY <1>2, <1>5, Sizes DEF IInv, TypeOK, Progress
  <2>3. tunnel' \in Nat /\ open' \subseteq Nat /\ opened' \in Nat /\ runVars' \in Nat
        BY <1>6, TunnelTypes DEF IInv
  <2>4. pc' \in States
        BY <1>5 DEF States
  <2> QED BY <1>2, <1>3, <1>4, <2>1, <2>2, <2>3, <2>4 DEF IInv, TypeOK
<1>8. Progress'
      BY <1>2, <1>5, <1>7, Sizes DEF IInv, TypeOK, Progress
<1>9. TunnelOpen'
      BY <1>2, <1>6 DEF IInv, TypeOK, TunnelOpen
<1>10. LeftOut'
  <2>1. ASSUME NEW p \in Playbooks, p < play, Known(p)' PROVE completed'[p] = Hosts
    <3>1. Known(p) /\ p # play
          BY <1>1, <1>2, <1>3, <2>1 DEF Known, Playbooks
    <3> QED BY <1>3, <2>1, <3>1 DEF IInv, LeftOut
  <2>2. ASSUME Known(play)' PROVE Hosts \subseteq done \cup target'
    <3>1. limited \/ f.skipped \in {{}, Hosts}
          BY <1>1, <1>2, <2>2 DEF Known
    <3> QED BY <1>1, <3>1, Narrowed
  <2> QED BY <1>2, <1>3, <1>5, <2>1, <2>2 DEF LeftOut, Known
<1> QED BY <1>7, <1>8, <1>9, <1>10 DEF IInv

(* A strategy's run that fails completes some hosts and counts.             *)
LEMMA KeepRerunFails == ASSUME IInv, RerunFails PROVE IInv'
<1>1. PICK hosts \in SUBSET Hosts : Complete(hosts)
  <2>1. PICK f \in Failures(target) :
              Complete(target \ (f.failed \cup f.unreachable \cup f.skipped))
        BY DEF RerunFails
  <2> QED BY <2>1 DEF IInv, TypeOK
<1>2. /\ pc = "rerun" /\ pc' = "attempt" /\ attempt' = attempt + 1
      /\ cause' \in {"transport", "other"}
      /\ UNCHANGED <<limited, play, target, socks, cancelled, gaveUp, error>>
      BY DEF RerunFails, NextAttempt, Goto
<1>3. /\ play \in Playbooks /\ play \in Nat
      /\ completed' \in [Playbooks -> SUBSET Hosts]
      /\ \A p \in Playbooks : p # play => completed'[p] = completed[p]
      BY <1>1, <1>2, Completed DEF IInv
<1>4. TypeOK'
      BY <1>2, <1>3, Sizes DEF IInv, TypeOK, Progress, States, socks
<1>5. Progress'
      BY <1>2, <1>4, Sizes DEF IInv, TypeOK, Progress
<1>6. TunnelOpen'
      BY <1>2 DEF IInv, TunnelOpen, socks
<1>7. LeftOut'
      BY <1>2, <1>3 DEF IInv, LeftOut, Known, Playbooks
<1> QED BY <1>4, <1>5, <1>6, <1>7 DEF IInv

-----------------------------------------------------------------------------
(* The invariant, one step per action.                                      *)
LEMMA NextIInv == IInv /\ [Next]_vars => IInv'
<1> SUFFICES ASSUME IInv, [Next]_vars PROVE IInv'
    OBVIOUS
<1>1. CASE Preflight
      BY <1>1, KeepPreflight
<1>2. CASE Connect
      BY <1>2, KeepConnect
<1>3. CASE Reopen
      BY <1>3, KeepReopen
<1>4. CASE Attempt
      BY <1>4, KeepAttempt
<1>5. CASE Delay
      BY <1>5, KeepDelay
<1>6. CASE RunTimesOut
      BY <1>6, KeepRunTimesOut
<1>7. CASE RunFindsNoHosts
      BY <1>7, KeepRunFindsNoHosts
<1>8. CASE RunFails
      BY <1>8, KeepRunFails
<1>9. CASE Prepare
      BY <1>9, KeepPrepare
<1>10. CASE RerunFails
      BY <1>10, KeepRerunFails
<1>11. CASE Between
      BY <1>11, KeepBetween
<1>12. CASE Unwind
      BY <1>12, KeepUnwind
<1>13. CASE Cancel
      BY <1>13, KeepCancel
<1>14. CASE RunSucceeds
  <2>1. Hosts \in SUBSET Hosts /\ Hosts \subseteq completed[play] \cup Hosts
        OBVIOUS
  <2> QED BY <1>14, <2>1, KeepSuccess DEF RunSucceeds
<1>15. CASE RerunSucceeds
  <2>1. pc = "rerun" /\ Complete(target) /\ NextPlaybook
        /\ UNCHANGED <<limited, target, socks, cancelled, gaveUp>>
        BY <1>15 DEF RerunSucceeds
  <2>2. target \in SUBSET Hosts /\ (Known(play) => Hosts \subseteq completed[play] \cup target)
        BY <2>1 DEF IInv, TypeOK, LeftOut
  <2> QED BY <2>1, <2>2, KeepSuccess
<1>16. CASE UNCHANGED vars
  <2>1. TypeOK'
        BY <1>16 DEF IInv, TypeOK, vars
  <2>2. Progress' /\ TunnelOpen'
        BY <1>16 DEF IInv, Progress, TunnelOpen, vars
  <2>3. LeftOut'
        BY <1>16 DEF IInv, LeftOut, Known, vars
  <2> QED BY <2>1, <2>2, <2>3 DEF IInv
<1> QED BY <1>1, <1>2, <1>3, <1>4, <1>5, <1>6, <1>7, <1>8, <1>9, <1>10, <1>11, <1>12,
           <1>13, <1>14, <1>15, <1>16 DEF Next, Step, Ended

(* IInv holds in every reachable state.                                     *)
LEMMA Invariance == Spec => []IInv
<1>1. Init => IInv
      BY InitIInv
<1>2. IInv /\ [Next]_vars => IInv'
      BY NextIInv
<1> QED BY <1>1, <1>2, PTL DEF Spec

-----------------------------------------------------------------------------
(* Every variable has its type; the attempts stay within their bound.       *)
THEOREM TypesHold == Spec => []TypeOK
<1>1. IInv => TypeOK
      BY DEF IInv
<1> QED BY <1>1, Invariance, PTL

(* Every run of a playbook goes through the tunnel that is open, although   *)
(* refreshSOCKSTunnel replaces it under options made for an older one.      *)
THEOREM ThroughOpenTunnel == Spec => []RunsThroughTunnel
<1>1. IInv => RunsThroughTunnel
      BY DEF IInv, TypeOK, TunnelOpen, RunsThroughTunnel
<1> QED BY <1>1, Invariance, PTL

(* At most one tunnel is open, and none when the command has ended.         *)
THEOREM TunnelClosed == Spec => []NoTunnelLeft
<1>1. IInv => NoTunnelLeft
  <2> SUFFICES ASSUME IInv PROVE NoTunnelLeft
      OBVIOUS
  <2>1. (open = {} \/ open = {tunnel}) /\ (pc = "end" => open = {})
        BY DEF IInv, TunnelOpen
  <2>2. Cardinality({}) = 0 /\ Cardinality({tunnel}) = 1
        BY FS_EmptySet, FS_Singleton
  <2>3. Cardinality(open) <= 1
        BY <2>1, <2>2
  <2> QED BY <2>1, <2>3 DEF NoTunnelLeft
<1> QED BY <1>1, Invariance, PTL

(* The tunnel from end to end, with the bounds of the loop: refreshing it   *)
(* in the middle of a playbook neither misleads a run nor leaks a tunnel.   *)
THEOREM TunnelIsSound == Spec => []TunnelSound
<1>1. TypeOK /\ RunsThroughTunnel /\ NoTunnelLeft => TunnelSound
      BY DEF TunnelSound
<1> QED BY <1>1, TypesHold, ThroughOpenTunnel, TunnelClosed, PTL

(* A playbook the loop has passed is completed on all hosts, unless Ansible *)
(* gave it up in a run without --limit.                                     *)
THEOREM DoneEverywhere == Spec => []CompletedUnlessGivenUp
<1>1. IInv => CompletedUnlessGivenUp
      BY DEF IInv, LeftOut, Known, CompletedUnlessGivenUp
<1> QED BY <1>1, Invariance, PTL

-----------------------------------------------------------------------------
(* Refinement.  The contract counts runs, the loop attempts: what is left   *)
(* of a playbook is twice the attempts that are left, or once if retries    *)
(* are disabled, less the runs of the one under way.  It needs to know      *)
(* besides that only a loop that retries is at a strategy, and that the     *)
(* loop has no error yet.                                                   *)
AtWork ==
    /\ pc \notin {"unwind", "end"} => ~error
    /\ pc \in {"reopenStrategy", "prepare", "rerun"} => MaxRetries > 0

(* Runs by attempts.                                                        *)
LEMMA Runs ==
    /\ MaxRetries \in Nat /\ MaxAttempts \in Nat \ {0}
    /\ MaxRetries = 0 => MaxAttempts = 1 /\ \A n \in Nat : RunsOf(n) = n
    /\ MaxRetries > 0 => \A n \in Nat : RunsOf(n) = 2 * n
BY Sizes, SizesAssumption DEF SizesAssumption, RunsOf, MaxAttempts

(* The loop is at a strategy only if it retries, and has failed only when   *)
(* it is over.                                                              *)
LEMMA StaysAtWork == IInv /\ AtWork /\ [Next]_vars => AtWork'
<1> SUFFICES ASSUME IInv, AtWork, [Next]_vars PROVE AtWork'
    OBVIOUS
<1>1. CASE Preflight
      BY <1>1 DEF AtWork, Preflight, Goto, Fail
<1>2. CASE Connect \/ Reopen
      BY <1>2 DEF AtWork, Connect, Reopen, OpenTunnel, Goto, Fail
<1>3. CASE Attempt \/ Delay
      BY <1>3 DEF AtWork, Attempt, Delay, Refresh, Goto, Fail
<1>4. CASE RunSucceeds \/ RerunSucceeds
      BY <1>4 DEF AtWork, RunSucceeds, RerunSucceeds, NextPlaybook, Goto
<1>5. CASE RunTimesOut \/ RunFindsNoHosts \/ RerunFails
      BY <1>5 DEF AtWork, RunTimesOut, RunFindsNoHosts, RerunFails, NextAttempt, Goto, Fail
<1>6. CASE RunFails
      BY <1>6 DEF AtWork, RunFails, NextAttempt, Refresh, Goto
<1>7. CASE Prepare \/ Between \/ Unwind
      BY <1>7 DEF AtWork, Prepare, Between, Unwind, Goto
<1>8. CASE Cancel \/ UNCHANGED vars
      BY <1>8 DEF AtWork, Cancel, vars
<1> QED BY <1>1, <1>2, <1>3, <1>4, <1>5, <1>6, <1>7, <1>8 DEF Next, Step, Ended

(* What the contract counts are numbers, and inside an attempt one is left. *)
Counted ==
    /\ Left \in Nat /\ attempt \in Nat /\ play \in Nat /\ MaxAttempts - attempt \in Nat
    /\ pc \in {"delay", "run", "reopen", "reopenStrategy", "prepare", "rerun"}
          => MaxAttempts - attempt \in Nat \ {0}

LEMMA Seen == IInv /\ AtWork => Counted
<1> SUFFICES ASSUME IInv, AtWork PROVE Counted
    OBVIOUS
<1>1. attempt \in Nat /\ MaxAttempts - attempt \in Nat /\ play \in Nat
      BY Sizes DEF IInv, TypeOK
<1>2. pc \in {"delay", "run", "reopen", "reopenStrategy", "prepare", "rerun"}
         => MaxAttempts - attempt \in Nat \ {0}
      BY <1>1, Sizes DEF IInv, Progress
<1>3. Left \in Nat
  <2>1. CASE MaxRetries = 0
        BY <1>1, <1>2, <2>1, Runs DEF AtWork, Left
  <2>2. CASE MaxRetries > 0
    <3>1. /\ RunsOf(1) = 2 /\ RunsOf(MaxAttempts) = 2 * MaxAttempts
          /\ RunsOf(MaxAttempts - attempt) = 2 * (MaxAttempts - attempt)
          BY <1>1, <2>2, Runs
    <3> QED BY <1>1, <1>2, <3>1, Runs DEF AtWork, Left
  <2> QED BY <2>1, <2>2, Runs
<1> QED BY <1>1, <1>2, <1>3 DEF Counted

(* Every step of the loop is a step of the contract or is not seen.         *)
LEMMA ContractStep ==
    ASSUME IInv, AtWork, Counted, [Next]_vars, Counted'
    PROVE  [Contract!Next]_(Contract!vars)
<1> DEFINE seen == <<Stage, Due, Left, cancelled>>
           n == MaxAttempts - attempt
<1> SUFFICES Contract!Next \/ UNCHANGED seen
    BY DEF Contract!vars
<1>1. Left \in Nat /\ Left' \in Nat /\ play \in Nat /\ n \in Nat /\ attempt \in Nat
      BY DEF Counted
<1>2. /\ RunsOf(1) \in {1, 2} /\ RunsOf(MaxAttempts) \in Nat /\ RunsOf(n) \in Nat
      /\ MaxRetries > 0 => RunsOf(1) = 2
      /\ MaxRetries = 0 => RunsOf(1) = 1
  <2>1. CASE MaxRetries = 0
        BY <1>1, <2>1, Runs
  <2>2. CASE MaxRetries > 0
        BY <1>1, <2>2, Runs
  <2> QED BY <2>1, <2>2, Runs
<1>3. ASSUME n \in Nat \ {0}
      PROVE  RunsOf(n - 1) = RunsOf(n) - RunsOf(1) /\ RunsOf(n) >= RunsOf(1)
  <2>1. n - 1 \in Nat /\ 1 \in Nat
        BY <1>3
  <2>2. CASE MaxRetries = 0
        BY <1>1, <2>1, <2>2, Runs
  <2>3. CASE MaxRetries > 0
    <3>1. RunsOf(n) = 2 * n /\ RunsOf(n - 1) = 2 * (n - 1) /\ RunsOf(1) = 2
          BY <1>1, <2>1, <2>3, Runs
    <3> QED BY <1>3, <3>1
  <2> QED BY <2>2, <2>3, Runs
<1>4. ASSUME attempt' = attempt + 1 PROVE MaxAttempts - attempt' = n - 1
      BY <1>1, <1>4, Sizes
<1>5. CASE Preflight
      BY <1>5 DEF Preflight, Goto, Fail, loop, Contract!Next, Contract!GiveUp,
         Stage, Due, Left
<1>6. CASE Connect
      BY <1>6 DEF Connect, OpenTunnel, Goto, Fail, loop, Contract!Next, Contract!GiveUp,
         Stage, Due, Left
<1>7. CASE Reopen
  <2>1. CASE pc' = "unwind"
        BY <1>7, <2>1 DEF Reopen, OpenTunnel, Goto, Fail, loop, Contract!Next,
           Contract!GiveUp, Stage, Due, Left
  <2>2. CASE pc = "reopenStrategy" /\ pc' = "prepare"
        BY <1>7, <2>2 DEF Reopen, loop, Stage, Due, Left
  <2>3. CASE pc = "reopen" /\ pc' = "run"
    <3>1. Left = (IF cancelled THEN RunsOf(1) ELSE RunsOf(n)) /\ Left' = Left - 1 /\ Left > 0
          BY <1>2, <1>3, <1>7, <2>3 DEF Reopen, loop, Left, Counted
    <3> QED BY <1>7, <2>3, <3>1 DEF Reopen, loop, Contract!Next, Contract!Begin, Stage, Due
  <2> QED BY <1>7, <2>1, <2>2, <2>3 DEF Reopen, Goto, Fail
<1>8. CASE Attempt
  <2>1. CASE Exhausted \/ cancelled
        BY <1>8, <2>1 DEF Attempt, Fail, loop, Contract!Next, Contract!GiveUp, Stage, Due, Left
  <2>2. CASE ~Exhausted /\ ~cancelled
    <3>1. n \in Nat \ {0} /\ pc = "attempt" /\ UNCHANGED <<play, attempt, cancelled>>
          BY <1>1, <1>8, <2>2, Sizes DEF Attempt, loop, Exhausted
    <3>2. Left = RunsOf(n) /\ Left > 0
          BY <1>2, <1>3, <2>2, <3>1 DEF Left
    <3>3. CASE pc' = "run"
          BY <2>2, <3>1, <3>2, <3>3 DEF Contract!Next, Contract!Begin, Stage, Due, Left
    <3>4. CASE pc' = "delay"
          BY <2>2, <3>1, <3>4 DEF Stage, Due, Left
    <3> QED BY <1>8, <2>2, <3>3, <3>4 DEF Attempt, Goto
  <2> QED BY <2>1, <2>2
<1>9. CASE Delay
  <2>1. CASE pc' = "unwind"
        BY <1>9, <2>1 DEF Delay, Refresh, Goto, Fail, loop, Contract!Next,
           Contract!GiveUp, Stage, Due, Left
  <2>2. CASE pc' = "reopen"
        BY <1>9, <2>2 DEF Delay, loop, Stage, Due, Left
  <2>3. CASE pc' = "run"
    <3>1. Left = (IF cancelled THEN RunsOf(1) ELSE RunsOf(n)) /\ Left' = Left - 1 /\ Left > 0
          BY <1>2, <1>3, <1>9, <2>3 DEF Delay, loop, Left, Counted
    <3> QED BY <1>9, <2>3, <3>1 DEF Delay, loop, Contract!Next, Contract!Begin, Stage, Due
  <2> QED BY <1>9, <2>1, <2>2, <2>3 DEF Delay, Refresh, Goto, Fail
<1>10. ASSUME NextAttempt, pc \in {"run", "rerun"}, UNCHANGED <<play, cancelled>>
       PROVE  Contract!Next
  <2>1. Left' \in 0..Left
    <3>1. n \in Nat \ {0}
          BY <1>10 DEF Counted
    <3>2. attempt' = attempt + 1 /\ pc' = "attempt"
          BY <1>10 DEF NextAttempt, Goto
    <3>3. Left' = IF cancelled THEN 0 ELSE RunsOf(n) - RunsOf(1)
          BY <1>3, <1>4, <1>10, <3>1, <3>2 DEF Left
    <3>4. pc = "rerun" => RunsOf(1) = 2
          BY <1>2 DEF AtWork
    <3>5. ~cancelled => Left >= RunsOf(n) - RunsOf(1)
          BY <1>2, <1>10, <3>4 DEF Left
    <3> QED BY <1>1, <1>2, <3>3, <3>5
  <2> QED BY <1>10, <2>1 DEF NextAttempt, Goto, Contract!Next, Contract!Falter, Stage, Due
<1>11. CASE RunTimesOut
       BY <1>10, <1>11 DEF RunTimesOut
<1>12. CASE RunFindsNoHosts
       BY <1>12 DEF RunFindsNoHosts, Fail, loop, Contract!Next, Contract!GiveUp, Stage, Due, Left
<1>13. CASE RunFails
  <2>1. pc = "run" /\ UNCHANGED <<play, cancelled>>
        BY <1>13 DEF RunFails
  <2>2. \/ NextAttempt
        \/ pc' \in {"prepare", "reopenStrategy"} /\ attempt' = attempt /\ MaxRetries > 0
        BY <1>13 DEF RunFails, Refresh, Goto
  <2>3. CASE pc' \in {"prepare", "reopenStrategy"} /\ attempt' = attempt /\ MaxRetries > 0
    <3>1. Left' = Left
          BY <1>2, <2>1, <2>3 DEF Left
    <3> QED BY <1>1, <2>1, <2>3, <3>1 DEF Contract!Next, Contract!Falter, Stage, Due
  <2> QED BY <1>10, <2>1, <2>2, <2>3
<1>14. CASE Prepare
  <2>1. pc = "prepare" /\ pc' = "rerun" /\ UNCHANGED <<play, attempt, cancelled>>
        BY <1>14 DEF Prepare, Goto, loop
  <2>2. Left > 0 /\ Left' = Left - 1
    <3>1. n \in Nat \ {0} /\ RunsOf(1) = 2 /\ RunsOf(n) >= 2
          BY <1>2, <1>3, <2>1 DEF Counted, AtWork
    <3> QED BY <1>2, <2>1, <3>1 DEF Left
  <2> QED BY <2>1, <2>2 DEF Contract!Next, Contract!Begin, Stage, Due
<1>15. CASE RerunFails
       BY <1>10, <1>15 DEF RerunFails
<1>16. CASE RunSucceeds \/ RerunSucceeds
  <2>1. pc \in {"run", "rerun"} /\ NextPlaybook /\ ~error /\ UNCHANGED cancelled
        BY <1>16 DEF RunSucceeds, RerunSucceeds, AtWork
  <2>2. CASE play < Last
        BY <1>1, <2>1, <2>2, Sizes DEF NextPlaybook, Goto, Contract!Next, Contract!Pass,
           Stage, Due, Left
  <2>3. CASE play = Last
        BY <1>1, <2>1, <2>3, Sizes DEF NextPlaybook, Goto, Contract!Next, Contract!Pass,
           Stage, Due, Left
  <2>4. play <= Last
        BY <2>1 DEF IInv, Progress
  <2> QED BY <1>1, <2>2, <2>3, <2>4, Sizes
<1>17. CASE Between
  <2>1. MaxAttempts - attempt' = MaxAttempts
        BY <1>17, Sizes DEF Between
  <2> QED BY <1>17, <2>1 DEF Between, Goto, Stage, Due, Left
<1>18. CASE Unwind
       BY <1>18 DEF Unwind, Goto, loop, Stage, Due, Left
<1>19. CASE Cancel
  <2>1. ~cancelled /\ cancelled' = TRUE /\ UNCHANGED <<pc, play, attempt, error>>
        BY <1>19 DEF Cancel, loop
  <2>2. Left' <= Left /\ Left' <= RunsOf(1)
    <3>1. n \in Nat \ {0} => RunsOf(n) >= RunsOf(1)
          BY <1>3
    <3> QED BY <1>1, <1>2, <2>1, <3>1 DEF Left, Counted, AtWork
  <2>3. Stage' = Stage /\ Due' = Due
        BY <2>1 DEF Stage, Due
  <2>4. Left' \in 0..Left /\ Left' <= RunsOf(1)
        BY <1>1, <2>2
  <2>5. Contract!Interrupt
        BY <2>1, <2>3, <2>4 DEF Contract!Interrupt
  <2> QED BY <2>5 DEF Contract!Next
<1>20. CASE UNCHANGED vars
       BY <1>20 DEF vars, Stage, Due, Left
<1> QED BY <1>5, <1>6, <1>7, <1>8, <1>9, <1>11, <1>12, <1>13, <1>14, <1>15, <1>16,
           <1>17, <1>18, <1>19, <1>20 DEF Next, Step, Ended

(* The provisioning loop keeps ProvisionContract, for any playbooks, retries *)
(* and hosts: at most two runs per attempt, in order, each playbook passed   *)
(* over only after a run of it succeeded, and an interrupt leaves at most    *)
(* the two runs of one attempt.                                              *)
THEOREM KeepsContract == Spec => ImplementsContract
<1>1. Init => Contract!Init /\ AtWork
      BY Runs DEF Init, Contract!Init, AtWork, Stage, Due, Left
<1>2. IInv /\ AtWork /\ [Next]_vars => AtWork'
      BY StaysAtWork
<1>3. IInv /\ AtWork => Counted
      BY Seen
<1>4. IInv /\ AtWork /\ Counted /\ [Next]_vars /\ Counted' => [Contract!Next]_(Contract!vars)
      BY ContractStep
<1> QED BY Invariance, <1>1, <1>2, <1>3, <1>4, PTL DEF Spec, ImplementsContract, Contract!Spec
=============================================================================
