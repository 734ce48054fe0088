------------------------------ MODULE Provision ------------------------------
(***************************************************************************)
(* provisionPlaybooks of cmd/provision.go with the retry loop of           *)
(* internal/ansible/retry.go: the playbooks run in order, a failed attempt *)
(* is retried once with a strategy for its error and then from the top,    *)
(* and on a provider that needs it all of them go through a SOCKS tunnel   *)
(* that is opened first, replaced after a transport error, and closed by a *)
(* deferred call at the end.                                               *)
(*                                                                         *)
(* A run of ansible-playbook is external (PlaybookRun is its process): it  *)
(* plays on a set of hosts and ends with the hosts that completed the      *)
(* playbook, those its recap reports failed, and those it never reached.   *)
(* Ansible gives up on a playbook when all hosts of one play have failed   *)
(* ("NO MORE HOSTS LEFT"), so hosts of later plays are reported neither    *)
(* completed nor failed.                                                   *)
(***************************************************************************)
EXTENDS Naturals, FiniteSets

CONSTANTS
    Hosts,          \* the hosts the run is for: those --limit selects, or all
    Last,           \* number of playbooks
    MaxRetries,     \* --max-retries or the configured value; 0 disables retries
    Tunnelled       \* whether the provider needs a SOCKS tunnel

ASSUME SizesAssumption == Last \in Nat \ {0} /\ MaxRetries \in Nat
ASSUME HostsAssumption == Hosts # {} /\ IsFiniteSet(Hosts)
ASSUME TunnelAssumption == Tunnelled \in BOOLEAN

\* resolveRetrySettings: zero retries still means one attempt.
MaxAttempts == IF MaxRetries = 0 THEN 1 ELSE MaxRetries

VARIABLES
    limited,    \* whether --limit was given
    pc,
    play,       \* the playbook, 1..Last; Last + 1 when all are done
    attempt,    \* completed iterations of the retry loop
    cause,      \* retryCause: "none", "transport" or "other"
    target,     \* hosts of the strategy's run (retryLimit)
    tunnel,     \* socksTunnel: the tunnel's number, 0 for nil
    open,       \* tunnels that are open
    opened,     \* tunnels opened so far
    runVars,    \* the tunnel the shared extra-vars name
    copied,     \* the tunnel the strategy's copy of them names
    cancelled,  \* ctx.Done()
    error,      \* whether an error is being returned
    completed,  \* history: hosts that completed each playbook
    gaveUp      \* history: playbooks of which Ansible gave up a run

loop  == <<play, attempt, cause, target>>
past  == <<completed, gaveUp>>
socks == <<tunnel, open, opened, runVars, copied>>
vars  == <<limited, pc, play, attempt, cause, target, tunnel, open, opened, runVars, copied,
           cancelled, error, completed, gaveUp>>

Playbooks == 1..Last

Init ==
    /\ limited \in BOOLEAN
    /\ pc = "preflight"
    /\ play = 1 /\ attempt = 0 /\ cause = "none" /\ target = {}
    /\ tunnel = 0 /\ open = {} /\ opened = 0 /\ runVars = 0 /\ copied = 0
    /\ cancelled = FALSE /\ error = FALSE
    /\ completed = [p \in Playbooks |-> {}] /\ gaveUp = {}

Goto(state) == pc' = state /\ UNCHANGED error
Fail        == pc' = "unwind" /\ error' = TRUE

-----------------------------------------------------------------------------
Cancel ==
    /\ ~cancelled /\ pc # "end"
    /\ cancelled' = TRUE
    /\ UNCHANGED <<limited, pc, loop, socks, error, past>>

Preflight ==
    /\ pc = "preflight"
    /\ Goto(IF Tunnelled THEN "connect" ELSE "attempt") \/ Fail
    /\ UNCHANGED <<limited, loop, socks, cancelled, past>>

\* Mutant: the handle is replaced, the extra-vars keep the first proxy.
OpenTunnelOnly ==
    /\ opened' = opened + 1
    /\ open' = open \cup {opened'}
    /\ tunnel' = opened'
    /\ runVars' = IF runVars = 0 THEN opened' ELSE runVars

\* A new tunnel, and the extra-vars that lead through it; on an error socksTunnel
\* stays nil.  (Extra-vars of the user may override them; none do here.)
OpenTunnel ==
    /\ opened' = opened + 1
    /\ open' = open \cup {opened'}
    /\ tunnel' = opened' /\ runVars' = opened'

Connect ==
    /\ pc = "connect"
    /\ \/ OpenTunnel /\ Goto("attempt")
       \/ Fail /\ UNCHANGED <<tunnel, open, opened, runVars>>
    /\ UNCHANGED <<limited, loop, copied, cancelled, past>>

\* refreshSOCKSTunnel: close first, then start anew.
Refresh(next) ==
    /\ open' = open \ {tunnel}
    /\ tunnel' = 0
    /\ Goto(next)
    /\ UNCHANGED <<opened, runVars>>

Reopen ==
    /\ pc \in {"reopen", "reopenStrategy"}
    /\ \/ OpenTunnel /\ Goto(IF pc = "reopen" THEN "run" ELSE "prepare")
       \/ Fail /\ UNCHANGED <<tunnel, open, opened, runVars>>
    /\ UNCHANGED <<limited, loop, copied, cancelled, past>>

-----------------------------------------------------------------------------
(* RunPlaybookWithRetry. *)

\* Mutant: one iteration too many.

Exhausted == attempt = MaxAttempts

\* Mutant: an interrupt does not keep the loop from another attempt.
AttemptHeedless ==
    /\ pc = "attempt"
    /\ IF Exhausted THEN Fail ELSE Goto(IF attempt = 0 THEN "run" ELSE "delay")
    /\ UNCHANGED <<limited, loop, socks, cancelled, past>>

Attempt ==
    /\ pc = "attempt"
    /\ IF Exhausted \/ cancelled THEN Fail
       ELSE Goto(IF attempt = 0 THEN "run" ELSE "delay")
    /\ UNCHANGED <<limited, loop, socks, cancelled, past>>

\* The wait ends, or the context does; then the transport is refreshed if the
\* last result was a transport error.
Delay ==
    /\ pc = "delay"
    /\ \/ cancelled /\ Fail /\ UNCHANGED <<tunnel, open, opened, runVars>>
       \/ IF Tunnelled /\ cause = "transport"
          THEN Refresh("reopen")
          ELSE Goto("run") /\ UNCHANGED <<tunnel, open, opened, runVars>>
    /\ UNCHANGED <<limited, loop, copied, cancelled, past>>

Complete(hosts) == completed' = [completed EXCEPT ![play] = @ \cup hosts]

\* Mutant: hosts that were unreachable are not read from the recap.
RecapFailedOnly(failed, unreachable) == failed

\* ExtractFailedHosts
Recap(failed, unreachable) == failed \cup unreachable

\* retryLimit: Ansible takes the union of the operator's limit and the failed
\* hosts; without either it plays on every host.
RetryHosts(listed) == IF limited \/ listed = {} THEN Hosts ELSE listed

\* How a run on these hosts may fail: some failed or unreachable, and some never
\* reached; a run that broke off lists nothing.
Failures(hosts) ==
    {f \in [failed : SUBSET hosts, unreachable : SUBSET hosts, skipped : SUBSET hosts] :
        /\ f.failed \cap f.unreachable = {}
        /\ f.skipped \cap (f.failed \cup f.unreachable) = {}
        /\ f.failed \cup f.unreachable # {} \/ f.skipped = hosts}

\* Mutant: the attempt that failed is not counted.
AttemptAgain == Goto("attempt") /\ UNCHANGED attempt

NextAttempt == Goto("attempt") /\ attempt' = attempt + 1

NextPlaybook ==
    IF play < Last
    THEN Goto("between") /\ UNCHANGED <<play, attempt, cause>>
    ELSE Goto("unwind") /\ play' = play + 1 /\ UNCHANGED <<attempt, cause>>

RunSucceeds ==
    /\ pc = "run"
    /\ Complete(Hosts)
    /\ NextPlaybook
    /\ UNCHANGED <<limited, target, socks, cancelled, gaveUp>>

\* Idle timeout: the sessions are cleaned up and the loop goes on.
RunTimesOut ==
    /\ pc = "run"
    /\ cause' = "other" /\ NextAttempt
    /\ UNCHANGED <<limited, play, target, socks, cancelled, past>>

\* No host matches the inventory or the limit: not retried.
RunFindsNoHosts ==
    /\ pc = "run"
    /\ Fail
    /\ UNCHANGED <<limited, loop, socks, cancelled, past>>

\* A classified failure: the strategy refreshes the transport first.
RunFails ==
    /\ pc = "run"
    /\ \E f \in Failures(Hosts), type \in {"transport", "other"} :
          /\ Complete(Hosts \ (f.failed \cup f.unreachable \cup f.skipped))
          /\ target' = RetryHosts(Recap(f.failed, f.unreachable))
          /\ gaveUp' = IF f.skipped \in {{}, Hosts} THEN gaveUp ELSE gaveUp \cup {play}
          /\ \/ /\ MaxRetries = 0
                /\ NextAttempt
                /\ UNCHANGED <<tunnel, open, opened, runVars>>
             \/ /\ MaxRetries > 0
                /\ IF Tunnelled /\ type = "transport"
                   THEN Refresh("reopenStrategy")
                   ELSE /\ Goto("prepare")
                        /\ UNCHANGED <<tunnel, open, opened, runVars>>
                /\ UNCHANGED attempt
    /\ UNCHANGED <<limited, play, cause, copied, cancelled>>

\* The strategy copies the extra-vars (copyVars) and repairs: session clean-up,
\* accounts, reboots and waits.  None of it fails, or looks at the context.
Prepare ==
    /\ pc = "prepare"
    /\ copied' = runVars
    /\ Goto("rerun")
    /\ UNCHANGED <<limited, loop, tunnel, open, opened, runVars, cancelled, past>>

RerunSucceeds ==
    /\ pc = "rerun"
    /\ Complete(target)
    /\ NextPlaybook
    /\ UNCHANGED <<limited, target, socks, cancelled, gaveUp>>

\* Any failure, a timeout included, becomes the cause of the next attempt.
RerunFails ==
    /\ pc = "rerun"
    /\ \E f \in Failures(target), type \in {"transport", "other"} :
          /\ Complete(target \ (f.failed \cup f.unreachable \cup f.skipped))
          /\ cause' = type
    /\ NextAttempt
    /\ UNCHANGED <<limited, play, target, socks, cancelled, gaveUp>>

\* Session clean-up and the wait after a playbook that reboots.
Between ==
    /\ pc = "between"
    /\ Goto("attempt")
    /\ play' = play + 1 /\ attempt' = 0 /\ cause' = "none"
    /\ UNCHANGED <<limited, target, socks, cancelled, past>>

\* Mutant: the deferred call closes the tunnel that was opened first.

\* The deferred function reads socksTunnel when it runs.
Deferred == open' = IF tunnel = 0 THEN open ELSE open \ {tunnel}

Unwind ==
    /\ pc = "unwind"
    /\ Deferred
    /\ Goto("end")
    /\ UNCHANGED <<limited, loop, tunnel, opened, runVars, copied, cancelled, past>>

Ended ==
    /\ pc = "end"
    /\ UNCHANGED vars

Step ==
    \/ Preflight \/ Connect \/ Reopen \/ Attempt \/ Delay
    \/ RunSucceeds \/ RunTimesOut \/ RunFindsNoHosts \/ RunFails
    \/ Prepare \/ RerunSucceeds \/ RerunFails \/ Between \/ Unwind

Next == Step \/ Cancel \/ Ended

Spec     == Init /\ [][Next]_vars
\* Runs end (PlaybookRun), and nothing else of the process waits for anyone.
FairSpec == Spec /\ WF_vars(Step)

-----------------------------------------------------------------------------
States == {"preflight", "connect", "attempt", "delay", "reopen", "reopenStrategy",
           "run", "prepare", "rerun", "between", "unwind", "end"}

(* Every variable has its type and the retry loop stays within its bound. *)
TypeOK ==
    /\ limited \in BOOLEAN /\ pc \in States
    /\ play \in 1..(Last + 1)
    /\ attempt \in 0..MaxAttempts
    /\ cause \in {"none", "transport", "other"}
    /\ target \subseteq Hosts
    /\ tunnel \in Nat /\ open \subseteq Nat /\ opened \in Nat
    /\ runVars \in Nat /\ copied \in Nat
    /\ cancelled \in BOOLEAN /\ error \in BOOLEAN
    /\ completed \in [Playbooks -> SUBSET Hosts] /\ gaveUp \subseteq Playbooks

(* Every run goes through the tunnel that is open at that time, although the *)
(* tunnel is replaced under the options of the loop and of the strategy      *)
(* (refreshSOCKSTunnel: "every RetryOptions copy observes the replacement").  *)
RunsThroughTunnel ==
    Tunnelled =>
        /\ pc = "run" => open = {tunnel} /\ runVars = tunnel
        /\ pc = "rerun" => open = {tunnel} /\ copied = tunnel

(* One tunnel at most is open, and none when the command ends: not after a   *)
(* failed refresh, an interrupt or an exhausted playbook.                    *)
NoTunnelLeft ==
    /\ Cardinality(open) <= 1
    /\ pc = "end" => open = {}

(* The tunnel from end to end: the runs go through the one that is open, and *)
(* it does not outlive the command; and the types.                           *)
TunnelSound == TypeOK /\ RunsThroughTunnel /\ NoTunnelLeft

(* A playbook counts as done only when every host the run is for completed   *)
(* it, whatever mixture of narrowed and full runs that took ("All playbooks  *)
(* completed successfully"), except one that Ansible gave up in a run        *)
(* without --limit.                                                          *)
CompletedUnlessGivenUp ==
    \A p \in Playbooks : p < play /\ (p \in gaveUp => limited) => completed[p] = Hosts

-----------------------------------------------------------------------------
(* The command as its operator sees it, ProvisionContract: a strategy's run *)
(* is one more run of the playbook, and what repairs and refreshes do in    *)
(* between is not seen.                                                     *)
Stage ==
    CASE pc \in {"run", "rerun"}    -> "running"
      [] pc \in {"unwind", "end"} -> IF error THEN "failed" ELSE "done"
      [] OTHER                    -> "idle"

\* A playbook that was passed over is behind.
Due == IF pc = "between" THEN play + 1 ELSE play

\* Every attempt has two runs, its own and its strategy's, or one if retries are disabled.
RunsOf(attempts) == IF MaxRetries = 0 THEN attempts ELSE 2 * attempts

\* Once interrupted, the loop begins no attempt; one whose wait has just ended, and
\* the strategy of one under way, do not look at the context again.
Left ==
    CASE pc \in {"unwind", "end"} -> 0
      [] pc = "run"  -> IF cancelled THEN RunsOf(1) - 1 ELSE RunsOf(MaxAttempts - attempt) - 1
      [] pc \in {"reopenStrategy", "prepare"} ->
           IF cancelled THEN 1 ELSE RunsOf(MaxAttempts - attempt) - 1
      [] pc = "rerun" -> IF cancelled THEN 0 ELSE RunsOf(MaxAttempts - attempt) - 2
      [] pc \in {"delay", "reopen"} ->
           IF cancelled THEN RunsOf(1) ELSE RunsOf(MaxAttempts - attempt)
      [] pc \in {"attempt", "preflight", "connect"} ->
           IF cancelled THEN 0 ELSE RunsOf(MaxAttempts - attempt)
      [] OTHER -> IF cancelled THEN 0 ELSE RunsOf(MaxAttempts)

Contract == INSTANCE ProvisionContract
              WITH MaxRuns <- RunsOf(MaxAttempts), Grace <- RunsOf(1),
                   stage <- Stage, playbook <- Due, left <- Left, interrupted <- cancelled

(* Every behaviour of the loop, with its nested retries, keeps the contract: *)
(* no playbook is run more than twice per attempt, none again after it       *)
(* succeeded, an interrupt leaves the attempt under way its strategy, one    *)
(* whose wait ends at that moment both its runs, and any other nothing, and  *)
(* an error is returned exactly when not all playbooks are through.          *)
ImplementsContract == Contract!Spec

(* The command ends, successfully or not.                                    *)
Terminates == <>(pc = "end")
=============================================================================
