------------------------------ MODULE PaneQueue ------------------------------
(***************************************************************************)
(* Prompts of automation steps in the panes of agents                      *)
(* (src/main/automations/runners/run-prompt-runner.ts and the pane FIFO of *)
(* service.ts).                                                            *)
(*                                                                         *)
(* A step either opens a pane of its own or sends its prompt into the pane *)
(* that an earlier step opened.  Steps of a parallel group, and of several *)
(* runs, may want the same pane: a queue per pane lets one of them at a    *)
(* time drive it, until the agent has answered.  The runner never sees the *)
(* agent itself, only the status that the agent's hooks have reported.     *)
(*                                                                         *)
(* The chain executor (AutomationRuns) is reduced to what matters here: a  *)
(* step is live when all steps before it are done, siblings become live    *)
(* together, and a run with a failed step and no live one has failed.      *)
(***************************************************************************)
EXTENDS Naturals, Sequences, FiniteSets, SequencesExt

CONSTANTS
  Steps, Runs,
  Nobody,     \* nobody's prompt
  RunOf,      \* the run of a step
  Before,     \* the steps that are done before a step starts, in its run or its parent's
  Ref,        \* the step whose pane a step uses; itself, if it opens one
  Retryable,  \* the steps that the operator may retry
  MaxPanes,   \* bound: how many panes are opened
  Hasty,      \* may a run be ended in the middle of a call or before the
              \* agent has reported that it is at work on the prompt, and the
              \* app be restarted while an agent is at work?
  Fickle,     \* may the checks before a prompt end otherwise when they are
              \* repeated for a step that waits for its pane?
  MaxMishaps  \* bound: how often somebody interferes: the operator, the user of
              \* an agent, a renderer that does not answer, a restart

ASSUME PanesAssumption ==
  /\ Nobody \notin Steps
  /\ RunOf \in [Steps -> Runs]
  /\ Before \in [Steps -> SUBSET Steps]
  /\ \A s \in Steps : s \notin Before[s] /\ \A u \in Before[s] : Before[u] \subseteq Before[s]
  /\ \A s, u \in Steps : RunOf[u] = RunOf[s] =>
       s \in Before[u] \/ u \in Before[s] \/ Before[u] = Before[s]
  /\ Ref \in [Steps -> Steps]
  /\ \A s \in Steps : Ref[s] # s => Ref[s] \in Before[s]
  /\ Retryable \subseteq Steps
  /\ MaxPanes \in Nat /\ Hasty \in BOOLEAN /\ Fickle \in BOOLEAN
  /\ MaxMishaps \in Nat

VARIABLES
  phase,      \* what the executor thinks of a step
  ended,      \* the runs that have come to an end, or were stopped
  call,       \* where a call of the runner for a step stands
  target,     \* the pane for which a step that opens none was last ticked
  tracker,    \* what the runner remembers of a prompt that it has sent
  paneQueue,  \* the tokens of each pane, in order
  out,        \* the pane that a step has published for later steps
  panes,      \* number of panes opened so far
  opened,     \* the pane that a step has opened, as the run's record keeps it
  status,     \* the last status that the hooks of a pane's agent reported
  inbox,      \* prompts written into a pane that its agent has not taken yet
  turn,       \* the prompt the agent is at work on
  answered,   \* history: the steps whose prompt has been answered
  mishaps     \* number of interferences so far

vars == <<phase, ended, call, target, tracker, paneQueue, out, panes, opened,
          status, inbox, turn, answered, mishaps>>
agent == <<status, inbox, turn, answered>>

Panes == 1..MaxPanes
NoPane == 0

BuildTracker(p) == [pane |-> p, working |-> FALSE, done |-> FALSE]
NoTracker == BuildTracker(NoPane)
Tracker == [pane : Panes \cup {NoPane}, working : BOOLEAN, done : BOOLEAN]

Done == {"succeeded", "skipped"}

TypeOK ==
  /\ phase \in [Steps -> {"pending", "live", "failed"} \cup Done]
  /\ ended \subseteq Runs
  /\ call \in [Steps -> {"none", "gates", "opening", "sending", "sent"}]
  /\ target \in [Steps -> Panes \cup {NoPane}]
  /\ tracker \in [Steps -> Tracker]
  /\ paneQueue \in [Panes -> Seq(Steps)]
  /\ \A p \in Panes : IsInjective(paneQueue[p])
  /\ out \in [Steps -> Panes \cup {NoPane}]
  /\ panes \in 0..MaxPanes
  /\ opened \in [Steps -> Panes \cup {NoPane}]
  /\ status \in [Panes -> {"none", "working", "waiting", "done"}]
  /\ inbox \in [Panes -> Seq(Steps)]
  /\ turn \in [Panes -> Steps \cup {Nobody}]
  /\ answered \subseteq Steps
  /\ mishaps \in 0..MaxMishaps

Init ==
  /\ phase = [s \in Steps |-> "pending"]
  /\ ended = {}
  /\ call = [s \in Steps |-> "none"]
  /\ target = [s \in Steps |-> NoPane]
  /\ tracker = [s \in Steps |-> NoTracker]
  /\ paneQueue = [p \in Panes |-> <<>>]
  /\ out = [s \in Steps |-> NoPane]
  /\ panes = 0
  /\ opened = [s \in Steps |-> NoPane]
  /\ status = [p \in Panes |-> "none"]
  /\ inbox = [p \in Panes |-> <<>>]
  /\ turn = [p \in Panes |-> Nobody]
  /\ answered = {}
  /\ mishaps = 0

Mishap == mishaps < MaxMishaps /\ mishaps' = mishaps + 1

StepsOf(r)  == {s \in Steps : RunOf[s] = r}
Siblings(s) == {u \in StepsOf(RunOf[s]) : Before[u] = Before[s]}
Later(s)    == StepsOf(RunOf[s]) \ Before[s] \* its position and what comes after it
OwnPane(s)  == Ref[s] = s

Running(r)  == r \notin ended

\* The steps whose prompt is in a pane and not yet answered.
Outstanding(p) == ToSet(inbox[p]) \cup ({turn[p]} \ {Nobody})

\* Nothing of the run is between main process, renderer and agent.
Quiet(r) ==
  \A s \in StepsOf(r) : call[s] = "none" /\ \A p \in Panes : s \notin ToSet(inbox[p])

-----------------------------------------------------------------------------
(* The queue of a pane *)

Registered_Twice(q, s) == Append(q, s)
Registered(q, s) == IF s \in ToSet(q) THEN q ELSE Append(q, s)

Holds_Anyone(q, s) == TRUE
Holds(q, s) == q # <<>> /\ Head(q) = s

\* What is left of a queue without the tokens in D, in the order of the queue:
\* its n-th token is the one that n - 1 of the kept ones precede.
Kept(q, D) == {i \in DOMAIN q : q[i] \notin D}
Place(K, i) == Cardinality({j \in K : j <= i})
Without(q, D) == LET K == Kept(q, D) IN
  [n \in 1..Cardinality(K) |-> q[CHOOSE i \in K : Place(K, i) = n]]

Release_Forgotten(s, p) == paneQueue
Release(s, p) == [paneQueue EXCEPT ![p] = Without(@, {s})]

\* releasePanesForRun
ReleaseRun_OnlyHolders(r) == \* the steps that wait are left in the queues
  [p \in Panes |-> IF paneQueue[p] # <<>> /\ RunOf[Head(paneQueue[p])] = r
                   THEN Tail(paneQueue[p]) ELSE paneQueue[p]]
ReleaseRun(r) ==
  [p \in Panes |-> Without(paneQueue[p], StepsOf(r))]

-----------------------------------------------------------------------------
(* A tick of the runner for a step without a tracker *)

\* The step settles; its run ends with its last step, or when a step has failed
\* and no sibling is live any more.
Settle(s, ph) ==
  LET r == RunOf[s] IN
  /\ phase' = [phase EXCEPT ![s] = ph]
  /\ ended' = IF /\ \A u \in StepsOf(r) : phase'[u] # "live"
                 /\ \/ \E u \in StepsOf(r) : phase'[u] = "failed"
                    \/ \A u \in StepsOf(r) : phase'[u] \in Done
              THEN ended \cup {r} ELSE ended

\* The executor comes to the step, or to it again.  The pane is resolved against
\* the context of the run, which is a copy for a run that another one spawned;
\* then the runner awaits the checks for changes and the preset.
BeginTick(s) ==
  /\ Running(RunOf[s])
  /\ phase[s] \in {"pending", "live"} /\ call[s] = "none" /\ tracker[s] = NoTracker
  /\ \A u \in Before[s] : phase[u] \in Done
  /\ Ref[s] # s => out[Ref[s]] # NoPane
  /\ phase' = [u \in Steps |-> IF u \in Siblings(s) /\ phase[u] = "pending"
                               THEN "live" ELSE phase[u]]
  /\ call' = [call EXCEPT ![s] = "gates"]
  /\ target' = [target EXCEPT ![s] = IF OwnPane(s) THEN NoPane
                                     ELSE IF RunOf[Ref[s]] # RunOf[s] /\ @ # NoPane THEN @
                                     ELSE out[Ref[s]]]
  /\ UNCHANGED <<ended, tracker, paneQueue, out, panes, opened, agent, mishaps>>

\* A template that names what the run does not have, no changes to review, or no
\* such preset.  The outcome is returned as it is: a token that the step has in a
\* queue stays there.
GatesEnd(s) ==
  /\ call[s] = "gates"
  /\ Fickle \/ \A p \in Panes : s \notin ToSet(paneQueue[p])
  /\ Settle(s, "skipped") \/ Settle(s, "failed")
  /\ call' = [call EXCEPT ![s] = "none"]
  /\ UNCHANGED <<target, tracker, paneQueue, out, panes, opened, agent, mishaps>>

GatesOpen(s) ==
  /\ call[s] = "gates" /\ OwnPane(s) /\ panes < MaxPanes
  /\ call' = [call EXCEPT ![s] = "opening"]
  /\ UNCHANGED <<phase, ended, target, tracker, paneQueue, out, panes, opened, agent, mishaps>>

\* The pane is asked for and, if the step holds it, looked at, in one go.
GatesSend(s) ==
  LET p == target[s]
      q == Registered(paneQueue[p], s)
  IN
  /\ call[s] = "gates" /\ ~OwnPane(s)
  /\ \/ /\ Holds(q, s) /\ status[p] \in {"none", "done"}
        /\ call' = [call EXCEPT ![s] = "sending"]
        /\ paneQueue' = [paneQueue EXCEPT ![p] = q]
        /\ UNCHANGED <<phase, ended>>
     \/ /\ ~Holds(q, s) \/ status[p] = "working"
        /\ call' = [call EXCEPT ![s] = "none"]
        /\ paneQueue' = [paneQueue EXCEPT ![p] = q]
        /\ UNCHANGED <<phase, ended>>
     \/ /\ Holds(q, s) /\ status[p] = "waiting"
        /\ call' = [call EXCEPT ![s] = "none"]
        /\ paneQueue' = Release(s, p)
        /\ Settle(s, "failed")
  /\ UNCHANGED <<target, tracker, out, panes, opened, agent, mishaps>>

-----------------------------------------------------------------------------
(* The renderer *)

\* A new pane, with the prompt in it; its opener is the first in its queue.
Opened(s) ==
  /\ call[s] = "opening" /\ panes < MaxPanes
  /\ LET p == panes + 1 IN
       /\ panes' = p
       /\ opened' = [opened EXCEPT ![s] = p]
       /\ inbox' = [inbox EXCEPT ![p] = <<s>>]
       /\ paneQueue' = [paneQueue EXCEPT ![p] = Registered(@, s)]
       /\ tracker' = [tracker EXCEPT ![s] = BuildTracker(p)]
  /\ call' = [call EXCEPT ![s] = "none"]
  /\ UNCHANGED <<phase, ended, target, out, status, turn, answered, mishaps>>

OpenFails(s) ==
  /\ call[s] = "opening"
  /\ call' = [call EXCEPT ![s] = "none"]
  /\ Settle(s, "failed")
  /\ UNCHANGED <<target, tracker, paneQueue, out, panes, opened, agent, mishaps>>

Deliver(s) ==
  /\ call[s] = "sending"
  /\ inbox' = [inbox EXCEPT ![target[s]] = Append(@, s)]
  /\ call' = [call EXCEPT ![s] = "sent"]
  /\ UNCHANGED <<phase, ended, target, tracker, paneQueue, out, panes, opened, status,
                 turn, answered, mishaps>>

\* The renderer's reply: only now does the runner remember the prompt.
Sent(s) ==
  /\ call[s] = "sent"
  /\ tracker' = [tracker EXCEPT ![s] = BuildTracker(target[s])]
  /\ call' = [call EXCEPT ![s] = "none"]
  /\ UNCHANGED <<phase, ended, target, paneQueue, out, panes, opened, agent, mishaps>>

\* The pane is gone, or does not take the prompt.
SendFails(s) ==
  /\ call[s] = "sending"
  /\ paneQueue' = Release(s, target[s])
  /\ call' = [call EXCEPT ![s] = "none"]
  /\ Settle(s, "failed")
  /\ UNCHANGED <<target, tracker, out, panes, opened, agent, mishaps>>

-----------------------------------------------------------------------------
(* A tick of the runner for a step with a tracker *)

Polled(s) ==
  /\ Running(RunOf[s]) /\ phase[s] = "live" /\ call[s] = "none"
  /\ tracker[s] # NoTracker

PollWorking(s) ==
  /\ Polled(s) /\ status[tracker[s].pane] = "working"
  /\ tracker' = [tracker EXCEPT ![s].working = TRUE, ![s].done = FALSE]
  /\ UNCHANGED <<phase, ended, call, target, paneQueue, out, panes, opened, agent, mishaps>>

\* In a pane that was in use before, "done" may still be the answer to the
\* prompt before this one: the step must have seen the agent at work.
Believes_Any(s) == TRUE
Believes(s) == ~OwnPane(s) => tracker[s].working

PollDone(s) ==
  LET p == tracker[s].pane IN
  /\ Polled(s) /\ status[p] = "done" /\ Believes(s)
  /\ \/ ~tracker[s].done
        /\ tracker' = [tracker EXCEPT ![s].done = TRUE]
        /\ UNCHANGED <<phase, ended, paneQueue, out>>
     \/ tracker[s].done
        /\ Settle(s, "succeeded")
        /\ out' = [out EXCEPT ![s] = p]
        /\ paneQueue' = Release(s, p)
        /\ UNCHANGED tracker
  /\ UNCHANGED <<call, target, panes, opened, agent, mishaps>>

TimesOut(s) ==
  /\ Polled(s)
  /\ Hasty \/ s \notin ToSet(inbox[tracker[s].pane])
  /\ Settle(s, "failed")
  /\ paneQueue' = Release(s, tracker[s].pane)
  /\ UNCHANGED <<call, target, tracker, out, panes, opened, agent, mishaps>>

-----------------------------------------------------------------------------
(* Stopping and retrying *)

\* What is left of the run's steps when it is ended; those that never started
\* have no state.
Halted(r) == [s \in Steps |-> IF RunOf[s] = r /\ phase[s] = "live"
                              THEN "failed" ELSE phase[s]]

CancelRun(r) ==
  /\ Running(r)
  /\ Hasty \/ Quiet(r)
  /\ Mishap
  /\ phase' = Halted(r)
  /\ ended' = ended \cup {r}
  /\ tracker' = [s \in Steps |-> IF RunOf[s] = r THEN NoTracker ELSE tracker[s]]
  /\ paneQueue' = ReleaseRun(r)
  /\ UNCHANGED <<call, target, out, panes, opened, agent>>

\* The renderer does not answer in time, or is gone: the step throws, which
\* fails the run (finalizeFailedRun).  The trackers stay.
Throws(s) ==
  LET r == RunOf[s] IN
  /\ call[s] \in {"opening", "sending", "sent"}
  /\ \/ Hasty
     \/ /\ call[s] # "sent"
        /\ \A u \in StepsOf(r) \ {s} : call[u] = "none" /\ \A p \in Panes : u \notin ToSet(inbox[p])
  /\ Mishap
  /\ call' = [call EXCEPT ![s] = "none"]
  /\ phase' = Halted(r)
  /\ ended' = ended \cup {r}
  /\ paneQueue' = ReleaseRun(r)
  /\ UNCHANGED <<target, tracker, out, panes, opened, agent>>

\* closePersistedStepPanes: also where there is no tracker any more.
PersistedPanes(D) == {opened[d] : d \in D} \ {NoPane}

\* The steps in D are dropped, and the panes that they have opened closed.  A step
\* that waits for its pane has no tracker: its token stays.
Drop(r, D) ==
  LET closed == PersistedPanes(D) IN
  /\ Hasty \/ Quiet(r)
  /\ Mishap
  /\ ended' = ended \ {r}
  /\ tracker' = [s \in Steps |-> IF s \in D THEN NoTracker ELSE tracker[s]]
  /\ paneQueue' = [p \in Panes |->
       Without(paneQueue[p], {t \in D : tracker[t].pane = p})]
  /\ answered' = answered \ D
  /\ status' = [p \in Panes |-> IF p \in closed THEN "none" ELSE status[p]]
  /\ inbox' = [p \in Panes |-> IF p \in closed THEN <<>> ELSE inbox[p]]
  /\ turn' = [p \in Panes |-> IF p \in closed THEN Nobody ELSE turn[p]]
  /\ opened' = [s \in Steps |-> IF s \in D THEN NoPane ELSE opened[s]]
  /\ UNCHANGED <<call, target, out, panes>>

\* The view offers a retry of what has settled or waits: for its pane, or for
\* the user of the agent.
CanRetry(s) ==
  /\ s \in Retryable
  /\ \/ phase[s] \in {"failed"} \cup Done
     \/ phase[s] = "live" /\ \E p \in Panes :
          IF tracker[s] = NoTracker THEN s \in ToSet(paneQueue[p])
          ELSE tracker[s].pane = p /\ status[p] = "waiting"

\* retryRunFromStep
RetryFrom(s) ==
  /\ CanRetry(s)
  /\ Drop(RunOf[s], Later(s))
  /\ phase' = [u \in Steps |-> IF u \in Later(s) THEN "pending" ELSE phase[u]]

\* retryParallelStep: the siblings stay as they are.
RetrySibling(s) ==
  LET after == Later(s) \ Siblings(s) IN
  /\ CanRetry(s)
  /\ Drop(RunOf[s], after \cup {s})
  /\ phase' = [u \in Steps |-> IF u = s THEN "live"
                               ELSE IF u \in after THEN "pending" ELSE phase[u]]

\* The app is restarted; the panes and their agents live on.
Restart ==
  /\ Hasty \/ /\ \A r \in Runs : Quiet(r)
              /\ \A p \in Panes : turn[p] = Nobody
  /\ Mishap
  /\ call' = [s \in Steps |-> "none"]
  /\ tracker' = [s \in Steps |-> NoTracker]
  /\ paneQueue' = [p \in Panes |-> <<>>]
  /\ status' = [p \in Panes |-> "none"]
  /\ UNCHANGED <<phase, ended, target, out, panes, opened, inbox, turn, answered>>

-----------------------------------------------------------------------------
(* The agents *)

Takes(p) ==
  /\ turn[p] = Nobody /\ inbox[p] # <<>>
  /\ turn' = [turn EXCEPT ![p] = Head(inbox[p])]
  /\ inbox' = [inbox EXCEPT ![p] = Tail(@)]
  /\ status' = [status EXCEPT ![p] = "working"]
  /\ UNCHANGED <<phase, ended, call, target, tracker, paneQueue, out, panes, opened,
                 answered, mishaps>>

Finishes(p) ==
  /\ turn[p] # Nobody /\ status[p] # "waiting"
  /\ answered' = answered \cup {turn[p]}
  /\ turn' = [turn EXCEPT ![p] = Nobody]
  /\ status' = [status EXCEPT ![p] = "done"]
  /\ UNCHANGED <<phase, ended, call, target, tracker, paneQueue, out, panes, opened,
                 inbox, mishaps>>

\* It waits for its user, who answers some time.
AsksUser(p) ==
  /\ turn[p] # Nobody /\ status[p] = "working"
  /\ Mishap
  /\ status' = [status EXCEPT ![p] = "waiting"]
  /\ UNCHANGED <<phase, ended, call, target, tracker, paneQueue, out, panes, opened,
                 inbox, turn, answered>>

UserAnswers(p) ==
  /\ turn[p] # Nobody /\ status[p] = "waiting"
  /\ status' = [status EXCEPT ![p] = "working"]
  /\ UNCHANGED <<phase, ended, call, target, tracker, paneQueue, out, panes, opened,
                 inbox, turn, answered, mishaps>>

-----------------------------------------------------------------------------
Runner(s) ==
  \/ BeginTick(s) \/ GatesEnd(s) \/ GatesOpen(s) \/ GatesSend(s)
  \/ PollWorking(s) \/ PollDone(s)
Renderer(s) == Opened(s) \/ OpenFails(s) \/ Deliver(s) \/ Sent(s) \/ SendFails(s)
Agent(p) == Takes(p) \/ Finishes(p) \/ UserAnswers(p)

Next ==
  \/ \E s \in Steps : Runner(s) \/ Renderer(s) \/ TimesOut(s) \/ Throws(s)
                      \/ RetryFrom(s) \/ RetrySibling(s)
  \/ \E p \in Panes : Agent(p) \/ AsksUser(p)
  \/ \E r \in Runs : CancelRun(r)
  \/ Restart

Spec == Init /\ [][Next]_vars

\* Live steps are ticked, the renderer and the agents answer, and a step that
\* never ends times out.
Fairness ==
  /\ \A s \in Steps : WF_vars(Runner(s) \/ Renderer(s)) /\ WF_vars(TimesOut(s))
  /\ \A p \in Panes : WF_vars(Agent(p))

FairSpec == Spec /\ Fairness

-----------------------------------------------------------------------------
(* Properties *)

\* At most one of the steps that wait for an answer waits in a pane: a prompt
\* is never written into the turn of another step (run-prompt-runner.ts:321).
OneLivePrompt ==
  \A p \in Panes : Cardinality({s \in Outstanding(p) : phase[s] = "live"}) <= 1

\* Whoever holds a pane is going to use it, so nobody waits for a step that no
\* longer exists (run-prompt-runner.ts:614, service.ts:1230).
NoDeadHolder ==
  \A p \in Panes : paneQueue[p] # <<>> =>
    LET s == Head(paneQueue[p]) IN phase[s] \in {"pending", "live"} /\ Running(RunOf[s])

\* A step succeeds with the answer to its own prompt, not to the one before.
SucceedsOnOwnAnswer == \A s \in Steps : phase[s] = "succeeded" => s \in answered

\* Every step comes to an end, however many wait for the same pane.
LiveStepsSettle == \A s \in Steps : (phase[s] = "live") ~> (phase[s] # "live")
=============================================================================
