------------------------------ MODULE TaskGraph ------------------------------
(***************************************************************************)
(* What the orchestration promises its user, and nothing of how: a graph   *)
(* of tasks, each worked on by at most one terminal at a time, each        *)
(* terminal working on at most one task, none before everything it depends *)
(* on is done, and what is done stays done.                                *)
(***************************************************************************)
CONSTANTS Tasks, Terminals, Deps, Nobody

VARIABLES
  state,    \* of each task: "todo", "claimed", "blocked", "done", "failed"
  holder    \* the terminal that works on each task, or Nobody

vars == <<state, holder>>

Init == /\ state = [t \in Tasks |-> "todo"]
        /\ holder = [t \in Tasks |-> Nobody]

Claim(t, h) ==
  /\ state[t] = "todo"
  /\ \A x \in Deps[t] : state[x] = "done"
  /\ \A x \in Tasks : holder[x] # h
  /\ state'  = [state EXCEPT ![t] = "claimed"]
  /\ holder' = [holder EXCEPT ![t] = h]

\* The work on some tasks ends or is taken back; they may be tried again.
Move(S, from, to) ==
  /\ S # {} /\ \A t \in S : state[t] \in from
  /\ state'  = [t \in Tasks |-> IF t \in S THEN to ELSE state[t]]
  /\ holder' = [t \in Tasks |-> IF t \in S THEN Nobody ELSE holder[t]]

Finish(t) == Move({t}, {"todo", "claimed", "failed"}, "done")
GiveUp(t) == Move({t}, {"todo", "claimed", "blocked"}, "failed")
Return(t) == Move({t}, {"claimed", "blocked"}, "todo")
Block(S)  == Move(S, {"todo", "claimed", "failed"}, "blocked")

Next ==
  \/ \E t \in Tasks, h \in Terminals : Claim(t, h)
  \/ \E t \in Tasks : Finish(t) \/ GiveUp(t) \/ Return(t)
  \/ \E S \in SUBSET Tasks : Block(S)

Spec == Init /\ [][Next]_vars
=============================================================================
