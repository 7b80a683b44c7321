----------------------------- MODULE DurableStore -----------------------------
(* What the rest of the program may rely on when it keeps something in the    *)
(* store.  The file always holds the state of some earlier moment, and after  *)
(* a restart that is the state.  Saves may reach the file out of order, so it *)
(* may get older; but never older than a flush that came when no save was     *)
(* about to reach the file.                                                   *)
EXTENDS Naturals

VARIABLES
  state,  \* the version in memory
  file,   \* the version in the data file
  saving, \* is a save about to reach the file?
  durable \* the version behind which the file does not fall

Init == state = 0 /\ file = 0 /\ durable = 0 /\ saving = FALSE

Change == state' = state + 1 /\ UNCHANGED <<file, saving, durable>>

Flush ==
  /\ state' = state + 1
  /\ file' = state'
  /\ durable' = IF saving THEN durable ELSE state'
  /\ UNCHANGED saving

SendOff == ~saving /\ saving' = TRUE /\ UNCHANGED <<state, file, durable>>
GiveUp  == saving /\ saving' = FALSE /\ UNCHANGED <<state, file, durable>>

\* Another save may still be about to reach the file.
Save ==
  /\ saving /\ saving' \in BOOLEAN
  /\ file' \in durable..state
  /\ UNCHANGED <<state, durable>>

Restart == state' = file /\ saving' = FALSE /\ UNCHANGED <<file, durable>>

Next == Change \/ Flush \/ SendOff \/ GiveUp \/ Save \/ Restart

Spec == Init /\ [][Next]_<<state, file, saving, durable>>
=============================================================================
