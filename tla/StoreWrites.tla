----------------------------- MODULE StoreWrites -----------------------------
(***************************************************************************)
(* How the store gets its state onto disk (src/main/persistence.ts).       *)
(*                                                                         *)
(* Most changes ask for a background write: a timer of 300 ms that every   *)
(* further change restarts.  Changes that must not be lost are flushed: a  *)
(* synchronous write.  Both write a temporary file and rename it.  A       *)
(* background write awaits three times, and a flush, or another background *)
(* write, may run at each of these awaits; the generation is there to tell *)
(* the write that a flush has overtaken it, but it is looked at before the *)
(* rename is awaited, and nothing tells two background writes apart.       *)
(*                                                                         *)
(* The contents are abstracted to a version that every change increases.   *)
(***************************************************************************)
EXTENDS Integers

CONSTANTS
  Slots, \* background writes that can be under way at the same time
  Bound  \* how often each operation in Ops happens

\* "change" is a change that is saved in the background, "flush" one that is
\* flushed, "fail" a write to the disk that fails.
Ops == {"change", "flush", "fail", "crash"}

ASSUME WritesAssumption == Bound \in [Ops -> Nat]

VARIABLES
  state,           \* the version in memory
  file,            \* the version in the data file
  writeTimer,      \* is a background write scheduled?
  writeGeneration, \* number of flushes so far
  write,           \* the background writes under way
  flushed,         \* history: the last version flushed while no rename was under way
  used             \* how often each bounded operation has happened

vars == <<state, file, writeTimer, writeGeneration, write, flushed, used>>

Free  == [pc |-> "free", gen |-> 0, ver |-> 0]
Write == [pc : {"free", "mkdir", "write", "rename"}, gen : Nat, ver : Nat]

TypeOK ==
  /\ state \in Nat /\ file \in Nat /\ flushed \in Nat
  /\ writeTimer \in BOOLEAN
  /\ writeGeneration \in Nat
  /\ write \in [Slots -> Write]
  /\ used \in [Ops -> Nat]

Use(ops) == /\ \A op \in ops : used[op] < Bound[op]
            /\ used' = [op \in Ops |-> IF op \in ops THEN used[op] + 1 ELSE used[op]]

Init ==
  /\ state = 0 /\ file = 0 /\ flushed = 0
  /\ writeTimer = FALSE
  /\ writeGeneration = 0
  /\ write = [w \in Slots |-> Free]
  /\ used = [op \in Ops |-> 0]

-----------------------------------------------------------------------------
(* Changes *)

\* A change that ends in scheduleSave.
Change ==
  /\ Use({"change"})
  /\ state' = state + 1
  /\ writeTimer' = TRUE
  /\ UNCHANGED <<file, writeGeneration, write, flushed>>

\* A rename cannot be called back, and may be carried out at any later time.
RenameUnderWay == \E w \in Slots : write[w].pc = "rename"

NextGeneration_Same  == writeGeneration
NextGeneration_Minus == writeGeneration - 1
NextGeneration       == writeGeneration + 1

\* A change that ends in flush: no timer any more, the writes under way are
\* overtaken, and only then is the state written; an error is only logged.
ChangeAndFlush ==
  /\ state' = state + 1
  /\ writeTimer' = FALSE
  /\ writeGeneration' = NextGeneration
  /\ \/ /\ Use({"flush"})
        /\ file' = state + 1
        /\ flushed' = IF RenameUnderWay THEN flushed ELSE state + 1
     \/ Use({"flush", "fail"}) /\ UNCHANGED <<file, flushed>>
  /\ UNCHANGED write

-----------------------------------------------------------------------------
(* A background write: mkdir, writeFile, rename *)

SetWrite(w, new) == write' = [write EXCEPT ![w] = new]

\* The timer fires: the generation is read, mkdir awaited.
TimerFires(w) ==
  /\ writeTimer /\ write[w].pc = "free"
  /\ writeTimer' = FALSE
  /\ SetWrite(w, [pc |-> "mkdir", gen |-> writeGeneration, ver |-> 0])
  /\ UNCHANGED <<state, file, writeGeneration, flushed, used>>

\* The state is put into words now, and not when the timer fired.
Serialize(w) ==
  /\ write[w].pc = "mkdir"
  /\ SetWrite(w, [write[w] EXCEPT !.pc = "write", !.ver = state])
  /\ UNCHANGED <<state, file, writeTimer, writeGeneration, flushed, used>>

Overtaken_Never(w)   == FALSE
Overtaken_OrEqual(w) == write[w].gen <= writeGeneration
Overtaken(w)         == write[w].gen # writeGeneration

\* The temporary file is written: the rename is issued, unless a flush was
\* there meanwhile.
Written(w) ==
  /\ write[w].pc = "write"
  /\ \/ Overtaken(w) /\ SetWrite(w, Free)
     \/ ~Overtaken(w) /\ SetWrite(w, [write[w] EXCEPT !.pc = "rename"])
  /\ UNCHANGED <<state, file, writeTimer, writeGeneration, flushed, used>>

\* A thread of the pool has carried out the rename.
Renamed(w) ==
  /\ write[w].pc = "rename"
  /\ file' = write[w].ver
  /\ SetWrite(w, Free)
  /\ UNCHANGED <<state, writeTimer, writeGeneration, flushed, used>>

\* No space, no permission: the temporary file is removed, the error logged.
WriteFails(w) ==
  /\ write[w].pc \in {"write", "rename"}
  /\ Use({"fail"})
  /\ SetWrite(w, Free)
  /\ UNCHANGED <<state, file, writeTimer, writeGeneration, flushed>>

\* The process ends, and starts with what is in the data file.
Restart ==
  /\ Use({"crash"})
  /\ state' = file
  /\ writeTimer' = FALSE
  /\ writeGeneration' = 0
  /\ write' = [w \in Slots |-> Free]
  /\ UNCHANGED <<file, flushed>>

-----------------------------------------------------------------------------
Background(w) == Serialize(w) \/ Written(w) \/ Renamed(w)

Next ==
  \/ Change \/ ChangeAndFlush \/ Restart
  \/ \E w \in Slots : TimerFires(w) \/ Background(w) \/ WriteFails(w)

Spec == Init /\ [][Next]_vars

\* Timers fire and file operations end.
Fairness ==
  /\ WF_vars(\E w \in Slots : TimerFires(w))
  /\ \A w \in Slots : WF_vars(Background(w))

FairSpec == Spec /\ Fairness

-----------------------------------------------------------------------------
(* Properties *)

\* What a flush has written stays written, if no rename was under way when it
\* came: no background write that was at an earlier await comes after it with an
\* older state, however many of them overlap (persistence.ts:1709).
FlushedIsDurable == file >= flushed

\* Whoever keeps something in the store can think of it as of DurableStore: the
\* file may fall back, from one background write to another or from a flush that
\* met a rename, but to a state that memory has held, and never behind the last
\* flush that met none (persistence.ts:591, 597).
Store == INSTANCE DurableStore WITH saving <- RenameUnderWay, durable <- flushed
ImplementsStore == Store!Spec

\* Every change reaches the disk, unless the process ends first or a write
\* fails, or a rename is under way that is older than what the file holds: then
\* the newer state stays in memory only, until the next change.
OldRename == \E w \in Slots : write[w].pc = "rename" /\ write[w].ver < file
ChangesAreSaved ==
  []~OldRename => ((state > file) ~> (state = file \/ used["fail"] > 0))

\* The inductive invariant for FlushedIsDurable: a write that is not overtaken,
\* or renamed already, has been serialized after the last flush.
DurableInv ==
  /\ TypeOK
  /\ FlushedIsDurable
  /\ flushed <= state
  /\ \A w \in Slots :
       /\ write[w].pc # "free" => write[w].gen <= writeGeneration
       /\ write[w].pc = "write" /\ write[w].gen = writeGeneration => write[w].ver >= flushed
       /\ write[w].pc = "rename" => write[w].ver >= flushed
=============================================================================
