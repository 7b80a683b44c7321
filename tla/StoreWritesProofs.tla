-------------------------- MODULE StoreWritesProofs --------------------------
(* Proofs about StoreWrites.                                                  *)
EXTENDS StoreWrites, TLAPS

LEMMA UseTyped ==
  ASSUME TypeOK, NEW ops, Use(ops)
  PROVE  used' \in [Ops -> Nat]
BY DEF Use, TypeOK

LEMMA InitTyped == Init => TypeOK
<1>1. Free \in Write  BY DEF Free, Write
<1> SUFFICES ASSUME Init PROVE TypeOK  OBVIOUS
<1>2. writeTimer \in BOOLEAN  BY DEF Init
<1>3. write \in [Slots -> Write]  BY <1>1 DEF Init
<1>4. used \in [Ops -> Nat]  BY DEF Init
<1>5. state \in Nat /\ file \in Nat /\ flushed \in Nat /\ writeGeneration \in Nat
  BY DEF Init
<1> QED  BY <1>2, <1>3, <1>4, <1>5 DEF TypeOK

\* Every variable keeps its type, whatever the bounds.
LEMMA StepTyped ==
  ASSUME TypeOK, [Next]_vars
  PROVE  TypeOK'
<1>1. CASE Change
  <2>1. used' \in [Ops -> Nat]  BY <1>1, UseTyped DEF Change
  <2> QED  BY <1>1, <2>1 DEF Change, TypeOK
<1>2. CASE ChangeAndFlush
  <2>1. used' \in [Ops -> Nat]  BY <1>2, UseTyped DEF ChangeAndFlush
  <2>2. writeGeneration' \in Nat  BY <1>2 DEF ChangeAndFlush, NextGeneration, TypeOK
  <2>3. state' \in Nat /\ file' \in Nat /\ flushed' \in Nat
    BY <1>2 DEF ChangeAndFlush, TypeOK
  <2>4. writeTimer' \in BOOLEAN /\ write' = write  BY <1>2 DEF ChangeAndFlush
  <2> QED  BY <2>1, <2>2, <2>3, <2>4 DEF TypeOK
<1>3. CASE Restart
  <2>1. used' \in [Ops -> Nat]  BY <1>3, UseTyped DEF Restart
  <2>2. Free \in Write  BY DEF Free, Write
  <2> QED  BY <1>3, <2>1, <2>2 DEF Restart, TypeOK
<1>4. ASSUME NEW w \in Slots, TimerFires(w) PROVE TypeOK'
  <2>1. [pc |-> "mkdir", gen |-> writeGeneration, ver |-> 0] \in Write
    BY DEF Write, TypeOK
  <2> QED  BY <1>4, <2>1 DEF TimerFires, SetWrite, TypeOK
<1>5. ASSUME NEW w \in Slots, Serialize(w) PROVE TypeOK'
  <2>1. [write[w] EXCEPT !.pc = "write", !.ver = state] \in Write
    BY DEF Write, TypeOK
  <2> QED  BY <1>5, <2>1 DEF Serialize, SetWrite, TypeOK
<1>6. ASSUME NEW w \in Slots, Written(w) PROVE TypeOK'
  <2>1. Free \in Write /\ [write[w] EXCEPT !.pc = "rename"] \in Write
    BY DEF Free, Write, TypeOK
  <2> QED  BY <1>6, <2>1 DEF Written, SetWrite, TypeOK
<1>7. ASSUME NEW w \in Slots, Renamed(w) PROVE TypeOK'
  <2>1. Free \in Write /\ write[w].ver \in Nat  BY DEF Free, Write, TypeOK
  <2> QED  BY <1>7, <2>1 DEF Renamed, SetWrite, TypeOK
<1>8. ASSUME NEW w \in Slots, WriteFails(w) PROVE TypeOK'
  <2>1. used' \in [Ops -> Nat]  BY <1>8, UseTyped DEF WriteFails
  <2>2. Free \in Write  BY DEF Free, Write
  <2> QED  BY <1>8, <2>1, <2>2 DEF WriteFails, SetWrite, TypeOK
<1>9. CASE UNCHANGED vars  BY <1>9 DEF vars, TypeOK
<1> QED  BY <1>1, <1>2, <1>3, <1>4, <1>5, <1>6, <1>7, <1>8, <1>9
         DEF Next, Background

-----------------------------------------------------------------------------
\* What DurableInv says of one background write.
WriteInv(wr, gen, durable) ==
  /\ wr.pc # "free" => wr.gen <= gen
  /\ wr.pc = "write" /\ wr.gen = gen => wr.ver >= durable
  /\ wr.pc = "rename" => wr.ver >= durable

LEMMA DurableInvParts ==
  DurableInv <=> /\ TypeOK /\ FlushedIsDurable /\ flushed <= state
                 /\ \A w \in Slots : WriteInv(write[w], writeGeneration, flushed)
BY DEF DurableInv, WriteInv

LEMMA FreeWriteInv ==
  ASSUME NEW gen, NEW durable
  PROVE  WriteInv(Free, gen, durable)
BY DEF Free, WriteInv

\* A step of one write keeps the invariant if it keeps that of this write, and
\* the file no older than the last flush.
LEMMA OneWriteMoves ==
  ASSUME DurableInv, TypeOK', NEW w \in Slots, NEW new, SetWrite(w, new),
         UNCHANGED <<state, writeGeneration, flushed>>,
         WriteInv(new, writeGeneration, flushed), file' >= flushed
  PROVE  DurableInv'
<1>1. \A v \in Slots : WriteInv(write'[v], writeGeneration, flushed)
  BY DurableInvParts DEF SetWrite, TypeOK
<1> QED  BY <1>1 DEF DurableInv, WriteInv, FlushedIsDurable

\* A rename is issued only if no flush came after its write was serialized; a
\* flush makes every write before its rename an overtaken one, and the floor
\* stays where it is when it meets a rename.
LEMMA StepDurable ==
  ASSUME DurableInv, [Next]_vars
  PROVE  DurableInv'
<1> USE DurableInvParts
<1>0. TypeOK /\ TypeOK'  BY StepTyped DEF DurableInv
<1>1. CASE Change
  BY <1>0, <1>1 DEF Change, DurableInv, FlushedIsDurable, TypeOK
<1>2. CASE ChangeAndFlush
  <2>1. ASSUME NEW w \in Slots PROVE WriteInv(write'[w], writeGeneration', flushed')
    BY <1>0, <1>2
       DEF ChangeAndFlush, NextGeneration, RenameUnderWay, WriteInv, TypeOK, Write
  <2>2. FlushedIsDurable' /\ (flushed <= state)'
    BY <1>0, <1>2 DEF ChangeAndFlush, DurableInv, FlushedIsDurable, TypeOK
  <2> QED  BY <1>0, <2>1, <2>2 DEF DurableInv, WriteInv
<1>3. CASE Restart
  <2>1. \A w \in Slots : write'[w] = Free  BY <1>3 DEF Restart
  <2>2. FlushedIsDurable' /\ (flushed <= state)'
    BY <1>0, <1>3 DEF Restart, DurableInv, FlushedIsDurable, TypeOK
  <2> QED  BY <1>0, <2>1, <2>2 DEF DurableInv, Free
<1>4. ASSUME NEW w \in Slots, TimerFires(w) PROVE DurableInv'
  <2> DEFINE new == [pc |-> "mkdir", gen |-> writeGeneration, ver |-> 0]
  <2>1. WriteInv(new, writeGeneration, flushed)  BY <1>0 DEF WriteInv, TypeOK
  <2> QED  BY <1>0, <1>4, <2>1, OneWriteMoves
           DEF TimerFires, DurableInv, FlushedIsDurable
<1>5. ASSUME NEW w \in Slots, Serialize(w) PROVE DurableInv'
  <2> DEFINE new == [write[w] EXCEPT !.pc = "write", !.ver = state]
  <2>1. WriteInv(new, writeGeneration, flushed)
    BY <1>0, <1>5 DEF Serialize, DurableInv, WriteInv, TypeOK, Write
  <2> QED  BY <1>0, <1>5, <2>1, OneWriteMoves
           DEF Serialize, DurableInv, FlushedIsDurable
<1>6. ASSUME NEW w \in Slots, Written(w) PROVE DurableInv'
  <2>1. CASE Overtaken(w)
    BY <1>0, <1>6, <2>1, FreeWriteInv, OneWriteMoves
       DEF Written, DurableInv, FlushedIsDurable
  <2>2. CASE ~Overtaken(w)
    <3> DEFINE new == [write[w] EXCEPT !.pc = "rename"]
    <3>1. WriteInv(new, writeGeneration, flushed)
      BY <1>0, <1>6, <2>2 DEF Written, Overtaken, DurableInv, WriteInv, TypeOK, Write
    <3> QED  BY <1>0, <1>6, <2>2, <3>1, OneWriteMoves
             DEF Written, DurableInv, FlushedIsDurable
  <2> QED  BY <2>1, <2>2
<1>7. ASSUME NEW w \in Slots, Renamed(w) PROVE DurableInv'
  <2>1. file' >= flushed  BY <1>7 DEF Renamed, DurableInv
  <2> QED  BY <1>0, <1>7, <2>1, FreeWriteInv, OneWriteMoves DEF Renamed
<1>8. ASSUME NEW w \in Slots, WriteFails(w) PROVE DurableInv'
  BY <1>0, <1>8, FreeWriteInv, OneWriteMoves
     DEF WriteFails, DurableInv, FlushedIsDurable
<1>9. CASE UNCHANGED vars
  BY <1>0, <1>9 DEF vars, DurableInv, FlushedIsDurable
<1> QED  BY <1>1, <1>2, <1>3, <1>4, <1>5, <1>6, <1>7, <1>8, <1>9
         DEF Next, Background

-----------------------------------------------------------------------------
(* The refinement *)

abstract == <<state, file, RenameUnderWay, flushed>>

\* No background write is ahead of memory, and so the file is not.
StoreInv ==
  /\ DurableInv
  /\ file <= state
  /\ \A w \in Slots : write[w].pc \in {"write", "rename"} => write[w].ver <= state

\* A step that only moves a background write, and not into a rename or out of
\* one, is invisible; into or out of one, it sends off or gives up a save.
LEMMA OneSlotMoves ==
  ASSUME StoreInv, DurableInv', NEW w \in Slots, NEW new, SetWrite(w, new),
         UNCHANGED <<state, file, flushed>>,
         new.pc \in {"write", "rename"} => new.ver <= state
  PROVE  StoreInv' /\ [Store!Next]_abstract
<1>1. StoreInv'
  BY DEF StoreInv, DurableInv, TypeOK, SetWrite
<1>2. CASE RenameUnderWay' = RenameUnderWay
  BY <1>1, <1>2 DEF abstract
<1>3. CASE RenameUnderWay /\ ~RenameUnderWay'
  BY <1>1, <1>3 DEF Store!Next, Store!GiveUp
<1>4. CASE ~RenameUnderWay /\ RenameUnderWay'
  BY <1>1, <1>4 DEF Store!Next, Store!SendOff
<1> QED  BY <1>2, <1>3, <1>4 DEF RenameUnderWay

LEMMA StepStore ==
  ASSUME StoreInv, [Next]_vars
  PROVE  StoreInv' /\ [Store!Next]_abstract
<1>0. TypeOK /\ TypeOK' /\ DurableInv'  BY StepTyped, StepDurable DEF StoreInv, DurableInv
<1>1. CASE Change
  <2>1. Store!Change  BY <1>1 DEF Change, RenameUnderWay, Store!Change
  <2>2. StoreInv'  BY <1>0, <1>1 DEF Change, StoreInv, TypeOK, Write
  <2> QED  BY <2>1, <2>2 DEF Store!Next
<1>2. CASE ChangeAndFlush
  <2>1. RenameUnderWay' = RenameUnderWay  BY <1>2 DEF ChangeAndFlush, RenameUnderWay
  <2>2. Store!Flush \/ Store!Change
    BY <1>2, <2>1 DEF ChangeAndFlush, Store!Flush, Store!Change
  <2>3. StoreInv'  BY <1>0, <1>2 DEF ChangeAndFlush, StoreInv, TypeOK, Write
  <2> QED  BY <2>2, <2>3 DEF Store!Next
<1>3. CASE Restart
  <2>1. Store!Restart  BY <1>3 DEF Restart, RenameUnderWay, Free, Store!Restart
  <2>2. StoreInv'  BY <1>0, <1>3 DEF Restart, StoreInv, Free, TypeOK
  <2> QED  BY <2>1, <2>2 DEF Store!Next
<1>4. ASSUME NEW w \in Slots, TimerFires(w)
      PROVE  StoreInv' /\ [Store!Next]_abstract
  BY <1>0, <1>4, OneSlotMoves DEF TimerFires
<1>5. ASSUME NEW w \in Slots, Serialize(w)
      PROVE  StoreInv' /\ [Store!Next]_abstract
  <2> DEFINE new == [write[w] EXCEPT !.pc = "write", !.ver = state]
  <2>1. new.ver <= state  BY <1>0, <1>5 DEF TypeOK, Write
  <2> QED  BY <1>0, <1>5, <2>1, OneSlotMoves DEF Serialize
<1>6. ASSUME NEW w \in Slots, Written(w)
      PROVE  StoreInv' /\ [Store!Next]_abstract
  <2>1. CASE SetWrite(w, Free)
    BY <1>0, <1>6, <2>1, OneSlotMoves DEF Written, Free
  <2>2. CASE SetWrite(w, [write[w] EXCEPT !.pc = "rename"])
    <3> DEFINE new == [write[w] EXCEPT !.pc = "rename"]
    <3>1. new.ver <= state  BY <1>0, <1>6 DEF Written, StoreInv, TypeOK, Write
    <3> QED  BY <1>0, <1>6, <2>2, <3>1, OneSlotMoves DEF Written
  <2> QED  BY <1>6, <2>1, <2>2 DEF Written
<1>7. ASSUME NEW w \in Slots, WriteFails(w)
      PROVE  StoreInv' /\ [Store!Next]_abstract
  BY <1>0, <1>7, OneSlotMoves DEF WriteFails, Free
<1>8. ASSUME NEW w \in Slots, Renamed(w)
      PROVE  StoreInv' /\ [Store!Next]_abstract
  <2>1. write[w].ver \in flushed..state
    BY <1>0, <1>8 DEF Renamed, StoreInv, DurableInv, TypeOK, Write
  <2>2. RenameUnderWay /\ RenameUnderWay' \in BOOLEAN  BY <1>8 DEF Renamed, RenameUnderWay
  <2>3. Store!Save  BY <1>8, <2>1, <2>2 DEF Renamed, Store!Save
  <2>4. StoreInv'
    BY <1>0, <1>8, <2>1 DEF Renamed, SetWrite, StoreInv, Free, TypeOK, Write
  <2> QED  BY <2>3, <2>4 DEF Store!Next
<1>9. CASE UNCHANGED vars
  BY <1>0, <1>9 DEF vars, abstract, RenameUnderWay, StoreInv
<1> QED  BY <1>1, <1>2, <1>3, <1>4, <1>5, <1>6, <1>7, <1>8, <1>9 DEF Next, Background

-----------------------------------------------------------------------------
\* The state of the writer is well formed at all times.
THEOREM StoreWritesTyped == Spec => []TypeOK
<1>1. Init => TypeOK  BY InitTyped
<1>2. TypeOK /\ [Next]_vars => TypeOK'  BY StepTyped
<1> QED  BY <1>1, <1>2, PTL DEF Spec

\* What a flush has written while no rename was under way is never overwritten
\* by an older state, however many background writes overlap, and however many
\* of them, or of the flushes, fail (persistence.ts:564-604, 1704-1717).
THEOREM FlushIsDurable == Spec => []FlushedIsDurable
<1>1. Init => DurableInv
  BY InitTyped DEF Init, DurableInv, FlushedIsDurable, Free
<1>2. DurableInv /\ [Next]_vars => DurableInv'  BY StepDurable
<1>3. DurableInv => FlushedIsDurable  BY DEF DurableInv
<1> QED  BY <1>1, <1>2, <1>3, PTL DEF Spec

\* With any number of overlapping background writes, and flushes at any moment,
\* the writer is what its clients take it for: every step of it is a change, a
\* flush, a save, the start or the end of one, or a restart of DurableStore, or
\* invisible (persistence.ts:539-640, 1704-1717).
THEOREM StoreIsDurable == Spec => ImplementsStore
<1>1. Init => StoreInv /\ Store!Init
  <2> SUFFICES ASSUME Init PROVE StoreInv /\ Store!Init  OBVIOUS
  <2>1. DurableInv  BY InitTyped DEF Init, DurableInv, FlushedIsDurable, Free
  <2> QED  BY <2>1 DEF Init, StoreInv, Free, RenameUnderWay, Store!Init
<1>2. StoreInv /\ [Next]_vars => StoreInv' /\ [Store!Next]_abstract
  BY StepStore
<1> QED  BY <1>1, <1>2, PTL DEF Spec, ImplementsStore, Store!Spec, abstract
=============================================================================
