---------------------------- MODULE Services_proof ----------------------------
(* Proofs about MCServices: first the memory pool, the flash and the settings, *)
(* then the buffers that an interrupt and the main loop share, for every size, *)
(* depth, capacity, budget and number of CPUs, and wherever counters come      *)
(* round; at the end the properties of all services.                           *)
(*                                                                             *)
(* PoolInv: who holds the lock, and that a block being freed is not one that   *)
(* was given up.  FlashInv: the slot that a save writes is not the one that    *)
(* counts, until it has the larger number and is whole.  ParamInv: a call that *)
(* waits for its commit is one whose table is in the flash, and a reset has    *)
(* noted what it took out.  LogInv: which words of a slot are of which line    *)
(* while the drain reads.  UltraInv: the slots from the read to the write      *)
(* index hold what was pushed.  RecorderInv: how far the reader is behind, and *)
(* which words of its copy may have been overwritten if it is too far.         *)
(* StreamInv: who has which block, and that the numbers of the blocks that     *)
(* wait are in the order of their commits.                                     *)
EXTENDS MCServices, Integers, TLAPS, FiniteSetTheorems, SequenceTheorems,
        WellFoundedInduction

\* Of any numbers one is the smallest.
LEMMA SmallestIs ==
    ASSUME NEW S \in SUBSET Nat, S # {}
    PROVE  \E l \in S : \A k \in S : l <= k
<1> DEFINE R == OpToRel(<, Nat)
<1>1. IsWellFoundedOn(R, Nat)
  BY NatLessThanWellFounded
<1>2. \A k, l \in Nat : k < l => <<k, l>> \in R
  BY DEF OpToRel
<1> HIDE DEF R
<1>3. PICK l \in S : \A k \in S : ~(<<k, l>> \in R)
  BY <1>1, WFMin
<1>4. \A k \in S : k \in Nat /\ ~(k < l)
  BY <1>2, <1>3
<1> QED BY <1>4

-----------------------------------------------------------------------------
(* The memory pool                                                             *)

\* The lock is held by the one CPU that is in a call, and by nobody else.
PoolLock ==
    /\ lock \in {0, 1}
    /\ lock = 0 => \A c \in PoolCpus : poolCall[c] = Pool!Outside
    /\ lock = 1 => \E c \in PoolCpus :
          /\ poolCall[c] # Pool!Outside
          /\ \A d \in PoolCpus \ {c} : poolCall[d] = Pool!Outside

\* A block that is being freed was not given up before, and a reset has found no
\* block in use.
PoolCalls ==
    \A c \in PoolCpus :
        /\ poolCall[c].op = "free" => poolCall[c].block \notin leaked
        /\ poolCall[c].op = "reset" => \A b \in Pool!Blocks : grants[b] = 0

PoolInv == Pool!TypeOK /\ PoolLock /\ PoolCalls /\ Pool!OneHolder

\* The instance counts as the module does.
LEMMA PoolCardinality == \A S : Pool!Cardinality(S) = Cardinality(S)
BY DEF Pool!Cardinality, Cardinality

\* The number of CPUs in a call is what the lock says.
LEMMA LockCounts == PoolInv => Pool!LockIsHeld
<1> SUFFICES ASSUME PoolInv PROVE Pool!LockIsHeld
  OBVIOUS
<1> DEFINE Inside == {c \in PoolCpus : poolCall[c] # Pool!Outside}
<1>1. CASE lock = 0
  <2>1. Inside = {}
    BY <1>1 DEF PoolInv, PoolLock
  <2> QED BY <1>1, <2>1, FS_EmptySet, PoolCardinality DEF Pool!LockIsHeld
<1>2. CASE lock = 1
  <2>1. PICK c \in PoolCpus : /\ poolCall[c] # Pool!Outside
                              /\ \A d \in PoolCpus \ {c} : poolCall[d] = Pool!Outside
    BY <1>2 DEF PoolInv, PoolLock
  <2>2. Inside = {c}
    BY <2>1
  <2> QED BY <1>2, <2>2, FS_Singleton, PoolCardinality DEF Pool!LockIsHeld
<1> QED BY <1>1, <1>2 DEF PoolInv, PoolLock

\* The block that an allocation takes.
LEMMA FirstFreeIs ==
    ASSUME Pool!Free # {}
    PROVE  Pool!FirstFree \in Pool!Blocks /\ Pool!FirstFree \notin bitmap
<1> DEFINE S == Pool!Free
<1>1. S \in SUBSET Nat /\ S # {}
  BY ServicesAssumption DEF Pool!MempoolAssumption, Pool!Free, Pool!Blocks
<1>2. PICK b \in S : \A d \in S : b <= d
  BY <1>1, SmallestIs
<1> QED BY <1>2 DEF Pool!FirstFree, Pool!Free

\* The invariant holds of a pool that nobody has used.
LEMMA PoolInit == Pool!Init => PoolInv
<1> SUFFICES ASSUME Pool!Init PROVE PoolInv
  OBVIOUS
<1>1. Pool!TypeOK
  BY ServicesAssumption
     DEF Pool!MempoolAssumption, Pool!Init, Pool!TypeOK, Pool!Outside, Pool!Blocks
<1>2. PoolLock /\ PoolCalls /\ Pool!OneHolder
  BY DEF Pool!Init, PoolLock, PoolCalls, Pool!OneHolder, Pool!Outside
<1> QED BY <1>1, <1>2 DEF PoolInv

\* Every step of the pool keeps it, and hands out zeroed blocks.
LEMMA PoolStep ==
    ASSUME PoolInv, Pool!Next
    PROVE  PoolInv' /\ Pool!ZeroedWhenGranted
<1> USE DEF Pool!Outside
<1>0. /\ \A b \in Pool!Blocks : grants[b] \in {0, 1}
      /\ \A b \in Pool!Blocks : b \in bitmap <=> (grants[b] = 1 \/ b \in leaked)
      /\ bitmap \subseteq Pool!Blocks /\ leaked \subseteq Pool!Blocks
      /\ Pool!TypeOK /\ PoolLock /\ PoolCalls
      /\ 0 \in Pool!Blocks /\ \A n \in {0, 1} : n + 1 \in 0 .. 2
  <2>1. \A b \in Pool!Blocks : grants[b] \in 0 .. 2 /\ grants[b] <= 1
    BY DEF PoolInv, Pool!TypeOK, Pool!OneHolder
  <2> QED
    BY <2>1, ServicesAssumption
       DEF PoolInv, Pool!TypeOK, Pool!OneHolder, Pool!MempoolAssumption, Pool!Blocks
\* A call begins.
<1>1. ASSUME NEW c \in PoolCpus, NEW o \in {"alloc", "free", "reset"}, NEW b \in Pool!Blocks,
             poolCall[c] = Pool!Outside, Pool!Locked(c, o, b),
             o = "free" => b \notin leaked,
             o = "reset" => \A d \in Pool!Blocks : grants[d] = 0
      PROVE  PoolInv' /\ Pool!ZeroedWhenGranted
  <2>1. Pool!TypeOK'
    BY <1>0, <1>1 DEF Pool!Locked, Pool!TypeOK
  <2>2. PoolLock'
    BY <1>0, <1>1 DEF Pool!Locked, PoolLock, Pool!TypeOK
  <2>3. PoolCalls'
    BY <1>0, <1>1 DEF Pool!Locked, PoolCalls, Pool!TypeOK
  <2>4. Pool!OneHolder' /\ Pool!ZeroedWhenGranted
    BY <1>0, <1>1 DEF Pool!Locked, Pool!OneHolder, Pool!ZeroedWhenGranted, PoolInv
  <2> QED BY <2>1, <2>2, <2>3, <2>4 DEF PoolInv
\* The lock is given back.
<1>2. ASSUME NEW c \in PoolCpus, poolCall[c] # Pool!Outside, Pool!Unlocked(c)
      PROVE  /\ PoolLock' /\ \A d \in PoolCpus : poolCall'[d] = Pool!Outside
             /\ PoolCalls'
             /\ lock' \in {0, 1}
             /\ poolCall' \in [PoolCpus -> [op : {"none", "alloc", "free", "reset"},
                                            block : Pool!Blocks]]
  <2>1. \A d \in PoolCpus : poolCall'[d] = Pool!Outside
    BY <1>0, <1>2 DEF Pool!Unlocked, PoolLock, Pool!TypeOK
  <2> QED
    BY <1>0, <1>2, <2>1 DEF Pool!Unlocked, PoolLock, PoolCalls, Pool!TypeOK
<1>3. ASSUME NEW c \in PoolCpus, Pool!FreeRefused(c)
      PROVE  PoolInv' /\ Pool!ZeroedWhenGranted
  <2>1. PICK b \in bitmap : /\ Pool!MayFree(b)
                            /\ grants' = [grants EXCEPT ![b] = @ - 1]
                            /\ leaked' = leaked \cup {b}
    BY <1>3 DEF Pool!FreeRefused
  <2>2. /\ UNCHANGED <<bitmap, lock, poolCall, dirty>> /\ b \in Pool!Blocks
        /\ grants[b] = 1 /\ grants'[b] = 0 /\ b \notin leaked
        /\ \A d \in Pool!Blocks \ {b} : grants'[d] = grants[d]
        /\ \A d \in PoolCpus : poolCall[d].op = "free" => poolCall[d].block # b
    BY <1>0, <1>3, <2>1
       DEF Pool!FreeRefused, Pool!MayFree, Pool!BeingFreed, Pool!TypeOK
  <2>3. Pool!TypeOK'
    BY <1>0, <2>1, <2>2 DEF Pool!TypeOK
  <2>4. PoolLock' /\ PoolCalls'
    BY <1>0, <2>1, <2>2 DEF PoolLock, PoolCalls
  <2>5. Pool!OneHolder'
    BY <1>0, <2>1, <2>2 DEF Pool!OneHolder
  <2>6. Pool!ZeroedWhenGranted
    BY <1>0, <2>2 DEF Pool!ZeroedWhenGranted
  <2> QED BY <2>3, <2>4, <2>5, <2>6 DEF PoolInv
<1>4. ASSUME NEW c \in PoolCpus, Pool!Allocated(c)
      PROVE  PoolInv' /\ Pool!ZeroedWhenGranted
  <2> DEFINE b == Pool!FirstFree
  <2>1. b \in Pool!Blocks /\ b \notin bitmap
    BY <1>4, FirstFreeIs DEF Pool!Allocated
  <2>2. /\ bitmap' = bitmap \cup {b} /\ dirty' = dirty \ {b} /\ leaked' = leaked
        /\ grants' = [grants EXCEPT ![b] = @ + 1]
        /\ Pool!Unlocked(c) /\ poolCall[c] # Pool!Outside
    BY <1>4 DEF Pool!Allocated, Pool!Marked, Pool!Zeroed
  <2> HIDE DEF b
  <2>3. /\ grants'[b] = 1 /\ b \notin leaked
        /\ \A d \in Pool!Blocks \ {b} : grants'[d] = grants[d]
    BY <1>0, <2>1, <2>2 DEF Pool!TypeOK
  <2>4. Pool!TypeOK' /\ PoolLock' /\ PoolCalls'
    BY <1>0, <1>2, <2>1, <2>2 DEF Pool!TypeOK
  <2>5. Pool!OneHolder'
    BY <1>0, <2>1, <2>2, <2>3 DEF Pool!OneHolder
  <2>6. Pool!ZeroedWhenGranted
    BY <1>0, <2>2, <2>3 DEF Pool!ZeroedWhenGranted
  <2> QED BY <2>4, <2>5, <2>6 DEF PoolInv
<1>5. ASSUME NEW c \in PoolCpus, Pool!Exhausted(c) \/ Pool!DoubleFree(c)
      PROVE  PoolInv' /\ Pool!ZeroedWhenGranted
  <2>1. /\ UNCHANGED <<bitmap, dirty, grants, leaked>>
        /\ Pool!Unlocked(c) /\ poolCall[c] # Pool!Outside
    BY <1>5 DEF Pool!Exhausted, Pool!DoubleFree
  <2>2. Pool!TypeOK' /\ PoolLock' /\ PoolCalls'
    BY <1>0, <1>2, <2>1 DEF Pool!TypeOK
  <2>3. Pool!OneHolder' /\ Pool!ZeroedWhenGranted
    BY <1>0, <2>1 DEF Pool!OneHolder, Pool!ZeroedWhenGranted
  <2> QED BY <2>2, <2>3 DEF PoolInv
<1>6. ASSUME NEW c \in PoolCpus, Pool!Freed(c)
      PROVE  PoolInv' /\ Pool!ZeroedWhenGranted
  <2> DEFINE b == poolCall[c].block
  <2>1. /\ b \in bitmap /\ bitmap' = bitmap \ {b} /\ leaked' = leaked /\ dirty' = dirty
        /\ grants' = [grants EXCEPT ![b] = @ - 1]
        /\ Pool!Unlocked(c) /\ poolCall[c] # Pool!Outside
        /\ b \notin leaked
    BY <1>0, <1>6 DEF Pool!Freed, PoolCalls
  <2> HIDE DEF b
  <2>2. /\ b \in Pool!Blocks /\ grants[b] = 1 /\ grants'[b] = 0
        /\ \A d \in Pool!Blocks \ {b} : grants'[d] = grants[d]
    BY <1>0, <2>1 DEF Pool!TypeOK
  <2>3. Pool!TypeOK' /\ PoolLock' /\ PoolCalls'
    BY <1>0, <1>2, <2>1, <2>2 DEF Pool!TypeOK
  <2>4. Pool!OneHolder' /\ Pool!ZeroedWhenGranted
    BY <1>0, <2>1, <2>2 DEF Pool!OneHolder, Pool!ZeroedWhenGranted
  <2> QED BY <2>3, <2>4 DEF PoolInv
<1>7. ASSUME NEW c \in PoolCpus, Pool!ResetDone(c)
      PROVE  PoolInv' /\ Pool!ZeroedWhenGranted
  <2>1. /\ bitmap' = {} /\ leaked' = {} /\ UNCHANGED <<dirty, grants>>
        /\ Pool!Unlocked(c) /\ poolCall[c] # Pool!Outside
        /\ \A b \in Pool!Blocks : grants[b] = 0
    BY <1>0, <1>7 DEF Pool!ResetDone, PoolCalls
  <2>2. Pool!TypeOK' /\ PoolLock' /\ PoolCalls'
    BY <1>0, <1>2, <2>1 DEF Pool!TypeOK
  <2>3. Pool!OneHolder' /\ Pool!ZeroedWhenGranted
    BY <2>1 DEF Pool!OneHolder, Pool!ZeroedWhenGranted
  <2> QED BY <2>2, <2>3 DEF PoolInv
<1>8. ASSUME Pool!Use PROVE PoolInv' /\ Pool!ZeroedWhenGranted
  <2>1. /\ UNCHANGED <<bitmap, lock, poolCall, grants, leaked>>
        /\ dirty' \subseteq Pool!Blocks
    BY <1>0, <1>8 DEF Pool!Use, Pool!TypeOK
  <2>2. Pool!TypeOK' /\ PoolLock' /\ PoolCalls'
    BY <1>0, <2>1 DEF Pool!TypeOK, PoolLock, PoolCalls
  <2>3. Pool!OneHolder' /\ Pool!ZeroedWhenGranted
    BY <1>0, <2>1 DEF Pool!OneHolder, Pool!ZeroedWhenGranted
  <2> QED BY <2>2, <2>3 DEF PoolInv
<1>9. ASSUME NEW c \in PoolCpus, Pool!Alloc(c) \/ Pool!TryFree(c) \/ Pool!Reset(c)
      PROVE  PoolInv' /\ Pool!ZeroedWhenGranted
  BY <1>0, <1>1, <1>9
     DEF Pool!Alloc, Pool!TryFree, Pool!Reset, Pool!MayFree, Pool!MayReset
<1> QED
  BY <1>3, <1>4, <1>5, <1>6, <1>7, <1>8, <1>9 DEF Pool!Next

\* The invariant reads nothing but the pool.
LEMMA PoolSame == PoolInv /\ UNCHANGED poolVars => PoolInv' /\ Pool!ZeroedWhenGranted
<1> SUFFICES ASSUME PoolInv, UNCHANGED poolVars PROVE PoolInv' /\ Pool!ZeroedWhenGranted
  OBVIOUS
<1>1. /\ bitmap' = bitmap /\ lock' = lock /\ poolCall' = poolCall /\ dirty' = dirty
      /\ grants' = grants /\ leaked' = leaked
  BY DEF poolVars
<1>2. Pool!TypeOK' /\ PoolLock' /\ PoolCalls' /\ Pool!OneHolder'
  BY <1>1 DEF PoolInv, Pool!TypeOK, PoolLock, PoolCalls, Pool!OneHolder
<1>3. Pool!ZeroedWhenGranted
  BY <1>1 DEF Pool!ZeroedWhenGranted, PoolInv, Pool!TypeOK
<1> QED BY <1>2, <1>3 DEF PoolInv

\* Nothing else touches the pool.
LEMMA PoolNext == PoolInv /\ [ServicesNext]_allVars => PoolInv' /\ Pool!ZeroedWhenGranted
BY PoolStep, PoolSame DEF ServicesNext, allVars

\* The inductive invariant of the pool.
LEMMA PoolHolds == ServicesSpec => []PoolInv
<1>1. ServicesInit => PoolInv
  BY PoolInit DEF ServicesInit
<1> QED BY <1>1, PoolNext, PTL DEF ServicesSpec

\* The memory pool never has two holders of a block, never hands out one that is
\* not zeroed and never loses its lock: for every number of blocks and CPUs.
THEOREM HolderHolds == ServicesSpec => OneHolder
<1>1. PoolInv' => (Pool!OneHolder /\ Pool!LockIsHeld)'
  <2>1. PoolInv => Pool!OneHolder /\ Pool!LockIsHeld
    BY LockCounts DEF PoolInv
  <2> QED BY <2>1, PTL
<1> QED
  BY <1>1, PoolHolds, PoolNext, PTL DEF ServicesSpec, OneHolder

-----------------------------------------------------------------------------
(* The two slots of flash                                                      *)

\* Tables that have room for their records.
Used(t) == {k \in Keys : t[k] # None}
Tables == {t \in Image : Cardinality(Used(t)) <= MaxEntries}

Saves == [pc : {"erase", "program", "last", "verify"}, target : Slots,
          seq : Nat \ {0}, image : Tables]

\* The slot that a save in progress leaves alone, and what it keeps.
Spare == Other(op.target)
KeptBefore == IF slot[Spare].ok THEN slot[Spare].image ELSE None

SlotsType == slot \in [Slots -> {Invalid} \cup [ok : {TRUE}, seq : Nat \ {0}, image : Tables]]

\* A save writes the slot that does not count: it is erased first, and what is then
\* written has the larger number.
FlashInv ==
    /\ SlotsType
    /\ op \in {NoSave} \cup Saves
    /\ outcome \in {"ok", "error", "cut"}
    /\ slot["A"].ok /\ slot["B"].ok => slot["A"].seq # slot["B"].seq
    /\ op.pc # "idle" =>
          /\ slot[Spare].ok => slot[Spare].seq < op.seq
          /\ op.pc = "erase" /\ slot[op.target].ok =>
                slot[Spare].ok /\ slot[op.target].seq < slot[Spare].seq
          /\ op.pc \in {"program", "last"} => slot[op.target] = Invalid
          /\ op.pc = "verify" => slot[op.target] \in {Invalid, Valid(op.seq, op.image)}

\* What the slots of a well-formed flash hold.
LEMMA SlotFacts ==
    ASSUME SlotsType, NEW s \in Slots
    PROVE  /\ slot[s].ok \in BOOLEAN
           /\ slot[s].ok => slot[s].seq \in Nat \ {0} /\ slot[s].image \in Tables
           /\ ~slot[s].ok <=> slot[s] = Invalid
<1>1. slot[s] = Invalid \/ slot[s] \in [ok : {TRUE}, seq : Nat \ {0}, image : Tables]
  BY DEF SlotsType
<1>2. Invalid.ok = FALSE
  BY DEF Invalid
<1>3. CASE slot[s] = Invalid
  BY <1>2, <1>3
<1>4. CASE slot[s] \in [ok : {TRUE}, seq : Nat \ {0}, image : Tables]
  <2>1. slot[s].ok = TRUE /\ slot[s].seq \in Nat \ {0} /\ slot[s].image \in Tables
    BY <1>4
  <2> QED BY <1>2, <2>1
<1> QED BY <1>1, <1>3, <1>4

\* A save in progress has a target, a number and an image.
LEMMA FlashFacts ==
    ASSUME FlashInv
    PROVE  /\ \A s \in Slots : /\ slot[s].ok \in BOOLEAN
                               /\ slot[s].ok => slot[s].seq \in Nat \ {0}
                                                /\ slot[s].image \in Tables
                               /\ ~slot[s].ok <=> slot[s] = Invalid
           /\ op.pc # "idle" => op \in Saves /\ op.seq \in Nat \ {0} /\ op.image \in Tables
           /\ op.pc = "idle" => op = NoSave
           /\ None \notin Tables
<1>1. ASSUME NEW s \in Slots
      PROVE  /\ slot[s].ok \in BOOLEAN
             /\ slot[s].ok => slot[s].seq \in Nat \ {0} /\ slot[s].image \in Tables
             /\ ~slot[s].ok <=> slot[s] = Invalid
  BY SlotFacts DEF FlashInv
<1>2. op = NoSave \/ op \in Saves
  BY DEF FlashInv
<1>3. CASE op = NoSave
  BY <1>1, <1>3, NvsAssumption DEF NoSave, Tables
<1>4. CASE op \in Saves
  <2>1. op.pc # "idle" /\ op.seq \in Nat \ {0} /\ op.image \in Tables
    BY <1>4 DEF Saves
  <2> QED BY <1>1, <1>4, <2>1, NvsAssumption DEF Tables
<1> QED BY <1>2, <1>3, <1>4

\* The two slots, one of them the target.
LEMMA TwoSlots ==
    ASSUME FlashInv, op.pc # "idle"
    PROVE  /\ op.target \in Slots /\ Spare \in Slots /\ Spare # op.target
           /\ \A s \in Slots : s = op.target \/ s = Spare
           /\ (op.target = "A" /\ Spare = "B") \/ (op.target = "B" /\ Spare = "A")
<1>1. op.target \in Slots
  BY FlashFacts DEF Saves
<1> QED BY <1>1 DEF Slots, Other, Spare

\* What a load finds: the one valid slot, or that with the larger number.
LoadRule ==
    \A t, o \in Slots : t # o =>
        /\ ~slot[t].ok /\ ~slot[o].ok => Load = None
        /\ slot[t].ok /\ ~slot[o].ok => Load = slot[t].image
        /\ slot[t].ok /\ slot[o].ok /\ slot[o].seq < slot[t].seq => Load = slot[t].image

\* A load finds the valid slot with the larger number.
LEMMA LoadFinds == SlotsType => LoadRule
<1> SUFFICES ASSUME SlotsType, NEW t \in Slots, NEW o \in Slots, t # o
    PROVE  /\ ~slot[t].ok /\ ~slot[o].ok => Load = None
           /\ slot[t].ok /\ ~slot[o].ok => Load = slot[t].image
           /\ slot[t].ok /\ slot[o].ok /\ slot[o].seq < slot[t].seq => Load = slot[t].image
  BY DEF LoadRule
<1>1. /\ slot[t].ok => slot[t].seq \in Nat
      /\ slot[o].ok => slot[o].seq \in Nat
      /\ (t = "A" /\ o = "B") \/ (t = "B" /\ o = "A")
      /\ Found <=> slot[t].ok \/ slot[o].ok
  BY SlotFacts DEF Slots, Found
<1> QED BY <1>1 DEF Load, Active, NewerThan

\* While a save is in progress that is its image, or what was there before.
LEMMA LoadIs ==
    ASSUME FlashInv, op.pc # "idle"
    PROVE  Load = IF op.pc = "verify" /\ slot[op.target].ok THEN op.image ELSE KeptBefore
<1>1. /\ LoadRule /\ op.target \in Slots /\ Spare \in Slots /\ Spare # op.target
      /\ \A s \in Slots : slot[s].ok \in BOOLEAN
      /\ op.pc \in {"erase", "program", "last", "verify"}
  BY LoadFinds, FlashFacts, TwoSlots DEF FlashInv, Saves
<1>2. /\ slot[Spare].ok => slot[Spare].seq < op.seq
      /\ op.pc = "erase" /\ slot[op.target].ok =>
            slot[Spare].ok /\ slot[op.target].seq < slot[Spare].seq
      /\ op.pc \in {"program", "last"} => ~slot[op.target].ok
      /\ op.pc = "verify" /\ slot[op.target].ok =>
            slot[op.target].seq = op.seq /\ slot[op.target].image = op.image
  BY DEF FlashInv, Invalid, Valid
<1> QED BY <1>1, <1>2 DEF LoadRule, KeptBefore

\* A save begins, whatever its number.
Begins(image) ==
    /\ op.pc = "idle"
    /\ op' = [pc |-> "erase", target |-> TargetSlot, seq |-> NextSeq, image |-> image]
    /\ UNCHANGED <<slot, outcome>>

\* A save begins with the slot that does not count and the next number.
LEMMA FlashBegins ==
    ASSUME FlashInv, NEW image \in Tables, Begins(image)
    PROVE  FlashInv' /\ Load' = Load /\ op'.image = image /\ op'.pc = "erase"
<1>1. /\ slot' = slot /\ outcome' = outcome
      /\ op' = [pc |-> "erase", target |-> TargetSlot, seq |-> NextSeq, image |-> image]
  BY DEF Begins
<1>2. \A s \in Slots : slot[s].ok => slot[s].seq \in Nat \ {0}
  BY FlashFacts
<1>3. TargetSlot \in Slots /\ NextSeq \in Nat \ {0}
  BY <1>2 DEF TargetSlot, NextSeq, Found, Active, Slots, Other
<1>4. op' \in Saves
  BY <1>1, <1>3 DEF Saves
<1>5. /\ slot[Spare'].ok => slot[Spare'].seq < NextSeq
      /\ slot[TargetSlot].ok => slot[Spare'].ok /\ slot[TargetSlot].seq < slot[Spare'].seq
  <2>1. Spare' = Other(TargetSlot)
    BY <1>1 DEF Spare, Other
  <2>2. "A" \in Slots /\ "B" \in Slots /\ (Found <=> slot["A"].ok \/ slot["B"].ok)
    BY DEF Found, Slots
  <2>3. slot["A"].ok /\ slot["B"].ok => slot["A"].seq # slot["B"].seq
    BY DEF FlashInv
  <2> QED
    BY <1>2, <2>1, <2>2, <2>3 DEF TargetSlot, NextSeq, Active, Other, NewerThan
<1>6. FlashInv'
  <2>1. SlotsType' /\ outcome' \in {"ok", "error", "cut"}
        /\ (slot'["A"].ok /\ slot'["B"].ok => slot'["A"].seq # slot'["B"].seq)
    BY <1>1 DEF FlashInv, SlotsType
  <2>2. op'.pc = "erase" /\ op'.target = TargetSlot /\ op'.seq = NextSeq
    BY <1>1
  <2> QED BY <1>1, <1>4, <1>5, <2>1, <2>2 DEF FlashInv
<1>7. Load' = Load
  BY <1>1 DEF Load, Found, Active
<1> QED BY <1>1, <1>6, <1>7

\* What a step of a save may come to: it goes on, and may have taken effect; or it
\* says that it failed, and may have taken effect; or it says that it is done.
LEMMA FlashSaves ==
    ASSUME FlashInv, SaveStep
    PROVE  /\ FlashInv' /\ op.pc # "idle" /\ Load' \in {Load, op.image}
           /\ \/ /\ op'.pc # "idle" /\ op'.image = op.image /\ outcome' = outcome
              \/ op' = NoSave /\ outcome' = "error"
              \/ op' = NoSave /\ outcome' = "ok" /\ Load = op.image /\ Load' = Load
<1> DEFINE Erased == [slot EXCEPT ![op.target] = Invalid]
<1>0. op.pc \in {"erase", "program", "last", "verify"}
  BY DEF SaveStep, Erase, EraseFails, Program, ProgramLast, ProgramFails, Verify
<1>1. /\ op \in Saves /\ op.target \in Slots /\ Spare \in Slots /\ Spare # op.target
      /\ \A s \in Slots : s = op.target \/ s = Spare
      /\ op.seq \in Nat \ {0} /\ op.image \in Tables
      /\ Load = IF op.pc = "verify" /\ slot[op.target].ok THEN op.image ELSE KeptBefore
      /\ LoadRule' \/ ~SlotsType'
      /\ slot[Spare].ok => slot[Spare].seq < op.seq /\ slot[Spare].seq \in Nat
  <2>1. SlotsType' => LoadRule'
    BY LoadFinds, PTL
  <2> QED BY <1>0, <2>1, FlashFacts, TwoSlots, LoadIs DEF FlashInv
<1> DEFINE Distinct == slot["A"].ok /\ slot["B"].ok => slot["A"].seq # slot["B"].seq
\* What a step leaves in the target.
<1>2. ASSUME slot' = slot
      PROVE  SlotsType' /\ Distinct' /\ Load' = Load
  BY <1>2 DEF FlashInv, SlotsType, Load, Found, Active
<1>3. ASSUME slot' = Erased, op.pc = "erase"
      PROVE  /\ SlotsType' /\ Distinct' /\ Load' = Load
             /\ slot'[op.target] = Invalid /\ slot'[Spare] = slot[Spare]
  <2>1. SlotsType' /\ slot'[op.target] = Invalid /\ slot'[Spare] = slot[Spare]
    BY <1>1, <1>3 DEF FlashInv, SlotsType
  <2>2. ~slot'[op.target].ok
    BY <2>1 DEF Invalid
  <2>3. Distinct'
    BY <1>0, <1>1, <2>2, TwoSlots
  <2>4. Load' = KeptBefore
    BY <1>1, <2>1, <2>2 DEF LoadRule, KeptBefore
  <2> QED BY <1>1, <1>3, <2>1, <2>3, <2>4
<1>4. ASSUME slot' = Kept
      PROVE  /\ SlotsType' /\ Distinct' /\ Load' = op.image
             /\ slot'[op.target] = Valid(op.seq, op.image) /\ slot'[Spare] = slot[Spare]
  <2>1. SlotsType' /\ slot'[op.target] = Valid(op.seq, op.image) /\ slot'[Spare] = slot[Spare]
    BY <1>1, <1>4 DEF FlashInv, SlotsType, Kept, Valid
  <2>2. /\ slot'[op.target].ok /\ slot'[op.target].seq = op.seq
        /\ slot'[op.target].image = op.image
    BY <2>1 DEF Valid
  <2>3. Distinct'
    BY <1>0, <1>1, <2>1, <2>2, TwoSlots
  <2>4. slot'[Spare].ok \in BOOLEAN
    BY <1>1, <2>1, FlashFacts
  <2>5. Load' = op.image
    BY <1>1, <2>1, <2>2, <2>4 DEF LoadRule
  <2> QED BY <2>1, <2>3, <2>5
\* A step that returns.
<1>5. ASSUME op' = NoSave, outcome' \in {"ok", "error", "cut"}, SlotsType', Distinct'
      PROVE  FlashInv'
  <2>1. op'.pc = "idle"
    BY <1>5 DEF NoSave
  <2> QED BY <1>5, <2>1 DEF FlashInv
\* A step that goes on.
<1>6. ASSUME NEW pc \in {"program", "last", "verify"},
             op' = [op EXCEPT !.pc = pc], outcome' = outcome, SlotsType', Distinct',
             slot'[Spare] = slot[Spare],
             pc \in {"program", "last"} => slot'[op.target] = Invalid,
             pc = "verify" => slot'[op.target] \in {Invalid, Valid(op.seq, op.image)}
      PROVE  FlashInv' /\ op'.pc # "idle" /\ op'.image = op.image
  <2>1. /\ op' \in Saves /\ op'.pc = pc /\ op'.image = op.image /\ op'.seq = op.seq
        /\ op'.target = op.target
    BY <1>1, <1>6 DEF Saves
  <2>2. Spare' = Spare
    BY <2>1 DEF Spare, Other
  <2>3. outcome' \in {"ok", "error", "cut"}
    BY <1>6 DEF FlashInv
  <2> QED BY <1>1, <1>6, <2>1, <2>2, <2>3 DEF FlashInv
<1>7. CASE Erase
  <2>1. slot' = Erased /\ op.pc = "erase" /\ op' = [op EXCEPT !.pc = "program"]
        /\ outcome' = outcome
    BY <1>7 DEF Erase, GoOn
  <2> QED BY <1>3, <1>6, <2>1
<1>8. CASE EraseFails
  <2>1. slot' \in {slot, Erased} /\ op.pc = "erase" /\ op' = NoSave /\ outcome' = "error"
    BY <1>8 DEF EraseFails, Return
  <2> QED BY <1>2, <1>3, <1>5, <2>1
<1>9. CASE Program
  <2>1. slot' = slot /\ op.pc = "program" /\ op' = [op EXCEPT !.pc = "last"]
        /\ outcome' = outcome /\ slot[op.target] = Invalid
    BY <1>9 DEF Program, GoOn, FlashInv
  <2> QED BY <1>2, <1>6, <2>1
<1>10. CASE ProgramLast
  <2>1. slot' \in {slot, Kept} /\ op.pc = "last" /\ op' = [op EXCEPT !.pc = "verify"]
        /\ outcome' = outcome /\ slot[op.target] = Invalid
    BY <1>10 DEF ProgramLast, GoOn, FlashInv
  <2> QED BY <1>2, <1>4, <1>6, <2>1
<1>11. CASE ProgramFails
  <2>1. slot' \in {slot, Kept} /\ op' = NoSave /\ outcome' = "error"
    BY <1>11 DEF ProgramFails, Return
  <2> QED BY <1>0, <1>2, <1>4, <1>5, <2>1
<1>12. CASE Verify
  <2>1. slot' = slot /\ op.pc = "verify" /\ op' = NoSave /\ outcome' \in {"ok", "error"}
        /\ (outcome' = "ok" => slot = Kept)
    BY <1>12 DEF Verify, Return, ReadBack
  <2>2. slot = Kept => slot[op.target].ok
    BY <1>1 DEF Kept, Valid, FlashInv, SlotsType
  <2>3. outcome' = "ok" => Load = op.image
    BY <1>1, <2>1, <2>2
  <2> QED BY <1>2, <1>5, <2>1, <2>3
<1> QED BY <1>7, <1>8, <1>9, <1>10, <1>11, <1>12 DEF SaveStep

\* Power fails in the middle of it.
LEMMA FlashCut ==
    ASSUME FlashInv, PowerFails
    PROVE  FlashInv' /\ Load' = Load /\ op'.pc = "idle" /\ op' = NoSave
           /\ (op.pc # "idle" => outcome' = "cut")
<1>1. slot' = slot /\ op' = NoSave /\ outcome' \in {"ok", "error", "cut"}
      /\ (op.pc # "idle" => outcome' = "cut")
  BY DEF PowerFails, FlashInv
<1>2. op'.pc = "idle"
  BY <1>1 DEF NoSave
<1> QED BY <1>1, <1>2 DEF FlashInv, SlotsType, Load, Found, Active

\* A step that leaves the flash alone.
LEMMA FlashSame ==
    ASSUME FlashInv, UNCHANGED flashVars
    PROVE  FlashInv' /\ Load' = Load
BY DEF flashVars, FlashInv, SlotsType, Spare, Load, Found, Active

-----------------------------------------------------------------------------
(* The records and the parameters                                              *)

ParamTypes ==
    /\ {store, before} \subseteq Tables /\ attempted \subseteq Tables /\ old \in Image
    /\ vals \in [Params -> Values] /\ applied \in [Params -> Values]
    /\ booted \in [Params -> Values]
    /\ call \in {"none", "save", "own", "reset", "undo", "rollback"}

\* The parameters alone of a table.
OfParams(t) == [k \in Keys |-> IF k \in Params THEN t[k] ELSE None]

\* A call that waits for its commit commits the records as they are; a save has put
\* the values into them, and a reset taken them out and noted what they were.
ParamCalls ==
    /\ call \in {"none", "undo"} <=> op.pc = "idle"
    /\ op.pc # "idle" => op.image = store /\ store \in attempted
    /\ call = "save" => \A p \in Params : store[p] = vals[p]
    /\ call = "reset" => store = WithoutParams(before) /\ old = OfParams(before)

ParamInv ==
    /\ ParamTypes /\ ParamCalls
    /\ StartFindsWhole /\ ActsAsShown /\ FailedResetUndone

SettingsInv == FlashInv /\ ParamInv

\* The steps that do not depend on the bound of the sequence numbers and on what the
\* application keeps, and those that do without either.
Commits(t, who) == Begins(t) /\ call' = who /\ attempted' = attempted \cup {t}
SaveBegins ==
    /\ Idle /\ Room(store, Params) /\ store' = Mirror /\ Commits(store', "save")
    /\ UNCHANGED <<vals, applied, old, booted, before>>
OwnBegins ==
    /\ Idle
    /\ \E v \in Values \cup {None} :
          (v # None => Room(store, {Foreign})) /\ store' = [store EXCEPT ![Foreign] = v]
    /\ Commits(store', "own")
    /\ UNCHANGED <<vals, applied, old, booted, before>>
ResetBegins ==
    /\ Idle /\ old' = OfParams(store) /\ store' = WithoutParams(store) /\ before' = store
    /\ Commits(store', "reset")
    /\ UNCHANGED <<vals, applied, booted>>
RollbackBegins ==
    /\ call = "undo" /\ Commits(store, "rollback")
    /\ UNCHANGED <<vals, applied, store, old, booted, before>>
ParamStep ==
    \/ Restart
    \/ \E p \in Params, v \in Values : Set(p, v)
    \/ SaveHalfway \/ FlashWorks \/ CommitSucceeds \/ CommitFails \/ ResetFails
    \/ SaveBegins \/ OwnBegins \/ ResetBegins \/ RollbackBegins

\* The steps of the parameters, without the bounds that TLC needs.
LEMMA ParamSteps == Next => ParamStep
<1>1. Save => SaveBegins
  BY DEF Save, SaveBegins, Commit, Commits, BeginSave, Begins
<1>2. OwnRecord => OwnBegins
  BY ParamAssumption DEF OwnRecord, OwnBegins, Commit, Commits, BeginSave, Begins
<1>3. Reset => ResetBegins
  BY DEF Reset, ResetBegins, OfParams, Commit, Commits, BeginSave, Begins
<1>4. Rollback => RollbackBegins
  BY DEF Rollback, RollbackBegins, Commit, Commits, BeginSave, Begins
<1> QED BY <1>1, <1>2, <1>3, <1>4 DEF Next, ParamStep

\* The table that the application fills counts as the other one does.
LEMMA FullCardinality == \A S : Full!Cardinality(S) = Cardinality(S)
BY DEF Full!Cardinality, Cardinality

\* It has room when the other one has.
LEMMA FullRoom == \A t, ks : Full!Room(t, ks) = Room(t, ks)
BY FullCardinality DEF Full!Room, Room, Full!Keys, Keys

\* What the flash does is the same with a full table.
LEMMA FullFlash ==
    /\ Full!SaveStep => SaveStep
    /\ Full!PowerFails => PowerFails
    /\ \A t, who : Full!Commit(t, who) => Commits(t, who)
    /\ \A image : Full!Start(image) => Start(image)
    /\ Full!Load = Load
<1> USE DEF Full!Found, Found, Full!Active, Active, Full!NewerThan, NewerThan,
            Full!Other, Other, Full!Slots, Slots, Full!Invalid, Invalid, Full!Valid, Valid,
            Full!NoSave, NoSave, Full!Keys, Keys
<1>1. /\ Full!Erase = Erase /\ Full!EraseFails = EraseFails /\ Full!Program = Program
      /\ Full!Kept = Kept
  BY DEF Full!Erase, Erase, Full!EraseFails, EraseFails, Full!Program, Program,
         Full!Kept, Kept, Full!GoOn, GoOn, Full!Return, Return
<1>2. /\ Full!ProgramLast = ProgramLast /\ Full!ProgramFails = ProgramFails
      /\ Full!Verify = Verify
  BY <1>1
     DEF Full!ProgramLast, ProgramLast, Full!ProgramFails, ProgramFails,
         Full!Verify, Verify, Full!ReadBack, ReadBack, Full!GoOn, GoOn, Full!Return, Return
<1>3. Full!SaveStep => SaveStep
  BY <1>1, <1>2 DEF Full!SaveStep, SaveStep
<1>4. Full!PowerFails => PowerFails
  BY DEF Full!PowerFails, PowerFails
<1>5. \A t, who : Full!Commit(t, who) => Commits(t, who)
  BY DEF Full!Commit, Commits, Full!BeginSave, Begins, Full!TargetSlot, TargetSlot,
         Full!NextSeq, NextSeq
<1>6. \A image : Full!Start(image) => Start(image)
  BY DEF Full!Start, Start, Full!Records, Records, Full!NoRecords, NoRecords,
         Full!Overlaid, Overlaid, Full!InRange, InRange
<1>7. Full!Load = Load
  BY DEF Full!Load, Load
<1> QED BY <1>3, <1>4, <1>5, <1>6, <1>7

\* What the application fills the table with is one of the values.
LEMMA FullSteps == Full!Next => ParamStep
<1> USE DEF Full!Keys, Keys, Full!Idle, Idle
<1>1. Full!Restart => Restart
  BY FullFlash DEF Full!Restart, Restart
<1>2. \A p \in Params, v \in Values : Full!Set(p, v) => Set(p, v)
  BY DEF Full!Set, Set, Full!ActsAtOnce, ActsAtOnce, Full!flashVars, flashVars
<1>3. Full!Save => SaveBegins
  BY FullFlash, FullRoom DEF Full!Save, SaveBegins, Full!Mirror, Mirror
<1>4. Full!SaveHalfway => SaveHalfway
  BY FullRoom DEF Full!SaveHalfway, SaveHalfway, Full!flashVars, flashVars
<1>5. Full!OwnRecord => OwnBegins
  <2>1. Default \in Values
    BY ParamAssumption
  <2> QED BY <2>1, FullFlash, FullRoom DEF Full!OwnRecord, OwnBegins
<1>6. Full!Reset => ResetBegins
  BY FullFlash
     DEF Full!Reset, ResetBegins, Full!WithoutParams, WithoutParams, OfParams
<1>7. Full!FlashWorks => FlashWorks
  BY FullFlash DEF Full!FlashWorks, FlashWorks, Full!paramVars, paramVars
<1>8. Full!CommitSucceeds => CommitSucceeds
  BY FullFlash
     DEF Full!CommitSucceeds, CommitSucceeds, Full!Saved, Saved, Full!Returns, Returns,
         Full!NoRecords, NoRecords, Full!ActsAtOnce, ActsAtOnce
<1>9. Full!CommitFails => CommitFails
  BY FullFlash
     DEF Full!CommitFails, CommitFails, Full!Saved, Saved, Full!Returns, Returns,
         Full!NoRecords, NoRecords
<1>10. Full!ResetFails => ResetFails
  BY FullFlash
     DEF Full!ResetFails, ResetFails, Full!Saved, Saved, Full!PutBack, PutBack
<1>11. Full!Rollback => RollbackBegins
  BY FullFlash DEF Full!Rollback, RollbackBegins
<1> QED
  BY <1>1, <1>2, <1>3, <1>4, <1>5, <1>6, <1>7, <1>8, <1>9, <1>10, <1>11
     DEF Full!Next, ParamStep

\* Facts about tables of records.
LEMMA TableFacts ==
    /\ Image = [Keys -> Values \cup {Bad, None}]
    /\ NoRecords \in Tables /\ Tables \subseteq Image /\ None \notin Image
    /\ None \notin Values /\ IsFiniteSet(Keys) /\ Default \in Values
    /\ Params \subseteq Keys /\ Foreign \in Keys /\ Foreign \notin Params
<1>1. /\ Image = [Keys -> Values \cup {Bad, None}] /\ None \notin Values /\ Default \in Values
      /\ Params \subseteq Keys /\ Foreign \in Keys /\ Foreign \notin Params
      /\ IsFiniteSet(Params) /\ MaxEntries \in Nat
  BY ParamAssumption DEF Keys
<1>2. IsFiniteSet(Keys)
  BY <1>1, FS_AddElement DEF Keys
<1>3. NoRecords \in Image /\ Used(NoRecords) = {}
  BY <1>1 DEF NoRecords, Used
<1>4. NoRecords \in Tables
  BY <1>1, <1>3, FS_EmptySet DEF Tables
<1> QED BY <1>1, <1>2, <1>4, NvsAssumption DEF Tables

\* A table that uses no more keys than one that fits is one that fits.
LEMMA SmallerFits ==
    ASSUME NEW t \in Image, NEW S \in SUBSET Keys, Cardinality(S) <= MaxEntries,
           Used(t) \subseteq S
    PROVE  t \in Tables
<1>1. IsFiniteSet(S)
  BY TableFacts, FS_Subset
<1>2. Cardinality(Used(t)) <= Cardinality(S) /\ Cardinality(Used(t)) \in Nat
      /\ Cardinality(S) \in Nat /\ MaxEntries \in Nat
  BY <1>1, FS_Subset, FS_CardinalityType, ParamAssumption
<1> QED BY <1>2 DEF Tables

\* A table with room for some keys is one that fits with these keys set.
LEMMA RoomFits ==
    ASSUME NEW t \in Image, NEW u \in Image, NEW ks \in SUBSET Keys, Room(t, ks),
           \A k \in Keys \ ks : u[k] # None => t[k] # None
    PROVE  u \in Tables
<1> DEFINE S == {k \in Keys : t[k] # None} \cup ks
<1>1. S \in SUBSET Keys /\ Cardinality(S) <= MaxEntries /\ Used(u) \subseteq S
  BY DEF Room, Used
<1> QED BY <1>1, SmallerFits

\* What a load finds fits as well.
LEMMA RecordsFit ==
    ASSUME FlashInv
    PROVE  /\ Load \in Tables \cup {None} /\ Records(Load) \in Tables
           /\ Overlaid(Load) \in [Params -> Values]
<1>1. Load \in Tables \cup {None}
  BY FlashFacts DEF Load, Found, Active, Slots
<1>2. Records(Load) \in Tables
  BY <1>1, TableFacts DEF Records
<1> QED BY <1>1, <1>2, TableFacts DEF Overlaid, InRange

\* What a step of ParamStore does to the cell and to the values a success shows.
CellStep == [Cell!Next]_(Cell!vars)
KeptStep ==
    call \in {"save", "reset"} /\ call' = "none" /\ outcome' = "ok"
        => vals' = Overlaid(Load)'

\* The beginning of a commit of a table that fits.
LEMMA CommitBegins ==
    ASSUME SettingsInv, NEW t \in Tables, NEW who \in {"save", "own", "reset", "rollback"},
           Commits(t, who)
    PROVE  /\ FlashInv' /\ op'.pc # "idle" /\ op'.image = t /\ call' = who
           /\ attempted' \subseteq Tables /\ t \in attempted'
           /\ StartFindsWhole' /\ CellStep /\ KeptStep
<1>1. /\ FlashInv' /\ Load' = Load /\ op'.image = t /\ op'.pc = "erase"
      /\ op.pc = "idle" /\ outcome' = outcome /\ call' = who
      /\ attempted' = attempted \cup {t}
  BY FlashBegins DEF SettingsInv, Commits, Begins
<1>2. op.image = None
  BY <1>1, FlashFacts DEF SettingsInv, NoSave
<1>3. StartFindsWhole'
  BY <1>1 DEF SettingsInv, ParamInv, StartFindsWhole, Records
<1>4. CellStep
  BY <1>1, <1>2, TableFacts DEF CellStep, Cell!Next, Cell!Begin
<1> QED BY <1>1, <1>3, <1>4 DEF KeptStep, SettingsInv, ParamInv, ParamTypes

\* A step of a commit is a step of the cell.
LEMMA CommitGoesOn ==
    ASSUME SettingsInv, SaveStep
    PROVE  /\ FlashInv' /\ CellStep /\ Load' \in {Load, store}
           /\ op.pc # "idle" /\ op.image = store
           /\ outcome' = "ok" /\ op'.pc = "idle" => Load' = store
<1>1. /\ FlashInv' /\ op.pc # "idle" /\ Load' \in {Load, op.image}
      /\ \/ /\ op'.pc # "idle" /\ op'.image = op.image /\ outcome' = outcome
         \/ op' = NoSave /\ outcome' = "error"
         \/ op' = NoSave /\ outcome' = "ok" /\ Load = op.image /\ Load' = Load
  BY FlashSaves DEF SettingsInv
<1>2. op.image = store /\ op.image # None /\ NoSave.image = None /\ NoSave.pc = "idle"
  BY <1>1, FlashFacts DEF SettingsInv, ParamInv, ParamCalls, NoSave
<1>3. CellStep
  BY <1>1, <1>2
     DEF CellStep, Cell!Next, Cell!TakeEffect, Cell!Succeed, Cell!Stop, Cell!vars
<1> QED BY <1>1, <1>2, <1>3

\* Every step keeps the invariant, is a step of the cell, and shows what it keeps.
LEMMA SettingsStep ==
    ASSUME SettingsInv, ParamStep
    PROVE  SettingsInv' /\ CellStep /\ KeptStep
<1>0. /\ FlashInv /\ ParamInv /\ ParamTypes /\ ParamCalls
      /\ StartFindsWhole /\ ActsAsShown /\ FailedResetUndone
  BY DEF SettingsInv, ParamInv
<1>1. CASE Restart
  <2>1. /\ FlashInv' /\ Load' = Load /\ op'.pc = "idle" /\ op' = NoSave
        /\ op.pc # "idle" => outcome' = "cut"
        /\ op.pc = "idle" => outcome' = outcome
        /\ Start(Load)
    BY <1>0, <1>1, FlashCut DEF Restart, PowerFails
  <2>2. /\ store' = Records(Load) /\ vals' = Overlaid(Load) /\ applied' = Overlaid(Load)
        /\ booted' = Overlaid(Load) /\ old' = NoRecords /\ call' = "none"
        /\ before' = NoRecords /\ attempted' = {Records(Load)}
    BY <2>1 DEF Start
  <2>3. ParamTypes'
    BY <1>0, <2>2, RecordsFit, TableFacts DEF ParamTypes
  <2>4. ParamCalls' /\ FailedResetUndone' /\ ActsAsShown'
    BY <2>1, <2>2 DEF ParamCalls, FailedResetUndone, ActsAsShown
  <2>5. StartFindsWhole'
    BY <2>1, <2>2 DEF StartFindsWhole, Records
  <2>6. CellStep
    <3>1. op.pc # "idle" => op.image # None
      BY <1>0, FlashFacts
    <3>2. op.pc = "idle" => op.image = None
      BY <1>0, FlashFacts DEF NoSave
    <3> QED
      BY <2>1, <3>1, <3>2 DEF CellStep, Cell!Next, Cell!Stop, Cell!vars, NoSave
  <2>7. KeptStep
    BY <1>0, <2>1, <2>2 DEF KeptStep, Overlaid, Records, InRange
  <2> QED BY <2>1, <2>3, <2>4, <2>5, <2>6, <2>7 DEF SettingsInv, ParamInv
\* Steps that leave the flash alone.
<1>2. ASSUME UNCHANGED flashVars PROVE FlashInv' /\ Load' = Load /\ CellStep
  BY <1>0, <1>2, FlashSame DEF CellStep, Cell!vars, flashVars
<1>3. ASSUME NEW p \in Params, NEW v \in Values, Set(p, v)
      PROVE  SettingsInv' /\ CellStep /\ KeptStep
  <2>1. /\ call = "none" /\ vals' = [vals EXCEPT ![p] = v]
        /\ applied' = IF p \notin AtReboot THEN [applied EXCEPT ![p] = v] ELSE applied
        /\ UNCHANGED <<flashVars, store, old, call, booted, before, attempted>>
    BY <1>3 DEF Set, Idle, ActsAtOnce
  <2>2. FlashInv' /\ Load' = Load /\ CellStep /\ op' = op
    BY <1>2, <2>1 DEF flashVars
  <2>3. ParamTypes'
    BY <1>0, <2>1 DEF ParamTypes
  <2>4. ParamCalls' /\ FailedResetUndone'
    BY <1>0, <2>1, <2>2 DEF ParamCalls, FailedResetUndone
  <2>5. ActsAsShown'
    BY <1>0, <2>1 DEF ActsAsShown, ParamTypes
  <2>6. StartFindsWhole' /\ KeptStep
    BY <1>0, <2>1, <2>2 DEF StartFindsWhole, Records, KeptStep
  <2> QED BY <2>2, <2>3, <2>4, <2>5, <2>6 DEF SettingsInv, ParamInv
<1>4. CASE SaveHalfway
  <2>1. PICK set \in SUBSET Params :
           /\ Room(store, set)
           /\ store' = [k \in Keys |-> IF k \in set THEN vals[k] ELSE store[k]]
    BY <1>4 DEF SaveHalfway
  <2>2. /\ call = "none"
        /\ UNCHANGED <<flashVars, vals, applied, old, call, booted, before, attempted>>
    BY <1>4 DEF SaveHalfway, Idle
  <2>3. store' \in Image /\ store \in Image /\ set \in SUBSET Keys
    BY <1>0, <2>1, TableFacts DEF ParamTypes
  <2>4. store' \in Tables
    <3>1. \A k \in Keys \ set : store'[k] # None => store[k] # None
      BY <2>1
    <3> QED BY <2>1, <2>3, <3>1, RoomFits
  <2>5. FlashInv' /\ Load' = Load /\ CellStep /\ op' = op
    BY <1>2, <2>2 DEF flashVars
  <2>6. ParamTypes'
    BY <1>0, <2>2, <2>4 DEF ParamTypes
  <2>7. ParamCalls' /\ FailedResetUndone' /\ ActsAsShown'
    BY <1>0, <2>2, <2>5 DEF ParamCalls, FailedResetUndone, ActsAsShown
  <2>8. StartFindsWhole' /\ KeptStep
    BY <1>0, <2>2, <2>5 DEF StartFindsWhole, Records, KeptStep
  <2> QED BY <2>5, <2>6, <2>7, <2>8 DEF SettingsInv, ParamInv
<1>5. CASE SaveBegins
  <2>1. /\ call = "none" /\ Room(store, Params) /\ store' = Mirror /\ Commits(store', "save")
        /\ UNCHANGED <<vals, applied, old, booted, before>>
    BY <1>5 DEF SaveBegins, Idle
  <2>2. /\ store' \in Image /\ store \in Image /\ Params \in SUBSET Keys
        /\ \A k \in Keys \ Params : store'[k] # None => store[k] # None
        /\ \A p \in Params : store'[p] = vals[p]
    BY <1>0, <2>1, TableFacts DEF ParamTypes, Mirror
  <2>3. store' \in Tables
    BY <2>1, <2>2, RoomFits
  <2>4. /\ FlashInv' /\ op'.pc # "idle" /\ op'.image = store' /\ call' = "save"
        /\ attempted' \subseteq Tables /\ store' \in attempted'
        /\ StartFindsWhole' /\ CellStep /\ KeptStep
    BY <2>1, <2>3, CommitBegins
  <2>5. ParamTypes'
    BY <1>0, <2>1, <2>3, <2>4 DEF ParamTypes
  <2>6. ParamCalls' /\ FailedResetUndone' /\ ActsAsShown'
    BY <1>0, <2>1, <2>2, <2>4 DEF ParamCalls, FailedResetUndone, ActsAsShown
  <2> QED BY <2>4, <2>5, <2>6 DEF SettingsInv, ParamInv
<1>6. CASE OwnBegins
  <2>1. PICK v \in Values \cup {None} :
           (v # None => Room(store, {Foreign})) /\ store' = [store EXCEPT ![Foreign] = v]
    BY <1>6 DEF OwnBegins
  <2>2. /\ call = "none" /\ Commits(store', "own")
        /\ UNCHANGED <<vals, applied, old, booted, before>>
    BY <1>6 DEF OwnBegins, Idle
  <2>3. /\ store' \in Image /\ store \in Image /\ {Foreign} \in SUBSET Keys
        /\ store \in Tables
        /\ \A k \in Keys \ {Foreign} : store'[k] # None => store[k] # None
        /\ v = None => store'[Foreign] = None
    BY <1>0, <2>1, TableFacts DEF ParamTypes
  <2>4. store' \in Tables
    <3>1. CASE v = None
      <4>1. Used(store') \subseteq Used(store) /\ Used(store) \in SUBSET Keys
        BY <2>3, <3>1 DEF Used
      <4> QED BY <2>3, <4>1, SmallerFits DEF Tables
    <3>2. CASE v # None
      BY <2>1, <2>3, <3>2, RoomFits
    <3> QED BY <3>1, <3>2
  <2>5. /\ FlashInv' /\ op'.pc # "idle" /\ op'.image = store' /\ call' = "own"
        /\ attempted' \subseteq Tables /\ store' \in attempted'
        /\ StartFindsWhole' /\ CellStep /\ KeptStep
    BY <2>2, <2>4, CommitBegins
  <2>6. ParamTypes'
    BY <1>0, <2>2, <2>4, <2>5 DEF ParamTypes
  <2>7. ParamCalls' /\ FailedResetUndone' /\ ActsAsShown'
    BY <1>0, <2>2, <2>5 DEF ParamCalls, FailedResetUndone, ActsAsShown
  <2> QED BY <2>5, <2>6, <2>7 DEF SettingsInv, ParamInv
<1>7. CASE ResetBegins
  <2>1. /\ call = "none" /\ old' = OfParams(store) /\ store' = WithoutParams(store)
        /\ before' = store /\ Commits(store', "reset")
        /\ UNCHANGED <<vals, applied, booted>>
    BY <1>7 DEF ResetBegins, Idle
  <2>2. store \in Image /\ store' \in Image /\ old' \in Image /\ store \in Tables
    BY <1>0, <2>1, TableFacts DEF ParamTypes, OfParams, WithoutParams
  <2>3. store' \in Tables
    <3>1. Used(store') \subseteq Used(store) /\ Used(store) \in SUBSET Keys
      BY <2>1 DEF Used, WithoutParams
    <3> QED BY <2>2, <3>1, SmallerFits DEF Tables
  <2>4. /\ FlashInv' /\ op'.pc # "idle" /\ op'.image = store' /\ call' = "reset"
        /\ attempted' \subseteq Tables /\ store' \in attempted'
        /\ StartFindsWhole' /\ CellStep /\ KeptStep
    BY <2>1, <2>3, CommitBegins
  <2>5. ParamTypes'
    BY <1>0, <2>1, <2>2, <2>3, <2>4 DEF ParamTypes
  <2>6. store' = WithoutParams(before') /\ old' = OfParams(before')
    BY <2>1
  <2>7. ParamCalls' /\ FailedResetUndone' /\ ActsAsShown'
    BY <1>0, <2>1, <2>4, <2>6
       DEF ParamCalls, FailedResetUndone, ActsAsShown, WithoutParams, OfParams
  <2> QED BY <2>4, <2>5, <2>7 DEF SettingsInv, ParamInv
<1>8. CASE RollbackBegins
  <2>1. /\ call = "undo" /\ Commits(store, "rollback") /\ store \in Tables
        /\ UNCHANGED <<vals, applied, store, old, booted, before>>
    BY <1>0, <1>8 DEF RollbackBegins, ParamTypes
  <2>2. /\ FlashInv' /\ op'.pc # "idle" /\ op'.image = store /\ call' = "rollback"
        /\ attempted' \subseteq Tables /\ store \in attempted'
        /\ StartFindsWhole' /\ CellStep /\ KeptStep
    BY <2>1, CommitBegins
  <2>3. ParamTypes'
    BY <1>0, <2>1, <2>2 DEF ParamTypes
  <2>4. ParamCalls' /\ FailedResetUndone' /\ ActsAsShown'
    BY <1>0, <2>1, <2>2 DEF ParamCalls, FailedResetUndone, ActsAsShown
  <2> QED BY <2>2, <2>3, <2>4 DEF SettingsInv, ParamInv
<1>9. CASE FlashWorks
  <2>1. SaveStep /\ op'.pc # "idle" /\ UNCHANGED paramVars
    BY <1>9 DEF FlashWorks
  <2>2. /\ FlashInv' /\ CellStep /\ Load' \in {Load, store} /\ op'.image = store
        /\ op.pc # "idle" /\ op.image = store
    BY <2>1, CommitGoesOn, FlashSaves DEF SettingsInv, NoSave
  <2>3. ParamTypes' /\ ParamCalls' /\ FailedResetUndone' /\ ActsAsShown'
    BY <1>0, <2>1, <2>2
       DEF paramVars, ParamTypes, ParamCalls, FailedResetUndone, ActsAsShown
  <2>4. StartFindsWhole'
    BY <1>0, <2>1, <2>2, TableFacts
       DEF paramVars, StartFindsWhole, Records, ParamCalls, ParamTypes
  <2>5. KeptStep
    BY <2>1 DEF KeptStep, paramVars
  <2> QED BY <2>2, <2>3, <2>4, <2>5 DEF SettingsInv, ParamInv
<1>10. CASE CommitSucceeds
  <2>1. /\ SaveStep /\ op'.pc = "idle" /\ outcome' = "ok" /\ attempted' = {op.image}
        /\ call' = "none" /\ old' = NoRecords /\ before' = NoRecords
        /\ UNCHANGED <<store, booted>>
    BY <1>10 DEF CommitSucceeds, Saved, Returns
  <2>2. /\ FlashInv' /\ CellStep /\ Load' = store /\ op.pc # "idle" /\ op.image = store
        /\ store \in Tables /\ store # None
    BY <1>0, <2>1, CommitGoesOn, TableFacts DEF ParamTypes
  <2>3. /\ vals' = IF call = "reset" THEN [p \in Params |-> Default] ELSE vals
        /\ applied' = IF call = "reset"
                      THEN [p \in Params |-> IF p \notin AtReboot THEN Default ELSE applied[p]]
                      ELSE applied
    BY <1>10 DEF CommitSucceeds, ActsAtOnce
  <2>4. ParamTypes'
    BY <1>0, <2>1, <2>2, <2>3, TableFacts DEF ParamTypes
  <2>5. ParamCalls' /\ FailedResetUndone'
    BY <2>1 DEF ParamCalls, FailedResetUndone
  <2>6. ActsAsShown'
    BY <1>0, <2>1, <2>3 DEF ActsAsShown, ParamTypes
  <2>7. StartFindsWhole'
    BY <2>1, <2>2 DEF StartFindsWhole, Records
  <2>8. ASSUME call \in {"save", "reset"} PROVE vals' = Overlaid(Load)'
    <3>1. Overlaid(Load)' = [p \in Params |-> IF store[p] \in Values THEN store[p] ELSE Default]
      BY <2>2 DEF Overlaid, Records, InRange
    <3>2. CASE call = "save"
      <4>1. \A p \in Params : store[p] = vals[p] /\ vals[p] \in Values
        BY <1>0, <3>2 DEF ParamCalls, ParamTypes
      <4>2. vals' = vals /\ vals = [p \in Params |-> vals[p]]
        BY <1>0, <2>3, <3>2 DEF ParamTypes
      <4> QED BY <3>1, <4>1, <4>2
    <3>3. CASE call = "reset"
      <4>1. \A p \in Params : store[p] = None
        BY <1>0, <3>3, TableFacts DEF ParamCalls, WithoutParams
      <4> QED BY <2>3, <3>1, <3>3, <4>1, TableFacts
    <3> QED BY <2>8, <3>2, <3>3
  <2>9. KeptStep
    BY <2>8 DEF KeptStep
  <2> QED BY <2>2, <2>4, <2>5, <2>6, <2>7, <2>9 DEF SettingsInv, ParamInv
<1>11. CASE CommitFails
  <2>1. /\ SaveStep /\ op'.pc = "idle" /\ outcome' = "error"
        /\ call' = "none" /\ old' = NoRecords /\ before' = NoRecords
        /\ UNCHANGED <<vals, applied, store, booted, attempted>>
    BY <1>11 DEF CommitFails, Saved, Returns
  <2>2. FlashInv' /\ CellStep /\ Load' \in {Load, store} /\ op.pc # "idle"
    BY <2>1, CommitGoesOn
  <2>3. ParamTypes'
    BY <1>0, <2>1, TableFacts DEF ParamTypes
  <2>4. ParamCalls' /\ FailedResetUndone' /\ ActsAsShown' /\ KeptStep
    BY <1>0, <2>1 DEF ParamCalls, FailedResetUndone, ActsAsShown, KeptStep
  <2>5. StartFindsWhole'
    BY <1>0, <2>1, <2>2, TableFacts DEF StartFindsWhole, Records, ParamCalls, ParamTypes
  <2> QED BY <2>2, <2>3, <2>4, <2>5 DEF SettingsInv, ParamInv
<1>12. CASE ResetFails
  <2>1. /\ SaveStep /\ op'.pc = "idle" /\ outcome' = "error" /\ call = "reset"
        /\ store' = PutBack /\ call' = "undo"
        /\ UNCHANGED <<vals, applied, old, booted, before, attempted>>
    BY <1>12 DEF ResetFails, Saved
  <2>2. FlashInv' /\ CellStep /\ Load' \in {Load, store} /\ op.pc # "idle"
    BY <2>1, CommitGoesOn
  <2>3. store' = before
    <3>1. store = WithoutParams(before) /\ old = OfParams(before) /\ before \in Image
      BY <1>0, <2>1, TableFacts DEF ParamCalls, ParamTypes
    <3>2. \A k \in Keys : PutBack[k] = before[k]
      BY <3>1, TableFacts DEF PutBack, WithoutParams, OfParams
    <3>3. before = [k \in Keys |-> before[k]] /\ PutBack = [k \in Keys |-> PutBack[k]]
      BY <3>1, TableFacts DEF PutBack
    <3> QED BY <2>1, <3>2, <3>3
  <2>4. ParamTypes'
    BY <1>0, <2>1, <2>3 DEF ParamTypes
  <2>5. ParamCalls' /\ FailedResetUndone' /\ ActsAsShown' /\ KeptStep
    BY <1>0, <2>1, <2>3 DEF ParamCalls, FailedResetUndone, ActsAsShown, KeptStep
  <2>6. StartFindsWhole'
    BY <1>0, <2>1, <2>2, TableFacts DEF StartFindsWhole, Records, ParamCalls, ParamTypes
  <2> QED BY <2>2, <2>4, <2>5, <2>6 DEF SettingsInv, ParamInv
<1> QED
  BY <1>1, <1>3, <1>4, <1>5, <1>6, <1>7, <1>8, <1>9, <1>10, <1>11, <1>12 DEF ParamStep

\* Nothing else disturbs the settings.
LEMMA SettingsSame ==
    ASSUME SettingsInv, UNCHANGED vars
    PROVE  SettingsInv' /\ CellStep /\ KeptStep
<1>1. UNCHANGED flashVars /\ UNCHANGED paramVars
  BY DEF vars
<1>2. FlashInv' /\ Load' = Load /\ op' = op /\ outcome' = outcome
  BY <1>1, FlashSame DEF SettingsInv, flashVars
<1>3. ParamTypes' /\ ParamCalls' /\ FailedResetUndone' /\ ActsAsShown' /\ StartFindsWhole'
  BY <1>1, <1>2
     DEF SettingsInv, ParamInv, paramVars, ParamTypes, ParamCalls, FailedResetUndone,
         ActsAsShown, StartFindsWhole, Records
<1> QED
  BY <1>1, <1>2, <1>3 DEF SettingsInv, ParamInv, CellStep, Cell!vars, KeptStep, paramVars

\* A device that has never kept anything, or a table of another firmware.
LEMMA SettingsInit == Init => SettingsInv /\ Cell!Init
<1> SUFFICES ASSUME Init PROVE SettingsInv /\ Cell!Init
  OBVIOUS
<1>1. Stored \subseteq Image
      /\ (MaxEntries >= Cardinality(Params) => Stored \subseteq Tables)
  <2> SUFFICES ASSUME NEW i \in Stored
      PROVE  i \in Image /\ (MaxEntries >= Cardinality(Params) => i \in Tables)
    OBVIOUS
  <2>1. PICK v \in Values \cup {Bad} :
           i = [k \in Keys |-> IF k = Foreign THEN None ELSE v]
    BY DEF Stored
  <2>2. i \in Image /\ Used(i) \subseteq Params
    BY <2>1, TableFacts DEF Used, Keys
  <2>3. Params \in SUBSET Keys /\ Cardinality(Params) \in Nat
    BY TableFacts, ParamAssumption, FS_CardinalityType
  <2>4. MaxEntries \in Nat
    BY ParamAssumption
  <2> QED BY <2>2, <2>3, <2>4, SmallerFits
<1>2. /\ \/ slot = [s \in Slots |-> Invalid]
         \/ \E i \in Tables : slot = [s \in Slots |-> IF s = "A" THEN Valid(1, i) ELSE Invalid]
      /\ op = NoSave /\ outcome = "ok"
  BY <1>1 DEF Init, FlashInit
<1>3. SlotsType
  <2>1. CASE slot = [s \in Slots |-> Invalid]
    <3> QED BY <2>1 DEF SlotsType
  <2>2. CASE \E i \in Tables : slot = [s \in Slots |-> IF s = "A" THEN Valid(1, i) ELSE Invalid]
    <3>1. PICK i \in Tables : slot = [s \in Slots |-> IF s = "A" THEN Valid(1, i) ELSE Invalid]
      BY <2>2
    <3>2. Valid(1, i) \in [ok : {TRUE}, seq : Nat \ {0}, image : Tables]
      BY DEF Valid
    <3> QED BY <3>1, <3>2 DEF SlotsType
  <2> QED BY <1>2, <2>1, <2>2
<1>4. ~slot["B"].ok /\ op.pc = "idle" /\ op.image = None
  BY <1>2 DEF Slots, Invalid, NoSave
<1>5. FlashInv
  BY <1>2, <1>3, <1>4 DEF FlashInv
<1>6. /\ store = Records(Load) /\ vals = Overlaid(Load) /\ applied = vals /\ booted = vals
      /\ old = NoRecords /\ call = "none" /\ before = NoRecords /\ attempted = {store}
  BY DEF Init
<1>7. ParamInv
  BY <1>4, <1>5, <1>6, RecordsFit, TableFacts
     DEF ParamInv, ParamTypes, ParamCalls, StartFindsWhole, ActsAsShown, FailedResetUndone
<1> QED BY <1>2, <1>4, <1>5, <1>7, RecordsFit, TableFacts DEF SettingsInv, Cell!Init

\* Both tables begin alike.
LEMMA FullInit == Full!Init => Init
<1>1. Full!Stored = Stored /\ Full!Load = Load /\ Full!Overlaid(Load) = Overlaid(Load)
      /\ Full!Records(Load) = Records(Load) /\ Full!NoRecords = NoRecords
  BY FullFlash
     DEF Full!Stored, Stored, Full!Overlaid, Overlaid, Full!Records, Records,
         Full!NoRecords, NoRecords, Full!InRange, InRange, Full!Keys, Keys
<1>2. \A S : Full!FlashInit(S) = FlashInit(S)
  BY DEF Full!FlashInit, FlashInit, Full!Slots, Slots, Full!Invalid, Invalid,
         Full!Valid, Valid, Full!NoSave, NoSave
<1> QED BY <1>1, <1>2, FullCardinality DEF Full!Init, Init

\* Every step of the services keeps the invariant of the settings.
LEMMA SettingsNext ==
    SettingsInv /\ [ServicesNext]_allVars => SettingsInv' /\ CellStep /\ KeptStep
<1> SUFFICES ASSUME SettingsInv, [ServicesNext]_allVars
    PROVE  SettingsInv' /\ CellStep /\ KeptStep
  OBVIOUS
<1>1. ParamStep \/ UNCHANGED vars
  BY ParamSteps, FullSteps DEF ServicesNext, ParamNext, allVars
<1> QED BY <1>1, SettingsStep, SettingsSame

\* The inductive invariant of the settings.
LEMMA SettingsHold == ServicesSpec => []SettingsInv
<1>1. ServicesInit => SettingsInv
  BY SettingsInit, FullInit DEF ServicesInit
<1> QED BY <1>1, SettingsNext, PTL DEF ServicesSpec

\* Whatever fails and wherever power is lost, a start finds a whole table that was
\* kept or tried, what acts is what is shown, and a reset that fails is undone: for
\* every set of parameters, values and records and every size of the table.
THEOREM SettingsSurviveHolds == ServicesSpec => []SettingsSurvive
<1>1. SettingsInv => SettingsSurvive
  BY DEF SettingsInv, ParamInv, SettingsSurvive
<1> QED BY <1>1, SettingsHold, PTL

\* The flash implements a cell that a loss of power leaves old or new, and a save or
\* reset that says ok is what the next start finds.
THEOREM SavesHold == ServicesSpec => SavesAreDurable
<1>1. ServicesInit => Cell!Init
  BY SettingsInit, FullInit DEF ServicesInit
<1>2. SettingsInv /\ [ServicesNext]_allVars => CellStep /\ [KeptStep]_vars
  BY SettingsNext
<1>3. ServicesSpec => Cell!Spec
  BY <1>1, <1>2, SettingsHold, PTL DEF ServicesSpec, Cell!Spec, CellStep
<1>4. ServicesSpec => SuccessIsKept
  BY <1>2, SettingsHold, PTL DEF ServicesSpec, SuccessIsKept, KeptStep
<1> QED BY <1>3, <1>4 DEF SavesAreDurable

-----------------------------------------------------------------------------
(* The bound of the sequence numbers of the flash                              *)
SeqBound == (\A s \in Slots : slot[s].seq <= MaxSeq) /\ op.seq <= MaxSeq

\* What a step of the parameters does to the flash.
FlashStep ==
    \/ SaveStep \/ PowerFails \/ UNCHANGED <<slot, op>>
    \/ UNCHANGED slot /\ op'.seq <= MaxSeq

\* Of the two tables of records either keeps the bound.
LEMMA FlashSteps ==
    ASSUME SettingsInv, Next \/ Full!Next PROVE FlashStep
<1>0. MaxSeq \in Nat /\ MaxSeq >= 2 /\ NextSeq \in Nat
  <2>1. SlotsType
    BY DEF SettingsInv, FlashInv
  <2>2. Found => slot[Active].ok /\ Active \in Slots
    BY DEF Found, Active, Slots
  <2>3. \A s \in Slots : slot[s] = Invalid \/ slot[s].seq \in Nat
    BY <2>1 DEF SlotsType
  <2>4. Found => slot[Active].seq \in Nat
    BY <2>2, <2>3 DEF Invalid
  <2> QED BY <2>4, NvsAssumption, ServicesAssumption DEF NextSeq
<1>1. \A t, who : Commit(t, who) => FlashStep
  BY DEF Commit, BeginSave, FlashStep
<1>2. \A t, who : Full!Commit(t, who) => FlashStep
  <2>1. Full!NextSeq = NextSeq
    BY DEF Full!NextSeq, NextSeq, Full!Found, Found, Full!Active, Active, Full!NewerThan,
           NewerThan, Full!Slots, Slots
  <2>2. ASSUME NEW t, NEW who, Full!Commit(t, who) PROVE UNCHANGED slot /\ op'.seq <= MaxSeq
    <3>1. UNCHANGED slot /\ NextSeq <= 2 /\ op'.seq = NextSeq
      BY <2>1, <2>2 DEF Full!Commit, Full!BeginSave
    <3> QED BY <3>1, <1>0
  <2> QED BY <2>2 DEF FlashStep
<1>3. Next => FlashStep
  <2>1. Restart => FlashStep
    BY DEF Restart, FlashStep
  <2>2. (\E p \in Params, v \in Values : Set(p, v)) => FlashStep
    BY DEF Set, flashVars, FlashStep
  <2>3. SaveHalfway => FlashStep
    BY DEF SaveHalfway, flashVars, FlashStep
  <2>4. Save \/ OwnRecord \/ Reset \/ Rollback => FlashStep
    BY <1>1 DEF Save, OwnRecord, Reset, Rollback
  <2>5. FlashWorks \/ CommitSucceeds \/ CommitFails \/ ResetFails => FlashStep
    BY DEF FlashWorks, CommitSucceeds, CommitFails, ResetFails, FlashStep
  <2> QED BY <2>1, <2>2, <2>3, <2>4, <2>5 DEF Next
<1>4. Full!Next => FlashStep
  <2>1. Full!Restart => FlashStep
    BY FullFlash DEF Full!Restart, FlashStep
  <2>2. (\E p \in Params, v \in Values : Full!Set(p, v)) => FlashStep
    BY DEF Full!Set, Full!flashVars, FlashStep
  <2>3. Full!SaveHalfway => FlashStep
    BY DEF Full!SaveHalfway, Full!flashVars, FlashStep
  <2>4. Full!Save \/ Full!OwnRecord \/ Full!Reset \/ Full!Rollback => FlashStep
    BY <1>2 DEF Full!Save, Full!OwnRecord, Full!Reset, Full!Rollback
  <2>5. Full!FlashWorks \/ Full!CommitSucceeds \/ Full!CommitFails \/ Full!ResetFails
           => FlashStep
    BY FullFlash
       DEF Full!FlashWorks, Full!CommitSucceeds, Full!CommitFails, Full!ResetFails, FlashStep
  <2> QED BY <2>1, <2>2, <2>3, <2>4, <2>5 DEF Full!Next
<1> QED BY <1>3, <1>4

\* A step of the flash keeps the bound.
LEMMA SeqStep ==
    ASSUME SettingsInv, SeqBound, FlashStep PROVE SeqBound'
<1>0. /\ SlotsType /\ op \in {NoSave} \cup Saves /\ MaxSeq \in Nat /\ op.seq <= MaxSeq
      /\ \A s \in Slots : slot[s].seq <= MaxSeq
  BY NvsAssumption DEF SettingsInv, FlashInv, SeqBound
<1>1. NoSave.seq <= MaxSeq /\ Invalid.seq <= MaxSeq
      /\ \A i : Valid(op.seq, i).seq <= MaxSeq
  BY <1>0 DEF NoSave, Invalid, Valid
<1>2. ASSUME slot' \in {slot, Kept, [slot EXCEPT ![op.target] = Invalid]},
             op' = NoSave \/ op'.seq <= MaxSeq
      PROVE  SeqBound'
  <2>1. op'.seq <= MaxSeq
    BY <1>1, <1>2
  <2>2. ASSUME NEW s \in Slots PROVE slot'[s] \in {slot[s], Invalid, Valid(op.seq, op.image)}
    <3>1. CASE slot' = slot
      BY <3>1
    <3>2. CASE slot' = Kept
      BY <1>0, <3>2 DEF Kept, SlotsType
    <3>3. CASE slot' = [slot EXCEPT ![op.target] = Invalid]
      BY <1>0, <3>3 DEF SlotsType
    <3> QED BY <1>2, <3>1, <3>2, <3>3
  <2>3. \A s \in Slots : slot'[s].seq <= MaxSeq
    BY <1>0, <1>1, <2>2
  <2> QED BY <2>1, <2>3 DEF SeqBound
<1>3. CASE SaveStep
  <2>1. \A pc : GoOn(pc) => op'.seq <= MaxSeq
    <3> SUFFICES ASSUME NEW pc, GoOn(pc) PROVE op'.seq <= MaxSeq
      OBVIOUS
    <3>1. op' = [op EXCEPT !.pc = pc]
      BY DEF GoOn
    <3>2. op'.seq = op.seq
      BY <1>0, <3>1 DEF NoSave, Saves
    <3> QED BY <1>0, <3>2
  <2>2. \A rc : Return(rc) => op' = NoSave
    BY DEF Return
  <2>3. slot' \in {slot, Kept, [slot EXCEPT ![op.target] = Invalid]}
    BY <1>3 DEF SaveStep, Erase, EraseFails, Program, ProgramLast, ProgramFails, Verify
  <2>4. op' = NoSave \/ op'.seq <= MaxSeq
    BY <1>3, <2>1, <2>2
       DEF SaveStep, Erase, EraseFails, Program, ProgramLast, ProgramFails, Verify
  <2> QED BY <1>2, <2>3, <2>4
<1>4. CASE PowerFails
  BY <1>2, <1>4 DEF PowerFails
<1>5. CASE UNCHANGED <<slot, op>>
  BY <1>0, <1>2, <1>5
<1>6. CASE UNCHANGED slot /\ op'.seq <= MaxSeq
  BY <1>2, <1>6
<1> QED BY <1>3, <1>4, <1>5, <1>6 DEF FlashStep

\* The numbers stay in the bound.
LEMMA SeqHolds == ServicesSpec => []SeqBound
<1>1. ServicesInit => SeqBound
  <2> SUFFICES ASSUME ServicesInit PROVE SeqBound
    OBVIOUS
  <2>1. Init
    BY FullInit DEF ServicesInit
  <2>2. /\ \/ slot = [s \in Slots |-> Invalid]
           \/ \E i : slot = [s \in Slots |-> IF s = "A" THEN Valid(1, i) ELSE Invalid]
        /\ op = NoSave /\ MaxSeq \in Nat \ {0}
    BY <2>1, NvsAssumption DEF Init, FlashInit
  <2> QED BY <2>2 DEF SeqBound, Invalid, Valid, NoSave
<1>2. SettingsInv /\ SeqBound /\ [ServicesNext]_allVars => SeqBound'
  <2> SUFFICES ASSUME SettingsInv, SeqBound, [ServicesNext]_allVars PROVE SeqBound'
    OBVIOUS
  <2>1. FlashStep \/ UNCHANGED vars
    BY FlashSteps DEF ServicesNext, ParamNext, allVars
  <2>2. UNCHANGED vars => FlashStep
    BY DEF vars, flashVars, FlashStep
  <2> QED BY <2>1, <2>2, SeqStep
<1> QED BY <1>1, <1>2, SettingsHold, PTL DEF ServicesSpec

\* The parameters and the flash are well-formed.
LEMMA SettingsTyped == SettingsInv /\ SeqBound => TypeOK
<1> SUFFICES ASSUME SettingsInv, SeqBound PROVE TypeOK
  OBVIOUS
<1>1. /\ SlotsType /\ op \in {NoSave} \cup Saves /\ outcome \in {"ok", "error", "cut"}
      /\ \A s \in Slots : slot[s].seq <= MaxSeq /\ op.seq <= MaxSeq
      /\ ParamTypes /\ Tables \subseteq Image /\ MaxSeq \in Nat
  BY TableFacts, NvsAssumption DEF SettingsInv, FlashInv, ParamInv, SeqBound
<1>2. slot \in [Slots -> {Invalid} \cup [ok : {TRUE}, seq : 1 .. MaxSeq, image : Image]]
  <2>1. ASSUME NEW s \in Slots
        PROVE  slot[s] \in {Invalid} \cup [ok : {TRUE}, seq : 1 .. MaxSeq, image : Image]
    <3>1. slot[s] \in {Invalid} \cup [ok : {TRUE}, seq : Nat \ {0}, image : Tables]
      BY <1>1 DEF SlotsType
    <3>2. slot[s].seq <= MaxSeq
      BY <1>1
    <3>3. CASE slot[s] \in [ok : {TRUE}, seq : Nat \ {0}, image : Tables]
      <4>1. /\ slot[s] = [ok |-> TRUE, seq |-> slot[s].seq, image |-> slot[s].image]
            /\ slot[s].seq \in Nat \ {0} /\ slot[s].image \in Tables
        BY <3>3
      <4>2. slot[s].seq \in 1 .. MaxSeq /\ slot[s].image \in Image
        BY <1>1, <3>2, <4>1
      <4>3. ASSUME NEW n \in 1 .. MaxSeq, NEW i \in Image
            PROVE  [ok |-> TRUE, seq |-> n, image |-> i]
                      \in [ok : {TRUE}, seq : 1 .. MaxSeq, image : Image]
        OBVIOUS
      <4>4. [ok |-> TRUE, seq |-> slot[s].seq, image |-> slot[s].image]
               \in [ok : {TRUE}, seq : 1 .. MaxSeq, image : Image]
        BY <4>2, <4>3
      <4>5. slot[s] \in [ok : {TRUE}, seq : 1 .. MaxSeq, image : Image]
        BY <4>1, <4>4, Zenon
      <4> QED BY <4>5
    <3> QED BY <3>1, <3>3
  <2> QED BY <1>1, <2>1 DEF SlotsType
<1>3. op \in {NoSave} \cup [pc : {"erase", "program", "last", "verify"}, target : Slots,
                           seq : 1 .. MaxSeq, image : Image]
  <2>1. op.seq <= MaxSeq
    BY DEF SeqBound
  <2> QED BY <1>1, <2>1 DEF Saves
<1>4. Cardinality({k \in Keys : store[k] # None}) <= MaxEntries
  BY <1>1 DEF ParamTypes, Tables, Used
<1> QED BY <1>1, <1>2, <1>3, <1>4 DEF TypeOK, FlashTypeOK, ParamTypes

-----------------------------------------------------------------------------
(* Rings that an interrupt and the main loop share                             *)

\* A sum of two remainders is at most one round too large.
LEMMA ModSmall ==
    ASSUME NEW m \in Nat \ {0}, NEW x \in 0 .. 2 * m - 1
    PROVE  x % m = IF x < m THEN x ELSE x - m
OBVIOUS

\* The quotient and the remainder.
LEMMA DivFacts ==
    ASSUME NEW m \in Nat \ {0}, NEW x \in Nat
    PROVE  x = m * (x \div m) + (x % m) /\ x \div m \in Nat /\ x % m \in 0 .. m - 1
OBVIOUS

\* A multiple of m that is not zero is at least m away from zero.
LEMMA MulAway ==
    ASSUME NEW m \in Nat \ {0}, NEW n \in Int, n # 0
    PROVE  m * n >= m \/ m * n <= -m
OBVIOUS

\* Positions less than k apart share a slot only when they are the same.
LEMMA SameSlot ==
    ASSUME NEW k \in Nat \ {0}, NEW x \in Nat, NEW y \in Nat,
           x % k = y % k, x <= y, y < x + k
    PROVE  x = y
<1>1. x = k * (x \div k) + (x % k) /\ y = k * (y \div k) + (y % k)
      /\ x \div k \in Int /\ y \div k \in Int
  BY DivFacts
<1>2. y - x = k * ((y \div k) - (x \div k))
  BY <1>1
<1>3. (y \div k) - (x \div k) = 0
  BY <1>1, <1>2, MulAway
<1> QED BY <1>2, <1>3

\* A whole round later a position has the same slot.
LEMMA LapSlot ==
    ASSUME NEW k \in Nat \ {0}, NEW n \in Nat, n % k = 0, NEW x \in Nat
    PROVE  (x + n) % k = x % k
<1>1. \A y \in Nat : /\ y = k * (y \div k) + (y % k)
                     /\ y \div k \in Int /\ y % k \in 0 .. k - 1
  BY DivFacts
<1>2. x + n \in Nat
  OBVIOUS
<1>3. x + n = k * ((x \div k) + (n \div k)) + (x % k)
  BY <1>1
<1>4. x + n = k * ((x + n) \div k) + ((x + n) % k)
  BY <1>1, <1>2
<1>5. /\ (x \div k) + (n \div k) \in Int /\ (x + n) \div k \in Int
      /\ x % k \in 0 .. k - 1 /\ (x + n) % k \in 0 .. k - 1
  BY <1>1, <1>2
<1> DEFINE d == (x \div k) + (n \div k) - ((x + n) \div k)
<1>6. d \in Int /\ ((x + n) % k) - (x % k) = k * d
  BY <1>3, <1>4, <1>5
<1>7. d = 0
  BY <1>5, <1>6, MulAway
<1> QED BY <1>5, <1>6, <1>7


-----------------------------------------------------------------------------
(* The log ring                                                                *)

LogSlot(i) == (logTail + i) % LogDepth

\* The ring holds the lines that were published and not put out, each at its place;
\* the push under way has room, and the drain under way copies the oldest line.
LogLinesKept ==
    /\ logged \in Seq(Lines)
    /\ LogLines!Occupancy = Len(logged)
    /\ \A i \in 0 .. Len(logged) - 1 : \A p \in LogLines!Parts :
          logSlot[LogSlot(i)][p] = logged[i + 1]

LogPush ==
    wr.pc # "idle" =>
        /\ wr.line \in Lines /\ Len(logged) < LogDepth
        /\ wr.pc \in {"text", "publish"} => logSlot[logHead % LogDepth]["len"] = wr.line
        /\ wr.pc = "publish" => logSlot[logHead % LogDepth]["text"] = wr.line

LogDrain ==
    rd.pc \in {"len", "text", "put"} =>
        /\ logged # <<>> /\ rd.left > 0
        /\ rd.pc \in {"text", "put"} => rd.len = Head(logged)
        /\ rd.pc = "put" => rd.text = Head(logged)

LogInv == LogLines!TypeOK /\ LogLinesKept /\ LogPush /\ LogDrain

\* What the assumptions say of the ring.
LEMMA LogShape ==
    /\ LogDepth \in Nat \ {0} /\ LogBudget \in Nat \ {0} /\ DropMod \in Nat \ {0}
    /\ None \notin Lines /\ LogLines!Span = 2 * LogDepth /\ LogLines!Span % LogDepth = 0
<1>1. /\ LogDepth \in Nat \ {0} /\ LogBudget \in Nat \ {0} /\ DropMod \in Nat \ {0}
      /\ None \notin Lines
  BY ServicesAssumption DEF LogLines!LogAssumption
<1>2. 2 * LogDepth \in Nat /\ (2 * LogDepth) % LogDepth = 0
  <2>1. LogDepth \in Nat /\ LogDepth \in 0 .. 2 * LogDepth - 1 /\ LogDepth \in Nat \ {0}
    BY <1>1
  <2>2. LogDepth % LogDepth = 0
    BY <2>1, ModSmall
  <2>3. (LogDepth + LogDepth) % LogDepth = LogDepth % LogDepth
    BY <2>1, <2>2, LapSlot
  <2> QED BY <2>1, <2>2, <2>3
<1> QED BY <1>1, <1>2 DEF LogLines!Span

\* A line has a slot, other lines have other slots, and the place behind the last one
\* is where the head points.
LEMMA LogSlots ==
    ASSUME LogLines!TypeOK, LogLines!Occupancy = Len(logged), logged \in Seq(Lines)
    PROVE  /\ \A i \in Nat : LogSlot(i) \in 0 .. LogDepth - 1
           /\ \A i, j \in 0 .. LogDepth - 1 : i # j => LogSlot(i) # LogSlot(j)
           /\ logHead % LogDepth = LogSlot(Len(logged))
           /\ logHead % LogDepth \in 0 .. LogDepth - 1
<1>1. /\ LogDepth \in Nat \ {0} /\ LogLines!Span = 2 * LogDepth
      /\ LogLines!Span % LogDepth = 0
      /\ logHead \in Nat /\ logTail \in Nat /\ Len(logged) \in Nat
      /\ logHead < 2 * LogDepth /\ logTail < 2 * LogDepth
  BY LogShape DEF LogLines!TypeOK
<1>2. \A i \in Nat : LogSlot(i) \in 0 .. LogDepth - 1
  BY <1>1, DivFacts DEF LogSlot
<1>3. ASSUME NEW i \in 0 .. LogDepth - 1, NEW j \in 0 .. LogDepth - 1, i < j
      PROVE  LogSlot(i) # LogSlot(j)
  <2>1. /\ logTail + i \in Nat /\ logTail + j \in Nat
        /\ logTail + i <= logTail + j /\ logTail + j < logTail + i + LogDepth
        /\ logTail + i # logTail + j
    BY <1>1, <1>3
  <2> QED BY <1>1, <2>1, SameSlot DEF LogSlot
<1>4. logHead % LogDepth = LogSlot(Len(logged))
  <2>1. CASE logHead >= logTail
    <3>1. logTail + Len(logged) = logHead
      BY <1>1, <2>1 DEF LogLines!Occupancy
    <3> QED BY <3>1 DEF LogSlot
  <2>2. CASE ~(logHead >= logTail)
    <3>1. logTail + Len(logged) = logHead + LogLines!Span
      BY <1>1, <2>2 DEF LogLines!Occupancy
    <3>2. (logHead + LogLines!Span) % LogDepth = logHead % LogDepth
      <4>1. LogLines!Span \in Nat
        BY <1>1
      <4> QED BY <1>1, <4>1, LapSlot
    <3> QED BY <3>1, <3>2 DEF LogSlot
  <2> QED BY <2>1, <2>2
<1>5. logHead % LogDepth \in 0 .. LogDepth - 1
  BY <1>1, DivFacts
<1> QED
  <2>1. ASSUME NEW i \in 0 .. LogDepth - 1, NEW j \in 0 .. LogDepth - 1, i # j
        PROVE  LogSlot(i) # LogSlot(j)
    <3>1. i < j \/ j < i
      BY <1>1, <2>1
    <3> QED BY <1>3, <3>1
  <2> QED BY <1>2, <1>4, <1>5, <2>1

\* An empty ring of lines.
LEMMA LogInit == LogLines!Init => LogInv /\ LogLines!Ring!Init
<1> SUFFICES ASSUME LogLines!Init PROVE LogInv /\ LogLines!Ring!Init
  OBVIOUS
<1> USE DEF LogLines!Init, LogLines!NoPush, LogLines!NoDrain
<1>1. LogLines!TypeOK
  BY LogShape DEF LogLines!TypeOK, LogLines!Parts
<1>2. LogLinesKept
  BY LogShape DEF LogLinesKept, LogLines!Occupancy
<1>3. LogPush /\ LogDrain
  BY DEF LogPush, LogDrain
<1> QED BY <1>1, <1>2, <1>3 DEF LogInv, LogLines!Ring!Init

\* Steps of the writer and of the drain, word by word.
LEMMA LogStep ==
    ASSUME LogInv, LogLines!Next
    PROVE  LogInv' /\ [LogLines!Ring!Next]_LogLines!Ring!vars
<1> USE DEF LogLines!NoPush, LogLines!NoDrain
<1>0. /\ LogLines!TypeOK /\ LogLinesKept /\ LogPush /\ LogDrain
      /\ LogDepth \in Nat \ {0} /\ LogBudget \in Nat \ {0} /\ DropMod \in Nat \ {0}
      /\ logged \in Seq(Lines) /\ Len(logged) \in 0 .. LogDepth
      /\ LogLines!Occupancy = Len(logged) /\ LogLines!Span = 2 * LogDepth
      /\ logHead \in 0 .. 2 * LogDepth - 1 /\ logTail \in 0 .. 2 * LogDepth - 1
  BY LogShape DEF LogInv, LogLinesKept, LogLines!TypeOK
<1>s. /\ \A i \in Nat : LogSlot(i) \in 0 .. LogDepth - 1
      /\ \A i, j \in 0 .. LogDepth - 1 : i # j => LogSlot(i) # LogSlot(j)
      /\ logHead % LogDepth = LogSlot(Len(logged))
      /\ logHead % LogDepth \in 0 .. LogDepth - 1
  BY LogShape, LogSlots DEF LogInv, LogLinesKept
\* Steps that touch neither the ring nor the lines.
<1>1. ASSUME UNCHANGED <<logHead, logTail, logSlot, logged, put>>
      PROVE  LogLinesKept' /\ LogLines!Ring!vars' = LogLines!Ring!vars
  BY <1>0, <1>1
     DEF LogLinesKept, LogSlot, LogLines!Occupancy, LogLines!Span, LogLines!Ring!vars
<1>2. ASSUME NEW line \in Lines, LogLines!Push(line)
      PROVE  LogInv' /\ [LogLines!Ring!Next]_LogLines!Ring!vars
  <2>1. LogLines!TypeOK'
    BY <1>0, <1>2 DEF LogLines!Push, LogLines!TypeOK
  <2>2. LogPush' /\ LogDrain'
    BY <1>0, <1>2 DEF LogLines!Push, LogPush, LogDrain, LogLines!Full
  <2> QED BY <1>1, <1>2, <2>1, <2>2 DEF LogInv, LogLines!Push
<1>3. ASSUME LogLines!Drop
      PROVE  LogInv' /\ [LogLines!Ring!Next]_LogLines!Ring!vars
  <2>1. (drop + 1) % DropMod \in 0 .. DropMod - 1
    <3>1. drop + 1 \in Nat
      BY <1>0 DEF LogLines!TypeOK
    <3> QED BY <1>0, <3>1, DivFacts
  <2>2. LogLines!TypeOK'
    BY <1>0, <1>3, <2>1 DEF LogLines!Drop, LogLines!TypeOK
  <2>3. LogPush' /\ LogDrain'
    BY <1>0, <1>3 DEF LogLines!Drop, LogPush, LogDrain
  <2> QED BY <1>1, <1>3, <2>2, <2>3 DEF LogInv, LogLines!Drop
<1>4. ASSUME NEW part \in LogLines!Parts, NEW next1,
             \/ part = "len" /\ next1 = "text"
             \/ part = "text" /\ next1 = "publish",
             LogLines!StorePart(part, next1)
      PROVE  LogInv' /\ [LogLines!Ring!Next]_LogLines!Ring!vars
  <2> DEFINE h == logHead % LogDepth
  <2>1. /\ wr.pc = part /\ wr.line \in Lines /\ Len(logged) < LogDepth
        /\ logSlot' = [logSlot EXCEPT ![h][part] = wr.line]
        /\ wr' = [wr EXCEPT !.pc = next1]
        /\ UNCHANGED <<logHead, logTail, drop, rd, logged, put>>
    BY <1>0, <1>4 DEF LogLines!StorePart, LogPush, LogLines!Parts
  <2>2. h \in 0 .. LogDepth - 1 /\ h = LogSlot(Len(logged))
    BY <1>s
  <2> HIDE DEF h
  <2>3. /\ logSlot'[h] = [logSlot[h] EXCEPT ![part] = wr.line]
        /\ \A i \in 0 .. LogDepth - 1 : i # h => logSlot'[i] = logSlot[i]
    BY <1>0, <2>1, <2>2 DEF LogLines!TypeOK
  <2>4. /\ logSlot'[h][part] = wr.line
        /\ \A p \in LogLines!Parts : p # part => logSlot'[h][p] = logSlot[h][p]
    BY <1>0, <2>2, <2>3 DEF LogLines!TypeOK, LogLines!Parts
  <2>5. wr'.pc = next1 /\ wr'.line = wr.line
    BY <1>0, <2>1 DEF LogLines!TypeOK
  <2>6. LogLines!TypeOK'
    <3>1. logSlot' \in [0 .. LogDepth - 1 -> [LogLines!Parts -> Lines \cup {None}]]
      BY <1>0, <2>1, <2>2 DEF LogLines!TypeOK
    <3>2. wr' \in [pc : {"idle", "len", "text", "publish"}, line : Lines \cup {None}]
      BY <1>0, <1>4, <2>1 DEF LogLines!TypeOK
    <3> QED BY <1>0, <2>1, <3>1, <3>2 DEF LogLines!TypeOK
  <2>7. LogLinesKept'
    <3>1. \A i \in 0 .. Len(logged) - 1 : LogSlot(i) # h /\ LogSlot(i) \in 0 .. LogDepth - 1
      <4>1. Len(logged) \in 0 .. LogDepth - 1
            /\ \A i \in 0 .. Len(logged) - 1 :
                  i \in 0 .. LogDepth - 1 /\ i # Len(logged) /\ i \in Nat
        BY <1>0, <2>1
      <4> QED BY <1>s, <2>2, <4>1
    <3>2. /\ logged \in Seq(Lines) /\ LogLines!Occupancy = Len(logged)
          /\ \A i \in 0 .. Len(logged) - 1 :
                \A p \in LogLines!Parts : logSlot[LogSlot(i)][p] = logged[i + 1]
      BY <1>0 DEF LogLinesKept
    <3>3. LogLines!Occupancy' = LogLines!Occupancy /\ (\A i : LogSlot(i)' = LogSlot(i))
      BY <2>1 DEF LogSlot, LogLines!Occupancy, LogLines!Span
    <3>4. \A i \in 0 .. Len(logged) - 1 :
             \A p \in LogLines!Parts : logSlot'[LogSlot(i)][p] = logged[i + 1]
      BY <2>3, <3>1, <3>2
    <3> QED BY <2>1, <3>2, <3>3, <3>4 DEF LogLinesKept
  <2>8. logHead' % LogDepth = h
    BY <2>1 DEF h
  <2>9. LogPush'
    BY <1>0, <1>4, <2>1, <2>4, <2>5, <2>8 DEF LogPush, LogLines!Parts, h
  <2>10. LogDrain' /\ LogLines!Ring!vars' = LogLines!Ring!vars
    BY <1>0, <2>1 DEF LogDrain, LogLines!Ring!vars
  <2> QED BY <2>6, <2>7, <2>9, <2>10 DEF LogInv
<1>5. ASSUME LogLines!Publish
      PROVE  LogInv' /\ [LogLines!Ring!Next]_LogLines!Ring!vars
  <2> DEFINE h == logHead % LogDepth
  <2>1. /\ wr.line \in Lines /\ Len(logged) < LogDepth
        /\ logSlot[h]["len"] = wr.line /\ logSlot[h]["text"] = wr.line
        /\ logHead' = LogLines!Advance(logHead) /\ wr'.pc = "idle"
        /\ logged' = Append(logged, wr.line)
        /\ UNCHANGED <<logTail, logSlot, drop, rd, put>>
    BY <1>0, <1>5 DEF LogLines!Publish, LogPush
  <2>2. h = LogSlot(Len(logged))
    BY <1>s
  <2> HIDE DEF h
  <2>3. /\ logged' \in Seq(Lines) /\ Len(logged') = Len(logged) + 1
        /\ \A i \in 1 .. Len(logged) : logged'[i] = logged[i]
        /\ logged'[Len(logged) + 1] = wr.line
        /\ logged # <<>> => Head(logged') = Head(logged)
        /\ logged' # <<>>
    BY <1>0, <2>1
  <2>4. LogLines!TypeOK' /\ LogLines!Occupancy' = Len(logged')
    <3>1. logHead' = IF logHead + 1 >= 2 * LogDepth THEN 0 ELSE logHead + 1
      BY <1>0, <2>1 DEF LogLines!Advance
    <3>2. logHead' \in 0 .. 2 * LogDepth - 1
      BY <1>0, <3>1 DEF LogLines!TypeOK
    <3>3. LogLines!Occupancy = IF logHead >= logTail THEN logHead - logTail
                               ELSE logHead + 2 * LogDepth - logTail
      BY <1>0 DEF LogLines!Occupancy
    <3>4. LogLines!Occupancy' = IF logHead' >= logTail THEN logHead' - logTail
                               ELSE logHead' + 2 * LogDepth - logTail
      BY <1>0, <2>1 DEF LogLines!Occupancy, LogLines!Span
    <3>5. LogLines!Occupancy' = Len(logged')
      <4>1. logHead \in 0 .. 2 * LogDepth - 1 /\ logTail \in 0 .. 2 * LogDepth - 1
        BY <1>0 DEF LogLines!TypeOK
      <4>2. LogLines!Occupancy' = Len(logged) + 1
        BY <1>0, <2>1, <3>1, <3>3, <3>4, <4>1
      <4> QED BY <2>3, <4>2
    <3>6. LogLines!TypeOK'
      BY <1>0, <1>5, <2>1, <2>3, <3>2 DEF LogLines!TypeOK, LogLines!Publish, LogLines!Span
    <3> QED BY <3>5, <3>6
  <2>5. LogLinesKept'
    <3> SUFFICES ASSUME NEW i \in 0 .. Len(logged), NEW p \in LogLines!Parts
        PROVE  logSlot'[LogSlot(i)'][p] = logged'[i + 1]
      BY <1>0, <2>3, <2>4 DEF LogLinesKept
    <3>1. LogSlot(i)' = LogSlot(i)
      BY <2>1 DEF LogSlot
    <3>2. CASE i = Len(logged)
      BY <2>1, <2>2, <2>3, <3>1, <3>2 DEF LogLines!Parts
    <3>3. CASE i \in 0 .. Len(logged) - 1
      <4>1. logSlot[LogSlot(i)][p] = logged[i + 1] /\ i + 1 \in 1 .. Len(logged)
        BY <1>0, <3>3 DEF LogLinesKept
      <4> QED BY <2>1, <2>3, <3>1, <4>1
    <3> QED BY <1>0, <3>2, <3>3
  <2>6. LogPush' /\ LogDrain'
    BY <1>0, <2>1, <2>3 DEF LogPush, LogDrain
  <2>7. LogLines!Ring!Next
    BY <2>1 DEF LogLines!Ring!Next, LogLines!Ring!Put
  <2> QED BY <2>4, <2>5, <2>6, <2>7 DEF LogInv
<1>6. ASSUME LogLines!Drain \/ LogLines!TestRing \/ LogLines!CopyLen \/ LogLines!CopyText
      PROVE  LogInv' /\ [LogLines!Ring!Next]_LogLines!Ring!vars
  <2>1. UNCHANGED <<logHead, logTail, logSlot, drop, wr, logged, put>>
    BY <1>6 DEF LogLines!Drain, LogLines!TestRing, LogLines!CopyLen, LogLines!CopyText
  <2>2. LogPush'
    BY <1>0, <2>1 DEF LogPush
  <2>3. ASSUME logged # <<>>
        PROVE  \A p \in LogLines!Parts : logSlot[logTail % LogDepth][p] = Head(logged)
    <3>1. 0 \in 0 .. Len(logged) - 1 /\ Head(logged) = logged[0 + 1]
      BY <1>0, <2>3
    <3>2. LogSlot(0) = logTail % LogDepth
      BY <1>0 DEF LogSlot, LogLines!TypeOK
    <3> QED BY <1>0, <3>1, <3>2 DEF LogLinesKept
  <2>4. LogLines!Empty <=> logged = <<>>
    <3>1. LogLines!Empty <=> LogLines!Occupancy = 0
      BY <1>0 DEF LogLines!Empty, LogLines!Occupancy, LogLines!TypeOK
    <3> QED BY <1>0, <3>1
  <2>5. rd' \in [pc : {"idle", "test", "len", "text", "put"}, left : 0 .. LogBudget,
                 len : Lines \cup {None}, text : Lines \cup {None}]
        /\ LogDrain'
    <3> DEFINE R == [pc : {"idle", "test", "len", "text", "put"}, left : 0 .. LogBudget,
                     len : Lines \cup {None}, text : Lines \cup {None}]
    <3>0. rd \in R /\ 0 \in 0 .. LogBudget /\ LogBudget \in 0 .. LogBudget
      BY <1>0 DEF LogLines!TypeOK
    <3>1. CASE LogLines!Drain
      <4>1. rd' = [rd EXCEPT !.pc = "test", !.left = LogBudget]
        BY <3>1 DEF LogLines!Drain
      <4>2. rd' \in R /\ rd'.pc = "test"
        BY <3>0, <4>1
      <4> QED BY <4>2 DEF LogDrain
    <3>2. CASE LogLines!TestRing
      <4>1. CASE rd.left = 0 \/ LogLines!Empty
        <5>1. rd' = [pc |-> "idle", left |-> 0, len |-> None, text |-> None]
          BY <3>2, <4>1 DEF LogLines!TestRing
        <5>2. rd' \in R /\ rd'.pc = "idle"
          BY <3>0, <5>1
        <5> QED BY <5>2 DEF LogDrain
      <4>2. CASE ~(rd.left = 0 \/ LogLines!Empty)
        <5>1. rd' = [rd EXCEPT !.pc = "len"]
          BY <3>2, <4>2 DEF LogLines!TestRing
        <5>2. rd' \in R /\ rd'.pc = "len" /\ rd'.left = rd.left /\ rd.left \in 0 .. LogBudget
          BY <3>0, <5>1
        <5>3. logged' # <<>> /\ rd'.left > 0
          BY <2>1, <2>4, <4>2, <5>2
        <5> QED BY <5>2, <5>3 DEF LogDrain
      <4> QED BY <4>1, <4>2
    <3>3. CASE LogLines!CopyLen
      <4>1. rd.pc = "len" /\ logged # <<>> /\ rd.left > 0
        BY <1>0, <3>3 DEF LogLines!CopyLen, LogDrain
      <4>2. Head(logged) \in Lines
        BY <1>0, <4>1
      <4>3. rd' = [rd EXCEPT !.pc = "text", !.len = Head(logged)]
        BY <2>3, <3>3, <4>1 DEF LogLines!CopyLen, LogLines!Parts
      <4>4. rd' \in R /\ rd'.pc = "text" /\ rd'.left = rd.left /\ rd'.len = Head(logged)
        BY <3>0, <4>2, <4>3
      <4> QED BY <2>1, <4>1, <4>4 DEF LogDrain
    <3>4. CASE LogLines!CopyText
      <4>1. rd.pc = "text" /\ logged # <<>> /\ rd.left > 0 /\ rd.len = Head(logged)
        BY <1>0, <3>4 DEF LogLines!CopyText, LogDrain
      <4>2. Head(logged) \in Lines
        BY <1>0, <4>1
      <4>3. rd' = [rd EXCEPT !.pc = "put", !.text = Head(logged)]
        BY <2>3, <3>4, <4>1 DEF LogLines!CopyText, LogLines!Parts
      <4>4. rd' \in R /\ rd'.pc = "put" /\ rd'.left = rd.left /\ rd'.len = rd.len
            /\ rd'.text = Head(logged)
        BY <3>0, <4>2, <4>3
      <4> QED BY <2>1, <4>1, <4>4 DEF LogDrain
    <3> QED BY <1>6, <3>1, <3>2, <3>3, <3>4
  <2>6. LogLines!TypeOK'
    BY <1>0, <2>1, <2>5 DEF LogLines!TypeOK
  <2> QED BY <1>1, <2>1, <2>2, <2>5, <2>6 DEF LogInv
<1>7. ASSUME LogLines!PutOut
      PROVE  LogInv' /\ [LogLines!Ring!Next]_LogLines!Ring!vars
  <2>1. /\ rd.pc = "put" /\ logged # <<>> /\ rd.left > 0 /\ rd.text = Head(logged)
        /\ logTail' = LogLines!Advance(logTail)
        /\ rd' = [rd EXCEPT !.pc = "test", !.left = @ - 1]
        /\ logged' = Tail(logged) /\ put' = Head(logged)
        /\ UNCHANGED <<logHead, logSlot, drop, wr>>
    BY <1>0, <1>7 DEF LogLines!PutOut, LogDrain
  <2>2. /\ logged' \in Seq(Lines) /\ Len(logged') = Len(logged) - 1 /\ Len(logged) >= 1
        /\ \A i \in 1 .. Len(logged) - 1 : logged'[i] = logged[i + 1]
    BY <1>0, <2>1
  <2>3. logTail' = IF logTail + 1 >= 2 * LogDepth THEN 0 ELSE logTail + 1
    BY <1>0, <2>1 DEF LogLines!Advance
  <2>4. logTail \in 0 .. 2 * LogDepth - 1 /\ logHead \in 0 .. 2 * LogDepth - 1
    BY <1>0 DEF LogLines!TypeOK
  <2>5. LogLines!Occupancy' = Len(logged')
    <3>1. LogLines!Occupancy = IF logHead >= logTail THEN logHead - logTail
                               ELSE logHead + 2 * LogDepth - logTail
      BY <1>0 DEF LogLines!Occupancy
    <3>2. LogLines!Occupancy' = IF logHead >= logTail' THEN logHead - logTail'
                               ELSE logHead + 2 * LogDepth - logTail'
      BY <1>0, <2>1 DEF LogLines!Occupancy, LogLines!Span
    <3>3. LogLines!Occupancy >= 1 /\ LogDepth \in Nat \ {0}
      BY <1>0, <2>2
    <3>4. LogLines!Occupancy' = LogLines!Occupancy - 1
      BY <2>3, <2>4, <3>1, <3>2, <3>3
    <3> QED BY <1>0, <2>2, <3>4
  <2>6. LogLines!TypeOK'
    <3>1. logTail' \in 0 .. 2 * LogDepth - 1
      BY <1>0, <2>3, <2>4
    <3>2. rd.left - 1 \in 0 .. LogBudget
      BY <1>0, <2>1 DEF LogLines!TypeOK
    <3>3. rd' \in [pc : {"idle", "test", "len", "text", "put"}, left : 0 .. LogBudget,
                   len : Lines \cup {None}, text : Lines \cup {None}]
      BY <1>0, <2>1, <3>2 DEF LogLines!TypeOK
    <3>4. Len(logged') <= LogDepth
      BY <1>0, <2>2
    <3> QED BY <1>0, <2>1, <3>1, <3>3, <3>4 DEF LogLines!TypeOK
  <2>7. ASSUME NEW i \in Nat PROVE LogSlot(i)' = LogSlot(i + 1)
    <3>1. CASE logTail + 1 >= 2 * LogDepth
      <4>1. logTail' + i = i /\ logTail + (i + 1) = i + LogLines!Span /\ logTail' + i \in Nat
        BY <1>0, <2>3, <2>4, <3>1
      <4>2. (i + LogLines!Span) % LogDepth = i % LogDepth
        <5>1. LogLines!Span \in Nat /\ LogLines!Span % LogDepth = 0 /\ LogDepth \in Nat \ {0}
          BY LogShape
        <5> QED BY <5>1, LapSlot
      <4> QED BY <4>1, <4>2 DEF LogSlot
    <3>2. CASE ~(logTail + 1 >= 2 * LogDepth)
      <4>1. logTail' + i = logTail + (i + 1)
        BY <1>0, <2>3, <2>4, <3>2
      <4> QED BY <4>1 DEF LogSlot
    <3> QED BY <3>1, <3>2
  <2>8. LogLinesKept'
    <3> SUFFICES ASSUME NEW i \in 0 .. Len(logged) - 2, NEW p \in LogLines!Parts
        PROVE  logSlot'[LogSlot(i)'][p] = logged'[i + 1]
      BY <1>0, <2>2, <2>5 DEF LogLinesKept
    <3>1. i + 1 \in 0 .. Len(logged) - 1 /\ i + 1 \in 1 .. Len(logged) - 1 /\ i \in Nat
      BY <1>0
    <3>2. logSlot[LogSlot(i + 1)][p] = logged[i + 1 + 1] /\ logged'[i + 1] = logged[i + 1 + 1]
      BY <1>0, <2>2, <3>1 DEF LogLinesKept
    <3> QED BY <2>1, <2>7, <3>1, <3>2
  <2>9. LogPush' /\ LogDrain'
    BY <1>0, <2>1, <2>2 DEF LogPush, LogDrain, LogLines!TypeOK
  <2>10. LogLines!Ring!Next
    BY <2>1 DEF LogLines!Ring!Next, LogLines!Ring!Take
  <2> QED BY <2>6, <2>8, <2>9, <2>10 DEF LogInv
<1> QED
  BY <1>2, <1>3, <1>4, <1>5, <1>6, <1>7 DEF LogLines!Next, LogLines!Parts

\* Every step of the services keeps the invariant of the log ring.
LEMMA LogNext ==
    LogInv /\ [ServicesNext]_allVars => LogInv' /\ [LogLines!Ring!Next]_LogLines!Ring!vars
<1> SUFFICES ASSUME LogInv, [ServicesNext]_allVars
    PROVE  LogInv' /\ [LogLines!Ring!Next]_LogLines!Ring!vars
  OBVIOUS
<1>1. CASE LogLines!Next
  BY <1>1, LogStep
<1>2. CASE UNCHANGED logVars
  <2>1. UNCHANGED <<logHead, logTail, logSlot, drop, wr, rd, logged, put>>
    BY <1>2 DEF logVars
  <2>2. LogInv' /\ LogLines!Ring!vars' = LogLines!Ring!vars
    BY <2>1
       DEF LogInv, LogLines!TypeOK, LogLinesKept, LogPush, LogDrain, LogSlot,
           LogLines!Occupancy, LogLines!Span, LogLines!Parts, LogLines!Ring!vars
  <2> QED BY <2>2
<1> QED BY <1>1, <1>2 DEF ServicesNext, RingNext, ringVars, allVars

\* Log ring: what is put out is whole, and the ring is a queue.
LEMMA LogHolds == ServicesSpec => [](LogLines!TypeOK /\ LogLines!WholeLine) /\ LogLines!IsQueue
<1>1. ServicesInit => LogInv /\ LogLines!Ring!Init
  BY LogInit DEF ServicesInit
<1>2. LogInv => LogLines!TypeOK /\ LogLines!WholeLine
  <2> SUFFICES ASSUME LogInv, rd.pc = "put" PROVE rd.len = rd.text /\ rd.text \in Lines
    BY DEF LogInv, LogLines!WholeLine
  <2> QED BY DEF LogInv, LogDrain, LogLinesKept
<1> QED BY <1>1, <1>2, LogNext, PTL DEF ServicesSpec, LogLines!IsQueue, LogLines!Ring!Spec

-----------------------------------------------------------------------------
(* The queue of the ultra-light profile                                        *)

\* A difference that is at most a round too small.
LEMMA ModNegative ==
    ASSUME NEW m \in Nat \ {0}, NEW x \in Int, -m <= x, x < m
    PROVE  x % m = IF x < 0 THEN x + m ELSE x
OBVIOUS

UltraSlot(i) == (read + i) % UltraDepth

\* The slots from read to write hold what was pushed and not popped.
UltraInv ==
    /\ Ultra!TypeOK
    /\ pushed \in Seq(UltraTypes)
    /\ \A i \in 0 .. Len(pushed) - 1 : items[UltraSlot(i)] = pushed[i + 1]

\* The number of events that are queued.
LEMMA UltraShape ==
    /\ UltraDepth \in Nat \ {0} /\ UltraDepth >= 2 /\ MaxCount \in Nat
    /\ UltraHandled \subseteq UltraTypes /\ None \notin UltraTypes
    /\ UltraDepth % UltraDepth = 0
<1>1. /\ UltraDepth \in Nat \ {0} /\ UltraDepth >= 2 /\ MaxCount \in Nat
      /\ UltraHandled \subseteq UltraTypes /\ None \notin UltraTypes
  BY ServicesAssumption DEF Ultra!UltraAssumption
<1>2. UltraDepth \in 0 .. 2 * UltraDepth - 1
  BY <1>1
<1>3. UltraDepth % UltraDepth = 0
  BY <1>1, <1>2, ModSmall
<1> QED BY <1>1, <1>3

\* The arithmetic of the two indices.
LEMMA UltraIndices ==
    ASSUME UltraInv
    PROVE  /\ read \in 0 .. UltraDepth - 1 /\ write \in 0 .. UltraDepth - 1
           /\ Len(pushed) = IF write >= read THEN write - read ELSE write - read + UltraDepth
           /\ Ultra!After(read) = IF read + 1 = UltraDepth THEN 0 ELSE read + 1
           /\ Ultra!After(write) = IF write + 1 = UltraDepth THEN 0 ELSE write + 1
<1>1. /\ read \in 0 .. UltraDepth - 1 /\ write \in 0 .. UltraDepth - 1
      /\ Len(pushed) = (write - read) % UltraDepth
  BY DEF UltraInv, Ultra!TypeOK
<1>2. UltraDepth \in Nat \ {0} /\ UltraDepth >= 2
  BY UltraShape
<1>3. (write - read) % UltraDepth =
         IF write - read < 0 THEN write - read + UltraDepth ELSE write - read
  <2> DEFINE d == write - read
  <2>1. d \in Int /\ -UltraDepth <= d /\ d < UltraDepth
    BY <1>1, <1>2
  <2> HIDE DEF d
  <2>2. d % UltraDepth = IF d < 0 THEN d + UltraDepth ELSE d
    BY <1>2, <2>1, ModNegative
  <2> QED BY <2>2 DEF d
<1>4. ASSUME NEW i \in 0 .. UltraDepth - 1
      PROVE  Ultra!After(i) = IF i + 1 = UltraDepth THEN 0 ELSE i + 1
  <2> DEFINE d == i + 1
  <2>1. d \in 0 .. 2 * UltraDepth - 1 /\ d <= UltraDepth
    BY <1>2
  <2>2. Ultra!After(i) = d % UltraDepth
    BY DEF Ultra!After
  <2> HIDE DEF d
  <2>3. d % UltraDepth = IF d < UltraDepth THEN d ELSE d - UltraDepth
    BY <1>2, <2>1, ModSmall
  <2>4. Ultra!After(i) = IF d = UltraDepth THEN 0 ELSE d
    BY <1>2, <2>1, <2>2, <2>3
  <2> QED BY <2>4 DEF d
<1>5. write - read < 0 <=> ~(write >= read)
  BY <1>1
<1> QED BY <1>1, <1>3, <1>4, <1>5

\* What waits has slots of its own, and the next is pushed behind it.
LEMMA UltraSlots ==
    ASSUME UltraInv
    PROVE  /\ \A i \in Nat : UltraSlot(i) \in 0 .. UltraDepth - 1
           /\ UltraSlot(0) = read /\ UltraSlot(Len(pushed)) = write
           /\ \A i \in 0 .. Len(pushed) - 1 : UltraSlot(i) # write
<1>1. /\ read \in 0 .. UltraDepth - 1 /\ write \in 0 .. UltraDepth - 1
      /\ Len(pushed) = IF write >= read THEN write - read ELSE write - read + UltraDepth
      /\ UltraDepth \in Nat \ {0}
  BY UltraIndices, UltraShape
<1>2. \A i \in Nat : UltraSlot(i) \in 0 .. UltraDepth - 1
  BY <1>1, DivFacts DEF UltraSlot
<1>3. UltraSlot(0) = read
  <2>1. read + 0 = read /\ read < UltraDepth /\ read \in 0 .. 2 * UltraDepth - 1
    BY <1>1
  <2>2. read % UltraDepth = read
    BY <1>1, <2>1, ModSmall
  <2> QED BY <2>1, <2>2 DEF UltraSlot
<1>4. UltraSlot(Len(pushed)) = write
  <2> DEFINE d == read + Len(pushed)
  <2>1. /\ d \in 0 .. 2 * UltraDepth - 1
        /\ d = IF write >= read THEN write ELSE write + UltraDepth
    BY <1>1
  <2>2. UltraSlot(Len(pushed)) = d % UltraDepth
    BY DEF UltraSlot
  <2> HIDE DEF d
  <2>3. d % UltraDepth = IF d < UltraDepth THEN d ELSE d - UltraDepth
    BY <1>1, <2>1, ModSmall
  <2>4. d % UltraDepth = write
    BY <1>1, <2>1, <2>3
  <2> QED BY <2>2, <2>4
<1>5. ASSUME NEW i \in 0 .. Len(pushed) - 1 PROVE UltraSlot(i) # write
  <2>1. Len(pushed) \in 0 .. UltraDepth - 1
    BY <1>1
  <2>2. /\ read + i \in Nat /\ read + Len(pushed) \in Nat /\ read + i # read + Len(pushed)
        /\ read + i <= read + Len(pushed) /\ read + Len(pushed) < read + i + UltraDepth
    BY <1>1, <2>1
  <2>3. (read + i) % UltraDepth # (read + Len(pushed)) % UltraDepth
    BY <1>1, <2>2, SameSlot
  <2> QED BY <1>4, <2>3 DEF UltraSlot
<1> QED BY <1>2, <1>3, <1>4, <1>5

\* An empty queue.
LEMMA UltraInit == Ultra!Init => UltraInv /\ Ultra!Queue!Init
<1> SUFFICES ASSUME Ultra!Init PROVE UltraInv /\ Ultra!Queue!Init
  OBVIOUS
<1>1. 0 \in 0 .. 2 * UltraDepth - 1 /\ 0 < UltraDepth
  BY UltraShape
<1>2. 0 % UltraDepth = 0
  BY <1>1, UltraShape, ModSmall
<1>3. write - read = 0 /\ Len(pushed) = 0
  BY DEF Ultra!Init
<1>4. Ultra!TypeOK
  BY <1>2, <1>3, UltraShape DEF Ultra!Init, Ultra!TypeOK
<1> QED BY <1>3, <1>4 DEF UltraInv, Ultra!Init, Ultra!Queue!Init

\* Steps of the interrupt and of the main loop.
LEMMA UltraStep ==
    ASSUME UltraInv, Ultra!Next
    PROVE  UltraInv' /\ [Ultra!Queue!Next]_Ultra!Queue!vars
<1>0. /\ read \in 0 .. UltraDepth - 1 /\ write \in 0 .. UltraDepth - 1
      /\ Len(pushed) = IF write >= read THEN write - read ELSE write - read + UltraDepth
      /\ Ultra!After(read) = IF read + 1 = UltraDepth THEN 0 ELSE read + 1
      /\ Ultra!After(write) = IF write + 1 = UltraDepth THEN 0 ELSE write + 1
      /\ UltraDepth \in Nat \ {0} /\ UltraDepth >= 2
  BY UltraIndices, UltraShape
<1>s. /\ \A i \in Nat : UltraSlot(i) \in 0 .. UltraDepth - 1
      /\ UltraSlot(0) = read /\ UltraSlot(Len(pushed)) = write
      /\ \A i \in 0 .. Len(pushed) - 1 : UltraSlot(i) # write
  BY UltraSlots
<1>t. /\ items \in [0 .. UltraDepth - 1 -> UltraTypes \cup {None}]
      /\ ultraDropped \in 0 .. MaxCount
      /\ running \in UltraHandled \cup {None}
      /\ pushed \in Seq(UltraTypes)
      /\ \A i \in 0 .. Len(pushed) - 1 : items[UltraSlot(i)] = pushed[i + 1]
      /\ MaxCount \in Nat
  BY UltraShape DEF UltraInv, Ultra!TypeOK
\* What remains to be shown of the two indices.
<1>m. ASSUME NEW r \in 0 .. UltraDepth - 1, NEW w \in 0 .. UltraDepth - 1,
             NEW n \in Nat, n = IF w >= r THEN w - r ELSE w - r + UltraDepth
      PROVE  n = (w - r) % UltraDepth
  <2> DEFINE d == w - r
  <2>1. d \in Int /\ -UltraDepth <= d /\ d < UltraDepth
        /\ n = IF d < 0 THEN d + UltraDepth ELSE d
    BY <1>0, <1>m
  <2> HIDE DEF d
  <2>2. d % UltraDepth = IF d < 0 THEN d + UltraDepth ELSE d
    BY <1>0, <2>1, ModNegative
  <2>3. n = d % UltraDepth
    BY <2>1, <2>2
  <2> QED BY <2>3 DEF d
<1>1. ASSUME NEW e \in UltraTypes, Ultra!Push(e)
      PROVE  UltraInv' /\ [Ultra!Queue!Next]_Ultra!Queue!vars
  <2>1. /\ Ultra!After(write) # read
        /\ items' = [items EXCEPT ![write] = e]
        /\ write' = Ultra!After(write)
        /\ pushed' = Append(pushed, e)
        /\ UNCHANGED <<read, ultraDropped, running, popped>>
    BY <1>1 DEF Ultra!Push, Ultra!Full
  <2>2. /\ pushed' \in Seq(UltraTypes) /\ Len(pushed') = Len(pushed) + 1
        /\ \A i \in 1 .. Len(pushed) : pushed'[i] = pushed[i]
        /\ pushed'[Len(pushed) + 1] = e
    BY <1>t, <2>1
  <2>3. write' \in 0 .. UltraDepth - 1 /\ Len(pushed) < UltraDepth - 1
        /\ Len(pushed) + 1 = IF write' >= read THEN write' - read
                             ELSE write' - read + UltraDepth
    BY <1>0, <2>1
  <2>4. Len(pushed') = (write' - read) % UltraDepth
    <3>1. Len(pushed') \in Nat
          /\ Len(pushed') = IF write' >= read THEN write' - read
                            ELSE write' - read + UltraDepth
      BY <1>t, <2>2, <2>3
    <3> QED BY <1>0, <1>m, <2>3, <3>1
  <2>5. items' \in [0 .. UltraDepth - 1 -> UltraTypes \cup {None}]
    BY <1>0, <1>t, <2>1
  <2>6. Ultra!TypeOK'
    BY <1>0, <1>t, <2>1, <2>3, <2>4, <2>5 DEF Ultra!TypeOK
  <2>7. ASSUME NEW i \in 0 .. Len(pushed') - 1 PROVE items'[UltraSlot(i)'] = pushed'[i + 1]
    <3>1. UltraSlot(i)' = UltraSlot(i)
      BY <2>1 DEF UltraSlot
    <3>2. CASE i = Len(pushed)
      BY <1>0, <1>s, <1>t, <2>1, <2>2, <3>1, <3>2
    <3>3. CASE i \in 0 .. Len(pushed) - 1
      <4>1. /\ items[UltraSlot(i)] = pushed[i + 1] /\ UltraSlot(i) # write
            /\ UltraSlot(i) \in 0 .. UltraDepth - 1 /\ i + 1 \in 1 .. Len(pushed)
        <5>1. i \in Nat /\ i + 1 \in 1 .. Len(pushed)
          BY <1>t, <3>3
        <5> QED BY <1>s, <1>t, <3>3, <5>1
      <4> QED BY <1>t, <2>1, <2>2, <3>1, <4>1
    <3> QED BY <1>t, <2>2, <3>2, <3>3
  <2>8. Ultra!Queue!Next
    BY <2>1, <2>3 DEF Ultra!Queue!Next, Ultra!Queue!Put
  <2> QED BY <2>2, <2>6, <2>7, <2>8 DEF UltraInv
<1>2. ASSUME Ultra!Refuse \/ Ultra!Return
      PROVE  UltraInv' /\ [Ultra!Queue!Next]_Ultra!Queue!vars
  <2>1. /\ UNCHANGED <<items, read, write, pushed, popped>>
        /\ ultraDropped' \in 0 .. MaxCount /\ running' \in UltraHandled \cup {None}
    BY <1>2, <1>t DEF Ultra!Refuse, Ultra!Return
  <2>2. UltraInv' /\ Ultra!Queue!vars' = Ultra!Queue!vars
    BY <2>1 DEF UltraInv, Ultra!TypeOK, UltraSlot, Ultra!Queue!vars
  <2> QED BY <2>2
<1>3. ASSUME Ultra!Process
      PROVE  UltraInv' /\ [Ultra!Queue!Next]_Ultra!Queue!vars
  <2>1. /\ read # write /\ popped' = items[read] /\ read' = Ultra!After(read)
        /\ pushed' = Tail(pushed)
        /\ running' = IF popped' \in UltraHandled THEN popped' ELSE None
        /\ UNCHANGED <<items, write, ultraDropped>>
    BY <1>3 DEF Ultra!Process, Ultra!Pop
  <2>2. Len(pushed) >= 1 /\ pushed # <<>>
    BY <1>0, <1>t, <2>1
  <2>3. /\ pushed' \in Seq(UltraTypes) /\ Len(pushed') = Len(pushed) - 1
        /\ \A i \in 1 .. Len(pushed) - 1 : pushed'[i] = pushed[i + 1]
        /\ Head(pushed) = pushed[1]
    BY <1>t, <2>1, <2>2
  <2>4. popped' = Head(pushed)
    BY <1>s, <1>t, <2>1, <2>2, <2>3
  <2>5. read' \in 0 .. UltraDepth - 1
        /\ Len(pushed) - 1 = IF write >= read' THEN write - read'
                             ELSE write - read' + UltraDepth
    BY <1>0, <2>1
  <2>6. Len(pushed') = (write - read') % UltraDepth
    <3>1. Len(pushed') \in Nat
          /\ Len(pushed') = IF write >= read' THEN write - read'
                            ELSE write - read' + UltraDepth
      BY <1>t, <2>2, <2>3, <2>5
    <3> QED BY <1>0, <1>m, <2>5, <3>1
  <2>7. Ultra!TypeOK'
    BY <1>0, <1>t, <2>1, <2>5, <2>6 DEF Ultra!TypeOK
  <2>8. ASSUME NEW i \in Nat PROVE UltraSlot(i)' = UltraSlot(i + 1)
    <3>1. CASE read + 1 = UltraDepth
      <4>1. read' + i = i /\ read + (i + 1) = i + UltraDepth /\ UltraDepth \in Nat
        BY <1>0, <2>1, <3>1
      <4>2. (i + UltraDepth) % UltraDepth = i % UltraDepth
        BY <1>0, <4>1, UltraShape, LapSlot
      <4> QED BY <4>1, <4>2 DEF UltraSlot
    <3>2. CASE read + 1 # UltraDepth
      <4>1. read' + i = read + (i + 1)
        BY <1>0, <2>1, <3>2
      <4> QED BY <4>1 DEF UltraSlot
    <3> QED BY <3>1, <3>2
  <2>9. ASSUME NEW i \in 0 .. Len(pushed') - 1 PROVE items'[UltraSlot(i)'] = pushed'[i + 1]
    <3>1. i + 1 \in 0 .. Len(pushed) - 1 /\ i + 1 \in 1 .. Len(pushed) - 1 /\ i \in Nat
      BY <1>t, <2>2, <2>3
    <3>2. items[UltraSlot(i + 1)] = pushed[i + 1 + 1]
      BY <1>t, <3>1
    <3> QED BY <2>1, <2>3, <2>8, <3>1, <3>2
  <2>10. Ultra!Queue!Next
    BY <2>1, <2>2, <2>4 DEF Ultra!Queue!Next, Ultra!Queue!Take
  <2> QED BY <2>3, <2>7, <2>9, <2>10 DEF UltraInv
<1>4. ASSUME Ultra!Reset
      PROVE  UltraInv' /\ [Ultra!Queue!Next]_Ultra!Queue!vars
  <2>1. /\ items' = [i \in 0 .. UltraDepth - 1 |-> None] /\ read' = 0 /\ write' = 0
        /\ ultraDropped' = 0 /\ pushed' = <<>> /\ popped' = None /\ running' = running
    BY <1>4 DEF Ultra!Reset
  <2>2. Len(pushed') = (write' - read') % UltraDepth /\ pushed' \in Seq(UltraTypes)
        /\ Len(pushed') = 0
    <3>1. 0 = (0 - 0) % UltraDepth
      BY <1>0, <1>m
    <3> QED BY <2>1, <3>1
  <2>3. Ultra!TypeOK'
    BY <1>0, <1>t, <2>1, <2>2 DEF Ultra!TypeOK
  <2>4. Ultra!Queue!Next
    BY <2>1 DEF Ultra!Queue!Next, Ultra!Queue!Discard
  <2> QED BY <2>2, <2>3, <2>4 DEF UltraInv
<1>5. Ultra!Next => \/ \E e \in UltraTypes : Ultra!Push(e)
                    \/ Ultra!Refuse \/ Ultra!Process \/ Ultra!Return \/ Ultra!Reset
  BY DEF Ultra!Next
<1> QED BY <1>1, <1>2, <1>3, <1>4, <1>5

\* Every step of the services keeps the invariant of the queue.
LEMMA UltraNext ==
    UltraInv /\ [ServicesNext]_allVars => UltraInv' /\ [Ultra!Queue!Next]_Ultra!Queue!vars
<1> SUFFICES ASSUME UltraInv, [ServicesNext]_allVars
    PROVE  UltraInv' /\ [Ultra!Queue!Next]_Ultra!Queue!vars
  OBVIOUS
<1>1. CASE Ultra!Next
  BY <1>1, UltraStep
<1>2. CASE UNCHANGED ultraVars
  <2>1. UNCHANGED <<items, read, write, ultraDropped, running, pushed, popped>>
    BY <1>2 DEF ultraVars
  <2>2. UltraInv' /\ Ultra!Queue!vars' = Ultra!Queue!vars
    BY <2>1 DEF UltraInv, Ultra!TypeOK, UltraSlot, Ultra!Queue!vars
  <2> QED BY <2>2
<1> QED BY <1>1, <1>2 DEF ServicesNext, RingNext, ringVars, allVars

\* The queue of the ultra-light profile is one.
LEMMA UltraHolds == ServicesSpec => []Ultra!TypeOK /\ Ultra!IsQueue
<1>1. ServicesInit => UltraInv /\ Ultra!Queue!Init
  BY UltraInit DEF ServicesInit
<1>2. UltraInv => Ultra!TypeOK
  BY DEF UltraInv
<1> QED BY <1>1, <1>2, UltraNext, PTL DEF ServicesSpec, Ultra!IsQueue, Ultra!Queue!Spec

-----------------------------------------------------------------------------
(* The recorder                                                                *)

\* Frames recorded since the one delivered last, those still ahead of the tail, and
\* those recorded since the one being copied.
Since == Frames!Minus(head, Frames!Ahead(last))
Lag == Frames!Minus(head, tail)
CopyLag == Frames!Minus(head, pop.at)

RecorderTypes ==
    /\ head \in Frames!Number /\ tail \in Frames!Number /\ last \in Frames!Number
    /\ buf \in [0 .. Capacity - 1 -> [Frames!Words -> Frames!Number]]
    /\ pop \in [pc : {"idle", "load", "copy", "check"}, at : Frames!Number,
                retried : BOOLEAN, copy : Seq(Frames!Number)]
    /\ left \in Nat /\ dropped \in Nat

\* The main loop is not too far behind; what it skipped it has counted, at most once.
RecorderLag ==
    /\ Since <= MaxBehind
    /\ Lag <= Since
    /\ pop.pc \in {"idle", "load"} => dropped <= Since - Lag /\ (dropped = 0 <=> Lag = Since)
    /\ pop.pc \in {"copy", "check"} =>
          /\ 1 <= CopyLag /\ CopyLag <= Since
          /\ dropped <= Since - CopyLag /\ (dropped = 0 <=> CopyLag = Since)

\* What is not overwritten was copied from one frame.
RecorderCopy ==
    /\ Len(pop.copy) <= WordCount
    /\ pop.pc # "idle" => left > 0
    /\ pop.pc = "copy" => Len(pop.copy) < WordCount
    /\ pop.pc = "check" => Len(pop.copy) = WordCount
    /\ pop.pc \in {"copy", "check"} /\ CopyLag <= Capacity =>
          \A w \in 1 .. Len(pop.copy) : pop.copy[w] = pop.at

\* The newest frames are in the ring, each in its slot.
InRing(n) == Frames!Minus(head, n) \in 1 .. Capacity /\ Frames!Minus(head, n) <= Since
RecorderRing ==
    \A n \in Frames!Number : InRing(n) => buf[n % Capacity] = [w \in Frames!Words |-> n]

RecorderInv ==
    /\ RecorderTypes /\ RecorderLag /\ RecorderCopy /\ RecorderRing
    /\ Frames!GoodFrame /\ Frames!DropsAreSeen

\* The constants of the recorder.
LEMMA RecorderShape ==
    /\ Capacity \in Nat \ {0} /\ Capacity >= 2 /\ CurMod \in Nat \ {0}
    /\ CurMod % Capacity = 0 /\ MaxBehind \in Nat
    /\ Capacity <= MaxBehind /\ MaxBehind <= CurMod - 2
    /\ WordCount \in Nat \ {0} /\ Budget \in Nat
    /\ Frames!Number = 0 .. CurMod - 1
BY ServicesAssumption DEF Frames!RecorderAssumption, Frames!Number

\* The distance between two numbers, and the number after one.
LEMMA MinusIs ==
    ASSUME NEW a \in Frames!Number, NEW b \in Frames!Number
    PROVE  /\ Frames!Minus(a, b) = IF a >= b THEN a - b ELSE a - b + CurMod
           /\ Frames!Minus(a, b) \in Frames!Number
<1> DEFINE d == a - b
<1>1. d \in Int /\ -CurMod <= d /\ d < CurMod /\ CurMod \in Nat \ {0}
  BY RecorderShape
<1>2. Frames!Minus(a, b) = d % CurMod
  BY DEF Frames!Minus
<1> HIDE DEF d
<1>3. d % CurMod = IF d < 0 THEN d + CurMod ELSE d
  BY <1>1, ModNegative
<1>4. Frames!Minus(a, b) = IF d < 0 THEN d + CurMod ELSE d
  BY <1>2, <1>3
<1> QED BY <1>4, RecorderShape DEF d

\* How far one cursor is ahead of another, which come round.
LEMMA AheadIs ==
    ASSUME NEW a \in Frames!Number
    PROVE  /\ Frames!Ahead(a) = IF a = CurMod - 1 THEN 0 ELSE a + 1
           /\ Frames!Ahead(a) \in Frames!Number
<1> DEFINE d == a + 1
<1>1. d \in 0 .. 2 * CurMod - 1 /\ d <= CurMod /\ CurMod \in Nat \ {0}
  BY RecorderShape
<1>2. Frames!Ahead(a) = d % CurMod
  BY DEF Frames!Ahead
<1> HIDE DEF d
<1>3. d % CurMod = IF d < CurMod THEN d ELSE d - CurMod
  BY <1>1, ModSmall
<1>4. Frames!Ahead(a) = IF d = CurMod THEN 0 ELSE d
  BY <1>1, <1>2, <1>3
<1> QED BY <1>4, RecorderShape DEF d

\* A push takes the head one step away from every other number, and the number that is
\* reached from one by way of another is as far as the two steps together.
LEMMA PushLag ==
    ASSUME NEW h \in Frames!Number, NEW n \in Frames!Number,
           Frames!Minus(h, n) < CurMod - 1
    PROVE  Frames!Minus(Frames!Ahead(h), n) = Frames!Minus(h, n) + 1
<1>1. /\ Frames!Ahead(h) = IF h = CurMod - 1 THEN 0 ELSE h + 1
      /\ Frames!Ahead(h) \in Frames!Number
  BY AheadIs
<1>2. Frames!Minus(h, n) = IF h >= n THEN h - n ELSE h - n + CurMod
  BY MinusIs
<1>3. Frames!Minus(Frames!Ahead(h), n) =
         IF Frames!Ahead(h) >= n THEN Frames!Ahead(h) - n ELSE Frames!Ahead(h) - n + CurMod
  BY <1>1, MinusIs
<1> QED BY <1>1, <1>2, <1>3, RecorderShape

\* Distances of cursors add up.
LEMMA LagsAdd ==
    ASSUME NEW h \in Frames!Number, NEW n \in Frames!Number, NEW m \in Frames!Number,
           Frames!Minus(h, n) <= Frames!Minus(h, m)
    PROVE  Frames!Minus(n, m) = Frames!Minus(h, m) - Frames!Minus(h, n)
<1>1. Frames!Minus(h, n) = IF h >= n THEN h - n ELSE h - n + CurMod
  BY MinusIs
<1>2. Frames!Minus(h, m) = IF h >= m THEN h - m ELSE h - m + CurMod
  BY MinusIs
<1>3. Frames!Minus(n, m) = IF n >= m THEN n - m ELSE n - m + CurMod
  BY MinusIs
<1> QED BY <1>1, <1>2, <1>3, RecorderShape

\* The frame after the one delivered last is one nearer to the head than that one.
LEMMA AfterLast ==
    ASSUME NEW h \in Frames!Number, NEW n \in Frames!Number
    PROVE  /\ Frames!Minus(h, n) # 0 =>
                 Frames!Minus(h, Frames!Ahead(n)) = Frames!Minus(h, n) - 1
           /\ Frames!Minus(h, n) = 0 => Frames!Minus(h, Frames!Ahead(n)) = CurMod - 1
<1>1. /\ Frames!Ahead(n) = IF n = CurMod - 1 THEN 0 ELSE n + 1
      /\ Frames!Ahead(n) \in Frames!Number
  BY AheadIs
<1>2. Frames!Minus(h, n) = IF h >= n THEN h - n ELSE h - n + CurMod
  BY MinusIs
<1>3. Frames!Minus(h, Frames!Ahead(n)) =
         IF h >= Frames!Ahead(n) THEN h - Frames!Ahead(n) ELSE h - Frames!Ahead(n) + CurMod
  BY <1>1, MinusIs
<1> QED BY <1>1, <1>2, <1>3, RecorderShape

\* Frames less than the capacity apart have different slots.
LEMMA FrameSlots ==
    ASSUME NEW h \in Frames!Number, NEW n \in Frames!Number,
           Frames!Minus(h, n) \in 1 .. Capacity - 1
    PROVE  h % Capacity # n % Capacity
<1>1. Frames!Minus(h, n) = IF h >= n THEN h - n ELSE h - n + CurMod
  BY MinusIs
<1>2. CASE h >= n
  <2>1. /\ h \in Nat /\ n \in Nat /\ n <= h /\ h < n + Capacity /\ h # n
        /\ Capacity \in Nat \ {0}
    BY <1>1, <1>2, RecorderShape
  <2> QED BY <2>1, SameSlot
<1>3. CASE ~(h >= n)
  <2>1. /\ h + CurMod \in Nat /\ n \in Nat /\ n <= h + CurMod /\ h + CurMod < n + Capacity
        /\ h + CurMod # n /\ Capacity \in Nat \ {0} /\ h \in Nat
        /\ CurMod \in Nat
    BY <1>1, <1>3, RecorderShape
  <2>2. (h + CurMod) % Capacity # n % Capacity
    BY <2>1, SameSlot
  <2>3. (h + CurMod) % Capacity = h % Capacity
    BY <2>1, RecorderShape, LapSlot
  <2> QED BY <2>2, <2>3
<1> QED BY <1>2, <1>3

\* The distances are numbers.
LEMMA LagTypes ==
    ASSUME RecorderTypes
    PROVE  /\ Since \in 0 .. CurMod - 1 /\ Lag \in 0 .. CurMod - 1
           /\ CopyLag \in 0 .. CurMod - 1 /\ Frames!Ahead(last) \in Frames!Number
<1>1. /\ head \in Frames!Number /\ tail \in Frames!Number /\ pop.at \in Frames!Number
      /\ last \in Frames!Number
  BY DEF RecorderTypes
<1>2. Frames!Ahead(last) \in Frames!Number
  BY <1>1, AheadIs
<1>3. /\ Frames!Minus(head, Frames!Ahead(last)) \in Frames!Number
      /\ Frames!Minus(head, tail) \in Frames!Number
      /\ Frames!Minus(head, pop.at) \in Frames!Number
  BY <1>1, <1>2, MinusIs
<1> QED BY <1>2, <1>3, RecorderShape DEF Since, Lag, CopyLag

\* An empty recorder.
LEMMA RecorderInit == Frames!Init => RecorderInv
<1> SUFFICES ASSUME Frames!Init PROVE RecorderInv
  OBVIOUS
<1> USE DEF Frames!Init, Frames!Resting, Frames!Nothing
<1>1. RecorderTypes
  <2>1. 0 \in Frames!Number /\ CurMod - 1 \in Frames!Number
    BY RecorderShape
  <2>2. <<>> \in Seq(Frames!Number)
    OBVIOUS
  <2>3. buf \in [0 .. Capacity - 1 -> [Frames!Words -> Frames!Number]]
    BY <2>1
  <2>4. pop \in [pc : {"idle", "load", "copy", "check"}, at : Frames!Number,
                 retried : BOOLEAN, copy : Seq(Frames!Number)]
    BY <2>1, <2>2
  <2> QED BY <2>1, <2>3, <2>4 DEF RecorderTypes
<1>2. Since = 0 /\ Lag = 0
  <2>1. 0 \in Frames!Number /\ CurMod - 1 \in Frames!Number
    BY RecorderShape
  <2>2. Frames!Ahead(CurMod - 1) = 0
    BY <2>1, AheadIs
  <2>3. Frames!Minus(0, 0) = 0
    BY <2>1, MinusIs
  <2> QED BY <2>2, <2>3 DEF Since, Lag
<1>3. RecorderLag /\ RecorderCopy
  BY <1>2, RecorderShape DEF RecorderLag, RecorderCopy
<1>4. RecorderRing
  BY <1>2 DEF RecorderRing, InRing
<1>5. Frames!GoodFrame /\ Frames!DropsAreSeen
  BY DEF Frames!GoodFrame, Frames!DropsAreSeen
<1> QED BY <1>1, <1>3, <1>4, <1>5 DEF RecorderInv

\* An interrupt pushes a frame, and overtakes the reader or not.
LEMMA RecorderPush ==
    ASSUME RecorderInv, Frames!Push PROVE RecorderInv'
<1>0. RecorderTypes /\ RecorderLag /\ RecorderCopy /\ RecorderRing
  BY DEF RecorderInv
<1>1. /\ Frames!Minus(head, last) <= MaxBehind
      /\ buf' = [buf EXCEPT ![head % Capacity] = [w \in Frames!Words |-> head]]
      /\ head' = Frames!Ahead(head)
      /\ UNCHANGED <<tail, pop, left, dropped, out, last>>
  BY DEF Frames!Push
<1>2. /\ head \in Frames!Number /\ last \in Frames!Number /\ head' \in Frames!Number
      /\ head % Capacity \in 0 .. Capacity - 1
  <2>1. head \in Frames!Number /\ last \in Frames!Number
    BY <1>0 DEF RecorderTypes
  <2>2. head \in Nat /\ Capacity \in Nat \ {0}
    BY <2>1, RecorderShape
  <2> QED BY <1>1, <2>1, <2>2, AheadIs, DivFacts
<1>3. /\ Since' = Since + 1 /\ Since' <= MaxBehind /\ Since + 1 \in Nat
      /\ Since' \in Nat /\ Since \in Nat
  <2>1. Since \in 0 .. CurMod - 1 /\ Frames!Ahead(last) \in Frames!Number
    BY <1>0, LagTypes
  <2>2. Frames!Minus(head, last) # 0
    <3>1. Frames!Minus(head, last) = 0 => Since = CurMod - 1
      BY <1>2, AfterLast DEF Since
    <3>2. Since <= MaxBehind
      BY <1>0 DEF RecorderLag
    <3> QED BY <3>1, <3>2, RecorderShape
  <2>3. Since = Frames!Minus(head, last) - 1
    BY <1>2, <2>2, AfterLast DEF Since
  <2>4. Frames!Minus(head, last) \in Frames!Number
    BY <1>2, MinusIs
  <2>5. Since < CurMod - 1 /\ Since + 1 <= MaxBehind
    BY <1>1, <2>3, <2>4, RecorderShape
  <2>6. Since' = Frames!Minus(Frames!Ahead(head), Frames!Ahead(last))
    BY <1>1 DEF Since
  <2>7. Since' = Since + 1
    BY <1>2, <2>1, <2>5, <2>6, PushLag DEF Since
  <2> QED BY <2>1, <2>5, <2>7
<1>4. ASSUME NEW n \in Frames!Number, Frames!Minus(head, n) <= Since
      PROVE  Frames!Minus(head', n) = Frames!Minus(head, n) + 1
  <2>1. Frames!Minus(head, n) < CurMod - 1
    <3>1. Frames!Minus(head, n) \in 0 .. CurMod - 1
      BY <1>2, MinusIs, RecorderShape
    <3> QED BY <1>3, <1>4, <3>1, RecorderShape
  <2> QED BY <1>1, <1>2, <2>1, PushLag
<1>5. Lag' = Lag + 1 /\ Lag \in Nat
  <2>1. tail \in Frames!Number /\ Lag <= Since /\ Lag \in Nat /\ tail' = tail
    BY <1>0, <1>1, LagTypes DEF RecorderTypes, RecorderLag
  <2> QED BY <1>4, <2>1 DEF Lag
<1>6. pop.pc \in {"copy", "check"} => CopyLag' = CopyLag + 1 /\ CopyLag \in Nat
  <2>1. pop.at \in Frames!Number /\ CopyLag \in Nat /\ pop'.at = pop.at
    BY <1>0, <1>1, LagTypes DEF RecorderTypes
  <2>2. pop.pc \in {"copy", "check"} => CopyLag <= Since
    BY <1>0 DEF RecorderLag
  <2> QED BY <1>4, <2>1, <2>2 DEF CopyLag
<1>7. RecorderTypes'
  <2>1. [w \in Frames!Words |-> head] \in [Frames!Words -> Frames!Number]
    BY <1>2
  <2>2. buf' \in [0 .. Capacity - 1 -> [Frames!Words -> Frames!Number]]
    BY <1>0, <1>1, <1>2, <2>1 DEF RecorderTypes
  <2> QED BY <1>0, <1>1, <1>2, <2>2 DEF RecorderTypes
<1>8. RecorderLag'
  <2>1. dropped \in Nat /\ dropped' = dropped /\ pop' = pop
    BY <1>0, <1>1 DEF RecorderTypes
  <2>2. Lag' <= Since'
    BY <1>0, <1>3, <1>5 DEF RecorderLag
  <2>3. pop.pc \in {"idle", "load"} =>
           dropped <= Since' - Lag' /\ (dropped = 0 <=> Lag' = Since')
    BY <1>0, <1>3, <1>5, <2>1 DEF RecorderLag
  <2>4. pop.pc \in {"copy", "check"} =>
          /\ 1 <= CopyLag' /\ CopyLag' <= Since'
          /\ dropped <= Since' - CopyLag' /\ (dropped = 0 <=> CopyLag' = Since')
    BY <1>0, <1>3, <1>6, <2>1 DEF RecorderLag
  <2> QED BY <1>3, <2>1, <2>2, <2>3, <2>4 DEF RecorderLag
<1>9. RecorderCopy'
  <2>1. pop' = pop /\ left' = left
    BY <1>1
  <2>2. pop.pc \in {"copy", "check"} /\ CopyLag' <= Capacity => CopyLag <= Capacity
    BY <1>6, RecorderShape
  <2> QED BY <1>0, <2>1, <2>2 DEF RecorderCopy
<1>10. RecorderRing'
  <2> SUFFICES ASSUME NEW n \in Frames!Number, InRing(n)'
      PROVE  buf'[n % Capacity] = [w \in Frames!Words |-> n]
    BY DEF RecorderRing
  <2>1. CASE n = head
    BY <1>0, <1>1, <1>2, <2>1 DEF RecorderTypes
  <2>2. CASE n # head
    <3>1. n % Capacity \in 0 .. Capacity - 1
      <4>1. n \in Nat /\ Capacity \in Nat \ {0}
        BY RecorderShape
      <4> QED BY <4>1, DivFacts
    <3>2. /\ Frames!Minus(head', n) \in 1 .. Capacity /\ Frames!Minus(head', n) <= Since + 1
      BY <1>3 DEF InRing
    <3>3. /\ Frames!Minus(head, n) = IF head >= n THEN head - n ELSE head - n + CurMod
          /\ Frames!Minus(head, n) \in Frames!Number
      BY <1>2, MinusIs
    <3>4. Frames!Minus(head', n) = IF head' >= n THEN head' - n ELSE head' - n + CurMod
      BY <1>2, MinusIs
    <3>5. head' = IF head = CurMod - 1 THEN 0 ELSE head + 1
      BY <1>1, <1>2, AheadIs
    <3>6. Frames!Minus(head, n) = Frames!Minus(head', n) - 1 /\ Frames!Minus(head, n) # 0
      BY <1>2, <2>2, <3>2, <3>3, <3>4, <3>5, RecorderShape
    <3>7. Frames!Minus(head, n) \in 1 .. Capacity - 1 /\ Frames!Minus(head, n) <= Since
      BY <1>3, <3>2, <3>3, <3>6, RecorderShape
    <3>8. head % Capacity # n % Capacity
      BY <1>2, <3>7, FrameSlots
    <3>9. InRing(n)
      BY <3>7, RecorderShape DEF InRing
    <3> QED BY <1>0, <1>1, <1>2, <3>1, <3>8, <3>9 DEF RecorderRing, RecorderTypes
  <2> QED BY <2>1, <2>2
<1>11. Frames!GoodFrame' /\ Frames!DropsAreSeen'
  BY <1>1 DEF RecorderInv, Frames!GoodFrame, Frames!DropsAreSeen, Frames!Nothing
<1> QED BY <1>7, <1>8, <1>9, <1>10, <1>11 DEF RecorderInv

\* The main loop does not touch the ring.
LEMMA RingStays ==
    ASSUME RecorderRing, UNCHANGED <<head, buf, last>>
    PROVE  RecorderRing' /\ Since' = Since
<1>1. Since' = Since
  BY DEF Since
<1>2. \A n \in Frames!Number : InRing(n)' = InRing(n)
  BY <1>1 DEF InRing
<1> QED BY <1>1, <1>2 DEF RecorderRing

\* A pop or a drain begins, or finds nothing.
LEMMA RecorderBegin ==
    ASSUME RecorderInv, Frames!Pop \/ Frames!Drain \/ Frames!NoData
    PROVE  RecorderInv'
<1> USE DEF Frames!Resting
<1>0. RecorderTypes /\ RecorderLag /\ RecorderCopy /\ RecorderRing
  BY DEF RecorderInv
<1>1. UNCHANGED <<head, tail, buf, dropped, out, last>>
  BY DEF Frames!Pop, Frames!Drain, Frames!Begin, Frames!NoData
<1>2. pop.pc \in {"idle", "load"}
      /\ \/ pop' = [Frames!Resting EXCEPT !.pc = "load"] /\ left' \in Nat /\ left' > 0
         \/ pop' = Frames!Resting /\ left' = 0
  <2>1. CASE Frames!Pop
    BY <2>1 DEF Frames!Pop, Frames!Begin
  <2>2. CASE Frames!Drain
    <3>1. PICK budget \in {Frames!Readable, Budget} : budget > 0 /\ Frames!Begin(budget)
      BY <2>2 DEF Frames!Drain
    <3>2. Frames!Readable \in Nat
      <4>1. Lag \in Nat
        BY <1>0, LagTypes
      <4> QED BY <4>1, RecorderShape DEF Frames!Readable, Frames!Avail, Lag
    <3> QED BY <3>1, <3>2, RecorderShape DEF Frames!Begin
  <2>3. CASE Frames!NoData
    BY <2>3 DEF Frames!NoData
  <2> QED BY <2>1, <2>2, <2>3
<1>3. /\ pop' \in [pc : {"idle", "load", "copy", "check"}, at : Frames!Number,
                   retried : BOOLEAN, copy : Seq(Frames!Number)]
      /\ pop'.pc \in {"idle", "load"} /\ left' \in Nat /\ (pop'.pc # "idle" => left' > 0)
      /\ Len(pop'.copy) <= WordCount
  <2>1. 0 \in Frames!Number /\ <<>> \in Seq(Frames!Number) /\ 0 <= WordCount
    BY RecorderShape
  <2>2. CASE pop' = [Frames!Resting EXCEPT !.pc = "load"] /\ left' \in Nat /\ left' > 0
    BY <2>1, <2>2
  <2>3. CASE pop' = Frames!Resting /\ left' = 0
    BY <2>1, <2>3
  <2> QED BY <1>2, <2>2, <2>3
<1>4. RecorderTypes'
  BY <1>0, <1>1, <1>3 DEF RecorderTypes
<1>5. Since' = Since /\ RecorderRing' /\ Lag' = Lag
  BY <1>0, <1>1, RingStays DEF Lag
<1>6. RecorderLag'
  <2>1. dropped <= Since - Lag /\ (dropped = 0 <=> Lag = Since)
    BY <1>0, <1>2 DEF RecorderLag
  <2> QED BY <1>0, <1>1, <1>3, <1>5, <2>1 DEF RecorderLag
<1>7. RecorderCopy'
  BY <1>3 DEF RecorderCopy
<1>8. Frames!GoodFrame' /\ Frames!DropsAreSeen'
  BY <1>1 DEF RecorderInv, Frames!GoodFrame, Frames!DropsAreSeen, Frames!Nothing
<1> QED BY <1>4, <1>5, <1>6, <1>7, <1>8 DEF RecorderInv

\* The candidate is the oldest frame that is still in the ring.
LEMMA RecorderLoad ==
    ASSUME RecorderInv, Frames!Load PROVE RecorderInv'
<1>0. RecorderTypes /\ RecorderLag /\ RecorderCopy /\ RecorderRing
  BY DEF RecorderInv
<1>1. /\ pop.pc = "load" /\ Lag # 0
      /\ dropped' = dropped + Frames!Skipped
      /\ pop' = [pop EXCEPT !.pc = "copy", !.at = Frames!Oldest, !.copy = <<>>]
      /\ UNCHANGED <<head, tail, buf, left, out, last>>
  BY DEF Frames!Load, Frames!Avail, Lag
<1>2. /\ Lag \in Nat \ {0} /\ Since \in Nat /\ dropped \in Nat
      /\ head \in Frames!Number /\ tail \in Frames!Number
      /\ Lag <= Since /\ dropped <= Since - Lag /\ (dropped = 0 <=> Lag = Since)
      /\ left > 0
  BY <1>0, <1>1, LagTypes DEF RecorderTypes, RecorderLag, RecorderCopy
<1>3. Frames!Oldest \in Frames!Number
      /\ Frames!Minus(head, Frames!Oldest) = IF Lag > Capacity THEN Capacity ELSE Lag
  <2>1. CASE Lag > Capacity
    <3>1. Capacity \in Frames!Number
      BY RecorderShape
    <3>2. /\ Frames!Minus(head, Capacity) \in Frames!Number
          /\ Frames!Minus(head, Capacity) =
                IF head >= Capacity THEN head - Capacity ELSE head - Capacity + CurMod
      BY <1>2, <3>1, MinusIs
    <3> DEFINE o == Frames!Minus(head, Capacity)
    <3>3. Frames!Minus(head, o) = IF head >= o THEN head - o ELSE head - o + CurMod
      BY <1>2, <3>2, MinusIs
    <3>4. Frames!Minus(head, o) = Capacity
      BY <1>2, <3>1, <3>2, <3>3, RecorderShape
    <3>5. Frames!Oldest = o
      BY <2>1 DEF Frames!Oldest, Frames!Avail, Lag
    <3> QED BY <2>1, <3>2, <3>4, <3>5
  <2>2. CASE ~(Lag > Capacity)
    BY <1>2, <2>2 DEF Frames!Oldest, Frames!Avail, Lag
  <2> QED BY <2>1, <2>2
<1>4. Frames!Skipped = IF Lag > Capacity THEN Lag - Capacity ELSE 0
  BY DEF Frames!Skipped, Frames!Avail, Lag
<1>5. /\ pop' \in [pc : {"idle", "load", "copy", "check"}, at : Frames!Number,
                   retried : BOOLEAN, copy : Seq(Frames!Number)]
      /\ pop'.pc = "copy" /\ pop'.at = Frames!Oldest /\ pop'.copy = <<>>
  <2>1. <<>> \in Seq(Frames!Number)
    OBVIOUS
  <2> QED BY <1>0, <1>1, <1>3, <2>1 DEF RecorderTypes
<1>6. RecorderRing' /\ Since' = Since /\ Lag' = Lag
      /\ CopyLag' = IF Lag > Capacity THEN Capacity ELSE Lag
  BY <1>0, <1>1, <1>3, <1>5, RingStays DEF Lag, CopyLag
<1>7. RecorderTypes'
  <2>1. dropped' \in Nat
    BY <1>1, <1>2, <1>4, RecorderShape
  <2> QED BY <1>0, <1>1, <1>5, <2>1 DEF RecorderTypes
<1>8. RecorderLag'
  <2>1. 1 <= CopyLag' /\ CopyLag' <= Since
    BY <1>2, <1>6, RecorderShape
  <2>2. dropped' <= Since - CopyLag' /\ (dropped' = 0 <=> CopyLag' = Since)
    BY <1>1, <1>2, <1>4, <1>6, RecorderShape
  <2> QED BY <1>0, <1>5, <1>6, <2>1, <2>2 DEF RecorderLag
<1>9. RecorderCopy'
  BY <1>1, <1>2, <1>5, RecorderShape DEF RecorderCopy
<1>10. Frames!GoodFrame' /\ Frames!DropsAreSeen'
  BY <1>1 DEF RecorderInv, Frames!GoodFrame, Frames!DropsAreSeen, Frames!Nothing
<1> QED BY <1>6, <1>7, <1>8, <1>9, <1>10 DEF RecorderInv

\* As long as nothing came over it the copy is of the frame that was chosen.
LEMMA RecorderCopyWord ==
    ASSUME RecorderInv, Frames!CopyWord PROVE RecorderInv'
<1>0. RecorderTypes /\ RecorderLag /\ RecorderCopy /\ RecorderRing
  BY DEF RecorderInv
<1> DEFINE word == buf[pop.at % Capacity][Len(pop.copy) + 1]
           copied == Append(pop.copy, word)
<1>1. /\ pop.pc = "copy"
      /\ pop' = [pop EXCEPT !.copy = copied,
                            !.pc = IF Len(copied) = WordCount THEN "check" ELSE "copy"]
      /\ UNCHANGED <<head, tail, buf, left, dropped, out, last>>
  BY DEF Frames!CopyWord
<1>2. /\ pop.at \in Frames!Number /\ pop.copy \in Seq(Frames!Number)
      /\ Len(pop.copy) \in Nat /\ Len(pop.copy) < WordCount
      /\ Len(pop.copy) + 1 \in Frames!Words /\ left > 0
      /\ pop.at % Capacity \in 0 .. Capacity - 1
  <2>1. pop.at \in Frames!Number /\ pop.copy \in Seq(Frames!Number)
    BY <1>0 DEF RecorderTypes
  <2>2. Len(pop.copy) \in Nat /\ Len(pop.copy) < WordCount /\ left > 0
    BY <1>0, <1>1, <2>1 DEF RecorderCopy
  <2>3. pop.at \in Nat /\ Capacity \in Nat \ {0}
    BY <2>1, RecorderShape
  <2>4. pop.at % Capacity \in 0 .. Capacity - 1
    BY <2>3, DivFacts
  <2> QED BY <2>1, <2>2, <2>4, RecorderShape DEF Frames!Words
<1>3. word \in Frames!Number
  BY <1>0, <1>2 DEF RecorderTypes
<1>4. CopyLag <= Capacity => word = pop.at
  <2> SUFFICES ASSUME CopyLag <= Capacity PROVE word = pop.at
    OBVIOUS
  <2>1. 1 <= CopyLag /\ CopyLag <= Since /\ CopyLag \in Nat
    BY <1>0, <1>1, LagTypes DEF RecorderLag
  <2>2. InRing(pop.at)
    BY <2>1, RecorderShape DEF InRing, CopyLag
  <2> QED BY <1>0, <1>2, <2>2 DEF RecorderRing
<1> HIDE DEF word
<1>5. /\ copied \in Seq(Frames!Number) /\ Len(copied) = Len(pop.copy) + 1
      /\ \A w \in 1 .. Len(pop.copy) : copied[w] = pop.copy[w]
      /\ copied[Len(pop.copy) + 1] = word
  BY <1>2, <1>3
<1> HIDE DEF copied
<1>6. /\ pop' \in [pc : {"idle", "load", "copy", "check"}, at : Frames!Number,
                   retried : BOOLEAN, copy : Seq(Frames!Number)]
      /\ pop'.pc = (IF Len(copied) = WordCount THEN "check" ELSE "copy")
      /\ pop'.at = pop.at /\ pop'.copy = copied
  BY <1>0, <1>1, <1>5 DEF RecorderTypes
<1>7. RecorderRing' /\ Since' = Since /\ Lag' = Lag /\ CopyLag' = CopyLag
  BY <1>0, <1>1, <1>6, RingStays DEF Lag, CopyLag
<1>8. RecorderTypes'
  BY <1>0, <1>1, <1>6 DEF RecorderTypes
<1>9. RecorderLag'
  <2>1. pop'.pc \in {"copy", "check"}
    BY <1>6
  <2> QED BY <1>0, <1>1, <1>7, <2>1 DEF RecorderLag
<1>10. RecorderCopy'
  <2>1. ASSUME CopyLag <= Capacity, NEW w \in 1 .. Len(copied) PROVE copied[w] = pop.at
    <3>1. CASE w = Len(pop.copy) + 1
      BY <1>4, <1>5, <2>1, <3>1
    <3>2. CASE w \in 1 .. Len(pop.copy)
      BY <1>0, <1>1, <1>5, <2>1, <3>2 DEF RecorderCopy
    <3> QED BY <1>2, <1>5, <3>1, <3>2
  <2>2. left' > 0 /\ Len(copied) <= WordCount
    BY <1>1, <1>2, <1>5, RecorderShape
  <2>3. pop'.pc = "copy" => Len(copied) < WordCount
    <3>1. pop'.pc = "copy" => Len(copied) # WordCount
      BY <1>6
    <3>2. Len(copied) \in Nat /\ WordCount \in Nat
      BY <1>5, RecorderShape
    <3> QED BY <2>2, <3>1, <3>2
  <2>4. pop'.pc = "check" => Len(copied) = WordCount
    BY <1>6
  <2> QED BY <1>6, <1>7, <2>1, <2>2, <2>3, <2>4 DEF RecorderCopy
<1>11. Frames!GoodFrame' /\ Frames!DropsAreSeen'
  BY <1>1 DEF RecorderInv, Frames!GoodFrame, Frames!DropsAreSeen, Frames!Nothing
<1> QED BY <1>7, <1>8, <1>9, <1>10, <1>11 DEF RecorderInv

\* A copy that was overwritten is counted and not delivered.
LEMMA RecorderOverrun ==
    ASSUME RecorderInv, Frames!Overrun PROVE RecorderInv'
<1>0. RecorderTypes /\ RecorderLag /\ RecorderCopy /\ RecorderRing
  BY DEF RecorderInv
<1>1. /\ pop.pc = "check" /\ CopyLag > Capacity
      /\ dropped' = dropped + 1 /\ tail' = Frames!Minus(head, Capacity)
      /\ \/ pop' = Frames!Resting /\ left' = 0
         \/ pop' = [pop EXCEPT !.pc = "load", !.retried = TRUE] /\ left' = left
      /\ UNCHANGED <<head, buf, out, last>>
  BY DEF Frames!Overrun, Frames!Overwritten, CopyLag
<1>2. /\ CopyLag \in Nat /\ Since \in Nat /\ dropped \in Nat /\ head \in Frames!Number
      /\ CopyLag <= Since /\ dropped <= Since - CopyLag /\ left > 0 /\ left \in Nat
  BY <1>0, <1>1, LagTypes DEF RecorderTypes, RecorderLag, RecorderCopy
<1>3. tail' \in Frames!Number /\ Frames!Minus(head, tail') = Capacity
  <2>1. Capacity \in Frames!Number
    BY RecorderShape
  <2>2. /\ tail' \in Frames!Number
        /\ tail' = IF head >= Capacity THEN head - Capacity ELSE head - Capacity + CurMod
    BY <1>1, <1>2, <2>1, MinusIs
  <2>3. Frames!Minus(head, tail') =
           IF head >= tail' THEN head - tail' ELSE head - tail' + CurMod
    BY <1>2, <2>2, MinusIs
  <2> QED BY <1>2, <2>1, <2>2, <2>3, RecorderShape
<1>4. /\ pop' \in [pc : {"idle", "load", "copy", "check"}, at : Frames!Number,
                   retried : BOOLEAN, copy : Seq(Frames!Number)]
      /\ pop'.pc \in {"idle", "load"} /\ left' \in Nat /\ (pop'.pc # "idle" => left' > 0)
      /\ Len(pop'.copy) <= WordCount
  <2>1. 0 \in Frames!Number /\ <<>> \in Seq(Frames!Number) /\ 0 <= WordCount
    BY RecorderShape
  <2>2. CASE pop' = Frames!Resting /\ left' = 0
    BY <2>1, <2>2 DEF Frames!Resting
  <2>3. CASE pop' = [pop EXCEPT !.pc = "load", !.retried = TRUE] /\ left' = left
    <3>1. Len(pop.copy) <= WordCount
      BY <1>0 DEF RecorderCopy
    <3> QED BY <1>0, <1>2, <2>3, <3>1 DEF RecorderTypes
  <2> QED BY <1>1, <2>2, <2>3
<1>5. RecorderRing' /\ Since' = Since /\ Lag' = Capacity
  BY <1>0, <1>1, <1>3, RingStays DEF Lag
<1>6. RecorderTypes'
  BY <1>0, <1>1, <1>2, <1>3, <1>4 DEF RecorderTypes
<1>7. RecorderLag'
  <2>1. /\ Capacity <= Since
        /\ dropped + 1 <= Since - Capacity /\ dropped + 1 # 0 /\ Capacity # Since
    BY <1>1, <1>2, RecorderShape
  <2> QED BY <1>0, <1>1, <1>4, <1>5, <2>1 DEF RecorderLag
<1>8. RecorderCopy'
  BY <1>4 DEF RecorderCopy
<1>9. Frames!GoodFrame' /\ Frames!DropsAreSeen'
  BY <1>1 DEF RecorderInv, Frames!GoodFrame, Frames!DropsAreSeen, Frames!Nothing
<1> QED BY <1>5, <1>6, <1>7, <1>8, <1>9 DEF RecorderInv

\* A copy that was not overwritten is the frame that was chosen, and what it is counted
\* to miss lies between it and the one before.
LEMMA RecorderDeliver ==
    ASSUME RecorderInv, Frames!Deliver PROVE RecorderInv'
<1>0. RecorderTypes /\ RecorderLag /\ RecorderCopy /\ RecorderRing
  BY DEF RecorderInv
<1> DEFINE base == Frames!Ahead(last)
<1>1. /\ pop.pc = "check" /\ ~(CopyLag > Capacity)
      /\ tail' = Frames!Ahead(pop.at)
      /\ out' = [frame |-> pop.copy, missed |-> Frames!Minus(pop.at, base),
                 counted |-> dropped]
      /\ last' = pop.at /\ dropped' = 0 /\ left' = left - 1
      /\ pop' = IF left' = 0 THEN Frames!Resting ELSE [Frames!Resting EXCEPT !.pc = "load"]
      /\ UNCHANGED <<head, buf>>
  BY DEF Frames!Deliver, Frames!Overwritten, CopyLag
<1>2. /\ CopyLag \in 0 .. CurMod - 1 /\ Since \in 0 .. CurMod - 1 /\ dropped \in Nat
      /\ head \in Frames!Number /\ pop.at \in Frames!Number /\ base \in Frames!Number
      /\ 1 <= CopyLag /\ CopyLag <= Since /\ Since <= MaxBehind
      /\ dropped <= Since - CopyLag /\ (dropped = 0 <=> CopyLag = Since)
      /\ left > 0 /\ left \in Nat /\ Len(pop.copy) = WordCount
  BY <1>0, <1>1, LagTypes DEF RecorderTypes, RecorderLag, RecorderCopy
<1>3. out'.missed = Since - CopyLag
  <2>1. Frames!Minus(pop.at, base) = Since - CopyLag
    BY <1>2, LagsAdd DEF Since, CopyLag
  <2> QED BY <1>1, <2>1
<1>4. Frames!GoodFrame' /\ Frames!DropsAreSeen'
  <2>1. \A w \in Frames!Words : out'.frame[w] = last'
    <3>1. Len(pop.copy) = WordCount /\ pop.pc = "check" /\ CopyLag <= Capacity
      BY <1>1, <1>2, RecorderShape
    <3>2. \A w \in 1 .. WordCount : pop.copy[w] = pop.at
      BY <1>0, <3>1 DEF RecorderCopy
    <3> QED BY <1>1, <3>2 DEF Frames!Words
  <2>2. out'.missed <= MaxBehind
    BY <1>2, <1>3, RecorderShape
  <2>3. /\ out'.missed > 0 <=> out'.counted > 0
        /\ out'.counted <= out'.missed
    <3>1. out'.counted = dropped
      BY <1>1
    <3> QED BY <1>2, <1>3, <3>1, RecorderShape
  <2> QED BY <2>1, <2>2, <2>3 DEF Frames!GoodFrame, Frames!DropsAreSeen
<1>5. tail' \in Frames!Number /\ Frames!Ahead(last') = tail'
  BY <1>1, <1>2, AheadIs
<1>6. Since' = Frames!Minus(head, tail') /\ Lag' = Frames!Minus(head, tail')
      /\ Since' = CopyLag - 1
  <2>1. Frames!Minus(head, Frames!Ahead(pop.at)) = CopyLag - 1
    <3>1. Frames!Minus(head, pop.at) # 0
      BY <1>2 DEF CopyLag
    <3> QED BY <1>2, <3>1, AfterLast DEF CopyLag
  <2> QED BY <1>1, <1>5, <2>1 DEF Since, Lag
<1>7. /\ pop' \in [pc : {"idle", "load", "copy", "check"}, at : Frames!Number,
                   retried : BOOLEAN, copy : Seq(Frames!Number)]
      /\ pop'.pc \in {"idle", "load"} /\ left' \in Nat /\ (pop'.pc # "idle" => left' > 0)
      /\ Len(pop'.copy) <= WordCount
  <2>1. 0 \in Frames!Number /\ <<>> \in Seq(Frames!Number) /\ 0 <= WordCount
    BY RecorderShape
  <2>2. left' \in Nat
    BY <1>1, <1>2
  <2>3. CASE left' = 0
    <3>1. pop' = Frames!Resting
      BY <1>1, <2>3
    <3> QED BY <2>1, <2>2, <3>1 DEF Frames!Resting
  <2>4. CASE left' # 0
    <3>1. pop' = [Frames!Resting EXCEPT !.pc = "load"]
      BY <1>1, <2>4
    <3>2. left' > 0
      BY <2>2, <2>4
    <3> QED BY <2>1, <2>2, <3>1, <3>2 DEF Frames!Resting
  <2> QED BY <2>3, <2>4
<1>8. RecorderTypes'
  BY <1>0, <1>1, <1>2, <1>5, <1>7 DEF RecorderTypes
<1>9. RecorderLag'
  <2>1. Since' <= MaxBehind /\ Since' \in Nat
    <3>1. MaxBehind \in Nat
      BY RecorderShape
    <3> QED BY <1>2, <1>6, <3>1
  <2>2. Lag' = Since' /\ dropped' = 0
    BY <1>1, <1>6
  <2>3. /\ Lag' <= Since'
        /\ dropped' <= Since' - Lag' /\ (dropped' = 0 <=> Lag' = Since')
    <3>1. \A n \in Nat : n <= n /\ 0 <= n - n
      OBVIOUS
    <3>2. Since' <= Since' /\ 0 <= Since' - Since'
      BY <2>1, <3>1
    <3> QED BY <2>2, <3>2
  <2>4. pop'.pc \notin {"copy", "check"}
    BY <1>7
  <2> QED BY <2>1, <2>3, <2>4 DEF RecorderLag
<1>10. RecorderCopy'
  BY <1>7 DEF RecorderCopy
<1>11. RecorderRing'
  <2>1. \A n \in Frames!Number : InRing(n)' => InRing(n)
    <3>1. Since' <= Since
      BY <1>2, <1>6
    <3> SUFFICES ASSUME NEW n \in Frames!Number, InRing(n)' PROVE InRing(n)
      OBVIOUS
    <3>2. Frames!Minus(head, n) \in 1 .. Capacity /\ Frames!Minus(head, n) <= Since'
      BY <1>1 DEF InRing
    <3> QED BY <1>2, <1>6, <3>1, <3>2, RecorderShape DEF InRing
  <2> QED BY <1>0, <1>1, <2>1 DEF RecorderRing
<1> QED BY <1>4, <1>8, <1>9, <1>10, <1>11 DEF RecorderInv

\* A reset forgets what the ring holds.
LEMMA RecorderReset ==
    ASSUME RecorderInv, Frames!Reset PROVE RecorderInv'
<1>0. RecorderTypes /\ RecorderLag /\ RecorderCopy /\ RecorderRing
  BY DEF RecorderInv
<1>1. /\ pop.pc = "idle" /\ head' = 0 /\ tail' = 0 /\ dropped' = 0
      /\ last' = CurMod - 1 /\ out' = Frames!Nothing
      /\ UNCHANGED <<buf, pop, left>>
  BY DEF Frames!Reset
<1>2. RecorderTypes'
  BY <1>0, <1>1, RecorderShape DEF RecorderTypes
<1>3. Since' = 0 /\ Lag' = 0
  <2>1. 0 \in Frames!Number /\ CurMod - 1 \in Frames!Number
    BY RecorderShape
  <2>2. Frames!Ahead(CurMod - 1) = 0
    BY <2>1, AheadIs
  <2>3. Frames!Minus(0, 0) = 0
    BY <2>1, MinusIs
  <2> QED BY <1>1, <2>2, <2>3 DEF Since, Lag
<1>4. RecorderLag' /\ RecorderCopy'
  BY <1>0, <1>1, <1>3, RecorderShape DEF RecorderLag, RecorderCopy
<1>5. RecorderRing'
  BY <1>3 DEF RecorderRing, InRing
<1>6. Frames!GoodFrame' /\ Frames!DropsAreSeen'
  BY <1>1 DEF Frames!GoodFrame, Frames!DropsAreSeen, Frames!Nothing
<1> QED BY <1>2, <1>4, <1>5, <1>6 DEF RecorderInv

\* Every step of the services keeps the invariant of the recorder.
LEMMA RecorderNext == RecorderInv /\ [ServicesNext]_allVars => RecorderInv'
<1> SUFFICES ASSUME RecorderInv, [ServicesNext]_allVars PROVE RecorderInv'
  OBVIOUS
<1>1. CASE Frames!Next
  BY <1>1, RecorderPush, RecorderBegin, RecorderLoad, RecorderCopyWord, RecorderOverrun,
     RecorderDeliver, RecorderReset DEF Frames!Next
<1>2. CASE UNCHANGED recorderVars
  <2>1. UNCHANGED <<head, tail, buf, pop, left, dropped, out, last>>
    BY <1>2 DEF recorderVars
  <2>2. RecorderTypes' /\ Since' = Since /\ Lag' = Lag /\ CopyLag' = CopyLag
    BY <2>1 DEF RecorderInv, RecorderTypes, Since, Lag, CopyLag
  <2>3. RecorderLag' /\ RecorderCopy' /\ RecorderRing'
    BY <2>1, <2>2, RingStays DEF RecorderInv, RecorderLag, RecorderCopy
  <2>4. Frames!GoodFrame' /\ Frames!DropsAreSeen'
    BY <2>1 DEF RecorderInv, Frames!GoodFrame, Frames!DropsAreSeen, Frames!Nothing
  <2> QED BY <2>2, <2>3, <2>4 DEF RecorderInv
<1> QED BY <1>1, <1>2 DEF ServicesNext, RingNext, ringVars, allVars

\* The recorder delivers whole frames in order and sees every drop.
LEMMA RecorderHolds ==
    ServicesSpec => [](Frames!TypeOK /\ Frames!GoodFrame /\ Frames!DropsAreSeen)
<1>1. ServicesInit => RecorderInv
  BY RecorderInit DEF ServicesInit
<1>2. RecorderInv => Frames!TypeOK /\ Frames!GoodFrame /\ Frames!DropsAreSeen
  <2> SUFFICES ASSUME RecorderInv PROVE Frames!TypeOK
    BY DEF RecorderInv
  <2>1. dropped \in 0 .. CurMod - 1
    <3>1. dropped <= Since /\ dropped \in Nat /\ Since \in 0 .. CurMod - 1
      <4>1. pop.pc \in {"idle", "load"} \/ pop.pc \in {"copy", "check"}
        BY DEF RecorderInv, RecorderTypes
      <4>2. dropped \in Nat /\ Since \in 0 .. CurMod - 1 /\ Lag \in Nat /\ CopyLag \in Nat
        BY LagTypes DEF RecorderInv, RecorderTypes
      <4> QED BY <4>1, <4>2, RecorderShape DEF RecorderInv, RecorderLag
    <3> QED BY <3>1, RecorderShape
  <2>2. Len(pop.copy) <= WordCount
    BY DEF RecorderInv, RecorderCopy
  <2> QED BY <2>1, <2>2 DEF RecorderInv, RecorderTypes, Frames!TypeOK
<1> QED BY <1>1, <1>2, RecorderNext, PTL DEF ServicesSpec

-----------------------------------------------------------------------------
(* The blocks of a stream                                                      *)

ProducerCalls ==
    {Notified!Idle} \cup [pc : {"owning", "publishing"}, block : Buffers]
MainCalls ==
    {Notified!Resting}
    \cup [pc : {"draining"}, block : {NoBlock}, left : 0 .. StreamBudget]
    \cup [pc : {"taking"}, block : Buffers, left : {0}]
    \cup [pc : {"consuming", "handling"}, block : Buffers, left : 1 .. StreamBudget]

StreamTypes ==
    /\ state \in [Buffers -> Notified!States]
    /\ sequence \in [Buffers -> 0 .. SeqMod - 1] /\ next \in 0 .. SeqMod - 1
    /\ pending \in BOOLEAN
    /\ prod \in [Notified!Producers -> ProducerCalls]
    /\ main \in MainCalls
    /\ held \subseteq Buffers
    /\ earlier \in [Buffers -> SUBSET Buffers]

\* Who fills a block, who reads it, and that it is in nobody else's hands.
Working == Notified!Working
Handling == Notified!Handling
StreamOwners ==
    /\ prod["in"].block = prod["out"].block => prod["in"].pc = "idle"
    /\ \A p \in Notified!Producers :
          prod[p].pc # "idle" => state[prod[p].block] = "DMA_OWNED"
    /\ \A b \in held \cup Working : state[b] = "PROCESSING"
    /\ held \cap (Working \cup Handling) = {}
    /\ Notified!NoLeak

\* Numbers that went by since the number of a block was given.
Age(b) == (next - sequence[b]) % SeqMod
Half == SeqMod \div 2

\* What was committed before a block has the older number, also where the numbers come
\* round; a block that is about to be published has the newest.
StreamOrder ==
    /\ \A b \in Notified!Waiting : Age(b) < Half
    /\ \A b \in Notified!Waiting : \A c \in earlier[b] :
          c \in Notified!Waiting /\ Age(b) < Age(c)
    /\ prod["in"].pc = "publishing" =>
          /\ Age(prod["in"].block) = 0
          /\ \A b \in Notified!Waiting : Age(b) >= 1

\* The flag is set while there is something to notify of, or a drain or a take may yet
\* give a block back.
StreamFlag == topic = "handled" /\ (Notified!In_("READY") # {} \/ main.pc # "idle") => pending

StreamInv == StreamTypes /\ StreamOwners /\ StreamOrder /\ StreamFlag

StreamInOrder ==
    \A b \in Buffers : state[b] = "READY" /\ state'[b] # "READY" =>
        state' = [c \in Buffers |-> "FREE"] \/ \A c \in earlier[b] : state[c] # "READY"

\* The constants of the stream.
LEMMA StreamShape ==
    /\ SeqMod \in Nat /\ SeqMod > 2 /\ StreamBudget \in Nat /\ NoBlock \notin Buffers
    /\ Half \in Nat /\ Half >= 1 /\ 2 * Half <= SeqMod
    /\ Notified!Producers = {"in", "out"}
<1>1. SeqMod \in Nat /\ SeqMod > 2 /\ StreamBudget \in Nat /\ NoBlock \notin Buffers
  BY ServicesAssumption DEF Notified!StreamAssumption
<1> QED BY <1>1 DEF Half, Notified!Producers, Notified!In, Notified!Out

\* A number and its difference to another one, which comes round.
LEMMA ModRound ==
    ASSUME NEW m \in Nat \ {0}, NEW x \in Int, -m <= x, x < 2 * m
    PROVE  x % m = IF x < 0 THEN x + m ELSE IF x < m THEN x ELSE x - m
<1>1. CASE x < m
  BY <1>1, ModNegative
<1>2. CASE x >= m
  <2>1. x \in 0 .. 2 * m - 1
    BY <1>2
  <2>2. x % m = IF x < m THEN x ELSE x - m
    BY <2>1, ModSmall
  <2> QED BY <1>2, <2>2
<1> QED BY <1>1, <1>2

\* The age of a block.
LEMMA AgeIs ==
    ASSUME NEW n \in 0 .. SeqMod - 1, NEW s \in 0 .. SeqMod - 1
    PROVE  /\ (n - s) % SeqMod = IF n >= s THEN n - s ELSE n - s + SeqMod
           /\ (n - s) % SeqMod \in 0 .. SeqMod - 1
<1> DEFINE d == n - s
<1>1. d \in Int /\ -SeqMod <= d /\ d < SeqMod /\ SeqMod \in Nat \ {0}
  BY StreamShape
<1> HIDE DEF d
<1>2. d % SeqMod = IF d < 0 THEN d + SeqMod ELSE d
  BY <1>1, ModNegative
<1>3. (n - s) % SeqMod = IF n - s < 0 THEN n - s + SeqMod ELSE n - s
  BY <1>2 DEF d
<1> QED BY <1>3, StreamShape

\* The next number ages every block by one.
LEMMA NextNumber ==
    ASSUME NEW n \in 0 .. SeqMod - 1, NEW s \in 0 .. SeqMod - 1,
           (n - s) % SeqMod < Half, (n + 1 - s) % SeqMod < Half
    PROVE  /\ (n + 1) % SeqMod \in 0 .. SeqMod - 1
           /\ (((n + 1) % SeqMod) - s) % SeqMod = ((n - s) % SeqMod) + 1
           /\ (n + 1 - s) % SeqMod = ((n - s) % SeqMod) + 1
<1>0. /\ SeqMod \in Nat \ {0} /\ SeqMod > 2 /\ Half \in Nat /\ Half >= 1
      /\ 2 * Half <= SeqMod
  BY StreamShape
<1>1. (n - s) % SeqMod = IF n >= s THEN n - s ELSE n - s + SeqMod
  BY AgeIs
<1> DEFINE d == n + 1 - s
           e == n + 1
<1>2. /\ d \in Int /\ -SeqMod <= d /\ d < 2 * SeqMod
      /\ e \in 0 .. 2 * SeqMod - 1 /\ d = e - s /\ e <= SeqMod
  BY <1>0
<1>3. n - s = d - 1 /\ (n >= s <=> d >= 1)
  BY <1>0
<1> HIDE DEF d, e
<1>4. d % SeqMod = IF d < 0 THEN d + SeqMod ELSE IF d < SeqMod THEN d ELSE d - SeqMod
  BY <1>0, <1>2, ModRound
<1>5. e % SeqMod = IF e < SeqMod THEN e ELSE e - SeqMod
  BY <1>0, <1>2, ModSmall
<1>6. e % SeqMod \in 0 .. SeqMod - 1
  BY <1>0, <1>2, <1>5
<1>7. ((e % SeqMod) - s) % SeqMod =
         IF e % SeqMod >= s THEN (e % SeqMod) - s ELSE (e % SeqMod) - s + SeqMod
  BY <1>6, AgeIs
<1>8. (n - s) % SeqMod = IF d >= 1 THEN d - 1 ELSE d - 1 + SeqMod
  BY <1>1, <1>3
<1>9. (n - s) % SeqMod < Half
  OBVIOUS
<1>10. d # 0
  BY <1>0, <1>8, <1>9
<1>11. d # SeqMod
  <2>1. SUFFICES ASSUME d = SeqMod PROVE FALSE
    OBVIOUS
  <2> QED BY <1>0, <1>8, <1>9, <2>1
<1>12. d % SeqMod = ((n - s) % SeqMod) + 1
  BY <1>0, <1>2, <1>4, <1>8, <1>10, <1>11
<1>13. ((e % SeqMod) - s) % SeqMod = d % SeqMod
  <2> DEFINE f == e % SeqMod
  <2>1. /\ f = IF e < SeqMod THEN e ELSE e - SeqMod
        /\ (f - s) % SeqMod = IF f >= s THEN f - s ELSE f - s + SeqMod
    BY <1>5, <1>7
  <2> HIDE DEF f
  <2>2. (f - s) % SeqMod = d % SeqMod
    BY <1>0, <1>2, <1>4, <1>10, <1>11, <2>1
  <2> QED BY <2>2 DEF f
<1> QED BY <1>6, <1>12, <1>13 DEF d, e

\* What is older by its number is older by its age.
LEMMA OlderIs ==
    ASSUME NEW n \in 0 .. SeqMod - 1, NEW a \in 0 .. SeqMod - 1, NEW b \in 0 .. SeqMod - 1,
           (n - a) % SeqMod < Half, (n - b) % SeqMod < (n - a) % SeqMod
    PROVE  Notified!Older(a, b)
<1>0. /\ SeqMod \in Nat \ {0} /\ SeqMod > 2 /\ Half \in Nat /\ 2 * Half <= SeqMod
  BY StreamShape
<1> DEFINE x == (n - a) % SeqMod
           y == (n - b) % SeqMod
           z == (a - b) % SeqMod
<1>1. /\ x = IF n >= a THEN n - a ELSE n - a + SeqMod
      /\ y = IF n >= b THEN n - b ELSE n - b + SeqMod
      /\ z = IF a >= b THEN a - b ELSE a - b + SeqMod
      /\ x < Half /\ y < x
  BY AgeIs
<1> HIDE DEF x, y, z
<1>2. z >= Half
  BY <1>0, <1>1
<1> QED BY <1>2 DEF z, Notified!Older, Half

\* Of the blocks that are ready the oldest by number was committed first.
LEMMA OldestIsFirst ==
    ASSUME StreamTypes, StreamOrder, NEW b \in Notified!Oldest
    PROVE  b \in Buffers /\ state[b] = "READY" /\ \A c \in earlier[b] : state[c] # "READY"
<1>1. b \in Buffers /\ state[b] = "READY" /\ b \in Notified!Waiting
  BY DEF Notified!Oldest, Notified!In_, Notified!Waiting
<1>2. ASSUME NEW c \in earlier[b], state[c] = "READY" PROVE FALSE
  <2>1. /\ c \in Buffers /\ c \in Notified!Waiting /\ Age(b) < Age(c) /\ Age(c) < Half
    BY <1>1, <1>2 DEF StreamTypes, StreamOrder
  <2>2. /\ next \in 0 .. SeqMod - 1 /\ sequence[b] \in 0 .. SeqMod - 1
        /\ sequence[c] \in 0 .. SeqMod - 1
    BY <1>1, <2>1 DEF StreamTypes
  <2>3. Notified!Older(sequence[c], sequence[b])
    BY <2>1, <2>2, OlderIs DEF Age
  <2>4. c \in Notified!In_("READY")
    BY <1>2, <2>1 DEF Notified!In_
  <2> QED BY <2>3, <2>4 DEF Notified!Oldest
<1> QED BY <1>1, <1>2

\* The numbers keep the order as long as none is given.
LEMMA OrderKept ==
    ASSUME StreamOrder, UNCHANGED <<sequence, next>>,
           Notified!Waiting' \subseteq Notified!Waiting,
           \A b \in Notified!Waiting' : earlier'[b] \subseteq earlier[b] \cap Notified!Waiting',
           prod'["in"].pc = "publishing" => prod'["in"] = prod["in"]
    PROVE  StreamOrder'
<1>1. \A b : Age(b)' = Age(b)
  BY DEF Age
<1>2. Half' = Half
  BY DEF Half
<1>3. \A b \in Notified!Waiting' : Age(b) < Half
  BY DEF StreamOrder
<1>4. \A b \in Notified!Waiting' : \A c \in earlier'[b] :
         c \in Notified!Waiting' /\ Age(b) < Age(c)
  BY DEF StreamOrder
<1>5. prod'["in"].pc = "publishing" =>
         /\ Age(prod'["in"].block) = 0
         /\ \A b \in Notified!Waiting' : Age(b) >= 1
  BY DEF StreamOrder
<1>6. Age(prod["in"].block)' = Age(prod'["in"].block)
  BY DEF Age
<1> QED BY <1>1, <1>2, <1>3, <1>4, <1>5, <1>6 DEF StreamOrder

\* A block changes its state, and no other does.
LEMMA MoveIs ==
    ASSUME StreamTypes, NEW b \in Buffers, NEW s \in Notified!States, Notified!Move(b, s)
    PROVE  /\ state' \in [Buffers -> Notified!States] /\ state'[b] = s
           /\ \A c \in Buffers \ {b} : state'[c] = state[c]
           /\ Notified!Waiting' = (Notified!Waiting \ {b})
                 \cup (IF s \in {"READY", "PROCESSING"} THEN {b} ELSE {})
<1>1. /\ state' \in [Buffers -> Notified!States] /\ state'[b] = s
      /\ \A c \in Buffers \ {b} : state'[c] = state[c]
  BY DEF StreamTypes, Notified!Move
<1> QED BY <1>1 DEF Notified!Waiting, Notified!In_

\* A call has a block exactly if it is under way.
LEMMA CallsAre ==
    ASSUME StreamTypes
    PROVE  /\ \A p \in {"in", "out"} :
                 /\ prod[p].pc \in {"idle", "owning", "publishing"}
                 /\ prod[p].pc = "idle" => prod[p] = Notified!Idle
                 /\ prod[p].pc # "idle" => prod[p].block \in Buffers
                 /\ prod[p].block \in Buffers => prod[p].pc # "idle"
           /\ main.pc \in {"idle", "taking", "draining", "consuming", "handling"}
           /\ main.pc = "idle" => main = Notified!Resting
           /\ main.pc \in {"taking", "consuming", "handling"} => main.block \in Buffers
           /\ main.pc \in {"idle", "draining"} => main.block = NoBlock
           /\ main.pc = "taking" => main.left = 0
           /\ main.pc = "draining" => main.left \in 0 .. StreamBudget
           /\ main.pc \in {"consuming", "handling"} => main.left \in 1 .. StreamBudget
<1>1. ASSUME NEW p \in {"in", "out"}
      PROVE  /\ prod[p].pc \in {"idle", "owning", "publishing"}
             /\ prod[p].pc = "idle" => prod[p] = Notified!Idle
             /\ prod[p].pc # "idle" => prod[p].block \in Buffers
             /\ prod[p].block \in Buffers => prod[p].pc # "idle"
  <2>1. prod[p] \in ProducerCalls
    BY <1>1, StreamShape DEF StreamTypes
  <2>2. CASE prod[p] = Notified!Idle
    BY <2>2, StreamShape DEF Notified!Idle
  <2>3. CASE prod[p] \in [pc : {"owning", "publishing"}, block : Buffers]
    BY <2>3
  <2> QED BY <2>1, <2>2, <2>3 DEF ProducerCalls
<1>2. /\ main.pc \in {"idle", "taking", "draining", "consuming", "handling"}
      /\ main.pc = "idle" => main = Notified!Resting
      /\ main.pc \in {"taking", "consuming", "handling"} => main.block \in Buffers
      /\ main.pc \in {"idle", "draining"} => main.block = NoBlock
      /\ main.pc = "taking" => main.left = 0
      /\ main.pc = "draining" => main.left \in 0 .. StreamBudget
      /\ main.pc \in {"consuming", "handling"} => main.left \in 1 .. StreamBudget
  <2>1. CASE main = Notified!Resting
    BY <2>1 DEF Notified!Resting
  <2>2. CASE main \in [pc : {"draining"}, block : {NoBlock}, left : 0 .. StreamBudget]
    BY <2>2
  <2>3. CASE main \in [pc : {"taking"}, block : Buffers, left : {0}]
    BY <2>3
  <2>4. CASE main \in [pc : {"consuming", "handling"}, block : Buffers,
                       left : 1 .. StreamBudget]
    BY <2>4
  <2> QED BY <2>1, <2>2, <2>3, <2>4 DEF StreamTypes, MainCalls
<1> QED BY <1>1, <1>2

\* All blocks are free.
LEMMA StreamInit == Notified!Init => StreamInv
<1> SUFFICES ASSUME Notified!Init PROVE StreamInv
  OBVIOUS
<1> USE DEF Notified!Init, Notified!Idle, Notified!Resting
<1>1. StreamTypes
  <2>1. prod \in [Notified!Producers -> ProducerCalls] /\ main \in MainCalls
    BY DEF ProducerCalls, MainCalls
  <2>2. state \in [Buffers -> Notified!States]
    BY DEF Notified!States
  <2>3. 0 \in 0 .. SeqMod - 1
    BY StreamShape
  <2>4. sequence \in [Buffers -> 0 .. SeqMod - 1] /\ next \in 0 .. SeqMod - 1
    BY <2>3
  <2> QED BY <2>1, <2>2, <2>4 DEF StreamTypes
<1>2. StreamOwners
  BY DEF StreamOwners, Working, Handling, Notified!Working, Notified!Handling,
         Notified!NoLeak, Notified!Producers, Notified!In, Notified!Out
<1>3. Notified!Waiting = {} /\ Notified!In_("READY") = {}
  BY DEF Notified!Waiting, Notified!In_
<1>4. StreamOrder /\ StreamFlag
  BY <1>3 DEF StreamOrder, StreamFlag, Notified!Producers, Notified!In, Notified!Out
<1> QED BY <1>1, <1>2, <1>4 DEF StreamInv

\* What the steps have in common: an invariant that moves of blocks keep.
StreamKept == StreamTypes' /\ StreamOwners' /\ StreamOrder' /\ StreamInOrder

\* A producer takes a free block, or the oldest one that is ready.
LEMMA StreamAcquire ==
    ASSUME StreamInv, NEW p \in {"in", "out"},
           Notified!Acquire(p) \/ (p = "in" /\ Notified!AcquireOldest)
    PROVE  StreamKept /\ pending' = pending /\ main' = main
           /\ Notified!In_("READY")' \subseteq Notified!In_("READY")
<1>0. StreamTypes /\ StreamOwners /\ StreamOrder
  BY DEF StreamInv
<1>1. PICK b \in Buffers :
         /\ \/ state[b] = "FREE" /\ earlier' = earlier
            \/ b \in Notified!Oldest /\ earlier' = Notified!Without(b)
         /\ prod[p].pc = "idle"
         /\ Notified!Move(b, "DMA_OWNED")
         /\ prod' = [prod EXCEPT ![p] = [pc |-> "owning", block |-> b]]
         /\ UNCHANGED <<sequence, next, pending, main, held>>
  <2>1. CASE Notified!Acquire(p)
    BY <2>1 DEF Notified!Acquire, Notified!In_
  <2>2. CASE p = "in" /\ Notified!AcquireOldest
    BY <2>2 DEF Notified!AcquireOldest, Notified!Victims, Notified!Oldest, Notified!In_,
                Notified!In
  <2> QED BY <2>1, <2>2
<1>2. /\ state' \in [Buffers -> Notified!States] /\ state'[b] = "DMA_OWNED"
      /\ \A c \in Buffers \ {b} : state'[c] = state[c]
      /\ Notified!Waiting' = Notified!Waiting \ {b}
  BY <1>0, <1>1, MoveIs DEF Notified!States
<1>3. state[b] \in {"FREE", "READY"}
      /\ (state[b] = "FREE" => earlier' = earlier)
      /\ (state[b] = "READY" => b \in Notified!Oldest /\ earlier' = Notified!Without(b))
  BY <1>1 DEF Notified!Oldest, Notified!In_
<1>4. /\ prod'[p] = [pc |-> "owning", block |-> b]
      /\ \A q \in {"in", "out"} \ {p} : prod'[q] = prod[q]
      /\ prod' \in [Notified!Producers -> ProducerCalls]
  <2>1. [pc |-> "owning", block |-> b] \in ProducerCalls
    BY DEF ProducerCalls
  <2> QED BY <1>0, <1>1, <2>1, StreamShape DEF StreamTypes
<1>5. StreamTypes'
  <2>1. earlier' \in [Buffers -> SUBSET Buffers]
    BY <1>0, <1>1 DEF StreamTypes, Notified!Without
  <2> QED BY <1>0, <1>1, <1>2, <1>4, <2>1 DEF StreamTypes
<1>6. StreamOwners'
  <2>1. \A q \in {"in", "out"} \ {p} :
           prod[q].block # b /\ (prod[q].pc # "idle" => prod[q].block \in Buffers)
    BY <1>0, <1>3, CallsAre, StreamShape DEF StreamOwners
  <2>2. prod[p].block = NoBlock
    BY <1>0, <1>1, CallsAre DEF Notified!Idle
  <2>3. b \notin held /\ b \notin Working
    BY <1>0, <1>3 DEF StreamOwners
  <2>4. Working' = Working /\ Handling' = Handling /\ Working \subseteq Buffers
    BY <1>0, <1>1, CallsAre
       DEF Working, Handling, Notified!Working, Notified!Handling
  <2>5. prod'["in"].block = prod'["out"].block => prod'["in"].pc = "idle"
    BY <1>0, <1>4, <2>1 DEF StreamOwners
  <2>6. \A q \in Notified!Producers : prod'[q].pc # "idle" => state'[prod'[q].block] = "DMA_OWNED"
    BY <1>0, <1>2, <1>4, <2>1, StreamShape DEF StreamOwners
  <2>7. \A c \in held \cup Working : state'[c] = "PROCESSING"
    BY <1>0, <1>2, <2>3, <2>4 DEF StreamOwners, StreamTypes
  <2>8. Notified!NoLeak'
    <3> SUFFICES ASSUME NEW c \in Buffers
        PROVE  /\ state'[c] = "DMA_OWNED" => \E q \in Notified!Producers : prod'[q].block = c
               /\ state'[c] = "PROCESSING" => c \in held \cup Working \cup Handling
      BY <1>1, <2>4 DEF Notified!NoLeak, Working, Handling
    <3>1. CASE c = b
      BY <1>2, <1>4, <3>1, StreamShape
    <3>2. CASE c # b
      <4>1. /\ state[c] = "DMA_OWNED" => \E q \in Notified!Producers : prod[q].block = c
            /\ state[c] = "PROCESSING" => c \in held \cup Working \cup Handling
        BY <1>0 DEF StreamOwners, Notified!NoLeak, Working, Handling
      <4>2. NoBlock # c
        BY StreamShape
      <4> QED BY <1>2, <1>4, <2>2, <3>2, <4>1, <4>2, StreamShape
    <3> QED BY <3>1, <3>2
  <2> QED BY <1>0, <1>1, <2>4, <2>5, <2>6, <2>7, <2>8 DEF StreamOwners
<1>7. StreamOrder'
  <2>1. Notified!Waiting' \subseteq Notified!Waiting
    BY <1>2
  <2>2. ASSUME NEW c \in Notified!Waiting'
        PROVE  earlier'[c] \subseteq earlier[c] \cap Notified!Waiting'
    <3>1. c # b /\ c \in Notified!Waiting /\ c \in Buffers
      BY <1>2, <2>2 DEF Notified!Waiting, Notified!In_
    <3>2. earlier[c] \subseteq Notified!Waiting
      BY <1>0, <3>1 DEF StreamOrder
    <3>3. CASE state[b] = "FREE"
      <4>1. b \notin Notified!Waiting
        BY <3>3 DEF Notified!Waiting, Notified!In_
      <4> QED BY <1>2, <1>3, <3>2, <3>3, <4>1
    <3>4. CASE state[b] = "READY"
      BY <1>2, <1>3, <3>1, <3>2, <3>4 DEF Notified!Without
    <3> QED BY <1>3, <3>3, <3>4
  <2>3. prod'["in"].pc = "publishing" => prod'["in"] = prod["in"]
    BY <1>4
  <2> QED BY <1>0, <1>1, <2>1, <2>2, <2>3, OrderKept
<1>8. StreamInOrder
  BY <1>0, <1>2, <1>3, OldestIsFirst DEF StreamInOrder
<1>9. Notified!In_("READY")' \subseteq Notified!In_("READY")
  BY <1>2 DEF Notified!In_
<1> QED BY <1>1, <1>5, <1>6, <1>7, <1>8, <1>9 DEF StreamKept

\* A producer gives its block back.
LEMMA StreamAbandon ==
    ASSUME StreamInv, NEW p \in {"in", "out"},
           Notified!Abort(p) \/ Notified!CommitFails(p)
    PROVE  StreamKept /\ pending' = pending /\ main' = main
           /\ Notified!In_("READY")' \subseteq Notified!In_("READY")
<1>0. StreamTypes /\ StreamOwners /\ StreamOrder
  BY DEF StreamInv
<1> DEFINE b == prod[p].block
<1>1. b \in Buffers /\ state[b] = "DMA_OWNED" /\ prod[p].pc # "idle"
  <2>1. prod[p].pc # "idle"
    BY DEF Notified!Abort, Notified!CommitFails
  <2> QED BY <1>0, <2>1, CallsAre, StreamShape DEF StreamOwners
<1>2. /\ Notified!Move(b, "FREE")
      /\ prod' = [prod EXCEPT ![p] = Notified!Idle]
      /\ UNCHANGED <<sequence, next, pending, main, held, earlier>>
  BY <1>1 DEF Notified!Abort, Notified!CommitFails, Notified!Recycled
<1> HIDE DEF b
<1>3. /\ state' \in [Buffers -> Notified!States] /\ state'[b] = "FREE"
      /\ \A c \in Buffers \ {b} : state'[c] = state[c]
      /\ Notified!Waiting' = Notified!Waiting \ {b}
      /\ b \notin Notified!Waiting
  <2>1. b \notin Notified!Waiting
    BY <1>1 DEF Notified!Waiting, Notified!In_
  <2> QED BY <1>0, <1>1, <1>2, <2>1, MoveIs DEF Notified!States
<1>4. /\ prod'[p] = Notified!Idle
      /\ \A q \in {"in", "out"} \ {p} : prod'[q] = prod[q]
      /\ prod' \in [Notified!Producers -> ProducerCalls]
  BY <1>0, <1>2, StreamShape DEF StreamTypes, ProducerCalls
<1>5. StreamTypes'
  BY <1>0, <1>2, <1>3, <1>4 DEF StreamTypes
<1>6. StreamOwners'
  <2>1. \A q \in {"in", "out"} \ {p} :
           prod[q].pc # "idle" => prod[q].block # b /\ prod[q].block \in Buffers
    <3>1. prod["in"].block = prod["out"].block => prod["in"].pc = "idle"
      BY <1>0 DEF StreamOwners
    <3>2. \A q \in {"in", "out"} : prod[q].block = b => prod[q].pc # "idle"
      BY <1>0, <1>1, CallsAre
    <3> QED BY <1>0, <1>1, <3>1, <3>2, CallsAre DEF b
  <2>2. b \notin held /\ b \notin Working
    BY <1>0, <1>1 DEF StreamOwners
  <2>3. Working' = Working /\ Handling' = Handling /\ Working \subseteq Buffers
    BY <1>0, <1>2, CallsAre
       DEF Working, Handling, Notified!Working, Notified!Handling
  <2>4. prod'["in"].block = prod'["out"].block => prod'["in"].pc = "idle"
    <3>1. CASE p = "in"
      BY <1>4, <3>1 DEF Notified!Idle
    <3>2. CASE p = "out"
      <4>1. prod'["out"].block = NoBlock /\ prod'["in"] = prod["in"]
        BY <1>4, <3>2 DEF Notified!Idle
      <4>2. prod["in"].pc # "idle" => prod["in"].block # NoBlock
        BY <1>0, CallsAre, StreamShape
      <4> QED BY <4>1, <4>2
    <3> QED BY <3>1, <3>2
  <2>5. \A q \in Notified!Producers : prod'[q].pc # "idle" => state'[prod'[q].block] = "DMA_OWNED"
    BY <1>0, <1>3, <1>4, <2>1, StreamShape DEF StreamOwners, Notified!Idle
  <2>6. \A c \in held \cup Working : state'[c] = "PROCESSING"
    BY <1>0, <1>3, <2>2, <2>3 DEF StreamOwners, StreamTypes
  <2>7. Notified!NoLeak'
    <3> SUFFICES ASSUME NEW c \in Buffers, c # b
        PROVE  /\ state'[c] = "DMA_OWNED" => \E q \in Notified!Producers : prod'[q].block = c
               /\ state'[c] = "PROCESSING" => c \in held \cup Working \cup Handling
      BY <1>2, <1>3, <2>3 DEF Notified!NoLeak, Working, Handling
    <3>1. /\ state[c] = "DMA_OWNED" => \E q \in Notified!Producers : prod[q].block = c
          /\ state[c] = "PROCESSING" => c \in held \cup Working \cup Handling
      BY <1>0 DEF StreamOwners, Notified!NoLeak, Working, Handling
    <3>2. \A q \in {"in", "out"} : prod[q].block = c => prod'[q].block = c
      BY <1>4 DEF b
    <3> QED BY <1>3, <3>1, <3>2, StreamShape
  <2> QED BY <1>0, <1>2, <2>3, <2>4, <2>5, <2>6, <2>7 DEF StreamOwners
<1>7. StreamOrder'
  <2>1. \A c \in Notified!Waiting' : earlier'[c] \subseteq earlier[c] \cap Notified!Waiting'
    BY <1>0, <1>2, <1>3 DEF StreamOrder
  <2>2. prod'["in"].pc = "publishing" => prod'["in"] = prod["in"]
    BY <1>4 DEF Notified!Idle
  <2> QED BY <1>0, <1>2, <1>3, <2>1, <2>2, OrderKept
<1>8. StreamInOrder
  BY <1>1, <1>3 DEF StreamInOrder
<1>9. Notified!In_("READY")' \subseteq Notified!In_("READY")
  BY <1>3 DEF Notified!In_
<1> QED BY <1>2, <1>5, <1>6, <1>7, <1>8, <1>9 DEF StreamKept

\* A commit gives the block the next number.
LEMMA StreamCommit ==
    ASSUME StreamInv, NEW p \in {"in", "out"}, Notified!Commit(p)
    PROVE  StreamKept /\ pending' = pending /\ main' = main
           /\ Notified!In_("READY")' \subseteq Notified!In_("READY")
<1>0. StreamTypes /\ StreamOwners /\ StreamOrder
  BY DEF StreamInv
<1> DEFINE b == prod[p].block
<1>1. /\ prod[p].pc = "owning" /\ state[b] = "DMA_OWNED"
      /\ prod' = [prod EXCEPT ![p].pc = "publishing"]
      /\ UNCHANGED <<state, pending, main, held, earlier>>
      /\ IF p = "in"
         THEN /\ Notified!InWindow
              /\ next' = (next + 1) % SeqMod
              /\ sequence' = [sequence EXCEPT ![b] = next']
         ELSE UNCHANGED <<next, sequence>>
  BY DEF Notified!Commit, Notified!In
<1>2. b \in Buffers
  BY <1>0, <1>1, CallsAre
<1>3. /\ prod'[p] = [pc |-> "publishing", block |-> b]
      /\ \A q \in {"in", "out"} \ {p} : prod'[q] = prod[q]
      /\ prod' \in [Notified!Producers -> ProducerCalls]
  <2>1. prod[p] \in ProducerCalls /\ prod[p].pc # "idle"
    BY <1>0, <1>1, StreamShape DEF StreamTypes
  <2>2. prod[p] \in [pc : {"owning", "publishing"}, block : Buffers]
    BY <2>1 DEF ProducerCalls, Notified!Idle
  <2>3. [pc |-> "publishing", block |-> b] \in ProducerCalls
    BY <1>2 DEF ProducerCalls
  <2>4. prod' = [prod EXCEPT ![p] = [pc |-> "publishing", block |-> b]]
    <3>1. [prod[p] EXCEPT !.pc = "publishing"] = [pc |-> "publishing", block |-> b]
      BY <2>2
    <3>2. prod' = [prod EXCEPT ![p] = [prod[p] EXCEPT !.pc = "publishing"]]
      BY <1>1
    <3> QED BY <3>1, <3>2
  <2> QED BY <1>0, <2>3, <2>4, StreamShape DEF StreamTypes
<1> HIDE DEF b
<1>4. next' \in 0 .. SeqMod - 1 /\ sequence' \in [Buffers -> 0 .. SeqMod - 1]
  <2>1. CASE p = "in"
    <3>1. next + 1 \in Nat /\ SeqMod \in Nat \ {0}
      BY <1>0, StreamShape DEF StreamTypes
    <3>2. next' \in 0 .. SeqMod - 1
      BY <1>1, <2>1, <3>1, DivFacts
    <3> QED BY <1>0, <1>1, <1>2, <2>1, <3>2 DEF StreamTypes
  <2>2. CASE p # "in"
    BY <1>0, <1>1, <2>2 DEF StreamTypes
  <2> QED BY <2>1, <2>2
<1>5. StreamTypes'
  BY <1>0, <1>1, <1>3, <1>4 DEF StreamTypes
<1>6. StreamOwners'
  <2>1. Working' = Working /\ Handling' = Handling
    BY <1>1 DEF Working, Handling, Notified!Working, Notified!Handling
  <2>2. \A q \in {"in", "out"} : prod'[q].block = prod[q].block
                                 /\ (prod'[q].pc # "idle" <=> prod[q].pc # "idle")
    <3>1. prod'[p].block = b /\ prod'[p].pc # "idle" /\ prod[p].pc # "idle"
      BY <1>1, <1>3
    <3>2. prod[p].block = b
      BY DEF b
    <3> QED BY <1>3, <3>1, <3>2
  <2>3. prod'["in"].block = prod'["out"].block => prod'["in"].pc = "idle"
    BY <1>0, <2>2 DEF StreamOwners
  <2>4. \A q \in Notified!Producers : prod'[q].pc # "idle" => state'[prod'[q].block] = "DMA_OWNED"
    BY <1>0, <1>1, <2>2, StreamShape DEF StreamOwners
  <2>5. Notified!NoLeak'
    BY <1>0, <1>1, <2>1, <2>2, StreamShape
       DEF StreamOwners, Notified!NoLeak, Working, Handling
  <2> QED BY <1>0, <1>1, <2>1, <2>3, <2>4, <2>5 DEF StreamOwners
<1>7. Notified!Waiting' = Notified!Waiting /\ b \notin Notified!Waiting
      /\ Notified!Waiting \subseteq Buffers
  BY <1>1 DEF Notified!Waiting, Notified!In_
<1>8. StreamOrder'
  <2>1. CASE p = "in"
    <3>1. ASSUME NEW c \in Notified!Waiting
          PROVE  Age(c)' = Age(c) + 1 /\ Age(c)' < Half /\ Age(c) \in Nat
      <4>1. /\ c \in Buffers /\ c # b /\ sequence'[c] = sequence[c]
            /\ sequence[c] \in 0 .. SeqMod - 1 /\ next \in 0 .. SeqMod - 1
        BY <1>0, <1>1, <1>7, <2>1, <3>1 DEF StreamTypes
      <4>2. (next - sequence[c]) % SeqMod < Half
        BY <1>0, <3>1 DEF StreamOrder, Age
      <4>3. (next + 1 - sequence[c]) % SeqMod < Half
        BY <1>1, <2>1, <3>1 DEF Notified!InWindow, Half
      <4>4. /\ (((next + 1) % SeqMod) - sequence[c]) % SeqMod
                  = ((next - sequence[c]) % SeqMod) + 1
            /\ (next + 1 - sequence[c]) % SeqMod = ((next - sequence[c]) % SeqMod) + 1
        BY <4>1, <4>2, <4>3, NextNumber
      <4>5. (next - sequence[c]) % SeqMod \in 0 .. SeqMod - 1
        BY <4>1, AgeIs
      <4>6. Age(c)' = (((next + 1) % SeqMod) - sequence[c]) % SeqMod
        BY <1>1, <2>1, <4>1 DEF Age
      <4> QED BY <4>3, <4>4, <4>5, <4>6 DEF Age
    <3>2. \A c \in Notified!Waiting : \A d \in earlier[c] :
             d \in Notified!Waiting /\ Age(c)' < Age(d)'
      BY <1>0, <3>1 DEF StreamOrder
    <3>3. (next' - sequence'[b]) % SeqMod = 0
      <4>1. sequence'[b] = next'
        BY <1>0, <1>1, <1>2, <2>1 DEF StreamTypes
      <4>2. (next' - next') % SeqMod = 0
        BY <1>4, AgeIs
      <4> QED BY <4>1, <4>2
    <3>4. prod'["in"].block = b /\ Half' = Half
      BY <1>3, <2>1 DEF Half
    <3>5. Age(prod["in"].block)' = 0
      <4>1. Age(prod["in"].block)' = (next' - sequence'[prod'["in"].block]) % SeqMod
        BY DEF Age
      <4> QED BY <3>3, <3>4, <4>1
    <3>6. \A c \in Notified!Waiting : Age(c)' >= 1
      BY <3>1
    <3> QED BY <1>1, <1>7, <3>1, <3>2, <3>4, <3>5, <3>6 DEF StreamOrder
  <2>2. CASE p = "out"
    <3>1. UNCHANGED <<sequence, next>> /\ prod'["in"] = prod["in"]
      BY <1>1, <1>3, <2>2
    <3>2. \A c \in Notified!Waiting' : earlier'[c] \subseteq earlier[c] \cap Notified!Waiting'
      BY <1>0, <1>1, <1>7 DEF StreamOrder
    <3> QED BY <1>0, <1>7, <3>1, <3>2, OrderKept
  <2> QED BY <2>1, <2>2
<1>9. StreamInOrder /\ Notified!In_("READY")' = Notified!In_("READY")
  BY <1>1 DEF StreamInOrder, Notified!In_
<1> QED BY <1>1, <1>5, <1>6, <1>8, <1>9 DEF StreamKept

\* The block is ready, behind all that are waiting.
LEMMA StreamPublish ==
    ASSUME StreamInv, NEW p \in {"in", "out"}, Notified!Publish(p)
    PROVE  StreamKept /\ main' = main
           /\ IF p = "in" THEN pending' = TRUE
              ELSE /\ pending' = pending
                   /\ Notified!In_("READY")' \subseteq Notified!In_("READY")
<1>0. StreamTypes /\ StreamOwners /\ StreamOrder
  BY DEF StreamInv
<1> DEFINE b == prod[p].block
           s == IF p = "in" THEN "READY" ELSE "OUTPUT_READY"
<1>1. /\ prod[p].pc = "publishing" /\ state[b] = "DMA_OWNED"
      /\ prod' = [prod EXCEPT ![p] = Notified!Idle]
      /\ Notified!Move(b, s)
      /\ UNCHANGED <<sequence, next, main, held>>
      /\ IF p = "in"
         THEN pending' = TRUE /\ earlier' = [earlier EXCEPT ![b] = Notified!Waiting]
         ELSE UNCHANGED <<pending, earlier>>
  BY DEF Notified!Publish, Notified!In
<1>2. b \in Buffers /\ s \in Notified!States
      /\ s \notin {"DMA_OWNED", "PROCESSING"}
  BY <1>0, <1>1, CallsAre DEF Notified!States
<1>a. p = "in" => Age(b) = 0 /\ \A c \in Notified!Waiting : Age(c) >= 1
  BY <1>0, <1>1 DEF StreamOrder
<1> HIDE DEF b
<1>3. /\ state' \in [Buffers -> Notified!States] /\ state'[b] = s
      /\ \A c \in Buffers \ {b} : state'[c] = state[c]
      /\ Notified!Waiting' = Notified!Waiting \cup (IF p = "in" THEN {b} ELSE {})
      /\ b \notin Notified!Waiting /\ Notified!Waiting \subseteq Buffers
  <2>1. b \notin Notified!Waiting /\ Notified!Waiting \subseteq Buffers
    BY <1>1 DEF Notified!Waiting, Notified!In_
  <2>2. /\ state' \in [Buffers -> Notified!States] /\ state'[b] = s
        /\ \A c \in Buffers \ {b} : state'[c] = state[c]
        /\ Notified!Waiting' = (Notified!Waiting \ {b})
              \cup (IF s \in {"READY", "PROCESSING"} THEN {b} ELSE {})
    BY <1>0, <1>1, <1>2, MoveIs
  <2> QED BY <2>1, <2>2
<1>4. /\ prod'[p] = Notified!Idle
      /\ \A q \in {"in", "out"} \ {p} : prod'[q] = prod[q]
      /\ prod' \in [Notified!Producers -> ProducerCalls]
  BY <1>0, <1>1, StreamShape DEF StreamTypes, ProducerCalls
<1>5. StreamTypes'
  <2>1. earlier' \in [Buffers -> SUBSET Buffers] /\ pending' \in BOOLEAN
    BY <1>0, <1>1, <1>2, <1>3 DEF StreamTypes
  <2> QED BY <1>0, <1>1, <1>3, <1>4, <2>1 DEF StreamTypes
<1>6. StreamOwners'
  <2>1. \A q \in {"in", "out"} \ {p} :
           prod[q].pc # "idle" => prod[q].block # b /\ prod[q].block \in Buffers
    <3>1. prod["in"].block = prod["out"].block => prod["in"].pc = "idle"
      BY <1>0 DEF StreamOwners
    <3>2. \A q \in {"in", "out"} : prod[q].block = b => prod[q].pc # "idle"
      BY <1>0, <1>2, CallsAre
    <3> QED BY <1>0, <1>1, <3>1, <3>2, CallsAre DEF b
  <2>2. b \notin held /\ b \notin Working
    BY <1>0, <1>1 DEF StreamOwners
  <2>3. Working' = Working /\ Handling' = Handling /\ Working \subseteq Buffers
    BY <1>0, <1>1, CallsAre
       DEF Working, Handling, Notified!Working, Notified!Handling
  <2>4. prod'["in"].block = prod'["out"].block => prod'["in"].pc = "idle"
    <3>1. CASE p = "in"
      BY <1>4, <3>1 DEF Notified!Idle
    <3>2. CASE p = "out"
      <4>1. prod'["out"].block = NoBlock /\ prod'["in"] = prod["in"]
        BY <1>4, <3>2 DEF Notified!Idle
      <4>2. prod["in"].pc # "idle" => prod["in"].block # NoBlock
        BY <1>0, CallsAre, StreamShape
      <4> QED BY <4>1, <4>2
    <3> QED BY <3>1, <3>2
  <2>5. \A q \in Notified!Producers : prod'[q].pc # "idle" => state'[prod'[q].block] = "DMA_OWNED"
    BY <1>0, <1>3, <1>4, <2>1, StreamShape DEF StreamOwners, Notified!Idle
  <2>6. \A c \in held \cup Working : state'[c] = "PROCESSING"
    BY <1>0, <1>3, <2>2, <2>3 DEF StreamOwners, StreamTypes
  <2>7. Notified!NoLeak'
    <3> SUFFICES ASSUME NEW c \in Buffers, c # b
        PROVE  /\ state'[c] = "DMA_OWNED" => \E q \in Notified!Producers : prod'[q].block = c
               /\ state'[c] = "PROCESSING" => c \in held \cup Working \cup Handling
      BY <1>1, <1>2, <1>3, <2>3 DEF Notified!NoLeak, Working, Handling
    <3>1. /\ state[c] = "DMA_OWNED" => \E q \in Notified!Producers : prod[q].block = c
          /\ state[c] = "PROCESSING" => c \in held \cup Working \cup Handling
      BY <1>0 DEF StreamOwners, Notified!NoLeak, Working, Handling
    <3>2. \A q \in {"in", "out"} : prod[q].block = c => prod'[q].block = c
      BY <1>4 DEF b
    <3> QED BY <1>3, <3>1, <3>2, StreamShape
  <2> QED BY <1>0, <1>1, <2>3, <2>4, <2>5, <2>6, <2>7 DEF StreamOwners
<1>7. StreamOrder'
  <2>1. CASE p = "in"
    <3>1. \A c : Age(c)' = Age(c)
      BY <1>1 DEF Age
    <3>2. Half' = Half /\ Half >= 1
      BY StreamShape DEF Half
    <3>3. \A c \in Notified!Waiting' : Age(c) < Half
      BY <1>0, <1>3, <1>a, <2>1, StreamShape DEF StreamOrder
    <3>4. earlier'[b] = Notified!Waiting /\ \A c \in Notified!Waiting : earlier'[c] = earlier[c]
      BY <1>0, <1>1, <1>2, <1>3, <2>1 DEF StreamTypes
    <3>5. ASSUME NEW c \in Notified!Waiting', NEW d \in earlier'[c]
          PROVE  d \in Notified!Waiting' /\ Age(c) < Age(d)
      <4>1. CASE c = b
        <5>1. d \in Notified!Waiting /\ Age(d) >= 1 /\ Age(c) = 0 /\ d \in Buffers
          BY <1>a, <1>3, <2>1, <3>4, <3>5, <4>1
        <5>2. Age(d) \in Nat
          BY <1>0, <5>1, AgeIs DEF Age, StreamTypes
        <5> QED BY <1>3, <5>1, <5>2
      <4>2. CASE c # b
        BY <1>0, <1>3, <2>1, <3>4, <3>5, <4>2 DEF StreamOrder
      <4> QED BY <4>1, <4>2
    <3>6. prod'["in"].pc = "idle"
      BY <1>4, <2>1 DEF Notified!Idle
    <3> QED BY <3>1, <3>2, <3>3, <3>5, <3>6 DEF StreamOrder
  <2>2. CASE p = "out"
    <3>1. \A c \in Notified!Waiting' : earlier'[c] \subseteq earlier[c] \cap Notified!Waiting'
      BY <1>0, <1>1, <1>3, <2>2 DEF StreamOrder
    <3>2. prod'["in"] = prod["in"] /\ Notified!Waiting' = Notified!Waiting
      BY <1>3, <1>4, <2>2
    <3> QED BY <1>0, <1>1, <3>1, <3>2, OrderKept
  <2> QED BY <2>1, <2>2
<1>8. StreamInOrder
  BY <1>1, <1>3 DEF StreamInOrder
<1>9. p = "out" => Notified!In_("READY")' \subseteq Notified!In_("READY")
  BY <1>2, <1>3 DEF Notified!In_
<1> QED BY <1>1, <1>5, <1>6, <1>7, <1>8, <1>9 DEF StreamKept

\* There is nothing new to notify of.
Quiet ==
    /\ pending' = pending
    /\ Notified!In_("READY")' # {} \/ main'.pc # "idle" =>
          Notified!In_("READY") # {} \/ main.pc # "idle" \/ pending

\* The main loop takes the oldest block.
LEMMA StreamTake ==
    ASSUME StreamInv, Notified!Take \/ Notified!DrainTake
    PROVE  StreamKept /\ Quiet
<1>0. StreamTypes /\ StreamOwners /\ StreamOrder
  BY DEF StreamInv
<1>1. PICK b \in Notified!Oldest :
         /\ Notified!Move(b, "PROCESSING")
         /\ main.pc \in {"idle", "draining"}
         /\ main'.pc \in {"taking", "consuming"} /\ main'.block = b /\ main' \in MainCalls
         /\ UNCHANGED <<sequence, next, pending, prod, held, earlier>>
  <2>1. CASE Notified!Take
    <3>1. PICK b \in Notified!Oldest :
             /\ Notified!Move(b, "PROCESSING") /\ main.pc = "idle"
             /\ main' = [main EXCEPT !.pc = "taking", !.block = b]
             /\ UNCHANGED <<sequence, next, pending, prod, held, earlier>>
      BY <2>1 DEF Notified!Take
    <3>2. main = [pc |-> "idle", block |-> NoBlock, left |-> 0] /\ b \in Buffers
      BY <1>0, <3>1, CallsAre, OldestIsFirst DEF Notified!Resting
    <3>3. main' = [pc |-> "taking", block |-> b, left |-> 0]
      BY <3>1, <3>2
    <3> QED BY <3>1, <3>2, <3>3 DEF MainCalls
  <2>2. CASE Notified!DrainTake
    <3>1. PICK b \in Notified!Oldest :
             /\ Notified!Move(b, "PROCESSING") /\ main.pc = "draining" /\ main.left > 0
             /\ main' = [main EXCEPT !.pc = "consuming", !.block = b]
             /\ UNCHANGED <<sequence, next, pending, prod, held, earlier>>
      BY <2>2 DEF Notified!DrainTake, Notified!HasBudget
    <3>2. /\ main \in [pc : {"draining"}, block : {NoBlock}, left : 0 .. StreamBudget]
          /\ b \in Buffers
      BY <1>0, <3>1, OldestIsFirst DEF StreamTypes, MainCalls, Notified!Resting
    <3>3. main' = [pc |-> "consuming", block |-> b, left |-> main.left]
      BY <3>1, <3>2
    <3>4. main.left \in 1 .. StreamBudget
      BY <3>1, <3>2, StreamShape
    <3> QED BY <3>1, <3>2, <3>3, <3>4 DEF MainCalls
  <2> QED BY <2>1, <2>2
<1>2. b \in Buffers /\ state[b] = "READY" /\ \A c \in earlier[b] : state[c] # "READY"
  BY <1>0, OldestIsFirst
<1>3. /\ state' \in [Buffers -> Notified!States] /\ state'[b] = "PROCESSING"
      /\ \A c \in Buffers \ {b} : state'[c] = state[c]
      /\ Notified!Waiting' = Notified!Waiting
  <2>1. b \in Notified!Waiting
    BY <1>2 DEF Notified!Waiting, Notified!In_
  <2> QED BY <1>0, <1>1, <1>2, <2>1, MoveIs DEF Notified!States
<1>4. StreamTypes'
  BY <1>0, <1>1, <1>3 DEF StreamTypes
<1>5. StreamOwners'
  <2>1. Working = {} /\ Handling = {} /\ Working' = {b} /\ Handling' = {}
    BY <1>1 DEF Working, Handling, Notified!Working, Notified!Handling
  <2>2. b \notin held
    BY <1>0, <1>2 DEF StreamOwners
  <2>3. \A q \in Notified!Producers : prod[q].pc # "idle" => state'[prod[q].block] = "DMA_OWNED"
    <3> SUFFICES ASSUME NEW q \in {"in", "out"}, prod[q].pc # "idle"
        PROVE  state'[prod[q].block] = "DMA_OWNED"
      BY StreamShape
    <3>1. state[prod[q].block] = "DMA_OWNED" /\ prod[q].block \in Buffers
      BY <1>0, CallsAre, StreamShape DEF StreamOwners
    <3> QED BY <1>2, <1>3, <3>1
  <2>4. \A c \in held : c \in Buffers /\ state'[c] = "PROCESSING"
    BY <1>0, <1>3, <2>2 DEF StreamOwners, StreamTypes
  <2>5. Notified!NoLeak'
    <3> SUFFICES ASSUME NEW c \in Buffers
        PROVE  /\ state'[c] = "DMA_OWNED" => \E q \in Notified!Producers : prod[q].block = c
               /\ state'[c] = "PROCESSING" => c \in held \cup {b}
      BY <1>1, <2>1 DEF Notified!NoLeak, Working, Handling
    <3>1. /\ state[c] = "DMA_OWNED" => \E q \in Notified!Producers : prod[q].block = c
          /\ state[c] = "PROCESSING" => c \in held
      BY <1>0, <2>1 DEF StreamOwners, Notified!NoLeak, Working, Handling
    <3> QED BY <1>3, <3>1
  <2> QED BY <1>0, <1>1, <1>3, <2>1, <2>2, <2>3, <2>4, <2>5 DEF StreamOwners
<1>6. StreamOrder'
  <2>1. \A c \in Notified!Waiting' : earlier'[c] \subseteq earlier[c] \cap Notified!Waiting'
    BY <1>0, <1>1, <1>3 DEF StreamOrder
  <2> QED BY <1>0, <1>1, <1>3, <2>1, OrderKept
<1>7. StreamInOrder
  BY <1>2, <1>3 DEF StreamInOrder
<1>8. Quiet
  BY <1>1, <1>2 DEF Quiet, Notified!In_
<1> QED BY <1>4, <1>5, <1>6, <1>7, <1>8 DEF StreamKept

\* A block that was taken is ready again, as old as it was.
LEMMA StreamGivesBack ==
    ASSUME StreamInv,
           Notified!TakeFails \/ Notified!DrainFails
              \/ (Notified!Handback /\ state[main.block] = "PROCESSING")
    PROVE  StreamKept /\ Quiet
<1>0. StreamTypes /\ StreamOwners /\ StreamOrder
  BY DEF StreamInv
<1> DEFINE b == main.block
<1>1. /\ b \in Buffers /\ state[b] = "PROCESSING" /\ b \notin held
      /\ Notified!Move(b, "READY") /\ main.pc \in {"taking", "consuming", "handling"}
      /\ main'.pc \in {"idle", "draining"} /\ main' \in MainCalls
      /\ UNCHANGED <<sequence, next, pending, prod, held, earlier>>
  <2>1. CASE Notified!TakeFails \/ Notified!DrainFails
    <3>1. /\ main.pc \in {"taking", "consuming"} /\ main' = Notified!Resting
          /\ Notified!Move(b, "READY")
          /\ UNCHANGED <<sequence, next, pending, prod, held, earlier>>
      BY <2>1 DEF Notified!TakeFails, Notified!DrainFails
    <3>2. b \in Buffers /\ b \in Working
      BY <1>0, <3>1, CallsAre DEF Working, Notified!Working
    <3> QED BY <1>0, <3>1, <3>2 DEF StreamOwners, MainCalls, Notified!Resting
  <2>2. CASE Notified!Handback /\ state[main.block] = "PROCESSING"
    <3>1. /\ main.pc = "handling" /\ Notified!Move(b, "READY")
          /\ main' = [main EXCEPT !.pc = "draining", !.block = NoBlock, !.left = @ - 1]
          /\ UNCHANGED <<sequence, next, pending, prod, held, earlier>>
      BY <2>2 DEF Notified!Handback
    <3>2. b \in Buffers /\ b \in Handling
      BY <1>0, <3>1, CallsAre DEF Handling, Notified!Handling
    <3>3. main \in [pc : {"consuming", "handling"}, block : Buffers, left : 1 .. StreamBudget]
      BY <1>0, <3>1 DEF StreamTypes, MainCalls, Notified!Resting
    <3>4. main' = [pc |-> "draining", block |-> NoBlock, left |-> main.left - 1]
      BY <3>1, <3>3
    <3>5. main.left - 1 \in 0 .. StreamBudget
      BY <3>3, StreamShape
    <3> QED BY <1>0, <2>2, <3>1, <3>2, <3>4, <3>5 DEF StreamOwners, MainCalls
  <2> QED BY <2>1, <2>2
<1> HIDE DEF b
<1>2. /\ state' \in [Buffers -> Notified!States] /\ state'[b] = "READY"
      /\ \A c \in Buffers \ {b} : state'[c] = state[c]
      /\ Notified!Waiting' = Notified!Waiting
  <2>1. b \in Notified!Waiting
    BY <1>1 DEF Notified!Waiting, Notified!In_
  <2> QED BY <1>0, <1>1, <2>1, MoveIs DEF Notified!States
<1>3. StreamTypes'
  BY <1>0, <1>1, <1>2 DEF StreamTypes
<1>4. StreamOwners'
  <2>1. Working \subseteq {b} /\ Handling \subseteq {b} /\ Working' = {} /\ Handling' = {}
    BY <1>1 DEF Working, Handling, Notified!Working, Notified!Handling, b
  <2>2. \A q \in Notified!Producers : prod[q].pc # "idle" => state'[prod[q].block] = "DMA_OWNED"
    <3> SUFFICES ASSUME NEW q \in {"in", "out"}, prod[q].pc # "idle"
        PROVE  state'[prod[q].block] = "DMA_OWNED"
      BY StreamShape
    <3>1. state[prod[q].block] = "DMA_OWNED" /\ prod[q].block \in Buffers
      BY <1>0, CallsAre, StreamShape DEF StreamOwners
    <3> QED BY <1>1, <1>2, <3>1
  <2>3. \A c \in held : c \in Buffers /\ state'[c] = "PROCESSING"
    BY <1>0, <1>1, <1>2 DEF StreamOwners, StreamTypes
  <2>4. Notified!NoLeak'
    <3> SUFFICES ASSUME NEW c \in Buffers, c # b
        PROVE  /\ state'[c] = "DMA_OWNED" => \E q \in Notified!Producers : prod[q].block = c
               /\ state'[c] = "PROCESSING" => c \in held
      BY <1>1, <1>2, <2>1 DEF Notified!NoLeak
    <3>1. /\ state[c] = "DMA_OWNED" => \E q \in Notified!Producers : prod[q].block = c
          /\ state[c] = "PROCESSING" => c \in held
      BY <1>0, <2>1 DEF StreamOwners, Notified!NoLeak, Working, Handling
    <3> QED BY <1>2, <3>1
  <2> QED BY <1>0, <1>1, <2>1, <2>2, <2>3, <2>4 DEF StreamOwners
<1>5. StreamOrder'
  <2>1. \A c \in Notified!Waiting' : earlier'[c] \subseteq earlier[c] \cap Notified!Waiting'
    BY <1>0, <1>1, <1>2 DEF StreamOrder
  <2> QED BY <1>0, <1>1, <1>2, <2>1, OrderKept
<1>6. StreamInOrder
  BY <1>1, <1>2 DEF StreamInOrder
<1>7. Quiet
  BY <1>1 DEF Quiet
<1> QED BY <1>3, <1>4, <1>5, <1>6, <1>7 DEF StreamKept

\* A block that is released is free, and nothing waits behind it.
LEMMA StreamRelease ==
    ASSUME StreamInv, NEW b \in Buffers, Notified!Release(b)
    PROVE  StreamKept /\ Quiet
<1>0. StreamTypes /\ StreamOwners /\ StreamOrder
  BY DEF StreamInv
<1>1. /\ main.pc \in {"idle", "handling"} /\ state[b] \in {"PROCESSING", "OUTPUT_READY"}
      /\ Notified!Move(b, "FREE") /\ held' = held \ {b} /\ earlier' = Notified!Without(b)
      /\ UNCHANGED <<sequence, next, pending, prod, main>>
  BY DEF Notified!Release
<1>2. /\ state' \in [Buffers -> Notified!States] /\ state'[b] = "FREE"
      /\ \A c \in Buffers \ {b} : state'[c] = state[c]
      /\ Notified!Waiting' = Notified!Waiting \ {b}
  BY <1>0, <1>1, MoveIs DEF Notified!States
<1>3. StreamTypes'
  <2>1. earlier' \in [Buffers -> SUBSET Buffers]
    BY <1>0, <1>1 DEF StreamTypes, Notified!Without
  <2> QED BY <1>0, <1>1, <1>2, <2>1 DEF StreamTypes
<1>4. StreamOwners'
  <2>1. Working = {} /\ Working' = {} /\ Handling' = Handling
    BY <1>1 DEF Working, Handling, Notified!Working, Notified!Handling
  <2>2. \A q \in Notified!Producers : prod[q].pc # "idle" => state'[prod[q].block] = "DMA_OWNED"
    <3> SUFFICES ASSUME NEW q \in {"in", "out"}, prod[q].pc # "idle"
        PROVE  state'[prod[q].block] = "DMA_OWNED"
      BY StreamShape
    <3>1. state[prod[q].block] = "DMA_OWNED" /\ prod[q].block \in Buffers
      BY <1>0, CallsAre, StreamShape DEF StreamOwners
    <3> QED BY <1>1, <1>2, <3>1
  <2>3. \A c \in held' : c \in Buffers /\ state'[c] = "PROCESSING"
    BY <1>0, <1>1, <1>2 DEF StreamOwners, StreamTypes
  <2>4. Notified!NoLeak'
    <3> SUFFICES ASSUME NEW c \in Buffers, c # b
        PROVE  /\ state'[c] = "DMA_OWNED" => \E q \in Notified!Producers : prod[q].block = c
               /\ state'[c] = "PROCESSING" => c \in held' \cup Handling
      BY <1>1, <1>2, <2>1 DEF Notified!NoLeak, Handling
    <3>1. /\ state[c] = "DMA_OWNED" => \E q \in Notified!Producers : prod[q].block = c
          /\ state[c] = "PROCESSING" => c \in held \cup Handling
      BY <1>0, <2>1 DEF StreamOwners, Notified!NoLeak, Working, Handling
    <3> QED BY <1>1, <1>2, <3>1
  <2> QED BY <1>0, <1>1, <2>1, <2>2, <2>3, <2>4 DEF StreamOwners
<1>5. StreamOrder'
  <2>1. ASSUME NEW c \in Notified!Waiting'
        PROVE  earlier'[c] \subseteq earlier[c] \cap Notified!Waiting'
    <3>1. c # b /\ c \in Notified!Waiting /\ c \in Buffers
      BY <1>2, <2>1 DEF Notified!Waiting, Notified!In_
    <3>2. earlier[c] \subseteq Notified!Waiting
      BY <1>0, <3>1 DEF StreamOrder
    <3> QED BY <1>1, <1>2, <3>1, <3>2 DEF Notified!Without
  <2> QED BY <1>0, <1>1, <1>2, <2>1, OrderKept
<1>6. StreamInOrder
  BY <1>1, <1>2 DEF StreamInOrder
<1>7. Quiet
  BY <1>1, <1>2 DEF Quiet, Notified!In_
<1> QED BY <1>3, <1>4, <1>5, <1>6, <1>7 DEF StreamKept

\* The main loop goes on without touching a block.
LEMMA StreamCall ==
    ASSUME StreamInv,
           \/ Notified!TakeSucceeds \/ Notified!Drain \/ Notified!Notify
           \/ Notified!DrainEnd
           \/ Notified!Handback /\ state[main.block] # "PROCESSING"
    PROVE  /\ StreamKept
           /\ pending' = (pending /\ (Notified!DrainEnd => Notified!In_("READY") # {}))
           /\ main.pc = "idle" => pending
           /\ Notified!In_("READY")' = Notified!In_("READY")
           /\ Notified!DrainEnd => main.pc # "idle" /\ main'.pc = "idle"
           /\ ~Notified!DrainEnd => pending' = pending
<1>0. StreamTypes /\ StreamOwners /\ StreamOrder
  BY DEF StreamInv
<1>1. UNCHANGED <<state, sequence, next, prod, earlier>> /\ pending \in BOOLEAN
  BY <1>0
     DEF Notified!TakeSucceeds, Notified!Drain, Notified!Notify, Notified!DrainEnd,
         Notified!Handback, StreamTypes
<1>2. /\ main' \in MainCalls /\ held' \cup Working' \subseteq held \cup Working
      /\ held' \subseteq Buffers /\ held' \cap (Working' \cup Handling') = {}
      /\ \A b \in Buffers : state[b] = "PROCESSING" /\ b \in held \cup Working \cup Handling =>
                b \in held' \cup Working' \cup Handling'
  <2>1. CASE Notified!TakeSucceeds
    <3>1. /\ main.pc = "taking" /\ held' = held \cup {main.block} /\ main' = Notified!Resting
      BY <2>1 DEF Notified!TakeSucceeds
    <3>2. main.block \in Buffers
      BY <1>0, <3>1, CallsAre
    <3>3. Working = {main.block} /\ Handling = {} /\ Working' = {} /\ Handling' = {}
      BY <3>1 DEF Working, Handling, Notified!Working, Notified!Handling, Notified!Resting
    <3>4. main' \in MainCalls
      BY <3>1 DEF MainCalls
    <3> QED BY <1>0, <3>1, <3>2, <3>3, <3>4 DEF StreamTypes
  <2>2. CASE Notified!Drain
    <3>1. main.pc = "idle" /\ held' = held
          /\ main' = [main EXCEPT !.pc = "draining", !.left = StreamBudget]
      BY <2>2 DEF Notified!Drain
    <3>2. main' = [pc |-> "draining", block |-> NoBlock, left |-> StreamBudget]
      BY <1>0, <3>1, CallsAre DEF Notified!Resting
    <3>3. Working = {} /\ Handling = {} /\ Working' = {} /\ Handling' = {}
      BY <3>1, <3>2 DEF Working, Handling, Notified!Working, Notified!Handling
    <3>4. main' \in MainCalls
      BY <3>2, StreamShape DEF MainCalls
    <3> QED BY <1>0, <3>1, <3>3, <3>4 DEF StreamTypes
  <2>3. CASE Notified!Notify
    <3>1. main.pc = "consuming" /\ held' = held /\ main' = [main EXCEPT !.pc = "handling"]
      BY <2>3 DEF Notified!Notify
    <3>2. main \in [pc : {"consuming", "handling"}, block : Buffers, left : 1 .. StreamBudget]
      BY <1>0, <3>1 DEF StreamTypes, MainCalls, Notified!Resting
    <3>3. main' = [pc |-> "handling", block |-> main.block, left |-> main.left]
      BY <3>1, <3>2
    <3>4. /\ Working = {main.block} /\ Handling = {}
          /\ Working' = {} /\ Handling' = {main.block}
      BY <3>1, <3>3 DEF Working, Handling, Notified!Working, Notified!Handling
    <3>5. main' \in MainCalls
      BY <3>2, <3>3 DEF MainCalls
    <3>6. held \subseteq Buffers /\ held \cap (Working \cup Handling) = {}
      BY <1>0 DEF StreamTypes, StreamOwners
    <3>7. held' \cap (Working' \cup Handling') = {} /\ held' \subseteq Buffers
      BY <3>1, <3>4, <3>6
    <3>8. held' \cup Working' \subseteq held \cup Working
      BY <3>1, <3>4
    <3>9. held' \cup Working' \cup Handling' = held \cup Working \cup Handling
      BY <3>1, <3>4
    <3> QED BY <3>5, <3>7, <3>8, <3>9
  <2>4. CASE Notified!DrainEnd
    <3>1. main.pc = "draining" /\ held' = held /\ main' = Notified!Resting
      BY <2>4 DEF Notified!DrainEnd
    <3>2. Working = {} /\ Handling = {} /\ Working' = {} /\ Handling' = {}
      BY <3>1 DEF Working, Handling, Notified!Working, Notified!Handling, Notified!Resting
    <3>3. main' \in MainCalls
      BY <3>1 DEF MainCalls
    <3> QED BY <1>0, <3>1, <3>2, <3>3 DEF StreamTypes
  <2>5. CASE Notified!Handback /\ state[main.block] # "PROCESSING"
    <3>1. /\ main.pc = "handling" /\ held' = held
          /\ main' = [main EXCEPT !.pc = "draining", !.block = NoBlock, !.left = @ - 1]
      BY <2>5 DEF Notified!Handback
    <3>2. main \in [pc : {"consuming", "handling"}, block : Buffers, left : 1 .. StreamBudget]
      BY <1>0, <3>1 DEF StreamTypes, MainCalls, Notified!Resting
    <3>3. main' = [pc |-> "draining", block |-> NoBlock, left |-> main.left - 1]
      BY <3>1, <3>2
    <3>4. main.left - 1 \in 0 .. StreamBudget
      BY <3>2, StreamShape
    <3>5. Working = {} /\ Handling = {main.block} /\ Working' = {} /\ Handling' = {}
      BY <3>1, <3>3 DEF Working, Handling, Notified!Working, Notified!Handling
    <3>6. main' \in MainCalls
      BY <3>3, <3>4 DEF MainCalls
    <3>7. held' \cap (Working' \cup Handling') = {}
      BY <3>5
    <3>8. ASSUME NEW b \in Buffers, state[b] = "PROCESSING",
                 b \in held \cup Working \cup Handling
          PROVE  b \in held'
      BY <2>5, <3>1, <3>5, <3>8
    <3>9. held' \cup Working' \subseteq held \cup Working /\ held' \subseteq Buffers
      BY <1>0, <3>1, <3>5 DEF StreamTypes
    <3> QED BY <3>6, <3>7, <3>8, <3>9
  <2> QED BY <2>1, <2>2, <2>3, <2>4, <2>5
<1>3. pending' = (pending /\ (Notified!DrainEnd => Notified!In_("READY") # {}))
      /\ (main.pc = "idle" => pending)
      /\ (Notified!DrainEnd => main.pc # "idle" /\ main'.pc = "idle")
      /\ (~Notified!DrainEnd => pending' = pending)
  <2>1. CASE Notified!DrainEnd
    <3>1. main.pc = "draining" /\ main' = Notified!Resting
          /\ pending' = (Notified!Remaining /\ pending)
      BY <2>1 DEF Notified!DrainEnd
    <3>2. main'.pc = "idle"
      BY <3>1 DEF Notified!Resting
    <3> QED BY <1>1, <2>1, <3>1, <3>2 DEF Notified!Remaining
  <2>2. CASE ~Notified!DrainEnd
    <3>1. pending' = pending /\ (main.pc = "idle" => pending)
      BY <2>2
         DEF Notified!TakeSucceeds, Notified!Drain, Notified!Notify, Notified!Handback
    <3> QED BY <1>1, <2>2, <3>1
  <2> QED BY <2>1, <2>2
<1>4. pending' \in BOOLEAN
  BY <1>1, <1>3
<1>5. StreamTypes'
  BY <1>0, <1>1, <1>2, <1>4 DEF StreamTypes
<1>6. StreamOwners'
  <2>1. Notified!NoLeak'
    BY <1>0, <1>1, <1>2 DEF StreamOwners, Notified!NoLeak, Working, Handling
  <2> QED BY <1>0, <1>1, <1>2, <2>1 DEF StreamOwners
<1>7. Notified!Waiting' = Notified!Waiting /\ Notified!In_("READY")' = Notified!In_("READY")
  BY <1>1 DEF Notified!Waiting, Notified!In_
<1>8. StreamOrder'
  <2>1. \A c \in Notified!Waiting' : earlier'[c] \subseteq earlier[c] \cap Notified!Waiting'
    BY <1>0, <1>1, <1>7 DEF StreamOrder
  <2> QED BY <1>0, <1>1, <1>7, <2>1, OrderKept
<1>9. StreamInOrder
  BY <1>1 DEF StreamInOrder
<1> QED BY <1>3, <1>5, <1>6, <1>7, <1>8, <1>9 DEF StreamKept

\* A reset frees what nobody has.
LEMMA StreamReset ==
    ASSUME StreamInv, Notified!Reset PROVE StreamKept /\ Quiet
<1>0. StreamTypes /\ StreamOwners /\ StreamOrder
  BY DEF StreamInv
<1>1. /\ prod = [p \in Notified!Producers |-> Notified!Idle]
      /\ main = Notified!Resting /\ held = {}
      /\ state' = [b \in Buffers |-> "FREE"]
      /\ sequence' = [b \in Buffers |-> 0] /\ next' = 0
      /\ earlier' = [b \in Buffers |-> {}]
      /\ UNCHANGED <<pending, prod, main, held>>
  BY DEF Notified!Reset
<1>2. StreamTypes'
  <2>1. 0 \in 0 .. SeqMod - 1
    BY StreamShape
  <2>2. state' \in [Buffers -> Notified!States]
    BY <1>1 DEF Notified!States
  <2> QED BY <1>0, <1>1, <2>1, <2>2 DEF StreamTypes
<1>3. StreamOwners'
  <2>1. /\ Working' = {} /\ \A p \in Notified!Producers : prod'[p].pc = "idle"
        /\ Handling' = {}
    BY <1>1 DEF Working, Handling, Notified!Working, Notified!Handling, Notified!Resting,
                Notified!Idle
  <2>2. Notified!NoLeak'
    BY <1>1 DEF Notified!NoLeak
  <2> QED BY <1>1, <2>1, <2>2, StreamShape DEF StreamOwners
<1>4. Notified!Waiting' = {} /\ Notified!In_("READY")' = {}
  BY <1>1 DEF Notified!Waiting, Notified!In_
<1>5. StreamOrder' /\ Quiet
  <2>1. prod'["in"].pc = "idle" /\ main'.pc = "idle"
    BY <1>1, StreamShape DEF Notified!Idle, Notified!Resting
  <2> QED BY <1>1, <1>4, <2>1 DEF StreamOrder, Quiet
<1>6. StreamInOrder
  BY <1>1 DEF StreamInOrder
<1> QED BY <1>2, <1>3, <1>5, <1>6 DEF StreamKept

\* Without a handler only the drain is another one.
LEMMA PulledSteps ==
    Pulled!Next => Notified!Next \/ Pulled!DrainNoHandler
<1> USE DEF Pulled!In_, Notified!In_, Pulled!Move, Notified!Move, Pulled!Idle, Notified!Idle,
            Pulled!Resting, Notified!Resting, Pulled!Producers, Notified!Producers,
            Pulled!In, Notified!In, Pulled!Out, Notified!Out
<1>1. Pulled!Waiting = Notified!Waiting
      /\ (\A b : Pulled!Without(b) = Notified!Without(b))
  BY DEF Pulled!Waiting, Notified!Waiting, Pulled!Without, Notified!Without
<1>2. \A a, b : Pulled!Older(a, b) = Notified!Older(a, b)
  BY DEF Pulled!Older, Notified!Older
<1>3. Pulled!Oldest = Notified!Oldest
  BY <1>2 DEF Pulled!Oldest, Notified!Oldest
<1>4. \A p \in Pulled!Producers : Pulled!Produce(p) => Notified!Produce(p)
  <2> SUFFICES ASSUME NEW p \in Pulled!Producers, Pulled!Produce(p) PROVE Notified!Produce(p)
    OBVIOUS
  <2>1. Pulled!Acquire(p) => Notified!Acquire(p)
    BY DEF Pulled!Acquire, Notified!Acquire
  <2>2. Pulled!Abort(p) => Notified!Abort(p)
    BY DEF Pulled!Abort, Notified!Abort
  <2>3. Pulled!InWindow = Notified!InWindow
    BY <1>1 DEF Pulled!InWindow, Notified!InWindow
  <2>4. Pulled!Commit(p) => Notified!Commit(p)
    BY <2>3 DEF Pulled!Commit, Notified!Commit
  <2>5. Pulled!CommitFails(p) => Notified!CommitFails(p)
    BY DEF Pulled!CommitFails, Notified!CommitFails, Pulled!Recycled, Notified!Recycled
  <2>6. Pulled!Publish(p) => Notified!Publish(p)
    BY <1>1 DEF Pulled!Publish, Notified!Publish
  <2> QED
    BY <2>1, <2>2, <2>4, <2>5, <2>6 DEF Pulled!Produce, Notified!Produce
<1>5. Pulled!AcquireOldest => Notified!AcquireOldest
  BY <1>1, <1>3 DEF Pulled!AcquireOldest, Notified!AcquireOldest, Pulled!Victims, Notified!Victims
<1>6. Pulled!Consume => Notified!Consume
  <2>1. Pulled!Take => Notified!Take
    BY <1>3 DEF Pulled!Take, Notified!Take, Pulled!Cardinality, Notified!Cardinality
  <2>2. Pulled!TakeSucceeds => Notified!TakeSucceeds
    BY DEF Pulled!TakeSucceeds, Notified!TakeSucceeds
  <2>3. Pulled!TakeFails => Notified!TakeFails
    BY DEF Pulled!TakeFails, Notified!TakeFails
  <2>4. \A b \in Buffers : Pulled!Release(b) => Notified!Release(b)
    BY <1>1 DEF Pulled!Release, Notified!Release
  <2> QED BY <2>1, <2>2, <2>3, <2>4 DEF Pulled!Consume, Notified!Consume
<1>7. Pulled!Draining => Notified!Draining
  <2>1. ~Pulled!Drain
    BY DEF Pulled!Drain
  <2>2. Pulled!DrainTake => Notified!DrainTake
    BY <1>3 DEF Pulled!DrainTake, Notified!DrainTake, Pulled!HasBudget, Notified!HasBudget
  <2>3. Pulled!DrainFails => Notified!DrainFails
    BY DEF Pulled!DrainFails, Notified!DrainFails
  <2>4. Pulled!Notify => Notified!Notify
    BY DEF Pulled!Notify, Notified!Notify
  <2>5. Pulled!Handback => Notified!Handback
    BY DEF Pulled!Handback, Notified!Handback
  <2>6. Pulled!DrainEnd => Notified!DrainEnd
    BY DEF Pulled!DrainEnd, Notified!DrainEnd, Pulled!HasBudget, Notified!HasBudget,
           Pulled!Remaining, Notified!Remaining
  <2> QED
    BY <2>1, <2>2, <2>3, <2>4, <2>5, <2>6 DEF Pulled!Draining, Notified!Draining
<1>8. Pulled!Reset => Notified!Reset
  BY DEF Pulled!Reset, Notified!Reset
<1> QED
  BY <1>4, <1>5, <1>6, <1>7, <1>8 DEF Pulled!Next, Notified!Next

\* A step of the stream keeps the invariant and the order, whatever the flag.
LEMMA StreamStep ==
    ASSUME StreamInv, Notified!Next, topic' = topic
    PROVE  StreamInv' /\ StreamInOrder
<1>0. StreamTypes /\ pending \in BOOLEAN /\ Notified!Producers = {"in", "out"}
  BY StreamShape DEF StreamInv, StreamTypes
<1>f. StreamFlag
         <=> (topic = "handled" /\ (Notified!In_("READY") # {} \/ main.pc # "idle")
                 => pending)
  BY DEF StreamFlag
<1>g. StreamFlag'
         <=> (topic = "handled" /\ (Notified!In_("READY")' # {} \/ main'.pc # "idle")
                 => pending')
  BY DEF StreamFlag
<1>h. StreamFlag
  BY DEF StreamInv
<1>1. ASSUME StreamKept, StreamFlag' PROVE StreamInv' /\ StreamInOrder
  BY <1>1 DEF StreamKept, StreamInv
<1>2. ASSUME StreamKept, pending' = pending, main' = main,
             Notified!In_("READY")' \subseteq Notified!In_("READY")
      PROVE  StreamInv' /\ StreamInOrder
  <2>1. StreamFlag'
    BY <1>2, <1>f, <1>g, <1>h
  <2> QED BY <1>1, <1>2, <2>1
<1>3. ASSUME StreamKept, Quiet PROVE StreamInv' /\ StreamInOrder
  <2>1. StreamFlag'
    BY <1>3, <1>f, <1>g, <1>h DEF Quiet
  <2> QED BY <1>1, <1>3, <2>1
<1>4. ASSUME NEW p \in Notified!Producers, Notified!Produce(p)
      PROVE  StreamInv' /\ StreamInOrder
  <2>1. p \in {"in", "out"}
    BY <1>0
  <2>2. CASE Notified!Publish(p)
    <3>1. /\ StreamKept /\ main' = main
          /\ IF p = "in" THEN pending' = TRUE
             ELSE /\ pending' = pending
                  /\ Notified!In_("READY")' \subseteq Notified!In_("READY")
      BY <2>1, <2>2, StreamPublish
    <3>2. CASE p = "in"
      <4>1. StreamFlag'
        BY <3>1, <3>2, <1>g
      <4> QED BY <1>1, <3>1, <4>1
    <3> QED BY <1>2, <3>1, <3>2
  <2> QED
    BY <1>2, <1>4, <2>1, <2>2, StreamAcquire, StreamAbandon, StreamCommit
       DEF Notified!Produce
<1>5. CASE Notified!AcquireOldest
  BY <1>2, <1>5, StreamAcquire
<1>6. ASSUME \/ Notified!TakeSucceeds \/ Notified!Drain \/ Notified!Notify
             \/ Notified!DrainEnd
             \/ Notified!Handback /\ state[main.block] # "PROCESSING"
      PROVE  StreamInv' /\ StreamInOrder
  <2>1. /\ StreamKept
        /\ pending' = (pending /\ (Notified!DrainEnd => Notified!In_("READY") # {}))
        /\ main.pc = "idle" => pending \/ Notified!TakeSucceeds
        /\ Notified!In_("READY")' = Notified!In_("READY")
        /\ Notified!DrainEnd => main.pc # "idle" /\ main'.pc = "idle"
        /\ ~Notified!DrainEnd => pending' = pending
    BY <1>6, StreamCall
  <2>2. CASE Notified!DrainEnd
    <3>1. StreamFlag'
      BY <1>f, <1>g, <1>h, <2>1, <2>2
    <3> QED BY <1>1, <2>1, <3>1
  <2>3. CASE ~Notified!DrainEnd
    <3>1. Notified!TakeSucceeds => main.pc # "idle"
      BY DEF Notified!TakeSucceeds
    <3>2. StreamFlag'
      BY <1>f, <1>g, <1>h, <2>1, <2>3, <3>1
    <3> QED BY <1>1, <2>1, <3>2
  <2> QED BY <2>2, <2>3
<1>7. CASE Notified!Consume
  <2>1. ASSUME NEW b \in Buffers, Notified!Release(b) PROVE StreamInv' /\ StreamInOrder
    BY <1>3, <2>1, StreamRelease
  <2>2. CASE Notified!Take
    BY <1>3, <2>2, StreamTake
  <2>3. CASE Notified!TakeFails
    BY <1>3, <2>3, StreamGivesBack
  <2>4. CASE Notified!TakeSucceeds
    BY <1>6, <2>4
  <2> QED BY <1>7, <2>1, <2>2, <2>3, <2>4 DEF Notified!Consume
<1>8. CASE Notified!Draining
  <2>1. CASE Notified!DrainTake
    BY <1>3, <2>1, StreamTake
  <2>2. CASE Notified!DrainFails \/ (Notified!Handback /\ state[main.block] = "PROCESSING")
    BY <1>3, <2>2, StreamGivesBack
  <2>3. CASE \/ Notified!Drain \/ Notified!Notify \/ Notified!DrainEnd
             \/ Notified!Handback /\ state[main.block] # "PROCESSING"
    BY <1>6, <2>3
  <2> QED BY <1>8, <2>1, <2>2, <2>3 DEF Notified!Draining
<1>9. CASE Notified!Reset
  BY <1>3, <1>9, StreamReset
<1>10. ~Notified!DrainNoHandler
  BY DEF Notified!DrainNoHandler
<1> QED BY <1>4, <1>5, <1>7, <1>8, <1>9, <1>10 DEF Notified!Next

\* The drain without a handler forgets what is pending, which nobody asks for then.
LEMMA StreamForgets ==
    ASSUME StreamInv, Pulled!DrainNoHandler, topic = "pulled", topic' = topic
    PROVE  StreamInv' /\ StreamInOrder
<1>1. pending' = FALSE /\ UNCHANGED <<state, sequence, next, prod, main, held, earlier>>
  BY DEF Pulled!DrainNoHandler
<1>2. StreamTypes' /\ StreamFlag'
  BY <1>1 DEF StreamInv, StreamTypes, StreamFlag
<1>3. Working' = Working /\ Handling' = Handling /\ Notified!Waiting' = Notified!Waiting
  BY <1>1 DEF Working, Handling, Notified!Working, Notified!Handling, Notified!Waiting,
              Notified!In_
<1>4. StreamOwners'
  BY <1>1, <1>3
     DEF StreamInv, StreamOwners, Working, Handling, Notified!NoLeak
<1>5. StreamOrder'
  BY <1>1, <1>3 DEF StreamInv, StreamOrder, Age, Half
<1>6. StreamInOrder
  BY <1>1 DEF StreamInOrder
<1> QED BY <1>2, <1>4, <1>5, <1>6 DEF StreamInv

\* Every step of the services keeps the invariant of the stream.
LEMMA StreamNextStep ==
    StreamInv /\ [ServicesNext]_allVars
        => StreamInv' /\ [StreamInOrder]_Notified!vars
<1> SUFFICES ASSUME StreamInv, [ServicesNext]_allVars
    PROVE  StreamInv' /\ [StreamInOrder]_Notified!vars
  OBVIOUS
<1>1. topic' = topic
  BY DEF ServicesNext, allVars
<1>2. CASE StreamNext
  BY <1>1, <1>2, PulledSteps, StreamStep, StreamForgets DEF StreamNext
<1>3. CASE UNCHANGED streamVars
  <2>1. UNCHANGED <<state, sequence, next, pending, prod, main, held, earlier>>
    BY <1>3 DEF streamVars
  <2>2. Working' = Working /\ Handling' = Handling /\ Notified!Waiting' = Notified!Waiting
    BY <2>1 DEF Working, Handling, Notified!Working, Notified!Handling, Notified!Waiting,
                Notified!In_
  <2>3. StreamTypes' /\ StreamFlag'
    BY <1>1, <2>1 DEF StreamInv, StreamTypes, StreamFlag, Notified!In_
  <2>4. StreamOwners'
    BY <2>1, <2>2 DEF StreamInv, StreamOwners, Working, Handling, Notified!NoLeak
  <2>5. StreamOrder'
    BY <2>1, <2>2 DEF StreamInv, StreamOrder, Age, Half
  <2> QED BY <2>1, <2>3, <2>4, <2>5 DEF StreamInv, Notified!vars
<1>4. StreamNext \/ UNCHANGED streamVars
  BY DEF ServicesNext, allVars
<1> QED BY <1>2, <1>3, <1>4

\* Streams: a block has one owner, the flag is not lost, and blocks come in order.
LEMMA StreamHolds ==
    ServicesSpec =>
        /\ [](/\ Notified!TypeOK /\ Notified!OneOwner /\ Notified!NoLeak
              /\ topic = "handled" => Notified!ReadyIsPending)
        /\ Notified!FirstCommittedFirst
<1>1. ServicesInit => StreamInv
  BY StreamInit DEF ServicesInit
<1>2. ASSUME StreamInv
      PROVE  /\ Notified!TypeOK /\ Notified!OneOwner /\ Notified!NoLeak
             /\ topic = "handled" => Notified!ReadyIsPending
  <2>0. StreamTypes /\ StreamOwners /\ StreamFlag
    BY <1>2 DEF StreamInv
  <2>1. Notified!TypeOK
    <3>1. prod \in [Notified!Producers -> [pc : {"idle", "owning", "publishing"},
                                           block : Buffers \cup {NoBlock}]]
      BY <2>0 DEF StreamTypes, ProducerCalls, Notified!Idle
    <3>2. main \in [pc : {"idle", "taking", "draining", "consuming", "handling"},
                    block : Buffers \cup {NoBlock}, left : 0 .. StreamBudget]
      BY <2>0, StreamShape DEF StreamTypes, MainCalls, Notified!Resting
    <3> QED BY <2>0, <3>1, <3>2 DEF StreamTypes, Notified!TypeOK
  <2>2. Notified!OneOwner
    <3>1. prod["in"].block = NoBlock \/ prod["in"].block # prod["out"].block
      <4>1. prod["in"].pc = "idle" => prod["in"].block = NoBlock
        BY <2>0, CallsAre DEF Notified!Idle
      <4> QED BY <2>0, <4>1 DEF StreamOwners
    <3>2. ASSUME NEW p \in Notified!Producers, prod[p].pc # "idle"
          PROVE  state[prod[p].block] = "DMA_OWNED" /\ prod[p].block \notin held \cup Working
      BY <2>0, <3>2 DEF StreamOwners
    <3>3. \A b \in held \cup Working : state[b] = "PROCESSING"
      BY <2>0 DEF StreamOwners
    <3> QED
      BY <3>1, <3>2, <3>3 DEF Notified!OneOwner, Notified!In, Notified!Out, Working
  <2>3. Notified!NoLeak
    BY <2>0 DEF StreamOwners
  <2>4. topic = "handled" => Notified!ReadyIsPending
    BY <2>0 DEF StreamFlag, Notified!ReadyIsPending
  <2> QED BY <2>1, <2>2, <2>3, <2>4
<1>3. [StreamInOrder]_Notified!vars
         => [\A b \in Buffers : state[b] = "READY" /\ state'[b] # "READY" =>
                state' = [c \in Buffers |-> "FREE"] \/
                \A c \in earlier[b] : state[c] # "READY"]_Notified!vars
  BY DEF StreamInOrder
<1> QED
  BY <1>1, <1>2, <1>3, StreamNextStep, PTL DEF ServicesSpec, Notified!FirstCommittedFirst

-----------------------------------------------------------------------------
(* The properties of the runs                                                  *)

\* A line of the log and a frame of the recorder are whole however the writer
\* interrupts the reader; no frame comes twice or out of order, and none is missed
\* without a drop: for every depth, capacity and number of words.
THEOREM CopiesHold == ServicesSpec => []CopiesAreWhole
BY LogHolds, RecorderHolds, PTL DEF CopiesAreWhole

\* The log and the ultra-light profile are queues and a stream gives the block
\* committed first, for every depth, every number of blocks and every modulus of the
\* sequence numbers.
THEOREM QueuesHold == ServicesSpec => ServicesAreQueues
BY LogHolds, UltraHolds, StreamHolds, PTL DEF ServicesAreQueues

\* A block of a stream has one owner and none is lost, and the flag of a drain is set
\* while a block is ready, for every set of blocks.
THEOREM OwnersHold == ServicesSpec => []BlocksHaveOwners
BY StreamHolds, PTL DEF BlocksHaveOwners

\* All services stay well-formed: the table of records never overfills, the counters
\* of the rings stay in step, the calls of a stream hold the blocks their steps need.
THEOREM TypesHold == ServicesSpec => []TypesOK
<1>1. PoolInv => Pool!TypeOK
  BY DEF PoolInv
<1> QED
  BY <1>1, PoolHolds, SettingsHold, SeqHolds, SettingsTyped, LogHolds, UltraHolds,
     RecorderHolds, StreamHolds, PTL
     DEF TypesOK
================================================================================
