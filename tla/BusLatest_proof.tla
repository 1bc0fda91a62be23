--------------------------- MODULE BusLatest_proof ---------------------------
(* Proofs about BusLatest, for every number of slots, frame size, retry       *)
(* bound, set of observers and, on a single-core build, of writing contexts.  *)
EXTENDS BusLatest, TLAPS

\* The variables of TypeOK and their updates are enough for type correctness.
LEMMA ChooseType ==
    ASSUME NEW pub \in Slots \cup {NoSlot}, NEW rd \in Slots \cup {NoSlot}
    PROVE  /\ ChooseWriteSlot(pub, rd) \in Slots
           /\ ChooseWriteSlot(pub, rd) # pub
           /\ ChooseWriteSlot(pub, rd) # rd
<1> DEFINE Free == Slots \ {pub, rd}
           Least(i) == i \in Free /\ \A j \in Free : i <= j
<1>1. \E i \in Free : \A j \in Free : i <= j
  <2>1. 0 \in Slots /\ 1 \in Slots /\ 2 \in Slots
    BY CapacityAssumption DEF Slots
  <2>2. \A j \in Slots : j \in Nat
    BY CapacityAssumption DEF Slots
  <2>3. CASE 0 \in Free
    BY <2>2, <2>3
  <2>4. CASE 0 \notin Free /\ 1 \in Free
    <3>1. \A j \in Free : 1 <= j
      BY <2>2, <2>4
    <3> QED BY <3>1, <2>4
  <2>5. CASE 0 \notin Free /\ 1 \notin Free
    <3>1. 2 \in Free
      BY <2>1, <2>5
    <3>2. \A j \in Free : 2 <= j
      BY <2>2, <2>5
    <3> QED BY <3>1, <3>2
  <2> QED BY <2>3, <2>4, <2>5
<1>2. ChooseWriteSlot(pub, rd) \in Free
  BY <1>1 DEF ChooseWriteSlot
<1> QED BY <1>2

LEMMA SeqType ==
    ASSUME NEW s \in 0 .. (SeqMod - 1)
    PROVE  /\ Inc(s) \in 0 .. (SeqMod - 1)
           /\ Odd(Inc(s)) <=> ~Odd(s)
           /\ Inc(Inc(s)) # s
BY SeqAssumption DEF Inc, Odd

LEMMA InitType == Init => TypeOK
<1> SUFFICES ASSUME Init PROVE TypeOK
  OBVIOUS
<1>1. StorageType
  <2>1. 0 \in Slots /\ 0 \in 0 .. (SeqMod - 1)
    BY CapacityAssumption, SeqAssumption DEF Slots
  <2>2. [x \in Words |-> Blank] \in [Words -> Cell]
    BY DEF Cell
  <2> QED BY <2>1, <2>2 DEF Init, StorageType
<1>2. WriterType
  BY CapacityAssumption DEF Init, WriterType, Slots, NoSlot, Cell, WriterPC
<1>3. ReaderType
  BY RetriesAssumption DEF Init, ReaderType, ReaderPC
<1>4. ObserverType
  BY SeqAssumption, RetriesAssumption DEF Init, ObserverType, ObserverPC, Cell
<1> QED BY <1>1, <1>2, <1>3, <1>4 DEF TypeOK

LEMMA ForgetType ==
    ASSUME WriterType, NEW w \in Writers, Forget(w)
    PROVE  WriterType'
<1>1. 0 \in Slots
  BY CapacityAssumption DEF Slots
<1>2. Blank \in Cell
  BY DEF Cell
<1> QED BY <1>1, <1>2 DEF WriterType, Forget, WriterPC

LEMMA ReturnType ==
    ASSUME ObserverType, NEW o \in Observers, NEW p \in {"idle", "done"},
           Return(o, p), UNCHANGED oleft, obuf' \in [Observers -> [Words -> Cell]]
    PROVE  ObserverType'
<1>1. 0 \in 0 .. (SeqMod - 1) /\ 0 \in 0 .. (MaxRetries - 1)
  BY SeqAssumption, RetriesAssumption
<1> QED BY <1>1 DEF ObserverType, Return, ObserverPC

LEMMA FailType ==
    ASSUME ObserverType, NEW o \in Observers, Fail(o)
    PROVE  ObserverType'
<1>1. obuf' \in [Observers -> [Words -> Cell]]
  BY DEF ObserverType, Fail, NoWords, Cell
<1>2. CASE CountAttempt(oretry[o]) >= MaxRetries
  BY <1>1, <1>2, ReturnType DEF Fail
<1>3. CASE ~(CountAttempt(oretry[o]) >= MaxRetries)
  <2>1. CountAttempt(oretry[o]) \in 0 .. (MaxRetries - 1)
    BY <1>3, RetriesAssumption DEF ObserverType, CountAttempt
  <2>2. /\ opc' = [opc EXCEPT ![o] = "seq1"]
        /\ oretry' = [oretry EXCEPT ![o] = CountAttempt(oretry[o])]
        /\ oseq' = oseq /\ oslot' = oslot /\ oleft' = oleft
    BY <1>3 DEF Fail, ObserverType
  <2>3. opc' \in [Observers -> ObserverPC]
    BY <2>2 DEF ObserverType, ObserverPC
  <2>4. oretry' \in [Observers -> 0 .. (MaxRetries - 1)]
    BY <2>1, <2>2 DEF ObserverType
  <2>5. \A b \in Observers : opc'[b] \in {"copy", "seq2"} => oslot'[b] \in Slots
    BY <2>2 DEF ObserverType
  <2> QED BY <1>1, <2>2, <2>3, <2>4, <2>5 DEF ObserverType
<1> QED BY <1>2, <1>3

LEMMA TypeStep == TypeOK /\ [Next]_vars => TypeOK'
<1> SUFFICES ASSUME TypeOK, [Next]_vars PROVE TypeOK'
  OBVIOUS
<1> USE DEF TypeOK
<1>1. CASE UNCHANGED vars
  BY <1>1
     DEF vars, StorageType, WriterType, ReaderType, ObserverType, storage,
         writerVars, readerVars, observerVars
<1>2. CASE Reset
  <2>1. 0 \in Slots /\ 0 \in 0 .. (SeqMod - 1)
    BY CapacityAssumption, SeqAssumption DEF Slots
  <2> QED BY <1>2, <2>1
             DEF Reset, StorageType, WriterType, ReaderType, ObserverType,
                 writerVars, readerVars, observerVars
<1>3. ASSUME NEW w \in Writers, AcquireWrite(w) PROVE TypeOK'
  BY <1>3
     DEF AcquireWrite, storage, writerVars, readerVars, observerVars, WriterPC,
         StorageType, WriterType, ReaderType, ObserverType
<1>4. ASSUME NEW w \in Writers, LoadPublished(w) PROVE TypeOK'
  BY <1>4
     DEF LoadPublished, storage, writerVars, readerVars, observerVars, WriterPC,
         StorageType, WriterType, ReaderType, ObserverType
<1>5. ASSUME NEW w \in Writers, LoadReadingAndChoose(w) PROVE TypeOK'
  BY <1>5, ChooseType
     DEF LoadReadingAndChoose, storage, writerVars, readerVars, observerVars,
         WriterPC, StorageType, WriterType, ReaderType, ObserverType
<1>6. ASSUME NEW w \in Writers, SetWriteInProgress(w) PROVE TypeOK'
  BY <1>6
     DEF SetWriteInProgress, storage, writerVars, readerVars, observerVars,
         WriterPC, StorageType, WriterType, ReaderType, ObserverType
<1>7. ASSUME NEW w \in Writers, StoreWriting(w) PROVE TypeOK'
  BY <1>7
     DEF StoreWriting, storage, writerVars, readerVars, observerVars, WriterPC,
         Cell, StorageType, WriterType, ReaderType, ObserverType
<1>8. ASSUME NEW w \in Writers, FillWord(w) PROVE TypeOK'
  BY <1>8
     DEF FillWord, storage, writerVars, readerVars, observerVars, WriterPC, Cell,
         StorageType, WriterType, ReaderType, ObserverType
<1>9. ASSUME NEW w \in Writers, Abort(w) PROVE TypeOK'
  BY <1>9, ForgetType
     DEF Abort, storage, writerVars, readerVars, observerVars, WriterPC,
         StorageType, WriterType, ReaderType, ObserverType
<1>10. ASSUME NEW w \in Writers, Commit(w) PROVE TypeOK'
  BY <1>10
     DEF Commit, storage, writerVars, readerVars, observerVars, WriterPC,
         StorageType, WriterType, ReaderType, ObserverType
<1>11. ASSUME NEW w \in Writers, StoreSeqOdd(w) PROVE TypeOK'
  BY <1>11, SeqType
     DEF StoreSeqOdd, storage, writerVars, readerVars, observerVars, WriterPC,
         StorageType, WriterType, ReaderType, ObserverType
<1>12. ASSUME NEW w \in Writers, StorePublished(w) PROVE TypeOK'
  BY <1>12
     DEF StorePublished, storage, writerVars, readerVars, observerVars, WriterPC,
         StorageType, WriterType, ReaderType, ObserverType
<1>13. ASSUME NEW w \in Writers, StoreSeqEven(w) PROVE TypeOK'
  BY <1>13, SeqType
     DEF StoreSeqEven, storage, writerVars, readerVars, observerVars, WriterPC,
         StorageType, WriterType, ReaderType, ObserverType
<1>14. ASSUME NEW w \in Writers, ClearWriteInProgress(w) PROVE TypeOK'
  BY <1>14, ForgetType
     DEF ClearWriteInProgress, storage, writerVars, readerVars, observerVars,
         WriterPC, StorageType, WriterType, ReaderType, ObserverType
<1>15. CASE AcquireRead
  BY <1>15, RetriesAssumption
     DEF AcquireRead, storage, writerVars, readerVars, observerVars, ReaderPC,
         StoreReading, CountAttempt, StorageType, WriterType, ReaderType,
         ObserverType
<1>16. CASE Release
  BY <1>16, RetriesAssumption
     DEF Release, storage, writerVars, readerVars, observerVars, ReaderPC,
         StoreReading, CountAttempt, StorageType, WriterType, ReaderType,
         ObserverType
<1>17. CASE DrainReading
  BY <1>17, RetriesAssumption
     DEF DrainReading, storage, writerVars, readerVars, observerVars, ReaderPC,
         StoreReading, CountAttempt, StorageType, WriterType, ReaderType,
         ObserverType
<1>18. CASE ReaderLoad
  BY <1>18, RetriesAssumption
     DEF ReaderLoad, storage, writerVars, readerVars, observerVars, ReaderPC,
         StoreReading, CountAttempt, StorageType, WriterType, ReaderType,
         ObserverType
<1>19. CASE ReaderMark
  BY <1>19, RetriesAssumption
     DEF ReaderMark, storage, writerVars, readerVars, observerVars, ReaderPC,
         StoreReading, CountAttempt, StorageType, WriterType, ReaderType,
         ObserverType
<1>20. CASE ReaderCheck
  BY <1>20, RetriesAssumption
     DEF ReaderCheck, storage, writerVars, readerVars, observerVars, ReaderPC,
         StoreReading, CountAttempt, StorageType, WriterType, ReaderType,
         ObserverType
<1>21. CASE ReaderRetry
  BY <1>21, RetriesAssumption
     DEF ReaderRetry, storage, writerVars, readerVars, observerVars, ReaderPC,
         StoreReading, CountAttempt, StorageType, WriterType, ReaderType,
         ObserverType
<1>22. CASE ReaderQuit
  BY <1>22, RetriesAssumption
     DEF ReaderQuit, storage, writerVars, readerVars, observerVars, ReaderPC,
         StoreReading, CountAttempt, StorageType, WriterType, ReaderType,
         ObserverType
<1>23. ASSUME NEW o \in Observers, ObserverCall(o) PROVE TypeOK'
  BY <1>23, RetriesAssumption, SeqAssumption
     DEF ObserverCall, storage, writerVars, readerVars, observerVars, ObserverPC,
         NoWords, Cell, StorageType, WriterType, ReaderType, ObserverType
<1>24. ASSUME NEW o \in Observers, ObserverLoadSeq(o) PROVE TypeOK'
  BY <1>24, RetriesAssumption, SeqAssumption
     DEF ObserverLoadSeq, storage, writerVars, readerVars, observerVars,
         ObserverPC, NoWords, Cell, StorageType, WriterType, ReaderType,
         ObserverType
<1>25. ASSUME NEW o \in Observers, ObserverSeqOdd(o) PROVE TypeOK'
  BY <1>25, FailType
     DEF ObserverSeqOdd, storage, writerVars, readerVars, observerVars,
         StorageType, WriterType, ReaderType, ObserverType
<1>26. ASSUME NEW o \in Observers, ObserverLoadPublished(o) PROVE TypeOK'
  BY <1>26, RetriesAssumption, SeqAssumption
     DEF ObserverLoadPublished, storage, writerVars, readerVars, observerVars,
         ObserverPC, NoWords, Cell, StorageType, WriterType, ReaderType,
         ObserverType
<1>27. ASSUME NEW o \in Observers, ObserverNothing(o) PROVE TypeOK'
  BY <1>27, ReturnType
     DEF ObserverNothing, storage, writerVars, readerVars, observerVars,
         StorageType, WriterType, ReaderType, ObserverType
<1>28. ASSUME NEW o \in Observers, ObserverCopyWord(o) PROVE TypeOK'
  BY <1>28, RetriesAssumption, SeqAssumption
     DEF ObserverCopyWord, storage, writerVars, readerVars, observerVars,
         ObserverPC, NoWords, Cell, StorageType, WriterType, ReaderType,
         ObserverType
<1>29. ASSUME NEW o \in Observers, ObserverAccept(o) PROVE TypeOK'
  BY <1>29, ReturnType
     DEF ObserverAccept, storage, writerVars, readerVars, observerVars,
         StorageType, WriterType, ReaderType, ObserverType
<1>30. ASSUME NEW o \in Observers, ObserverReject(o) PROVE TypeOK'
  BY <1>30, FailType
     DEF ObserverReject, storage, writerVars, readerVars, observerVars,
         StorageType, WriterType, ReaderType, ObserverType
<1> QED
  BY <1>1, <1>2, <1>3, <1>4, <1>5, <1>6, <1>7, <1>8, <1>9, <1>10, <1>11, <1>12,
     <1>13, <1>14, <1>15, <1>16, <1>17, <1>18, <1>19, <1>20, <1>21, <1>22, <1>23,
     <1>24, <1>25, <1>26, <1>27, <1>28, <1>29, <1>30
     DEF Next, WriterStep, ReaderStep, ObserverStep

\* While a context works, every other is idle; a context that finds
\* write_in_progress clear, on a CPU no other call occupies, is alone.
LEMMA Alone ==
    ASSUME WriterInv, TypeOK, NEW w \in Writers,
           wpc[w] # "idle" \/ (NotWriting /\ CpuFreeFor(w))
    PROVE  \A v \in Writers \ {w} : wpc[v] = "idle"
<1>1. CASE wpc[w] # "idle"
  BY <1>1 DEF WriterInv
<1>2. CASE NotWriting /\ CpuFreeFor(w)
  <2>1. \A v \in Writers : wpc[v] \in {"idle", "pub", "choose", "claim"}
    BY <1>2 DEF WriterInv, NotWriting, Filling, TypeOK, WriterType, WriterPC
  <2>2. CASE Locked
    BY <1>2, <2>1, <2>2 DEF CpuFreeFor, InCall
  <2>3. CASE ~Locked
    BY <2>3, OneWriterUnlessLocked
  <2> QED BY <2>2, <2>3
<1> QED BY <1>1, <1>2

LEMMA NoSlotNotSlot == NoSlot \notin Slots
BY CapacityAssumption DEF NoSlot, Slots

LEMMA WriterStepInv == CoreInv /\ [Next]_vars => WriterInv'
<1> SUFFICES ASSUME CoreInv, [Next]_vars PROVE WriterInv'
  OBVIOUS
<1> USE DEF CoreInv
<1>1. CASE UNCHANGED <<published, writing, wip, data, writerVars>>
  BY <1>1 DEF WriterInv, writerVars, Filling
<1>2. CASE Reset
  BY <1>2 DEF Reset, Quiescent, WriterInv, Filling, writerVars
<1>3. ASSUME NEW w \in Writers, AcquireWrite(w) PROVE WriterInv'
  <2>1. \A v \in Writers \ {w} : wpc[v] = "idle"
    BY <1>3, Alone DEF AcquireWrite
  <2> QED BY <1>3, <2>1
    DEF AcquireWrite, WriterInv, Filling, storage, TypeOK, StorageType, WriterType,
        ReaderType, ObserverType, WriterPC
<1>4. ASSUME NEW w \in Writers, LoadPublished(w) PROVE WriterInv'
  <2>1. \A v \in Writers \ {w} : wpc[v] = "idle"
    BY <1>4, Alone DEF LoadPublished
  <2> QED BY <1>4, <2>1
    DEF LoadPublished, WriterInv, Filling, storage, TypeOK, StorageType,
        WriterType, ReaderType, ObserverType, WriterPC
<1>5. ASSUME NEW w \in Writers, LoadReadingAndChoose(w) PROVE WriterInv'
  <2>1. \A v \in Writers \ {w} : wpc[v] = "idle"
    BY <1>5, Alone DEF LoadReadingAndChoose
  <2>2. wpub[w] = published /\ published \in Slots \cup {NoSlot}
    BY <1>5 DEF LoadReadingAndChoose, WriterInv, TypeOK, StorageType
  <2>3. reading \in Slots \cup {NoSlot}
    BY DEF TypeOK, StorageType
  <2>4. ChooseWriteSlot(wpub[w], reading) # published
    BY <2>2, <2>3, ChooseType
  <2> QED BY <1>5, <2>1, <2>4
    DEF LoadReadingAndChoose, WriterInv, Filling, storage, TypeOK, StorageType,
        WriterType, ReaderType, ObserverType, WriterPC
<1>6. ASSUME NEW w \in Writers, SetWriteInProgress(w) PROVE WriterInv'
  <2>1. \A v \in Writers \ {w} : wpc[v] = "idle"
    BY <1>6, Alone DEF SetWriteInProgress
  <2> QED BY <1>6, <2>1
    DEF SetWriteInProgress, WriterInv, Filling, storage, TypeOK, StorageType,
        WriterType, ReaderType, ObserverType, WriterPC
<1>7. ASSUME NEW w \in Writers, StoreWriting(w) PROVE WriterInv'
  <2>1. \A v \in Writers \ {w} : wpc[v] = "idle"
    BY <1>7, Alone DEF StoreWriting
  <2> QED BY <1>7, <2>1
    DEF StoreWriting, WriterInv, Filling, Whole, storage, TypeOK, StorageType,
        WriterType, ReaderType, ObserverType, WriterPC
<1>8. ASSUME NEW w \in Writers, FillWord(w) PROVE WriterInv'
  <2>1. \A v \in Writers \ {w} : wpc[v] = "idle"
    BY <1>8, Alone DEF FillWord
  <2> QED BY <1>8, <2>1
    DEF FillWord, WriterInv, Filling, Whole, storage, TypeOK, StorageType,
        WriterType, ReaderType, ObserverType, WriterPC
<1>9. ASSUME NEW w \in Writers, Abort(w) PROVE WriterInv'
  <2>1. \A v \in Writers \ {w} : wpc[v] = "idle"
    BY <1>9, Alone DEF Abort
  <2> QED BY <1>9, <2>1
    DEF Abort, WriterInv, Filling, Whole, Forget, storage, TypeOK, StorageType,
        WriterType, ReaderType, ObserverType, WriterPC
<1>10. ASSUME NEW w \in Writers, Commit(w) PROVE WriterInv'
  <2>1. \A v \in Writers \ {w} : wpc[v] = "idle"
    BY <1>10, Alone DEF Commit
  <2> QED BY <1>10, <2>1
    DEF Commit, WriterInv, Filling, Whole, storage, TypeOK, StorageType,
        WriterType, ReaderType, ObserverType, WriterPC
<1>11. ASSUME NEW w \in Writers, StoreSeqOdd(w) PROVE WriterInv'
  <2>1. \A v \in Writers \ {w} : wpc[v] = "idle"
    BY <1>11, Alone DEF StoreSeqOdd
  <2> QED BY <1>11, <2>1
    DEF StoreSeqOdd, WriterInv, Filling, storage, TypeOK, StorageType, WriterType,
        ReaderType, ObserverType, WriterPC
<1>12. ASSUME NEW w \in Writers, StorePublished(w) PROVE WriterInv'
  <2>1. \A v \in Writers \ {w} : wpc[v] = "idle"
    BY <1>12, Alone DEF StorePublished
  <2> QED BY <1>12, <2>1
    DEF StorePublished, WriterInv, Filling, storage, TypeOK, StorageType,
        WriterType, ReaderType, ObserverType, WriterPC
<1>13. ASSUME NEW w \in Writers, StoreSeqEven(w) PROVE WriterInv'
  <2>1. \A v \in Writers \ {w} : wpc[v] = "idle"
    BY <1>13, Alone DEF StoreSeqEven
  <2> QED BY <1>13, <2>1
    DEF StoreSeqEven, WriterInv, Filling, storage, TypeOK, StorageType, WriterType,
        ReaderType, ObserverType, WriterPC
<1>14. ASSUME NEW w \in Writers, ClearWriteInProgress(w) PROVE WriterInv'
  <2>1. \A v \in Writers \ {w} : wpc[v] = "idle"
    BY <1>14, Alone DEF ClearWriteInProgress
  <2> QED BY <1>14, <2>1
    DEF ClearWriteInProgress, WriterInv, Filling, Forget, storage, TypeOK,
        StorageType, WriterType, ReaderType, ObserverType, WriterPC
<1>15. CASE \/ AcquireRead \/ Release \/ ReaderStep
           \/ \E o \in Observers : ObserverCall(o) \/ ObserverStep(o)
  <2>1. UNCHANGED <<published, writing, wip, data, writerVars>>
    BY <1>15
       DEF storage, ReaderStep, ObserverStep, AcquireRead, Release, DrainReading,
           ReaderLoad, ReaderMark, ReaderCheck, ReaderRetry, ReaderQuit,
           ObserverCall, ObserverLoadSeq, ObserverSeqOdd, ObserverLoadPublished,
           ObserverNothing, ObserverCopyWord, ObserverAccept, ObserverReject
  <2> QED BY <1>1, <2>1
<1>16. CASE UNCHANGED vars
  BY <1>16, <1>1 DEF vars, storage
<1> QED
  BY <1>2, <1>3, <1>4, <1>5, <1>6, <1>7, <1>8, <1>9, <1>10, <1>11, <1>12, <1>13,
     <1>14, <1>15, <1>16
     DEF Next, WriterStep

\* The published slot is whole: it was filled before it was published, and no
\* context stores into it afterwards.
LEMMA PublishedStepInv == CoreInv /\ [Next]_vars => PublishedInv'
<1> SUFFICES ASSUME CoreInv, [Next]_vars PROVE PublishedInv'
  OBVIOUS
<1> USE DEF CoreInv
<1>1. CASE UNCHANGED <<published, data>>
  BY <1>1 DEF PublishedInv, Whole
<1>2. CASE Reset
  BY <1>2 DEF Reset, PublishedInv
<1>3. ASSUME NEW w \in Writers, FillWord(w) PROVE PublishedInv'
  <2>1. wslot[w] # published /\ wslot[w] \in Slots
    BY <1>3 DEF FillWord, WriterInv, Filling, TypeOK, WriterType
  <2>2. published' = published
    BY <1>3 DEF FillWord
  <2>3. published # NoSlot => data'[published] = data[published]
    BY <1>3, <2>1 DEF FillWord, TypeOK, StorageType
  <2> QED BY <2>2, <2>3 DEF PublishedInv, Whole
<1>4. ASSUME NEW w \in Writers, StorePublished(w) PROVE PublishedInv'
  BY <1>4 DEF StorePublished, WriterInv, PublishedInv, Whole
<1>5. CASE \/ AcquireRead \/ Release \/ ReaderStep
           \/ \E o \in Observers : ObserverCall(o) \/ ObserverStep(o)
           \/ \E w \in Writers : WriterStep(w) /\ ~FillWord(w) /\ ~StorePublished(w)
           \/ UNCHANGED vars
  <2>1. UNCHANGED <<published, data>>
    BY <1>5
       DEF vars, storage, ReaderStep, ObserverStep, WriterStep, AcquireWrite,
           LoadPublished, LoadReadingAndChoose, SetWriteInProgress, StoreWriting,
           FillWord, Abort, Commit, StoreSeqOdd, StorePublished, StoreSeqEven,
           ClearWriteInProgress, AcquireRead, Release, DrainReading, ReaderLoad,
           ReaderMark, ReaderCheck, ReaderRetry, ReaderQuit, ObserverCall,
           ObserverLoadSeq, ObserverSeqOdd, ObserverLoadPublished, ObserverNothing,
           ObserverCopyWord, ObserverAccept, ObserverReject
  <2> QED BY <1>1, <2>1
<1> QED BY <1>2, <1>3, <1>4, <1>5 DEF Next

\* The mark is set before the check: a writer that chooses its slot later avoids
\* it, and one that chose it earlier still keeps it from being published.
LEMMA ReaderStepInv == ~StoreBuffer /\ Inv /\ [Next]_vars => ReaderInv'
<1> SUFFICES ASSUME ~StoreBuffer, Inv, [Next]_vars PROVE ReaderInv'
  OBVIOUS
<1> USE DEF Inv, CoreInv
<1>1. CASE UNCHANGED vars
  BY <1>1 DEF vars, storage, readerVars, writerVars, ReaderInv, Whole, Filling
<1>2. CASE Reset
  BY <1>2 DEF Reset, Quiescent, readerVars, ReaderInv
<1>3. ASSUME NEW w \in Writers, LoadReadingAndChoose(w) PROVE ReaderInv'
  <2>1. reading \in Slots \cup {NoSlot} /\ wpub[w] \in Slots \cup {NoSlot}
    BY DEF TypeOK, StorageType, WriterType
  <2>2. wslot'[w] # reading
    BY <1>3, <2>1, ChooseType DEF LoadReadingAndChoose, TypeOK, WriterType
  <2> QED BY <1>3, <2>2
      DEF LoadReadingAndChoose, ReaderInv, storage, readerVars, Whole, Filling,
          TypeOK, WriterType
<1>4. ASSUME NEW w \in Writers, FillWord(w) PROVE ReaderInv'
  <2>1. rpc = "lent" => data'[rslot] = data[rslot]
    BY <1>4 DEF FillWord, ReaderInv, Filling, TypeOK, StorageType, WriterType
  <2> QED BY <1>4, <2>1 DEF FillWord, ReaderInv, readerVars, Whole, Filling
<1>5. ASSUME NEW w \in Writers, Commit(w) PROVE ReaderInv'
  BY <1>5 DEF Commit, ReaderInv, WriterInv, storage, readerVars, Whole, Filling,
              TypeOK, WriterType
<1>6. ASSUME NEW w \in Writers,
             \/ AcquireWrite(w) \/ LoadPublished(w) \/ SetWriteInProgress(w)
             \/ StoreWriting(w) \/ StoreSeqOdd(w) \/ StorePublished(w)
             \/ StoreSeqEven(w)
      PROVE ReaderInv'
  <2>1. UNCHANGED <<reading, data, wslot, readerVars>>
    BY <1>6 DEF AcquireWrite, LoadPublished, SetWriteInProgress, StoreWriting,
                StoreSeqOdd, StorePublished, StoreSeqEven, storage
  <2>2. \A v \in Writers : wpc'[v] \in Filling => wpc[v] \in Filling
    BY <1>6 DEF AcquireWrite, LoadPublished, SetWriteInProgress, StoreWriting,
                StoreSeqOdd, StorePublished, StoreSeqEven, Filling, TypeOK, WriterType
  <2> QED BY <2>1, <2>2 DEF ReaderInv, readerVars, Whole
<1>7. ASSUME NEW w \in Writers, Abort(w) \/ ClearWriteInProgress(w)
      PROVE ReaderInv'
  <2>1. UNCHANGED <<reading, data, readerVars>>
    BY <1>7 DEF Abort, ClearWriteInProgress
  <2>2. \A v \in Writers : wpc'[v] \in Filling =>
                             wpc[v] \in Filling /\ wslot'[v] = wslot[v]
    BY <1>7 DEF Abort, ClearWriteInProgress, Forget, Filling, TypeOK, WriterType
  <2> QED BY <2>1, <2>2 DEF ReaderInv, readerVars, Whole
<1>8. CASE ReaderCheck
  BY <1>8, NoSlotNotSlot
     DEF ReaderCheck, StillPublished, ReaderInv, WriterInv, PublishedInv, storage,
         writerVars, Whole
<1>9. CASE ReaderLoad
  BY <1>9 DEF ReaderLoad, ReaderInv, storage, writerVars, TypeOK, StorageType
<1>10. CASE AcquireRead \/ Release \/ ReaderMark \/ ReaderRetry \/ ReaderQuit
  BY <1>10 DEF AcquireRead, Release, ReaderMark, ReaderRetry, ReaderQuit,
               StoreReading, ReaderInv, storage, writerVars
<1>11. CASE DrainReading
  BY <1>11 DEF DrainReading, ReaderInv
<1>12. CASE \E o \in Observers : ObserverCall(o) \/ ObserverStep(o)
  <2>1. UNCHANGED <<storage, writerVars, readerVars>>
    BY <1>12
       DEF ObserverStep, ObserverCall, ObserverLoadSeq, ObserverSeqOdd,
           ObserverLoadPublished, ObserverNothing, ObserverCopyWord,
           ObserverAccept, ObserverReject
  <2> QED BY <2>1 DEF storage, readerVars, writerVars, ReaderInv, Whole
<1> QED BY <1>1, <1>2, <1>3, <1>4, <1>5, <1>6, <1>7, <1>8, <1>9, <1>10, <1>11, <1>12
        DEF Next, WriterStep, ReaderStep

\* latest_seq is odd exactly while the slot index changes, and no commit can end
\* on the value a running copy has read.
LEMMA SeqStepInv == CoreInv /\ [Next]_vars => SeqInv'
<1> SUFFICES ASSUME CoreInv, [Next]_vars PROVE SeqInv'
  OBVIOUS
<1> USE DEF CoreInv
<1>0. seq \in 0 .. (SeqMod - 1)
  BY DEF TypeOK, StorageType
<1>1. CASE UNCHANGED <<seq, wpc, opc, oseq>>
  BY <1>1 DEF SeqInv, MidCopy
<1>2. CASE Reset
  BY <1>2 DEF Reset, Quiescent, SeqInv, MidCopy, Odd, writerVars, observerVars
<1>3. ASSUME NEW w \in Writers,
             \/ AcquireWrite(w) \/ LoadPublished(w) \/ LoadReadingAndChoose(w)
             \/ SetWriteInProgress(w) \/ StoreWriting(w) \/ FillWord(w) \/ Abort(w)
             \/ ClearWriteInProgress(w)
      PROVE SeqInv'
  <2>1. UNCHANGED <<seq, opc, oseq>>
    BY <1>3 DEF AcquireWrite, LoadPublished, LoadReadingAndChoose, storage,
                SetWriteInProgress, StoreWriting, FillWord, Abort,
                ClearWriteInProgress, observerVars
  <2>2. \A v \in Writers : \A s \in {"odd", "publish", "even"} :
            wpc'[v] = s <=> wpc[v] = s
    BY <1>3 DEF AcquireWrite, LoadPublished, LoadReadingAndChoose,
                SetWriteInProgress, StoreWriting, FillWord, Abort, Forget,
                ClearWriteInProgress, TypeOK, WriterType
  <2> QED BY <2>1, <2>2 DEF SeqInv, MidCopy
<1>4. ASSUME NEW w \in Writers, Commit(w) PROVE SeqInv'
  BY <1>4
     DEF Commit, NoSeqLap, SeqInv, MidCopy, storage, observerVars, TypeOK,
         WriterType
<1>5. ASSUME NEW w \in Writers, StoreSeqOdd(w) PROVE SeqInv'
  <2>1. \A v \in Writers \ {w} : wpc[v] = "idle"
    BY <1>5, Alone DEF StoreSeqOdd
  <2>2. ~Odd(seq) /\ Odd(Inc(seq))
    BY <1>0, <1>5, <2>1, SeqType DEF StoreSeqOdd, SeqInv
  <2>3. seq' = Inc(seq) /\ wpc' = [wpc EXCEPT ![w] = "publish"]
    BY <1>5 DEF StoreSeqOdd
  <2>4. UNCHANGED <<opc, oseq>>
    BY <1>5 DEF StoreSeqOdd, observerVars
  <2>5. wpc[w] = "odd"
    BY <1>5 DEF StoreSeqOdd
  <2> QED BY <2>1, <2>2, <2>3, <2>4, <2>5 DEF SeqInv, MidCopy, TypeOK, WriterType
<1>6. ASSUME NEW w \in Writers, StorePublished(w) PROVE SeqInv'
  BY <1>6 DEF StorePublished, SeqInv, MidCopy, observerVars, TypeOK, WriterType
<1>7. ASSUME NEW w \in Writers, StoreSeqEven(w) PROVE SeqInv'
  <2>1. \A v \in Writers \ {w} : wpc[v] = "idle"
    BY <1>7, Alone DEF StoreSeqEven
  <2>2. ~Odd(Inc(seq))
    BY <1>0, <1>7, SeqType DEF StoreSeqEven, SeqInv
  <2>3. seq' = Inc(seq) /\ wpc' = [wpc EXCEPT ![w] = "clear"]
    BY <1>7 DEF StoreSeqEven
  <2>4. UNCHANGED <<opc, oseq>>
    BY <1>7 DEF StoreSeqEven, observerVars
  <2> QED BY <2>1, <2>2, <2>3, <2>4 DEF SeqInv, MidCopy, TypeOK, WriterType
<1>8. CASE AcquireRead \/ Release \/ ReaderStep \/ UNCHANGED vars
  <2>1. UNCHANGED <<seq, wpc, opc, oseq>>
    BY <1>8
       DEF vars, storage, writerVars, observerVars, ReaderStep, AcquireRead,
           Release, DrainReading, ReaderLoad, ReaderMark, ReaderCheck, ReaderRetry,
           ReaderQuit
  <2> QED BY <1>1, <2>1
<1>9. ASSUME NEW o \in Observers, ObserverLoadSeq(o) PROVE SeqInv'
  <2>1. ~Odd(seq) /\ Inc(Inc(seq)) # seq
    BY <1>0, <1>9, SeqType DEF ObserverLoadSeq
  <2>2. \A w \in Writers : wpc[w] \notin {"publish", "even"}
    BY <2>1 DEF SeqInv
  <2> QED BY <1>9, <2>1, <2>2
      DEF ObserverLoadSeq, SeqInv, MidCopy, storage, writerVars, TypeOK,
          ObserverType
<1>10. ASSUME NEW o \in Observers,
              \/ ObserverCall(o) \/ ObserverSeqOdd(o) \/ ObserverLoadPublished(o)
              \/ ObserverNothing(o) \/ ObserverCopyWord(o) \/ ObserverAccept(o)
              \/ ObserverReject(o)
       PROVE SeqInv'
  <2>1. UNCHANGED <<seq, wpc>>
    BY <1>10 DEF ObserverCall, ObserverSeqOdd, ObserverLoadPublished, storage,
                 ObserverNothing, ObserverCopyWord, ObserverAccept, ObserverReject,
                 writerVars
  <2>2. \A b \in Observers : MidCopy(b)' => MidCopy(b) /\ oseq'[b] = oseq[b]
    BY <1>10 DEF ObserverCall, ObserverSeqOdd, ObserverLoadPublished, Fail, Return,
                 ObserverNothing, ObserverCopyWord, ObserverAccept, ObserverReject,
                 MidCopy, TypeOK, ObserverType
  <2> QED BY <2>1, <2>2 DEF SeqInv
<1> QED BY <1>2, <1>3, <1>4, <1>5, <1>6, <1>7, <1>8, <1>9, <1>10
        DEF Next, WriterStep, ObserverStep

\* A copy whose sequence number still stands is a copy of the published slot.
LEMMA CopyStepInv == CoreInv /\ [Next]_vars => CopyInv'
<1> SUFFICES ASSUME CoreInv, [Next]_vars PROVE CopyInv'
  OBVIOUS
<1> USE DEF CoreInv
<1>0. seq \in 0 .. (SeqMod - 1)
  BY DEF TypeOK, StorageType
<1>1. CASE UNCHANGED <<seq, published, data, observerVars>>
  BY <1>1 DEF CopyInv, Whole, observerVars
<1>2. CASE Reset
  BY <1>2 DEF Reset, Quiescent, CopyInv, Whole, observerVars
<1>3. ASSUME NEW w \in Writers, FillWord(w) PROVE CopyInv'
  <2>1. wslot[w] # published
    BY <1>3 DEF FillWord, WriterInv, Filling
  <2>2. published \in Slots => data'[published] = data[published]
    BY <1>3, <2>1 DEF FillWord, TypeOK, StorageType, WriterType
  <2>3. UNCHANGED <<seq, published, observerVars>>
    BY <1>3 DEF FillWord
  <2> QED BY <2>2, <2>3 DEF CopyInv, Whole, observerVars, TypeOK, ObserverType
<1>4. ASSUME NEW w \in Writers, StorePublished(w) PROVE CopyInv'
  <2>1. Odd(seq)
    BY <1>4 DEF StorePublished, SeqInv
  <2>2. \A o \in Observers : MidCopy(o) => seq # oseq[o]
    BY <2>1 DEF SeqInv
  <2> QED BY <1>4, <2>2 DEF StorePublished, CopyInv, MidCopy, Whole, observerVars
<1>5. ASSUME NEW w \in Writers, StoreSeqOdd(w) PROVE CopyInv'
  <2>1. ~Odd(seq)
    BY <1>5, Alone DEF StoreSeqOdd, SeqInv
  <2>2. \A o \in Observers : MidCopy(o) => seq' # oseq[o]
    BY <1>0, <1>5, <2>1, SeqType DEF StoreSeqOdd, SeqInv
  <2> QED BY <1>5, <2>2 DEF StoreSeqOdd, CopyInv, MidCopy, Whole, observerVars
<1>6. ASSUME NEW w \in Writers, StoreSeqEven(w) PROVE CopyInv'
  <2>1. \A o \in Observers : MidCopy(o) => seq' # oseq[o]
    BY <1>6 DEF StoreSeqEven, SeqInv
  <2> QED BY <1>6, <2>1 DEF StoreSeqEven, CopyInv, MidCopy, Whole, observerVars
<1>7. ASSUME NEW w \in Writers,
             \/ AcquireWrite(w) \/ LoadPublished(w) \/ LoadReadingAndChoose(w)
             \/ SetWriteInProgress(w) \/ StoreWriting(w) \/ Abort(w)
             \/ Commit(w) \/ ClearWriteInProgress(w)
      PROVE CopyInv'
  <2>1. UNCHANGED <<seq, published, data, observerVars>>
    BY <1>7 DEF AcquireWrite, LoadPublished, LoadReadingAndChoose, storage,
                SetWriteInProgress, StoreWriting, Abort, Commit, ClearWriteInProgress
  <2> QED BY <1>1, <2>1
<1>8. CASE AcquireRead \/ Release \/ ReaderStep \/ UNCHANGED vars
  <2>1. UNCHANGED <<seq, published, data, observerVars>>
    BY <1>8
       DEF vars, storage, ReaderStep, AcquireRead, Release, DrainReading,
           ReaderLoad, ReaderMark, ReaderCheck, ReaderRetry, ReaderQuit
  <2> QED BY <1>1, <2>1
<1>9. ASSUME NEW o \in Observers, ObserverLoadPublished(o) PROVE CopyInv'
  BY <1>9 DEF ObserverLoadPublished, CopyInv, Whole, storage, TypeOK, ObserverType
<1>10. ASSUME NEW o \in Observers, ObserverCopyWord(o) PROVE CopyInv'
  <2>1. PICK x \in oleft[o] :
            /\ obuf' = [obuf EXCEPT ![o][x] = data[oslot[o]][x]]
            /\ oleft' = [oleft EXCEPT ![o] = @ \ {x}]
            /\ opc' = [opc EXCEPT ![o] = IF oleft[o] = {x} THEN "seq2" ELSE "copy"]
    BY <1>10 DEF ObserverCopyWord
  <2>2. UNCHANGED <<seq, published, data, oseq, oslot>> /\ opc[o] = "copy"
    BY <1>10 DEF ObserverCopyWord, storage
  <2>3. x \in Words /\ obuf[o] \in [Words -> Cell]
    BY <2>1 DEF TypeOK, ObserverType
  <2>4. \A b \in Observers \ {o} :
            obuf'[b] = obuf[b] /\ oleft'[b] = oleft[b] /\ opc'[b] = opc[b]
    BY <2>1 DEF TypeOK, ObserverType
  <2>5. \A y \in Words :
            obuf'[o][y] = IF y = x THEN data[oslot[o]][x] ELSE obuf[o][y]
    BY <2>1, <2>3 DEF TypeOK, ObserverType
  <2>6. /\ oleft'[o] = oleft[o] \ {x}
        /\ opc'[o] = IF oleft[o] = {x} THEN "seq2" ELSE "copy"
    BY <2>1 DEF TypeOK, ObserverType
  <2> QED BY <2>2, <2>4, <2>5, <2>6 DEF CopyInv, Whole
<1>11. ASSUME NEW o \in Observers, ObserverAccept(o) PROVE CopyInv'
  <2>1. /\ opc[o] = "seq2" /\ oleft[o] = {} /\ oslot[o] = published
        /\ \A x \in Words : obuf[o][x] = data[published][x]
    BY <1>11 DEF ObserverAccept, SeqUnchanged, CopyInv
  <2>2. published \in Slots /\ data[published] \in [Words -> Cell]
    BY <2>1 DEF TypeOK, StorageType, ObserverType
  <2>3. obuf[o] = data[published]
    BY <2>1, <2>2 DEF TypeOK, ObserverType
  <2>4. Whole(obuf[o])
    BY <2>2, <2>3, NoSlotNotSlot DEF PublishedInv
  <2> QED BY <1>11, <2>4
      DEF ObserverAccept, Return, CopyInv, Whole, storage, TypeOK, ObserverType
<1>12. ASSUME NEW o \in Observers,
              \/ ObserverCall(o) \/ ObserverLoadSeq(o) \/ ObserverSeqOdd(o)
              \/ ObserverNothing(o) \/ ObserverReject(o)
       PROVE CopyInv'
  <2>1. UNCHANGED storage
    BY <1>12 DEF ObserverCall, ObserverLoadSeq, ObserverSeqOdd, ObserverNothing,
                 ObserverReject
  <2>2. opc'[o] \notin {"copy", "seq2", "done"}
    BY <1>12 DEF ObserverCall, ObserverLoadSeq, ObserverSeqOdd, ObserverNothing,
                 ObserverReject, Fail, Return, TypeOK, ObserverType
  <2>3. \A b \in Observers \ {o} :
            /\ opc'[b] = opc[b] /\ oseq'[b] = oseq[b] /\ oslot'[b] = oslot[b]
            /\ oleft'[b] = oleft[b] /\ obuf'[b] = obuf[b]
    BY <1>12 DEF ObserverCall, ObserverLoadSeq, ObserverSeqOdd, ObserverNothing,
                 ObserverReject, Fail, Return, TypeOK, ObserverType
  <2> QED BY <2>1, <2>2, <2>3 DEF CopyInv, Whole, storage
<1> QED BY <1>2, <1>3, <1>4, <1>5, <1>6, <1>7, <1>8, <1>9, <1>10, <1>11, <1>12
        DEF Next, WriterStep, ObserverStep

LEMMA InitInv == Init => Inv
<1> SUFFICES ASSUME Init PROVE Inv
  OBVIOUS
<1>1. WriterInv
  BY DEF Init, WriterInv, Filling
<1>2. PublishedInv /\ ReaderInv
  BY DEF Init, PublishedInv, ReaderInv
<1>3. SeqInv /\ CopyInv
  BY DEF Init, SeqInv, CopyInv, MidCopy, Odd
<1> QED BY <1>1, <1>2, <1>3, InitType DEF Inv, CoreInv

\* The part of the invariant that does not depend on the reader's mark.
THEOREM CoreInvHolds == Spec => []CoreInv
<1>1. Init => CoreInv
  BY InitInv DEF Inv
<1>2. CoreInv /\ [Next]_vars => CoreInv'
  BY TypeStep, WriterStepInv, PublishedStepInv, SeqStepInv, CopyStepInv DEF CoreInv
<1> QED BY <1>1, <1>2, PTL DEF Spec

\* The whole invariant holds in every behaviour of a build whose stores are not
\* delayed: sequentially consistent accesses to latest_reading.
THEOREM InvHolds == ASSUME ~StoreBuffer PROVE Spec => []Inv
<1>1. Inv /\ [Next]_vars => Inv'
  <2> SUFFICES ASSUME Inv, [Next]_vars PROVE Inv'
    OBVIOUS
  <2>1. CoreInv'
    BY TypeStep, WriterStepInv, PublishedStepInv, SeqStepInv, CopyStepInv
       DEF Inv, CoreInv
  <2>2. ReaderInv'
    BY ReaderStepInv
  <2> QED BY <2>1, <2>2 DEF Inv
<1> QED BY InitInv, <1>1, PTL DEF Spec

\* Type correctness, delayed stores or not: the fields of bm_bus_storage_t and the
\* locals of bm_bus_acquire_write, _acquire_read and _latest_read keep their range.
THEOREM TypeCorrect == Spec => []TypeOK
BY InitType, TypeStep, PTL DEF Spec

\* No loan of bm_bus_acquire_read is torn, for any number of slots from three on,
\* where the reader's mark is not delayed.
THEOREM LoanNeverTorn == ASSUME ~StoreBuffer PROVE Spec => []NoTornLoan
<1>1. Inv => NoTornLoan
  BY DEF Inv, ReaderInv, NoTornLoan, Storing, Filling
<1> QED BY InvHolds, <1>1, PTL

\* No successful bm_bus_latest_read returns a torn frame, for any number of
\* observers and any frame size, with the reader's mark delayed or not.
THEOREM CopyNeverTorn == Spec => []NoTornCopy
<1>1. CoreInv => NoTornCopy
  BY DEF CoreInv, CopyInv, NoTornCopy
<1> QED BY CoreInvHolds, <1>1, PTL

\* On a single-core build any number of contexts may write: acquire_write lets one
\* of them in at a time, and never hands out the published slot.
THEOREM OneWriterAtATime == Spec => []OneWriter
<1>1. CoreInv => OneWriter
  BY DEF CoreInv, WriterInv, OneWriter, Storing, Filling
<1> QED BY CoreInvHolds, <1>1, PTL

\* What the register shows of a state: the three values the refinement maps it to.
Latest == IF published = NoSlot THEN None ELSE data[published]
Loan == IF rpc = "lent" THEN data[rslot] ELSE None
Copies == [o \in Observers |-> IF opc[o] = "done" THEN obuf[o] ELSE None]

LEMMA WholeIsFrame == \A c : Whole(c) => c \in WholeFrames
BY DEF Whole, WholeFrames

\* Every step of the bus is a step of the register or leaves it alone: publishing
\* is the store of latest_published, borrowing the check that succeeds, copying
\* the second load of latest_seq that finds it unchanged.
LEMMA RegisterStep ==
    ASSUME Inv, Inv', [Next]_vars
    PROVE  [Register!Next]_(Register!vars)
<1> USE DEF Inv, CoreInv
<1>1. ASSUME UNCHANGED <<Latest, Loan, Copies>> PROVE UNCHANGED Register!vars
  BY <1>1 DEF Register!vars, Latest, Loan, Copies
<1>2. CASE UNCHANGED vars
  <2>1. UNCHANGED <<Latest, Loan, Copies>>
    BY <1>2 DEF vars, storage, readerVars, observerVars, Latest, Loan, Copies
  <2> QED BY <1>1, <2>1
<1>3. CASE Reset
  <2>1. Latest' = None /\ Loan = None /\ UNCHANGED <<Loan, Copies>>
    BY <1>3 DEF Reset, Quiescent, readerVars, observerVars, Latest, Loan, Copies
  <2> QED BY <2>1 DEF Register!Next, Register!Clear, Latest, Loan, Copies
<1>4. ASSUME NEW w \in Writers, FillWord(w) PROVE UNCHANGED Register!vars
  <2>1. wslot[w] # published /\ (rpc = "lent" => wslot[w] # rslot)
    BY <1>4 DEF FillWord, WriterInv, ReaderInv, Filling
  <2>2. UNCHANGED <<published, readerVars, observerVars>>
    BY <1>4 DEF FillWord
  <2>3. published # NoSlot => data'[published] = data[published]
    BY <1>4, <2>1 DEF FillWord, TypeOK, StorageType, WriterType
  <2>4. rpc = "lent" => data'[rslot] = data[rslot]
    BY <1>4, <2>1 DEF FillWord, ReaderInv, TypeOK, StorageType, WriterType
  <2>5. UNCHANGED <<Latest, Loan, Copies>>
    BY <2>2, <2>3, <2>4 DEF readerVars, observerVars, Latest, Loan, Copies
  <2> QED BY <1>1, <2>5
<1>5. ASSUME NEW w \in Writers, StorePublished(w) PROVE Register!Next
  <2>1. published' = wslot[w] /\ wslot[w] \in Slots /\ data' = data
    BY <1>5 DEF StorePublished, TypeOK, WriterType
  <2>2. Latest' = data[wslot[w]]
    BY <2>1, NoSlotNotSlot DEF Latest
  <2>3. Latest' \in WholeFrames
    BY <1>5, <2>2, WholeIsFrame DEF StorePublished, WriterInv
  <2>4. UNCHANGED <<Loan, Copies>>
    BY <1>5 DEF StorePublished, readerVars, observerVars, Loan, Copies
  <2> QED BY <2>3, <2>4 DEF Register!Next, Register!Publish, Latest, Loan, Copies
<1>6. ASSUME NEW w \in Writers,
             WriterStep(w) /\ ~FillWord(w) /\ ~StorePublished(w)
      PROVE UNCHANGED Register!vars
  <2>1. UNCHANGED <<published, data, readerVars, observerVars>>
    BY <1>6 DEF WriterStep, AcquireWrite, LoadPublished, LoadReadingAndChoose,
                SetWriteInProgress, StoreWriting, Abort, Commit, StoreSeqOdd,
                StoreSeqEven, ClearWriteInProgress, storage
  <2>2. UNCHANGED <<Latest, Loan, Copies>>
    BY <2>1 DEF readerVars, observerVars, Latest, Loan, Copies
  <2> QED BY <1>1, <2>2
<1>7. CASE ReaderCheck
  <2>1. Latest # None /\ Loan' = Latest /\ UNCHANGED <<Latest, Copies>>
    <3>1. published = rslot /\ rslot \in Slots /\ rpc' = "lent"
      BY <1>7 DEF ReaderCheck, StillPublished, ReaderInv
    <3>2. UNCHANGED <<published, data, rslot, observerVars>>
      BY <1>7 DEF ReaderCheck, storage
    <3>3. Latest = data[published] /\ Latest \in WholeFrames
      BY <3>1, NoSlotNotSlot, WholeIsFrame DEF PublishedInv, Latest
    <3>4. Latest # None
      BY <3>3, NoneIsNoFrame DEF WholeFrames
    <3> QED BY <3>1, <3>2, <3>3, <3>4 DEF Latest, Loan, Copies, observerVars
  <2> QED BY <2>1 DEF Register!Next, Register!Borrow, Latest, Loan, Copies
<1>8. CASE AcquireRead \/ Release
  <2>1. Loan' = None /\ UNCHANGED <<Latest, Copies>>
    BY <1>8 DEF AcquireRead, Release, storage, observerVars, Latest, Loan, Copies
  <2> QED BY <2>1 DEF Register!Next, Register!Return, Latest, Loan, Copies
<1>9. CASE ReaderStep /\ ~ReaderCheck
  <2>1. UNCHANGED <<published, data, observerVars>>
    BY <1>9 DEF ReaderStep, DrainReading, ReaderLoad, ReaderMark, ReaderRetry,
                ReaderQuit, storage
  <2>2. UNCHANGED Loan
    BY <1>9 DEF ReaderStep, DrainReading, ReaderLoad, ReaderMark, ReaderRetry,
                ReaderQuit, ReaderInv, Loan
  <2> QED BY <1>1, <2>1, <2>2 DEF observerVars, Latest, Copies
<1>10. ASSUME NEW o \in Observers, ObserverCall(o) PROVE Register!Next
  <2>1. Copies' = [Copies EXCEPT ![o] = None] /\ UNCHANGED <<Latest, Loan>>
    BY <1>10
       DEF ObserverCall, storage, readerVars, Latest, Loan, Copies, TypeOK,
           ObserverType
  <2> QED BY <2>1 DEF Register!Next, Register!Ask, Latest, Loan, Copies
<1>11. ASSUME NEW o \in Observers, ObserverAccept(o) PROVE Register!Next
  <2>1. /\ oleft[o] = {} /\ oslot[o] = published /\ published \in Slots
        /\ \A x \in Words : obuf[o][x] = data[published][x]
    BY <1>11 DEF ObserverAccept, SeqUnchanged, CopyInv, TypeOK, ObserverType
  <2>2. obuf[o] = data[published]
    BY <2>1 DEF TypeOK, StorageType, ObserverType
  <2>3. Latest = obuf[o] /\ Latest \in WholeFrames
    BY <2>1, <2>2, NoSlotNotSlot, WholeIsFrame DEF PublishedInv, Latest
  <2>4. Latest # None
    BY <2>3, NoneIsNoFrame DEF WholeFrames
  <2>5. Copies' = [Copies EXCEPT ![o] = Latest]
    BY <1>11, <2>3 DEF ObserverAccept, Return, Copies, TypeOK, ObserverType
  <2>6. UNCHANGED <<Latest, Loan>>
    BY <1>11 DEF ObserverAccept, storage, readerVars, Latest, Loan
  <2> QED BY <2>4, <2>5, <2>6
             DEF Register!Next, Register!CopyOut, Latest, Loan, Copies
<1>12. ASSUME NEW o \in Observers, ObserverStep(o) /\ ~ObserverAccept(o)
       PROVE UNCHANGED Register!vars
  <2>1. UNCHANGED <<storage, readerVars>>
    BY <1>12 DEF ObserverStep, ObserverLoadSeq, ObserverSeqOdd, ObserverReject,
                 ObserverLoadPublished, ObserverNothing, ObserverCopyWord
  <2>2. opc[o] # "done" /\ opc'[o] # "done"
    BY <1>12 DEF ObserverStep, ObserverLoadSeq, ObserverSeqOdd, ObserverReject,
                 ObserverLoadPublished, ObserverNothing, ObserverCopyWord, Fail,
                 Return, TypeOK, ObserverType
  <2>3. \A b \in Observers \ {o} : opc'[b] = opc[b] /\ obuf'[b] = obuf[b]
    BY <1>12 DEF ObserverStep, ObserverLoadSeq, ObserverSeqOdd, ObserverReject,
                 ObserverLoadPublished, ObserverNothing, ObserverCopyWord, Fail,
                 Return, TypeOK, ObserverType
  <2>4. UNCHANGED Copies
    BY <2>2, <2>3 DEF Copies
  <2>5. UNCHANGED <<Latest, Loan>>
    BY <2>1 DEF storage, readerVars, Latest, Loan
  <2> QED BY <1>1, <2>4, <2>5
<1> QED BY <1>2, <1>3, <1>4, <1>5, <1>6, <1>7, <1>8, <1>9, <1>10, <1>11, <1>12
        DEF Next

\* A bus in LATEST mode implements the register, for every value of the constants
\* on a build whose stores are not delayed.
THEOREM ImplementsRegister == ASSUME ~StoreBuffer PROVE Spec => RegisterSpec
<1>1. Init => Register!Init
  BY DEF Init, Register!Init
<1>2. Inv /\ Inv' /\ [Next]_vars => [Register!Next]_(Register!vars)
  BY RegisterStep
<1> QED BY <1>1, <1>2, InvHolds, PTL DEF Spec, RegisterSpec, Register!Spec
=============================================================================
