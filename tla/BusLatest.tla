------------------------------ MODULE BusLatest ------------------------------
(* bm_bus in LATEST mode (Source/core/bm_bus.c), one shared access per step.  *)
(*                                                                            *)
(* A writer fills a slot that is neither published nor marked as being read   *)
(* and publishes its index; one reader borrows the published slot in place,   *)
(* marking it in latest_reading; observers copy the published slot out under  *)
(* the sequence lock latest_seq.  On a multicore build BUS_LOCK is empty, so  *)
(* every load and store of the three parties interleaves; on a single-core    *)
(* build (Locked) the writer's calls run with interrupts masked.              *)
EXTENDS Naturals, FiniteSets, TLC

CONSTANTS
    Writers,      \* the contexts of the owner CPU that write (main loop, ISRs)
    Observers,    \* the callers of bm_bus_latest_read / bm_bus_latest_read_seq
    Capacity,     \* number of slots
    Words,        \* the words of a frame, written and copied one at a time
    Frames,       \* the values a frame carries in all its words
    Blank,        \* what the words of a slot hold before they are written
    MaxRetries,   \* BM_CONFIG_BUS_LATEST_MAX_RETRIES
    SeqMod,       \* latest_seq counts modulo this (2^32)
    Locked,       \* TRUE: BUS_LOCK masks interrupts; FALSE: it is empty
    StoreBuffer,  \* TRUE: the reader's store of latest_reading may become
                  \* visible after its next load (release store, acquire load)
    None          \* no frame, no pending store

ASSUME CapacityAssumption == Capacity \in Nat /\ Capacity >= 3
ASSUME RetriesAssumption == MaxRetries \in Nat /\ MaxRetries >= 1
ASSUME SeqAssumption == SeqMod \in Nat /\ SeqMod > 2 /\ SeqMod % 2 = 0
ASSUME BuildAssumption == Locked \in BOOLEAN /\ StoreBuffer \in BOOLEAN
\* bm_bus_acquire_write allows one writing context where BUS_LOCK is empty.
ASSUME OneWriterUnlessLocked == Locked \/ \A v, w \in Writers : v = w
ASSUME NoneIsNoFrame == None \notin {[x \in Words |-> f] : f \in Frames}
ASSUME FrameAssumption == Words # {} /\ Blank \notin Frames

Slots == 0 .. (Capacity - 1)
NoSlot == Capacity              \* BM_BUS_LATEST_NONE
Cell == Frames \cup {Blank}
Whole(c) == \E f \in Frames : c = [x \in Words |-> f]

VARIABLES
    published, reading, writing, seq, wip,  \* the fields of bm_bus_storage_t
    data,                                   \* data_buf
    wpc, wpub, wslot, wframe, wleft,        \* the writing contexts
    rpc, rslot, retry, rbuf,                \* the borrowing reader
    opc, oseq, oslot, oleft, obuf, oretry   \* the observers

storage == <<published, reading, writing, seq, wip, data>>
writerVars == <<wpc, wpub, wslot, wframe, wleft>>
readerVars == <<rpc, rslot, retry, rbuf>>
observerVars == <<opc, oseq, oslot, oleft, obuf, oretry>>
vars == <<storage, writerVars, readerVars, observerVars>>

WriterPC == {"idle", "pub", "choose", "claim", "scratch", "fill",
             "odd", "publish", "even", "clear"}
ReaderPC == {"idle", "load", "mark", "check", "quit", "lent"}
ObserverPC == {"idle", "seq1", "pub", "copy", "seq2", "done"}

Init ==
    /\ published = NoSlot /\ reading = NoSlot /\ writing = 0
    /\ seq = 0 /\ wip = FALSE
    /\ data = [s \in Slots |-> [x \in Words |-> Blank]]
    /\ wpc = [w \in Writers |-> "idle"]
    /\ wpub = [w \in Writers |-> NoSlot]
    /\ wslot = [w \in Writers |-> 0]
    /\ wframe = [w \in Writers |-> Blank]
    /\ wleft = [w \in Writers |-> {}]
    /\ rpc = "idle" /\ rslot = NoSlot /\ retry = 0 /\ rbuf = None
    /\ opc = [o \in Observers |-> "idle"]
    /\ oseq = [o \in Observers |-> 0]
    /\ oslot = [o \in Observers |-> NoSlot]
    /\ oleft = [o \in Observers |-> {}]
    /\ obuf = [o \in Observers |-> [x \in Words |-> Blank]]
    /\ oretry = [o \in Observers |-> 0]

-----------------------------------------------------------------------------
\* A single-core writer inside a call has interrupts masked: nobody else runs.
InCall(w) == wpc[w] \notin {"idle", "fill"}
CpuFree == Locked => \A w \in Writers : ~InCall(w)
CpuFreeFor(w) == Locked => \A v \in Writers \ {w} : ~InCall(v)

Odd(s) == s % 2 = 1
IncNoWrap(s) == s + 1
Inc(s) == IF s + 1 = SeqMod THEN 0 ELSE s + 1

\* One more failed attempt of a reader or an observer.
ForgetAttempt(n) == n
CountAttempt(n) == n + 1

MidCopy(o) == opc[o] \in {"pub", "copy", "seq2"}
\* Bound: no copy spans the SeqMod / 2 commits that bring latest_seq round.
NoSeqLap == \A o \in Observers : MidCopy(o) => Inc(Inc(seq)) # oseq[o]

ChooseIgnoringReading(pub, rd) ==
    CHOOSE i \in Slots \ {pub} : \A j \in Slots \ {pub} : i <= j
\* The lowest slot that is neither published nor being read.
ChooseWriteSlot(pub, rd) ==
    CHOOSE i \in Slots \ {pub, rd} : \A j \in Slots \ {pub, rd} : i <= j

-----------------------------------------------------------------------------
(* bm_bus_reset is for a phase in which no call is running and nothing is     *)
(* lent.  Attaching and freezing are modelled in BusRing.                     *)

Quiescent ==
    /\ \A w \in Writers : wpc[w] = "idle"
    /\ rpc = "idle" /\ rbuf = None
    /\ \A o \in Observers : opc[o] \in {"idle", "done"}

Reset ==
    /\ Quiescent
    /\ published' = NoSlot /\ reading' = NoSlot /\ writing' = 0
    /\ seq' = 0 /\ wip' = FALSE
    /\ UNCHANGED <<data, writerVars, readerVars, observerVars>>

-----------------------------------------------------------------------------
(* bm_bus_acquire_write, the filling of the slot, bm_bus_commit and           *)
(* bm_bus_abort.  A context that finds write_in_progress set gets BUSY.       *)

\* The locals of a writer are dead once its commit or abort has returned.
Forget(w) ==
    /\ wpc' = [wpc EXCEPT ![w] = "idle"]
    /\ wpub' = [wpub EXCEPT ![w] = NoSlot]
    /\ wslot' = [wslot EXCEPT ![w] = 0]
    /\ wframe' = [wframe EXCEPT ![w] = Blank]
    /\ wleft' = [wleft EXCEPT ![w] = {}]

NotWriting == ~wip

AcquireWrite(w) ==
    /\ wpc[w] = "idle" /\ CpuFreeFor(w)
    /\ NotWriting
    /\ wpc' = [wpc EXCEPT ![w] = "pub"]
    /\ UNCHANGED <<storage, wpub, wslot, wframe, wleft,
                   readerVars, observerVars>>

LoadPublished(w) ==
    /\ wpc[w] = "pub"
    /\ wpub' = [wpub EXCEPT ![w] = published]
    /\ wpc' = [wpc EXCEPT ![w] = "choose"]
    /\ UNCHANGED <<storage, wslot, wframe, wleft, readerVars, observerVars>>

LoadReadingAndChoose(w) ==
    /\ wpc[w] = "choose"
    /\ wslot' = [wslot EXCEPT ![w] = ChooseWriteSlot(wpub[w], reading)]
    /\ wpc' = [wpc EXCEPT ![w] = "claim"]
    /\ UNCHANGED <<storage, wpub, wframe, wleft, readerVars, observerVars>>

SetWriteInProgress(w) ==
    /\ wpc[w] = "claim"
    /\ wip' = TRUE
    /\ wpc' = [wpc EXCEPT ![w] = "scratch"]
    /\ UNCHANGED <<published, reading, writing, seq, data,
                   wpub, wslot, wframe, wleft, readerVars, observerVars>>

\* latest_writing keeps the slot for commit; the caller gets its address.
StoreWriting(w) ==
    /\ wpc[w] = "scratch"
    /\ writing' = wslot[w]
    /\ \E f \in Frames : wframe' = [wframe EXCEPT ![w] = f]
    /\ wleft' = [wleft EXCEPT ![w] = Words]
    /\ wpc' = [wpc EXCEPT ![w] = "fill"]
    /\ UNCHANGED <<published, reading, seq, wip, data,
                   wpub, wslot, readerVars, observerVars>>

\* The application writes its frame through the address it was given.
FillWord(w) ==
    /\ wpc[w] = "fill" /\ CpuFreeFor(w)
    /\ \E x \in wleft[w] :
        /\ data' = [data EXCEPT ![wslot[w]][x] = wframe[w]]
        /\ wleft' = [wleft EXCEPT ![w] = @ \ {x}]
    /\ UNCHANGED <<published, reading, writing, seq, wip,
                   wpc, wpub, wslot, wframe, readerVars, observerVars>>

Abort(w) ==
    /\ wpc[w] = "fill" /\ CpuFreeFor(w)
    /\ wip
    /\ wip' = FALSE
    /\ Forget(w)
    /\ UNCHANGED <<published, reading, writing, seq, data,
                   readerVars, observerVars>>

\* commit reads latest_writing and latest_seq, which only the writer changes.
Commit(w) ==
    /\ wpc[w] = "fill" /\ CpuFreeFor(w) /\ wleft[w] = {}
    /\ wip
    /\ NoSeqLap
    /\ wslot' = [wslot EXCEPT ![w] = writing]
    /\ wpc' = [wpc EXCEPT ![w] = "odd"]
    /\ UNCHANGED <<storage, wpub, wframe, wleft, readerVars, observerVars>>

StoreSeqOdd(w) ==
    /\ wpc[w] = "odd"
    /\ seq' = Inc(seq)
    /\ wpc' = [wpc EXCEPT ![w] = "publish"]
    /\ UNCHANGED <<published, reading, writing, wip, data,
                   wpub, wslot, wframe, wleft, readerVars, observerVars>>

StorePublished(w) ==
    /\ wpc[w] = "publish"
    /\ published' = wslot[w]
    /\ wpc' = [wpc EXCEPT ![w] = "even"]
    /\ UNCHANGED <<reading, writing, seq, wip, data,
                   wpub, wslot, wframe, wleft, readerVars, observerVars>>

StoreSeqEven(w) ==
    /\ wpc[w] = "even"
    /\ seq' = Inc(seq)
    /\ wpc' = [wpc EXCEPT ![w] = "clear"]
    /\ UNCHANGED <<published, reading, writing, wip, data,
                   wpub, wslot, wframe, wleft, readerVars, observerVars>>

ClearWriteInProgress(w) ==
    /\ wpc[w] = "clear"
    /\ wip' = FALSE
    /\ Forget(w)
    /\ UNCHANGED <<published, reading, writing, seq, data,
                   readerVars, observerVars>>

WriterStep(w) ==
    \/ AcquireWrite(w) \/ LoadPublished(w) \/ LoadReadingAndChoose(w)
    \/ SetWriteInProgress(w) \/ StoreWriting(w) \/ FillWord(w) \/ Abort(w)
    \/ Commit(w) \/ StoreSeqOdd(w) \/ StorePublished(w) \/ StoreSeqEven(w)
    \/ ClearWriteInProgress(w)

-----------------------------------------------------------------------------
(* bm_bus_acquire_read and bm_bus_release of the borrowing reader.            *)

\* The reader's release store of latest_reading.
StoreReading(v) ==
    IF StoreBuffer
    THEN /\ rbuf = None
         /\ rbuf' = v
         /\ UNCHANGED reading
    ELSE /\ reading' = v
         /\ UNCHANGED rbuf

\* A delayed store becomes visible to the writer.
DrainReading ==
    /\ rbuf # None
    /\ reading' = rbuf
    /\ rbuf' = None
    /\ UNCHANGED <<published, writing, seq, wip, data,
                   writerVars, rpc, rslot, retry, observerVars>>

\* A reader may acquire again without having released.
AcquireRead ==
    /\ rpc \in {"idle", "lent"} /\ CpuFree
    /\ rpc' = "load"
    /\ retry' = 0
    /\ UNCHANGED <<storage, writerVars, rslot, rbuf, observerVars>>

ReaderLoad ==
    /\ rpc = "load" /\ CpuFree
    /\ rslot' = published
    /\ rpc' = IF published = NoSlot THEN "quit" ELSE "mark"
    /\ UNCHANGED <<storage, writerVars, retry, rbuf, observerVars>>

ReaderMark ==
    /\ rpc = "mark" /\ CpuFree
    /\ StoreReading(rslot)
    /\ rpc' = "check"
    /\ UNCHANGED <<published, writing, seq, wip, data,
                   writerVars, rslot, retry, observerVars>>

\* The second load of latest_published agrees with the first.
SkipRecheck == TRUE
StillPublished == published = rslot

ReaderCheck ==
    /\ rpc = "check" /\ CpuFree
    /\ StillPublished
    /\ rpc' = "lent" /\ retry' = 0
    /\ UNCHANGED <<storage, writerVars, rslot, rbuf, observerVars>>

ReaderRetry ==
    /\ rpc = "check" /\ CpuFree
    /\ ~StillPublished
    /\ retry' = CountAttempt(retry)
    /\ rpc' = IF CountAttempt(retry) >= MaxRetries THEN "quit" ELSE "load"
    /\ UNCHANGED <<storage, writerVars, rslot, rbuf, observerVars>>

\* Giving up with WOULD_BLOCK clears the mark.
ReaderQuit ==
    /\ rpc = "quit" /\ CpuFree
    /\ StoreReading(NoSlot)
    /\ rpc' = "idle" /\ rslot' = NoSlot /\ retry' = 0
    /\ UNCHANGED <<published, writing, seq, wip, data,
                   writerVars, observerVars>>

Release ==
    /\ rpc = "lent" /\ CpuFree
    /\ StoreReading(NoSlot)
    /\ rpc' = "idle" /\ rslot' = NoSlot /\ retry' = 0
    /\ UNCHANGED <<published, writing, seq, wip, data,
                   writerVars, observerVars>>

\* The steps of a call that has begun; calling and releasing are up to the user.
ReaderStep ==
    DrainReading \/ ReaderLoad \/ ReaderMark \/ ReaderCheck \/ ReaderRetry
    \/ ReaderQuit

-----------------------------------------------------------------------------
(* bm_bus_latest_read and bm_bus_latest_read_seq of observer o.               *)

NoWords == [x \in Words |-> Blank]

ObserverCall(o) ==
    /\ opc[o] \in {"idle", "done"} /\ CpuFree
    /\ opc' = [opc EXCEPT ![o] = "seq1"]
    /\ obuf' = [obuf EXCEPT ![o] = NoWords]
    /\ UNCHANGED <<storage, writerVars, readerVars, oseq, oslot, oleft, oretry>>

\* Return with pc p: the locals of the call are dead.
Return(o, p) ==
    /\ opc' = [opc EXCEPT ![o] = p]
    /\ oseq' = [oseq EXCEPT ![o] = 0]
    /\ oslot' = [oslot EXCEPT ![o] = NoSlot]
    /\ oretry' = [oretry EXCEPT ![o] = 0]

\* An attempt failed: try again, or give up with WOULD_BLOCK.
Fail(o) ==
    /\ IF CountAttempt(oretry[o]) >= MaxRetries
       THEN Return(o, "idle")
       ELSE /\ opc' = [opc EXCEPT ![o] = "seq1"]
            /\ oretry' = [oretry EXCEPT ![o] = CountAttempt(@)]
            /\ UNCHANGED <<oseq, oslot>>
    /\ obuf' = [obuf EXCEPT ![o] = NoWords]
    /\ UNCHANGED oleft

ObserverLoadSeq(o) ==
    /\ opc[o] = "seq1" /\ CpuFree
    /\ ~Odd(seq)
    /\ oseq' = [oseq EXCEPT ![o] = seq]
    /\ opc' = [opc EXCEPT ![o] = "pub"]
    /\ UNCHANGED <<storage, writerVars, readerVars, oslot, oleft, obuf, oretry>>

ObserverSeqOdd(o) ==
    /\ opc[o] = "seq1" /\ CpuFree
    /\ Odd(seq)
    /\ Fail(o)
    /\ UNCHANGED <<storage, writerVars, readerVars>>

ObserverLoadPublished(o) ==
    /\ opc[o] = "pub" /\ CpuFree
    /\ published # NoSlot
    /\ oslot' = [oslot EXCEPT ![o] = published]
    /\ oleft' = [oleft EXCEPT ![o] = Words]
    /\ opc' = [opc EXCEPT ![o] = "copy"]
    /\ UNCHANGED <<storage, writerVars, readerVars, oseq, obuf, oretry>>

ObserverNothing(o) ==
    /\ opc[o] = "pub" /\ CpuFree
    /\ published = NoSlot
    /\ Return(o, "idle")
    /\ UNCHANGED <<storage, writerVars, readerVars, oleft, obuf>>

ObserverCopyWord(o) ==
    /\ opc[o] = "copy" /\ CpuFree
    /\ \E x \in oleft[o] :
        /\ obuf' = [obuf EXCEPT ![o][x] = data[oslot[o]][x]]
        /\ oleft' = [oleft EXCEPT ![o] = @ \ {x}]
        /\ opc' = [opc EXCEPT ![o] = IF oleft[o] = {x} THEN "seq2" ELSE "copy"]
    /\ UNCHANGED <<storage, writerVars, readerVars, oseq, oslot, oretry>>

TrustCopy(o) == TRUE
SeqUnchanged(o) == seq = oseq[o]

ObserverAccept(o) ==
    /\ opc[o] = "seq2" /\ CpuFree
    /\ SeqUnchanged(o)
    /\ Return(o, "done")
    /\ UNCHANGED <<storage, writerVars, readerVars, oleft, obuf>>

ObserverReject(o) ==
    /\ opc[o] = "seq2" /\ CpuFree
    /\ ~SeqUnchanged(o)
    /\ Fail(o)
    /\ UNCHANGED <<storage, writerVars, readerVars>>

ObserverStep(o) ==
    \/ ObserverLoadSeq(o) \/ ObserverSeqOdd(o) \/ ObserverLoadPublished(o)
    \/ ObserverNothing(o) \/ ObserverCopyWord(o) \/ ObserverAccept(o) \/ ObserverReject(o)

-----------------------------------------------------------------------------
Next ==
    \/ Reset
    \/ \E w \in Writers : WriterStep(w)
    \/ AcquireRead \/ Release \/ ReaderStep
    \/ \E o \in Observers : ObserverCall(o) \/ ObserverStep(o)

Spec == Init /\ [][Next]_vars

\* The reader and the observers keep running once they have called; nothing is
\* asked of the writer, which may publish for ever or stop.
FairSpec ==
    /\ Spec
    /\ WF_vars(ReaderStep)
    /\ \A o \in Observers : WF_vars(ObserverStep(o))

-----------------------------------------------------------------------------
StorageType ==
    /\ published \in Slots \cup {NoSlot}
    /\ reading \in Slots \cup {NoSlot}
    /\ writing \in Slots
    /\ seq \in 0 .. (SeqMod - 1)
    /\ wip \in BOOLEAN
    /\ data \in [Slots -> [Words -> Cell]]

WriterType ==
    /\ wpc \in [Writers -> WriterPC]
    /\ wpub \in [Writers -> Slots \cup {NoSlot}]
    /\ wslot \in [Writers -> Slots]
    /\ wframe \in [Writers -> Cell]
    /\ wleft \in [Writers -> SUBSET Words]

ReaderType ==
    /\ rpc \in ReaderPC
    /\ rslot \in Slots \cup {NoSlot}
    /\ retry \in 0 .. MaxRetries
    /\ rpc \in {"load", "mark", "check"} => retry < MaxRetries
    /\ rbuf \in Slots \cup {NoSlot, None}

ObserverType ==
    /\ opc \in [Observers -> ObserverPC]
    /\ oseq \in [Observers -> 0 .. (SeqMod - 1)]
    /\ oslot \in [Observers -> Slots \cup {NoSlot}]
    /\ \A o \in Observers : opc[o] \in {"copy", "seq2"} => oslot[o] \in Slots
    /\ oleft \in [Observers -> SUBSET Words]
    /\ obuf \in [Observers -> [Words -> Cell]]
    /\ oretry \in [Observers -> 0 .. (MaxRetries - 1)]

TypeOK == StorageType /\ WriterType /\ ReaderType /\ ObserverType

\* Whether context w may be storing words into slot s.
Storing(w, s) == wpc[w] = "fill" /\ wslot[w] = s

\* The slot a reader holds carries one whole frame and no writer touches it:
\* the zero-copy loan of bm_bus_acquire_read is never torn.
NoTornLoan ==
    rpc = "lent" =>
        /\ Whole(data[rslot])
        /\ \A w \in Writers : ~Storing(w, rslot)

\* What bm_bus_latest_read returns with BM_OK is one whole frame, whatever the
\* writer did to the slot during the memcpy.
NoTornCopy == \A o \in Observers : opc[o] = "done" => Whole(obuf[o])

\* At most one context is between acquire_write and commit or abort, and a slot
\* being filled is never the published one.
OneWriter ==
    /\ \A v, w \in Writers : wpc[v] = "fill" /\ wpc[w] = "fill" => v = w
    /\ \A w \in Writers : ~Storing(w, published)

\* The inductive invariant behind the three properties above, for a build whose
\* stores are not delayed.  A writing context is alone, never works on the
\* published slot, and has latest_seq odd exactly around the publication.
Filling == {"claim", "scratch", "fill", "odd", "publish"}

WriterInv ==
    /\ wip <=> \E w \in Writers : wpc[w] \in Filling \cup {"even", "clear"}
                                            /\ wpc[w] # "claim"
    /\ \A v, w \in Writers : wpc[v] # "idle" /\ wpc[w] # "idle" => v = w
    /\ \A w \in Writers :
        /\ wpc[w] = "choose" => wpub[w] = published
        /\ wpc[w] \in Filling => wslot[w] # published
        /\ wpc[w] = "fill" =>
               /\ writing = wslot[w]
               /\ wframe[w] \in Frames
               /\ \A x \in Words \ wleft[w] : data[wslot[w]][x] = wframe[w]
        /\ wpc[w] \in {"odd", "publish"} => Whole(data[wslot[w]])

PublishedInv == published # NoSlot => Whole(data[published])

\* The mark is in place from the check on, so no writer works on a lent slot.
ReaderInv ==
    /\ rbuf = None
    /\ rpc \in {"mark", "check", "lent"} => rslot \in Slots
    /\ rpc \in {"check", "lent"} => reading = rslot
    /\ rpc = "lent" =>
           /\ Whole(data[rslot])
           /\ \A w \in Writers : wpc[w] \in Filling => wslot[w] # rslot

SeqInv ==
    /\ Odd(seq) <=> \E w \in Writers : wpc[w] \in {"publish", "even"}
    /\ \A o \in Observers : MidCopy(o) =>
        /\ ~Odd(oseq[o])
        /\ \A w \in Writers :
            /\ wpc[w] = "odd" => Inc(Inc(seq)) # oseq[o]
            /\ wpc[w] \in {"publish", "even"} => Inc(seq) # oseq[o]

\* As long as latest_seq is what the observer read, so is latest_published, and
\* the words copied so far are those of the published slot.
CopyInv ==
    \A o \in Observers :
        /\ opc[o] \in {"copy", "seq2"} /\ seq = oseq[o] =>
               /\ oslot[o] = published
               /\ \A x \in Words \ oleft[o] : obuf[o][x] = data[published][x]
        /\ opc[o] = "seq2" => oleft[o] = {}
        /\ opc[o] = "done" => Whole(obuf[o])

\* CoreInv holds on every build, Inv where stores are not delayed.
CoreInv == TypeOK /\ WriterInv /\ PublishedInv /\ SeqInv /\ CopyInv
Inv == CoreInv /\ ReaderInv

ReaderReturns == rpc \notin {"idle", "lent"} ~> rpc \in {"idle", "lent"}
ObserversReturn ==
    \A o \in Observers :
        opc[o] \notin {"idle", "done"} ~> opc[o] \in {"idle", "done"}
\* Every call of the reader and of an observer returns, even against a writer
\* that publishes for ever (DET-01: the retries are bounded).
CallsReturn == ReaderReturns /\ ObserversReturn

-----------------------------------------------------------------------------
\* The abstract register: what is published, lent and copied, in one step each.
WholeFrames == {[x \in Words |-> f] : f \in Frames}

Register == INSTANCE LatestRegister WITH
    Frame <- WholeFrames,
    latest <- IF published = NoSlot THEN None ELSE data[published],
    loan <- IF rpc = "lent" THEN data[rslot] ELSE None,
    copy <- [o \in Observers |-> IF opc[o] = "done" THEN obuf[o] ELSE None]

\* A bus in LATEST mode implements the register: each loan and each copy is the
\* frame that was newest at one instant of the call, and a loan does not change.
RegisterSpec == Register!Spec

\* Words, frame values and writing contexts are interchangeable.
Symmetry == Permutations(Frames) \cup Permutations(Words)
                \cup Permutations(Writers)
=============================================================================
