------------------------------- MODULE BusRing -------------------------------
(* bm_bus in QUEUE and SIGNAL mode (Source/core/bm_bus.c): one ring of slots,  *)
(* one writer with an absolute cursor, readers with cursors of their own.      *)
(*                                                                             *)
(* QUEUE refuses the writer when the ring is full and has one reader.  SIGNAL  *)
(* never refuses: a reader that was lapped jumps to the oldest slot left and   *)
(* learns it from OVERFLOW, when it acquires or when it releases.  Between the *)
(* load of the other side's cursor and the store of its own, a reader's call   *)
(* is interleaved with the writer, as on a multicore build.                    *)
EXTENDS Naturals, Sequences

CONSTANTS
    Shapes,        \* the storages declared: mode, entries of readers[], slots,
                   \* words of an element (written and copied in order), handles,
                   \* what their cursors count modulo (2^32), and late: the loads
                   \* of a reader's copy may be satisfied after the load of
                   \* write_cur in bm_bus_release
    OneHandle      \* the reader handle of the storages that TLC checks

\* bus_storage_valid: the mask works because the capacity is a power of two.
ASSUME ShapeAssumption ==
    \A s \in Shapes :
        /\ s.mode \in {"QUEUE", "SIGNAL"}
        /\ s.capacity \in Nat /\ s.capacity >= 2
        /\ s.round \in Nat /\ s.round > 2 * s.capacity /\ s.round % s.capacity = 0
        /\ s.consumers \in Nat /\ s.consumers >= 1
        /\ s.mode = "QUEUE" => s.consumers = 1
        /\ s.words \in Nat /\ s.words >= 1 /\ s.late \in BOOLEAN

VARIABLES
    shape,                               \* the storage and its machine, static
    writeCur, wip, frozen, readerCount,  \* fields of bm_bus_storage_t
    readCur, entryUsed, overflows,       \* readers[]: read_cur, attached, overflow_count
    data,                                \* per slot and word, the position written there
    written,                             \* words of the write slot written so far
    handle,                              \* per reader: slot_idx and borrowed
    rpc, rwc, rcopy,                     \* the readers' calls under way
    got                                  \* what the last release of a reader returned

Mode == shape.mode
MaxConsumers == shape.consumers
Capacity == shape.capacity
WordCount == shape.words
CurMod == shape.round           \* the cursors count modulo this
Readers == shape.readers        \* reader handles, bm_bus_reader_t
LateRead == shape.late

Cursors == 0 .. (CurMod - 1)
Slots == 0 .. (Capacity - 1)
Entries == 0 .. (MaxConsumers - 1)
Words == 1 .. WordCount
Unbound == MaxConsumers         \* the slot_idx of a handle never attached
NoStamp == CurMod               \* a word nobody has written

storage == <<writeCur, wip, frozen, readerCount, readCur, entryUsed, overflows>>
readerVars == <<handle, rpc, rwc, rcopy, got>>
vars == <<shape, storage, data, written, readerVars>>

NoCopy == [pos |-> NoStamp, words |-> <<>>]
Nothing == [ret |-> "none", pos |-> NoStamp, words |-> <<>>]

Init ==
    /\ shape \in Shapes
    /\ writeCur = 0 /\ wip = FALSE /\ frozen = FALSE /\ readerCount = 0
    /\ readCur = [e \in Entries |-> 0]
    /\ entryUsed = [e \in Entries |-> FALSE]
    /\ overflows = [e \in Entries |-> 0]
    /\ data = [s \in Slots |-> [x \in Words |-> NoStamp]]
    /\ written = 0
    /\ handle = [r \in Readers |-> [entry |-> Unbound, borrowed |-> FALSE]]
    /\ rpc = [r \in Readers |-> "idle"]
    /\ rwc = [r \in Readers |-> 0]
    /\ rcopy = [r \in Readers |-> NoCopy]
    /\ got = [r \in Readers |-> Nothing]

-----------------------------------------------------------------------------
\* Cursor arithmetic: absolute positions that wrap, slots by remainder.
Plus(c, n) == (c + n) % CurMod
Behind(wc, rc) == (wc + CurMod - rc) % CurMod
SlotOf(c) == c % Capacity
JumpTooFarBack(wc) == (wc + CurMod - (Capacity + 1)) % CurMod
Oldest(wc) == (wc + CurMod - (Capacity - 1)) % CurMod

KeepNoneEmpty(wc, rc) == Behind(wc, rc) >= Capacity
QueueIsFull(wc, rc) == Behind(wc, rc) >= Capacity - 1
LapOffByOne(wc, rc) == Behind(wc, rc) > Capacity
Lapped(wc, rc) == Behind(wc, rc) >= Capacity

EntryOf(r) == handle[r].entry
CurOf(r) == readCur[EntryOf(r)]

\* Bound: no attached reader stays idle for CurMod - 2 * Capacity commits.
NoCursorLap ==
    \A e \in Entries : entryUsed[e] => Behind(writeCur, readCur[e]) < CurMod - 2 * Capacity
\* Bound: overflow_count saturates at OverflowMax (2^32 - 1).
OverflowMax == 1
CountOn(n) == n + 1
SatInc(n) == IF n >= OverflowMax THEN OverflowMax ELSE n + 1

-----------------------------------------------------------------------------
(* Setting up: bm_bus_reader_attach, bm_bus_freeze, bm_bus_reset.             *)

FreeEntry(e) == ~entryUsed[e]
RoomForReader == readerCount < (IF Mode = "QUEUE" THEN 1 ELSE MaxConsumers)

\* A call on a handle attaches it (again) unless it is in the middle of a read.
ReaderAttach(r) ==
    /\ rpc[r] = "idle"
    /\ ~frozen
    /\ RoomForReader
    /\ \E e \in Entries :
        /\ FreeEntry(e) /\ \A d \in Entries : FreeEntry(d) => e <= d
        /\ readCur' = [readCur EXCEPT ![e] = writeCur]
        /\ overflows' = [overflows EXCEPT ![e] = 0]
        /\ entryUsed' = [entryUsed EXCEPT ![e] = TRUE]
        /\ handle' = [handle EXCEPT ![r] = [entry |-> e, borrowed |-> FALSE]]
    /\ readerCount' = readerCount + 1
    /\ rcopy' = [rcopy EXCEPT ![r] = NoCopy]
    /\ got' = [got EXCEPT ![r] = Nothing]
    /\ UNCHANGED <<shape, writeCur, wip, frozen, data, written, rpc, rwc>>

Freeze ==
    /\ ~frozen
    /\ frozen' = TRUE
    /\ UNCHANGED <<shape, writeCur, wip, readerCount, readCur, entryUsed, overflows,
                   data, written, readerVars>>

\* Only in a phase without calls and loans; the users drop their handles then,
\* which the code leaves as they are.
Reset ==
    /\ ~wip /\ \A r \in Readers : rpc[r] = "idle" /\ ~handle[r].borrowed
    /\ writeCur' = 0 /\ wip' = FALSE /\ frozen' = FALSE /\ readerCount' = 0
    /\ readCur' = [e \in Entries |-> 0]
    /\ entryUsed' = [e \in Entries |-> FALSE]
    /\ overflows' = [e \in Entries |-> 0]
    /\ handle' = [r \in Readers |-> [entry |-> Unbound, borrowed |-> FALSE]]
    /\ rcopy' = [r \in Readers |-> NoCopy]
    /\ got' = [r \in Readers |-> Nothing]
    /\ UNCHANGED <<shape, data, written, rpc, rwc>>

-----------------------------------------------------------------------------
(* The writer: bm_bus_acquire_write, the filling, bm_bus_commit and _abort.    *)

AcquireWrite ==
    /\ ~wip
    /\ Mode = "QUEUE" => ~QueueIsFull(writeCur, readCur[0])
    /\ NoCursorLap
    /\ wip' = TRUE
    /\ written' = 0
    /\ UNCHANGED <<shape, writeCur, frozen, readerCount, readCur, entryUsed, overflows,
                   data, readerVars>>

WriteWord ==
    /\ wip /\ written < WordCount
    /\ data' = [data EXCEPT ![SlotOf(writeCur)][written + 1] = writeCur]
    /\ written' = written + 1
    /\ UNCHANGED <<shape, storage, readerVars>>

Commit ==
    /\ wip /\ written = WordCount
    /\ writeCur' = Plus(writeCur, 1)
    /\ wip' = FALSE
    /\ written' = 0
    /\ UNCHANGED <<shape, frozen, readerCount, readCur, entryUsed, overflows, data,
                   readerVars>>

Abort ==
    /\ wip
    /\ wip' = FALSE
    /\ written' = 0
    /\ UNCHANGED <<shape, writeCur, frozen, readerCount, readCur, entryUsed, overflows,
                   data, readerVars>>

Writer == AcquireWrite \/ WriteWord \/ Commit \/ Abort

-----------------------------------------------------------------------------
(* A reader: bm_bus_acquire_read, the copy it makes, bm_bus_release.           *)

\* The load of write_cur with which acquire_read begins; WOULD_BLOCK returns and
\* changes nothing.  A handle that holds a loan is not refused a second one.
AcquireLoad(r) ==
    /\ rpc[r] = "idle" /\ EntryOf(r) # Unbound
    /\ writeCur # CurOf(r)
    /\ rwc' = [rwc EXCEPT ![r] = writeCur]
    /\ rpc' = [rpc EXCEPT ![r] = "acquire"]
    /\ rcopy' = [rcopy EXCEPT ![r] = NoCopy]
    /\ UNCHANGED <<shape, storage, data, written, handle, got>>

\* Lapped before the read: jump to the oldest slot left and lend that one.
Jump(r) ==
    /\ readCur' = [readCur EXCEPT ![EntryOf(r)] = Oldest(rwc[r])]
    /\ overflows' = [overflows EXCEPT ![EntryOf(r)] = SatInc(@)]

Lend(r) ==
    /\ rpc[r] = "acquire"
    /\ IF Lapped(rwc[r], CurOf(r)) THEN Jump(r) ELSE UNCHANGED <<readCur, overflows>>
    /\ handle' = [handle EXCEPT ![r].borrowed = TRUE]
    /\ rpc' = [rpc EXCEPT ![r] = "idle"]
    /\ rwc' = [rwc EXCEPT ![r] = 0]
    /\ rcopy' = [rcopy EXCEPT ![r] = [pos |-> readCur'[EntryOf(r)], words |-> <<>>]]
    /\ UNCHANGED <<shape, writeCur, wip, frozen, readerCount, entryUsed, data, written,
                   got>>

\* The application copies as much of the lent slot as it likes, then releases it;
\* with LateRead some loads may be satisfied after release loads write_cur.
CopyWord(r) ==
    /\ \/ rpc[r] = "idle" /\ handle[r].borrowed
       \/ rpc[r] = "release" /\ LateRead
    /\ Len(rcopy[r].words) < WordCount
    /\ rcopy' = [rcopy EXCEPT ![r].words =
                    Append(@, data[SlotOf(rcopy[r].pos)][Len(@) + 1])]
    /\ UNCHANGED <<shape, storage, data, written, handle, rpc, rwc, got>>

\* release takes the loan back and loads write_cur; without a loan it is INVALID.
ForgetBorrowed(r) == EntryOf(r) # Unbound
HasLoan(r) == handle[r].borrowed

ReleaseLoad(r) ==
    /\ rpc[r] = "idle"
    /\ HasLoan(r)
    /\ handle' = [handle EXCEPT ![r].borrowed = FALSE]
    /\ rwc' = [rwc EXCEPT ![r] = writeCur]
    /\ rpc' = [rpc EXCEPT ![r] = "release"]
    /\ UNCHANGED <<shape, storage, data, written, rcopy, got>>

Return(r, ret) ==
    /\ got' = [got EXCEPT ![r] =
                  [ret |-> ret, pos |-> rcopy[r].pos, words |-> rcopy[r].words]]
    /\ rcopy' = [rcopy EXCEPT ![r] = NoCopy]
    /\ rpc' = [rpc EXCEPT ![r] = "idle"]
    /\ rwc' = [rwc EXCEPT ![r] = 0]

\* The window check: a frame that was overwritten meanwhile is void.
ReleaseOverflow(r) ==
    /\ rpc[r] = "release"
    /\ Lapped(rwc[r], CurOf(r))
    /\ Jump(r)
    /\ Return(r, "OVERFLOW")
    /\ UNCHANGED <<shape, writeCur, wip, frozen, readerCount, entryUsed, data, written,
                   handle>>

ReleaseOK(r) ==
    /\ rpc[r] = "release"
    /\ ~Lapped(rwc[r], CurOf(r))
    /\ readCur' = [readCur EXCEPT ![EntryOf(r)] = Plus(@, 1)]
    /\ Return(r, "OK")
    /\ UNCHANGED <<shape, writeCur, wip, frozen, readerCount, entryUsed, overflows, data,
                   written, handle>>

Reader(r) ==
    \/ ReaderAttach(r) \/ AcquireLoad(r) \/ Lend(r) \/ CopyWord(r)
    \/ ReleaseLoad(r) \/ ReleaseOverflow(r) \/ ReleaseOK(r)

Next == Freeze \/ Reset \/ Writer \/ \E r \in Readers : Reader(r)

Spec == Init /\ [][Next]_vars

-----------------------------------------------------------------------------
\* bm_bus_ready_count: what a reader is told it can read.
CountWholeRing(d) == IF d > Capacity THEN Capacity ELSE d
ReadyOf(d) == IF d > Capacity - 1 THEN Capacity - 1 ELSE d
ReadyCount(e) == ReadyOf(Behind(writeCur, readCur[e]))

Frame == [Words -> 0 .. NoStamp]
Copies == UNION {[1 .. n -> 0 .. NoStamp] : n \in 0 .. WordCount}

(* The storage fields and the readers' locals keep their ranges.              *)
TypeOK ==
    /\ writeCur \in Cursors /\ wip \in BOOLEAN /\ frozen \in BOOLEAN
    /\ readerCount \in 0 .. MaxConsumers
    /\ readCur \in [Entries -> Cursors]
    /\ entryUsed \in [Entries -> BOOLEAN]
    /\ overflows \in [Entries -> 0 .. OverflowMax]
    /\ data \in [Slots -> Frame] /\ written \in 0 .. WordCount
    /\ handle \in [Readers -> [entry : Entries \cup {Unbound}, borrowed : BOOLEAN]]
    /\ rpc \in [Readers -> {"idle", "acquire", "release"}]
    /\ rwc \in [Readers -> Cursors]
    /\ rcopy \in [Readers -> [pos : 0 .. NoStamp, words : Copies]]
    /\ got \in [Readers -> [ret : {"none", "OK", "OVERFLOW"}, pos : 0 .. NoStamp,
                            words : Copies]]

(* A frame that was copied before bm_bus_release answered OK is whole: every   *)
(* word is the one committed at the position that was lent, even when the      *)
(* writer lapped the reader between acquire_read and release.                  *)
GoodCopy ==
    \A r \in Readers : got[r].ret = "OK" =>
        \A x \in DOMAIN got[r].words : got[r].words[x] = got[r].pos

NeverAhead ==
    \A e \in Entries : entryUsed[e] => Behind(writeCur, readCur[e]) <= CurMod - Capacity

ReadyIsWhole ==
    \A e \in Entries : entryUsed[e] =>
        \A i \in 1 .. ReadyCount(e) :
            LET p == (writeCur + CurMod - i) % CurMod
            IN  \A x \in Words : data[SlotOf(p)][x] = p

(* What bm_bus_ready_count tells a reader is true: no sequence of acquire_read *)
(* and release, paired or not, moves a read cursor past the write cursor,      *)
(* where the difference would wrap to a huge count; and the frames promised    *)
(* are all still whole in the ring, also while the writer fills the next slot  *)
(* or has given it up.                                                         *)
ReadyIsTrue == NeverAhead /\ ReadyIsWhole

(* A reader is given every frame at most once and in commit order: while its   *)
(* entry is in use the cursor never moves back, and release answers OK only    *)
(* for the frame at the cursor, which it leaves behind.                        *)
InOrder ==
    [][/\ \A e \in Entries : entryUsed[e] /\ entryUsed'[e] =>
             Behind(writeCur', readCur'[e]) <= Behind(writeCur', readCur[e])
       /\ \A r \in Readers : got'[r] # got[r] /\ got'[r].ret = "OK" =>
             got'[r].pos = CurOf(r) /\ readCur'[EntryOf(r)] # CurOf(r)]_vars

\* The position whose frame fills the slot of p; Torn if words of two are mixed.
Torn == CurMod + 1
Written(p) ==
    LET frame == data[SlotOf(p)]
    IN  IF \A x \in Words : frame[x] = frame[1] THEN frame[1] ELSE Torn

\* The most a QUEUE storage holds, and the largest round.
Queues == {s \in Shapes : s.mode = "QUEUE"}
Largest(S) == CHOOSE n \in S : \A m \in S : m <= n
MaxQueued == Largest({0} \cup {s.capacity - 1 : s \in Queues})
MaxRound == Largest({0} \cup {s.round : s \in Shapes})

\* In QUEUE mode: the elements from the read cursor to the write cursor.
QueueItems ==
    IF Mode = "SIGNAL" THEN <<>> ELSE
    [i \in 1 .. Behind(writeCur, readCur[0]) |-> Written(Plus(readCur[0], i - 1))]
QueueTaken == {r \in Readers : Mode = "QUEUE" /\ got[r].ret # "none"}
LastTaken ==
    IF QueueTaken = {} THEN MaxRound ELSE got[CHOOSE r \in QueueTaken : TRUE].pos
Queue == INSTANCE BoundedQueue WITH
            items <- QueueItems, taken <- LastTaken,
            Item <- 0 .. MaxRound - 1, Bound <- MaxQueued, Out <- MaxRound

(* In QUEUE mode the ring is the bounded first-in first-out queue: an element  *)
(* that was committed is neither overwritten nor torn nor skipped before the   *)
(* reader releases it, and release never answers OVERFLOW.                     *)
QueueSpec == Queue!Spec

-----------------------------------------------------------------------------
(* Storages for TLC, with one reader handle, which may attach again, and       *)
(* frames of two words.  Loads may be late on the queue, whose slots nobody    *)
(* writes before they are released.                                            *)
Storage(mode, slots, round, late) ==
    [mode |-> mode, capacity |-> slots, consumers |-> 1, words |-> 2,
     readers |-> {OneHandle}, round |-> round, late |-> late]
InTimeShapes == {Storage("QUEUE", 4, 12, TRUE), Storage("SIGNAL", 2, 8, FALSE)}
LateShapes == {Storage("SIGNAL", 2, 8, TRUE)}
=============================================================================
