------------------------------ MODULE IpcLatest ------------------------------
(* A telemetry channel between two CPUs behind a bus in IPC mode: the LATEST   *)
(* half of Source/mp/bm_mp_ipc_backend.c, a sequence lock with a checksum.     *)
(*                                                                             *)
(* The writing CPU's stores reach the reading CPU through a buffer.  With      *)
(* InOrder they arrive as they were made.  Without it only the promises of     *)
(* bm_atomic_ipc.h hold: a store of the sequence number releases, so it        *)
(* arrives after every earlier store, but nothing keeps a later plain store    *)
(* from overtaking it.                                                         *)
EXTENDS Naturals, Sequences, FiniteSets

CONSTANTS
    Item,        \* the frames sent
    WordCount,   \* words of a frame, stored and loaded one by one
    SeqMod,      \* the sequence number counts modulo this (2^32)
    InOrder,     \* the stores arrive in the order they were made
    MaxStores,   \* bound: stores on their way when a commit begins
    None         \* no frame

LatestAssumption ==
    /\ WordCount \in Nat /\ WordCount >= 1
    /\ SeqMod \in Nat /\ SeqMod >= 4 /\ SeqMod % 2 = 0
    /\ InOrder \in BOOLEAN /\ MaxStores \in Nat
    /\ None \notin Item

Words == 1 .. WordCount

\* The places of the channel that are stored and loaded one at a time.
SeqLoc == [part |-> "seq", word |-> 0]
CrcLoc == [part |-> "crc32", word |-> 0]
WordLoc(w) == [part |-> "payload", word |-> w]
CopyLocs == {WordLoc(w) : w \in Words} \cup {CrcLoc}

Numbers == 0 .. SeqMod - 1
Blank == [w \in Words |-> None]

VARIABLES
    mem,        \* the channel as the reading CPU sees it: seq, payload, crc32
    buffer,     \* stores of the writing CPU that have not arrived, oldest first
    seq,        \* seq as the writing CPU sees it
    wrPending,  \* the writer's context: wr_pending
    scratch,    \* and scratch
    rpc, rseq,  \* the reader: under way or not, and the seq it began with
    got,        \* what it has copied: payload words and crc32
    result,     \* what its last call returned
    published,  \* history: the frame of the last seq that arrived as even
    lap         \* bound: publications during the reader's call

writer == <<seq, wrPending, scratch>>
reader == <<rpc, rseq, got, result>>
vars == <<mem, buffer, writer, reader, published, lap>>

Init ==
    /\ mem = [seq |-> 0, payload |-> Blank, crc |-> Blank]
    /\ buffer = <<>>
    /\ seq = 0 /\ wrPending = FALSE /\ scratch = None
    /\ rpc = "idle" /\ rseq = 0 /\ got = <<>>
    /\ result = [ret |-> "WOULD_BLOCK", payload |-> Blank]
    /\ published = None
    /\ lap = 0

Plus1(n) == (n + 1) % SeqMod
Even(n) == n % 2 = 0

\* Different payloads have different checksums.
Crc(payload) == payload

-----------------------------------------------------------------------------
(* The writing CPU.                                                           *)

AcquireWrite ==
    /\ ~wrPending
    /\ wrPending' = TRUE
    /\ \E v \in Item : scratch' = v
    /\ UNCHANGED <<mem, buffer, seq, reader, published, lap>>

Abort ==
    /\ wrPending
    /\ wrPending' = FALSE
    /\ scratch' = None
    /\ UNCHANGED <<mem, buffer, seq, reader, published, lap>>

Store(loc, val) == [loc |-> loc, val |-> val, frame |-> scratch]

WithoutOdd(n) ==
    [w \in Words |-> Store(WordLoc(w), scratch)]
        \o <<Store(CrcLoc, Crc([w \in Words |-> scratch])), Store(SeqLoc, Plus1(n))>>

\* The stores of a commit: seq odd, the payload, its checksum, seq even.
StoresOf(n) ==
    <<Store(SeqLoc, n)>>
        \o [w \in Words |-> Store(WordLoc(w), scratch)]
        \o <<Store(CrcLoc, Crc([w \in Words |-> scratch])), Store(SeqLoc, Plus1(n))>>

TwoOn == Plus1(Plus1(seq))
NextOdd == IF Even(Plus1(seq)) THEN Plus1(Plus1(seq)) ELSE Plus1(seq)

Commit ==
    /\ wrPending
    /\ Len(buffer) <= MaxStores
    /\ buffer' = buffer \o StoresOf(NextOdd)
    /\ seq' = Plus1(NextOdd)
    /\ wrPending' = FALSE /\ scratch' = None
    /\ UNCHANGED <<mem, reader, published, lap>>

-----------------------------------------------------------------------------
(* A store of the writing CPU arrives.                                        *)

\* A plain store waits for the earlier stores to its own place, a release for all.
MayArrive(i) ==
    \/ i = 1
    \/ /\ ~InOrder
       /\ buffer[i].loc # SeqLoc
       /\ \A j \in 1 .. i - 1 : buffer[j].loc # buffer[i].loc

\* Bound: the sequence number does not come round during one call of the reader.
InWindow == lap < SeqMod \div 2 - 1

Without(i) == SubSeq(buffer, 1, i - 1) \o SubSeq(buffer, i + 1, Len(buffer))

Arrive(i) ==
    /\ MayArrive(i)
    /\ LET st == buffer[i] IN
        /\ mem' = CASE st.loc = SeqLoc -> [mem EXCEPT !.seq = st.val]
                    [] st.loc = CrcLoc -> [mem EXCEPT !.crc = st.val]
                    [] OTHER -> [mem EXCEPT !.payload[st.loc.word] = st.val]
        /\ IF st.loc = SeqLoc /\ Even(st.val)
           THEN /\ InWindow
                /\ published' = st.frame
                /\ lap' = IF rpc = "idle" THEN 0 ELSE lap + 1
           ELSE UNCHANGED <<published, lap>>
    /\ buffer' = Without(i)
    /\ UNCHANGED <<writer, reader>>

-----------------------------------------------------------------------------
(* The reading CPU: one call of acquire_read.                                 *)

\* Nothing published, or a write under way: WOULD_BLOCK at once.
Readable == mem.seq # 0 /\ Even(mem.seq)

BeginRead ==
    /\ rpc = "idle"
    /\ Readable
    /\ rpc' = "copying"
    /\ rseq' = mem.seq
    /\ got' = <<>>
    /\ result' = [ret |-> "WOULD_BLOCK", payload |-> Blank]
    /\ lap' = 0
    /\ UNCHANGED <<mem, buffer, writer, published>>

\* The loads of the copy, and of crc32, may be made in any order.
Copied == {got[i].loc : i \in 1 .. Len(got)}

CopyOne(loc) ==
    /\ rpc = "copying"
    /\ loc \notin Copied
    /\ got' = Append(got, [loc |-> loc,
                           val |-> IF loc = CrcLoc THEN mem.crc ELSE mem.payload[loc.word]])
    /\ UNCHANGED <<mem, buffer, writer, rpc, rseq, result, published, lap>>

Value(loc) == got[CHOOSE i \in 1 .. Len(got) : got[i].loc = loc].val
CopiedPayload == [w \in Words |-> Value(WordLoc(w))]

\* The load of seq after the acquire fence, then the verdict.
NotChecked == TRUE
Stable == mem.seq = rseq

NoChecksum == TRUE
ChecksumMatches == Value(CrcLoc) = Crc(CopiedPayload)

EndRead ==
    /\ rpc = "copying" /\ Copied = CopyLocs
    /\ result' =
        IF ~Stable THEN [ret |-> "WOULD_BLOCK", payload |-> Blank]
        ELSE IF ChecksumMatches THEN [ret |-> "OK", payload |-> CopiedPayload]
        ELSE [ret |-> "INVALID", payload |-> Blank]
    /\ rpc' = "idle" /\ got' = <<>> /\ rseq' = 0
    /\ lap' = 0
    /\ UNCHANGED <<mem, buffer, writer, published>>

Next ==
    \/ AcquireWrite
    \/ Abort
    \/ Commit
    \/ \E i \in 1 .. Len(buffer) : Arrive(i)
    \/ BeginRead
    \/ \E loc \in CopyLocs : CopyOne(loc)
    \/ EndRead

Spec == Init /\ [][Next]_vars

-----------------------------------------------------------------------------
\* The state is well-formed, and the writer's own seq is even between commits, so
\* that the correction of bm_mp_ipc_backend.c:239 is never needed.
TypeOK ==
    /\ mem.seq \in Numbers /\ seq \in Numbers /\ Even(seq)
    /\ mem.payload \in [Words -> Item \cup {None}]
    /\ mem.crc \in [Words -> Item \cup {None}]
    /\ Len(buffer) <= MaxStores + WordCount + 3
    /\ wrPending \in BOOLEAN /\ scratch \in Item \cup {None}
    /\ rpc \in {"idle", "copying"} /\ rseq \in Numbers
    /\ result.ret \in {"OK", "WOULD_BLOCK", "INVALID"}
    /\ published \in Item \cup {None}
    /\ lap \in 0 .. SeqMod \div 2 - 1

\* A frame that acquire_read returns is a frame that was committed, never words of
\* two: whatever order the stores arrive in, for what the sequence number lets
\* through the checksum stops (bm_mp_ipc_backend.c:291-292).
WholeFrames ==
    result.ret = "OK" =>
        \E v \in Item : result.payload = [w \in Words |-> v]

\* And it is not a stale one: it is the frame that was newest when the call
\* checked seq, or one whose commit was on its way then (bm_mp_ipc_backend.c:291).
OnItsWay == {buffer[i].frame : i \in 1 .. Len(buffer)}
NeverStale ==
    [][EndRead /\ result'.ret = "OK"
        => \E v \in {published} \cup OnItsWay : result'.payload = [w \in Words |-> v]]_vars

\* payload and crc32 are read inside the window that seq guards, so a frame nobody
\* damaged is never reported as damaged (bm_mp_ipc_backend.c:282-286).
NoFalseAlarm == result.ret # "INVALID"

\* With stores that arrive in order the channel is a register: a call that
\* succeeds returns the newest frame (bm_mp_ipc_backend.c:189-206).
Loan == IF result.ret = "OK" THEN result.payload[1] ELSE None

R == INSTANCE LatestRegister
        WITH Frame <- Item, Observers <- {}, latest <- published, loan <- Loan,
             copy <- [o \in {} |-> None]

IsRegister == R!Spec
=============================================================================
