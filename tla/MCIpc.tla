--------------------------------- MODULE MCIpc ---------------------------------
(* Instances of IpcEvents, IpcFifo, IpcLatest and StreamRelay for TLC: the four *)
(* channels between two CPUs.  A behaviour is one of them: the rings of events  *)
(* ("events"), a command ring ("fifo"), a telemetry channel whose stores arrive *)
(* in order ("ordered") or as the atomics promise ("weak"), or a relay          *)
(* ("relay").                                                                   *)
EXTENDS IpcEvents, TLC

CONSTANTS
    Item, Parts,
    WordCount,                        \* words of an item, a frame and a block
    FifoDepth, FifoMod,               \* the command ring
    LatestMod, MaxStores, WeakStores, \* the telemetry channel
    RelayDepth, RelayMod, Budget      \* the relay

\* One priority for all.
OnePrio == [k \in Kinds |-> 0]

\* Kinds and frames are only told apart.
Symmetry == Permutations(Kinds \cup Item)

VARIABLES
    part,   \* the channel the behaviour is about
    fifoSlots, fifoHead, fifoTail, fifoPending, fifoScratch, copiedIn, fifoRpc,
    scratchR, fifoTaken,
    mem, buffer, seq, wrPending, scratch, rpc, rseq, got, result, published, lap,
    bound, open, registered, block, stamp, announced, relayHead, relayTail,
    nextSequence, ppc, filled, sent, cpc, drained, seen, lastPassed, relayTaken

fifoVars == <<fifoSlots, fifoHead, fifoTail, fifoPending, fifoScratch, copiedIn,
              fifoRpc, scratchR, fifoTaken>>
latestVars == <<mem, buffer, seq, wrPending, scratch, rpc, rseq, got, result,
                published, lap>>
relayVars == <<bound, open, registered, block, stamp, announced, relayHead, relayTail,
               nextSequence, ppc, filled, sent, cpc, drained, seen, lastPassed, relayTaken>>
allVars == <<part, vars, fifoVars, latestVars, relayVars>>

Fifo == INSTANCE IpcFifo WITH
    Depth <- FifoDepth, CurMod <- FifoMod, Out <- None,
    slots <- fifoSlots, head <- fifoHead, tail <- fifoTail, wrPending <- fifoPending,
    scratch <- fifoScratch, rpc <- fifoRpc, taken <- fifoTaken

Ordered == INSTANCE IpcLatest WITH SeqMod <- LatestMod, InOrder <- TRUE
Weak == INSTANCE IpcLatest WITH
    SeqMod <- LatestMod, InOrder <- FALSE, MaxStores <- WeakStores

\* Both CPUs are bound first.
Relay == INSTANCE StreamRelay WITH
    Depth <- RelayDepth, SeqMod <- RelayMod, BindsFirst <- TRUE,
    Out <- None, head <- relayHead, tail <- relayTail,
    lastSeq <- lastPassed, taken <- relayTaken

ASSUME ChannelsAssumption ==
    /\ Fifo!FifoAssumption /\ Relay!RelayAssumption
    /\ Ordered!LatestAssumption /\ Weak!LatestAssumption

IpcInit ==
    /\ part \in Parts
    /\ Init /\ Fifo!Init /\ Ordered!Init /\ Relay!Init

IpcNext ==
    /\ UNCHANGED part
    /\ \/ part = "events" /\ Next /\ UNCHANGED <<fifoVars, latestVars, relayVars>>
       \/ part = "fifo" /\ Fifo!Next /\ UNCHANGED <<vars, latestVars, relayVars>>
       \/ part = "ordered" /\ Ordered!Next /\ UNCHANGED <<vars, fifoVars, relayVars>>
       \/ part = "weak" /\ Weak!Next /\ UNCHANGED <<vars, fifoVars, relayVars>>
       \/ part = "relay" /\ Relay!Next /\ UNCHANGED <<vars, fifoVars, latestVars>>

IpcSpec == IpcInit /\ [][IpcNext]_allVars

-----------------------------------------------------------------------------
(* Rings, channel and relay are well-formed; neither reader is ever in         *)
(* the slot its writer stores into (bm_mp_ipc_backend.c:104, 126, 162;         *)
(* bm_stream_relay.c:283-311, 385-390).                                        *)
ChannelsOK ==
    /\ TypeOK /\ Fifo!TypeOK /\ Relay!TypeOK
    /\ IF part = "weak" THEN Weak!TypeOK ELSE Ordered!TypeOK
    /\ Fifo!NeverSameSlot /\ Relay!NeverUnderReader

(* What is in good order is never taken for damage, also where a counter comes *)
(* round: not an event by its sequence number, not a frame whose stores arrive *)
(* in order by its checksum, not a block of the relay by its stamps when both  *)
(* CPUs are bound in time, nor by a gap in its numbers                         *)
(* (bm_mp_ipc_matrix.c:266; bm_mp_ipc_backend.c:282-286;                       *)
(* bm_stream_relay.c:284-311, 371-377).                                        *)
NoFalseAlarms ==
    /\ NoFalseAlarm
    /\ part = "ordered" => Ordered!NoFalseAlarm
    /\ Relay!NeverCorrupt /\ Relay!NoFalseGap

(* The rings of events, the command ring and the relay carry whole items, in   *)
(* order, each once, the aborted ones never, whatever the target refuses       *)
(* (bm_mp_ipc_backend.c:16-27; bm_mp_ipc_matrix.c:309-316).                    *)
ChannelsAreQueues ==
    FirstRingIsQueue /\ LastRingIsQueue /\ Fifo!IsQueue /\ Relay!IsQueue

(* With stores in order a call that succeeds returns the newest frame; in      *)
(* whatever order they arrive, a frame that is returned is whole and not a     *)
(* stale one (bm_mp_ipc_backend.c:189-206, 291-292).                           *)
Register == INSTANCE LatestRegister WITH
    Frame <- Item, Observers <- {}, copy <- [o \in {} |-> None],
    latest <- IF part = "ordered" THEN published ELSE None,
    loan <- IF part = "ordered" THEN Ordered!Loan ELSE None
LatestIsRegister == Register!Spec /\ [][(Weak!WholeFrames)']_allVars /\ Weak!NeverStale
===============================================================================
