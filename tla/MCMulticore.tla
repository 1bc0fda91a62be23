----------------------------- MODULE MCMulticore ------------------------------
(* Instances of MpBoot, IpcEvents and StreamRelay for TLC, with the fairness    *)
(* under which the CPUs come up and their main loops serve each other.  A       *)
(* behaviour is one of three CPUs that start up ("boot"), of a CPU that drains  *)
(* the events of two others into a queue with room for the shares of both       *)
(* ("events") or of one ("tight_events"), or of one that drains a relay         *)
(* ("relay").                                                                   *)
EXTENDS MpBoot

CONSTANTS event, item, None

VARIABLES
    part,        \* what the behaviour is about
    slots, head, tail, nextSeq, step, lastSeq, drain, used, delivered,
    bound, open, registered, block, stamp, announced, relayHead, relayTail,
    nextSequence, ppc, filled, sent, cpc, drained, seen, lastPassed, taken

eventVars == <<slots, head, tail, nextSeq, step, lastSeq, drain, used, delivered>>
relayVars == <<bound, open, registered, block, stamp, announced, relayHead, relayTail,
               nextSequence, ppc, filled, sent, cpc, drained, seen, lastPassed, taken>>
allVars == <<part, vars, eventVars, relayVars>>

\* The processing budget empties the queue.  With room for the share of every source
\* it never refuses an event; with less it refuses the later source what the first
\* source has filled.
Events(places) == INSTANCE IpcEvents WITH
    NSources <- 2, Kinds <- {event}, Known <- {event}, Prio <- [k \in {event} |-> 0],
    Depth <- 2, Room <- places, PerSource <- 1, DrainBudget <- 2, ProcessBudget <- 2,
    Locals <- FALSE, SeqMod <- 5
Ample == 2
Tight == 1

\* The CPUs are bound at any time or never, and blocks are dropped.
Relay == INSTANCE StreamRelay WITH
    Item <- {item}, Depth <- 2, SeqMod <- 4, WordCount <- 2, Budget <- 2,
    BindsFirst <- FALSE, Out <- None,
    head <- relayHead, tail <- relayTail, lastSeq <- lastPassed

ASSUME (\A n \in {Ample, Tight} : Events(n)!IpcAssumption) /\ Relay!RelayAssumption

MulticoreInit ==
    /\ part \in {"boot", "events", "tight_events", "relay"}
    /\ Init /\ Events(Ample)!Init /\ Relay!Init

Booting(A) == part = "boot" /\ A /\ UNCHANGED <<part, eventVars, relayVars>>
Forwarding(A, B) ==
    /\ (part = "events" /\ A) \/ (part = "tight_events" /\ B)
    /\ UNCHANGED <<part, vars, relayVars>>
Relaying(A) == part = "relay" /\ A /\ UNCHANGED <<part, vars, eventVars>>

MulticoreNext ==
    \/ Booting(Next)
    \/ Forwarding(Events(Ample)!Next, Events(Tight)!Next)
    \/ Relaying(Relay!Next)

\* Every CPU goes on with its own work; the clock that ends a wait does not stop.
\* The sources of events and blocks promise nothing.
MulticoreSpec ==
    /\ MulticoreInit /\ [][MulticoreNext]_allVars
    /\ \A c \in Cpus : WF_allVars(Booting(Step(c))) /\ SF_allVars(Booting(TimeOut(c)))
    /\ WF_allVars(\/ Forwarding(Events(Ample)!Target, Events(Tight)!Target)
                  \/ Relaying(Relay!Drain))

-----------------------------------------------------------------------------
BootEnds ==
    \A c \in Cpus : <>[](part = "boot" => pc[c] \in {"running", "failed"})
(* Start-up goes forward and ends on every CPU: the shared phase never falls   *)
(* back to an earlier barrier, no CPU waits for ever for one that failed, also *)
(* when the failure was never published or was overwritten, and one that fails *)
(* on its way takes the others with it (bm_mp_boot.c:335-352).                 *)
StartupSettles == PhaseNeverFallsBack /\ BootEnds /\ FailureSpreads

Waits(s) == part \in {"events", "tight_events"} /\ ~Events(Ample)!Empty(s)
Served(s) == drain.pc = "advance" /\ drain.src = s
EverySourceServed ==
    /\ Waits(1) ~> Served(1)
    /\ (part = "events" \/ <>[]Events(Ample)!Empty(1)) => (Waits(2) ~> Served(2))
DrainReturns == (cpc # "idle") ~> (cpc = "idle")
(* A main loop keeps up with the events whose types it knows, when nobody else *)
(* fills its queue and it empties the queue in every iteration: an event of    *)
(* the first source is taken in the end; one of a later source is, too, if the *)
(* drain's budget and the room in the queue go beyond the shares of the        *)
(* sources before it, or, where the room does not, once these fall silent.     *)
(* For a refusal ends the drain, and with less room the first source may have  *)
(* the later ones refused for ever.  And a drain of the relay ends although    *)
(* the producer publishes for ever and although everything it finds is corrupt *)
(* (bm_mp_ipc_matrix.c:227-247, 289-314; bm_stream_relay.c:340, 381, 392).     *)
DrainsKeepUp == EverySourceServed /\ DrainReturns
===============================================================================
