# Bmelod in TLA+

Bmelod is a framework in C, without a heap, for microcontrollers: modules,
events, data buses, block streams, a high-resolution timer, execution instances
for control loops, and a multicore profile in which several CPUs start up
together and exchange events, frames and blocks through shared memory; on top
of them come components (motors, lines, inputs, transports) and fixed-point
algorithms. This directory holds a model in TLA+ of its core and of those parts
above it that have state worth checking, the configurations that check it
with TLC, and proofs checked by TLAPS. Every definition is translated from the
C source; `PROJECT.json` names the lines of each one.

Contents: 1 inventory, 2 modules and their correspondence to the code, 3 runs,
4 proofs, 5 disagreements found, 6 assumptions and limits, 7 plan.

## 1. Inventory

### 1.1 Components

| component | state | operations | hard behaviour | what makes it correct |
|---|---|---|---|---|
| bus, LATEST (`core/bm_bus.c`) | published slot, slot being read, sequence lock, slots | acquire_write, commit, acquire_read, release, latest_read, attach | one writer, one borrowing reader and observers, without a lock on a multicore build | a borrowed slot is not written; a copy is whole; it is a register |
| bus, QUEUE and SIGNAL (`core/bm_bus.c`) | write cursor, slots, entries of readers | acquire/commit, attach, acquire/release, reset | cursors wrap; a SIGNAL reader is lapped while it reads | QUEUE is a bounded queue; a SIGNAL frame that is kept is whole and new |
| events (`core/bm_event.c`) | types, subscriber lists, one ring per priority, burst and cursor of fairness | register, subscribe, unsubscribe, publish, process, reset | interrupts publish into a queue being emptied; callbacks change what is iterated | order per priority, nobody missed, bounded overtaking |
| module lifecycle (`core/bm_module.c`) | working table, phase, flags of each module, traversal | init, start, stop, deinit for all or a domain | hooks fail halfway, roll back, call back in | hooks are called when due, in order, and undone |
| watchdog and gate (`core/bm_wdg.c`, `mp/bm_mp_wdg.c`) | registry, check-ins, generation, heartbeats seen | register, check-in, feed, pause, reset, gate | snapshot before, decision after, interrupts between | the hardware is fed only on fresh check-ins, and then indeed |
| block streams (`hybrid/bm_stream.c`) | state and sequence of each block, pending notification | producer acquire/commit/abort, consumer acquire/release, drain, reset | cache maintenance and handlers outside the lock | one owner per block, none lost |
| stream relay (`hybrid/bm_stream_relay.c`) | ring, stamps, epochs | register, publish, drain | two CPUs, no lock; stamps depend on binding | a queue of whole blocks |
| events between CPUs (`mp/bm_mp_ipc_matrix.c`) | a ring per pair of CPUs, last sequence seen | publish, drain | full target, refused event, interrupted publication | in order, once, no source starved where there is room for it |
| bus across CPUs (`mp/bm_mp_ipc_backend.c`) | command ring; telemetry slot with sequence and checksum | the bus calls | word-wise copies, weak memory | a queue; a register |
| start-up (`mp/bm_mp_boot.c`) | boot phase, a word per CPU, epoch, profile | announce, wait, four barriers, failure | polling loops, timeouts, failure at any place | CPUs pass a barrier together; start-up ends |
| execution instances (`hybrid/bm_exec.c`) | session, flags per instance, bindings | init_all, start_all, irq_release_all, drain, safe_stop_all | interrupts between the steps, every hook may fail | slots run only in an open session; nothing is left behind |
| high-resolution timer (`hybrid/bm_hrt.c`) | slot table, deadlines, started | init, start, stop, reset, poll, interrupt | two passes over one table, wrapping ticks | each period run or counted exactly once |
| memory pool (`core/bm_mempool.c`) | bitmap, try-lock | alloc, free | two CPUs and interrupts; freed twice | one holder per block |
| log ring, recorder, ultra-light queue (`core/bm_log.c`, `hybrid/bm_recorder.c`, `core/bm_ultra.c`) | head, tail, slots, drop counter | push, drain; push, pop, process, reset | written by interrupts or another CPU while read | whole copies, in order, every loss counted |
| persistent records and parameters (`hal/bm_persist.c`, `core/bm_param.c`, NVS driver) | table of records, two slots of flash, live and shown values | get, set, save, load, reset, commit | power fails anywhere; every step of the flash may fail | the old table or the new one; a failed reset changes nothing |
| time-triggered schedule (`hybrid/bm_tt_schedule.c`) | table, frames, pending, double-buffered outputs | init, tick, run_pending | ticks preempt the main loop and one another | periods kept, outputs whole and dated |
| schedule, partition, resources (`mp/bm_mp_schedule.c`, `bm_mp_partition.c`, `bm_mp_resource_topology.c`, `hybrid/bm_resource.c`) | tables of slots, owners and claims | build, validate, admit | overflow, several passes, half-built tables | what is admitted works |
| ticker, pipeline, synchronised sampling (`hybrid/bm_ticker.c`, `bm_pipeline.c`, `bm_sync.c`) | deadlines; nodes and blocks; active domain and its state | poll; init, process; arm, trigger | late polls and full queues; a node or a step of hardware fails | no period lost; a chain runs as written; state is true |
| RS-485 line, stepper axis, stop inputs, motor, derating, transport (`component/`) | direction and times; pins, timer, position; debounce and latch; phase and fault; factor; tokens | send, poll, callbacks; set velocity, timer; poll, edge; step, apply; enqueue, refill | interrupts between the steps of a call, late or failing hardware, wrapping clocks | a driver believes what its device does |
| fixed-point algorithms (`algorithm/bm_algo_fixed.c`) | integrators, last samples, windows, profiles | step, reset | saturation, rounding, changed windows | no windup, no overshoot, no old sample |

Not modelled: see section 6 and `components` in `PROJECT.json`.

### 1.2 Interactions

The main loop of a CPU processes events, drains streams, relays and rings of
other CPUs, polls the timer and feeds the watchdog. Interrupts publish events,
commit blocks, run slots of execution instances and the timer's pass. Within one
CPU they meet in shared tables guarded by critical sections
(`BM_CRITICAL_ENTER`); between CPUs in single-writer words and rings with
acquire and release accesses (`bm_atomic_ipc.h`). `bm_exec_start_all` starts the
timer; the drain of a ring publishes into the event queue; the watchdog asks the
multicore gate; the boot sequence decides when interrupts are released and which
epoch the relay stamps. Parameters are saved through the table of records into
the flash; a stopped input and a latched fault take the bridge of a motor away.
The components above the framework share no state with each other: each is a
state machine of its own, called by the application.

## 2. Modules

An `MC...` module EXTENDS one component and adds what a run needs: values for
constants, symmetry, sometimes fairness; the buses are run as they are. All but
one of them also INSTANCE further components, or the same one with other constants, and put them side by side: the
variable `part` or `topic`, chosen in the initial state and never changed, says
which one the behaviour is about, and all variables of the others stay as they
were. Nothing is shared between the parts, so such a run is several checks of
separate state machines in one (the number of states is the sum). The properties
such a run checks are conjunctions, in the `MC` module, of properties defined
beside the components. In the same way `BusRing` and `EventQueue` choose a build
(`shape`, `build`) from a set of them at the start, `Watchdog` a use (`setup`: which
modules and CPUs there are, who feeds and within which time), and `FixedPoint` an
algorithm.

| MC module | extends | has instances of | parts |
|---|---|---|---|
| `MCControl` | `ModuleLifecycle` | `ModuleLifecycle` and `Exec` (for routed CPUs and others), `TtSchedule` (for two plans), `MpSchedule`, `MpPartition`, `Ticker`, `Sync`, `Rs485`, `StepperPulse`, `Pipeline`, `SafetyInput`, `FocSensorless`, `Derating`, `TokenBucket`, `FixedPoint` | modules, routed_modules, session, routed_session, table, schedule, long_ticks, claims, deadlines, partition, ticker, sync, line, late_line, failing_line, axis, swift_axis, bare_axis, bare_swift_axis, pipeline, stop, limit, low_limit, edges, motor, motor_loop, battery, bucket, arithmetic |
| `MCServices` | `ParamStore` | `ParamStore` with a full table, `Mempool`, `LogRing`, `UltraQueue`, `Recorder`, `Stream` with and without a ready handler | params, full, pool, log, ultra, recorder, handled, pulled |
| `MCIpc` | `IpcEvents` | `IpcFifo`, `IpcLatest` (stores in order, and weak), `StreamRelay` | events, fifo, ordered, weak, relay |
| `MCMulticore` | `MpBoot` | `IpcEvents`, `StreamRelay` | boot, events, tight_events, relay |
| `MCTiming` | `HrtTimer` | `HrtTimer` with a second context, `Watchdog` (three uses), `EventQueue` (three builds) | race, served, watchdog, events |

Variables keep the names of the fields, or the comment beside them gives the
field; actions are the functions, split where an interrupt or another CPU can
see a state between.

| module | what it is |
|---|---|
| `LatestRegister`, `BoundedQueue`, `DurableCell` | the abstract promises: a register whose reads return whole, written frames; a queue that refuses when full; a value that survives a loss of power as the old or the new one |
| `BusLatest` | every load and store of writer, reader and observers as a step. `Locked`: the writer's calls are one step (single core). `StoreBuffer`: the reader's mark becomes visible late, as release and acquire alone allow |
| `BusRing` | QUEUE and SIGNAL: the loads of the other side's cursor are separate from the stores of one's own; `LateRead` lets the copy be satisfied after the check |
| `EventQueue` | critical sections are actions; `bm_event_process` is `ProcessCall`, `Process` (pop) and the dispatch to subscribers, with publishing and changes of the lists between |
| `ModuleLifecycle` | a call under way is a frame of a stack; each hook is an action that may fail; hooks may call in up to `MaxNest` deep; READY is stored one step before the subscriptions are frozen |
| `Watchdog` | main loop and interrupt each with a call in progress; time is the age of stamps; the gate looks at one CPU after the other and then exchanges its latch |
| `Stream` | blocks move between states under the lock; cache maintenance and handlers between two locks, and may fail |
| `IpcEvents` | rings of every source, filled in two steps, drained in order of source into a target with limited room |
| `IpcFifo`, `IpcLatest` | copies word by word; `IpcLatest` has a store buffer, in order or as weak as `bm_atomic_ipc.h` allows |
| `MpBoot` | a program counter per CPU; the barrier is a scan word by word; timeouts and failures at every place the code has them |
| `StreamRelay` | publication and drain word by word, epochs as each CPU knows them |
| `Exec` | every hook an action; interrupts run slots between; a block callback may stop everything; beside it the check of the instances' claims (`Check`), which looks at the tables alone |
| `HrtTimer` | the pass of the interrupt and of `bm_hrt_poll`, slot by slot; the start in steps |
| `Mempool` | the attempt at the lock is a step, what is done under it another; two CPUs, the bootstrap one interrupted |
| `LogRing`, `Recorder` | a line or frame is written and copied word by word, with the other side between; numbers of pushes wrap |
| `UltraQueue` | push and pop under the lock; the callback runs outside and may push or reset |
| `ParamStore` | erasing, programming and reading back one of two slots of flash are steps, each of which may fail or be the last before power fails; above them the table of records and the parameters |
| `TtSchedule` | the arithmetic that accepts a table, in words of few bits; the tick and the main loop, activity by activity, with what each frozen input and published output stems from |
| `MpSchedule` | the response-time analysis as the code computes it, and beside it the execution it is about |
| `MpPartition` | the passes over constant tables, each refusal in its place |
| `Ticker`, `Sync`, `Pipeline` | the calls with their early returns; what fails, fails nondeterministically |
| `Rs485`, `StepperPulse` | the calls of the main loop step by step, the port's or timer's interrupt between them, time as the age of what was last done. `Masked`: the application masks the timer's interrupt while it calls the axis, which itself takes no lock |
| `SafetyInput`, `FocSensorless`, `Derating`, `TokenBucket` | samples, commands and faults in any order; times in steps; floating-point factors as few whole parts |
| `FixedPoint` | numbers of `F` fraction bits with the code's rounding and saturation; one loop, called with any sequence of samples |
| `BusLatest_proof`, `BusRing_proof`, `Services_proof`, `Ipc_proof`, `Timing_proof`, `Periods_proof`, `Control_proof` | theorems and proofs (section 4); those of `MpBoot` stand at its end |

Refinements checked: `BusLatest` implements `LatestRegister` (`RegisterSpec`,
also proved), `BusRing` in QUEUE mode, `IpcFifo` and `StreamRelay` implement
`BoundedQueue`, as do the rings of `IpcEvents` (`QueueSpec`;
`ChannelsAreQueues`), the log ring and the ultra-light queue (`ServicesAreQueues`);
`IpcLatest` with stores in order implements the register (`LatestIsRegister`), and
the flash of `ParamStore` the durable cell (`SavesAreDurable`).

Some history variables are kept to state a property over what happened: what a
frame was when it was lent (`BusLatest`), the commits not yet delivered (rings),
`owed` and `miscounted` (`HrtTimer`: ticks not accounted for by a run or a count
of missed periods), what was committed before each block of a `Stream` and waits
(`earlier`), the last samples of `FixedPoint`. They never guard an action
that models code, but some are bounds of the model: how late `Tick` lets a slot
become (`owed`), how long a time is told apart (`Longest`, `MaxIdle`).

## 3. Runs

Eight runs pass; the four marked **V** each check one property that a comment or
document promises and the code does not keep (section 5).

| run | what it shows | instance and bounds |
|---|---|---|
| `bus_latest` | A lent slot (`NoTornLoan`) and a copied frame (`NoTornCopy`) are never torn, and the bus is a register (`RegisterSpec`) | Multicore build; three slots (the minimum the code accepts), two words, two frames, one writer, reader and observer. With two words a torn frame exists; with three slots each party can hold one. Sequence numbers modulo 4, retries bounded by two as by `MaxRetries` |
| `bus_latest_live` | The calls of reader and observer return although the writer never stops (`CallsReturn`) | The same with stores that are late, one word and one retry |
| `bus_latest_delayed` **V** | The reader's mark arrives late, and a slot is lent while it is written | as above |
| `bus_ring` | QUEUE is a bounded queue (`QueueSpec`); a SIGNAL frame that is kept is whole and in order (`GoodCopy`, `InOrder`); `ReadyIsTrue`: the count a reader is told | QUEUE: four slots, cursors modulo 12; SIGNAL: two slots, cursors modulo 8, a reader lapped before and during a read; a handle that attaches again |
| `bus_signal_late` **V** | The loads of a SIGNAL reader are satisfied late | SIGNAL as above |
| `control` | Hooks are called when due and in order (`HooksInOrder`); slots run only in a complete session, and a closed one leaves nothing behind (`SessionIsTrue`); claims and a partition that are admitted work, and a refused table of slots is undone (`AdmitsWhatWorks`); a table of activities that is admitted is kept, outputs are whole and dated, no period of the ticker is lost (`PeriodsAreKept`); drivers believe what their devices do (`DevicesAreTrue`: the line while its port reports no error, the position of the axis with the timer masked during calls, its timer masked or not); what is computed in a loop is what is meant: tables are accepted exactly if they can be kept, admitted slots are never late, chains run as written, fixed-point loops neither wind up nor keep old samples (`LoopsAreExact`, with the conditions of section 4); undoing, pins, inputs and recoveries come in order and in time, and no step of an axis that is not masked is counted wrong unless a call is turning or starting it (`StepsInOrder`) | See below |
| `stepper_hold` **V** | DIR turns before its hold time (`HoldIsKept`) | the topic axis |
| `services` | Settings survive a loss of power and a failed reset (`SettingsSurvive`, `SavesAreDurable`); copies made while an interrupt writes are whole (`CopiesAreWhole`); log, ultra-light queue and stream are in order and lose nothing uncounted (`ServicesAreQueues`); a block of the pool has one holder, one of a stream one owner (`OneHolder`, `BlocksHaveOwners`) | Two parameters of two values, one of them acting at reboot, a record of the application; a table of two records, full or not; sequence numbers to 3. Two blocks and two CPUs; two lines; rings of two frames of two words with numbers modulo 8; three stream blocks, cache faults, numbers modulo 8 |
| `timing` | Each period is run or counted once (`PeriodsAccounted`); the hardware watchdog is fed on fresh check-ins only, each used once, no CPU being dead, and the safe stop is called once (`FeedsAreEarned`); events keep their order (`FirstInFirstOut`) and reach every subscriber with bounded overtaking (`EventsReachAll`); slots are served, event processing returns, the lowest priority is served and a dead CPU ends the feeding (`WhatIsDueComes`) | Two slots of two and three ticks, twelve ticks in a round, up to three late: a whole period is missed, and the counter wraps. Two modules and two contexts with three changes of the registry; a CPU that beats, stops beating, or beats while the gate looks. Three builds of the event queue: three entries with ids modulo 4, so that ids run out and come back; one ring that wraps, overflows and is reset; three priorities with a burst of two |
| `hrt_start_race` **V** | Two starts at once (`StartedRuns`) | the part race |
| `ipc` | The four channels between CPUs carry whole items in order and once (`ChannelsAreQueues`, `LatestIsRegister`), never share a slot (`ChannelsOK`) and raise no false alarm (`NoFalseAlarms`) | Two sources with rings of two events and a target with room for one; four slots and cursors of two laps; two-word frames with numbers modulo 6, up to three stores on their way when a commit begins (in order) or one (weak); four relay slots, numbers modulo 6 |
| `multicore` | Barriers hold (`Together`), what is attached to is complete (`AttachFindsAll`), start-up goes forward and ends (`StartupSettles`); the first source is always served, a later one where room and budget go beyond the shares of those before it or, where the room does not, once these are silent; and a drain ends (`DrainsKeepUp`) | Three CPUs, the smallest number where one CPU's scan can be overtaken by two others; two sources with rings of one, a share of one for each and a budget of two, into a queue with room for both shares (events) or for one (tight_events: the target refuses, and the refusal ends the drain before the second source); a relay ring of one with blocks that may all be corrupt |

Instances of `control`: four modules in two domains and COMMON and three
instances, every hook may fail, single-core and routed builds; words of five bits
in which a common multiple overflows, up to three activities, `minor_us` up to the largest word; a schedule of one
activity in the interrupt and one in the main loop, ticks that last longer than
a period; three claims of two instances; up to four slots out of eight, admitted and
then run; two CPUs, two event types and two modules; two slots of two and three
ticks, polled up to nine ticks late, into a queue with room for two; two sampling
domains whose hardware may refuse; frames of one or two ticks with a timeout of three, whose end
comes late or never; an axis with two half periods, with and without a hold time, its
interrupt masked during the calls or coming between their steps; chains of two nodes out of
seven; an input stable after two ticks; a motor of three aligning and four
ramping steps; a factor in fifths; a bucket of three with a clock modulo 16;
numbers of three fraction bits, profiles reset at rest or at a speed.

Every bound is a constant of the module, named and explained where it is
declared. Small bounds suffice because each mechanism depends on a difference
(of cursors, sequence numbers, ticks or ages) and not on its size: the moduli are
chosen above what the code's assumption requires (two laps, half a round) and low
enough that TLC goes round several times; times are one more than the longest
the code compares with. Three fraction bits leave room for every relation between
a product, a limit and the end of the numbers, and the rounding they show is
coarser than the code's. Symmetry is used in `ipc` and `services` only, which
check no liveness. The deadlock check is off in `control` and `stepper_hold` only:
a routed CPU whose rollback failed stays in CLEANUP_PENDING, from which no call
leads out, and a table, once checked, is done with.

### Fairness

Weak fairness is assumed of code that runs whenever it is enabled: the main loop
(`Process` and `ProcessCall` of `EventQueue`, `Target`, `Drain`), a party on a CPU of its own
(`ReaderStep`, `ObserverStep`), the clock (`Tick`), a request of the timer
(`Interrupt`) and a pass under way (`Dispatch`). Strong fairness is used once,
for `TimeOut` of `MpBoot`: a waiting CPU asks the clock in every round of its
loop, so a timeout that is possible again and again is taken. Nothing is fair
that the code leaves to the application or to chance: writers, publishers,
hooks, interrupts that start a call. That a dead CPU ends the feeding needs the
clock only.

## 4. Proofs

`BusLatest_proof` is for any number of slots (at least three), words, frames,
observers and any modulus of the sequence number, and for both builds.

* `TypeCorrect`, `OneWriterAtATime`, `CopyNeverTorn`: for every build, from
  `CoreInv` (a conjunction of: the writer's slot is neither published nor, unless
  late, marked; the published slot is whole; the sequence is odd exactly while a
  publication is under way; an observer that has copied words under an even
  sequence that is still current has copied the published frame).
  `NoTornCopy` alone is not inductive: what makes it so is the relation of the
  copied words to the sequence, `CopyInv`.
* `LoanNeverTorn`, `InvHolds`: without a store buffer. `ReaderInv` says that a
  reader that has seen its slot published *after* marking it holds a slot the
  writer has not chosen. With a store buffer the property is false
  (`bus_latest_delayed`), so the assumption `~StoreBuffer` is needed.
* `ImplementsRegister`: the same builds implement `LatestRegister`; each step is
  a write, a read or a stutter of the register.

The theorems of `MpBoot` are for any number of CPUs, with or without the hard
real-time profile.

* `TypeCorrect`.
* `BarriersHold` (`Together`): a CPU past a barrier leaves nobody behind. The
  inductive part is `ScannedAreReady`, what a CPU in the middle of its scan has
  established, and `Rounds`, which ties the place of a CPU to its own word.
* `AttachIsComplete` (`AttachFindsAll`): through `BootstrapIsFirst`, `OthersWait`
  and `AnnouncedIsStored`: nobody leaves the waiting loops before the bootstrap
  CPU has stored what it announces.

`BusRing_proof` is for every set of storages: any number of slots, words,
consumers and reader handles and any round of the cursors, QUEUE and SIGNAL.
`GoodCopy` is not inductive, because what makes a copy good is decided only when
`bm_bus_release` compares cursors that come round. `IInv` adds

* `LagInv`: the writer is never further ahead of a cursor than the ring has
  slots (QUEUE) or than a round less two rings (SIGNAL; that much is the bound
  `NoCursorLap` of the model), so that differences of cursors are distances;
* `CallsInv`: what a call has loaded lies between the cursors of both sides;
* `SlotsInv`: the frames a reader can still get are whole, and so is what the
  writer has written of the next;
* `LoansInv`: every word a reader has copied is of the frame at its cursor,
  unless the reader was lapped, and then the cursor it compares with shows it.

From it follow `TypesHold`, `ReadyHolds`, `OrderHolds`; `CopiesHold` for machines
that satisfy loads in time, or queues (`CopiesInTime`; with late loads on a SIGNAL
ring it is false, `bus_signal_late`); and `QueueHolds`, the refinement of
`BoundedQueue`, for storages whose rounds have a common bound (`RoundsBounded`: a
cursor is a `uint32_t`).

`Services_proof` is about all of `MCServices`: for every
value of its constants that `ServicesAssumption` and the ASSUMEs of `ParamStore`
allow, so for every depth, capacity, size, budget and modulus.

* Pool (`HolderHolds`): `PoolLock`, that the lock is taken exactly while one CPU
  is in a call, and `PoolCalls`, what a call has found before it took effect.
* Flash (`SavesHold`): `FlashInv`, that a save writes the slot that does not count,
  that the slot it leaves alone is the one a load finds until the other is whole,
  and that this one has the larger number.
* Settings (`SettingsSurviveHolds`): `ParamInv`, that a call that waits for its
  commit has the table of records in the save, which was noted as tried, and that a
  reset has noted what it took out. The bounds that TLC needs (`MaxSeq`, the
  application's values) are not used: the proof is about steps without them
  (`ParamStep`), of which the model's are a part.
* Log ring (`CopiesHold`, `QueuesHold`): `LogInv`, that the slots between the
  cursors hold the lines not yet put out, each at its place, and that the drain
  copies from the oldest one, which nobody writes before it is released.
* Ultra-light queue (`QueuesHold`): `UltraInv`, the same for its slots.
* Recorder (`CopiesHold`): `RecorderLag`, how far the main loop is behind, what it
  skipped and whether it has counted that; `RecorderRing`, that each of the newest
  frames is in its slot; `RecorderCopy`, that a copy that was not overtaken is of
  one frame. `GoodFrame` follows only where the second look at the head, after the
  copy, is what `RecorderCopy` is relative to.
* Stream (`OwnersHold`, `QueuesHold`): `StreamOwners`, who fills and who reads each
  block; `StreamOrder`, that a block waiting has an age (the numbers that went by,
  which come round) below half a round and what was committed before it is older;
  `StreamFlag`, that the flag of a drain is set while a block is ready or may become
  ready again. Without the age of a block that is being published the order is not
  inductive.
* `TypesHold`: the types of all of them, the size of the table of records among
  them.

`Ipc_proof` is about all of `MCIpc`: for every value of its constants that
`ChannelsAssumption` and `IpcAssumption` allow (at least one source, two places in a
ring, one word; numbers that tell a full ring from a lap), so for every number of
sources, depth, room, budget, number of words and modulus. `ChannelsHold`, `AlarmsHold`,
`QueuesHold` and `RegisterHolds` state the four properties of the run `ipc`; none is
inductive. Whether an event, a block or a frame is taken for damaged is decided
by a number that was given long before it is compared, and what an item is worth
depends on the words stored while nobody looked. The inductive invariants say
where those numbers and words are in between:

* Rings of events (`EventsInv`): what a ring holds is numbered one after the other,
  from the last number the target has seen to the one given last; an event that
  was delivered but not yet taken out (the target between its two steps) is the one
  exception, `Behind`. `EventLine` and `EventSource` tie this to what each end of the
  ring is in the middle of.
* Command ring (`FifoInv`) and relay (`RelayInv`): the places from tail to head
  hold whole items, the words a writer has copied and those a reader has are of
  one item, and the place at the head is not among those the reader may be in.
  `RelayNumbers` adds that stamps and numbers go on from the last block that passed;
  it needs that both CPUs are bound before the relay is opened (`RelayBound`).
* Telemetry channel (`LatestInv`). `ChainInv`: the stores on their way continue the
  number the reading CPU sees, one by one, and all others are made while it is odd.
  `ReaderInv`: the distance of the number from the one a call began with is twice the
  commits that ended since, and one more inside a commit; with the bound `InWindow`
  the number compared at the end is therefore equal only when nothing happened.
  `WeakInv`: a checksum is followed at once by the number that ends its commit, so
  when that number arrives, the checksum seen is that of the frame or of a newer
  one; this is all that is left when stores overtake each other, and it is enough
  for whole frames that are not stale. `OrderedInv`: with stores in order, payload and
  checksum are known after each prefix of what is on its way, which makes the
  channel a register without false alarms. The theorem has the same exception as the
  run: the modulus `LatestMod` bounds how many commits a single call may last.

`Timing_proof` is about all of `MCTiming`: for every value of its constants that
`HrtAssumption` and `TimingAssumption` allow, so for every number of slots, their
periods, the width of the tick counter and the latest a pass may be; for every
set of modules and CPUs, timeout, duty and assignment of the feeding; for every
number of priorities, depth, burst, fan-out and number of ids. `PeriodsHold`,
`FeedsHold`, `ReachHolds`, `OrderHolds` and `TypesHold` state all properties of the run
`timing` but the liveness (`WhatIsDueComes`). Each part has one inductive invariant:

* Timer (`TimerInv`). That no period is run twice cannot be seen from `owed` alone: a
  slot is run when the wrapped counter has reached `nextTick`. `TimerKnows` ties the
  two: `nextTick` is now, plus a period, less the ticks owed, but for one round of
  the counter at most. A slot is owed `MaxLate` + 1 ticks at most, and `MaxLate` with a
  period is half a round at most, so the comparison by the sign of a difference is
  that of the numbers it stands for. `PassesInTime` says that the
  interrupt preempts the poll, and hence has read the clock later; `NoneLeftBehind`
  that a slot a pass has gone by does not owe a period that was due when that pass
  read the clock. Of it `NothingOverlooked` is the case of a pass that went by all;
  the slots that the interrupt serves while the poll is between two of them are why
  it is stated slot by slot.
* Watchdog (`WdgInv`). `CheckInsCount`: who counts as fed has checked in, no longer ago
  than the stamp says and since the last feed, and so has a call that is about to
  store its stamp. `ChangesAreTold`: a call that a registration or a reset disturbed
  finds another generation. These are what the decision after the gate needs, since
  it looks at stamps and generation once more. `GateKnows` relates the age of the
  last change the gate has noted to the silence of the CPU: by not more than the time
  between the clock and the look, which is where the property needs the main loop
  to be the only one that asks (section 5).
* Event queue (`EventsInv`). `OnePlace` and `FreeIsOut`: an entry has one place on one
  list, and none when its id is 0. `Walks`: a walk holds the depth, which closes the
  lists, and has called exactly the entries before the next one, so that
  `EveryoneCalled` is the case of a walk at its end. `Overtaken` is the invariant under
  `BoundedBypass`: the lowest priority was overtaken by a burst and one turn for each
  priority the cursor has gone by, plus the burst that is on. It is inductive because a
  turn goes to the first lower priority at or behind the cursor (`FairChoiceIs`), so
  that the cursor moves towards the lowest while that one waits (`TurnIs`).
  `FirstInFirstOut` follows from what a read and a write do to the sequence between
  two indices of a ring (`OneIsWritten`, `OldestIsRead`).

The bounds TLC needs of this model (`MaxChanges`, `CounterMax`, `BypassMax`) are any
numbers in the proofs. `bypassed` stops counting at `BypassMax`; for a `BypassMax` above
the bound of `BoundedBypass`, as in the run, the theorem is about every event taken.

`Control_proof` and `Periods_proof`, which it extends, are about the topics of
`MCControl` for every value of the constants that
`ControlAssumption` allows: the numbers of the instance above (times, limits, numbers of
domains, tables of modules, claims and slots, the two plans of activities) are constants
of `MCControl`, so the theorems are about any of them. An invariant of a part is kept by its own steps and
by those of all other topics, which leave its variables alone: `WhoMoves`,
`WhichDevice`, `WhichComponent`, `WhichPlan` and `WhichRun` say which step is whose, `DevicesGoOn`
and its like put the parts together.

* Session (`SessionHolds`), with any number of instances, budget and blocks, on the
  single-core and the routed build (the parameter `r` of the invariant): `SessionInv`.
  That nothing is left behind says
  something of rest only; `HooksInv` says for each step of the main loop how far the
  table is up: before `at` in an init, down to `at` in a stop, and in a start all of it
  at least initialised. An abort therefore stops everything that is up, though it begins at
  `init_done_count` and not where it failed. `CallsInv` gives the session in each step,
  so that a slot that runs, whose gate asks for an open session, meets no hook.
* Table of modules (`HooksHold`), for every finite set of modules with any domains and
  priorities: `ModulesInv`. `TableInv`: the table tells the truth of
  what the hooks have made, and a module outside it is off. `InitPart`, `StartPart` and
  `DeinitPart` say what a traversal has done before and behind the entry it is at, in
  its rollback as well; `HookPart` keeps for the hook that runs what was looked up before
  the lock was given back. A table of one domain that is initialised after a
  deinit of that domain alone is the case that needs `rem`. `Freezing` is the step between READY
  and the freezing of the subscriptions, in which the table is ready and not yet frozen. The theorem is for routed
  builds, and for builds for one CPU whose hooks do not call the lifecycle themselves
  (`Routed \/ MaxNest = 0`, as in the run): where they do, deinit begins a second
  traversal (section 5) and the properties do not hold.
* What drivers believe (`DevicesHoldTrue`, the invariant `DevicesAreTrue`) and in which
  order they do it (`DevicesStepInOrder`, the action properties `StepsInOrder`, of which
  `StopsGoDown` is the first). Both follow from one invariant per device:
  `SyncInv`: between two calls the state is that of the hardware, and in a call that is in
  TRANSITION all domains are off but the one the call works on and the active one.
  `LineInv`: a frame began no longer ago than its timeout and the time since the last look
  for it, which is what ends it in two polls. `LineDriven` adds, while the port reports
  no error, which steps of which call are about to turn the driver, so that it is on
  exactly while the direction says so everywhere else; `LineClean` adds, while the port
  keeps its time, that what is on the air is the frame of the direction. They are
  inductive one after the other, and only `LineInv` in the topic where the port fails.
  `AxisInv`: DIR turns only with STEP low in a call or at the end of a hold, a running axis
  is stepped in its direction, and the time that STEP has been high (DIR has been steady)
  and the time left on the timer are together what the driver asks for; the last without
  the steps of a call that is about to turn DIR. It is of an axis with the timer masked during
  calls; `BareInv` is what is left of it when the interrupt comes between their steps: the DIR pin
  is as `dir` says unless a hold is pending or a call is between the two, which gives
  `StepsAreCounted`, and the timer of a running axis is armed. `InputInv`: while the filtered level
  differs from the one read, the clock since the last change is the number of equal
  reads; an input with both edges is as the last edge found it. `MotorInv`: the timer of a
  phase is not ahead of the steps made in it, except between two stores of a begin that a
  fault interrupted, when it is not ahead of the interrupts of that call. `BatteryInv`: the
  factor is down by as many steps as there were samples outside the limits.
  `BucketInv`: what was admitted above the rate since any moment and what the bucket would
  hold if it were filled now are together no more than the burst, although the clock wraps
  between. `SessionInv` gives the order of the stops; that a failed init of a pipeline
  leaves nothing prepared needs no invariant.
* Admission (`AdmissionHolds`, the invariant `AdmitsWhatWorks`). `ClaimsInv`: the verdict is
  that of the three passes; that these refuse exactly the tables in which one that writes
  meets another user is a statement about sets of claims (`CompatibleIs` and the lemmas
  after it). `FillingInv`: until it is built a table of slots has only what was registered.
  `PartitionInv`: a partition that stands passed `BuildOk` with the owners it was given, and
  the claims of a profile were checked against the topology that still stands.
* Periods (`PeriodsKept`, the property `PeriodsAreKept`), for every plan of activities, of
  any length, periods, budget of the main loop and nesting of ticks. `TtInv`:
  `TurnsOfTicks`: ticks that preempt one another stand at different activities when each is
  within a turn, and a tick has written the words of the buffer it has gone by;
  `TurnOfMain`: the same of the main loop, whose activity is pending and within the budget;
  `Outputs`: the buffer that waits behind the one being written is whole, what is published
  is whole and at least one activation old, and an output of the main loop that is not
  published yet is as old as overruns are counted, which is why one that is late is counted.
  These hold however ticks preempt one another. `Timely` is for ticks that end before the
  next (`nest` 1, the topic schedule): `GapIs` tells the ticks since an activation by the
  index of the tick in its frame, from which the period follows although the frame wraps;
  `MissesAre` ties the counter of misses to the activations since the input was published,
  saturated one above the limit, which is what makes "stale" mean stale; `RunsInTick`: an
  activity of the ISR domain runs within its tick, on what was frozen in it.
* Ticker (in `PeriodsKept`), for any slots, periods, limit of the catch-up and room in the
  queue. `TickerInv`: what was due when the poll came to a slot is what the poll has done
  about it (published, refused, skipped) and what is still due by the clock it read; nothing
  is counted as dropped before a refusal or the limit. The division in `Skip` counts whole
  periods because a skip is begun behind time.
* Types (`TypesHold`, the invariant `TypesOK`), from all of these. It has the hypothesis of
  `HooksHold`: a hook that begins a second traversal can empty the table under the first.

Conditions that some of these need are part of the properties, and of their comments, since
the code promises nothing without them; section 5 has what happens otherwise:

* the steps of the axis are what its position says, and its pins keep their times, where the
  application masks the timer's interrupt during the calls (topics `axis` and `swift_axis`); the
  topics `bare_axis` and `bare_swift_axis` check what holds where it does not;
* STEP rises with DIR steady for `dir_setup_us` where no half period is shorter than that time
  (`Unhurried`);
* the driver of the line is on exactly while it says so as long as the port reports no error
  (every topic but `failing_line`), and the end of a frame is seen after its last byte where
  frames end and polls come before the timeout (`InTime`);
* a table of activities is accepted exactly if it can be kept for every `minor_us` but the largest
  word, which the run has too; slots are on time where no deadline is longer than its period;
  a regulator does not wind up where its limit is not the end of the numbers; a profile keeps its
  speed and is where it says if it was reset to rest; of one that was reset at a speed, a step
  makes it no faster than it was or may be, and says `done` only at rest at the target;
* a later source of events is served where the queue has room beyond the shares of the sources
  before it (part `events`), or once these are silent (`tight_events`).

All proofs rest on the named ASSUMEs of the modules and the hypotheses named above
only. A hypothesis on machines or storages is a hypothesis of the theorem.

The runs `bus_latest` and `multicore` have one build each; the single-core bus
(`Locked`) and the start-up without the hard real-time profile (`HardRt` FALSE)
are covered by the theorems.

Only model-checked:

* All liveness (`CallsReturn`, `StartupSettles`, `DrainsKeepUp`, `WhatIsDueComes`): TLAPS does
  not prove WF/SF and ENABLED here.
* `LoopsAreExact`. That an admitted table of slots is never late and that a table of activities
  is accepted exactly if it can be kept compare what the code computes by iteration
  with what would happen; what a chain of nodes makes of a block is defined from node to
  node; windows are sums over sequences. These are recursive functions, and what they
  compute for every input needs an induction over data. Rounded products of fixed-point
  numbers are nonlinear arithmetic.

Every other property of the passing runs is stated by a theorem.

No module declares a RECURSIVE operator.

## 5. Disagreements found

Four are shown by a run; `findings` in `PROJECT.json` quotes the sentence of the
code or its documents.

1. `bus_latest_delayed`: release and acquire do not order the reader's mark
   before its second look at the published slot; on such hardware a borrowed slot
   can be written.
2. `bus_signal_late`: the loads of a SIGNAL reader's copy are not ordered before
   the check in release.
3. `hrt_start_race`: the losing start stops the winner's timer. `StartedRuns`
   speaks of the moments in which no start of the main loop is under way, so that what a
   start clears on its way does not count; the trace ends with the stop at 430-432.
4. `stepper_hold`: the timer's adapter only shortens the time that runs, so on a
   reversal DIR turns before STEP has been low for `dir_hold_us`.

The others are behaviours of the models that TLC showed while they were written,
or of the code next to what is modelled. No run of the project repeats them; a
property that fails is not stated.

* Events: the cursor of fairness can pass a middle priority for ever
  (`bm_event.c:907`). `WhatIsDueComes` states what does hold, of the lowest.
* Modules on one CPU: deinit lacks the guard of the other traversals, so a hook
  can begin a second one (`bm_module.c:615`); deinit of a domain turns a failed
  table READY (`bm_module.c:911`); subscriptions are frozen before start hooks run.
  `HooksInOrder` shows the routed build has neither of the first two.
* Events between CPUs: one the target refuses for good (its type is not
  registered there) stays at the tail of its ring and ends every drain
  (`bm_mp_ipc_matrix.c:298-314`), though the comment takes every refusal for a
  full queue. A full queue is enough where it has no room beyond the first
  sources' shares: with the shipped sizes (a queue of 16 events over four
  priorities, hence four places of each, and a share of four per source) the first
  source can fill the places of a priority in every drain, the first event of a
  later source of that priority is refused, and the refusal ends the drain; so
  that source may wait for ever, though 309-312 calls the refusal recoverable in
  the next round. The comment at 256 (one message lost in 2^32) is out of date:
  `bm_mp_ipc_event_publish` leaves out number 0 (190-193), and none is lost.
* LATEST channel between CPUs: a plain store may overtake the store of the odd
  sequence number, and a good frame is then reported as damaged
  (`bm_mp_ipc_backend.c:240`); sequence number 0 means "never published" also after
  2^32 of them (280).
* Start-up: a published failure is overwritten by the phase of a CPU whose round
  was over (`bm_mp_boot.c:347`). `StartupSettles` holds nevertheless.
* High-resolution timer: a start that the hardware refuses has cleared the callback
  (`bm_hrt.c:421-426`), also that of another context's start that succeeded meanwhile.
* Execution: a table that differs from the one initialised is found out late in
  `bm_exec_start_all`, after instances were started (`bm_exec.c:884`).
* Gate: when the main loop and an interrupt both feed, the interrupt's look can
  change a heartbeat's stamp after the main loop has read its clock; the unsigned
  difference then wraps and a live CPU is found stalled (`bm_mp_wdg.c:85`). So
  that the gate closes on silent CPUs only is checked where only the main loop
  feeds (in `FeedsAreEarned`, where `setup.feeders` is the main loop alone).
* Memory pool: `bm_mempool_free` throws away the BUSY of `bm_mempool_try_free`
  (`bm_mempool.c:311`): a block freed while the lock is taken stays allocated for
  good. Recorder: `dropped` counts one for an overrun found while copying, however
  many frames it lost, though `bm_recorder.h:51` calls it the number of frames.
* Parameters: a save that fails halfway leaves the table of records with some new
  values; the next commit of anyone else makes that mixture durable. The sequence
  number of the flash slots wraps after 2^32 saves, and the older slot then wins.
* Time-triggered schedule: the overflow check of a frame saturates, so with
  `minor_us` UINT32_MAX no frame is too long; the age of the inputs of an activity
  of the main loop that is starved counts from their freezing; an interrupt that
  polls while the tick is under way can make it skip an activity without counting
  it (`bm_tt_schedule.c:648-726`).
* Schedule of a CPU: the analysis looks at the first job after the critical
  instant only, so a slot whose deadline is longer than its period can be admitted
  and a later job be late (costs 26 of 70, and 62 of 100 with a deadline of 115: a
  later job takes 118); `bus_interference` of a higher slot is not
  charged to lower ones; blocking must be declared for every slot it reaches.
* Partition: `bm_mp_partition.h:63` says that the owner of an invalid event type is
  0, the code answers BM_CPU_ANY. Without topology entries every claim is admitted.
* RS-485: `now` is read before the interrupt sets the end of the transmission, the
  unsigned difference wraps and the delay after a frame is skipped
  (`bm_rs485.c:474, 523`), or the line is taken for idle (585); an end that comes
  after its timeout ends the next frame early; a port that fails between 426 and
  428 leaves the driver on with the direction receiving; the poll that ends the
  delay before a frame sets the direction without looking at it again (488-491), so
  a fault between the two looks is overwritten; a timeout does not stop
  the DMA; a reset stops reception and nothing starts it again.
* Stepper: a change of speed shortens the set-up time after a reversal; a stop
  and a start turn DIR at once; a reversal lowers STEP without its minimum high
  time; the calls take no lock (182-263), so that a timer interrupt that is not masked
  breaks the position when it comes while a call turns the direction, or starts an
  axis whose timer was left armed; `StepsAreCounted` names these steps.
* Inputs: a polled limit switch that is active low and pressed at reset is not
  reported until it was released; one driven by edges is not read at init, and one
  driven by rising edges only never clears `triggered`.
* Motor: reset keeps the command, so a motor that is still commanded starts again;
  safe stop and start enable the outputs with the old duty until the next step; a
  reset between the steps of a loop's pass is undone by it; a main loop that is
  preempted in the start for the whole time of an alignment shortens it.
* Derating: failed reads stop the ramp and the recovery time as well; a safe stop
  sets the factor to 1. Transport: reset leaves the bucket empty where init fills it.
* Pipeline: a bypassed node that declares one format only passes the check and
  fails at run time; initialising a pipeline again that fails at node k leaves the
  nodes from k on prepared by the first.
* Fixed point: a regulator whose `out_max` is the highest number winds up, because
  the sum is saturated before it is compared with the limit
  (`bm_algo_fixed.c:329`, 424, 875, 962; the tests configure exactly this);
  `NoWindup` holds for smaller limits. A window of rms that has grown overwrites a
  newer sample before an older one (1239-1247), though the comment says it heals
  itself. A profile that reaches its target stops there whatever its speed (1003), and
  one that is reset with a velocity says `done` while it moves (914-923), until it is
  given a target.
  A ramp whose step is below one unit never arrives; a filter stops short of a
  rising input but not of a falling one; charge and energy are rounded down, so
  they drift; the projection of `svpwm` overflows 32 bits (550-554) at full scale.
* WCET monitor: the sink is read inside the critical section and its user outside
  (`bm_wcet_mon.c:168-172`); a change between pairs the old sink with the new user.

## 6. Assumptions and limits

* A critical section is one step. The ports' interrupt masking and the
  architecture code are not modelled.
* Payloads are model values, numbers or the history of what was done to them; a
  checksum detects every torn frame (CRC collisions are left out).
* Counters of statistics are left out where no property speaks of them.
* `IpcEvents` leaves out the command snapshots and the doorbells; `StreamRelay`
  has one relay; `Exec` reduces the validation of the table to one refusal;
  `Stream` leaves out the adapter to `bm_bus`; `HrtTimer` models
  `BM_CONFIG_HRT_RUN_MISSED_CALLBACK` 0 only, and saturation of `deadline_missed`
  is left out.
* `MaxLate` of `HrtTimer` keeps differences below half a round, as
  `bm_time_reached_u32` requires. It is a guard of `Tick`: the proofs are for every
  `MaxLate` for which `HrtAssumption` holds, and say nothing of a CPU that does not look
  at a slot for longer.
* The hardware of `Sync`, `Rs485`, `StepperPulse` and the flash does what its driver
  in the repository says, or fails; the execution of `MpSchedule` and the nodes of
  `Pipeline` are the environment's.
* `StepperPulse` reads and stores what `set_velocity` does before its first pin in one
  step, and `stop` and `reset` are one step each, also where the interrupt is not masked.
* `Watchdog` looks at the other CPUs in any order; the runs have one of them at most.
* `ModuleLifecycle` is run with nested calls of hooks on the routed build only
  (`MaxNest` is 0 for the single-core build, where section 5 has what they do).
* `FixedPoint` has positive time steps, gains and rates; other ones are refused or
  make no sense. Factors of `Derating` are whole parts.

### Not modelled

* The floating-point algorithms (`bm_algo_control.c`, `bm_algo_filter.c`,
  `bm_algo_audio.c`, `bm_algo_features.c`, `bmp_algo_motor.c` and others), the
  functions of `bm_algo_fixed.c` that convert to float, and the components that are
  loops around them: TLC has no real numbers, and a model with others in their
  place would say nothing of their rounding. They are the largest part of the
  source.
* Vendored libraries, drivers, ports, boards and demos: input and output of one
  chip, or uses of what is modelled.
* Shell, log output, health and WCET monitors: they format and report.

## 7. Plan

Done: the components of section 2, and the proofs of section 4.

Next, in this order:

1. Proofs of the loops of `FixedPoint` that have no window, of which `LoopsAreExact` has the
   ones that need no multiplication.
2. Command snapshots and doorbells in `IpcEvents`; several relays in `StreamRelay`.
3. `process_sequence.c` and `tmc2209.c` as further topics of `MCControl`.
4. A composition of `MpBoot`, `Exec` and `HrtTimer`: when slots may first run.
