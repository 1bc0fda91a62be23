-------------------------------- MODULE MpBoot --------------------------------
(* The start-up of the CPUs (Source/mp/bm_mp_boot.c, with the order of calls   *)
(* of bm_mp_cpu_secondary_entry and of the bootstrap CPU's application).       *)
(*                                                                             *)
(* The bootstrap CPU builds the partition and the profile and announces both   *)
(* in the shared boot_phase; the others wait for that.  Then all of them meet  *)
(* at four barriers, the last of which releases their interrupts.  A CPU that  *)
(* fails, or waits too long, publishes BM_MP_BOOT_FAILED in boot_phase, which  *)
(* the others read while they wait.  A barrier is a word per CPU and a loop    *)
(* that looks at them one by one.                                              *)
EXTENDS Naturals, TLAPS

CONSTANTS
    NCpus,   \* BM_CONFIG_CPU_COUNT
    HardRt   \* BM_CONFIG_MP_HARD_RT_PROFILE

ASSUME BootAssumption ==
    /\ NCpus \in Nat \ {0}
    /\ HardRt \in BOOLEAN

Cpus == 0 .. NCpus - 1
Bootstrap == 0

\* bm_mp_boot_phase_t
Init0 == 0
PartitionReady == 1
ProfileReady == 2
RuntimeReady == 3
InitReady == 4
StartReady == 5
IrqRelease == 6
Failed == 7

VARIABLES
    bootPhase, bootEpoch, cpuReady,  \* the shared matrix
    profileBuilt,                    \* s_profile_built
    phase, irqReleased,              \* s_boot_cpu[]
    pc,                              \* where each CPU is,
    stage,                           \* the barrier it is at or comes to next,
    scanned,                         \* and the CPUs it has found ready there
    passed                           \* history: the last barrier it has passed

matrix == <<bootPhase, bootEpoch, cpuReady>>
vars == <<matrix, profileBuilt, phase, irqReleased, pc, stage, scanned, passed>>

Init ==
    /\ bootPhase = Init0 /\ bootEpoch = 0
    /\ cpuReady = [c \in Cpus |-> 0]
    /\ profileBuilt = FALSE
    /\ phase = [c \in Cpus |-> Init0]
    /\ irqReleased = [c \in Cpus |-> FALSE]
    /\ pc = [c \in Cpus |-> IF c = Bootstrap THEN "build" ELSE "waitPartition"]
    /\ stage = [c \in Cpus |-> RuntimeReady]
    /\ scanned = [c \in Cpus |-> 0]
    /\ passed = [c \in Cpus |-> 0]

Goto(c, label) == pc' = [pc EXCEPT ![c] = label]

\* boot_publish_failed: this CPU's phase, then everybody's.
PublishFailed(c) ==
    /\ phase' = [phase EXCEPT ![c] = Failed]
    /\ bootPhase' = Failed
    /\ Goto(c, "failed")
    /\ UNCHANGED <<bootEpoch, cpuReady, profileBuilt, irqReleased, stage, scanned, passed>>

-----------------------------------------------------------------------------
(* The bootstrap CPU: bm_mp_boot_bootstrap_sequence, bm_mp_profile_build.     *)

BuildPartition(c) ==
    /\ pc[c] = "build"
    /\ phase' = [phase EXCEPT ![c] = PartitionReady]
    /\ Goto(c, "epoch")
    /\ UNCHANGED <<matrix, profileBuilt, irqReleased, stage, scanned, passed>>

RefusePartition(c) == pc[c] = "build" /\ PublishFailed(c)

\* A store per word: the epoch first, the phase that announces it last.
BumpEpoch(c) ==
    /\ pc[c] = "epoch"
    /\ bootEpoch' = bootEpoch + 1
    /\ Goto(c, "announce")
    /\ UNCHANGED <<bootPhase, cpuReady, profileBuilt, phase, irqReleased, stage, scanned, passed>>

AnnouncePartition(c) ==
    /\ pc[c] = "announce"
    /\ bootPhase' = PartitionReady
    /\ Goto(c, "profile")
    /\ UNCHANGED <<bootEpoch, cpuReady, profileBuilt, phase, irqReleased, stage, scanned, passed>>

BuildProfile(c) ==
    /\ pc[c] = "profile"
    /\ profileBuilt' = TRUE
    /\ Goto(c, IF HardRt THEN "signal" ELSE "attach")
    /\ UNCHANGED <<matrix, phase, irqReleased, stage, scanned, passed>>

\* A profile that is refused ends the bootstrap CPU without a word to the others.
RefuseProfile(c) ==
    /\ pc[c] = "profile"
    /\ Goto(c, "failed")
    /\ UNCHANGED <<matrix, profileBuilt, phase, irqReleased, stage, scanned, passed>>

SignalProfile(c) ==
    /\ pc[c] = "signal"
    /\ phase' = [phase EXCEPT ![c] = ProfileReady]
    /\ bootPhase' = ProfileReady
    /\ Goto(c, "attach")
    /\ UNCHANGED <<bootEpoch, cpuReady, profileBuilt, irqReleased, stage, scanned, passed>>

-----------------------------------------------------------------------------
(* The other CPUs: bm_mp_boot_wait_matrix_phase.                              *)

NoneAwaited(c) == Init0
Awaited(c) == IF pc[c] = "waitPartition" THEN PartitionReady ELSE ProfileReady

AfterWait(c) ==
    IF pc[c] = "waitPartition" /\ HardRt THEN "waitProfile" ELSE "attach"

WaitPhase(c) ==
    /\ pc[c] \in {"waitPartition", "waitProfile"}
    /\ bootPhase # Failed /\ bootPhase >= Awaited(c)
    /\ Goto(c, AfterWait(c))
    /\ UNCHANGED <<matrix, profileBuilt, phase, irqReleased, stage, scanned, passed>>

\* BM_MP_BOOT_FAILED was seen, or the wait was too long.
AbandonWait(c) ==
    /\ pc[c] \in {"waitPartition", "waitProfile"}
    /\ PublishFailed(c)

-----------------------------------------------------------------------------
(* Every CPU: attach, then the barriers.                                      *)

Attachable == bootEpoch # 0 /\ (HardRt => profileBuilt)

Attach(c) ==
    /\ pc[c] = "attach"
    /\ Attachable
    /\ phase' = [phase EXCEPT ![c] = RuntimeReady]
    /\ Goto(c, "arrive")
    /\ UNCHANGED <<matrix, profileBuilt, irqReleased, stage, scanned, passed>>

\* Something is missing, or the registration of this CPU's events failed.
FailToAttach(c) == pc[c] = "attach" /\ PublishFailed(c)

\* A CPU comes to a barrier once: a second time it would be turned away, and none
\* of the callers tries (the model would be stuck here if one did).
Arrive(c) ==
    /\ pc[c] = "arrive"
    /\ cpuReady[c] < stage[c]
    /\ cpuReady' = [cpuReady EXCEPT ![c] = stage[c]]
    /\ Goto(c, "check")
    /\ UNCHANGED <<bootPhase, bootEpoch, profileBuilt, phase, irqReleased,
                   stage, scanned, passed>>

SeeFailure(c) == pc[c] = "check" /\ bootPhase = Failed /\ PublishFailed(c)

BeginRound(c) ==
    /\ pc[c] = "check"
    /\ bootPhase # Failed
    /\ scanned' = [scanned EXCEPT ![c] = 0]
    /\ Goto(c, "scan")
    /\ UNCHANGED <<matrix, profileBuilt, phase, irqReleased, stage, passed>>

IsNearlyReady(d, c) == cpuReady[d] + 1 >= stage[c]
IsReady(d, c) == cpuReady[d] >= stage[c]

\* One CPU after the other; the first that is not ready ends the round.
FindReady(c) ==
    /\ pc[c] = "scan"
    /\ IsReady(scanned[c], c)
    /\ scanned' = [scanned EXCEPT ![c] = scanned[c] + 1]
    /\ Goto(c, IF scanned[c] + 1 = NCpus THEN "pass" ELSE "scan")
    /\ UNCHANGED <<matrix, profileBuilt, phase, irqReleased, stage, passed>>

FindLate(c) ==
    /\ pc[c] = "scan"
    /\ ~IsReady(scanned[c], c)
    /\ Goto(c, "retry")
    /\ UNCHANGED <<matrix, profileBuilt, phase, irqReleased, stage, scanned, passed>>

Yield(c) ==
    /\ pc[c] = "retry"
    /\ Goto(c, "check")
    /\ UNCHANGED <<matrix, profileBuilt, phase, irqReleased, stage, scanned, passed>>

\* bm_mp_barrier_wait replaces a timeout of 0 by the default, so every wait ends.
WaitForEver(c) == FALSE
TimeOut(c) ==
    /\ pc[c] = "retry"
    /\ PublishFailed(c)

StageOn(c) == stage[c] + 1
NextStage(c) == IF stage[c] = IrqRelease THEN IrqRelease ELSE stage[c] + 1

\* The round found everybody ready; boot_phase is stored, whatever it holds by now.
Pass(c) ==
    /\ pc[c] = "pass"
    /\ bootPhase' = stage[c]
    /\ phase' = [phase EXCEPT ![c] = stage[c]]
    /\ irqReleased' = [irqReleased EXCEPT ![c] = (stage[c] = IrqRelease)]
    /\ passed' = [passed EXCEPT ![c] = stage[c]]
    /\ scanned' = [scanned EXCEPT ![c] = 0]
    /\ stage' = [stage EXCEPT ![c] = NextStage(c)]
    /\ Goto(c, CASE stage[c] = RuntimeReady -> "hook"
                 [] stage[c] = IrqRelease -> "running"
                 [] OTHER -> "arrive")
    /\ UNCHANGED <<bootEpoch, cpuReady, profileBuilt>>

\* The application's own initialisation of this CPU.
RunInitHook(c) ==
    /\ pc[c] = "hook"
    /\ Goto(c, "arrive")
    /\ UNCHANGED <<matrix, profileBuilt, phase, irqReleased, stage, scanned, passed>>

FailInitHook(c) == pc[c] = "hook" /\ PublishFailed(c)

Step(c) ==
    \/ BuildPartition(c) \/ RefusePartition(c) \/ BumpEpoch(c) \/ AnnouncePartition(c)
    \/ BuildProfile(c) \/ RefuseProfile(c) \/ SignalProfile(c)
    \/ WaitPhase(c) \/ AbandonWait(c)
    \/ Attach(c) \/ FailToAttach(c)
    \/ Arrive(c) \/ SeeFailure(c) \/ BeginRound(c) \/ FindReady(c) \/ FindLate(c)
    \/ Yield(c) \/ TimeOut(c) \/ Pass(c)
    \/ RunInitHook(c) \/ FailInitHook(c)

Done == \A c \in Cpus : pc[c] \in {"running", "failed"}

Next ==
    \/ \E c \in Cpus : Step(c)
    \/ Done /\ UNCHANGED vars

Spec == Init /\ [][Next]_vars

-----------------------------------------------------------------------------
Labels ==
    {"build", "epoch", "announce", "profile", "signal", "waitPartition", "waitProfile",
     "attach", "arrive", "check", "scan", "retry", "pass", "hook", "running", "failed"}

\* The state is well-formed.
TypeOK ==
    /\ bootPhase \in Init0 .. Failed
    /\ bootEpoch \in Nat
    /\ cpuReady \in [Cpus -> 0 .. IrqRelease]
    /\ profileBuilt \in BOOLEAN
    /\ phase \in [Cpus -> Init0 .. Failed]
    /\ irqReleased \in [Cpus -> BOOLEAN]
    /\ pc \in [Cpus -> Labels]
    /\ stage \in [Cpus -> RuntimeReady .. IrqRelease]
    /\ scanned \in [Cpus -> 0 .. NCpus]
    /\ passed \in [Cpus -> 0 .. IrqRelease]

\* A CPU that has passed a barrier has left nobody behind it: every CPU has come to
\* that barrier, so no CPU runs with its interrupts released while another still
\* initialises, although a barrier is read one word at a time and a CPU that gave
\* up is not asked (bm_mp_boot.c:324-348, 409).
Together ==
    \A c, d \in Cpus :
        /\ passed[c] <= cpuReady[d]
        /\ irqReleased[c] => cpuReady[d] = IrqRelease

\* What a CPU attaches to is complete: boot_phase announces the epoch, the partition
\* and the profile after they are stored, so a CPU that waited for it never takes a
\* partition for a missing or a foreign one (bm_mp_boot.c:133-147, 177-189).
AttachFindsAll == \A c \in Cpus : pc[c] = "attach" => Attachable

\* The shared phase never falls back to an earlier barrier, although every CPU
\* stores it and the last of them may be late; a failure alone may be overwritten
\* (bm_mp_boot.c:347).
PhaseNeverFallsBack == [][bootPhase = Failed \/ bootPhase' >= bootPhase]_vars

\* A CPU that fails on its way takes the others with it: none of them comes up
\* (bm_mp_boot.c:335-352).
FailureSpreads ==
    \A c, d \in Cpus :
        (pc[d] = "failed" /\ cpuReady[d] < IrqRelease) ~> (pc[c] = "failed")

-----------------------------------------------------------------------------
(* The theorems, for every number of CPUs and with or without the hard         *)
(* real-time profile: the state is well-formed, the CPUs pass the barriers     *)
(* together, and what a CPU attaches to is complete.                           *)

\* A round under way has seen the CPUs before `scanned` at the barrier, and a
\* word of cpu_ready never goes back, so they still are.
ScannedAreReady ==
    \A c, d \in Cpus :
        /\ (pc[c] = "scan" /\ d < scanned[c]) => cpuReady[d] >= stage[c]
        /\ pc[c] = "scan" => scanned[c] < NCpus
        /\ pc[c] = "pass" => cpuReady[d] >= stage[c]

PassedAreReady == \A c, d \in Cpus : passed[c] <= cpuReady[d]

ReleasedPassed == \A c \in Cpus : irqReleased[c] => passed[c] = IrqRelease

Rounds ==
    /\ ScannedAreReady
    /\ PassedAreReady
    /\ ReleasedPassed

BarrierInv == TypeOK /\ Rounds

\* Where the bootstrap CPU is tells what it has stored; it comes to no barrier
\* before it has stored all of it.
Complete == bootEpoch # 0 /\ (HardRt => profileBuilt)

BootstrapIsFirst ==
    /\ pc[Bootstrap] \in {"announce", "profile", "signal", "attach"} => bootEpoch # 0
    /\ pc[Bootstrap] \in {"signal", "attach"} => Complete
    /\ pc[Bootstrap] \in {"arrive", "check", "scan", "retry", "pass", "hook", "running"}
           => Complete
    /\ cpuReady[Bootstrap] > 0 => Complete
    /\ pc[Bootstrap] \notin {"waitPartition", "waitProfile"}

\* Only the bootstrap CPU builds.
OthersWait ==
    \A c \in Cpus \ {Bootstrap} :
        pc[c] \notin {"build", "epoch", "announce", "profile", "signal"}

AnnouncedIsStored ==
    /\ bootPhase \in PartitionReady .. IrqRelease => bootEpoch # 0
    /\ bootPhase \in ProfileReady .. IrqRelease => Complete
    /\ \A c \in Cpus : pc[c] = "waitProfile" => bootEpoch # 0 /\ HardRt
    /\ \A c \in Cpus : pc[c] = "attach" => Complete

Order ==
    /\ BootstrapIsFirst
    /\ OthersWait
    /\ AnnouncedIsStored

BootInv == BarrierInv /\ Order

-----------------------------------------------------------------------------
(* Every step preserves it: one step of the proof per action.                 *)

\* Publishing a failure does: the CPU only leaves.
LEMMA TypeStepFailed ==
    ASSUME BarrierInv, NEW c \in Cpus, PublishFailed(c)
    PROVE  TypeOK'
BY BootAssumption
   DEF PublishFailed, Goto, Cpus, BarrierInv, Rounds, ScannedAreReady, TypeOK,
       Labels, matrix, Init0, PartitionReady, ProfileReady, RuntimeReady,
       InitReady, StartReady, IrqRelease, Failed

\* A step keeps the state well-formed.
LEMMA TypeStep ==
    ASSUME BarrierInv, [Next]_vars
    PROVE  TypeOK'
<1> USE BootAssumption DEF Cpus, BarrierInv, Rounds, ScannedAreReady, TypeOK, Labels, matrix, Init0, PartitionReady, ProfileReady, RuntimeReady, InitReady, StartReady, IrqRelease, Failed
<1>1. ASSUME NEW c \in Cpus, BuildPartition(c) PROVE TypeOK'
  BY <1>1 DEF BuildPartition, Goto
<1>2. ASSUME NEW c \in Cpus, RefusePartition(c) PROVE TypeOK'
  BY <1>2, TypeStepFailed DEF RefusePartition
<1>3. ASSUME NEW c \in Cpus, BumpEpoch(c) PROVE TypeOK'
  BY <1>3 DEF BumpEpoch, Goto
<1>4. ASSUME NEW c \in Cpus, AnnouncePartition(c) PROVE TypeOK'
  BY <1>4 DEF AnnouncePartition, Goto
<1>5. ASSUME NEW c \in Cpus, BuildProfile(c) PROVE TypeOK'
  BY <1>5 DEF BuildProfile, Goto
<1>6. ASSUME NEW c \in Cpus, RefuseProfile(c) PROVE TypeOK'
  BY <1>6 DEF RefuseProfile, Goto
<1>7. ASSUME NEW c \in Cpus, SignalProfile(c) PROVE TypeOK'
  BY <1>7 DEF SignalProfile, Goto
<1>8. ASSUME NEW c \in Cpus, WaitPhase(c) PROVE TypeOK'
  BY <1>8 DEF WaitPhase, Goto, AfterWait, Awaited
<1>9. ASSUME NEW c \in Cpus, AbandonWait(c) PROVE TypeOK'
  BY <1>9, TypeStepFailed DEF AbandonWait
<1>10. ASSUME NEW c \in Cpus, Attach(c) PROVE TypeOK'
  BY <1>10 DEF Attach, Goto, Attachable
<1>11. ASSUME NEW c \in Cpus, FailToAttach(c) PROVE TypeOK'
  BY <1>11, TypeStepFailed DEF FailToAttach
<1>12. ASSUME NEW c \in Cpus, Arrive(c) PROVE TypeOK'
  BY <1>12 DEF Arrive, Goto
<1>13. ASSUME NEW c \in Cpus, SeeFailure(c) PROVE TypeOK'
  BY <1>13, TypeStepFailed DEF SeeFailure
<1>14. ASSUME NEW c \in Cpus, BeginRound(c) PROVE TypeOK'
  BY <1>14 DEF BeginRound, Goto
<1>15. ASSUME NEW c \in Cpus, FindReady(c) PROVE TypeOK'
  <2> HIDE BootAssumption DEF Cpus, BarrierInv, Rounds, ScannedAreReady, TypeOK, Labels, matrix, Init0, PartitionReady, ProfileReady, RuntimeReady, InitReady, StartReady, IrqRelease, Failed
  <2>1. NCpus \in Nat /\ scanned[c] \in 0 .. NCpus /\ scanned[c] < NCpus
    BY <1>15, BootAssumption
       DEF FindReady, BarrierInv, Rounds, ScannedAreReady, TypeOK
  <2>2. scanned[c] + 1 \in 0 .. NCpus
    BY <2>1
  <2>3. scanned' \in [Cpus -> 0 .. NCpus]
    BY <1>15, <2>2 DEF FindReady, BarrierInv, TypeOK
  <2>4. \E l \in Labels : pc' = [pc EXCEPT ![c] = l]
    BY <1>15 DEF FindReady, Goto, Labels
  <2>5. pc' \in [Cpus -> Labels]
    BY <2>4 DEF BarrierInv, TypeOK
  <2> QED
    <3>1. UNCHANGED <<bootPhase, bootEpoch, cpuReady, profileBuilt, phase, irqReleased,
                      stage, passed>>
      BY <1>15 DEF FindReady, matrix
    <3> QED
      BY <2>3, <2>5, <3>1 DEF Cpus, BarrierInv, TypeOK
<1>16. ASSUME NEW c \in Cpus, FindLate(c) PROVE TypeOK'
  BY <1>16 DEF FindLate, Goto, IsReady
<1>17. ASSUME NEW c \in Cpus, Yield(c) PROVE TypeOK'
  BY <1>17 DEF Yield, Goto
<1>18. ASSUME NEW c \in Cpus, TimeOut(c) PROVE TypeOK'
  BY <1>18, TypeStepFailed DEF TimeOut
<1>19. ASSUME NEW c \in Cpus, Pass(c) PROVE TypeOK'
  <2> HIDE BootAssumption DEF Cpus, BarrierInv, Rounds, ScannedAreReady, TypeOK, Labels, matrix, Init0, PartitionReady, ProfileReady, RuntimeReady, InitReady, StartReady, IrqRelease, Failed
  <2>1. stage[c] \in RuntimeReady .. IrqRelease
    BY DEF BarrierInv, TypeOK
  <2>2. /\ stage[c] \in Init0 .. Failed
        /\ stage[c] \in 0 .. IrqRelease
        /\ NextStage(c) \in RuntimeReady .. IrqRelease
        /\ 0 \in 0 .. NCpus
    BY <2>1, BootAssumption DEF NextStage, Init0, Failed, RuntimeReady, IrqRelease
  <2>3. \E l \in Labels : pc' = [pc EXCEPT ![c] = l]
    <3>1. CASE stage[c] = RuntimeReady
      BY <3>1, <1>19 DEF Pass, Goto, Labels, RuntimeReady, IrqRelease
    <3>2. CASE stage[c] # RuntimeReady /\ stage[c] = IrqRelease
      BY <3>2, <1>19 DEF Pass, Goto, Labels, RuntimeReady, IrqRelease
    <3>3. CASE stage[c] # RuntimeReady /\ stage[c] # IrqRelease
      BY <3>3, <1>19 DEF Pass, Goto, Labels, RuntimeReady, IrqRelease
    <3> QED
      BY <3>1, <3>2, <3>3
  <2>4. pc' \in [Cpus -> Labels]
    BY <2>3 DEF BarrierInv, TypeOK
  <2>5. bootPhase' \in Init0 .. Failed /\ phase' \in [Cpus -> Init0 .. Failed]
    BY <2>2, <1>19 DEF Pass, BarrierInv, TypeOK
  <2>6. /\ stage' \in [Cpus -> RuntimeReady .. IrqRelease]
        /\ scanned' \in [Cpus -> 0 .. NCpus]
        /\ passed' \in [Cpus -> 0 .. IrqRelease]
    BY <2>2, <1>19 DEF Pass, BarrierInv, TypeOK
  <2>7. irqReleased' \in [Cpus -> BOOLEAN]
    BY <1>19 DEF Pass, BarrierInv, TypeOK
  <2>8. UNCHANGED <<bootEpoch, cpuReady, profileBuilt>>
    BY <1>19 DEF Pass
  <2> QED
    BY <2>4, <2>5, <2>6, <2>7, <2>8 DEF Cpus, BarrierInv, TypeOK
<1>20. ASSUME NEW c \in Cpus, RunInitHook(c) PROVE TypeOK'
  BY <1>20 DEF RunInitHook, Goto
<1>21. ASSUME NEW c \in Cpus, FailInitHook(c) PROVE TypeOK'
  BY <1>21, TypeStepFailed DEF FailInitHook
<1>22. CASE UNCHANGED vars
  BY <1>22 DEF vars, matrix
<1> QED BY <1>1, <1>2, <1>3, <1>4, <1>5, <1>6, <1>7, <1>8, <1>9, <1>10, <1>11,
           <1>12, <1>13, <1>14, <1>15, <1>16, <1>17, <1>18, <1>19, <1>20, <1>21,
           <1>22
           DEF Next, Step

\* Publishing a failure does: the CPU only leaves.
LEMMA BarrierStepFailed ==
    ASSUME BarrierInv, NEW c \in Cpus, PublishFailed(c)
    PROVE  Rounds'
BY BootAssumption
   DEF PublishFailed, Goto, Cpus, BarrierInv, Rounds, TypeOK, Labels, matrix,
       ScannedAreReady, PassedAreReady, ReleasedPassed, Init0, PartitionReady,
       ProfileReady, RuntimeReady, InitReady, StartReady, IrqRelease, Failed

\* A step keeps what the rounds have found and the barriers have let through.
LEMMA BarrierStep ==
    ASSUME BarrierInv, [Next]_vars
    PROVE  Rounds'
<1> USE BootAssumption DEF Cpus, BarrierInv, Rounds, TypeOK, Labels, matrix, ScannedAreReady, PassedAreReady, ReleasedPassed, Init0, PartitionReady, ProfileReady, RuntimeReady, InitReady, StartReady, IrqRelease, Failed
<1>1. ASSUME NEW c \in Cpus, BuildPartition(c) PROVE Rounds'
  BY <1>1 DEF BuildPartition, Goto
<1>2. ASSUME NEW c \in Cpus, RefusePartition(c) PROVE Rounds'
  BY <1>2, BarrierStepFailed DEF RefusePartition
<1>3. ASSUME NEW c \in Cpus, BumpEpoch(c) PROVE Rounds'
  BY <1>3 DEF BumpEpoch, Goto
<1>4. ASSUME NEW c \in Cpus, AnnouncePartition(c) PROVE Rounds'
  BY <1>4 DEF AnnouncePartition, Goto
<1>5. ASSUME NEW c \in Cpus, BuildProfile(c) PROVE Rounds'
  BY <1>5 DEF BuildProfile, Goto
<1>6. ASSUME NEW c \in Cpus, RefuseProfile(c) PROVE Rounds'
  BY <1>6 DEF RefuseProfile, Goto
<1>7. ASSUME NEW c \in Cpus, SignalProfile(c) PROVE Rounds'
  BY <1>7 DEF SignalProfile, Goto
<1>8. ASSUME NEW c \in Cpus, WaitPhase(c) PROVE Rounds'
  BY <1>8 DEF WaitPhase, Goto, AfterWait, Awaited
<1>9. ASSUME NEW c \in Cpus, AbandonWait(c) PROVE Rounds'
  BY <1>9, BarrierStepFailed DEF AbandonWait
<1>10. ASSUME NEW c \in Cpus, Attach(c) PROVE Rounds'
  BY <1>10 DEF Attach, Goto, Attachable
<1>11. ASSUME NEW c \in Cpus, FailToAttach(c) PROVE Rounds'
  BY <1>11, BarrierStepFailed DEF FailToAttach
<1>12. ASSUME NEW c \in Cpus, Arrive(c) PROVE Rounds'
  <2> HIDE BootAssumption DEF Cpus, BarrierInv, Rounds, ScannedAreReady, PassedAreReady, ReleasedPassed, TypeOK, Labels, matrix, Init0, PartitionReady, ProfileReady, RuntimeReady, InitReady, StartReady, IrqRelease, Failed
  <2>1. /\ cpuReady \in [Cpus -> 0 .. IrqRelease]
        /\ stage \in [Cpus -> RuntimeReady .. IrqRelease]
        /\ passed \in [Cpus -> 0 .. IrqRelease]
        /\ pc \in [Cpus -> Labels]
    BY DEF BarrierInv, TypeOK
  <2>2. /\ pc' = [pc EXCEPT ![c] = "check"]
        /\ cpuReady' = [cpuReady EXCEPT ![c] = stage[c]]
        /\ cpuReady[c] < stage[c]
        /\ UNCHANGED <<stage, scanned, passed, irqReleased>>
    BY <1>12 DEF Arrive, Goto
  <2>3. \A d \in Cpus : /\ cpuReady[d] \in Nat /\ cpuReady'[d] \in Nat
                        /\ stage[d] \in Nat /\ passed[d] \in Nat
                        /\ cpuReady'[d] >= cpuReady[d]
    BY <2>1, <2>2 DEF RuntimeReady, IrqRelease
  <2>4. \A d \in Cpus : pc'[d] \in {"scan", "pass"} => pc[d] = pc'[d]
    BY <2>1, <2>2
  <2>5. ScannedAreReady
    BY DEF BarrierInv, Rounds
  <2>6. ScannedAreReady'
    <3> SUFFICES ASSUME NEW e \in Cpus, NEW d \in Cpus
                 PROVE  /\ (pc'[e] = "scan" /\ d < scanned[e]) => cpuReady'[d] >= stage[e]
                        /\ pc'[e] = "scan" => scanned[e] < NCpus
                        /\ pc'[e] = "pass" => cpuReady'[d] >= stage[e]
      BY <2>2 DEF ScannedAreReady, Cpus
    <3>1. /\ (pc[e] = "scan" /\ d < scanned[e]) => cpuReady[d] >= stage[e]
          /\ pc[e] = "scan" => scanned[e] < NCpus
          /\ pc[e] = "pass" => cpuReady[d] >= stage[e]
      BY <2>5 DEF ScannedAreReady
    <3> QED
      BY <2>3, <2>4, <3>1
  <2>7. PassedAreReady'
    <3> SUFFICES ASSUME NEW e \in Cpus, NEW d \in Cpus
                 PROVE  passed[e] <= cpuReady'[d]
      BY <2>2 DEF PassedAreReady, Cpus
    <3>1. passed[e] <= cpuReady[d]
      BY DEF BarrierInv, Rounds, PassedAreReady
    <3> QED
      BY <2>3, <3>1
  <2>8. ReleasedPassed'
    BY <2>2 DEF BarrierInv, Rounds, ReleasedPassed, Cpus
  <2> QED
    BY <2>6, <2>7, <2>8 DEF Rounds
<1>13. ASSUME NEW c \in Cpus, SeeFailure(c) PROVE Rounds'
  BY <1>13, BarrierStepFailed DEF SeeFailure
<1>14. ASSUME NEW c \in Cpus, BeginRound(c) PROVE Rounds'
  BY <1>14 DEF BeginRound, Goto
<1>15. ASSUME NEW c \in Cpus, FindReady(c) PROVE Rounds'
  BY <1>15 DEF FindReady, Goto, IsReady
<1>16. ASSUME NEW c \in Cpus, FindLate(c) PROVE Rounds'
  BY <1>16 DEF FindLate, Goto, IsReady
<1>17. ASSUME NEW c \in Cpus, Yield(c) PROVE Rounds'
  BY <1>17 DEF Yield, Goto
<1>18. ASSUME NEW c \in Cpus, TimeOut(c) PROVE Rounds'
  BY <1>18, BarrierStepFailed DEF TimeOut
<1>19. ASSUME NEW c \in Cpus, Pass(c) PROVE Rounds'
  BY <1>19 DEF Pass, Goto, NextStage
<1>20. ASSUME NEW c \in Cpus, RunInitHook(c) PROVE Rounds'
  BY <1>20 DEF RunInitHook, Goto
<1>21. ASSUME NEW c \in Cpus, FailInitHook(c) PROVE Rounds'
  BY <1>21, BarrierStepFailed DEF FailInitHook
<1>22. CASE UNCHANGED vars
  BY <1>22 DEF vars, matrix
<1> QED BY <1>1, <1>2, <1>3, <1>4, <1>5, <1>6, <1>7, <1>8, <1>9, <1>10, <1>11,
           <1>12, <1>13, <1>14, <1>15, <1>16, <1>17, <1>18, <1>19, <1>20, <1>21,
           <1>22
           DEF Next, Step

\* Publishing a failure does: the CPU only leaves.
LEMMA OrderStepFailed ==
    ASSUME BootInv, NEW c \in Cpus, PublishFailed(c)
    PROVE  Order'
BY BootAssumption
   DEF PublishFailed, Goto, Cpus, BootInv, BarrierInv, Rounds, Order, TypeOK,
       Labels, matrix, ScannedAreReady, BootstrapIsFirst, OthersWait,
       AnnouncedIsStored, Complete, Bootstrap, Init0, PartitionReady, ProfileReady,
       RuntimeReady, InitReady, StartReady, IrqRelease, Failed

\* A step keeps the order in which the bootstrap CPU stores and announces.
LEMMA OrderStep ==
    ASSUME BootInv, [Next]_vars
    PROVE  Order'
<1> USE BootAssumption DEF Cpus, BootInv, BarrierInv, Rounds, Order, TypeOK, Labels, matrix, ScannedAreReady, BootstrapIsFirst, OthersWait, AnnouncedIsStored, Complete, Bootstrap, Init0, PartitionReady, ProfileReady, RuntimeReady, InitReady, StartReady, IrqRelease, Failed
<1>1. ASSUME NEW c \in Cpus, BuildPartition(c) PROVE Order'
  BY <1>1 DEF BuildPartition, Goto
<1>2. ASSUME NEW c \in Cpus, RefusePartition(c) PROVE Order'
  BY <1>2, OrderStepFailed DEF RefusePartition
<1>3. ASSUME NEW c \in Cpus, BumpEpoch(c) PROVE Order'
  BY <1>3 DEF BumpEpoch, Goto
<1>4. ASSUME NEW c \in Cpus, AnnouncePartition(c) PROVE Order'
  BY <1>4 DEF AnnouncePartition, Goto
<1>5. ASSUME NEW c \in Cpus, BuildProfile(c) PROVE Order'
  BY <1>5 DEF BuildProfile, Goto
<1>6. ASSUME NEW c \in Cpus, RefuseProfile(c) PROVE Order'
  BY <1>6 DEF RefuseProfile, Goto
<1>7. ASSUME NEW c \in Cpus, SignalProfile(c) PROVE Order'
  BY <1>7 DEF SignalProfile, Goto
<1>8. ASSUME NEW c \in Cpus, WaitPhase(c) PROVE Order'
  BY <1>8 DEF WaitPhase, Goto, AfterWait, Awaited
<1>9. ASSUME NEW c \in Cpus, AbandonWait(c) PROVE Order'
  BY <1>9, OrderStepFailed DEF AbandonWait
<1>10. ASSUME NEW c \in Cpus, Attach(c) PROVE Order'
  BY <1>10 DEF Attach, Goto, Attachable
<1>11. ASSUME NEW c \in Cpus, FailToAttach(c) PROVE Order'
  BY <1>11, OrderStepFailed DEF FailToAttach
<1>12. ASSUME NEW c \in Cpus, Arrive(c) PROVE Order'
  BY <1>12 DEF Arrive, Goto
<1>13. ASSUME NEW c \in Cpus, SeeFailure(c) PROVE Order'
  BY <1>13, OrderStepFailed DEF SeeFailure
<1>14. ASSUME NEW c \in Cpus, BeginRound(c) PROVE Order'
  BY <1>14 DEF BeginRound, Goto
<1>15. ASSUME NEW c \in Cpus, FindReady(c) PROVE Order'
  BY <1>15 DEF FindReady, Goto, IsReady
<1>16. ASSUME NEW c \in Cpus, FindLate(c) PROVE Order'
  BY <1>16 DEF FindLate, Goto, IsReady
<1>17. ASSUME NEW c \in Cpus, Yield(c) PROVE Order'
  BY <1>17 DEF Yield, Goto
<1>18. ASSUME NEW c \in Cpus, TimeOut(c) PROVE Order'
  BY <1>18, OrderStepFailed DEF TimeOut
<1>19. ASSUME NEW c \in Cpus, Pass(c) PROVE Order'
  <2> HIDE BootAssumption DEF Cpus, BootInv, BarrierInv, Rounds, Order, ScannedAreReady, BootstrapIsFirst, OthersWait, AnnouncedIsStored, Complete, TypeOK, Labels, matrix, Bootstrap, Init0, PartitionReady, ProfileReady, RuntimeReady, InitReady, StartReady, IrqRelease, Failed
  <2>1. Bootstrap \in Cpus
    BY BootAssumption DEF Bootstrap, Cpus
  <2>2. pc[c] = "pass"
    BY <1>19 DEF Pass
  <2>3. cpuReady[Bootstrap] >= stage[c]
    BY <2>1, <2>2 DEF BootInv, BarrierInv, Rounds, ScannedAreReady
  <2>4. stage[c] \in 3 .. 6 /\ cpuReady[Bootstrap] \in 0 .. 6
    BY <2>1 DEF BootInv, BarrierInv, TypeOK, RuntimeReady, IrqRelease
  <2>5. Complete
    BY <2>3, <2>4 DEF BootInv, Order, BootstrapIsFirst
  <2>6. Complete' /\ bootEpoch' # 0
    BY <2>5, <1>19 DEF Pass, Complete
  <2>7. pc \in [Cpus -> Labels]
    BY DEF BootInv, BarrierInv, TypeOK
  <2>8. \E l \in {"hook", "running", "arrive"} : pc' = [pc EXCEPT ![c] = l]
    <3>1. CASE stage[c] = RuntimeReady
      BY <3>1, <1>19 DEF Pass, Goto, RuntimeReady, IrqRelease
    <3>2. CASE stage[c] # RuntimeReady /\ stage[c] = IrqRelease
      BY <3>2, <1>19 DEF Pass, Goto, RuntimeReady, IrqRelease
    <3>3. CASE stage[c] # RuntimeReady /\ stage[c] # IrqRelease
      BY <3>3, <1>19 DEF Pass, Goto, RuntimeReady, IrqRelease
    <3> QED
      BY <3>1, <3>2, <3>3
  <2>9. \A d \in Cpus : pc'[d] = pc[d] \/ pc'[d] \in {"hook", "running", "arrive"}
    BY <2>7, <2>8
  <2>10. BootstrapIsFirst'
    BY <2>1, <2>6, <2>9 DEF BootInv, Order, BootstrapIsFirst
  <2>11. OthersWait'
    BY <2>9 DEF BootInv, Order, OthersWait, Cpus
  <2>12. AnnouncedIsStored'
    BY <2>6, <2>9 DEF BootInv, Order, AnnouncedIsStored, Cpus
  <2> QED
    BY <2>10, <2>11, <2>12 DEF Order
<1>20. ASSUME NEW c \in Cpus, RunInitHook(c) PROVE Order'
  BY <1>20 DEF RunInitHook, Goto
<1>21. ASSUME NEW c \in Cpus, FailInitHook(c) PROVE Order'
  BY <1>21, OrderStepFailed DEF FailInitHook
<1>22. CASE UNCHANGED vars
  BY <1>22 DEF vars, matrix
<1> QED BY <1>1, <1>2, <1>3, <1>4, <1>5, <1>6, <1>7, <1>8, <1>9, <1>10, <1>11,
           <1>12, <1>13, <1>14, <1>15, <1>16, <1>17, <1>18, <1>19, <1>20, <1>21,
           <1>22
           DEF Next, Step

\* The invariant holds initially.
LEMMA InitBootInv == Init => BootInv
<1> SUFFICES ASSUME Init PROVE BootInv
  OBVIOUS
<1> USE BootAssumption DEF Init, Cpus, Bootstrap, Init0, PartitionReady, ProfileReady, RuntimeReady, InitReady, StartReady, IrqRelease, Failed
<1>1. TypeOK
  <2>1. 0 \in 0 .. NCpus
    OBVIOUS
  <2>2. pc \in [Cpus -> Labels]
    BY DEF Labels
  <2>3. /\ cpuReady \in [Cpus -> 0 .. IrqRelease]
        /\ phase \in [Cpus -> Init0 .. Failed]
        /\ stage \in [Cpus -> RuntimeReady .. IrqRelease]
        /\ passed \in [Cpus -> 0 .. IrqRelease]
    OBVIOUS
  <2>4. /\ scanned \in [Cpus -> 0 .. NCpus]
        /\ irqReleased \in [Cpus -> BOOLEAN]
    BY <2>1
  <2>5. bootPhase \in Init0 .. Failed
    OBVIOUS
  <2>6. bootEpoch \in Nat
    OBVIOUS
  <2>7. profileBuilt \in BOOLEAN
    OBVIOUS
  <2> QED
    BY <2>2, <2>3, <2>4, <2>5, <2>6, <2>7 DEF TypeOK
<1>2. Rounds
  BY DEF Rounds, ScannedAreReady, PassedAreReady, ReleasedPassed
<1>3. Order
  BY DEF Order, BootstrapIsFirst, OthersWait, AnnouncedIsStored, Complete
<1> QED
  BY <1>1, <1>2, <1>3 DEF BootInv, BarrierInv

\* The inductive invariant holds in every state of every run.
THEOREM BootInvHolds == Spec => []BootInv
<1>1. BootInv /\ [Next]_vars => BootInv'
  BY TypeStep, BarrierStep, OrderStep DEF BootInv, BarrierInv
<1> QED
  BY InitBootInv, <1>1, PTL DEF Spec

-----------------------------------------------------------------------------
(* What follows from it.                                                      *)

\* The state is well-formed in every state of every run.
THEOREM TypeCorrect == Spec => []TypeOK
<1>1. BootInv => TypeOK
  BY DEF BootInv, BarrierInv
<1> QED
  BY BootInvHolds, <1>1, PTL

\* The CPUs pass every barrier together, and none runs with its interrupts
\* released before all have come to the last barrier.
THEOREM BarriersHold == Spec => []Together
<1>1. BootInv => Together
  <2> SUFFICES ASSUME BootInv, NEW c \in Cpus, NEW d \in Cpus
               PROVE  /\ passed[c] <= cpuReady[d]
                      /\ irqReleased[c] => cpuReady[d] = IrqRelease
    BY DEF Together
  <2>1. passed[c] <= cpuReady[d]
    BY DEF BootInv, BarrierInv, Rounds, PassedAreReady
  <2>2. cpuReady[d] \in 0 .. IrqRelease /\ passed[c] \in 0 .. IrqRelease
    BY DEF BootInv, BarrierInv, TypeOK
  <2>3. irqReleased[c] => passed[c] = IrqRelease
    BY DEF BootInv, BarrierInv, Rounds, ReleasedPassed
  <2> QED
    BY <2>1, <2>2, <2>3 DEF IrqRelease
<1> QED
  BY BootInvHolds, <1>1, PTL

\* A CPU that attaches finds the epoch, the partition and the profile stored.
THEOREM AttachIsComplete == Spec => []AttachFindsAll
<1>1. BootInv => AttachFindsAll
  BY DEF BootInv, Order, AnnouncedIsStored, AttachFindsAll, Attachable, Complete
<1> QED
  BY BootInvHolds, <1>1, PTL
=============================================================================
