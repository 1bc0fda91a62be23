--------------------------------- MODULE Sync ---------------------------------
(* Synchronised sampling of one CPU (Source/hybrid/bm_sync.c): the main loop   *)
(* configures, arms, triggers and stops the one active domain, an interrupt    *)
(* may ask for the state between any two steps, and the hardware behind        *)
(* bm_sync_hal may refuse a step after it has done part of it.                 *)
EXTENDS Naturals

CONSTANTS
    Domains,  \* that validate_domain accepts
    NoDomain  \* the NULL domain

SyncAssumption == NoDomain \notin Domains

VARIABLES
    active, state, \* of this CPU
    call,          \* in progress: its operation, domain and step
    hw             \* of each domain: what the hardware is set up to do

vars == <<active, state, call, hw>>

None == [op |-> "none", dom |-> NoDomain, step |-> 0]

Init ==
    /\ active = NoDomain /\ state = "IDLE"
    /\ call = None
    /\ hw = [d \in Domains |-> "off"]

Idle == call = None
Begin(op, d) == call' = [op |-> op, dom |-> d, step |-> 1]
ToStep(n) == call' = [call EXCEPT !.step = n]
In(op, n) == call.op = op /\ call.step = n

SetState(d, s) == active' = d /\ state' = s

\* Each call looks at the state it finds, and either returns or is in transition.
AnyActive(d) == TRUE
MayConfigure(d) == active \in {NoDomain, d}
Configure(d) ==
    /\ Idle /\ MayConfigure(d)
    /\ SetState(active, "TRANSITION")
    /\ Begin("configure", d)
    /\ UNCHANGED hw

MayArm(d) == active = d /\ state = "CONFIGURED"
Arm(d) ==
    /\ Idle /\ MayArm(d)
    /\ SetState(d, "TRANSITION")
    /\ Begin("arm", d)
    /\ UNCHANGED hw

WheneverActive(d) == active = d
MayTrigger(d) == active = d /\ state = "ARMED"
Trigger(d) ==
    /\ Idle /\ MayTrigger(d)
    /\ SetState(d, "TRANSITION")
    /\ Begin("trigger", d)
    /\ UNCHANGED hw

\* The active domain is stopped whatever the caller names.
Named(d) == d
Target(d) == IF active = NoDomain THEN d ELSE active
SafeStop(d) ==
    /\ Idle
    /\ SetState(Target(d), "TRANSITION")
    /\ Begin("stop", Target(d))
    /\ UNCHANGED hw

\* What a step of the hardware leaves behind, and the state that is set after it.
Set(op) == CASE op = "configure" -> "setup" [] op = "arm" -> "armed" [] OTHER -> "running"
After(op) == IF op = "arm" THEN "ARMED" ELSE "CONFIGURED"

HalSucceeds ==
    /\ call.op \in {"configure", "arm", "trigger"} /\ call.step = 1
    /\ hw' = [hw EXCEPT ![call.dom] = Set(call.op)]
    /\ ToStep(2)
    /\ UNCHANGED <<active, state>>
Complete ==
    /\ call.op \in {"configure", "arm", "trigger"} /\ call.step = 2
    /\ SetState(call.dom, After(call.op))
    /\ call' = None
    /\ UNCHANGED hw

\* A step that fails may have been done in part; the domain is stopped.
HalFails ==
    /\ call.op \in {"configure", "arm", "trigger"} /\ call.step = 1
    /\ \E part \in {hw[call.dom], Set(call.op)} : hw' = [hw EXCEPT ![call.dom] = part]
    /\ ToStep(3)
    /\ UNCHANGED <<active, state>>
NotStopped == hw
Stopped == IF call.dom \in Domains THEN [hw EXCEPT ![call.dom] = "off"] ELSE hw
HalStops ==
    /\ call.step = 3 \/ In("stop", 1)
    /\ hw' = Stopped
    /\ ToStep(4)
    /\ UNCHANGED <<active, state>>
Release ==
    /\ call.step = 4
    /\ SetState(NoDomain, "IDLE")
    /\ call' = None
    /\ UNCHANGED hw

Next ==
    \/ \E d \in Domains : Configure(d) \/ Arm(d) \/ Trigger(d)
    \/ \E d \in Domains \cup {NoDomain} : SafeStop(d)
    \/ HalSucceeds \/ Complete \/ HalFails \/ HalStops \/ Release

Spec == Init /\ [][Next]_vars

-----------------------------------------------------------------------------
TypeOK ==
    /\ active \in Domains \cup {NoDomain}
    /\ state \in {"IDLE", "CONFIGURED", "ARMED", "TRANSITION"}
    /\ hw \in [Domains -> {"off", "setup", "armed", "running"}]

(* Whatever fails, the state never hides what the hardware does: while it is   *)
(* IDLE everything is off, only the active domain is ever set up, a state that *)
(* is not in transition is the one of the hardware; an armed domain is         *)
(* triggered once (bm_sync.c:180-194, 214-229, 248-266, 279-299).              *)
StateIsTrue ==
    /\ \A d \in Domains : hw[d] # "off" => state # "IDLE" /\ d \in {active, call.dom}
    /\ state = "ARMED" => hw[active] = "armed"
    /\ state = "CONFIGURED" => hw[active] \in {"setup", "running"}

OneShot ==
    \A d \in Domains : hw'[d] = "running" /\ call.op = "trigger" /\ call.step = 1
                           => hw[d] = "armed"
===============================================================================
