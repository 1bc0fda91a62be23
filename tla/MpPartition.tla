------------------------------ MODULE MpPartition -----------------------------
(* Who owns what on several CPUs: the owners of event types and modules         *)
(* (Source/mp/bm_mp_partition.c), the resources each CPU may claim              *)
(* (bm_mp_resource_topology.c), and what every CPU then takes for itself        *)
(* (bm_module_init_on_this_cpu, bm_mp_partition_register_events_on_this_cpu).   *)
EXTENDS Naturals, Sequences, FiniteSets

CONSTANTS
    NCpus,        \* BM_CONFIG_CPU_COUNT
    AnyCpu,       \* BM_CPU_ANY, no number of a CPU
    NTypes,       \* BM_CONFIG_MAX_EVENT_TYPES
    ModuleTables, \* module tables tried: sequences of [owner, events]
    Peripherals,  \* resources below BM_RESOURCE_CLASS_APP_BASE
    AppResources, \* and those of the application
    MaxEntries,   \* BM_CONFIG_MP_RESOURCE_TOPOLOGY_MAX
    MaxModules,   \* numbers of modules an application gives are up to here
    MaxBindings,  \* entries of s_module_event_bindings
    NInstances,   \* execution instances checked together, each with one claim
    HardRt        \* BM_CONFIG_MP_HARD_RT_PROFILE

Cpus == 0 .. NCpus - 1
Types == 0 .. NTypes - 1
AllResources == Peripherals \cup AppResources
PartitionAssumption ==
    /\ NCpus \in Nat \ {0} /\ AnyCpu \notin Cpus /\ NTypes \in Nat
    /\ ModuleTables \subseteq Seq([owner : Nat, events : SUBSET Nat])
    /\ Peripherals \cap AppResources = {}

VARIABLES
    modules,     \* the module table of the image
    declared,    \* s_event_owner_decl of the named types
    bindings,    \* s_module_event_bindings
    topology,    \* s_entries: [resource, mask], mask a set of CPUs
    built,       \* s_partition_built
    eventOwner, moduleOwner,
    admitted     \* the execution instances the profile was built with

vars == <<modules, declared, bindings, topology, built, eventOwner, moduleOwner, admitted>>

Init ==
    /\ modules \in ModuleTables
    /\ declared = <<>> /\ bindings = {} /\ topology = <<>>
    /\ built = FALSE
    /\ eventOwner = [t \in Types |-> 0]
    /\ moduleOwner = [m \in DOMAIN modules |-> 0]
    /\ admitted = <<>>

-----------------------------------------------------------------------------
(* Registration, until the partition is built.  Modules count from 1 here.     *)
RegisterEventOwner(t, c) ==
    /\ ~built /\ t \notin DOMAIN declared
    /\ declared' = [u \in DOMAIN declared \cup {t} |-> IF u = t THEN c ELSE declared[u]]
    /\ UNCHANGED <<modules, bindings, topology, built, eventOwner, moduleOwner, admitted>>

\* The number of the module is only compared with the table when the partition is built.
RegisterModuleEvent(m, t) ==
    /\ ~built /\ Cardinality(bindings) < MaxBindings
    /\ bindings' = bindings \cup {<<m, t>>}
    /\ UNCHANGED <<modules, declared, topology, built, eventOwner, moduleOwner, admitted>>

RegisterTopology(r, mask) ==
    /\ ~built /\ mask # {} /\ Len(topology) < MaxEntries
    /\ topology' = Append(topology, [resource |-> r, mask |-> mask])
    /\ UNCHANGED <<modules, declared, bindings, built, eventOwner, moduleOwner, admitted>>

-----------------------------------------------------------------------------
(* Building: what nobody declared is dealt out in turn.                        *)
EventOwners ==
    [t \in Types |->
        IF t \in DOMAIN declared /\ declared[t] # AnyCpu THEN declared[t] ELSE t % NCpus]

Undeclared(m) == {k \in 1 .. m - 1 : modules[k].owner = AnyCpu}
ModuleOwners ==
    [m \in DOMAIN modules |->
        IF modules[m].owner = AnyCpu THEN Cardinality(Undeclared(m)) % NCpus
        ELSE modules[m].owner]

SingleCpu(mask) == Cardinality(mask) = 1
TopologyOk == \A i \in DOMAIN topology : SingleCpu(topology[i].mask)

\* partition_validate_module_event_closure
Subscriptions(m) == modules[m].events \cup {b[2] : b \in {c \in bindings : c[1] = m}}
BoundOnly ==
    \A b \in bindings : b[1] \in DOMAIN modules /\ ModuleOwners[b[1]] = EventOwners[b[2]]
EventsClosed ==
    /\ \A b \in bindings : b[1] \in DOMAIN modules
    /\ \A m \in DOMAIN modules : \A t \in Subscriptions(m) :
          t \in Types /\ ModuleOwners[m] = EventOwners[t]

BuildOk ==
    /\ \A m \in DOMAIN modules : modules[m].owner \in Cpus \cup {AnyCpu}
    /\ TopologyOk /\ EventsClosed

\* A failed build takes back s_partition_built; nothing reads the owners it dealt out.
Build ==
    /\ ~built
    /\ built' = BuildOk
    /\ eventOwner' = EventOwners /\ moduleOwner' = ModuleOwners
    /\ UNCHANGED <<modules, declared, bindings, topology, admitted>>

-----------------------------------------------------------------------------
(* The instances of the profile: the first entry of a resource decides.        *)
EntriesOf(r) == {i \in DOMAIN topology : topology[i].resource = r}
First(is) == CHOOSE i \in is : \A j \in is : i <= j

MaskOnly(owner, r) ==
    owner \in Cpus /\ (EntriesOf(r) # {} \/ r \in AppResources \/ topology = <<>> \/ ~HardRt)
ClaimOk(owner, r) ==
    /\ owner \in Cpus
    /\ IF EntriesOf(r) # {} THEN topology[First(EntriesOf(r))].mask = {owner}
       ELSE r \in AppResources \/ topology = <<>> \/ ~HardRt

\* bm_mp_resource_topology_validate_exec_table; a stream is a resource of the application.
ValidateExecs(instances) ==
    /\ built /\ admitted = <<>>
    /\ \A i \in DOMAIN instances :
          /\ ClaimOk(instances[i].owner, instances[i].claim)
          /\ instances[i].streamOwner = instances[i].owner
    /\ admitted' = instances
    /\ UNCHANGED <<modules, declared, bindings, topology, built, eventOwner, moduleOwner>>

Reset ==
    /\ built
    /\ declared' = <<>> /\ bindings' = {} /\ topology' = <<>> /\ built' = FALSE
    /\ eventOwner' = [t \in Types |-> 0]
    /\ moduleOwner' = [m \in DOMAIN modules |-> 0]
    /\ admitted' = <<>>
    /\ UNCHANGED modules

Instances ==
    [1 .. NInstances ->
        [owner : Cpus \cup {NCpus}, claim : AllResources, streamOwner : Cpus]]

Next ==
    \/ \E t \in Types, c \in Cpus \cup {AnyCpu} : RegisterEventOwner(t, c)
    \/ \E m \in 1 .. MaxModules, t \in Types : RegisterModuleEvent(m, t)
    \/ \E r \in AllResources, mask \in SUBSET Cpus : RegisterTopology(r, mask)
    \/ Build \/ Reset
    \/ \E instances \in Instances : ValidateExecs(instances)

Spec == Init /\ [][Next]_vars

-----------------------------------------------------------------------------
\* What a CPU takes: bm_mp_module_owner and bm_mp_event_owner answer only when built.
OwnerOfModule(m) == IF built THEN moduleOwner[m] ELSE AnyCpu
Loads(c) == {m \in DOMAIN modules : built /\ OwnerOfModule(m) \in {AnyCpu, c}}
Registers(c) == {t \in DOMAIN declared : built /\ eventOwner[t] = c}

(* Once the partition stands every module is loaded by one CPU and every named *)
(* type registered on one, and a module finds its events where it runs         *)
(* (bm_mp_partition.c:200-258, 342-361; bm_module.c:957-977).                  *)
OneOwner ==
    built =>
        /\ \A m \in DOMAIN modules : Cardinality({c \in Cpus : m \in Loads(c)}) = 1
        /\ \A t \in DOMAIN declared : Cardinality({c \in Cpus : t \in Registers(c)}) = 1
        /\ \A c \in Cpus : \A m \in Loads(c) :
              Subscriptions(m) \cap DOMAIN declared \subseteq Registers(c)

(* Two instances of an admitted profile that claim one peripheral of the       *)
(* topology, or any if there is a topology and the profile is hard, are on the *)
(* same CPU (bm_mp_resource_topology.c:79-131, 156-193).                       *)
PeripheralsHaveOneCpu ==
    \A i, j \in DOMAIN admitted :
        /\ admitted[i].claim = admitted[j].claim
        /\ admitted[i].claim \in Peripherals
        /\ EntriesOf(admitted[i].claim) # {} \/ (HardRt /\ topology # <<>>)
        => admitted[i].owner = admitted[j].owner
===============================================================================
