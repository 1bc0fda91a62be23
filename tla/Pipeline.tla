------------------------------- MODULE Pipeline -------------------------------
(* A chain of processing nodes over blocks (Source/hybrid/bm_pipeline.c).       *)
(* A block is its format, the number of valid bytes, and its data: what the     *)
(* nodes have done to it so far, in order.  What a node does (external) is to   *)
(* add itself to the data of its output and to set the length of it, or to      *)
(* fail.  Format 0 is unknown.                                                  *)
EXTENDS Naturals, Sequences

CONSTANTS
    Formats,   \* and 0
    NodeSets,  \* chains tried: sequences of [in, out, bypass, process, fails, length]
    Capacity   \* capacity_bytes of the output block; the input is as large as it must be

AnyFormat == 0
PipelineAssumption == AnyFormat \notin Formats

VARIABLES
    nodes,       \* the table of the application
    initialized,
    prepared,    \* history: nodes prepared since they were reset last
    input, output,
    rc           \* of the last bm_pipeline_process

vars == <<nodes, initialized, prepared, input, output, rc>>

Agree(f, g) == f = AnyFormat \/ g = AnyFormat \/ f = g

Blocks ==
    {[format |-> f, bytes |-> n, data |-> <<>>] : f \in Formats \cup {AnyFormat}, n \in 0 .. Capacity + 1}
Empty == [format |-> AnyFormat, bytes |-> 0, data |-> <<>>]

Init ==
    /\ nodes \in NodeSets
    /\ initialized = FALSE /\ prepared = {}
    /\ input = Empty /\ output = Empty /\ rc = "none"

Places == DOMAIN nodes
BypassAllowed(n) == Agree(n.in, n.out)
Bypassed(n) == n.bypass \/ ~n.process

-----------------------------------------------------------------------------
(* bm_pipeline_init: the chain is checked, then prepared node by node; a node  *)
(* that fails has the ones before it reset.                                    *)
ValidChain ==
    \A i \in Places :
        /\ Bypassed(nodes[i]) => BypassAllowed(nodes[i])
        /\ i > 1 => Agree(nodes[i - 1].out, nodes[i].in)

AllButFirst(k) == 2 .. k - 1
RolledBack(k) == 1 .. k - 1

InitRefused == ~ValidChain /\ UNCHANGED vars
InitDone ==
    /\ ValidChain
    /\ prepared' = Places /\ initialized' = TRUE
    /\ UNCHANGED <<nodes, input, output, rc>>
InitFails(k) ==
    /\ ValidChain
    /\ prepared' = (prepared \cup 1 .. k - 1) \ RolledBack(k)
    /\ initialized' = FALSE
    /\ UNCHANGED <<nodes, input, output, rc>>

Reset ==
    /\ initialized
    /\ prepared' = {}
    /\ UNCHANGED <<nodes, initialized, input, output, rc>>

SetBypass(i, on) ==
    /\ ~initialized /\ (on => BypassAllowed(nodes[i]))
    /\ nodes' = [nodes EXCEPT ![i].bypass = on]
    /\ rc' = "none"
    /\ UNCHANGED <<initialized, prepared, input, output>>

-----------------------------------------------------------------------------
(* run_node: what is in the output afterwards, and the code.  Only a block that *)
(* is copied into another must find room there.                                *)
Copied(from, to) == [to EXCEPT !.format = from.format, !.bytes = from.bytes]
KeepsFormat(n, i, from) == [from EXCEPT !.data = Append(@, i)]
Computed(n, i, from) ==
    [format |-> IF n.out # AnyFormat THEN n.out ELSE from.format,
     bytes  |-> IF n.length = 0 THEN from.bytes ELSE n.length,
     data   |-> Append(from.data, i)]

RunNode(i, from, to, inplace) ==
    LET n == nodes[i]
        Result(block, code) == [block |-> block, rc |-> code]
        NoRoom == ~inplace /\ from.bytes > Capacity
    IN  IF Bypassed(n)
        THEN IF ~BypassAllowed(n) THEN Result(to, "invalid")
             ELSE IF NoRoom THEN Result(to, "overflow")
             ELSE Result(IF from.bytes = 0 THEN Copied(from, to) ELSE from, "ok")
        ELSE IF ~Agree(from.format, n.in) THEN Result(to, "invalid")
        ELSE IF NoRoom THEN Result(to, "overflow")
        ELSE IF n.fails THEN Result(Copied(from, to), "failed")
        ELSE Result(Computed(n, i, from), "ok")

\* bm_pipeline_process: the first node reads the input, each other what the one before
\* left in the output; bm_pipeline_process_inplace: all work on the one block.
AlwaysInput(i, in, left) == in
Source(i, in, left) == IF i = 1 THEN in ELSE left
Run(in, out, inplace) ==
    LET After[i \in 0 .. Len(nodes)] ==
            IF i = 0 THEN [block |-> in, rc |-> "ok"]
            ELSE IF After[i - 1].rc # "ok" THEN After[i - 1]
            ELSE RunNode(i, Source(i, in, After[i - 1].block),
                         IF i = 1 /\ ~inplace THEN out ELSE After[i - 1].block,
                         inplace \/ i > 1)
    IN  After[Len(nodes)]

Process(in) ==
    /\ initialized
    /\ LET r == Run(in, Empty, FALSE)
       IN  output' = r.block /\ rc' = r.rc
    /\ input' = in
    /\ UNCHANGED <<nodes, initialized, prepared>>

Next ==
    \/ InitRefused \/ InitDone \/ Reset
    \/ \E i \in Places : InitFails(i) \/ \E on \in BOOLEAN : SetBypass(i, on)
    \/ \E in \in Blocks : Process(in)

Spec == Init /\ [][Next]_vars

-----------------------------------------------------------------------------
TypeOK ==
    /\ initialized \in BOOLEAN /\ prepared \subseteq Places
    /\ rc \in {"none", "ok", "invalid", "overflow", "failed"}

(* A chain whose nodes all say what they take and give, given what its first   *)
(* node takes, never fails on a format, whichever of its nodes are bypassed,   *)
(* and gives what its last node says (bm_pipeline.c:88-110, 202-236).          *)
ChainHolds ==
    (/\ \A i \in Places : AnyFormat \notin {nodes[i].in, nodes[i].out}
     /\ rc # "none" /\ input.format = nodes[1].in) =>
        /\ rc # "invalid"
        /\ rc = "ok" => output.format = nodes[Len(nodes)].out

(* Every node that is not bypassed has worked on the block once, in order; in  *)
(* place the outcome is the same as over two blocks, unless the second is too  *)
(* small (bm_pipeline.c:238-279).                                              *)
Done == SelectSeq([i \in Places |-> i], LAMBDA i : ~Bypassed(nodes[i]))
EveryNodeOnce ==
    input.bytes > 0 /\ rc \notin {"none", "overflow"} =>
        LET place == Run(input, input, TRUE)
        IN  /\ place.rc = rc
            /\ rc = "ok" => place.block = output /\ output.data = Done

(* An init that fails leaves no node prepared that was not before              *)
(* (bm_pipeline.c:131-149).                                                    *)
NoneLeftPrepared == ~initialized' /\ initialized = FALSE => prepared' \subseteq prepared
===============================================================================
