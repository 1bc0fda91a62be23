--------------------------- MODULE LatestRegister ---------------------------
(* What a bm_bus in LATEST mode promises to its users (bm_bus.h): a register *)
(* that a writer overwrites with whole frames, one reader that borrows the   *)
(* newest frame in place and finds it unchanged until it gives it back, and  *)
(* observers that each copy the newest frame out.                            *)
EXTENDS Naturals

CONSTANTS
    Frame,      \* the whole frames a writer may publish
    Observers,  \* the callers of bm_bus_latest_read
    None        \* "no frame": nothing published, nothing borrowed or copied

VARIABLES
    latest,  \* the newest published frame
    loan,    \* the frame the borrowing reader holds
    copy     \* per observer, the frame its last finished call returned

vars == <<latest, loan, copy>>

TypeOK ==
    /\ latest \in Frame \cup {None}
    /\ loan \in Frame \cup {None}
    /\ copy \in [Observers -> Frame \cup {None}]

Init ==
    /\ latest = None
    /\ loan = None
    /\ copy = [o \in Observers |-> None]

Publish ==
    /\ \E f \in Frame : latest' = f
    /\ UNCHANGED <<loan, copy>>

\* A borrow takes the frame that is newest at that instant.
Borrow ==
    /\ latest # None
    /\ loan' = latest
    /\ UNCHANGED <<latest, copy>>

Return ==
    /\ loan' = None
    /\ UNCHANGED <<latest, copy>>

\* A copy that succeeds returns the frame that is newest at that instant.
CopyOut(o) ==
    /\ latest # None
    /\ copy' = [copy EXCEPT ![o] = latest]
    /\ UNCHANGED <<latest, loan>>

Ask(o) ==
    /\ copy' = [copy EXCEPT ![o] = None]
    /\ UNCHANGED <<latest, loan>>

\* bm_bus_reset, which only a quiescent bus may see.
Clear ==
    /\ loan = None
    /\ latest' = None
    /\ UNCHANGED <<loan, copy>>

Next ==
    \/ Publish
    \/ Borrow
    \/ Return
    \/ \E o \in Observers : CopyOut(o) \/ Ask(o)
    \/ Clear

Spec == Init /\ [][Next]_vars
=============================================================================
