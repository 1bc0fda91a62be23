------------------------------ MODULE DurableCell ------------------------------
(* What bm_hal_nvs_save promises, "atomically" (include/hal/bm_hal_nvs.h:12):  *)
(* the one value kept is the old one or the new one, whatever cuts a save      *)
(* short, and it is the new one when the save says so.                         *)
CONSTANTS
    Value,
    None     \* nothing kept, or no save in progress

VARIABLES
    kept,    \* what a load returns
    saving,  \* the value of the save in progress
    result   \* of the last save: "ok", "error", or "cut" by a loss of power

vars == <<kept, saving, result>>

Init == kept \in Value \cup {None} /\ saving = None /\ result = "ok"

Begin ==
    /\ saving = None
    /\ saving' \in Value
    /\ UNCHANGED <<kept, result>>

TakeEffect ==
    /\ saving # None
    /\ kept' = saving
    /\ UNCHANGED <<saving, result>>

Succeed ==
    /\ saving # None /\ kept = saving
    /\ saving' = None /\ result' = "ok"
    /\ UNCHANGED kept

\* A save that fails or is cut short may have taken effect or not.
Stop ==
    /\ saving # None
    /\ saving' = None /\ result' \in {"error", "cut"}
    /\ kept' \in {kept, saving}

Next == Begin \/ TakeEffect \/ Succeed \/ Stop

Spec == Init /\ [][Next]_vars
================================================================================
