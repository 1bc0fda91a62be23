------------------------------ MODULE ParamStore ------------------------------
(* The parameter table (Source/core/bm_param.c) over the table of persistent   *)
(* records (Source/hal/bm_persist.c) over non-volatile storage in two slots of *)
(* flash, of which the newer valid one counts and the other is written         *)
(* (portable/vendor/stm32g4/bm_drv_nvs_flash_stm32g4.c, bm_nvs_dual_slot.c).   *)
(* All calls come from one context.  Power may fail between any two steps of   *)
(* a save, and every step of the flash may fail.                               *)
(*                                                                             *)
(* A slot is valid, or it is not: erased, half written, or with a checksum     *)
(* that does not fit.  A damaged slot whose checksum fits by chance is         *)
(* excluded.  The image is programmed in two parts, the last of which makes    *)
(* the slot valid.                                                             *)
(*                                                                             *)
(* Every parameter has a key of its own name; the application keeps a record   *)
(* of its own under another key.  The guards of save and reset are an answer   *)
(* of the application: a refused call does nothing.  The lengths of keys and   *)
(* values are left out, and so is the checksum of the table, which the slots   *)
(* of the flash have as well.                                                  *)
EXTENDS Naturals, FiniteSets

CONSTANTS
    Image,        \* what the flash keeps: the tables of records
    None,
    MaxSeq,       \* bound: sequence numbers, which do not come round
    Params,       \* s_table
    AtReboot,     \* parameters with BM_PARAM_FLAG_REBOOT
    Values,       \* in the range of every parameter
    Default,      \* def_val
    Bad,          \* a stored value out of range, left by another firmware
    Foreign,      \* the key of the application
    OwnValues,    \* what the application keeps there
    MaxEntries    \* BM_CONFIG_PERSIST_MAX_ENTRIES

ASSUME NvsAssumption == None \notin Image /\ MaxSeq \in Nat \ {0}
ASSUME ParamAssumption ==
    /\ IsFiniteSet(Params) /\ AtReboot \subseteq Params /\ Foreign \notin Params
    /\ Default \in Values /\ Bad \notin Values /\ None \notin Values \cup {Bad}
    /\ MaxEntries \in Nat \ {0}
    /\ OwnValues \subseteq Values
    /\ Image = [Params \cup {Foreign} -> Values \cup {Bad, None}]

Keys == Params \cup {Foreign}
NoRecords == [k \in Keys |-> None]

-----------------------------------------------------------------------------
(* The two slots of flash                                                      *)
Slots == {"A", "B"}
Other(s) == IF s = "A" THEN "B" ELSE "A"

VARIABLES
    slot,     \* the content of the two slots
    op,       \* the save in progress: its step, target, number and image
    outcome   \* of the last save

flashVars == <<slot, op, outcome>>

Invalid == [ok |-> FALSE, seq |-> 0, image |-> None]
Valid(n, image) == [ok |-> TRUE, seq |-> n, image |-> image]
NoSave == [pc |-> "idle", target |-> "A", seq |-> 0, image |-> None]

\* The layout is set, and an earlier run may have left an image.
FlashInit(first) ==
    /\ slot \in {[s \in Slots |-> Invalid]}
                \cup {[s \in Slots |-> IF s = "A" THEN Valid(1, i) ELSE Invalid] : i \in first}
    /\ op = NoSave
    /\ outcome = "ok"

FlashTypeOK ==
    /\ slot \in [Slots -> {Invalid} \cup [ok : {TRUE}, seq : 1 .. MaxSeq, image : Image]]
    /\ op \in {NoSave} \cup [pc : {"erase", "program", "last", "verify"}, target : Slots,
                             seq : 1 .. MaxSeq, image : Image]
    /\ outcome \in {"ok", "error", "cut"}

-----------------------------------------------------------------------------
(* bm_nvs_dual_pick_active                                                     *)
Found == \E s \in Slots : slot[s].ok
AnyOrder(n, m) == TRUE
NewerThan(n, m) == n >= m
Active ==
    IF slot["A"].ok /\ slot["B"].ok
    THEN IF NewerThan(slot["B"].seq, slot["A"].seq) THEN "B" ELSE "A"
    ELSE IF slot["A"].ok THEN "A" ELSE "B"

\* bm_hal_nvs_load
Load == IF Found THEN slot[Active].image ELSE None

-----------------------------------------------------------------------------
(* bm_hal_nvs_save                                                             *)
AlwaysFirst == "A"
TargetSlot == IF Found THEN Other(Active) ELSE "A"
NextSeq == IF Found THEN slot[Active].seq + 1 ELSE 1

BeginSave(image) ==
    /\ op.pc = "idle" /\ NextSeq <= MaxSeq
    /\ op' = [pc |-> "erase", target |-> TargetSlot, seq |-> NextSeq, image |-> image]
    /\ UNCHANGED <<slot, outcome>>

GoOn(pc) == op' = [op EXCEPT !.pc = pc] /\ UNCHANGED outcome
Return(rc) == op' = NoSave /\ outcome' = rc

Erase ==
    /\ op.pc = "erase"
    /\ slot' = [slot EXCEPT ![op.target] = Invalid]
    /\ GoOn("program")

\* The slot cannot be unlocked or erased: it is as it was, or damaged.
EraseFails ==
    /\ op.pc = "erase"
    /\ slot' \in {slot, [slot EXCEPT ![op.target] = Invalid]}
    /\ Return("error")

Program == op.pc = "program" /\ UNCHANGED slot /\ GoOn("last")

\* The flash may be worn out and not keep what it is given.
Kept == [slot EXCEPT ![op.target] = Valid(op.seq, op.image)]
ProgramLast ==
    /\ op.pc = "last"
    /\ slot' \in {Kept, slot}
    /\ GoOn("verify")

\* An error is reported, also of the last part, which may be there all the same.
ProgramFails ==
    /\ op.pc \in {"program", "last"}
    /\ slot' \in {slot} \cup (IF op.pc = "last" THEN {Kept} ELSE {})
    /\ Return("error")

\* What has been written is read back.
NotReadBack == "ok"
ReadBack == IF slot = Kept THEN "ok" ELSE "error"
Verify == op.pc = "verify" /\ UNCHANGED slot /\ Return(ReadBack)

SaveStep ==
    Erase \/ EraseFails \/ Program \/ ProgramLast \/ ProgramFails \/ Verify

\* Power fails; what the flash was doing is done or not.
PowerFails ==
    /\ op' = NoSave
    /\ outcome' = IF op.pc = "idle" THEN outcome ELSE "cut"
    /\ UNCHANGED slot

-----------------------------------------------------------------------------
(* A load returns the old image or the new one whatever cuts a save short, and *)
(* the new one after a save that said ok (bm_hal_nvs.h:12;                     *)
(* bm_drv_nvs_flash_stm32g4.c:348-401).                                        *)
Cell == INSTANCE DurableCell WITH
    Value <- Image, kept <- Load, saving <- op.image, result <- outcome

-----------------------------------------------------------------------------
(* The records and the parameters                                              *)
VARIABLES
    vals,       \* s_vals
    applied,    \* what the parameters act on
    store,      \* g_store: the value of each valid entry
    old,        \* old_vals and old_valid of bm_param_reset
    call,       \* the call that waits for its commit
    booted,     \* history: what acted after the last start
    before,     \* history: the records before the last reset
    attempted   \* history: what is kept, and what calls have tried to commit since

paramVars == <<vals, applied, store, old, call, booted, before, attempted>>
vars == <<flashVars, paramVars>>

TypeOK ==
    /\ FlashTypeOK
    /\ vals \in [Params -> Values] /\ applied \in [Params -> Values]
    /\ {store, old, before} \subseteq Image /\ attempted \subseteq Image
    /\ call \in {"none", "save", "own", "reset", "undo", "rollback"}
    /\ Cardinality({k \in Keys : store[k] # None}) <= MaxEntries

-----------------------------------------------------------------------------
(* Start: bm_persist_init, bm_param_register_table, bm_param_load_overlay      *)
Records(image) == IF image = None THEN NoRecords ELSE image
AnyValue(v) == v # None
InRange(v) == v \in Values
Overlaid(image) ==
    [p \in Params |-> IF InRange(Records(image)[p]) THEN Records(image)[p] ELSE Default]

Start(image) ==
    /\ store' = Records(image)
    /\ vals' = Overlaid(image) /\ applied' = vals'
    /\ booted' = applied'
    /\ old' = NoRecords /\ call' = "none" /\ before' = NoRecords
    /\ attempted' = {store'}

Stored == {[k \in Keys |-> IF k = Foreign THEN None ELSE v] : v \in Values \cup {Bad}}
Init ==
    /\ FlashInit({i \in Stored : MaxEntries >= Cardinality(Params)})
    /\ store = Records(Load)
    /\ vals = Overlaid(Load) /\ applied = vals /\ booted = vals
    /\ old = NoRecords /\ call = "none" /\ before = NoRecords
    /\ attempted = {store}

Restart == PowerFails /\ Start(Load)

-----------------------------------------------------------------------------
Idle == call = "none"

\* bm_param_set; out of range it does nothing.
AlwaysActs(p) == TRUE
ActsAtOnce(p) == p \notin AtReboot
Set(p, v) ==
    /\ Idle
    /\ vals' = [vals EXCEPT ![p] = v]
    /\ applied' = IF ActsAtOnce(p) THEN [applied EXCEPT ![p] = v] ELSE applied
    /\ UNCHANGED <<flashVars, store, old, call, booted, before, attempted>>

\* bm_persist_set needs an entry for a new key.
Room(t, ks) == Cardinality({k \in Keys : t[k] # None} \cup ks) <= MaxEntries

\* bm_persist_commit: the table as it is.
Commit(t, who) ==
    /\ BeginSave(t)
    /\ call' = who
    /\ attempted' = attempted \cup {t}

\* bm_param_save
Acting == [k \in Keys |-> IF k \in Params THEN applied[k] ELSE store[k]]
Mirror == [k \in Keys |-> IF k \in Params THEN vals[k] ELSE store[k]]
Save ==
    /\ Idle /\ Room(store, Params)
    /\ store' = Mirror
    /\ Commit(store', "save")
    /\ UNCHANGED <<vals, applied, old, booted, before>>

\* The table is full: the records before this one are set, nothing is committed.
SaveHalfway ==
    /\ Idle
    /\ \E set \in SUBSET Params, p \in Params :
          /\ Room(store, set) /\ ~Room(store, set \cup {p})
          /\ store' = [k \in Keys |-> IF k \in set THEN vals[k] ELSE store[k]]
    /\ UNCHANGED <<flashVars, vals, applied, old, call, booted, before, attempted>>

\* The application sets or erases its own record, and commits.
OwnRecord ==
    /\ Idle
    /\ OwnValues # {}
    /\ \E v \in OwnValues \cup {None} :
          /\ v # store[Foreign] /\ (v # None => Room(store, {Foreign}))
          /\ store' = [store EXCEPT ![Foreign] = v]
    /\ Commit(store', "own")
    /\ UNCHANGED <<vals, applied, old, booted, before>>

\* bm_param_reset notes the old records, erases them and commits.  It may take two
\* numbers.
WithoutParams(t) == [k \in Keys |-> IF k \in Params THEN None ELSE t[k]]
Reset ==
    /\ Idle /\ NextSeq < MaxSeq
    /\ old' = [k \in Keys |-> IF k \in Params THEN store[k] ELSE None]
    /\ store' = WithoutParams(store)
    /\ before' = store
    /\ Commit(store', "reset")
    /\ UNCHANGED <<vals, applied, booted>>

-----------------------------------------------------------------------------
(* The commit goes on in the flash; when it returns, so does the call.         *)
Saved(rc) == op'.pc = "idle" /\ outcome' = rc
Returns == call' = "none" /\ old' = NoRecords /\ before' = NoRecords

FlashWorks ==
    /\ SaveStep /\ op'.pc # "idle"
    /\ UNCHANGED paramVars

CommitSucceeds ==
    /\ SaveStep /\ Saved("ok")
    /\ attempted' = {op.image}
    /\ Returns
    /\ IF call = "reset"
       THEN /\ vals' = [p \in Params |-> Default]
            /\ applied' = [p \in Params |-> IF ActsAtOnce(p) THEN Default ELSE applied[p]]
       ELSE UNCHANGED <<vals, applied>>
    /\ UNCHANGED <<store, booted>>

CommitFails ==
    /\ call # "reset"
    /\ SaveStep /\ Saved("error")
    /\ Returns
    /\ UNCHANGED <<vals, applied, store, booted, attempted>>

\* A reset that cannot commit puts the old records back and commits those.
LeftErased == store
PutBack == [k \in Keys |-> IF k \in Params /\ old[k] # None THEN old[k] ELSE store[k]]
ResetFails ==
    /\ call = "reset"
    /\ SaveStep /\ Saved("error")
    /\ store' = PutBack
    /\ call' = "undo"
    /\ UNCHANGED <<vals, applied, old, booted, before, attempted>>

Rollback ==
    /\ call = "undo"
    /\ Commit(store, "rollback")
    /\ UNCHANGED <<vals, applied, store, old, booted, before>>

Next ==
    \/ Restart
    \/ \E p \in Params, v \in Values : Set(p, v)
    \/ Save \/ SaveHalfway \/ OwnRecord \/ Reset
    \/ FlashWorks \/ CommitSucceeds \/ CommitFails \/ ResetFails \/ Rollback

Spec == Init /\ [][Next]_vars

-----------------------------------------------------------------------------
(* A start finds what the last successful commit kept, or one of the whole     *)
(* tables tried since, never a mixture, wherever power fails                   *)
(* (bm_param.c:215-238, 272-305; bm_persist.c:369-376).                        *)
StartFindsWhole == Records(Load) \in attempted

(* A save that says ok brings its values back at the next start, those that    *)
(* act at a restart only among them, and a reset that says ok the defaults     *)
(* (bm_param.h:9-11, 104-108).                                                 *)
SuccessIsKept ==
    [][(call \in {"save", "reset"} /\ call' = "none" /\ outcome' = "ok")
            => vals' = Overlaid(Load)']_vars

(* What acts is the value shown, or for a parameter that acts at a restart     *)
(* what the start found (bm_param.c:176-180, 288-293).                         *)
ActsAsShown == \A p \in Params :
    applied[p] = IF p \in AtReboot THEN booted[p] ELSE vals[p]

(* A reset that fails leaves the records as they were                          *)
(* (bm_param.c:296-305).                                                       *)
FailedResetUndone == call \in {"undo", "rollback"} => store = before
===============================================================================
