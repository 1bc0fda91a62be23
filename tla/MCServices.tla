------------------------------ MODULE MCServices ------------------------------
(* Instances of the services of one CPU for TLC.  A behaviour is one of        *)
(* Topics: the parameters in a table of records that has room for them         *)
(* ("params") or that the application fills ("full"), the memory pool that two *)
(* CPUs share ("pool"), the log ring ("log"), the queue of the ultra-light     *)
(* profile ("ultra"), the recorder ("recorder"), or the blocks of a stream     *)
(* with a ready handler beside the consumer calls ("handled") or without one   *)
(* ("pulled").                                                                 *)
EXTENDS ParamStore, TLC

CONSTANTS
    Topics,
    PoolBlocks, PoolCpus,                             \* of the memory pool
    Lines, LogDepth, LogBudget, DropMod,              \* of the log ring
    UltraTypes, UltraHandled, UltraDepth, MaxCount,   \* of the ultra-light profile
    Capacity, CurMod, MaxBehind, WordCount, Budget,   \* of the recorder
    Buffers, NoBlock, SeqMod, StreamBudget, MaxHeld   \* of the stream

MCImage == [Params \cup {Foreign} -> Values \cup {Bad, None}]

\* The blocks of the stream are interchangeable.
Symmetry == Permutations(Buffers)

VARIABLES
    topic,   \* what the behaviour is about
    bitmap, lock, poolCall, dirty, grants, leaked,
    logHead, logTail, logSlot, drop, wr, rd, logged, put,
    items, read, write, ultraDropped, running, pushed, popped,
    head, tail, buf, pop, left, dropped, out, last,
    state, sequence, next, pending, prod, main, held, earlier

poolVars == <<bitmap, lock, poolCall, dirty, grants, leaked>>
logVars == <<logHead, logTail, logSlot, drop, wr, rd, logged, put>>
ultraVars == <<items, read, write, ultraDropped, running, pushed, popped>>
recorderVars == <<head, tail, buf, pop, left, dropped, out, last>>
streamVars == <<state, sequence, next, pending, prod, main, held, earlier>>
allVars == <<topic, vars, poolVars, logVars, ultraVars, recorderVars, streamVars>>

\* The application has a record of its own, and the table has no room for all three.
Full == INSTANCE ParamStore WITH OwnValues <- {Default}, MaxSeq <- 2

Pool == INSTANCE Mempool WITH Count <- PoolBlocks, Cpus <- PoolCpus, call <- poolCall
LogLines == INSTANCE LogRing WITH
    Line <- Lines, Depth <- LogDepth, Budget <- LogBudget, Out <- None,
    head <- logHead, tail <- logTail, slot <- logSlot
Ultra == INSTANCE UltraQueue WITH
    Types <- UltraTypes, Handled <- UltraHandled, Depth <- UltraDepth,
    dropped <- ultraDropped

Frames == INSTANCE Recorder

\* The oldest block is dropped, and the cache has faults.
Notified == INSTANCE Stream WITH
    Blocks <- Buffers, DropOldest <- TRUE, Handled <- TRUE, Budget <- StreamBudget,
    CacheFaults <- TRUE
Pulled == INSTANCE Stream WITH
    Blocks <- Buffers, DropOldest <- TRUE, Handled <- FALSE, Budget <- StreamBudget,
    CacheFaults <- TRUE

ASSUME ServicesAssumption ==
    /\ Notified!StreamAssumption /\ Pulled!StreamAssumption
    /\ Pool!MempoolAssumption /\ LogLines!LogAssumption
    /\ Ultra!UltraAssumption /\ Frames!RecorderAssumption
    /\ MaxSeq >= 2   \* that of Full

ServicesInit ==
    /\ topic \in Topics
    /\ IF topic = "full" THEN Full!Init ELSE Init
    /\ topic \notin {"params", "full"} => slot["A"] = Invalid
    /\ Pool!Init /\ LogLines!Init /\ Ultra!Init /\ Frames!Init /\ Notified!Init

ParamNext ==
    \/ topic = "params" /\ Next
    \/ topic = "full" /\ Full!Next
StreamNext ==
    \/ topic = "handled" /\ Notified!Next
    \/ topic = "pulled" /\ Pulled!Next
RingNext ==
    \/ topic = "log" /\ LogLines!Next /\ UNCHANGED <<ultraVars, recorderVars>>
    \/ topic = "ultra" /\ Ultra!Next /\ UNCHANGED <<logVars, recorderVars>>
    \/ topic = "recorder" /\ Frames!Next /\ UNCHANGED <<logVars, ultraVars>>

ringVars == <<logVars, ultraVars, recorderVars>>
ServicesNext ==
    /\ UNCHANGED topic
    /\ \/ ParamNext /\ UNCHANGED <<poolVars, ringVars, streamVars>>
       \/ topic = "pool" /\ Pool!Next /\ UNCHANGED <<vars, ringVars, streamVars>>
       \/ RingNext /\ UNCHANGED <<vars, poolVars, streamVars>>
       \/ StreamNext /\ UNCHANGED <<vars, poolVars, ringVars>>

ServicesSpec == ServicesInit /\ [][ServicesNext]_allVars

-----------------------------------------------------------------------------
(* All services are well-formed.                                               *)
TypesOK ==
    /\ TypeOK /\ Pool!TypeOK /\ LogLines!TypeOK /\ Ultra!TypeOK /\ Frames!TypeOK
    /\ Notified!TypeOK

(* A block of a stream has exactly one owner, cache faults or not: what a      *)
(* producer fills or the main loop reads nobody else has, and none is lost to  *)
(* the pool; while one is ready, a drain that would call the handler finds the *)
(* flag set (bm_stream.c:466-472, 567-577).                                    *)
BlocksHaveOwners ==
    /\ Notified!OneOwner /\ Notified!NoLeak
    /\ topic = "handled" => Notified!ReadyIsPending

(* A block of the pool is held by one caller at most and handed out zeroed,    *)
(* only a block whose free was refused is neither free nor held, and whatever  *)
(* a call comes to it leaves the lock of the pool as it found it               *)
(* (bm_mempool.c:195-228, 290-300, 342; bm_mempool.h:52).                      *)
OneHolder ==
    [][(Pool!OneHolder /\ Pool!LockIsHeld)' /\ Pool!ZeroedWhenGranted]_allVars

(* What is read while an interrupt writes is whole: a line of the log, and a   *)
(* frame of the recorder, of which none comes twice or out of order and none   *)
(* is missed without a drop being counted                                      *)
(* (bm_log.c:166-172, 204-215; bm_recorder.c:121-151).                         *)
CopiesAreWhole == LogLines!WholeLine /\ Frames!GoodFrame /\ Frames!DropsAreSeen

(* Lines of the log and events of the ultra-light profile come out in order    *)
(* and each once; one that does not fit is refused and nothing else is lost.   *)
(* The consumer of a stream is given the block committed first                 *)
(* (bm_log.c:159-164, 186-188; bm_ultra.c:147-162, 187-200; bm_stream.c:213).  *)
ServicesAreQueues ==
    LogLines!IsQueue /\ Ultra!IsQueue /\ Notified!FirstCommittedFirst

(* Wherever power fails and whichever step of the flash, a start finds what    *)
(* the last successful commit kept or a whole table tried since; what acts is  *)
(* what is shown; and a reset that fails leaves the records as they were       *)
(* (bm_param.c:176-180, 215-305; bm_persist.c:369-376).                        *)
SettingsSurvive ==
    /\ StartFindsWhole /\ ActsAsShown /\ FailedResetUndone

(* Storage keeps the old table or the new one, and the new one when a save     *)
(* says so; a save or reset that says ok brings its values back at the next    *)
(* start (bm_hal_nvs.h:12; bm_param.h:9-11, 104-108).                          *)
SavesAreDurable == Cell!Spec /\ SuccessIsKept
===============================================================================
