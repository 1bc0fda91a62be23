--------------------------------- MODULE Rs485 ---------------------------------
(* One half-duplex line (Source/component/bm_rs485.c) over a serial port that  *)
(* sends by DMA (bm_vendor_usart3_stm32g4.c).  The main loop sends, polls and  *)
(* resets; the interrupts of the port come between any two of its steps.  The  *)
(* driver of the line (DE) has to be on while the port sends, a time before    *)
(* and a time after, and off otherwise.  Bytes and echoes are left out.        *)
EXTENDS Naturals

CONSTANTS
    Pre, Post,  \* pre_delay_us and post_delay_us
    Timeout,    \* tx_timeout_us
    IdleTime,   \* rx_idle_timeout_us
    Longest,    \* the port has sent a frame after that, unless something is wrong
    PollGap,    \* the main loop polls at least so often
    Faults      \* of the port: "late" ends a frame after the timeout, "error" fails it

Rs485Assumption ==
    /\ {Pre, Post, IdleTime, PollGap} \subseteq Nat /\ {Timeout, Longest} \subseteq Nat \ {0}

VARIABLES
    dir, de,    \* the direction; the driver's pin
    air,        \* what the port sends: nothing, the frame of tx_data, one given up
    errors,     \* last_errors of the port
    age,        \* since tx_pre_start, tx_start, tx_end, last_rx and the last poll
    fired,      \* rx_idle_timeout_fired
    heard,      \* rx_byte_count > 0
    main,       \* the call in progress: its next step, and how long ago it read the clock
    cut         \* history: how long after its end the driver of the last frame went off

vars == <<dir, de, air, errors, age, fired, heard, main, cut>>

Sending == {"PRE", "TX", "TAIL"}
Clocks == {"pre", "start", "end", "rx", "poll"}
Limit(c) == CASE c = "pre" -> Pre [] c = "start" -> Timeout [] c = "end" -> Post
              [] c = "rx" -> IdleTime [] OTHER -> PollGap

\* Bound: a time is told apart up to a little more than its limit.
Oldest(c) == Limit(c) + 2 * PollGap + 1
Rest == [at |-> "rest", lag |-> 0]

Init ==
    /\ dir = "RX" /\ de = FALSE
    /\ air = "none" /\ errors = FALSE
    /\ age = [c \in Clocks |-> 0] /\ fired = FALSE /\ heard = FALSE
    /\ main = Rest /\ cut = Post

At(step) == main.at = step
GoTo(step) == main' = [main EXCEPT !.at = step]
Return == main' = Rest
HeldOn == de
Released == FALSE
Began(cs) == age' = [c \in Clocks |-> IF c \in cs THEN 0 ELSE age[c]]

Tick ==
    /\ age["poll"] < PollGap
    /\ air = "frame" => age["start"] < Longest \/ "late" \in Faults
    /\ age' = [c \in Clocks |-> IF age[c] < Oldest(c) THEN age[c] + 1 ELSE age[c]]
    /\ main' = IF At("rest") THEN main ELSE [main EXCEPT !.lag = @ + 1]
    /\ UNCHANGED <<dir, de, air, errors, fired, heard, cut>>

\* now - t, where t may have been taken after now: then it wraps to more than any delay.
Since(c) == IF age[c] < main.lag THEN Oldest(c) ELSE age[c] - main.lag

\* A frame whose direction is given up while the port still sends it.
GivenUp == IF air = "frame" THEN "old" ELSE air
ToRx == dir' = "RX" /\ air' = GivenUp
-----------------------------------------------------------------------------
(* bm_rs485_send                                                               *)
Send ==
    /\ At("rest") /\ dir = "RX" /\ age["poll"] < PollGap
    /\ IF Pre = 0 THEN dir' = "TX" /\ Began({"start"}) ELSE dir' = "PRE" /\ Began({"pre"})
    /\ GoTo("drive")
    /\ UNCHANGED <<de, air, errors, fired, heard, cut>>

Drive ==
    /\ At("drive")
    /\ de' = TRUE
    /\ IF Pre = 0 THEN GoTo("start") ELSE Return
    /\ UNCHANGED <<dir, air, errors, age, fired, heard, cut>>

PortAccepts == air = "none"
StartSending ==
    /\ At("start") \/ At("start_later")
    /\ PortAccepts
    /\ air' = "frame"
    /\ IF At("start") THEN Return ELSE GoTo("tail?")
    /\ UNCHANGED <<dir, de, errors, age, fired, heard, cut>>
SendRefused ==
    /\ At("start") \/ At("start_later")
    /\ ~PortAccepts
    /\ ToRx
    /\ GoTo(IF At("start") THEN "undrive" ELSE "undrive_tail?")
    /\ UNCHANGED <<de, errors, age, fired, heard, cut>>

Undrive ==
    /\ main.at \in {"undrive", "undrive_tail?", "undrive_timeout?", "undrive_errors?",
                    "undrive_idle?"}
    /\ de' = Released
    /\ cut' = IF At("undrive_timeout?") /\ age["end"] < Post THEN age["end"] ELSE Post
    /\ IF At("undrive") THEN Return
       ELSE GoTo(CASE At("undrive_tail?") -> "tail?" [] At("undrive_timeout?") -> "timeout?"
                   [] At("undrive_errors?") -> "errors?" [] OTHER -> "idle?")
    /\ UNCHANGED <<dir, air, errors, age, fired, heard>>

-----------------------------------------------------------------------------
(* bm_rs485_poll                                                               *)
Poll ==
    /\ At("rest")
    /\ main' = [at |-> IF dir = "PRE" /\ age["pre"] >= Pre THEN "transmit" ELSE "tail?",
                lag |-> 0]
    /\ Began({"poll"})
    /\ UNCHANGED <<dir, de, air, errors, fired, heard, cut>>

Transmit ==
    /\ At("transmit")
    /\ dir' = "TX"
    /\ age' = [age EXCEPT !["start"] = main.lag]
    /\ GoTo("start_later")
    /\ UNCHANGED <<de, air, errors, fired, heard, cut>>

TailOver == dir = "TAIL" /\ Since("end") >= Post
Tail ==
    /\ At("tail?")
    /\ IF TailOver THEN ToRx /\ GoTo("undrive_timeout?")
                   ELSE GoTo("timeout?") /\ UNCHANGED <<dir, air>>
    /\ UNCHANGED <<de, errors, age, fired, heard, cut>>

NeverLate == FALSE
Late == dir \in {"TX", "TAIL"} /\ Since("start") >= Timeout
GiveUp ==
    /\ At("timeout?")
    /\ IF Late THEN ToRx /\ GoTo("undrive_errors?")
               ELSE GoTo("errors?") /\ UNCHANGED <<dir, air>>
    /\ UNCHANGED <<de, errors, age, fired, heard, cut>>

\* bm_rs485_abort_tx_to_rx
Errors ==
    /\ At("errors?")
    /\ errors' = FALSE
    /\ IF errors /\ dir \in Sending THEN ToRx /\ GoTo("undrive_idle?")
                                    ELSE GoTo("idle?") /\ UNCHANGED <<dir, air>>
    /\ UNCHANGED <<de, age, fired, heard, cut>>

IdleFor == dir = "RX" /\ ~fired /\ heard /\ Since("rx") >= IdleTime
IdleCheck ==
    /\ At("idle?")
    /\ fired' = (fired \/ IdleFor)
    /\ Return
    /\ UNCHANGED <<dir, de, air, errors, age, heard, cut>>

-----------------------------------------------------------------------------
(* bm_rs485_reset; the port forgets what it was sending                        *)
Reset ==
    /\ At("rest") /\ age["poll"] < PollGap
    /\ ToRx
    /\ heard' = FALSE
    /\ GoTo("abort")
    /\ UNCHANGED <<de, errors, age, fired, cut>>
GoesOn == air
Aborted == "none"
Abort ==
    /\ At("abort")
    /\ air' = Aborted
    /\ GoTo("undrive")
    /\ UNCHANGED <<dir, de, errors, age, fired, heard, cut>>

-----------------------------------------------------------------------------
(* Interrupts of the port                                                      *)
\* bm_rs485_tx_complete_cb: of the last byte, or of a transfer that failed.
TxComplete ==
    /\ air # "none"
    /\ air' = "none"
    /\ \/ /\ ~errors /\ dir = "TX"
          /\ dir' = "TAIL" /\ Began({"end"})
          /\ UNCHANGED <<de, errors>>
       \/ /\ ~errors /\ dir # "TX"
          /\ UNCHANGED <<dir, de, errors, age>>
       \/ /\ errors \/ "error" \in Faults
          /\ errors' = FALSE
          /\ IF dir \in Sending THEN dir' = "RX" /\ de' = FALSE ELSE UNCHANGED <<dir, de>>
          /\ UNCHANGED age
    /\ UNCHANGED <<fired, heard, main, cut>>

\* bm_rs485_rx_frame_cb
RxFrame ==
    /\ Began({"rx"})
    /\ fired' = FALSE /\ heard' = (heard \/ dir = "RX")
    /\ UNCHANGED <<dir, de, air, errors, main, cut>>

PortError ==
    /\ "error" \in Faults /\ errors' = TRUE
    /\ UNCHANGED <<dir, de, air, age, fired, heard, main, cut>>

Next ==
    \/ Tick
    \/ Send \/ Drive \/ StartSending \/ SendRefused \/ Undrive
    \/ Poll \/ Transmit \/ Tail \/ GiveUp \/ Errors \/ IdleCheck
    \/ Reset \/ Abort
    \/ TxComplete \/ RxFrame \/ PortError

Spec == Init /\ [][Next]_vars

-----------------------------------------------------------------------------
TypeOK ==
    /\ dir \in Sending \cup {"RX"} /\ air \in {"none", "frame", "old"}
    /\ {de, errors, fired, heard} \subseteq BOOLEAN
    /\ \A c \in Clocks : age[c] \in 0 .. Oldest(c)
    /\ main.lag \in 0 .. PollGap /\ cut \in 0 .. Post

(* Between two calls the driver is on exactly while the direction is one of    *)
(* sending, so the line is never held for nothing, and a frame is driven until *)
(* the direction is given up (bm_rs485.c:107-132, 386-456, 481-555).           *)
DriverIsTrue ==
    /\ At("rest") => (de <=> dir # "RX")
    /\ air = "frame" => de

(* Whatever the port does, also if it never ends a frame or fails it, sending  *)
(* is over in time (bm_rs485.c:532-548).                                       *)
SendingEnds == dir \in {"TX", "TAIL"} => age["start"] <= Timeout + 2 * PollGap

(* The end of a frame is seen only after its last byte, unless the port is     *)
(* still busy with one that was given up (bm_rs485.c:127-130, 532-548): where  *)
(* a frame that goes well is sent, and the main loop polls, before the timeout. *)
InTime == Longest < Timeout /\ PollGap < Timeout
TailAfterSending == InTime /\ dir = "TAIL" => air # "frame"

(* The driver is held for post_delay_us after the last byte                    *)
(* (bm_rs485.h:80, "发送结束保持时间").                                        *)
TailIsHeld == cut >= Post
===============================================================================
