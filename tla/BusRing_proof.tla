---------------------------- MODULE BusRing_proof ----------------------------
(* Proofs about BusRing: for every set of shapes, so for every number of slots, *)
(* words, consumers and reader handles and for every round of the cursors, also *)
(* where they come round.                                                       *)
(*                                                                              *)
(* The inductive invariant IInv says where every cursor may be and what every   *)
(* slot holds: LagInv, that a consumer is never further ahead than the writer,  *)
(* and in QUEUE mode never further behind than the ring has slots; CallsInv and *)
(* HandlesInv, what a call under way has already read; SlotsInv, that a slot    *)
(* the writer has published and not reused holds the item of its position;      *)
(* LoansInv and GotInv, that what a reader has copied is of one item as long as *)
(* the window check of release will accept it.                                  *)
EXTENDS BusRing, Integers, TLAPS, SequenceTheorems, WellFoundedInduction

-----------------------------------------------------------------------------
(* Counters that come round, and the slots of a ring whose size divides what   *)
(* its cursors count modulo.                                                   *)

\* A sum of two remainders is at most one round too large.
LEMMA ModSmall ==
    ASSUME NEW m \in Nat \ {0}, NEW x \in 0 .. 2 * m - 1
    PROVE  x % m = IF x < m THEN x ELSE x - m
OBVIOUS

\* The quotient and the remainder.
LEMMA DivFacts ==
    ASSUME NEW m \in Nat \ {0}, NEW x \in Nat
    PROVE  x = m * (x \div m) + (x % m) /\ x \div m \in Nat /\ x % m \in 0 .. m - 1
OBVIOUS

\* A multiple of m that is not zero is at least m away from zero.
LEMMA MulAway ==
    ASSUME NEW m \in Nat \ {0}, NEW n \in Int, n # 0
    PROVE  m * n >= m \/ m * n <= -m
OBVIOUS

\* Positions less than k apart share a slot only when they are the same.
LEMMA SameSlot ==
    ASSUME NEW k \in Nat \ {0}, NEW x \in Nat, NEW y \in Nat,
           x % k = y % k, x <= y, y < x + k
    PROVE  x = y
<1>1. x = k * (x \div k) + (x % k) /\ y = k * (y \div k) + (y % k)
      /\ x \div k \in Int /\ y \div k \in Int
  BY DivFacts
<1>2. y - x = k * ((y \div k) - (x \div k))
  BY <1>1
<1>3. (y \div k) - (x \div k) = 0
  BY <1>1, <1>2, MulAway
<1> QED BY <1>2, <1>3

\* A whole round later a position has the same slot.
LEMMA LapSlot ==
    ASSUME NEW k \in Nat \ {0}, NEW n \in Nat, n % k = 0, NEW x \in Nat
    PROVE  (x + n) % k = x % k
<1>1. \A y \in Nat : /\ y = k * (y \div k) + (y % k)
                     /\ y \div k \in Int /\ y % k \in 0 .. k - 1
  BY DivFacts
<1>2. x + n \in Nat
  OBVIOUS
<1>3. x + n = k * ((x \div k) + (n \div k)) + (x % k)
  BY <1>1
<1>4. x + n = k * ((x + n) \div k) + ((x + n) % k)
  BY <1>1, <1>2
<1>5. /\ (x \div k) + (n \div k) \in Int /\ (x + n) \div k \in Int
      /\ x % k \in 0 .. k - 1 /\ (x + n) % k \in 0 .. k - 1
  BY <1>1, <1>2
<1> DEFINE d == (x \div k) + (n \div k) - ((x + n) \div k)
<1>6. d \in Int /\ ((x + n) % k) - (x % k) = k * d
  BY <1>3, <1>4, <1>5
<1>7. d = 0
  BY <1>5, <1>6, MulAway
<1> QED BY <1>5, <1>6, <1>7

\* A ring's round is a multiple of its slots: more than two is at least three.
LEMMA ThreeRounds ==
    ASSUME NEW k \in Nat \ {0}, NEW n \in Nat, n % k = 0, n > 2 * k
    PROVE  n >= 3 * k
<1> DEFINE d == (n \div k) - 2
<1>1. d \in Int /\ n - 2 * k = k * d
  BY DivFacts
<1>2. d # 0
  BY <1>1
<1>3. k * d >= k \/ k * d <= -k
  BY <1>1, <1>2, MulAway
<1> QED BY <1>1, <1>3

-----------------------------------------------------------------------------
(* The shape of the ring and the arithmetic of its cursors                     *)
ShapeType == shape \in Shapes

\* What ShapeAssumption gives for the shape of the ring.
LEMMA Geometry ==
    ASSUME ShapeType
    PROVE  /\ Capacity \in Nat /\ Capacity >= 2
           /\ CurMod \in Nat /\ CurMod >= 3 * Capacity /\ CurMod % Capacity = 0
           /\ MaxConsumers \in Nat /\ MaxConsumers >= 1
           /\ WordCount \in Nat /\ WordCount >= 1
           /\ Mode \in {"QUEUE", "SIGNAL"} /\ (Mode = "QUEUE" => MaxConsumers = 1)
           /\ LateRead \in BOOLEAN
<1>1. /\ Capacity \in Nat /\ Capacity >= 2
      /\ CurMod \in Nat /\ CurMod > 2 * Capacity /\ CurMod % Capacity = 0
      /\ MaxConsumers \in Nat /\ MaxConsumers >= 1
      /\ WordCount \in Nat /\ WordCount >= 1
      /\ Mode \in {"QUEUE", "SIGNAL"} /\ (Mode = "QUEUE" => MaxConsumers = 1)
      /\ LateRead \in BOOLEAN
  BY ShapeAssumption
     DEF ShapeType, Capacity, CurMod, MaxConsumers, WordCount, Mode, LateRead
<1>2. CurMod >= 3 * Capacity
  BY <1>1, ThreeRounds
<1> QED BY <1>1, <1>2

\* The distance between two cursors, and the position n behind one.
LEMMA BehindIs ==
    ASSUME ShapeType, NEW w \in Cursors, NEW c \in Cursors
    PROVE  /\ Behind(w, c) = IF w >= c THEN w - c ELSE w - c + CurMod
           /\ Behind(w, c) \in Cursors
<1>1. CurMod \in Nat \ {0}
  BY Geometry
<1> DEFINE d == w + CurMod - c
<1>2. d \in 0 .. 2 * CurMod - 1
  BY <1>1 DEF Cursors
<1>3. Behind(w, c) = d % CurMod
  BY DEF Behind
<1> HIDE DEF d
<1>4. d % CurMod = IF d < CurMod THEN d ELSE d - CurMod
  BY <1>1, <1>2, ModSmall
<1>5. Behind(w, c) = IF d < CurMod THEN d ELSE d - CurMod
  BY <1>3, <1>4
<1> QED BY <1>1, <1>5 DEF d, Cursors

\* One cursor further.
LEMMA PlusIs ==
    ASSUME ShapeType, NEW c \in Cursors
    PROVE  /\ Plus(c, 1) = IF c = CurMod - 1 THEN 0 ELSE c + 1
           /\ Plus(c, 1) \in Cursors
<1>1. CurMod \in Nat \ {0} /\ CurMod >= 2
  BY Geometry
<1> DEFINE d == c + 1
<1>2. d \in 0 .. 2 * CurMod - 1 /\ Plus(c, 1) = d % CurMod
  BY <1>1 DEF Cursors, Plus
<1> HIDE DEF d
<1>3. d % CurMod = IF d < CurMod THEN d ELSE d - CurMod
  BY <1>1, <1>2, ModSmall
<1>4. Plus(c, 1) = IF d < CurMod THEN d ELSE d - CurMod
  BY <1>2, <1>3
<1> QED BY <1>1, <1>4 DEF d, Cursors

\* The cursor that a lapped reader jumps to.
LEMMA OldestIs ==
    ASSUME ShapeType, NEW w \in Cursors
    PROVE  Oldest(w) = Behind(w, Capacity - 1) /\ Capacity - 1 \in Cursors
BY Geometry DEF Oldest, Behind, Cursors

\* A commit is one step further away from every cursor behind it.
LEMMA CommitLag ==
    ASSUME ShapeType, NEW w \in Cursors, NEW c \in Cursors, Behind(w, c) < CurMod - 1
    PROVE  Behind(Plus(w, 1), c) = Behind(w, c) + 1
<1>1. CurMod \in Nat /\ CurMod >= 2
  BY Geometry
<1>2. Plus(w, 1) = (IF w = CurMod - 1 THEN 0 ELSE w + 1) /\ Plus(w, 1) \in Cursors
  BY PlusIs
<1>3. Behind(w, c) = IF w >= c THEN w - c ELSE w - c + CurMod
  BY BehindIs
<1>4. Behind(Plus(w, 1), c) =
         IF Plus(w, 1) >= c THEN Plus(w, 1) - c ELSE Plus(w, 1) - c + CurMod
  BY <1>2, BehindIs
<1> QED BY <1>1, <1>2, <1>3, <1>4 DEF Cursors

\* A cursor that is behind comes one step closer when it advances.
LEMMA AdvanceLag ==
    ASSUME ShapeType, NEW w \in Cursors, NEW c \in Cursors, Behind(w, c) >= 1
    PROVE  Behind(w, Plus(c, 1)) = Behind(w, c) - 1
<1>1. CurMod \in Nat /\ CurMod >= 2
  BY Geometry
<1>2. Plus(c, 1) = (IF c = CurMod - 1 THEN 0 ELSE c + 1) /\ Plus(c, 1) \in Cursors
  BY PlusIs
<1>3. Behind(w, c) = IF w >= c THEN w - c ELSE w - c + CurMod
  BY BehindIs
<1>4. Behind(w, Plus(c, 1)) =
         IF w >= Plus(c, 1) THEN w - Plus(c, 1) ELSE w - Plus(c, 1) + CurMod
  BY <1>2, BehindIs
<1> QED BY <1>1, <1>2, <1>3, <1>4 DEF Cursors

\* A lapped reader that jumps is a ring less one behind what it had loaded.
LEMMA JumpLag ==
    ASSUME ShapeType, NEW w \in Cursors, NEW v \in Cursors, NEW c \in Cursors,
           Behind(w, c) = Behind(w, v) + Behind(v, c), Behind(v, c) >= Capacity
    PROVE  /\ Oldest(v) \in Cursors
           /\ Behind(v, Oldest(v)) = Capacity - 1
           /\ Behind(w, Oldest(v)) = Behind(w, v) + Capacity - 1
<1>1. /\ Capacity \in Nat /\ Capacity >= 2
      /\ CurMod \in Nat /\ CurMod >= 3 * Capacity
  BY Geometry
<1>2. /\ Oldest(v) \in Cursors
      /\ Oldest(v) = IF v >= Capacity - 1 THEN v - (Capacity - 1)
                     ELSE v - (Capacity - 1) + CurMod
  BY OldestIs, BehindIs
<1>3. Behind(v, Oldest(v)) =
         IF v >= Oldest(v) THEN v - Oldest(v) ELSE v - Oldest(v) + CurMod
  BY <1>2, BehindIs
<1>4. Behind(w, Oldest(v)) =
         IF w >= Oldest(v) THEN w - Oldest(v) ELSE w - Oldest(v) + CurMod
  BY <1>2, BehindIs
<1>5. /\ Behind(w, c) = IF w >= c THEN w - c ELSE w - c + CurMod
      /\ Behind(w, v) = IF w >= v THEN w - v ELSE w - v + CurMod
      /\ Behind(v, c) = IF v >= c THEN v - c ELSE v - c + CurMod
  BY BehindIs
<1>6. Behind(v, Oldest(v)) = Capacity - 1
  BY <1>1, <1>2, <1>3 DEF Cursors
<1>7. Behind(w, Oldest(v)) = Behind(w, v) + Capacity - 1
  BY <1>1, <1>2, <1>4, <1>5 DEF Cursors
<1> QED BY <1>2, <1>6, <1>7

\* A cursor has a slot.
LEMMA SlotOfType ==
    ASSUME ShapeType, NEW c \in Cursors PROVE SlotOf(c) \in Slots
<1>1. Capacity \in Nat \ {0} /\ c \in Nat
  BY Geometry DEF Cursors
<1> QED BY <1>1, DivFacts DEF SlotOf, Slots

\* The slots of the frames that are still in the ring are not the write slot.
LEMMA SlotsApart ==
    ASSUME ShapeType, NEW w \in Cursors, NEW i \in 1 .. Capacity - 1
    PROVE  SlotOf(Behind(w, i)) # SlotOf(w) /\ i \in Cursors
<1>1. /\ Capacity \in Nat \ {0} /\ Capacity >= 2 /\ CurMod % Capacity = 0
      /\ CurMod \in Nat /\ CurMod >= 3 * Capacity /\ i \in Cursors /\ w \in Nat
  BY Geometry DEF Cursors
<1>2. CASE w >= i
  <2>1. w - i \in Nat /\ Behind(w, i) = w - i
    BY <1>1, <1>2, BehindIs
  <2>2. Behind(w, i) <= w /\ w < Behind(w, i) + Capacity /\ Behind(w, i) # w
    BY <1>1, <2>1
  <2>3. Behind(w, i) % Capacity # w % Capacity
    BY <1>1, <2>1, <2>2, SameSlot
  <2> QED BY <1>1, <2>3 DEF SlotOf
<1>3. CASE ~(w >= i)
  <2>1. w - i + CurMod \in Nat /\ Behind(w, i) = w - i + CurMod /\ w + CurMod \in Nat
    BY <1>1, <1>3, BehindIs DEF Cursors
  <2>2. (w + CurMod) % Capacity = w % Capacity
    BY <1>1, LapSlot
  <2>3. w - i + CurMod <= w + CurMod /\ w + CurMod < w - i + CurMod + Capacity
        /\ w - i + CurMod # w + CurMod
    BY <1>1
  <2> QED BY <1>1, <2>1, <2>2, <2>3, SameSlot DEF SlotOf
<1> QED BY <1>1, <1>2, <1>3

\* The frames behind the write cursor after a commit: the new one, then the old.
LEMMA CommitBack ==
    ASSUME ShapeType, NEW w \in Cursors, NEW i \in 1 .. Capacity - 1
    PROVE  /\ i \in Cursors /\ i - 1 \in Cursors
           /\ Behind(Plus(w, 1), i) = Behind(w, i - 1)
           /\ Behind(w, 0) = w
<1>1. /\ Capacity \in Nat \ {0} /\ CurMod \in Nat /\ CurMod >= 3 * Capacity
      /\ i \in Cursors /\ i - 1 \in Cursors /\ 0 \in Cursors
  BY Geometry DEF Cursors
<1>2. Plus(w, 1) = (IF w = CurMod - 1 THEN 0 ELSE w + 1) /\ Plus(w, 1) \in Cursors
  BY PlusIs
<1>3. Behind(Plus(w, 1), i) =
         IF Plus(w, 1) >= i THEN Plus(w, 1) - i ELSE Plus(w, 1) - i + CurMod
  BY <1>1, <1>2, BehindIs
<1>4. Behind(w, i - 1) = IF w >= i - 1 THEN w - (i - 1) ELSE w - (i - 1) + CurMod
  BY <1>1, BehindIs
<1>5. Behind(w, 0) = IF w >= 0 THEN w - 0 ELSE w - 0 + CurMod
  BY <1>1, BehindIs
<1>6. Behind(Plus(w, 1), i) = Behind(w, i - 1)
  BY <1>1, <1>2, <1>3, <1>4 DEF Cursors
<1> QED BY <1>1, <1>5, <1>6 DEF Cursors

\* Going back from w by the distance from c to w leads to c.
LEMMA BackAgain ==
    ASSUME ShapeType, NEW w \in Cursors, NEW c \in Cursors
    PROVE  Behind(w, Behind(w, c)) = c
<1>1. CurMod \in Nat
  BY Geometry
<1>2. /\ Behind(w, c) = (IF w >= c THEN w - c ELSE w - c + CurMod)
      /\ Behind(w, c) \in Cursors
  BY BehindIs
<1>3. Behind(w, Behind(w, c)) =
         IF w >= Behind(w, c) THEN w - Behind(w, c) ELSE w - Behind(w, c) + CurMod
  BY <1>2, BehindIs
<1> QED BY <1>1, <1>2, <1>3 DEF Cursors

-----------------------------------------------------------------------------
(* The inductive invariant.                                                    *)

\* A handle that is attached has an entry of its own, which is in use.
Bound(r) == EntryOf(r) # Unbound
HandlesInv ==
    /\ \A r \in Readers : Bound(r) => entryUsed[EntryOf(r)]
    /\ \A q, r \in Readers : q # r /\ Bound(q) => EntryOf(q) # EntryOf(r)
    /\ \A r \in Readers : ~Bound(r) =>
          rpc[r] = "idle" /\ ~handle[r].borrowed /\ got[r].ret = "none"
    /\ \A r \in Readers : rpc[r] = "release" => ~handle[r].borrowed

\* How far the writer is ahead of a cursor.  The cursor of a queue binds the writer
\* whether or not a reader is attached.
Tracked(e) == entryUsed[e] \/ Mode = "QUEUE"
Lag(e) == Behind(writeCur, readCur[e])
LagLimit == IF Mode = "QUEUE" THEN Capacity - 1 ELSE CurMod - 2 * Capacity
LagInv ==
    \A e \in Entries : Tracked(e) => Lag(e) <= LagLimit /\ (wip => Lag(e) < LagLimit)

\* What a call loaded lies between the reader's cursor, which it has passed, and
\* the writer's; a reader with a loan has not caught up with the writer.
CallInv(r) ==
    /\ rpc[r] # "idle" =>
          /\ Behind(writeCur, CurOf(r)) = Behind(writeCur, rwc[r]) + Behind(rwc[r], CurOf(r))
          /\ Behind(rwc[r], CurOf(r)) >= 1
    /\ rpc[r] = "idle" /\ handle[r].borrowed => Behind(writeCur, CurOf(r)) >= 1
CallsInv == \A r \in Readers : CallInv(r)

\* The frames a reader can still get are whole, and so is what the writer has
\* written of the next one.
FrameAt(p) == \A x \in Words : data[SlotOf(p)][x] = p
WholeBehind(e) ==
    \A i \in 1 .. Capacity - 1 : i <= Lag(e) => FrameAt(Behind(writeCur, i))
SlotsInv ==
    /\ wip => \A x \in 1 .. written : data[SlotOf(writeCur)][x] = writeCur
    /\ \A e \in Entries : Tracked(e) => WholeBehind(e)

\* A loan is of the frame at the reader's cursor; each word that was copied is of
\* that frame, unless the reader has been lapped and will find out.
Loan(r) == rpc[r] = "release" \/ (rpc[r] = "idle" /\ handle[r].borrowed)
Seen(r) == IF rpc[r] = "release" THEN rwc[r] ELSE writeCur
CopiedInTime == LateRead => Mode = "QUEUE"
LoanInv(r) ==
    Loan(r) =>
        /\ rcopy[r].pos = CurOf(r)
        /\ CopiedInTime => \A x \in DOMAIN rcopy[r].words :
              rcopy[r].words[x] = rcopy[r].pos \/ Lapped(Seen(r), CurOf(r))
LoansInv == \A r \in Readers : LoanInv(r)

\* What a call has returned stays good.
GotInv == CopiedInTime => GoodCopy

IInv == /\ ShapeType /\ TypeOK /\ HandlesInv
        /\ LagInv /\ CallsInv /\ SlotsInv /\ LoansInv /\ GotInv

-----------------------------------------------------------------------------
(* Types.                                                                      *)

\* A copy that takes one more word.
LEMMA CopyGrows ==
    ASSUME ShapeType, NEW ws \in Copies, Len(ws) < WordCount, NEW v \in 0 .. NoStamp
    PROVE  /\ Append(ws, v) \in Copies
           /\ DOMAIN Append(ws, v) = DOMAIN ws \cup {Len(ws) + 1}
           /\ \A x \in DOMAIN ws : Append(ws, v)[x] = ws[x]
           /\ Append(ws, v)[Len(ws) + 1] = v
           /\ Len(ws) + 1 \in Words /\ Len(ws) \in Nat
<1>1. PICK n \in 0 .. WordCount : ws \in [1 .. n -> 0 .. NoStamp]
  BY DEF Copies
<1>2. WordCount \in Nat /\ n \in Nat
  BY Geometry
<1>3. ws \in Seq(0 .. NoStamp)
  BY <1>1, <1>2, SeqDef
<1>4. Len(ws) = n /\ DOMAIN ws = 1 .. n
  <2>1. DOMAIN ws = 1 .. Len(ws) /\ Len(ws) \in Nat
    BY <1>3, LenProperties
  <2>2. DOMAIN ws = 1 .. n
    BY <1>1
  <2>3. \A k \in Nat : 1 .. k = 1 .. n => k = n
    <3>1. SUFFICES ASSUME NEW k \in Nat, 1 .. k = 1 .. n, k # n PROVE FALSE
      OBVIOUS
    <3>2. k \in 1 .. k \/ k = 0
      OBVIOUS
    <3>3. n \in 1 .. n \/ n = 0
      BY <1>2
    <3> QED BY <1>2, <3>1, <3>2, <3>3
  <2> QED BY <2>1, <2>2, <2>3
<1>5. n + 1 \in 0 .. WordCount /\ n + 1 \in Words /\ n + 1 \in Nat
  BY <1>2, <1>4 DEF Words
<1>6. /\ Append(ws, v) \in Seq(0 .. NoStamp) /\ Len(Append(ws, v)) = n + 1
      /\ \A x \in 1 .. n : Append(ws, v)[x] = ws[x]
      /\ Append(ws, v)[n + 1] = v
  BY <1>2, <1>3, <1>4, AppendProperties
<1>7. Append(ws, v) \in [1 .. n + 1 -> 0 .. NoStamp]
  BY <1>6, LenProperties
<1>8. Append(ws, v) \in Copies
  BY <1>5, <1>7 DEF Copies
<1>9. 1 .. n + 1 = (1 .. n) \cup {n + 1}
  BY <1>2
<1> QED BY <1>2, <1>4, <1>5, <1>6, <1>7, <1>8, <1>9

\* The marks that stand for nothing have the types of what they stand for.
LEMMA Constants ==
    ASSUME ShapeType
    PROVE  /\ 0 \in Cursors /\ NoStamp \in 0 .. NoStamp /\ Cursors \subseteq 0 .. NoStamp
           /\ <<>> \in Copies
           /\ NoCopy \in [pos : 0 .. NoStamp, words : Copies]
           /\ Nothing \in [ret : {"none", "OK", "OVERFLOW"}, pos : 0 .. NoStamp,
                           words : Copies]
           /\ 0 \in 0 .. WordCount /\ 0 \in 0 .. MaxConsumers /\ 0 \in 0 .. OverflowMax
           /\ Unbound \notin Entries
<1>1. /\ CurMod \in Nat /\ CurMod >= 1 /\ WordCount \in Nat
      /\ MaxConsumers \in Nat
  BY Geometry
<1>2. <<>> \in [1 .. 0 -> 0 .. NoStamp]
  OBVIOUS
<1>3. <<>> \in Copies
  BY <1>1, <1>2 DEF Copies
<1>4. 0 \in Cursors /\ NoStamp \in 0 .. NoStamp /\ Cursors \subseteq 0 .. NoStamp
  BY <1>1 DEF Cursors, NoStamp
<1> QED BY <1>1, <1>3, <1>4 DEF NoCopy, Nothing, Unbound, Entries, OverflowMax

\* The first state is well-formed.
LEMMA InitType == Init => ShapeType /\ TypeOK
<1> SUFFICES ASSUME Init PROVE ShapeType /\ TypeOK
  OBVIOUS
<1>1. ShapeType
  BY DEF Init, ShapeType
<1>2. /\ MaxConsumers \in Nat /\ MaxConsumers >= 1
  BY <1>1, Geometry
<1>3. NoStamp \in 0 .. NoStamp
  BY <1>1, Constants
<1>4. data \in [Slots -> Frame]
  BY <1>3 DEF Init, Frame
<1>5. handle \in [Readers -> [entry : Entries \cup {Unbound}, borrowed : BOOLEAN]]
  BY DEF Init
<1>6. /\ 0 \in Cursors /\ 0 \in 0 .. WordCount /\ 0 \in 0 .. MaxConsumers
      /\ 0 \in 0 .. OverflowMax
  BY <1>1, Constants
<1>7. /\ writeCur \in Cursors /\ wip \in BOOLEAN /\ frozen \in BOOLEAN
      /\ readerCount \in 0 .. MaxConsumers
      /\ readCur \in [Entries -> Cursors]
      /\ entryUsed \in [Entries -> BOOLEAN]
      /\ overflows \in [Entries -> 0 .. OverflowMax] /\ written \in 0 .. WordCount
  BY <1>6 DEF Init
<1>8. /\ rpc \in [Readers -> {"idle", "acquire", "release"}]
      /\ rwc \in [Readers -> Cursors]
      /\ rcopy \in [Readers -> [pos : 0 .. NoStamp, words : Copies]]
      /\ got \in [Readers -> [ret : {"none", "OK", "OVERFLOW"}, pos : 0 .. NoStamp,
                              words : Copies]]
  BY <1>1, Constants DEF Init
<1> QED BY <1>1, <1>4, <1>5, <1>7, <1>8 DEF TypeOK

\* What stays fixed when the shape does.
LEMMA ShapeStays ==
    ASSUME UNCHANGED shape
    PROVE  /\ UNCHANGED <<Mode, Capacity, CurMod, WordCount, MaxConsumers, LateRead>>
           /\ UNCHANGED <<Readers, Cursors, Slots, Entries, Words, Unbound, NoStamp>>
           /\ UNCHANGED <<NoCopy, Nothing, Frame, Copies>>
           /\ ShapeType' = ShapeType
BY DEF Mode, Capacity, CurMod, WordCount, MaxConsumers, LateRead, Readers, Cursors, Slots,
       Entries, Words, Unbound, NoStamp, NoCopy, Nothing, Frame, Copies, ShapeType

\* The shape never changes.
LEMMA ShapeStep == ShapeType /\ [Next]_vars => ShapeType' /\ UNCHANGED shape
BY DEF ShapeType, Next, vars, Freeze, Reset, Writer, AcquireWrite, WriteWord, Commit,
       Abort, Reader, ReaderAttach, AcquireLoad, Lend, CopyWord, ReleaseLoad,
       ReleaseOverflow, ReleaseOK

\* The parts of TypeOK that an action of a reader leaves to the storage, and back.
StorageType ==
    /\ writeCur \in Cursors /\ wip \in BOOLEAN /\ frozen \in BOOLEAN
    /\ readerCount \in 0 .. MaxConsumers
    /\ readCur \in [Entries -> Cursors]
    /\ entryUsed \in [Entries -> BOOLEAN]
    /\ overflows \in [Entries -> 0 .. OverflowMax]
    /\ data \in [Slots -> Frame] /\ written \in 0 .. WordCount
ReaderType ==
    /\ handle \in [Readers -> [entry : Entries \cup {Unbound}, borrowed : BOOLEAN]]
    /\ rpc \in [Readers -> {"idle", "acquire", "release"}]
    /\ rwc \in [Readers -> Cursors]
    /\ rcopy \in [Readers -> [pos : 0 .. NoStamp, words : Copies]]
    /\ got \in [Readers -> [ret : {"none", "OK", "OVERFLOW"}, pos : 0 .. NoStamp,
                            words : Copies]]

\* TypeOK, of the writer and of the readers.
LEMMA TypeParts ==
    /\ TypeOK <=> StorageType /\ ReaderType
    /\ TypeOK' <=> StorageType' /\ ReaderType'
BY DEF TypeOK, StorageType, ReaderType

\* A step that leaves the storage as it is keeps its types,
LEMMA StorageTypeSame ==
    ASSUME UNCHANGED <<shape, storage, data, written>>
    PROVE  StorageType' = StorageType
BY ShapeStays DEF StorageType, storage

\* and one that leaves the readers as they are keeps theirs.
LEMMA ReaderTypeSame ==
    ASSUME UNCHANGED <<shape, readerVars>>
    PROVE  ReaderType' = ReaderType
BY ShapeStays DEF ReaderType, readerVars

\* The counter of overflows saturates.
LEMMA OverflowsType ==
    ASSUME NEW n \in 0 .. OverflowMax PROVE SatInc(n) \in 0 .. OverflowMax
BY DEF SatInc, OverflowMax

\* Every step keeps the types.
LEMMA TypeStep == ShapeType /\ TypeOK /\ HandlesInv /\ [Next]_vars => TypeOK'
<1> SUFFICES ASSUME ShapeType, StorageType, ReaderType, HandlesInv, [Next]_vars
             PROVE  StorageType' /\ ReaderType'
  BY TypeParts
<1>1. UNCHANGED shape
  BY ShapeStep
<1>2. /\ 0 \in Cursors /\ 0 \in 0 .. WordCount /\ 0 \in 0 .. MaxConsumers
      /\ 0 \in 0 .. OverflowMax
  BY Constants
<1>3. /\ NoCopy \in [pos : 0 .. NoStamp, words : Copies]
      /\ Nothing \in [ret : {"none", "OK", "OVERFLOW"}, pos : 0 .. NoStamp,
                      words : Copies]
  BY Constants
<1> USE ShapeStays
<1>4. CASE UNCHANGED vars
  BY <1>4, StorageTypeSame, ReaderTypeSame DEF vars, readerVars, storage
<1>5. CASE Freeze
  <2>1. ReaderType'
    BY <1>5, ReaderTypeSame DEF Freeze
  <2>2. StorageType'
    BY <1>1, <1>5 DEF Freeze, StorageType
  <2> QED BY <2>1, <2>2
<1>6. CASE Reset
  <2>1. StorageType'
    <3>1. /\ readCur' \in [Entries' -> Cursors'] /\ entryUsed' \in [Entries' -> BOOLEAN]
          /\ overflows' \in [Entries' -> 0 .. OverflowMax]
      BY <1>1, <1>2, <1>6 DEF Reset
    <3> QED BY <1>1, <1>2, <1>6, <3>1 DEF Reset, StorageType
  <2>2. ReaderType'
    BY <1>1, <1>3, <1>6 DEF Reset, ReaderType
  <2> QED BY <2>1, <2>2
<1>7. CASE AcquireWrite \/ Abort
  <2>1. ReaderType'
    BY <1>7, ReaderTypeSame DEF AcquireWrite, Abort
  <2>2. StorageType'
    BY <1>1, <1>2, <1>7 DEF AcquireWrite, Abort, StorageType
  <2> QED BY <2>1, <2>2
<1>8. CASE WriteWord
  <2>1. ReaderType'
    BY <1>8, ReaderTypeSame DEF WriteWord
  <2>2. /\ writeCur \in 0 .. NoStamp /\ SlotOf(writeCur) \in Slots
        /\ written + 1 \in Words /\ written + 1 \in 0 .. WordCount
    <3>1. WordCount \in Nat
      BY Geometry
    <3>2. writeCur \in 0 .. NoStamp
      BY Constants DEF StorageType
    <3> QED BY <1>8, <3>1, <3>2, SlotOfType DEF StorageType, WriteWord, Words
  <2>3. data' \in [Slots -> Frame]
    BY <1>8, <2>2 DEF WriteWord, StorageType, Frame
  <2>4. StorageType'
    BY <1>1, <1>8, <2>2, <2>3 DEF WriteWord, StorageType, storage
  <2> QED BY <2>1, <2>4
<1>9. CASE Commit
  <2>1. ReaderType'
    BY <1>9, ReaderTypeSame DEF Commit
  <2>2. Plus(writeCur, 1) \in Cursors
    BY PlusIs DEF StorageType
  <2>3. StorageType'
    BY <1>1, <1>2, <1>9, <2>2 DEF Commit, StorageType
  <2> QED BY <2>1, <2>3
<1>10. ASSUME NEW r \in Readers, ReaderAttach(r) PROVE StorageType' /\ ReaderType'
  <2>1. PICK e \in Entries :
          /\ readCur' = [readCur EXCEPT ![e] = writeCur]
          /\ overflows' = [overflows EXCEPT ![e] = 0]
          /\ entryUsed' = [entryUsed EXCEPT ![e] = TRUE]
          /\ handle' = [handle EXCEPT ![r] = [entry |-> e, borrowed |-> FALSE]]
    BY <1>10 DEF ReaderAttach
  <2>2. readerCount + 1 \in 0 .. MaxConsumers
    <3>1. MaxConsumers \in Nat /\ MaxConsumers >= 1
      BY Geometry
    <3>2. readerCount < MaxConsumers
      BY <1>10, <3>1 DEF ReaderAttach, RoomForReader, StorageType
    <3> QED BY <3>1, <3>2 DEF StorageType
  <2>3. StorageType'
    BY <1>1, <1>10, <2>1, <2>2 DEF ReaderAttach, StorageType, OverflowMax
  <2>4. ReaderType'
    BY <1>1, <1>3, <1>10, <2>1 DEF ReaderAttach, ReaderType
  <2> QED BY <2>3, <2>4
<1>11. ASSUME NEW r \in Readers, AcquireLoad(r) \/ ReleaseLoad(r)
       PROVE  StorageType' /\ ReaderType'
  <2>1. StorageType'
    BY <1>11, StorageTypeSame DEF AcquireLoad, ReleaseLoad
  <2>2. CASE AcquireLoad(r)
    BY <1>1, <1>3, <2>1, <2>2 DEF AcquireLoad, ReaderType, StorageType
  <2>3. CASE ReleaseLoad(r)
    BY <1>1, <2>1, <2>3 DEF ReleaseLoad, ReaderType, StorageType
  <2> QED BY <1>11, <2>1, <2>2, <2>3
<1>12. ASSUME NEW r \in Readers, rpc[r] # "idle"
       PROVE  /\ EntryOf(r) \in Entries /\ CurOf(r) \in Cursors
              /\ Oldest(rwc[r]) \in Cursors /\ Plus(CurOf(r), 1) \in Cursors
              /\ SatInc(overflows[EntryOf(r)]) \in 0 .. OverflowMax
  <2>1. EntryOf(r) \in Entries
    BY <1>12 DEF HandlesInv, Bound, ReaderType, EntryOf
  <2>2. CurOf(r) \in Cursors /\ rwc[r] \in Cursors
    BY <2>1 DEF StorageType, ReaderType, CurOf
  <2>3. Oldest(rwc[r]) \in Cursors
    BY <2>2, OldestIs, BehindIs
  <2> QED BY <2>1, <2>2, <2>3, PlusIs, OverflowsType DEF StorageType
<1>13. ASSUME NEW r \in Readers, Lend(r) PROVE StorageType' /\ ReaderType'
  <2>1. readCur' \in [Entries -> Cursors] /\ overflows' \in [Entries -> 0 .. OverflowMax]
    BY <1>12, <1>13 DEF Lend, Jump, StorageType
  <2>2. StorageType'
    BY <1>1, <1>13, <2>1 DEF Lend, StorageType
  <2>3. readCur'[EntryOf(r)] \in 0 .. NoStamp /\ <<>> \in Copies
    BY <1>12, <1>13, <2>1, Constants DEF Lend
  <2>4. ReaderType'
    BY <1>1, <1>2, <1>13, <2>3 DEF Lend, ReaderType
  <2> QED BY <2>2, <2>4
<1>14. ASSUME NEW r \in Readers, CopyWord(r) PROVE StorageType' /\ ReaderType'
  <2>1. StorageType'
    BY <1>14, StorageTypeSame DEF CopyWord
  <2> DEFINE ws == rcopy[r].words
             v == data[SlotOf(rcopy[r].pos)][Len(ws) + 1]
  <2>2. ws \in Copies /\ rcopy[r].pos \in 0 .. NoStamp /\ Len(ws) < WordCount
    BY <1>14 DEF ReaderType, CopyWord
  <2>3. Len(ws) + 1 \in Words
    BY <2>2, Constants, CopyGrows
  <2>4. SlotOf(rcopy[r].pos) \in Slots
    <3>1. Capacity \in Nat \ {0} /\ rcopy[r].pos \in Nat
      BY <2>2, Geometry DEF NoStamp
    <3> QED BY <3>1, DivFacts DEF SlotOf, Slots
  <2>5. v \in 0 .. NoStamp
    BY <2>3, <2>4 DEF StorageType, Frame
  <2>6. Append(ws, v) \in Copies
    BY <2>2, <2>5, CopyGrows
  <2>7. rcopy' = [rcopy EXCEPT ![r].words = Append(ws, v)]
    BY <1>14 DEF CopyWord, ReaderType
  <2>8. rcopy' \in [Readers -> [pos : 0 .. NoStamp, words : Copies]]
    BY <2>6, <2>7 DEF ReaderType
  <2>9. ReaderType'
    BY <1>1, <1>14, <2>8 DEF CopyWord, ReaderType
  <2> QED BY <2>1, <2>9
<1>15. ASSUME NEW r \in Readers, ReleaseOverflow(r) \/ ReleaseOK(r)
       PROVE  StorageType' /\ ReaderType'
  <2>1. readCur' \in [Entries -> Cursors] /\ overflows' \in [Entries -> 0 .. OverflowMax]
    BY <1>12, <1>15 DEF ReleaseOverflow, ReleaseOK, Jump, StorageType, CurOf
  <2>2. StorageType'
    BY <1>1, <1>15, <2>1 DEF ReleaseOverflow, ReleaseOK, Return, StorageType
  <2>3. ReaderType'
    <3>1. PICK ret \in {"OK", "OVERFLOW"} : Return(r, ret) /\ UNCHANGED handle
      BY <1>15 DEF ReleaseOverflow, ReleaseOK
    <3>2. rpc' \in [Readers -> {"idle", "acquire", "release"}] /\ rwc' \in [Readers -> Cursors]
      BY <1>2, <3>1 DEF Return, ReaderType
    <3>3. rcopy' \in [Readers -> [pos : 0 .. NoStamp, words : Copies]]
      BY <1>3, <3>1 DEF Return, ReaderType
    <3>4. got' \in [Readers -> [ret : {"none", "OK", "OVERFLOW"}, pos : 0 .. NoStamp,
                               words : Copies]]
      BY <3>1 DEF Return, ReaderType
    <3> QED BY <1>1, <3>1, <3>2, <3>3, <3>4 DEF ReaderType
  <2> QED BY <2>2, <2>3
<1> QED
  BY <1>4, <1>5, <1>6, <1>7, <1>8, <1>9, <1>10, <1>11, <1>13, <1>14, <1>15
     DEF Next, Writer, Reader

-----------------------------------------------------------------------------
(* Handles.                                                                    *)

\* A reader in a call is attached.
LEMMA InCall ==
    ASSUME HandlesInv, NEW r \in Readers, rpc[r] # "idle" \/ handle[r].borrowed
    PROVE  Bound(r)
BY DEF HandlesInv

\* The entry of a reader that is attached.
LEMMA BoundFacts ==
    ASSUME ShapeType, TypeOK, HandlesInv, NEW r \in Readers, Bound(r)
    PROVE  /\ EntryOf(r) \in Entries /\ entryUsed[EntryOf(r)] /\ Tracked(EntryOf(r))
           /\ CurOf(r) \in Cursors /\ rwc[r] \in Cursors /\ writeCur \in Cursors
           /\ \A q \in Readers : q # r => EntryOf(q) # EntryOf(r)
<1>1. EntryOf(r) \in Entries /\ entryUsed[EntryOf(r)]
  BY DEF TypeOK, HandlesInv, Bound, EntryOf
<1>2. CurOf(r) \in Cursors /\ rwc[r] \in Cursors /\ writeCur \in Cursors
  BY <1>1 DEF TypeOK, CurOf
<1>3. \A q \in Readers : q # r => EntryOf(q) # EntryOf(r)
  BY DEF HandlesInv
<1> QED BY <1>1, <1>2, <1>3 DEF Tracked

\* HandlesInv reads nothing else.
LEMMA HandlesSame ==
    ASSUME UNCHANGED <<shape, entryUsed, handle, rpc, got>>
    PROVE  HandlesInv' = HandlesInv
BY ShapeStays DEF HandlesInv, Bound, EntryOf

\* Every step keeps every handle with an entry of its own.
LEMMA HandlesStep == ShapeType /\ TypeOK /\ HandlesInv /\ [Next]_vars => HandlesInv'
<1> SUFFICES ASSUME ShapeType, TypeOK, HandlesInv, [Next]_vars PROVE HandlesInv'
  OBVIOUS
<1>1. UNCHANGED shape
  BY ShapeStep
<1>2. UNCHANGED <<Readers, Unbound, Nothing, Entries>>
  BY <1>1, ShapeStays
<1>3. CASE UNCHANGED vars
  BY <1>3, HandlesSame DEF vars, readerVars, storage
<1>4. CASE Freeze \/ Writer
  BY <1>4, HandlesSame
     DEF Freeze, Writer, AcquireWrite, WriteWord, Commit, Abort, readerVars, storage
<1>5. CASE Reset
  BY <1>2, <1>5 DEF Reset, HandlesInv, Bound, EntryOf, Nothing
<1>6. ASSUME NEW r \in Readers, ReaderAttach(r) PROVE HandlesInv'
  <2>1. PICK e \in Entries :
          /\ FreeEntry(e)
          /\ entryUsed' = [entryUsed EXCEPT ![e] = TRUE]
          /\ handle' = [handle EXCEPT ![r] = [entry |-> e, borrowed |-> FALSE]]
    BY <1>6 DEF ReaderAttach
  <2>2. Unbound \notin Entries
    BY Constants
  <2>3. /\ EntryOf(r)' = e /\ e # Unbound
        /\ \A q \in Readers : q # r => handle'[q] = handle[q] /\ got'[q] = got[q]
        /\ handle'[r].borrowed = FALSE /\ rpc' = rpc /\ rpc[r] = "idle"
    BY <1>6, <2>1, <2>2 DEF EntryOf, TypeOK, ReaderAttach
  <2>4. \A q \in Readers : q # r /\ Bound(q) => EntryOf(q) # e /\ EntryOf(q) \in Entries
    BY <2>1, BoundFacts DEF FreeEntry
  <2>5. entryUsed'[e] /\ \A d \in Entries : entryUsed[d] => entryUsed'[d]
    BY <2>1 DEF TypeOK
  <2> QED BY <1>2, <2>3, <2>4, <2>5 DEF HandlesInv, Bound, EntryOf
<1>7. ASSUME NEW r \in Readers, AcquireLoad(r) PROVE HandlesInv'
  BY <1>2, <1>7 DEF AcquireLoad, HandlesInv, Bound, EntryOf, storage, TypeOK
<1>8. ASSUME NEW r \in Readers, Lend(r) PROVE HandlesInv'
  BY <1>2, <1>8 DEF Lend, HandlesInv, Bound, EntryOf, TypeOK
<1>9. ASSUME NEW r \in Readers, CopyWord(r) PROVE HandlesInv'
  BY <1>9, HandlesSame DEF CopyWord, storage
<1>10. ASSUME NEW r \in Readers, ReleaseLoad(r) PROVE HandlesInv'
  BY <1>2, <1>10 DEF ReleaseLoad, HasLoan, HandlesInv, Bound, EntryOf, storage, TypeOK
<1>11. ASSUME NEW r \in Readers, ReleaseOverflow(r) \/ ReleaseOK(r) PROVE HandlesInv'
  BY <1>2, <1>11
     DEF ReleaseOverflow, ReleaseOK, Return, HandlesInv, Bound, EntryOf, TypeOK
<1> QED
  BY <1>3, <1>4, <1>5, <1>6, <1>7, <1>8, <1>9, <1>10, <1>11 DEF Next, Reader

-----------------------------------------------------------------------------
(* Distances.                                                                  *)

\* The limit leaves room to tell a lapped reader.
LEMMA LagLimitType ==
    ASSUME ShapeType
    PROVE  /\ LagLimit \in Nat /\ 1 <= LagLimit /\ LagLimit <= CurMod - 2 * Capacity
           /\ CurMod - 2 * Capacity < CurMod - 1 /\ CurMod \in Nat
BY Geometry DEF LagLimit

\* LagInv reads nothing else.
LEMMA LagSame ==
    ASSUME UNCHANGED <<shape, writeCur, wip, readCur, entryUsed>>
    PROVE  LagInv' = LagInv
BY ShapeStays DEF LagInv, Lag, Tracked, Behind, LagLimit

\* The read cursor of one entry moves, and not away from the writer.
LEMMA LagLess ==
    ASSUME ShapeType, TypeOK, LagInv, UNCHANGED <<shape, writeCur, wip, entryUsed>>,
           NEW d \in Entries, NEW c \in Cursors, readCur' = [readCur EXCEPT ![d] = c],
           Tracked(d) => Behind(writeCur, c) <= Lag(d)
    PROVE  LagInv'
<1>1. /\ UNCHANGED <<Entries, LagLimit, CurMod, Capacity, Mode>>
      /\ \A e \in Entries : Tracked(e)' = Tracked(e)
  BY ShapeStays DEF LagLimit, Tracked
<1>2. \A e \in Entries : Lag(e)' = IF e = d THEN Behind(writeCur, c) ELSE Lag(e)
  BY <1>1 DEF Lag, Behind, TypeOK
<1>3. Behind(writeCur, c) \in Nat /\ Lag(d) \in Nat /\ LagLimit \in Nat
  <2>1. readCur[d] \in Cursors /\ writeCur \in Cursors /\ CurMod \in Nat
    BY Geometry DEF TypeOK
  <2>2. Behind(writeCur, c) \in Cursors /\ Behind(writeCur, readCur[d]) \in Cursors
    BY <2>1, BehindIs
  <2> QED BY <2>1, <2>2, LagLimitType DEF Lag, Cursors
<1> QED BY <1>1, <1>2, <1>3 DEF LagInv

\* Where a reader's cursor goes: never past what its call loaded.
LEMMA Moves ==
    ASSUME ShapeType, TypeOK, HandlesInv, CallsInv, NEW r \in Readers, rpc[r] # "idle"
    PROVE  LET c == CurOf(r)
               n == Plus(c, 1)
               o == Oldest(rwc[r])
           IN  /\ Bound(r) /\ n \in Cursors /\ n # c /\ o \in Cursors
               /\ Behind(writeCur, c) = Behind(writeCur, rwc[r]) + Behind(rwc[r], c)
               /\ Behind(rwc[r], c) \in Cursors /\ Behind(rwc[r], c) >= 1
               /\ Behind(writeCur, c) \in Cursors /\ Behind(writeCur, rwc[r]) \in Cursors
               /\ Behind(writeCur, n) = Behind(writeCur, c) - 1
               /\ Lapped(rwc[r], c) =>
                     /\ Behind(rwc[r], o) = Capacity - 1
                     /\ Behind(writeCur, o) = Behind(writeCur, rwc[r]) + Capacity - 1
                     /\ Behind(writeCur, o) < Behind(writeCur, c)
<1>1. Bound(r)
  BY InCall
<1>2. CurOf(r) \in Cursors /\ rwc[r] \in Cursors /\ writeCur \in Cursors
  BY <1>1, BoundFacts
<1>3. /\ Behind(writeCur, CurOf(r)) = Behind(writeCur, rwc[r]) + Behind(rwc[r], CurOf(r))
      /\ Behind(rwc[r], CurOf(r)) >= 1
  BY DEF CallsInv, CallInv
<1>4. /\ Behind(rwc[r], CurOf(r)) \in Cursors
      /\ Behind(writeCur, CurOf(r)) \in Cursors /\ Behind(writeCur, rwc[r]) \in Cursors
  BY <1>2, BehindIs
<1>5. CurMod \in Nat /\ CurMod >= 2 /\ Capacity \in Nat /\ Capacity >= 2
  BY Geometry
<1>6. Behind(writeCur, CurOf(r)) >= 1
  BY <1>3, <1>4, <1>5 DEF Cursors
<1>7. /\ Plus(CurOf(r), 1) \in Cursors /\ Plus(CurOf(r), 1) # CurOf(r)
      /\ Behind(writeCur, Plus(CurOf(r), 1)) = Behind(writeCur, CurOf(r)) - 1
  <2>1. Behind(writeCur, Plus(CurOf(r), 1)) = Behind(writeCur, CurOf(r)) - 1
    BY <1>2, <1>6, AdvanceLag
  <2>2. Plus(CurOf(r), 1) # CurOf(r)
    BY <1>4, <1>5, <2>1 DEF Cursors
  <2> QED BY <1>2, <2>1, <2>2, PlusIs
<1>8. Oldest(rwc[r]) \in Cursors
  BY <1>2, OldestIs, BehindIs
<1>9. ASSUME Lapped(rwc[r], CurOf(r))
      PROVE  /\ Behind(rwc[r], Oldest(rwc[r])) = Capacity - 1
             /\ Behind(writeCur, Oldest(rwc[r])) = Behind(writeCur, rwc[r]) + Capacity - 1
             /\ Behind(writeCur, Oldest(rwc[r])) < Behind(writeCur, CurOf(r))
  <2>1. Behind(rwc[r], CurOf(r)) >= Capacity
    BY <1>9 DEF Lapped
  <2>2. /\ Behind(rwc[r], Oldest(rwc[r])) = Capacity - 1
        /\ Behind(writeCur, Oldest(rwc[r])) = Behind(writeCur, rwc[r]) + Capacity - 1
    BY <1>2, <1>3, <2>1, JumpLag
  <2> QED BY <1>3, <1>4, <1>5, <2>1, <2>2 DEF Cursors
<1> QED BY <1>1, <1>3, <1>4, <1>7, <1>8, <1>9

\* No step takes the writer further ahead of a cursor than the limit.
LEMMA LagStep ==
    ShapeType /\ TypeOK /\ HandlesInv /\ LagInv /\ CallsInv /\ [Next]_vars => LagInv'
<1> SUFFICES ASSUME ShapeType, TypeOK, HandlesInv, LagInv, CallsInv, [Next]_vars
             PROVE  LagInv'
  OBVIOUS
<1>1. UNCHANGED shape
  BY ShapeStep
<1>2. UNCHANGED <<Entries, LagLimit, CurMod, Capacity, Mode, Cursors>>
  BY <1>1, ShapeStays DEF LagLimit
<1>3. \A e \in Entries : readCur[e] \in Cursors /\ writeCur \in Cursors /\ Lag(e) \in Nat
  <2>1. SUFFICES ASSUME NEW e \in Entries
                 PROVE  readCur[e] \in Cursors /\ writeCur \in Cursors /\ Lag(e) \in Nat
    OBVIOUS
  <2>2. readCur[e] \in Cursors /\ writeCur \in Cursors /\ CurMod \in Nat
    BY Geometry DEF TypeOK
  <2>3. Lag(e) \in Cursors
    BY <2>2, BehindIs DEF Lag
  <2> QED BY <2>2, <2>3 DEF Cursors
<1>4. LagLimit \in Nat /\ 1 <= LagLimit /\ LagLimit < CurMod - 1
      /\ LagLimit <= CurMod - 2 * Capacity
      /\ CurMod \in Nat /\ Capacity \in Nat
  BY LagLimitType, Geometry
<1>5. CASE UNCHANGED vars \/ Freeze \/ WriteWord
  BY <1>5, LagSame DEF vars, storage, Freeze, WriteWord
<1>6. CASE Reset
  <2>1. SUFFICES ASSUME NEW e \in Entries PROVE Lag(e)' = 0
    BY <1>2, <1>4, <1>6, <2>1 DEF LagInv, Reset
  <2>2. writeCur' = 0 /\ readCur'[e] = 0 /\ 0 \in Cursors
    BY <1>6, Constants DEF Reset
  <2>3. Behind(0, 0) = 0
    BY <2>2, <1>4, BehindIs
  <2> QED BY <1>2, <2>2, <2>3 DEF Lag, Behind
<1>7. CASE AcquireWrite
  <2>1. SUFFICES ASSUME NEW e \in Entries, Tracked(e) PROVE Lag(e) < LagLimit
    BY <1>2, <1>3, <1>4, <1>7, <2>1 DEF AcquireWrite, LagInv, Lag, Tracked, Behind
  <2>2. CASE Mode = "QUEUE"
    <3>1. e = 0
      BY <2>2, Geometry DEF Entries
    <3>2. ~(Behind(writeCur, readCur[e]) >= Capacity - 1)
      BY <1>7, <2>2, <3>1 DEF AcquireWrite, QueueIsFull
    <3> QED BY <1>3, <1>4, <2>2, <3>2 DEF LagLimit, Lag
  <2>3. CASE Mode # "QUEUE"
    BY <1>7, <2>1, <2>3 DEF AcquireWrite, NoCursorLap, Tracked, LagLimit, Lag
  <2> QED BY <2>2, <2>3
<1>8. CASE Abort
  BY <1>2, <1>3, <1>4, <1>8 DEF Abort, LagInv, Lag, Tracked, Behind
<1>9. CASE Commit
  <2>1. ASSUME NEW e \in Entries, Tracked(e) PROVE Lag(e)' = Lag(e) + 1 /\ Lag(e) < LagLimit
    <3>1. Lag(e) < LagLimit /\ Lag(e) < CurMod - 1
      BY <1>3, <1>4, <1>9, <2>1 DEF Commit, LagInv
    <3>2. Behind(Plus(writeCur, 1), readCur[e]) = Lag(e) + 1
      BY <1>3, <3>1, CommitLag DEF Lag
    <3> QED BY <1>2, <1>9, <3>1, <3>2 DEF Commit, Lag, Behind
  <2>2. \A e \in Entries : Tracked(e)' = Tracked(e)
    BY <1>2, <1>9 DEF Commit, Tracked
  <2> QED BY <1>2, <1>3, <1>4, <1>9, <2>1, <2>2 DEF Commit, LagInv
<1>10. ASSUME NEW r \in Readers, ReaderAttach(r) PROVE LagInv'
  <2>1. PICK e \in Entries :
          /\ readCur' = [readCur EXCEPT ![e] = writeCur]
          /\ entryUsed' = [entryUsed EXCEPT ![e] = TRUE]
    BY <1>10 DEF ReaderAttach
  <2>2. Behind(writeCur, writeCur) = 0
    BY <1>3, <1>4, BehindIs DEF Cursors
  <2>3. /\ UNCHANGED <<writeCur, wip>>
        /\ \A d \in Entries : d # e => readCur'[d] = readCur[d] /\ entryUsed'[d] = entryUsed[d]
        /\ readCur'[e] = writeCur
    BY <1>10, <2>1 DEF ReaderAttach, TypeOK
  <2>4. /\ Lag(e)' = 0
        /\ \A d \in Entries : d # e => Lag(d)' = Lag(d) /\ Tracked(d)' = Tracked(d)
    BY <1>2, <2>2, <2>3 DEF Lag, Behind, Tracked
  <2> QED BY <1>2, <1>4, <2>3, <2>4 DEF LagInv
<1>11. ASSUME NEW r \in Readers, AcquireLoad(r) \/ CopyWord(r) \/ ReleaseLoad(r)
       PROVE  LagInv'
  BY <1>11, LagSame DEF AcquireLoad, CopyWord, ReleaseLoad, storage
<1>12. ASSUME NEW r \in Readers, NEW c \in Cursors, rpc[r] # "idle",
              Behind(writeCur, c) <= Behind(writeCur, CurOf(r)),
              readCur' = [readCur EXCEPT ![EntryOf(r)] = c],
              UNCHANGED <<writeCur, wip, entryUsed>>
       PROVE  LagInv'
  <2>1. EntryOf(r) \in Entries
    BY <1>12, InCall, BoundFacts
  <2> QED BY <1>1, <1>12, <2>1, LagLess DEF Lag, CurOf
<1>13. ASSUME NEW r \in Readers, rpc[r] # "idle"
       PROVE  /\ Plus(CurOf(r), 1) \in Cursors /\ Oldest(rwc[r]) \in Cursors
              /\ Behind(writeCur, Plus(CurOf(r), 1)) <= Behind(writeCur, CurOf(r))
              /\ Lapped(rwc[r], CurOf(r)) =>
                    Behind(writeCur, Oldest(rwc[r])) <= Behind(writeCur, CurOf(r))
  BY <1>4, <1>13, Moves DEF Cursors
<1>14. ASSUME NEW r \in Readers, Lend(r) PROVE LagInv'
  <2>1. CASE Lapped(rwc[r], CurOf(r))
    BY <1>12, <1>13, <1>14, <2>1 DEF Lend, Jump
  <2>2. CASE ~Lapped(rwc[r], CurOf(r))
    BY <1>14, <2>2, LagSame DEF Lend
  <2> QED BY <2>1, <2>2
<1>15. ASSUME NEW r \in Readers, ReleaseOverflow(r) PROVE LagInv'
  BY <1>12, <1>13, <1>15 DEF ReleaseOverflow, Jump
<1>16. ASSUME NEW r \in Readers, ReleaseOK(r) PROVE LagInv'
  <2>1. readCur' = [readCur EXCEPT ![EntryOf(r)] = Plus(CurOf(r), 1)]
    BY <1>16 DEF ReleaseOK, CurOf
  <2> QED BY <1>12, <1>13, <1>16, <2>1 DEF ReleaseOK
<1> QED
  BY <1>5, <1>6, <1>7, <1>8, <1>9, <1>10, <1>11, <1>14, <1>15, <1>16
     DEF Next, Writer, Reader

-----------------------------------------------------------------------------
(* Calls under way.                                                            *)

\* An action of one reader, or of none, leaves the call of another as it is.
LEMMA CallKept ==
    ASSUME HandlesInv, CallsInv, UNCHANGED <<shape, writeCur>>, NEW q \in Readers,
           handle'[q] = handle[q], rpc'[q] = rpc[q], rwc'[q] = rwc[q],
           Bound(q) => readCur'[EntryOf(q)] = readCur[EntryOf(q)]
    PROVE  CallInv(q)'
<1>1. CallInv(q)
  BY DEF CallsInv
<1>2. UNCHANGED CurMod
  BY ShapeStays
<1>3. CASE Bound(q)
  BY <1>1, <1>2, <1>3 DEF CallInv, CurOf, EntryOf, Behind
<1>4. CASE ~Bound(q)
  BY <1>2, <1>4 DEF HandlesInv, CallInv
<1> QED BY <1>3, <1>4

\* A step of one reader does not move the cursor of another.
LEMMA CurOfOthers ==
    ASSUME ShapeType, TypeOK, HandlesInv, NEW r \in Readers, Bound(r), NEW c,
           readCur' = [readCur EXCEPT ![EntryOf(r)] = c], NEW q \in Readers, q # r
    PROVE  Bound(q) => readCur'[EntryOf(q)] = readCur[EntryOf(q)]
<1>1. SUFFICES ASSUME Bound(q) PROVE readCur'[EntryOf(q)] = readCur[EntryOf(q)]
  OBVIOUS
<1>2. EntryOf(q) \in Entries /\ EntryOf(q) # EntryOf(r)
  BY <1>1, BoundFacts
<1> QED BY <1>2 DEF TypeOK

\* No step invalidates what a call has loaded.
LEMMA CallsStep ==
    ShapeType /\ TypeOK /\ HandlesInv /\ LagInv /\ CallsInv /\ [Next]_vars => CallsInv'
<1> SUFFICES ASSUME ShapeType, TypeOK, HandlesInv, LagInv, CallsInv, [Next]_vars
             PROVE  CallsInv'
  OBVIOUS
<1>1. UNCHANGED shape
  BY ShapeStep
<1>2. UNCHANGED <<Readers, Entries, CurMod, Capacity, Unbound, Cursors>>
  BY <1>1, ShapeStays
<1>3. CurMod \in Nat /\ Capacity \in Nat /\ CurMod >= 2 /\ Capacity >= 2
  BY Geometry
<1>4. CASE UNCHANGED vars \/ Freeze \/ AcquireWrite \/ WriteWord \/ Abort
  <2>1. UNCHANGED <<writeCur, readCur, readerVars>>
    BY <1>4 DEF vars, storage, Freeze, AcquireWrite, WriteWord, Abort
  <2> QED BY <1>1, <1>2, <2>1, CallKept DEF CallsInv, readerVars
<1>5. CASE Reset
  BY <1>2, <1>5 DEF Reset, CallsInv, CallInv
<1>6. CASE Commit
  <2>1. SUFFICES ASSUME NEW q \in Readers, Bound(q) PROVE CallInv(q)'
    BY <1>1, <1>2, <1>6, <2>1 DEF CallsInv, Commit, readerVars, HandlesInv, CallInv
  <2>2. /\ writeCur \in Cursors /\ CurOf(q) \in Cursors /\ rwc[q] \in Cursors
        /\ Tracked(EntryOf(q)) /\ EntryOf(q) \in Entries
    BY <2>1, BoundFacts
  <2>3. Behind(writeCur, CurOf(q)) < CurMod - 1
    <3>1. Lag(EntryOf(q)) < LagLimit
      BY <1>6, <2>2 DEF Commit, LagInv
    <3>2. Lag(EntryOf(q)) \in Cursors
      BY <2>2, BehindIs DEF Lag, CurOf
    <3>3. Lag(EntryOf(q)) = Behind(writeCur, CurOf(q))
      BY DEF Lag, CurOf
    <3> QED BY <1>3, <3>1, <3>2, <3>3, LagLimitType DEF Cursors
  <2>4. Behind(writeCur', CurOf(q)) = Behind(writeCur, CurOf(q)) + 1
    BY <1>6, <2>2, <2>3, CommitLag DEF Commit
  <2>5. UNCHANGED <<CurOf(q), handle, rpc, rwc>>
    BY <1>6 DEF Commit, readerVars, CurOf, EntryOf
  <2>6. Behind(writeCur, CurOf(q)) \in Nat
    BY <1>3, <2>2, BehindIs DEF Cursors
  <2>7. CASE rpc[q] = "idle"
    BY <1>2, <2>4, <2>5, <2>6, <2>7 DEF CallInv, CallsInv, Behind
  <2>8. CASE rpc[q] # "idle"
    <3>1. /\ Behind(writeCur, CurOf(q)) = Behind(writeCur, rwc[q]) + Behind(rwc[q], CurOf(q))
          /\ Behind(rwc[q], CurOf(q)) >= 1
      BY <2>8 DEF CallInv, CallsInv
    <3>2. Behind(writeCur, rwc[q]) \in Nat /\ Behind(rwc[q], CurOf(q)) \in Nat
      BY <1>3, <2>2, BehindIs DEF Cursors
    <3>3. Behind(writeCur, rwc[q]) < CurMod - 1
      BY <1>3, <2>3, <3>1, <3>2
    <3>4. Behind(writeCur', rwc[q]) = Behind(writeCur, rwc[q]) + 1
      BY <1>6, <2>2, <3>3, CommitLag DEF Commit
    <3>5. /\ CurOf(q)' = CurOf(q) /\ rwc'[q] = rwc[q] /\ rpc'[q] # "idle"
          /\ \A a, b : Behind(a, b)' = Behind(a', b')
      BY <1>2, <2>5, <2>8 DEF Behind
    <3>6. Behind(writeCur', CurOf(q)) = Behind(writeCur', rwc[q]) + Behind(rwc[q], CurOf(q))
      BY <2>4, <3>1, <3>2, <3>4
    <3> QED BY <1>2, <2>5, <2>8, <3>1, <3>6 DEF CallInv, Behind
  <2> QED BY <2>7, <2>8
<1>7. ASSUME NEW r \in Readers, ReaderAttach(r) PROVE CallsInv'
  <2>1. PICK e \in Entries :
          /\ FreeEntry(e)
          /\ readCur' = [readCur EXCEPT ![e] = writeCur]
          /\ handle' = [handle EXCEPT ![r] = [entry |-> e, borrowed |-> FALSE]]
    BY <1>7 DEF ReaderAttach
  <2>2. UNCHANGED <<shape, writeCur, rpc, rwc>> /\ rpc[r] = "idle"
    BY <1>7 DEF ReaderAttach
  <2>3. CallInv(r)'
    BY <2>1, <2>2 DEF CallInv, TypeOK
  <2>4. ASSUME NEW q \in Readers, q # r PROVE CallInv(q)'
    <3>1. Bound(q) => EntryOf(q) \in Entries /\ EntryOf(q) # e
      BY <2>1, BoundFacts DEF FreeEntry
    <3>2. Bound(q) => readCur'[EntryOf(q)] = readCur[EntryOf(q)]
      BY <2>1, <3>1 DEF TypeOK
    <3>3. handle'[q] = handle[q]
      BY <2>1, <2>4 DEF TypeOK
    <3> QED BY <2>2, <3>2, <3>3, CallKept
  <2> QED BY <1>2, <2>3, <2>4 DEF CallsInv
<1>8. ASSUME NEW r \in Readers, AcquireLoad(r) \/ ReleaseLoad(r) PROVE CallsInv'
  <2>1. Bound(r)
    BY <1>8, InCall DEF AcquireLoad, ReleaseLoad, HasLoan, Bound
  <2>2. writeCur \in Cursors /\ CurOf(r) \in Cursors
    BY <2>1, BoundFacts
  <2>3. Behind(writeCur, writeCur) = 0
    BY <1>3, <2>2, BehindIs DEF Cursors
  <2>4. Behind(writeCur, CurOf(r)) \in Nat
    BY <1>3, <2>2, BehindIs DEF Cursors
  <2>5. Behind(writeCur, CurOf(r)) >= 1
    <3>1. CASE AcquireLoad(r)
      <4>1. writeCur # CurOf(r)
        BY <3>1 DEF AcquireLoad
      <4>2. Behind(writeCur, CurOf(r)) =
               IF writeCur >= CurOf(r) THEN writeCur - CurOf(r)
               ELSE writeCur - CurOf(r) + CurMod
        BY <2>2, BehindIs
      <4> QED BY <1>3, <2>2, <4>1, <4>2 DEF Cursors
    <3>2. CASE ReleaseLoad(r)
      BY <3>2 DEF ReleaseLoad, HasLoan, CallsInv, CallInv
    <3> QED BY <1>8, <3>1, <3>2
  <2>6. UNCHANGED <<shape, writeCur, readCur>>
    BY <1>8 DEF AcquireLoad, ReleaseLoad, storage
  <2>7. rwc'[r] = writeCur /\ rpc'[r] # "idle" /\ EntryOf(r)' = EntryOf(r)
    BY <1>8 DEF AcquireLoad, ReleaseLoad, TypeOK, EntryOf
  <2>8. CallInv(r)'
    BY <1>2, <2>3, <2>4, <2>5, <2>6, <2>7 DEF CallInv, CurOf, Behind
  <2>9. ASSUME NEW q \in Readers, q # r PROVE CallInv(q)'
    <3>1. handle'[q] = handle[q] /\ rpc'[q] = rpc[q] /\ rwc'[q] = rwc[q]
      BY <1>8, <2>9 DEF AcquireLoad, ReleaseLoad, TypeOK
    <3> QED BY <2>6, <3>1, CallKept
  <2> QED BY <1>2, <2>8, <2>9 DEF CallsInv
<1>9. ASSUME NEW r \in Readers, CopyWord(r) PROVE CallsInv'
  <2>1. UNCHANGED <<shape, writeCur, readCur, handle, rpc, rwc>>
    BY <1>9 DEF CopyWord, storage
  <2> QED BY <1>2, <2>1, CallKept DEF CallsInv
<1>10. ASSUME NEW r \in Readers, Lend(r) \/ ReleaseOverflow(r) \/ ReleaseOK(r)
       PROVE  CallsInv'
  <2>1. /\ rpc[r] # "idle" /\ rpc'[r] = "idle" /\ UNCHANGED <<shape, writeCur>>
        /\ \A q \in Readers : q # r =>
              handle'[q] = handle[q] /\ rpc'[q] = rpc[q] /\ rwc'[q] = rwc[q]
    BY <1>10 DEF Lend, ReleaseOverflow, ReleaseOK, Return, TypeOK
  <2>2. Bound(r) /\ EntryOf(r) \in Entries
    BY <2>1, InCall, BoundFacts
  <2>3. readCur' = readCur \/ \E c \in Cursors : readCur' = [readCur EXCEPT ![EntryOf(r)] = c]
    <3>1. Oldest(rwc[r]) \in Cursors /\ Plus(CurOf(r), 1) \in Cursors
      BY <2>1, Moves
    <3> QED BY <1>10, <3>1 DEF Lend, ReleaseOverflow, ReleaseOK, Jump, CurOf
  <2>4. ASSUME NEW q \in Readers, q # r PROVE CallInv(q)'
    BY <2>1, <2>2, <2>3, <2>4, CurOfOthers, CallKept
  <2>5. CallInv(r)'
    <3>1. CASE Lend(r)
      <4>1. EntryOf(r)' = EntryOf(r)
        BY <3>1 DEF Lend, TypeOK, EntryOf
      <4>2. CASE Lapped(rwc[r], CurOf(r))
        <5>1. CurOf(r)' = Oldest(rwc[r])
          BY <2>2, <3>1, <4>1, <4>2 DEF Lend, Jump, CurOf, TypeOK
        <5>2. Behind(writeCur, Oldest(rwc[r])) >= 1
          BY <1>3, <2>1, <4>2, Moves DEF Cursors
        <5> QED BY <1>2, <2>1, <5>1, <5>2 DEF CallInv, Behind
      <4>3. CASE ~Lapped(rwc[r], CurOf(r))
        <5>1. CurOf(r)' = CurOf(r)
          BY <3>1, <4>1, <4>3 DEF Lend, CurOf
        <5>2. Behind(writeCur, CurOf(r)) >= 1
          BY <1>3, <2>1, Moves DEF Cursors
        <5> QED BY <1>2, <2>1, <5>1, <5>2 DEF CallInv, Behind
      <4> QED BY <4>2, <4>3
    <3>2. CASE ReleaseOverflow(r) \/ ReleaseOK(r)
      <4>1. ~handle'[r].borrowed
        BY <3>2 DEF ReleaseOverflow, ReleaseOK, HandlesInv
      <4> QED BY <2>1, <4>1 DEF CallInv
    <3> QED BY <1>10, <3>1, <3>2
  <2> QED BY <1>2, <2>4, <2>5 DEF CallsInv
<1> QED
  BY <1>4, <1>5, <1>6, <1>7, <1>8, <1>9, <1>10 DEF Next, Writer, Reader

-----------------------------------------------------------------------------
(* Frames in the ring.                                                         *)

\* While the writer stays where it is, what is in the ring for an entry is whole
\* when its cursor came closer or starts at the writer.
LEMMA WholeKept ==
    ASSUME ShapeType, UNCHANGED <<shape, writeCur, data>>, NEW e \in Entries,
           Lag(e) \in Nat, Lag(e)' \in Nat,
           Lag(e)' = 0 \/ (WholeBehind(e) /\ Lag(e)' <= Lag(e))
    PROVE  WholeBehind(e)'
<1>1. UNCHANGED <<Capacity, CurMod, Words>>
  BY ShapeStays
<1>2. \A p : FrameAt(p)' = FrameAt(p)
  BY <1>1 DEF FrameAt, SlotOf
<1>3. \A i : Behind(writeCur, i)' = Behind(writeCur, i)
  BY <1>1 DEF Behind
<1>4. Capacity \in Nat
  BY Geometry
<1> QED BY <1>1, <1>2, <1>3, <1>4 DEF WholeBehind

\* No step tears a frame that a reader can still get.
LEMMA SlotsStep ==
    /\ ShapeType /\ TypeOK /\ TypeOK' /\ HandlesInv /\ LagInv /\ LagInv' /\ CallsInv
    /\ SlotsInv /\ [Next]_vars
    => SlotsInv'
<1> SUFFICES ASSUME ShapeType, TypeOK, TypeOK', HandlesInv, LagInv, LagInv', CallsInv,
                    SlotsInv, [Next]_vars
             PROVE  SlotsInv'
  OBVIOUS
<1>1. UNCHANGED shape
  BY ShapeStep
<1>2. UNCHANGED <<Entries, CurMod, Capacity, Mode, Cursors, Words, WordCount, Slots>>
      /\ ShapeType'
  BY <1>1, ShapeStays
<1>3. /\ CurMod \in Nat /\ Capacity \in Nat /\ CurMod >= 3 * Capacity /\ Capacity >= 2
      /\ WordCount \in Nat
  BY Geometry
<1>4. ASSUME NEW e \in Entries
      PROVE  /\ readCur[e] \in Cursors /\ writeCur \in Cursors /\ writeCur' \in Cursors
             /\ Lag(e) \in Nat /\ Lag(e)' \in Nat
  <2>1. readCur[e] \in Cursors /\ writeCur \in Cursors
        /\ readCur'[e] \in Cursors /\ writeCur' \in Cursors
    BY <1>2 DEF TypeOK
  <2>2. Behind(writeCur, readCur[e]) \in Cursors /\ Behind(writeCur', readCur'[e]) \in Cursors
    BY <2>1, BehindIs
  <2>3. Lag(e)' = Behind(writeCur', readCur'[e])
    BY <1>2 DEF Lag, Behind
  <2> QED BY <1>3, <2>1, <2>2, <2>3 DEF Lag, Cursors
<1>5. ASSUME UNCHANGED <<writeCur, data>>,
             \A e \in Entries : Tracked(e)' =>
                Lag(e)' = 0 \/ (Tracked(e) /\ Lag(e)' <= Lag(e))
      PROVE  \A e \in Entries : Tracked(e)' => WholeBehind(e)'
  BY <1>1, <1>4, <1>5, WholeKept DEF SlotsInv
<1>6. ASSUME UNCHANGED <<writeCur, data, wip, written>>
      PROVE  wip' => \A x \in 1 .. written' : data'[SlotOf(writeCur)'][x] = writeCur'
  BY <1>2, <1>6 DEF SlotsInv, SlotOf
<1>7. CASE UNCHANGED vars \/ Freeze
  <2>1. UNCHANGED <<writeCur, data, wip, written, readCur, entryUsed>>
    BY <1>7 DEF vars, storage, Freeze
  <2>2. \A e \in Entries : Tracked(e)' = Tracked(e) /\ Lag(e)' = Lag(e)
    BY <1>2, <2>1 DEF Tracked, Lag, Behind
  <2>3. \A e \in Entries : Lag(e)' <= Lag(e)
    BY <1>4, <2>2
  <2> QED BY <1>2, <1>5, <1>6, <2>1, <2>2, <2>3 DEF SlotsInv
<1>8. CASE Reset
  <2>1. ~wip'
    BY <1>8 DEF Reset
  <2>2. ASSUME NEW e \in Entries PROVE WholeBehind(e)'
    <3>1. writeCur' = 0 /\ readCur'[e] = 0 /\ 0 \in Cursors
      BY <1>8, Constants DEF Reset
    <3>2. Behind(0, 0) = 0
      BY <1>3, <3>1, BehindIs
    <3>3. Lag(e)' = 0
      BY <1>2, <3>1, <3>2 DEF Lag, Behind
    <3> QED BY <1>2, <1>3, <3>3 DEF WholeBehind
  <2> QED BY <1>2, <2>1, <2>2 DEF SlotsInv
<1>9. CASE AcquireWrite \/ Abort
  <2>1. UNCHANGED <<writeCur, data, readCur, entryUsed>> /\ written' = 0
    BY <1>9 DEF AcquireWrite, Abort
  <2>2. \A e \in Entries : Tracked(e)' = Tracked(e) /\ Lag(e)' = Lag(e)
    BY <1>2, <2>1 DEF Tracked, Lag, Behind
  <2>3. \A e \in Entries : Lag(e)' <= Lag(e)
    BY <1>4, <2>2
  <2>4. \A e \in Entries : Tracked(e)' => WholeBehind(e)'
    BY <1>5, <2>1, <2>2, <2>3
  <2> QED BY <1>2, <2>1, <2>4 DEF SlotsInv
<1>10. CASE WriteWord
  <2>1. /\ writeCur \in Cursors /\ SlotOf(writeCur) \in Slots
        /\ wip /\ written \in Nat /\ written + 1 \in Words
        /\ data' = [data EXCEPT ![SlotOf(writeCur)][written + 1] = writeCur]
        /\ UNCHANGED <<writeCur, wip, readCur, entryUsed>> /\ written' = written + 1
    BY <1>3, <1>10, SlotOfType DEF WriteWord, TypeOK, storage, Words
  <2>2. ASSUME NEW x \in 1 .. written' PROVE data'[SlotOf(writeCur)][x] = writeCur
    <3>1. data'[SlotOf(writeCur)] = [data[SlotOf(writeCur)] EXCEPT ![written + 1] = writeCur]
      BY <2>1 DEF TypeOK
    <3>2. data[SlotOf(writeCur)] \in [Words -> 0 .. NoStamp]
      BY <2>1 DEF TypeOK, Frame
    <3>3. CASE x = written + 1
      BY <2>1, <3>1, <3>2, <3>3
    <3>4. CASE x # written + 1
      <4>1. x \in 1 .. written /\ x \in Words
        BY <1>3, <2>1, <2>2, <3>4 DEF Words
      <4> QED BY <2>1, <3>1, <3>2, <3>4, <4>1 DEF SlotsInv
    <3> QED BY <3>3, <3>4
  <2>3. ASSUME NEW e \in Entries, Tracked(e)', NEW i \in 1 .. Capacity - 1, i <= Lag(e)',
               NEW x \in Words
        PROVE  data'[SlotOf(Behind(writeCur, i))][x] = Behind(writeCur, i)
    <3>1. Tracked(e) /\ Lag(e)' = Lag(e)
      BY <1>2, <2>1, <2>3 DEF Tracked, Lag, Behind
    <3>2. data[SlotOf(Behind(writeCur, i))][x] = Behind(writeCur, i)
      BY <2>3, <3>1 DEF SlotsInv, WholeBehind, FrameAt
    <3>3. i \in Cursors /\ SlotOf(Behind(writeCur, i)) # SlotOf(writeCur)
      BY <2>1, SlotsApart
    <3>4. SlotOf(Behind(writeCur, i)) \in Slots
      BY <2>1, <3>3, BehindIs, SlotOfType
    <3> QED BY <2>1, <3>2, <3>3, <3>4 DEF TypeOK
  <2>4. \A e \in Entries : Tracked(e)' => WholeBehind(e)'
    BY <1>2, <2>1, <2>3 DEF WholeBehind, FrameAt, SlotOf, Behind
  <2> QED BY <1>2, <2>1, <2>2, <2>4 DEF SlotsInv, SlotOf
<1>11. CASE Commit
  <2>1. /\ writeCur \in Cursors /\ wip /\ written = WordCount /\ ~wip'
        /\ writeCur' = Plus(writeCur, 1)
        /\ UNCHANGED <<data, readCur, entryUsed>>
    BY <1>11 DEF Commit, TypeOK
  <2>2. FrameAt(writeCur)
    BY <2>1 DEF SlotsInv, FrameAt, Words
  <2>3. ASSUME NEW e \in Entries, Tracked(e), NEW i \in 1 .. Capacity - 1, i <= Lag(e)'
        PROVE  FrameAt(Behind(writeCur', i))
    <3>1. /\ i \in Cursors /\ i - 1 \in Cursors /\ Behind(writeCur, 0) = writeCur
          /\ Behind(writeCur', i) = Behind(writeCur, i - 1)
      BY <2>1, CommitBack
    <3>2. CASE i = 1
      BY <2>2, <3>1, <3>2
    <3>3. CASE i # 1
      <4>1. Lag(e) < LagLimit /\ Lag(e) < CurMod - 1
        BY <1>3, <1>4, <2>1, <2>3, LagLimitType DEF LagInv
      <4>2. Lag(e)' = Lag(e) + 1
        <5>1. Behind(Plus(writeCur, 1), readCur[e]) = Lag(e) + 1
          BY <1>4, <4>1, CommitLag DEF Lag
        <5> QED BY <1>2, <2>1, <5>1 DEF Lag, Behind
      <4>3. i - 1 \in 1 .. Capacity - 1 /\ i - 1 <= Lag(e)
        BY <1>3, <1>4, <2>3, <3>3, <4>2
      <4> QED BY <2>3, <3>1, <4>3 DEF SlotsInv, WholeBehind
    <3> QED BY <3>2, <3>3
  <2>4. \A e \in Entries : Tracked(e)' = Tracked(e)
    BY <1>2, <2>1 DEF Tracked
  <2>5. \A e \in Entries : Tracked(e)' => WholeBehind(e)'
    BY <1>2, <2>1, <2>3, <2>4 DEF WholeBehind, FrameAt, SlotOf, Behind
  <2> QED BY <1>2, <2>1, <2>5 DEF SlotsInv
<1>12. ASSUME NEW r \in Readers, ReaderAttach(r) PROVE SlotsInv'
  <2>1. PICK e \in Entries :
          /\ readCur' = [readCur EXCEPT ![e] = writeCur]
          /\ entryUsed' = [entryUsed EXCEPT ![e] = TRUE]
    BY <1>12 DEF ReaderAttach
  <2>2. UNCHANGED <<writeCur, data, wip, written>>
    BY <1>12 DEF ReaderAttach
  <2>3. ASSUME NEW d \in Entries, Tracked(d)'
        PROVE  Lag(d)' = 0 \/ (Tracked(d) /\ Lag(d)' <= Lag(d))
    <3>1. CASE d = e
      <4>1. readCur'[d] = writeCur /\ Behind(writeCur, writeCur) = 0
        <5>1. writeCur \in Cursors
          BY <1>4, <2>3
        <5> QED BY <1>3, <2>1, <3>1, <5>1, BehindIs DEF TypeOK, Cursors
      <4> QED BY <1>2, <2>2, <4>1 DEF Lag, Behind
    <3>2. CASE d # e
      <4>1. readCur'[d] = readCur[d] /\ entryUsed'[d] = entryUsed[d]
        BY <2>1, <3>2 DEF TypeOK
      <4>2. Lag(d)' = Lag(d) /\ Tracked(d)' = Tracked(d)
        BY <1>2, <2>2, <4>1 DEF Lag, Behind, Tracked
      <4> QED BY <1>4, <2>3, <4>2
    <3> QED BY <3>1, <3>2
  <2>4. \A d \in Entries : Tracked(d)' => WholeBehind(d)'
    BY <1>5, <2>2, <2>3
  <2> QED BY <1>2, <1>6, <2>2, <2>4 DEF SlotsInv
<1>13. ASSUME NEW r \in Readers, AcquireLoad(r) \/ CopyWord(r) \/ ReleaseLoad(r)
       PROVE  SlotsInv'
  <2>1. UNCHANGED <<writeCur, data, wip, written, readCur, entryUsed>>
    BY <1>13 DEF AcquireLoad, CopyWord, ReleaseLoad, storage
  <2>2. \A e \in Entries : Tracked(e)' = Tracked(e) /\ Lag(e)' = Lag(e)
    BY <1>2, <2>1 DEF Tracked, Lag, Behind
  <2>3. \A e \in Entries : Lag(e)' <= Lag(e)
    BY <1>4, <2>2
  <2> QED BY <1>2, <1>5, <1>6, <2>1, <2>2, <2>3 DEF SlotsInv
<1>14. ASSUME NEW r \in Readers, Lend(r) \/ ReleaseOverflow(r) \/ ReleaseOK(r)
       PROVE  SlotsInv'
  <2>1. rpc[r] # "idle" /\ UNCHANGED <<writeCur, data, wip, written, entryUsed>>
    BY <1>14 DEF Lend, ReleaseOverflow, ReleaseOK
  <2>2. EntryOf(r) \in Entries
    BY <2>1, InCall, BoundFacts
  <2>3. \/ readCur' = readCur
        \/ \E c \in Cursors : /\ readCur' = [readCur EXCEPT ![EntryOf(r)] = c]
                              /\ Behind(writeCur, c) <= Behind(writeCur, CurOf(r))
    <3>1. /\ Plus(CurOf(r), 1) \in Cursors /\ Oldest(rwc[r]) \in Cursors
          /\ Behind(writeCur, Plus(CurOf(r), 1)) <= Behind(writeCur, CurOf(r))
          /\ Lapped(rwc[r], CurOf(r)) =>
                Behind(writeCur, Oldest(rwc[r])) <= Behind(writeCur, CurOf(r))
      BY <1>3, <2>1, Moves DEF Cursors
    <3>2. CASE ReleaseOverflow(r)
      BY <3>1, <3>2 DEF ReleaseOverflow, Jump
    <3>3. CASE ReleaseOK(r)
      BY <3>1, <3>3 DEF ReleaseOK, CurOf
    <3>4. CASE Lend(r)
      BY <3>1, <3>4 DEF Lend, Jump
    <3> QED BY <1>14, <3>2, <3>3, <3>4
  <2>4. ASSUME NEW d \in Entries PROVE Lag(d)' <= Lag(d)
    <3>1. Lag(d)' = Behind(writeCur, readCur'[d]) /\ Lag(d) = Behind(writeCur, readCur[d])
      BY <1>2, <2>1 DEF Lag, Behind
    <3>2. Behind(writeCur, readCur'[d]) = Behind(writeCur, readCur[d])
          \/ Behind(writeCur, readCur'[d]) <= Behind(writeCur, readCur[d])
      BY <2>2, <2>3 DEF TypeOK, CurOf
    <3> QED BY <1>4, <3>1, <3>2
  <2>5. \A d \in Entries : Tracked(d)' = Tracked(d)
    BY <1>2, <2>1 DEF Tracked
  <2>6. \A d \in Entries : Tracked(d)' => WholeBehind(d)'
    BY <1>5, <2>1, <2>4, <2>5
  <2> QED BY <1>2, <1>6, <2>1, <2>6 DEF SlotsInv
<1> QED
  BY <1>7, <1>8, <1>9, <1>10, <1>11, <1>12, <1>13, <1>14 DEF Next, Writer, Reader

-----------------------------------------------------------------------------
(* Loans.                                                                      *)

\* A whole frame as long as the reader has not been lapped.
LEMMA FrameOfReader ==
    ASSUME ShapeType, TypeOK, HandlesInv, CallsInv, SlotsInv, NEW r \in Readers,
           Bound(r), ~Lapped(writeCur, CurOf(r)), Behind(writeCur, CurOf(r)) >= 1
    PROVE  FrameAt(CurOf(r))
<1>1. /\ EntryOf(r) \in Entries /\ Tracked(EntryOf(r))
      /\ CurOf(r) \in Cursors /\ writeCur \in Cursors
  BY BoundFacts
<1> DEFINE i == Behind(writeCur, CurOf(r))
<1>2. i \in Cursors /\ Behind(writeCur, i) = CurOf(r) /\ Lag(EntryOf(r)) = i
  BY <1>1, BehindIs, BackAgain DEF Lag, CurOf
<1>3. Capacity \in Nat /\ CurMod \in Nat /\ i \in Nat
  BY <1>2, Geometry DEF Cursors
<1>4. i \in 1 .. Capacity - 1 /\ i <= Lag(EntryOf(r))
  BY <1>2, <1>3 DEF Lapped
<1> QED BY <1>1, <1>2, <1>4 DEF SlotsInv, WholeBehind

\* The reader of a queue is never lapped.
LEMMA QueueNotLapped ==
    ASSUME ShapeType, TypeOK, HandlesInv, LagInv, CallsInv, NEW r \in Readers, Bound(r),
           Mode = "QUEUE"
    PROVE  /\ ~Lapped(writeCur, CurOf(r))
           /\ rpc[r] # "idle" => ~Lapped(rwc[r], CurOf(r))
<1>1. /\ EntryOf(r) \in Entries /\ Tracked(EntryOf(r))
      /\ CurOf(r) \in Cursors /\ writeCur \in Cursors /\ rwc[r] \in Cursors
  BY BoundFacts
<1>2. Lag(EntryOf(r)) <= Capacity - 1 /\ Lag(EntryOf(r)) = Behind(writeCur, CurOf(r))
  BY <1>1 DEF LagInv, LagLimit, Lag, CurOf
<1>3. Capacity \in Nat /\ CurMod \in Nat
  BY Geometry
<1>4. /\ Behind(writeCur, CurOf(r)) \in Nat /\ Behind(writeCur, rwc[r]) \in Nat
      /\ Behind(rwc[r], CurOf(r)) \in Nat
  <2>1. /\ Behind(writeCur, CurOf(r)) \in Cursors /\ Behind(writeCur, rwc[r]) \in Cursors
        /\ Behind(rwc[r], CurOf(r)) \in Cursors
    BY <1>1, BehindIs
  <2> QED BY <1>3, <2>1 DEF Cursors
<1>5. rpc[r] # "idle" =>
         Behind(writeCur, CurOf(r)) = Behind(writeCur, rwc[r]) + Behind(rwc[r], CurOf(r))
  BY DEF CallsInv, CallInv
<1> QED BY <1>2, <1>3, <1>4, <1>5 DEF Lapped

\* The loan of another reader, or of any reader while the writer does not commit.
LEMMA LoanKept ==
    ASSUME HandlesInv, LoansInv, UNCHANGED <<shape, writeCur>>, NEW q \in Readers,
           handle'[q] = handle[q], rpc'[q] = rpc[q], rwc'[q] = rwc[q], rcopy'[q] = rcopy[q],
           Bound(q) => readCur'[EntryOf(q)] = readCur[EntryOf(q)]
    PROVE  LoanInv(q)'
<1>1. LoanInv(q)
  BY DEF LoansInv
<1>2. UNCHANGED <<CurMod, Capacity, LateRead, Mode>>
  BY ShapeStays
<1>3. CASE Bound(q)
  BY <1>1, <1>2, <1>3
     DEF LoanInv, Loan, Seen, CopiedInTime, Lapped, CurOf, EntryOf, Behind
<1>4. CASE ~Bound(q)
  BY <1>4 DEF HandlesInv, LoanInv, Loan
<1> QED BY <1>3, <1>4

\* A loan stays of one frame, or its reader will find out.
LEMMA LoansStep ==
    /\ ShapeType /\ TypeOK /\ HandlesInv /\ LagInv /\ CallsInv /\ SlotsInv /\ LoansInv
    /\ [Next]_vars
    => LoansInv'
<1> SUFFICES ASSUME ShapeType, TypeOK, HandlesInv, LagInv, CallsInv, SlotsInv, LoansInv,
                    [Next]_vars
             PROVE  LoansInv'
  OBVIOUS
<1>1. UNCHANGED shape
  BY ShapeStep
<1>2. UNCHANGED <<Readers, Entries, CurMod, Capacity, Mode, LateRead, Cursors, Words>>
  BY <1>1, ShapeStays
<1>3. CurMod \in Nat /\ Capacity \in Nat /\ CurMod >= 2 /\ Capacity >= 2
  BY Geometry
<1>4. CASE UNCHANGED vars \/ Freeze \/ AcquireWrite \/ WriteWord \/ Abort
  <2>1. UNCHANGED <<writeCur, readCur, readerVars>>
    BY <1>4 DEF vars, storage, Freeze, AcquireWrite, WriteWord, Abort
  <2> QED BY <1>1, <1>2, <2>1, LoanKept DEF LoansInv, readerVars
<1>5. CASE Reset
  BY <1>2, <1>5 DEF Reset, LoansInv, LoanInv, Loan
<1>6. CASE Commit
  <2>1. SUFFICES ASSUME NEW q \in Readers, Loan(q) PROVE LoanInv(q)'
    BY <1>2, <1>6, <2>1 DEF LoansInv, Commit, readerVars, LoanInv, Loan
  <2>2. Bound(q)
    BY <2>1, InCall DEF Loan
  <2>3. /\ writeCur \in Cursors /\ CurOf(q) \in Cursors
        /\ Tracked(EntryOf(q)) /\ EntryOf(q) \in Entries
    BY <2>2, BoundFacts
  <2>4. Behind(writeCur', CurOf(q)) = Behind(writeCur, CurOf(q)) + 1
        /\ Behind(writeCur, CurOf(q)) \in Nat
    <3>1. Lag(EntryOf(q)) < LagLimit
      BY <1>6, <2>3 DEF Commit, LagInv
    <3>2. Lag(EntryOf(q)) = Behind(writeCur, CurOf(q))
      BY DEF Lag, CurOf
    <3>3. Behind(writeCur, CurOf(q)) \in Nat
      BY <1>3, <2>3, BehindIs DEF Cursors
    <3>4. Behind(writeCur, CurOf(q)) < CurMod - 1
      BY <1>3, <3>1, <3>2, <3>3, LagLimitType
    <3> QED BY <1>6, <2>3, <3>3, <3>4, CommitLag DEF Commit
  <2>5. UNCHANGED <<CurOf(q), rpc, rwc, rcopy, handle>>
    BY <1>6 DEF Commit, readerVars, CurOf, EntryOf
  <2>6. Lapped(Seen(q), CurOf(q)) => Lapped(Seen(q), CurOf(q))'
    BY <1>2, <1>3, <2>4, <2>5 DEF Lapped, Seen, Behind
  <2> QED BY <1>2, <2>1, <2>5, <2>6 DEF LoansInv, LoanInv, CopiedInTime
<1>7. ASSUME NEW r \in Readers, ReaderAttach(r) PROVE LoansInv'
  <2>1. PICK e \in Entries :
          /\ FreeEntry(e)
          /\ readCur' = [readCur EXCEPT ![e] = writeCur]
          /\ handle' = [handle EXCEPT ![r] = [entry |-> e, borrowed |-> FALSE]]
    BY <1>7 DEF ReaderAttach
  <2>2. UNCHANGED <<shape, writeCur, rpc, rwc>> /\ rpc[r] = "idle"
    BY <1>7 DEF ReaderAttach
  <2>3. LoanInv(r)'
    BY <2>1, <2>2 DEF LoanInv, Loan, TypeOK
  <2>4. ASSUME NEW q \in Readers, q # r PROVE LoanInv(q)'
    <3>1. Bound(q) => EntryOf(q) \in Entries /\ EntryOf(q) # e
      BY <2>1, BoundFacts DEF FreeEntry
    <3>2. Bound(q) => readCur'[EntryOf(q)] = readCur[EntryOf(q)]
      BY <2>1, <3>1 DEF TypeOK
    <3>3. handle'[q] = handle[q] /\ rcopy'[q] = rcopy[q]
      BY <1>7, <2>1, <2>4 DEF ReaderAttach, TypeOK
    <3> QED BY <2>2, <3>2, <3>3, LoanKept
  <2> QED BY <1>2, <2>3, <2>4 DEF LoansInv
<1>8. ASSUME NEW r \in Readers,
             AcquireLoad(r) \/ CopyWord(r) \/ ReleaseLoad(r) \/ Lend(r)
             \/ ReleaseOverflow(r) \/ ReleaseOK(r),
             LoanInv(r)'
      PROVE  LoansInv'
  <2>1. /\ UNCHANGED <<shape, writeCur>>
        /\ \A q \in Readers : q # r =>
              /\ handle'[q] = handle[q] /\ rpc'[q] = rpc[q] /\ rwc'[q] = rwc[q]
              /\ rcopy'[q] = rcopy[q]
    <3>1. CASE AcquireLoad(r) \/ CopyWord(r)
      BY <3>1 DEF AcquireLoad, CopyWord, storage, TypeOK
    <3>2. CASE ReleaseLoad(r)
      BY <3>2 DEF ReleaseLoad, storage, TypeOK
    <3>3. CASE Lend(r)
      BY <3>3 DEF Lend, TypeOK
    <3>4. CASE ReleaseOverflow(r) \/ ReleaseOK(r)
      BY <3>4 DEF ReleaseOverflow, ReleaseOK, Return, TypeOK
    <3> QED BY <1>8, <3>1, <3>2, <3>3, <3>4
  <2>2. readCur' = readCur \/ (Bound(r) /\ \E c : readCur' = [readCur EXCEPT ![EntryOf(r)] = c])
    BY <1>8, InCall
       DEF AcquireLoad, CopyWord, ReleaseLoad, storage, Lend, ReleaseOverflow, ReleaseOK, Jump
  <2>3. ASSUME NEW q \in Readers, q # r PROVE LoanInv(q)'
    BY <2>1, <2>2, <2>3, CurOfOthers, LoanKept
  <2> QED BY <1>2, <1>8, <2>3 DEF LoansInv
<1>9. ASSUME NEW r \in Readers, AcquireLoad(r) PROVE LoanInv(r)'
  BY <1>9 DEF AcquireLoad, LoanInv, Loan, TypeOK
<1>10. ASSUME NEW r \in Readers, Lend(r) PROVE LoanInv(r)'
  <2>1. EntryOf(r)' = EntryOf(r)
    BY <1>10 DEF Lend, TypeOK, EntryOf
  <2>2. rcopy'[r] = [pos |-> CurOf(r)', words |-> <<>>]
    BY <1>10, <2>1 DEF Lend, TypeOK, CurOf
  <2> QED BY <2>2 DEF LoanInv
<1>11. ASSUME NEW r \in Readers, ReleaseOverflow(r) \/ ReleaseOK(r) PROVE LoanInv(r)'
  BY <1>11 DEF ReleaseOverflow, ReleaseOK, Return, LoanInv, Loan, HandlesInv, TypeOK
<1>12. ASSUME NEW r \in Readers, ReleaseLoad(r) PROVE LoanInv(r)'
  <2>1. /\ Loan(r) /\ Seen(r) = writeCur /\ LoanInv(r)
        /\ UNCHANGED <<rcopy, readCur>> /\ EntryOf(r)' = EntryOf(r) /\ Seen(r)' = writeCur
    BY <1>12 DEF ReleaseLoad, HasLoan, LoansInv, Loan, Seen, TypeOK, EntryOf, storage
  <2> QED BY <1>2, <2>1 DEF LoanInv, CopiedInTime, CurOf, Lapped, Behind
<1>13. ASSUME NEW r \in Readers, CopyWord(r) PROVE LoanInv(r)'
  <2>1. /\ Loan(r) /\ Bound(r) /\ UNCHANGED <<handle, rpc, rwc, readCur, writeCur>>
        /\ rpc[r] = "idle" \/ (rpc[r] = "release" /\ LateRead)
        /\ rpc[r] = "idle" => handle[r].borrowed
    BY <1>13, InCall DEF CopyWord, Loan, storage
  <2>2. /\ LoanInv(r) /\ UNCHANGED <<CurOf(r), EntryOf(r), Seen(r), CopiedInTime>>
        /\ Lapped(Seen(r), CurOf(r))' = Lapped(Seen(r), CurOf(r))
    BY <1>2, <2>1 DEF LoansInv, CurOf, EntryOf, Seen, CopiedInTime, Lapped, Behind
  <2> DEFINE ws == rcopy[r].words
             n == Len(ws) + 1
             v == data[SlotOf(rcopy[r].pos)][n]
  <2>3. /\ rcopy[r].pos = CurOf(r) /\ CurOf(r) \in Cursors
        /\ ws \in Copies /\ Len(ws) < WordCount
    BY <1>13, <2>1, <2>2, BoundFacts DEF LoanInv, CopyWord, TypeOK
  <2>4. n \in Words
    BY <2>3, Constants, CopyGrows
  <2>5. v \in 0 .. NoStamp
    BY <2>3, <2>4, SlotOfType DEF TypeOK, Frame
  <2>6. /\ DOMAIN Append(ws, v) = DOMAIN ws \cup {n}
        /\ \A x \in DOMAIN ws : Append(ws, v)[x] = ws[x]
        /\ Append(ws, v)[n] = v
    BY <2>3, <2>5, CopyGrows
  <2>7. rcopy'[r].pos = rcopy[r].pos /\ rcopy'[r].words = Append(ws, v)
    BY <1>13 DEF CopyWord, TypeOK
  <2>8. CopiedInTime => v = CurOf(r) \/ Lapped(Seen(r), CurOf(r))
    <3>1. SUFFICES ASSUME CopiedInTime, ~Lapped(Seen(r), CurOf(r)) PROVE v = CurOf(r)
      OBVIOUS
    <3>2. ~Lapped(writeCur, CurOf(r))
      <4>1. CASE rpc[r] = "idle"
        BY <3>1, <4>1 DEF Seen
      <4>2. CASE rpc[r] = "release" /\ LateRead
        BY <2>1, <3>1, <4>2, QueueNotLapped DEF CopiedInTime
      <4> QED BY <2>1, <4>1, <4>2
    <3>3. Behind(writeCur, CurOf(r)) >= 1
      <4>1. CASE rpc[r] = "idle"
        BY <2>1, <4>1 DEF CallsInv, CallInv
      <4>2. CASE rpc[r] # "idle"
        BY <1>3, <4>2, Moves DEF Cursors
      <4> QED BY <4>1, <4>2
    <3>4. FrameAt(CurOf(r))
      BY <2>1, <3>2, <3>3, FrameOfReader
    <3> QED BY <2>3, <2>4, <3>4 DEF FrameAt
  <2>9. CopiedInTime => \A x \in DOMAIN rcopy'[r].words :
           rcopy'[r].words[x] = rcopy'[r].pos \/ Lapped(Seen(r), CurOf(r))
    <3> HIDE DEF ws, n, v
    <3>1. ASSUME CopiedInTime, NEW x \in DOMAIN ws \cup {n}
          PROVE  Append(ws, v)[x] = CurOf(r) \/ Lapped(Seen(r), CurOf(r))
      <4>1. CASE x = n
        BY <2>6, <2>8, <3>1, <4>1
      <4>2. CASE x \in DOMAIN ws
        BY <2>1, <2>2, <2>3, <2>6, <3>1, <4>2 DEF LoanInv, ws
      <4> QED BY <3>1, <4>1, <4>2
    <3> QED BY <2>3, <2>6, <2>7, <3>1
  <2> QED BY <2>2, <2>3, <2>7, <2>9 DEF LoanInv
<1> QED
  BY <1>4, <1>5, <1>6, <1>7, <1>8, <1>9, <1>10, <1>11, <1>12, <1>13
     DEF Next, Writer, Reader

\* What release accepts is whole: the window check lets no torn copy pass.
LEMMA GotStep ==
    ShapeType /\ TypeOK /\ LoansInv /\ GotInv /\ [Next]_vars => GotInv'
<1> SUFFICES ASSUME ShapeType, TypeOK, LoansInv, GotInv, [Next]_vars, CopiedInTime
             PROVE  GoodCopy'
  BY ShapeStep, ShapeStays DEF GotInv, CopiedInTime
<1>1. UNCHANGED Readers /\ GoodCopy
  BY ShapeStep, ShapeStays DEF GotInv
<1>2. CASE UNCHANGED got
  BY <1>1, <1>2 DEF GoodCopy
<1>3. ASSUME NEW r \in Readers, \A q \in Readers \ {r} : got'[q] = got[q],
             got'[r].ret = "OK" =>
                \A x \in DOMAIN got'[r].words : got'[r].words[x] = got'[r].pos
      PROVE  GoodCopy'
  BY <1>1, <1>3 DEF GoodCopy
<1>4. CASE Reset
  BY <1>1, <1>4 DEF Reset, GoodCopy, Nothing
<1>5. ASSUME NEW r \in Readers, ReaderAttach(r) PROVE GoodCopy'
  BY <1>3, <1>5 DEF ReaderAttach, Nothing, TypeOK
<1>6. ASSUME NEW r \in Readers, ReleaseOverflow(r) PROVE GoodCopy'
  BY <1>3, <1>6 DEF ReleaseOverflow, Return, TypeOK
<1>7. ASSUME NEW r \in Readers, ReleaseOK(r) PROVE GoodCopy'
  <2>1. \A x \in DOMAIN rcopy[r].words : rcopy[r].words[x] = rcopy[r].pos
    BY <1>7 DEF ReleaseOK, LoansInv, LoanInv, Loan, Seen
  <2>2. /\ \A q \in Readers \ {r} : got'[q] = got[q]
        /\ got'[r].pos = rcopy[r].pos /\ got'[r].words = rcopy[r].words
    BY <1>7 DEF ReleaseOK, Return, TypeOK
  <2> QED BY <1>3, <2>1, <2>2
<1> QED
  BY <1>2, <1>4, <1>5, <1>6, <1>7
     DEF Next, vars, readerVars, storage, Freeze, Writer, AcquireWrite, WriteWord, Commit,
         Abort, Reader, AcquireLoad, Lend, CopyWord, ReleaseLoad

\* The invariant holds at first,
LEMMA InitInv == Init => IInv
<1> SUFFICES ASSUME Init PROVE IInv
  OBVIOUS
<1>1. ShapeType /\ TypeOK
  BY InitType
<1>2. Behind(0, 0) = 0
  <2>1. CurMod \in Nat /\ 0 \in Cursors
    BY <1>1, Geometry, Constants
  <2> QED BY <1>1, <2>1, BehindIs
<1>3. \A e \in Entries : Lag(e) = 0
  BY <1>2 DEF Init, Lag
<1>4. LagInv
  BY <1>1, <1>3, LagLimitType DEF LagInv
<1>5. HandlesInv /\ CallsInv
  BY DEF Init, HandlesInv, CallsInv, CallInv, Bound, EntryOf, Nothing
<1>6. SlotsInv
  <2>1. Capacity \in Nat
    BY <1>1, Geometry
  <2> QED BY <1>3, <2>1 DEF Init, SlotsInv, WholeBehind
<1>7. LoansInv /\ GotInv
  BY DEF Init, LoansInv, LoanInv, Loan, GotInv, GoodCopy, Nothing
<1> QED BY <1>1, <1>4, <1>5, <1>6, <1>7 DEF IInv

\* and every step keeps it.
LEMMA NextInv == IInv /\ [Next]_vars => IInv'
<1> SUFFICES ASSUME IInv, [Next]_vars PROVE IInv'
  OBVIOUS
<1> USE DEF IInv
<1>1. ShapeType' /\ TypeOK' /\ HandlesInv' /\ LagInv' /\ CallsInv'
  BY ShapeStep, TypeStep, HandlesStep, LagStep, CallsStep
<1>2. SlotsInv'
  BY <1>1, SlotsStep
<1>3. LoansInv' /\ GotInv'
  BY LoansStep, GotStep
<1> QED BY <1>1, <1>2, <1>3

\* The inductive invariant holds for every shape.
LEMMA InvHolds == Spec => []IInv
BY InitInv, NextInv, PTL DEF Spec

-----------------------------------------------------------------------------
(* What the inductive invariant says of the ring.                              *)

\* A bus in QUEUE or SIGNAL mode keeps its types, whatever storage is declared.
THEOREM TypesHold == Spec => []TypeOK
<1>1. IInv => TypeOK
  BY DEF IInv
<1> QED BY <1>1, InvHolds, PTL

\* What ready_count answers follows from what is known of the cursors.
LEMMA ReadyFollows == IInv => ReadyIsTrue
<1> SUFFICES ASSUME IInv PROVE NeverAhead /\ ReadyIsWhole
  BY DEF ReadyIsTrue
<1> USE DEF IInv
<1>1. SUFFICES ASSUME NEW e \in Entries, entryUsed[e]
               PROVE  /\ Lag(e) <= CurMod - Capacity
                      /\ \A i \in 1 .. ReadyCount(e) : FrameAt(Behind(writeCur, i))
  BY <1>1 DEF NeverAhead, ReadyIsWhole, Lag, FrameAt, Behind
<1>2. Tracked(e)
  BY <1>1 DEF Tracked
<1>3. /\ CurMod \in Nat /\ Capacity \in Nat /\ Capacity >= 2
      /\ LagLimit \in Nat /\ LagLimit <= CurMod - 2 * Capacity
  BY Geometry, LagLimitType
<1>4. Lag(e) \in Nat
  <2>1. writeCur \in Cursors /\ readCur[e] \in Cursors
    BY DEF TypeOK
  <2>2. Behind(writeCur, readCur[e]) \in Cursors
    BY <2>1, BehindIs
  <2> QED BY <1>3, <2>2 DEF Lag, Cursors
<1>5. Lag(e) <= CurMod - Capacity
  BY <1>2, <1>3, <1>4 DEF LagInv
<1>6. ASSUME NEW i \in 1 .. ReadyCount(e) PROVE FrameAt(Behind(writeCur, i))
  <2>1. i \in 1 .. Capacity - 1 /\ i <= Lag(e)
    BY <1>3, <1>4 DEF ReadyCount, ReadyOf, Lag
  <2> QED BY <1>2, <2>1 DEF SlotsInv, WholeBehind
<1> QED BY <1>5, <1>6

\* No sequence of calls makes bm_bus_ready_count promise a frame that is not in the
\* ring or not whole, for every storage, number of readers and handles.
THEOREM ReadyHolds == Spec => []ReadyIsTrue
BY ReadyFollows, InvHolds, PTL

\* The copy of a frame is made before release loads the write cursor: loads are in
\* order, or late only where the writer never reuses a slot that is lent.
CopiesInTime == \A s \in Shapes : s.late => s.mode = "QUEUE"

\* Where copies are made in time, no frame that release answered OK for is torn.
THEOREM CopiesHold == ASSUME CopiesInTime PROVE Spec => []GoodCopy
<1>1. IInv => GoodCopy
  BY DEF CopiesInTime, IInv, GotInv, CopiedInTime, LateRead, Mode, ShapeType
<1> QED BY <1>1, InvHolds, PTL

-----------------------------------------------------------------------------
(* The order in which frames are taken.                                        *)

OrderStep ==
    /\ \A e \in Entries : entryUsed[e] /\ entryUsed'[e] =>
          Behind(writeCur', readCur'[e]) <= Behind(writeCur', readCur[e])
    /\ \A r \in Readers : got'[r] # got[r] /\ got'[r].ret = "OK" =>
          got'[r].pos = CurOf(r) /\ readCur'[EntryOf(r)] # CurOf(r)

\* So does the order of what a reader gets.
LEMMA OrderFollows == IInv /\ IInv' /\ [Next]_vars => [OrderStep]_vars
<1> SUFFICES ASSUME IInv, IInv', Next PROVE OrderStep
  OBVIOUS
<1> USE DEF IInv
<1>1. UNCHANGED shape
  BY ShapeStep
<1>2. UNCHANGED <<Entries, Cursors, Readers>>
  BY <1>1, ShapeStays
<1>3. CurMod \in Nat
  BY Geometry
<1>4. ASSUME NEW e \in Entries
      PROVE  /\ readCur[e] \in Cursors /\ writeCur' \in Cursors
             /\ Behind(writeCur', readCur[e]) \in Nat
  <2>1. readCur[e] \in Cursors /\ writeCur' \in Cursors
    BY <1>2 DEF TypeOK
  <2>2. Behind(writeCur', readCur[e]) \in Cursors
    BY <2>1, BehindIs
  <2> QED BY <1>3, <2>1, <2>2 DEF Cursors
<1>5. CASE UNCHANGED <<readCur, got>>
  BY <1>4, <1>5 DEF OrderStep
<1>6. CASE Reset
  BY <1>6 DEF Reset, OrderStep, Nothing
<1>7. ASSUME NEW r \in Readers, ReaderAttach(r) PROVE OrderStep
  <2>1. PICK e \in Entries : FreeEntry(e) /\ readCur' = [readCur EXCEPT ![e] = writeCur]
    BY <1>7 DEF ReaderAttach
  <2>2. \A d \in Entries : entryUsed[d] => readCur'[d] = readCur[d]
    BY <2>1 DEF FreeEntry, TypeOK
  <2>3. \A q \in Readers : got'[q] # got[q] => got'[q].ret # "OK"
    BY <1>7 DEF ReaderAttach, Nothing, TypeOK
  <2> QED BY <1>4, <2>2, <2>3 DEF OrderStep
<1>8. ASSUME NEW r \in Readers, NEW c \in Cursors, Bound(r),
             readCur' = [readCur EXCEPT ![EntryOf(r)] = c],
             Behind(writeCur, c) <= Behind(writeCur, CurOf(r)), UNCHANGED writeCur
      PROVE  \A e \in Entries :
                Behind(writeCur', readCur'[e]) <= Behind(writeCur', readCur[e])
  <2>1. EntryOf(r) \in Entries
    BY <1>8, BoundFacts
  <2> QED BY <1>4, <1>8, <2>1 DEF TypeOK, CurOf
<1>9. ASSUME NEW r \in Readers, rpc[r] # "idle"
      PROVE  /\ Bound(r) /\ EntryOf(r) \in Entries
             /\ Plus(CurOf(r), 1) \in Cursors /\ Oldest(rwc[r]) \in Cursors
             /\ Plus(CurOf(r), 1) # CurOf(r)
             /\ Behind(writeCur, Plus(CurOf(r), 1)) <= Behind(writeCur, CurOf(r))
             /\ Lapped(rwc[r], CurOf(r)) =>
                   Behind(writeCur, Oldest(rwc[r])) <= Behind(writeCur, CurOf(r))
  <2>1. Bound(r) /\ EntryOf(r) \in Entries
    BY <1>9, InCall, BoundFacts
  <2>2. /\ Plus(CurOf(r), 1) \in Cursors /\ Plus(CurOf(r), 1) # CurOf(r)
        /\ Oldest(rwc[r]) \in Cursors /\ Behind(writeCur, CurOf(r)) \in Cursors
        /\ Behind(writeCur, Plus(CurOf(r), 1)) = Behind(writeCur, CurOf(r)) - 1
    BY <1>9, Moves
  <2>3. Lapped(rwc[r], CurOf(r)) =>
           /\ Behind(writeCur, Oldest(rwc[r])) < Behind(writeCur, CurOf(r))
           /\ Behind(writeCur, Oldest(rwc[r])) \in Cursors
    <3>1. writeCur \in Cursors
      BY <2>1, BoundFacts
    <3> QED BY <1>9, <2>2, <3>1, Moves, BehindIs
  <2> QED BY <1>3, <2>1, <2>2, <2>3 DEF Cursors
<1>10. ASSUME NEW r \in Readers, Lend(r) PROVE OrderStep
  <2>1. CASE Lapped(rwc[r], CurOf(r))
    BY <1>8, <1>9, <1>10, <2>1 DEF Lend, Jump, OrderStep
  <2>2. CASE ~Lapped(rwc[r], CurOf(r))
    BY <1>5, <1>10, <2>2 DEF Lend
  <2> QED BY <2>1, <2>2
<1>11. ASSUME NEW r \in Readers, ReleaseOverflow(r) PROVE OrderStep
  <2>1. \A q \in Readers : got'[q] # got[q] => got'[q].ret # "OK"
    BY <1>11 DEF ReleaseOverflow, Return, TypeOK
  <2> QED BY <1>8, <1>9, <1>11, <2>1 DEF ReleaseOverflow, Jump, OrderStep
<1>12. ASSUME NEW r \in Readers, ReleaseOK(r) PROVE OrderStep
  <2>1. readCur' = [readCur EXCEPT ![EntryOf(r)] = Plus(CurOf(r), 1)]
    BY <1>12 DEF ReleaseOK, CurOf
  <2>2. \A e \in Entries : Behind(writeCur', readCur'[e]) <= Behind(writeCur', readCur[e])
    BY <1>8, <1>9, <1>12, <2>1 DEF ReleaseOK
  <2>3. readCur'[EntryOf(r)] # CurOf(r)
    BY <1>9, <1>12, <2>1 DEF ReleaseOK, TypeOK
  <2>4. got'[r].pos = CurOf(r) /\ \A q \in Readers : q # r => got'[q] = got[q]
    BY <1>12 DEF ReleaseOK, Return, TypeOK, LoansInv, LoanInv, Loan
  <2> QED BY <2>2, <2>3, <2>4 DEF OrderStep
<1> QED
  BY <1>5, <1>6, <1>7, <1>10, <1>11, <1>12
     DEF Next, storage, readerVars, Freeze, Writer, AcquireWrite, WriteWord, Commit,
         Abort, Reader, AcquireLoad, CopyWord, ReleaseLoad

\* A cursor never moves back and release answers OK only for the frame at the
\* cursor, which it leaves behind.
THEOREM OrderHolds == Spec => InOrder
BY OrderFollows, InvHolds, PTL DEF Spec, InOrder, OrderStep

-----------------------------------------------------------------------------
(* A bus in QUEUE mode implements the bounded queue.                           *)

\* Of a set of numbers with a bound the largest is in it.
LEMMA LargestIs ==
    ASSUME NEW S \in SUBSET Nat, S # {}, NEW b \in Nat, \A m \in S : m <= b
    PROVE  Largest(S) \in S /\ \A m \in S : m <= Largest(S)
<1> DEFINE U == {k \in Nat : \A m \in S : m <= k}
           R == OpToRel(<, Nat)
<1>1. U \subseteq Nat /\ U # {}
  OBVIOUS
<1>2. IsWellFoundedOn(R, Nat)
  BY NatLessThanWellFounded
<1>3. \A k, l \in Nat : k < l => <<k, l>> \in R
  BY DEF OpToRel
<1> HIDE DEF R
<1>4. PICK l \in U : \A k \in U : ~(<<k, l>> \in R)
  BY <1>1, <1>2, WFMin
<1>5. l \in S
  <2>1. CASE l = 0
    <3>1. PICK m \in S : TRUE
      OBVIOUS
    <3>2. m \in Nat /\ m <= l
      BY <3>1
    <3> QED BY <2>1, <3>1, <3>2
  <2>2. CASE l # 0
    <3>1. l - 1 \in Nat /\ l - 1 < l /\ l \in Nat
      BY <2>2
    <3>2. l - 1 \notin U
      BY <1>3, <1>4, <3>1
    <3>3. PICK m \in S : ~(m <= l - 1)
      BY <3>1, <3>2
    <3>4. m <= l /\ m \in Nat
      OBVIOUS
    <3> QED BY <3>1, <3>3, <3>4
  <2> QED BY <2>1, <2>2
<1> QED BY <1>5 DEF Largest

\* The declared storages are of bounded size: write_cur is a uint32_t.
RoundsBounded == \E n \in Nat : \A s \in Shapes : s.round <= n

\* The rounds of the shapes have a bound, so the queue has one.
LEMMA QueueBounds ==
    ASSUME ShapeType, RoundsBounded
    PROVE  /\ MaxRound \in Nat /\ CurMod <= MaxRound
           /\ MaxQueued \in Nat /\ (Mode = "QUEUE" => Capacity - 1 <= MaxQueued)
<1>1. PICK n \in Nat : \A s \in Shapes : s.round <= n
  BY DEF RoundsBounded
<1>2. \A s \in Shapes : /\ s.round \in Nat /\ s.round <= n
                        /\ s.capacity - 1 \in Nat /\ s.capacity - 1 <= n
  <2>1. SUFFICES ASSUME NEW s \in Shapes
                 PROVE  /\ s.round \in Nat /\ s.round <= n
                        /\ s.capacity - 1 \in Nat /\ s.capacity - 1 <= n
    OBVIOUS
  <2>2. /\ s.round \in Nat /\ s.round <= n /\ s.round > 2 * s.capacity
        /\ s.capacity \in Nat /\ s.capacity >= 2
    BY <1>1, ShapeAssumption
  <2> QED BY <2>2
<1> DEFINE R == {0} \cup {s.round : s \in Shapes}
           C == {0} \cup {s.capacity - 1 : s \in Queues}
<1>3. R \in SUBSET Nat /\ R # {} /\ \A m \in R : m <= n
  BY <1>2
<1>4. C \in SUBSET Nat /\ C # {} /\ \A m \in C : m <= n
  BY <1>2 DEF Queues
<1>5. CurMod \in R
  BY DEF ShapeType, CurMod
<1>6. Mode = "QUEUE" => Capacity - 1 \in C
  BY DEF ShapeType, Mode, Capacity, Queues
<1> HIDE DEF R, C
<1>7. Largest(R) \in R /\ \A m \in R : m <= Largest(R)
  BY <1>1, <1>3, LargestIs
<1>8. Largest(C) \in C /\ \A m \in C : m <= Largest(C)
  BY <1>1, <1>4, LargestIs
<1>9. MaxRound = Largest(R) /\ MaxQueued = Largest(C)
  BY DEF MaxRound, MaxQueued, R, C
<1> QED BY <1>3, <1>4, <1>5, <1>6, <1>7, <1>8, <1>9

\* The positions from a cursor up to the writer, counted from either end.
LEMMA AheadIs ==
    ASSUME ShapeType, NEW c \in Cursors, NEW n \in Cursors
    PROVE  /\ Plus(c, n) = IF c + n < CurMod THEN c + n ELSE c + n - CurMod
           /\ Plus(c, n) \in Cursors
<1>1. CurMod \in Nat \ {0}
  BY Geometry
<1> DEFINE d == c + n
<1>2. d \in 0 .. 2 * CurMod - 1 /\ Plus(c, n) = d % CurMod
  BY <1>1 DEF Cursors, Plus
<1> HIDE DEF d
<1>3. d % CurMod = IF d < CurMod THEN d ELSE d - CurMod
  BY <1>1, <1>2, ModSmall
<1>4. Plus(c, n) = IF d < CurMod THEN d ELSE d - CurMod
  BY <1>2, <1>3
<1> QED BY <1>1, <1>4 DEF d, Cursors

\* n ahead of the older cursor is the rest of the way behind the newer one.
LEMMA AheadIsBack ==
    ASSUME ShapeType, NEW w \in Cursors, NEW c \in Cursors, NEW n \in 0 .. Behind(w, c)
    PROVE  /\ n \in Cursors /\ Behind(w, c) - n \in Cursors
           /\ Plus(c, n) = Behind(w, Behind(w, c) - n)
<1>1. CurMod \in Nat
  BY Geometry
<1>2. /\ Behind(w, c) = (IF w >= c THEN w - c ELSE w - c + CurMod)
      /\ Behind(w, c) \in Cursors
  BY BehindIs
<1>3. n \in Cursors /\ Behind(w, c) - n \in Cursors
  BY <1>1, <1>2 DEF Cursors
<1>4. Plus(c, n) = IF c + n < CurMod THEN c + n ELSE c + n - CurMod
  BY <1>3, AheadIs
<1> DEFINE k == Behind(w, c) - n
<1>5. Behind(w, k) = IF w >= k THEN w - k ELSE w - k + CurMod
  BY <1>3, BehindIs
<1> QED BY <1>1, <1>2, <1>3, <1>4, <1>5 DEF Cursors

\* Stepping on and then counting n is counting n + 1.
LEMMA AheadOne ==
    ASSUME ShapeType, NEW c \in Cursors, NEW n \in Nat, n + 1 \in Cursors
    PROVE  Plus(Plus(c, 1), n) = Plus(c, n + 1) /\ n \in Cursors
<1>1. CurMod \in Nat /\ n \in Cursors
  BY Geometry DEF Cursors
<1>2. Plus(c, 1) = (IF c = CurMod - 1 THEN 0 ELSE c + 1) /\ Plus(c, 1) \in Cursors
  BY PlusIs
<1>3. Plus(c, n + 1) = IF c + (n + 1) < CurMod THEN c + (n + 1) ELSE c + (n + 1) - CurMod
  BY AheadIs
<1>4. Plus(Plus(c, 1), n) = IF Plus(c, 1) + n < CurMod THEN Plus(c, 1) + n
                            ELSE Plus(c, 1) + n - CurMod
  BY <1>1, <1>2, AheadIs
<1> QED BY <1>1, <1>2, <1>3, <1>4 DEF Cursors

\* The positions between the cursor of the queue's entry and the writer.
Queued == [i \in 1 .. Lag(0) |-> Plus(readCur[0], i - 1)]

\* What the slots hold between the cursors is what was committed and not taken.
LEMMA ItemsAre == IInv /\ Mode = "QUEUE" => QueueItems = Queued
<1> SUFFICES ASSUME IInv, Mode = "QUEUE" PROVE QueueItems = Queued
  OBVIOUS
<1> USE DEF IInv
<1>1. 0 \in Entries /\ Tracked(0)
  BY Geometry DEF Entries, Tracked
<1>2. readCur[0] \in Cursors /\ writeCur \in Cursors /\ Lag(0) = Behind(writeCur, readCur[0])
  BY <1>1 DEF TypeOK, Lag
<1>3. /\ CurMod \in Nat /\ Capacity \in Nat /\ WordCount \in Nat /\ WordCount >= 1
      /\ Lag(0) \in Nat /\ Lag(0) <= Capacity - 1
  <2>1. Lag(0) \in Cursors
    BY <1>2, BehindIs
  <2> QED BY <1>1, <2>1, Geometry DEF Cursors, LagInv, LagLimit
<1>4. ASSUME NEW i \in 1 .. Lag(0)
      PROVE  Written(Plus(readCur[0], i - 1)) = Plus(readCur[0], i - 1)
  <2>1. i - 1 \in 0 .. Lag(0) /\ Lag(0) - (i - 1) \in 1 .. Capacity - 1
        /\ Lag(0) - (i - 1) <= Lag(0)
    BY <1>3
  <2>2. Plus(readCur[0], i - 1) = Behind(writeCur, Lag(0) - (i - 1))
    BY <1>2, <2>1, AheadIsBack
  <2>3. FrameAt(Plus(readCur[0], i - 1))
    BY <1>1, <2>1, <2>2 DEF SlotsInv, WholeBehind
  <2>4. 1 \in Words
    BY <1>3 DEF Words
  <2> QED BY <2>3, <2>4 DEF FrameAt, Written
<1> QED BY <1>2, <1>4 DEF QueueItems, Queued

\* Every element of a queue is a position it can hold.
LEMMA QueuedType ==
    ASSUME IInv, Mode = "QUEUE", RoundsBounded
    PROVE  /\ Queued \in Seq(0 .. MaxRound - 1) /\ Len(Queued) = Lag(0) /\ Lag(0) \in Nat
           /\ Lag(0) <= LagLimit /\ (wip => Lag(0) < LagLimit) /\ LagLimit \in Nat
           /\ LagLimit <= MaxQueued /\ MaxQueued \in Nat
           /\ 0 \in Entries /\ Entries = {0} /\ readCur[0] \in Cursors
           /\ writeCur \in Cursors /\ writeCur \in 0 .. MaxRound - 1
           /\ CurMod \in Nat /\ LagLimit < CurMod - 1
<1> USE DEF IInv
<1>1. 0 \in Entries /\ Entries = {0} /\ Tracked(0)
  BY Geometry DEF Entries, Tracked
<1>2. readCur[0] \in Cursors /\ writeCur \in Cursors
  BY <1>1 DEF TypeOK
<1>3. /\ CurMod \in Nat /\ CurMod <= MaxRound /\ MaxRound \in Nat
      /\ LagLimit \in Nat /\ LagLimit < CurMod - 1
      /\ MaxQueued \in Nat /\ LagLimit <= MaxQueued
  BY Geometry, LagLimitType, QueueBounds DEF LagLimit
<1>4. Lag(0) \in Nat /\ Lag(0) <= LagLimit /\ (wip => Lag(0) < LagLimit)
  <2>1. Lag(0) \in Cursors
    BY <1>2, BehindIs DEF Lag
  <2> QED BY <1>1, <1>3, <2>1 DEF Cursors, LagInv
<1>5. Cursors \subseteq 0 .. MaxRound - 1
  BY <1>3 DEF Cursors
<1>6. \A i \in 1 .. Lag(0) : Plus(readCur[0], i - 1) \in 0 .. MaxRound - 1
  <2>1. \A i \in 1 .. Lag(0) : i - 1 \in Cursors
    BY <1>3, <1>4 DEF Cursors
  <2> QED BY <1>2, <1>5, <2>1, AheadIs
<1>7. Queued \in [1 .. Lag(0) -> 0 .. MaxRound - 1]
  BY <1>6 DEF Queued
<1>8. Queued \in Seq(0 .. MaxRound - 1)
  BY <1>4, <1>7, SeqDef
<1>9. Len(Queued) = Lag(0)
  BY <1>4 DEF Queued
<1> QED BY <1>1, <1>2, <1>3, <1>4, <1>5, <1>8, <1>9

\* Only the handle that is attached has been answered.
LEMMA OneTaker ==
    ASSUME IInv, Mode = "QUEUE", NEW r \in Readers, Bound(r)
    PROVE  /\ EntryOf(r) = 0 /\ CurOf(r) = readCur[0]
           /\ \A q \in Readers : q # r => got[q].ret = "none"
<1> USE DEF IInv
<1>1. EntryOf(r) = 0 /\ CurOf(r) = readCur[0]
  BY BoundFacts, Geometry DEF Entries, CurOf
<1>2. ASSUME NEW q \in Readers, q # r PROVE ~Bound(q)
  <2>1. SUFFICES ASSUME Bound(q) PROVE FALSE
    OBVIOUS
  <2>2. EntryOf(q) = 0 /\ EntryOf(q) # EntryOf(r)
    BY <1>2, <2>1, BoundFacts, Geometry DEF Entries
  <2> QED BY <1>1, <2>2
<1> QED BY <1>1, <1>2 DEF HandlesInv

\* A commit puts one item at the end of the queue.
LEMMA CommitPuts ==
    ASSUME IInv, IInv', Mode = "QUEUE", RoundsBounded, Commit
    PROVE  /\ Len(Queued) < MaxQueued /\ writeCur \in 0 .. MaxRound - 1
           /\ Queued' = Append(Queued, writeCur)
<1>1. UNCHANGED shape /\ wip /\ readCur' = readCur /\ writeCur' = Plus(writeCur, 1)
  BY DEF Commit
<1>2. UNCHANGED <<Mode, MaxRound, CurMod, Cursors>>
  BY <1>1, ShapeStays DEF MaxRound
<1>3. /\ Queued \in Seq(0 .. MaxRound - 1) /\ Len(Queued) = Lag(0) /\ Lag(0) \in Nat
      /\ Lag(0) < LagLimit /\ LagLimit <= MaxQueued /\ LagLimit \in Nat /\ MaxQueued \in Nat
      /\ LagLimit < CurMod - 1 /\ CurMod \in Nat
      /\ readCur[0] \in Cursors /\ writeCur \in Cursors /\ writeCur \in 0 .. MaxRound - 1
  BY <1>1, QueuedType
<1>4. Lag(0)' = Lag(0) + 1
  <2>1. Behind(writeCur, readCur[0]) < CurMod - 1
    BY <1>3 DEF Lag
  <2>2. Behind(Plus(writeCur, 1), readCur[0]) = Lag(0) + 1
    BY <1>3, <2>1, CommitLag DEF Lag, IInv
  <2> QED BY <1>1, <1>2, <2>2 DEF Lag, Behind
<1>5. Plus(readCur[0], Lag(0)) = writeCur
  <2>1. Lag(0) \in 0 .. Behind(writeCur, readCur[0])
        /\ Behind(writeCur, readCur[0]) - Lag(0) = 0
    BY <1>3 DEF Lag
  <2>2. Plus(readCur[0], Lag(0)) = Behind(writeCur, 0) /\ 0 \in Cursors
    <3>1. /\ Behind(writeCur, readCur[0]) - Lag(0) \in Cursors
          /\ Plus(readCur[0], Lag(0)) =
                Behind(writeCur, Behind(writeCur, readCur[0]) - Lag(0))
      <4> HIDE DEF Lag
      <4> QED BY <1>3, <2>1, AheadIsBack DEF IInv
    <3> QED BY <2>1, <3>1
  <2>3. Behind(writeCur, 0) = IF writeCur >= 0 THEN writeCur - 0 ELSE writeCur - 0 + CurMod
    BY <1>3, <2>2, BehindIs DEF IInv
  <2> QED BY <1>3, <2>2, <2>3 DEF Cursors
<1>6. Queued' = [i \in 1 .. Lag(0) + 1 |-> Plus(readCur[0], i - 1)]
  BY <1>1, <1>2, <1>4 DEF Queued, Plus
<1>7. /\ Append(Queued, writeCur) \in Seq(0 .. MaxRound - 1)
      /\ Len(Append(Queued, writeCur)) = Lag(0) + 1
      /\ \A i \in 1 .. Lag(0) : Append(Queued, writeCur)[i] = Queued[i]
      /\ Append(Queued, writeCur)[Lag(0) + 1] = writeCur
  BY <1>3, AppendProperties
<1>8. DOMAIN Append(Queued, writeCur) = 1 .. Lag(0) + 1
  BY <1>7, LenProperties
<1>9. ASSUME NEW i \in 1 .. Lag(0) + 1
      PROVE  Append(Queued, writeCur)[i] = Plus(readCur[0], i - 1)
  <2>1. CASE i = Lag(0) + 1
    <3>1. i - 1 = Lag(0)
      BY <1>3, <2>1
    <3> QED BY <1>5, <1>7, <2>1, <3>1
  <2>2. CASE i # Lag(0) + 1
    <3>1. i \in 1 .. Lag(0)
      BY <1>3, <2>2
    <3> QED BY <1>7, <3>1 DEF Queued
  <2> QED BY <2>1, <2>2
<1>10. Append(Queued, writeCur) = [i \in 1 .. Lag(0) + 1 |-> Plus(readCur[0], i - 1)]
  <2>1. \E n : Append(Queued, writeCur) \in [1 .. n -> 0 .. MaxRound - 1]
    BY <1>7, LenProperties
  <2> QED BY <1>8, <1>9, <2>1
<1> QED BY <1>3, <1>6, <1>10

\* A release takes the item at its head.
LEMMA ReleaseTakes ==
    ASSUME IInv, IInv', Mode = "QUEUE", RoundsBounded, NEW r \in Readers, ReleaseOK(r)
    PROVE  /\ Queued # <<>> /\ Queued' = Tail(Queued)
           /\ Head(Queued) = CurOf(r)
<1>1. UNCHANGED <<shape, writeCur>> /\ rpc[r] # "idle"
      /\ readCur' = [readCur EXCEPT ![EntryOf(r)] = Plus(CurOf(r), 1)]
  BY DEF ReleaseOK, CurOf
<1>2. UNCHANGED <<Mode, MaxRound, CurMod, Cursors>>
  BY <1>1, ShapeStays DEF MaxRound
<1>3. /\ Queued \in Seq(0 .. MaxRound - 1) /\ Len(Queued) = Lag(0) /\ Lag(0) \in Nat
      /\ Lag(0) <= LagLimit /\ LagLimit \in Nat /\ LagLimit < CurMod - 1 /\ CurMod \in Nat
      /\ readCur[0] \in Cursors /\ writeCur \in Cursors /\ 0 \in Entries
  BY QueuedType
<1>4. Bound(r) /\ EntryOf(r) = 0 /\ CurOf(r) = readCur[0]
  BY <1>1, InCall, OneTaker DEF IInv
<1>5. Behind(writeCur, readCur[0]) >= 1
      /\ Behind(writeCur, Plus(readCur[0], 1)) = Behind(writeCur, readCur[0]) - 1
  <2>1. /\ Behind(writeCur, CurOf(r)) = Behind(writeCur, rwc[r]) + Behind(rwc[r], CurOf(r))
        /\ Behind(rwc[r], CurOf(r)) \in Cursors /\ Behind(rwc[r], CurOf(r)) >= 1
        /\ Behind(writeCur, rwc[r]) \in Cursors
        /\ Behind(writeCur, Plus(CurOf(r), 1)) = Behind(writeCur, CurOf(r)) - 1
    BY <1>1, Moves DEF IInv
  <2> QED BY <1>3, <1>4, <2>1 DEF Cursors
<1>6. readCur'[0] = Plus(readCur[0], 1) /\ Lag(0)' = Lag(0) - 1 /\ Lag(0) >= 1
  <2>1. readCur'[0] = Plus(readCur[0], 1)
    BY <1>1, <1>3, <1>4 DEF IInv, TypeOK
  <2> QED BY <1>1, <1>2, <1>5, <2>1 DEF Lag, Behind
<1>7. Queued # <<>> /\ Queued[1] = readCur[0]
  <2>1. 0 \in Cursors /\ 1 \in 1 .. Lag(0) /\ 1 - 1 = 0
    BY <1>3, <1>6 DEF Cursors
  <2>2. Plus(readCur[0], 0) = IF readCur[0] + 0 < CurMod THEN readCur[0] + 0
                              ELSE readCur[0] + 0 - CurMod
    BY <1>3, <2>1, AheadIs DEF IInv
  <2>3. Queued[1] = readCur[0]
    BY <1>3, <2>1, <2>2 DEF Queued, Cursors
  <2> QED BY <1>3, <1>6, <2>3
<1>8. /\ Tail(Queued) \in Seq(0 .. MaxRound - 1) /\ Len(Tail(Queued)) = Lag(0) - 1
      /\ \A i \in 1 .. Lag(0) - 1 : Tail(Queued)[i] = Queued[i + 1]
  BY <1>3, <1>7, HeadTailProperties
<1>9. Queued' = [i \in 1 .. Lag(0) - 1 |-> Plus(Plus(readCur[0], 1), i - 1)]
  BY <1>1, <1>2, <1>6 DEF Queued, Plus
<1>10. ASSUME NEW i \in 1 .. Lag(0) - 1
       PROVE  Tail(Queued)[i] = Plus(Plus(readCur[0], 1), i - 1)
  <2>1. i - 1 \in Nat /\ (i - 1) + 1 \in Cursors /\ i + 1 \in 1 .. Lag(0)
        /\ (i + 1) - 1 = (i - 1) + 1
    BY <1>3 DEF Cursors
  <2>2. Plus(Plus(readCur[0], 1), i - 1) = Plus(readCur[0], (i - 1) + 1)
    BY <1>3, <2>1, AheadOne DEF IInv
  <2>3. Queued[i + 1] = Plus(readCur[0], (i + 1) - 1)
    BY <2>1 DEF Queued
  <2> QED BY <1>8, <2>1, <2>2, <2>3
<1>11. Tail(Queued) = [i \in 1 .. Lag(0) - 1 |-> Plus(Plus(readCur[0], 1), i - 1)]
  <2>1. Tail(Queued) \in [1 .. Lag(0) - 1 -> 0 .. MaxRound - 1]
    BY <1>8, LenProperties
  <2> QED BY <1>10, <2>1
<1> QED BY <1>4, <1>7, <1>9, <1>11

\* Attaching the reader, or a reset, starts an empty queue.
LEMMA StartDiscards ==
    ASSUME IInv, IInv', Mode = "QUEUE", NEW r \in Readers, ReaderAttach(r)
    PROVE  /\ Queued' = <<>>
           /\ \A q \in Readers' : got'[q].ret = "none"
<1>1. UNCHANGED <<shape, writeCur>>
  BY DEF ReaderAttach
<1>2. UNCHANGED <<Mode, CurMod, Cursors, Readers, Unbound, Entries>>
  BY <1>1, ShapeStays
<1>3. Entries = {0} /\ CurMod \in Nat /\ writeCur \in Cursors
  BY Geometry DEF IInv, Entries, TypeOK
<1>4. readCur'[0] = writeCur /\ handle'[r].entry = 0
  BY <1>3 DEF ReaderAttach, IInv, TypeOK
<1>5. Behind(writeCur, writeCur) = 0
  BY <1>3, BehindIs DEF IInv, Cursors
<1>6. Lag(0)' = 0
  BY <1>1, <1>2, <1>4, <1>5 DEF Lag, Behind
<1>7. Queued' = <<>>
  BY <1>6 DEF Queued
<1>8. ASSUME NEW q \in Readers PROVE got'[q].ret = "none"
  <2>1. CASE q = r
    BY <2>1 DEF ReaderAttach, Nothing, IInv, TypeOK
  <2>2. CASE q # r
    <3>1. 0 # Unbound
      BY <1>3, Constants DEF IInv
    <3>2. EntryOf(r)' = 0 /\ EntryOf(q)' \in {0, Unbound}
      BY <1>2, <1>3, <1>4 DEF EntryOf, IInv, TypeOK
    <3>3. EntryOf(r)' # EntryOf(q)' /\ ~Bound(q)' => got'[q].ret = "none"
      BY <1>2 DEF IInv, HandlesInv
    <3>4. EntryOf(r)' # EntryOf(q)'
      BY <1>2, <2>2, <3>1, <3>2 DEF IInv, HandlesInv, Bound, EntryOf
    <3> QED BY <1>2, <3>2, <3>3, <3>4 DEF Bound
  <2> QED BY <2>1, <2>2
<1> QED BY <1>2, <1>7, <1>8

\* While no call has returned a frame, nothing has been taken.
LEMMA NothingTaken ==
    ASSUME \A q \in Readers : got[q].ret = "none"
    PROVE  LastTaken = MaxRound
BY DEF LastTaken, QueueTaken

\* Every step of the ring is a step of the queue or leaves it as it is.
LEMMA QueueStep ==
    ASSUME RoundsBounded
    PROVE  IInv /\ IInv' /\ [Next]_vars => [Queue!Next]_(Queue!vars)
<1> SUFFICES ASSUME IInv, IInv', [Next]_vars PROVE [Queue!Next]_(Queue!vars)
  OBVIOUS
<1>1. UNCHANGED shape
  BY ShapeStep DEF IInv
<1>2. UNCHANGED <<Mode, MaxRound, MaxQueued, CurMod, Cursors, Readers>>
  BY <1>1, ShapeStays DEF MaxRound, MaxQueued
<1>3. CASE Mode # "QUEUE"
  <2>1. Mode = "SIGNAL"
    BY <1>3, Geometry DEF IInv
  <2>2. QueueItems = <<>> /\ QueueItems' = <<>> /\ LastTaken = MaxRound
        /\ LastTaken' = MaxRound
    BY <1>2, <2>1 DEF QueueItems, LastTaken, QueueTaken
  <2> QED BY <2>2 DEF Queue!vars
<1>4. CASE Mode = "QUEUE"
  <2>1. QueueItems = Queued /\ QueueItems' = Queued'
    <3>1. (IInv /\ Mode = "QUEUE" => QueueItems = Queued)'
      BY ItemsAre, PTL
    <3> QED BY <1>2, <1>4, <3>1, ItemsAre
  <2>2. ASSUME UNCHANGED <<writeCur, readCur, got>> PROVE UNCHANGED Queue!vars
    <3>1. Queued' = Queued
      BY <1>2, <2>2 DEF Queued, Lag, Behind, Plus
    <3>2. LastTaken' = LastTaken
      BY <1>2, <2>2 DEF LastTaken, QueueTaken
    <3> QED BY <2>1, <3>1, <3>2 DEF Queue!vars
  <2>3. CASE UNCHANGED vars \/ Freeze \/ AcquireWrite \/ WriteWord \/ Abort
    BY <2>2, <2>3
       DEF vars, storage, readerVars, Freeze, AcquireWrite, WriteWord, Abort
  <2>4. CASE Reset
    <3>1. \A q \in Readers : got'[q].ret = "none"
      BY <2>4 DEF Reset, Nothing
    <3>2. LastTaken' = MaxRound
      BY <1>2, <3>1 DEF LastTaken, QueueTaken
    <3>3. Lag(0)' = 0
      <4>1. 0 \in Entries /\ 0 \in Cursors /\ CurMod \in Nat
        BY <1>4, Geometry, Constants DEF IInv, Entries
      <4>2. writeCur' = 0 /\ readCur'[0] = 0
        BY <2>4, <4>1 DEF Reset
      <4>3. Behind(0, 0) = 0
        BY <4>1, BehindIs DEF IInv
      <4> QED BY <1>2, <4>2, <4>3 DEF Lag, Behind
    <3>4. Queued' = <<>>
      BY <3>3 DEF Queued
    <3> QED BY <2>1, <3>2, <3>4 DEF Queue!Next, Queue!Discard
  <2>5. CASE Commit
    <3>1. /\ Len(Queued) < MaxQueued /\ writeCur \in 0 .. MaxRound - 1
          /\ Queued' = Append(Queued, writeCur)
      BY <1>4, <2>5, CommitPuts
    <3>2. LastTaken' = LastTaken
      BY <1>2, <2>5 DEF Commit, readerVars, LastTaken, QueueTaken
    <3> QED BY <2>1, <3>1, <3>2 DEF Queue!Next, Queue!Put
  <2>6. ASSUME NEW r \in Readers, ReaderAttach(r) PROVE Queue!Next
    <3>1. Queued' = <<>> /\ \A q \in Readers' : got'[q].ret = "none"
      BY <1>4, <2>6, StartDiscards
    <3>2. LastTaken' = MaxRound
      BY <1>2, <3>1 DEF LastTaken, QueueTaken
    <3> QED BY <2>1, <3>1, <3>2 DEF Queue!Next, Queue!Discard
  <2>7. ASSUME NEW r \in Readers, AcquireLoad(r) \/ CopyWord(r) \/ ReleaseLoad(r)
        PROVE  UNCHANGED Queue!vars
    BY <2>2, <2>7 DEF AcquireLoad, CopyWord, ReleaseLoad, storage
  <2>8. ASSUME NEW r \in Readers, rpc[r] # "idle" PROVE ~Lapped(rwc[r], CurOf(r))
    BY <1>4, <2>8, InCall, QueueNotLapped DEF IInv
  <2>9. ASSUME NEW r \in Readers, Lend(r) PROVE UNCHANGED Queue!vars
    BY <2>2, <2>8, <2>9 DEF Lend
  <2>10. ASSUME NEW r \in Readers, ReleaseOverflow(r) PROVE FALSE
    BY <2>8, <2>10 DEF ReleaseOverflow
  <2>11. ASSUME NEW r \in Readers, ReleaseOK(r) PROVE Queue!Next
    <3>1. /\ Queued # <<>> /\ Queued' = Tail(Queued)
          /\ Head(Queued) = CurOf(r)
      BY <1>4, <2>11, ReleaseTakes
    <3>2. Bound(r)
      BY <2>11, InCall DEF ReleaseOK, IInv
    <3>3. /\ got'[r].ret = "OK" /\ got'[r].pos = CurOf(r)
          /\ \A q \in Readers : q # r => got'[q] = got[q]
      BY <2>11 DEF ReleaseOK, Return, IInv, TypeOK, LoansInv, LoanInv, Loan
    <3>4. \A q \in Readers : q # r => got'[q].ret = "none"
      BY <1>4, <3>2, <3>3, OneTaker
    <3>5. QueueTaken' = {r}
      BY <1>2, <1>4, <3>3, <3>4 DEF QueueTaken
    <3>6. LastTaken' = CurOf(r)
      BY <3>3, <3>5 DEF LastTaken
    <3> QED BY <2>1, <3>1, <3>6 DEF Queue!Next, Queue!Take
  <2> QED
    BY <2>3, <2>4, <2>5, <2>6, <2>7, <2>9, <2>10, <2>11 DEF Next, Writer, Reader
<1> QED BY <1>3, <1>4

\* In QUEUE mode the ring implements the bounded first-in first-out queue, for every
\* storage of bounded size: nothing committed is lost, torn, repeated or reordered.
THEOREM QueueHolds == ASSUME RoundsBounded PROVE Spec => QueueSpec
<1>1. Init => Queue!Init
  <2> SUFFICES ASSUME Init PROVE Queue!Init
    OBVIOUS
  <2>1. IInv
    BY InitInv
  <2>2. LastTaken = MaxRound
    BY NothingTaken DEF Init, Nothing
  <2>3. QueueItems = <<>>
    <3>1. CASE Mode = "QUEUE"
      <4>1. CurMod \in Nat /\ 0 \in Cursors /\ 0 \in Entries
        BY <2>1, <3>1, Geometry, Constants DEF IInv, Entries
      <4>2. writeCur = 0 /\ readCur[0] = 0 /\ Behind(0, 0) = 0
        BY <2>1, <4>1, BehindIs DEF Init, IInv
      <4> QED BY <4>2 DEF QueueItems
    <3>2. CASE Mode # "QUEUE"
      BY <2>1, <3>2, Geometry DEF IInv, QueueItems
    <3> QED BY <3>1, <3>2
  <2> QED BY <2>2, <2>3 DEF Queue!Init
<1>2. IInv /\ IInv' /\ [Next]_vars => [Queue!Next]_(Queue!vars)
  BY QueueStep
<1> QED BY <1>1, <1>2, InvHolds, PTL DEF Spec, QueueSpec, Queue!Spec
=============================================================================
