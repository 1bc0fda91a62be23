------------------------------- MODULE Ipc_proof -------------------------------
(* Proofs about the channels of MCIpc, for every depth and number of words,     *)
(* every budget and wherever the cursors and the sequence numbers come round.   *)
(*                                                                              *)
(* EventsInv: what a ring of events holds is numbered one after the other, from *)
(* the last number the target has seen to the one given last.  FifoInv and      *)
(* RelayInv: the places from the tail to the head hold whole items, and the     *)
(* place behind them is not the reader's.  ChainInv: the stores on their way    *)
(* continue the sequence number the reading CPU sees; OrderedInv and WeakInv:   *)
(* what they, and the reader's copy, have to do with the newest frame.          *)
EXTENDS MCIpc, SequenceTheorems, TLAPS

\* A sum of two remainders is at most one round too large.
LEMMA ModSmall ==
    ASSUME NEW m \in Nat \ {0}, NEW x \in 0 .. 2 * m - 1
    PROVE  x % m = IF x < m THEN x ELSE x - m
OBVIOUS

\* A difference that is at most a round too small.
LEMMA ModNegative ==
    ASSUME NEW m \in Nat \ {0}, NEW x \in Int, -m <= x, x < m
    PROVE  x % m = IF x < 0 THEN x + m ELSE x
OBVIOUS

\* The quotient and the remainder.
LEMMA DivFacts ==
    ASSUME NEW m \in Nat \ {0}, NEW x \in Nat
    PROVE  x = m * (x \div m) + (x % m) /\ x \div m \in Nat /\ x % m \in 0 .. m - 1
OBVIOUS

\* A multiple of m that is not zero is at least m away from zero.
LEMMA MulAway ==
    ASSUME NEW m \in Nat \ {0}, NEW n \in Int, n # 0
    PROVE  m * n >= m \/ m * n <= -m
OBVIOUS

\* Positions less than k apart share a slot only when they are the same.
LEMMA SameSlot ==
    ASSUME NEW k \in Nat \ {0}, NEW x \in Nat, NEW y \in Nat,
           x % k = y % k, x <= y, y < x + k
    PROVE  x = y
<1>1. x = k * (x \div k) + (x % k) /\ y = k * (y \div k) + (y % k)
      /\ x \div k \in Int /\ y \div k \in Int
  BY DivFacts
<1>2. y - x = k * ((y \div k) - (x \div k))
  BY <1>1
<1>3. (y \div k) - (x \div k) = 0
  BY <1>1, <1>2, MulAway
<1> QED BY <1>2, <1>3

\* A whole number of rounds later a position has the same slot.
LEMMA LapSlot ==
    ASSUME NEW k \in Nat \ {0}, NEW n \in Nat, n % k = 0, NEW x \in Nat
    PROVE  (x + n) % k = x % k
<1>1. \A y \in Nat : /\ y = k * (y \div k) + (y % k)
                     /\ y \div k \in Int /\ y % k \in 0 .. k - 1
  BY DivFacts
<1>2. x + n \in Nat
  OBVIOUS
<1>3. x + n = k * ((x \div k) + (n \div k)) + (x % k)
  BY <1>1
<1>4. x + n = k * ((x + n) \div k) + ((x + n) % k)
  BY <1>1, <1>2
<1>5. /\ (x \div k) + (n \div k) \in Int /\ (x + n) \div k \in Int
      /\ x % k \in 0 .. k - 1 /\ (x + n) % k \in 0 .. k - 1
  BY <1>1, <1>2
<1> DEFINE d == (x \div k) + (n \div k) - ((x + n) \div k)
<1>6. d \in Int /\ ((x + n) % k) - (x % k) = k * d
  BY <1>3, <1>4, <1>5
<1>7. d = 0
  BY <1>5, <1>6, MulAway
<1> QED BY <1>5, <1>6, <1>7

-----------------------------------------------------------------------------
(* Rings of m places: head, tail, and what lies between                        *)

\* How many places there are from t to h, and the i-th place from t.
Span(m, h, t) == (h + m - t) % m
Place(m, t, i) == (t + i) % m

\* The arithmetic of a ring: the length of what it holds, and the place after one.
LEMMA SpanIs ==
    ASSUME NEW m \in Nat \ {0}, NEW h \in 0 .. m - 1, NEW t \in 0 .. m - 1
    PROVE  /\ Span(m, h, t) = IF h >= t THEN h - t ELSE h - t + m
           /\ Span(m, h, t) \in 0 .. m - 1
<1> DEFINE x == h + m - t
<1>1. x \in 0 .. 2 * m - 1 /\ (x < m <=> h < t)
  OBVIOUS
<1> HIDE DEF x
<1>2. x % m = IF x < m THEN x ELSE x - m
  BY <1>1, ModSmall
<1>3. x % m = IF h >= t THEN h - t ELSE h - t + m
  BY <1>1, <1>2 DEF x
<1>4. Span(m, h, t) = x % m
  BY DEF Span, x
<1> HIDE DEF Span
<1>5. Span(m, h, t) = IF h >= t THEN h - t ELSE h - t + m
  BY <1>3, <1>4
<1> QED BY <1>5

\* The length, written as a difference.
LEMMA SpanIsLess ==
    ASSUME NEW m \in Nat \ {0}, NEW h \in 0 .. m - 1, NEW t \in 0 .. m - 1
    PROVE  Span(m, h, t) = (h - t) % m
<1> DEFINE x == h - t
<1>1. x \in Int /\ -m <= x /\ x < m /\ (x < 0 <=> ~(h >= t))
  OBVIOUS
<1> HIDE DEF x
<1>2. x % m = IF x < 0 THEN x + m ELSE x
  BY <1>1, ModNegative
<1>3. Span(m, h, t) = x % m
  BY <1>1, <1>2, SpanIs DEF x
<1> QED BY <1>3 DEF x

\* The place after one.
LEMMA NextIs ==
    ASSUME NEW m \in Nat \ {0}, NEW h \in 0 .. m - 1
    PROVE  (h + 1) % m = IF h + 1 = m THEN 0 ELSE h + 1
<1> DEFINE x == h + 1
<1>1. x \in 0 .. 2 * m - 1 /\ x <= m
  OBVIOUS
<1> HIDE DEF x
<1>2. x % m = IF x < m THEN x ELSE x - m
  BY <1>1, ModSmall
<1>3. x % m = IF x = m THEN 0 ELSE x
  BY <1>1, <1>2
<1> QED BY <1>3 DEF x

\* The places of a ring: the tail is the first, the head the one behind the last, and
\* no two of them are the same.
LEMMA RingPlaces ==
    ASSUME NEW m \in Nat \ {0}, NEW h \in 0 .. m - 1, NEW t \in 0 .. m - 1
    PROVE  /\ \A i \in Nat : Place(m, t, i) \in 0 .. m - 1
           /\ Place(m, t, 0) = t
           /\ Place(m, t, Span(m, h, t)) = h
           /\ \A i, j \in 0 .. m - 1 : i # j => Place(m, t, i) # Place(m, t, j)
<1>1. \A i \in Nat : Place(m, t, i) \in 0 .. m - 1
  BY DivFacts DEF Place
<1>2. Place(m, t, 0) = t
  <2>1. t + 0 = t /\ t \in 0 .. 2 * m - 1 /\ t < m
    OBVIOUS
  <2> QED BY <2>1, ModSmall DEF Place
<1>3. Place(m, t, Span(m, h, t)) = h
  <2> DEFINE d == Span(m, h, t)
             x == t + d
  <2>0. d = IF h >= t THEN h - t ELSE h - t + m
    BY SpanIs
  <2> HIDE DEF d
  <2>1. x \in 0 .. 2 * m - 1 /\ x = IF h >= t THEN h ELSE h + m
    BY <2>0
  <2> HIDE DEF x
  <2>2. x % m = IF x < m THEN x ELSE x - m
    BY <2>1, ModSmall
  <2>3. x % m = h
    BY <2>1, <2>2
  <2> QED BY <2>3 DEF Place, x, d
<1>4. ASSUME NEW i \in 0 .. m - 1, NEW j \in 0 .. m - 1, i < j
      PROVE  Place(m, t, i) # Place(m, t, j)
  <2>1. t + i \in Nat /\ t + j \in Nat /\ t + i # t + j
        /\ t + i <= t + j /\ t + j < t + i + m
    BY <1>4
  <2> QED BY <2>1, SameSlot DEF Place
<1>5. ASSUME NEW i \in 0 .. m - 1, NEW j \in 0 .. m - 1, i # j
      PROVE  Place(m, t, i) # Place(m, t, j)
  <2>1. i < j \/ j < i
    BY <1>5
  <2> QED BY <1>4, <2>1
<1> QED BY <1>1, <1>2, <1>3, <1>5

\* The head moves on by one, if there is room.
LEMMA RingGrows ==
    ASSUME NEW m \in Nat \ {0}, NEW h \in 0 .. m - 1, NEW t \in 0 .. m - 1
    PROVE  /\ (h + 1) % m # t => Span(m, (h + 1) % m, t) = Span(m, h, t) + 1
           /\ (h + 1) % m = t <=> Span(m, h, t) = m - 1
<1> DEFINE g == (h + 1) % m
<1>g. g = IF h + 1 = m THEN 0 ELSE h + 1
  BY NextIs
<1> HIDE DEF g
<1>1. g \in 0 .. m - 1 /\ Span(m, h, t) = IF h >= t THEN h - t ELSE h - t + m
  BY <1>g, SpanIs
<1>2. Span(m, g, t) = IF g >= t THEN g - t ELSE g - t + m
  BY <1>1, SpanIs
<1>3. g # t => Span(m, g, t) = Span(m, h, t) + 1
  BY <1>g, <1>1, <1>2
<1>4. g = t <=> Span(m, h, t) = m - 1
  BY <1>g, <1>1
<1> QED BY <1>3, <1>4 DEF g

\* The tail moves on by one, if there is anything.
LEMMA RingShrinks ==
    ASSUME NEW m \in Nat \ {0}, NEW h \in 0 .. m - 1, NEW t \in 0 .. m - 1
    PROVE  /\ h # t => Span(m, h, (t + 1) % m) = Span(m, h, t) - 1
           /\ \A i \in Nat : Place(m, (t + 1) % m, i) = Place(m, t, i + 1)
<1> DEFINE u == (t + 1) % m
<1>u. u = IF t + 1 = m THEN 0 ELSE t + 1
  BY NextIs
<1> HIDE DEF u
<1>1. u = (IF t + 1 = m THEN 0 ELSE t + 1) /\ u \in 0 .. m - 1
  BY <1>u
<1>2. Span(m, h, t) = IF h >= t THEN h - t ELSE h - t + m
  BY SpanIs
<1>3. Span(m, h, u) = IF h >= u THEN h - u ELSE h - u + m
  BY <1>1, SpanIs
<1>4. h # t => Span(m, h, u) = Span(m, h, t) - 1
  BY <1>1, <1>2, <1>3
<1>5. ASSUME NEW i \in Nat PROVE Place(m, u, i) = Place(m, t, i + 1)
  <2>1. CASE t + 1 = m
    <3>1. u + i = i /\ t + (i + 1) = i + m /\ m \in Nat /\ m \in 0 .. 2 * m - 1
      BY <1>1, <2>1
    <3>2. m % m = 0
      BY <3>1, ModSmall
    <3>3. (i + m) % m = i % m
      BY <3>1, <3>2, LapSlot
    <3> QED BY <3>1, <3>3 DEF Place
  <2>2. CASE t + 1 # m
    <3>1. u + i = t + (i + 1)
      BY <1>1, <2>2
    <3> QED BY <3>1 DEF Place
  <2> QED BY <2>1, <2>2
<1> QED BY <1>4, <1>5 DEF u

-----------------------------------------------------------------------------
(* What lies in a ring, as a sequence                                          *)

\* One more at the end.
LEMMA OneMore ==
    ASSUME NEW S, NEW n \in Nat, NEW a \in [1 .. n -> S], NEW b \in [1 .. n + 1 -> S],
           \A i \in 1 .. n : b[i] = a[i]
    PROVE  /\ a \in Seq(S) /\ Len(a) = n
           /\ b = Append(a, b[n + 1])
<1>1. a \in Seq(S) /\ Len(a) = n /\ b[n + 1] \in S
  OBVIOUS
<1> DEFINE c == Append(a, b[n + 1])
<1>2. /\ c \in Seq(S) /\ Len(c) = n + 1
      /\ \A i \in 1 .. n : c[i] = a[i]
      /\ c[n + 1] = b[n + 1]
  BY <1>1, AppendProperties
<1> HIDE DEF c
<1>3. c \in [1 .. n + 1 -> S]
  BY <1>2, LenProperties
<1>4. ASSUME NEW i \in 1 .. n + 1 PROVE c[i] = b[i]
  <2>1. i = n + 1 \/ i \in 1 .. n
    OBVIOUS
  <2> QED BY <1>2, <2>1
<1>5. c = b
  BY <1>3, <1>4
<1> QED BY <1>1, <1>5 DEF c

\* One less at the front.
LEMMA OneLess ==
    ASSUME NEW S, NEW n \in Nat, NEW a \in [1 .. n + 1 -> S], NEW b \in [1 .. n -> S],
           \A i \in 1 .. n : b[i] = a[i + 1]
    PROVE  /\ a \in Seq(S) /\ Len(a) = n + 1 /\ a # <<>>
           /\ b = Tail(a) /\ Head(a) = a[1]
<1>1. a \in Seq(S) /\ Len(a) = n + 1 /\ a # <<>>
  OBVIOUS
<1> DEFINE c == Tail(a)
<1>2. /\ c \in Seq(S) /\ Len(c) = n
      /\ \A i \in 1 .. n : c[i] = a[i + 1]
      /\ Head(a) = a[1]
  BY <1>1, HeadTailProperties
<1> HIDE DEF c
<1>3. c \in [1 .. n -> S]
  BY <1>2, LenProperties
<1>4. c = b
  BY <1>2, <1>3
<1> QED BY <1>1, <1>2, <1>4 DEF c

-----------------------------------------------------------------------------
(* The relay                                                                   *)

RelayCount == Span(RelayDepth, relayHead, relayTail)
RelaySlot(i) == Place(RelayDepth, relayTail, i)

RelayTypes ==
    /\ bound \subseteq Relay!Cpus /\ open \in BOOLEAN /\ registered \in BOOLEAN
    /\ block \in [Relay!Slots -> [Relay!Words -> Item \cup {None}]]
    /\ stamp \in [Relay!Slots -> [sequence : 0 .. RelayMod - 1, epoch : {0, 1}]]
    /\ announced \in [Relay!Slots -> 0 .. RelayMod - 1]
    /\ relayHead \in Relay!Slots /\ relayTail \in Relay!Slots
    /\ nextSequence \in 0 .. RelayMod - 1
    /\ ppc \in {"idle", "fill", "announce", "advance"}
    /\ filled \in 0 .. WordCount /\ sent \in Item \cup {None}
    /\ cpc \in {"idle", "look", "consume"}
    /\ drained \in 0 .. Budget
    /\ seen \in Seq(Item \cup {None}) /\ Len(seen) <= WordCount
    /\ lastPassed \in 0 .. RelayMod - 1 /\ relayTaken \in Item \cup {None}

\* Both CPUs are bound before they use the relay.
RelayBound ==
    /\ open => "source" \in bound
    /\ registered => open /\ "target" \in bound
    /\ ppc # "idle" => open
    /\ cpc # "idle" => registered

\* A slot between tail and head holds a whole block and stamps that agree.
Holds(s) ==
    /\ \E v \in Item : \A w \in Relay!Words : block[s][w] = v
    /\ stamp[s].epoch = 1 /\ stamp[s].sequence # 0 /\ announced[s] = stamp[s].sequence
RelayKept == \A i \in 0 .. RelayCount - 1 : Holds(RelaySlot(i))

\* The numbers follow one another from the last one passed over to the last one given.
RelayNumber(i) == stamp[RelaySlot(i)].sequence
RelayNewest == IF RelayCount = 0 THEN lastPassed ELSE RelayNumber(RelayCount - 1)
RelayNumbers ==
    /\ RelayCount > 0 => RelayNumber(0) = Relay!NextSeq(lastPassed)
    /\ \A i \in 0 .. RelayCount - 1 :
          i > 0 => RelayNumber(i) = Relay!NextSeq(RelayNumber(i - 1))
    /\ nextSequence = IF ppc \in {"announce", "advance"} THEN Relay!NextSeq(RelayNewest)
                      ELSE RelayNewest
    /\ nextSequence = 0 => \A s \in Relay!Slots : announced[s] = 0

\* A publish has room, and has stored the words and the stamps it has come to.
RelayProducer ==
    ppc # "idle" =>
        /\ RelayCount < RelayDepth - 1 /\ sent \in Item
        /\ \A w \in 1 .. filled : block[relayHead][w] = sent
        /\ ppc \in {"announce", "advance"} =>
              /\ filled = WordCount
              /\ stamp[relayHead].sequence = nextSequence /\ stamp[relayHead].epoch = 1
        /\ ppc = "advance" => announced[relayHead] = nextSequence

\* The callback reads the oldest block.
RelayConsumer ==
    /\ cpc # "consume" => seen = <<>>
    /\ cpc = "consume" =>
          /\ relayHead # relayTail
          /\ \A i \in 1 .. Len(seen) : seen[i] = block[relayTail][i]

RelayInv ==
    RelayTypes /\ RelayBound /\ RelayKept /\ RelayNumbers /\ RelayProducer /\ RelayConsumer

\* What the constants of the relay are assumed to be.
LEMMA RelayShape ==
    /\ RelayDepth \in Nat \ {0} /\ RelayDepth >= 2 /\ RelayMod \in Nat /\ RelayMod > 2
    /\ WordCount \in Nat \ {0} /\ Budget \in Nat \ {0} /\ None \notin Item
BY ChannelsAssumption DEF Relay!RelayAssumption

\* What the ring of the relay is made of.
LEMMA RelayRing ==
    ASSUME relayHead \in Relay!Slots, relayTail \in Relay!Slots
    PROVE  /\ RelayCount \in 0 .. RelayDepth - 1
           /\ RelayCount = 0 <=> relayHead = relayTail
           /\ \A i \in Nat : RelaySlot(i) \in Relay!Slots
           /\ RelaySlot(0) = relayTail /\ RelaySlot(RelayCount) = relayHead
           /\ \A i \in 0 .. RelayCount - 1 : RelaySlot(i) # relayHead
           /\ Relay!Succ(relayHead) \in Relay!Slots /\ Relay!Succ(relayTail) \in Relay!Slots
           /\ Relay!Succ(relayHead) = relayTail <=> RelayCount = RelayDepth - 1
<1>1. /\ RelayDepth \in Nat \ {0} /\ relayHead \in 0 .. RelayDepth - 1
      /\ relayTail \in 0 .. RelayDepth - 1
  BY RelayShape DEF Relay!Slots
<1>2. /\ RelayCount = IF relayHead >= relayTail THEN relayHead - relayTail
                      ELSE relayHead - relayTail + RelayDepth
      /\ RelayCount \in 0 .. RelayDepth - 1
  BY <1>1, SpanIs DEF RelayCount
<1>3. /\ \A i \in Nat : RelaySlot(i) \in Relay!Slots
      /\ RelaySlot(0) = relayTail /\ RelaySlot(RelayCount) = relayHead
      /\ \A i, j \in 0 .. RelayDepth - 1 : i # j => RelaySlot(i) # RelaySlot(j)
  <2>1. /\ \A i \in Nat : Place(RelayDepth, relayTail, i) \in 0 .. RelayDepth - 1
        /\ Place(RelayDepth, relayTail, 0) = relayTail
        /\ Place(RelayDepth, relayTail, Span(RelayDepth, relayHead, relayTail)) = relayHead
        /\ \A i, j \in 0 .. RelayDepth - 1 :
              i # j => Place(RelayDepth, relayTail, i) # Place(RelayDepth, relayTail, j)
    <3>1. RelayDepth \in Nat \ {0}
      BY <1>1
    <3>2. relayHead \in 0 .. RelayDepth - 1
      BY <1>1
    <3>3. relayTail \in 0 .. RelayDepth - 1
      BY <1>1
    <3>4. \A i \in Nat : Place(RelayDepth, relayTail, i) \in 0 .. RelayDepth - 1
      BY <3>1, <3>2, <3>3, RingPlaces
    <3>5. Place(RelayDepth, relayTail, 0) = relayTail
      BY <3>1, <3>2, <3>3, RingPlaces
    <3>6. Place(RelayDepth, relayTail, Span(RelayDepth, relayHead, relayTail)) = relayHead
      BY <3>1, <3>2, <3>3, RingPlaces
    <3>7. \A i, j \in 0 .. RelayDepth - 1 :
              i # j => Place(RelayDepth, relayTail, i) # Place(RelayDepth, relayTail, j)
      BY <3>1, <3>2, <3>3, RingPlaces
    <3> QED BY <3>4, <3>5, <3>6, <3>7
  <2> QED BY <2>1, Zenon DEF RelaySlot, RelayCount, Relay!Slots
<1>4. \A i \in 0 .. RelayCount - 1 : RelaySlot(i) # relayHead
  <2>1. \A i \in 0 .. RelayCount - 1 :
           i \in 0 .. RelayDepth - 1 /\ i # RelayCount
    BY <1>1, <1>2
  <2> QED BY <1>2, <1>3, <2>1
<1>5. \A c \in 0 .. RelayDepth - 1 : Relay!Succ(c) \in Relay!Slots
  <2> SUFFICES ASSUME NEW c \in 0 .. RelayDepth - 1 PROVE Relay!Succ(c) \in Relay!Slots
    OBVIOUS
  <2>1. Relay!Succ(c) = IF c + 1 = RelayDepth THEN 0 ELSE c + 1
    BY <1>1, NextIs DEF Relay!Succ
  <2> QED BY <1>1, <2>1 DEF Relay!Slots
<1>6. Relay!Succ(relayHead) = relayTail <=> RelayCount = RelayDepth - 1
  BY <1>1, RingGrows DEF Relay!Succ, RelayCount
<1> QED BY <1>1, <1>2, <1>3, <1>4, <1>5, <1>6

\* A number is never 0.
LEMMA RelayNext ==
    \A n \in 0 .. RelayMod - 1 : Relay!NextSeq(n) \in 1 .. RelayMod - 1
BY RelayShape DEF Relay!NextSeq

\* What the relay holds, as a sequence.
RelayHeld == [i \in 1 .. RelayCount |-> block[RelaySlot(i - 1)][1]]
\* The queue of the relay is what its ring holds.
LEMMA RelayItems == RelayTypes => Relay!Items = RelayHeld
<1> SUFFICES ASSUME RelayTypes PROVE Relay!Items = RelayHeld
  OBVIOUS
<1>1. relayHead \in Nat /\ relayTail \in Nat /\ RelayDepth \in Nat
  BY RelayShape DEF RelayTypes, Relay!Slots
<1>2. \A i \in Int : relayTail + i - 1 = relayTail + (i - 1)
  BY <1>1
<1>3. RelayCount \in Nat
  BY RelayRing, RelayShape DEF RelayTypes
<1>4. \A i \in 1 .. RelayCount : (relayTail + i - 1) % RelayDepth = RelaySlot(i - 1)
  BY <1>2, <1>3 DEF RelaySlot, Place
<1> QED BY <1>4 DEF Relay!Items, RelayHeld, RelayCount, Span

\* The same after a step.
LEMMA RelayItemsThen ==
    RelayTypes' => (Relay!Items = RelayHeld)'
BY RelayItems, PTL

\* What is stored into the slot of the head touches nothing the relay holds.
LEMMA RelayStores ==
    ASSUME RelayInv, RelayTypes', UNCHANGED <<relayHead, relayTail, lastPassed>>,
           \A s \in Relay!Slots \ {relayHead} :
              block'[s] = block[s] /\ stamp'[s] = stamp[s] /\ announced'[s] = announced[s]
    PROVE  /\ RelayCount' = RelayCount /\ (\A i \in Nat : RelaySlot(i)' = RelaySlot(i))
           /\ RelayKept' /\ RelayNewest' = RelayNewest
           /\ \A i \in 0 .. RelayCount - 1 : RelayNumber(i)' = RelayNumber(i)
           /\ Relay!Items' = Relay!Items
           /\ relayHead # relayTail => block'[relayTail] = block[relayTail]
<1>1. /\ RelayCount' = RelayCount /\ \A i \in Nat : RelaySlot(i)' = RelaySlot(i)
  BY DEF RelayCount, RelaySlot, Span, Place
<1>2. /\ RelayTypes /\ RelayKept /\ RelayCount \in Nat
      /\ \A i \in 0 .. RelayCount - 1 :
            RelaySlot(i) \in Relay!Slots \ {relayHead} /\ i \in Nat
  <2>1. RelayTypes /\ RelayKept
    BY DEF RelayInv
  <2>2. relayHead \in Relay!Slots /\ relayTail \in Relay!Slots
    BY <2>1 DEF RelayTypes
  <2>3. /\ RelayCount \in 0 .. RelayDepth - 1 /\ \A i \in Nat : RelaySlot(i) \in Relay!Slots
        /\ \A i \in 0 .. RelayCount - 1 : RelaySlot(i) # relayHead
    BY <2>2, RelayRing
  <2>4. RelayCount \in Nat /\ \A i \in 0 .. RelayCount - 1 : i \in Nat
    BY <2>3, RelayShape
  <2> QED BY <2>1, <2>3, <2>4
<1>3. \A i \in 0 .. RelayCount - 1 :
         /\ RelaySlot(i)' = RelaySlot(i)
         /\ block'[RelaySlot(i)] = block[RelaySlot(i)]
         /\ stamp'[RelaySlot(i)] = stamp[RelaySlot(i)]
         /\ announced'[RelaySlot(i)] = announced[RelaySlot(i)]
  BY <1>1, <1>2
<1>4. RelayKept'
  BY <1>1, <1>2, <1>3 DEF RelayKept, Holds, Relay!Words
<1>5. \A i \in 0 .. RelayCount - 1 : RelayNumber(i)' = RelayNumber(i)
  BY <1>3 DEF RelayNumber
<1>6. RelayNewest' = RelayNewest
  <2>1. RelayCount # 0 => RelayCount - 1 \in 0 .. RelayCount - 1
    BY <1>2
  <2> QED BY <1>1, <1>5, <2>1 DEF RelayNewest
<1>7. Relay!Items' = Relay!Items
  <2>1. /\ Relay!Items = [i \in 1 .. RelayCount |-> block[RelaySlot(i - 1)][1]]
        /\ Relay!Items' = [i \in 1 .. RelayCount' |-> block'[RelaySlot(i - 1)'][1]]
    BY <1>2, RelayItems, RelayItemsThen DEF RelayHeld
  <2>2. \A i \in 1 .. RelayCount : i - 1 \in 0 .. RelayCount - 1
    BY <1>2
  <2> QED BY <1>1, <1>3, <2>1, <2>2
<1>8. relayHead # relayTail => block'[relayTail] = block[relayTail]
  BY <1>2 DEF RelayTypes
<1> QED BY <1>1, <1>4, <1>5, <1>6, <1>7, <1>8

\* Nothing is bound, stored or on its way.
LEMMA RelayInit == Relay!Init => RelayInv /\ Relay!Q!Init
<1> SUFFICES ASSUME Relay!Init PROVE RelayInv /\ Relay!Q!Init
  OBVIOUS
<1>1. RelayTypes
  <2>1. seen \in Seq(Item \cup {None}) /\ Len(seen) = 0
    BY DEF Relay!Init
  <2>2. /\ block \in [Relay!Slots -> [Relay!Words -> Item \cup {None}]]
        /\ stamp \in [Relay!Slots -> [sequence : 0 .. RelayMod - 1, epoch : {0, 1}]]
        /\ announced \in [Relay!Slots -> 0 .. RelayMod - 1]
    BY RelayShape DEF Relay!Init
  <2>3. 0 \in Relay!Slots
    BY RelayShape DEF Relay!Slots
  <2> QED BY <2>1, <2>2, <2>3, RelayShape DEF Relay!Init, RelayTypes
<1>2. RelayCount = 0
  BY <1>1, RelayRing DEF RelayTypes, Relay!Init
<1>3. RelayBound /\ RelayKept /\ RelayProducer /\ RelayConsumer
  BY <1>2 DEF Relay!Init, RelayBound, RelayKept, RelayProducer, RelayConsumer
<1>4. RelayNumbers
  BY <1>2 DEF Relay!Init, RelayNumbers, RelayNewest
<1>5. Relay!Q!Init
  <2>1. Relay!Items = <<>>
    BY <1>1, <1>2, RelayItems DEF RelayHeld
  <2> QED BY <2>1 DEF Relay!Init, Relay!Q!Init
<1> QED BY <1>1, <1>3, <1>4, <1>5 DEF RelayInv

\* Both CPUs are bound first, so the slot the target looks at is sound.
LEMMA RelaySound ==
    ASSUME RelayInv
    PROVE  /\ registered /\ relayHead # relayTail => Relay!Sound(relayTail)
           /\ relayHead # relayTail => Holds(relayTail)
<1>1. /\ relayHead \in Relay!Slots /\ relayTail \in Relay!Slots /\ RelayBound /\ RelayKept
  BY DEF RelayInv, RelayTypes
<1>2. relayHead # relayTail => Holds(relayTail)
  <2>1. RelayCount \in 0 .. RelayDepth - 1 /\ (RelayCount = 0 <=> relayHead = relayTail)
        /\ RelaySlot(0) = relayTail
    BY <1>1, RelayRing
  <2>2. RelayDepth \in Nat
    BY RelayShape
  <2>3. relayHead # relayTail => 0 \in 0 .. RelayCount - 1
    BY <2>1, <2>2
  <2> QED BY <1>1, <2>1, <2>3 DEF RelayKept
<1>3. registered => Relay!ActiveEpoch("target") = 1
  BY <1>1 DEF RelayBound, Relay!ActiveEpoch
<1> QED BY <1>2, <1>3 DEF Holds, Relay!Sound

\* Setting up, refusing and beginning touch neither slots nor numbers.
LEMMA RelayOutside ==
    ASSUME RelayInv,
           \/ \E c \in Relay!Cpus : Relay!Bind(c)
           \/ Relay!Open \/ Relay!Register \/ Relay!Refuse \/ Relay!BeginPublish
           \/ Relay!BeginDrain \/ Relay!EndDrain \/ Relay!BeginConsume \/ Relay!Read
    PROVE  RelayInv' /\ Relay!Q!vars' = Relay!Q!vars
<1> USE DEF Relay!setup, Relay!slots, Relay!producer, Relay!consumer
<1>0. /\ RelayTypes /\ RelayBound /\ RelayKept /\ RelayNumbers /\ RelayProducer /\ RelayConsumer
      /\ RelayDepth \in Nat \ {0} /\ Budget \in Nat \ {0} /\ WordCount \in Nat \ {0}
  BY RelayShape DEF RelayInv
<1>1. UNCHANGED <<block, stamp, announced, relayHead, relayTail, lastPassed, nextSequence,
                  relayTaken>>
  BY DEF Relay!Bind, Relay!Open, Relay!Register, Relay!Refuse, Relay!BeginPublish,
         Relay!BeginDrain, Relay!EndDrain, Relay!BeginConsume, Relay!Read, Relay!KeepNumber
<1>2. /\ RelayBound'
      /\ bound' \subseteq Relay!Cpus /\ open' \in BOOLEAN /\ registered' \in BOOLEAN
  <2>0. /\ bound \subseteq Relay!Cpus /\ open \in BOOLEAN /\ registered \in BOOLEAN
        /\ RelayBound
    BY <1>0 DEF RelayTypes
  <2>1. CASE \E c \in Relay!Cpus : Relay!Bind(c)
    BY <2>0, <2>1 DEF RelayBound, Relay!Bind
  <2>2. CASE Relay!Open \/ Relay!Register
    <3>1. /\ bound' = bound /\ ppc' = ppc /\ cpc' = cpc
          /\ \/ open' = TRUE /\ "source" \in bound /\ registered' = registered
             \/ registered' = TRUE /\ open /\ "target" \in bound /\ open' = open
      BY <2>2 DEF Relay!Open, Relay!Register, Relay!MayRegister
    <3>2. RelayBound'
      <4>1. /\ open' => "source" \in bound'
            /\ open => open' /\ (ppc # "idle" => open')
        BY <2>0, <3>1 DEF RelayBound
      <4>2. registered' => open' /\ "target" \in bound'
        BY <2>0, <3>1 DEF RelayBound
      <4>3. cpc # "idle" => registered'
        BY <2>0, <3>1 DEF RelayBound
      <4> QED BY <3>1, <4>1, <4>2, <4>3 DEF RelayBound
    <3> QED BY <2>0, <3>1, <3>2
  <2>3. CASE Relay!Refuse \/ Relay!BeginPublish
    BY <2>0, <2>3 DEF RelayBound, Relay!Refuse, Relay!BeginPublish
  <2>4. CASE Relay!BeginDrain \/ Relay!EndDrain \/ Relay!BeginConsume \/ Relay!Read
    BY <2>0, <2>4
       DEF RelayBound, Relay!BeginDrain, Relay!EndDrain, Relay!BeginConsume, Relay!Read
  <2> QED BY <2>1, <2>2, <2>3, <2>4
\* The producer has begun, or stays where it was.
<1>3. \/ UNCHANGED <<ppc, filled, sent>>
      \/ /\ ppc = "idle" /\ ppc' = "fill" /\ filled' = 0 /\ sent' \in Item
         /\ ~Relay!Full
  BY DEF Relay!Bind, Relay!Open, Relay!Register, Relay!Refuse, Relay!BeginPublish,
         Relay!BeginDrain, Relay!EndDrain, Relay!BeginConsume, Relay!Read
\* The consumer has read a word, or reads none.
<1>4. \/ UNCHANGED <<cpc, drained, seen>>
      \/ /\ cpc \in {"idle", "look"} /\ cpc' \in {"idle", "look"} /\ drained' = 0
         /\ seen' = seen
      \/ /\ cpc = "look" /\ cpc' = "consume" /\ relayHead # relayTail
         /\ UNCHANGED <<drained, seen>>
      \/ /\ cpc = "consume" /\ Len(seen) # WordCount
         /\ seen' = Append(seen, block[relayTail][Len(seen) + 1])
         /\ UNCHANGED <<cpc, drained>>
  BY DEF Relay!Bind, Relay!Open, Relay!Register, Relay!Refuse, Relay!BeginPublish,
         Relay!BeginDrain, Relay!EndDrain, Relay!BeginConsume, Relay!Read, Relay!AllRead
<1>5. /\ seen' \in Seq(Item \cup {None}) /\ Len(seen') <= WordCount
      /\ cpc' \in {"idle", "look", "consume"} /\ drained' \in 0 .. Budget
      /\ RelayConsumer'
  <2>1. CASE UNCHANGED <<cpc, drained, seen>>
    BY <1>0, <1>1, <2>1 DEF RelayTypes, RelayConsumer
  <2>2. CASE /\ cpc \in {"idle", "look"} /\ cpc' \in {"idle", "look"} /\ drained' = 0
             /\ seen' = seen
    BY <1>0, <1>1, <2>2 DEF RelayTypes, RelayConsumer
  <2>3. CASE /\ cpc = "look" /\ cpc' = "consume" /\ relayHead # relayTail
             /\ UNCHANGED <<drained, seen>>
    BY <1>0, <1>1, <2>3 DEF RelayTypes, RelayConsumer
  <2>4. CASE /\ cpc = "consume" /\ Len(seen) # WordCount
             /\ seen' = Append(seen, block[relayTail][Len(seen) + 1])
             /\ UNCHANGED <<cpc, drained>>
    <3>1. /\ seen \in Seq(Item \cup {None}) /\ Len(seen) \in Nat /\ Len(seen) <= WordCount
          /\ block[relayTail] \in [1 .. WordCount -> Item \cup {None}]
          /\ relayHead # relayTail /\ \A i \in 1 .. Len(seen) : seen[i] = block[relayTail][i]
      BY <1>0, <2>4 DEF RelayTypes, RelayConsumer, Relay!Words
    <3> DEFINE v == block[relayTail][Len(seen) + 1]
    <3>2. Len(seen) + 1 \in 1 .. WordCount /\ v \in Item \cup {None}
      BY <1>0, <2>4, <3>1
    <3>3. /\ seen' \in Seq(Item \cup {None}) /\ Len(seen') = Len(seen) + 1
          /\ \A i \in 1 .. Len(seen) : seen'[i] = seen[i]
          /\ seen'[Len(seen) + 1] = v
      BY <2>4, <3>1, <3>2, AppendProperties
    <3>4. \A i \in 1 .. Len(seen') : seen'[i] = block[relayTail][i]
      BY <3>1, <3>3
    <3>5. Len(seen') <= WordCount
      BY <3>2, <3>3
    <3>6. RelayConsumer'
      BY <1>1, <2>4, <3>1, <3>4 DEF RelayConsumer
    <3> QED BY <1>0, <2>4, <3>3, <3>5, <3>6 DEF RelayTypes
  <2> QED BY <1>4, <2>1, <2>2, <2>3, <2>4
<1>6. ppc' \in {"idle", "fill", "announce", "advance"} /\ filled' \in 0 .. WordCount
      /\ sent' \in Item \cup {None}
  BY <1>0, <1>3 DEF RelayTypes
<1>7. RelayTypes'
  BY <1>0, <1>1, <1>2, <1>5, <1>6 DEF RelayTypes, Relay!Slots, Relay!Words, Relay!Cpus
<1>8. /\ RelayCount' = RelayCount /\ (\A i \in Nat : RelaySlot(i)' = RelaySlot(i))
      /\ RelayKept' /\ RelayNewest' = RelayNewest
      /\ \A i \in 0 .. RelayCount - 1 : RelayNumber(i)' = RelayNumber(i)
      /\ Relay!Items' = Relay!Items
  BY <1>1, <1>7, RelayStores
<1>9. RelayNumbers'
  <2>1. RelayCount \in Nat
    BY <1>0, RelayRing DEF RelayTypes
  <2>2. ppc \in {"announce", "advance"} <=> ppc' \in {"announce", "advance"}
    BY <1>3
  <2>3. RelayCount > 0 => RelayNumber(0)' = Relay!NextSeq(lastPassed)
    BY <1>0, <1>8, <2>1 DEF RelayNumbers
  <2>4. \A i \in 0 .. RelayCount - 1 :
           i > 0 => RelayNumber(i)' = Relay!NextSeq(RelayNumber(i - 1)')
    <3>1. \A i \in 0 .. RelayCount - 1 : i > 0 => i - 1 \in 0 .. RelayCount - 1
      BY <2>1
    <3> QED BY <1>0, <1>8, <3>1 DEF RelayNumbers
  <2> QED BY <1>0, <1>1, <1>8, <2>2, <2>3, <2>4
          DEF RelayNumbers, Relay!NextSeq, Relay!Slots
<1>10. RelayProducer'
  <2>1. CASE UNCHANGED <<ppc, filled, sent>>
    BY <1>0, <1>1, <1>8, <2>1 DEF RelayProducer
  <2>2. CASE /\ ppc = "idle" /\ ppc' = "fill" /\ filled' = 0 /\ sent' \in Item
             /\ ~Relay!Full
    <3>1. RelayCount < RelayDepth - 1
      <4>1. relayHead \in Relay!Slots /\ relayTail \in Relay!Slots
            /\ Relay!Succ(relayHead) # relayTail
        BY <1>0, <2>2 DEF RelayTypes, Relay!Full
      <4>2. RelayCount \in 0 .. RelayDepth - 1 /\ RelayCount # RelayDepth - 1
        BY <4>1, RelayRing
      <4> QED BY <1>0, <4>2
    <3> QED BY <1>8, <2>2, <3>1 DEF RelayProducer
  <2> QED BY <1>3, <2>1, <2>2
<1> QED BY <1>1, <1>2, <1>5, <1>7, <1>8, <1>9, <1>10 DEF RelayInv, Relay!Q!vars

\* Storing the words and the stamps: all in the slot of the head.
LEMMA RelayStoring ==
    ASSUME RelayInv, Relay!Fill \/ Relay!Stamp \/ Relay!Announce
    PROVE  RelayInv' /\ Relay!Q!vars' = Relay!Q!vars
<1> USE DEF Relay!setup, Relay!slots, Relay!producer, Relay!consumer
<1>0. /\ RelayTypes /\ RelayBound /\ RelayKept /\ RelayNumbers /\ RelayProducer /\ RelayConsumer
      /\ RelayDepth \in Nat \ {0} /\ WordCount \in Nat \ {0}
      /\ RelayMod \in Nat /\ RelayMod > 2
  BY RelayShape DEF RelayInv
<1>1. /\ UNCHANGED <<bound, open, registered, relayHead, relayTail, sent, cpc, drained, seen,
                     lastPassed, relayTaken>>
      /\ ppc \in {"fill", "announce"} /\ ppc' \in {"fill", "announce", "advance"}
  BY DEF Relay!Fill, Relay!Stamp, Relay!Announce
<1>2. /\ relayHead \in Relay!Slots /\ relayTail \in Relay!Slots
      /\ RelayCount < RelayDepth - 1 /\ sent \in Item
      /\ \A w \in 1 .. filled : block[relayHead][w] = sent
      /\ filled \in 0 .. WordCount
  BY <1>0, <1>1 DEF RelayTypes, RelayProducer
<1>n. RelayNewest \in 0 .. RelayMod - 1
  <2>1. RelayCount \in Nat /\ \A i \in Nat : RelaySlot(i) \in Relay!Slots
    BY <1>0, <1>2, RelayRing
  <2>2. RelayCount # 0 => RelaySlot(RelayCount - 1) \in Relay!Slots
    BY <2>1
  <2> QED BY <1>0, <2>1, <2>2 DEF RelayNewest, RelayNumber, RelayTypes
\* What each of them stores.
<1>3. /\ RelayTypes'
      /\ \A s \in Relay!Slots \ {relayHead} :
            block'[s] = block[s] /\ stamp'[s] = stamp[s] /\ announced'[s] = announced[s]
      /\ RelayProducer'
      /\ nextSequence' = IF ppc' \in {"announce", "advance"} THEN Relay!NextSeq(RelayNewest)
                         ELSE RelayNewest
      /\ nextSequence' = 0 => \A s \in Relay!Slots : announced'[s] = 0
  <2>1. CASE Relay!Fill
    <3>1. /\ ppc = "fill" /\ filled < WordCount /\ ppc' = ppc /\ filled' = filled + 1
          /\ block' = [block EXCEPT ![relayHead][filled + 1] = sent]
          /\ UNCHANGED <<stamp, announced, nextSequence>>
      BY <2>1 DEF Relay!Fill
    <3>2. filled + 1 \in Relay!Words /\ block[relayHead] \in [Relay!Words -> Item \cup {None}]
          /\ block \in [Relay!Slots -> [Relay!Words -> Item \cup {None}]]
      BY <1>0, <1>2, <3>1 DEF RelayTypes, Relay!Words
    <3>3. /\ block' \in [Relay!Slots -> [Relay!Words -> Item \cup {None}]]
          /\ block'[relayHead][filled + 1] = sent
          /\ \A w \in Relay!Words : w # filled + 1 => block'[relayHead][w] = block[relayHead][w]
          /\ \A s \in Relay!Slots \ {relayHead} : block'[s] = block[s]
      BY <1>2, <3>1, <3>2
    <3>4. filled' \in 0 .. WordCount
          /\ \A w \in 1 .. filled' : block'[relayHead][w] = sent
      <4>1. filled \in 0 .. WordCount /\ WordCount \in Nat /\ filled < WordCount
            /\ filled' = filled + 1
        BY <1>0, <1>2, <3>1
      <4>2. filled + 1 \in 0 .. WordCount
        BY <4>1
      <4>3. ASSUME NEW w \in 1 .. filled' PROVE block'[relayHead][w] = sent
        <5>1. w = filled + 1 \/ w \in 1 .. filled
          BY <4>1
        <5>2. w \in 1 .. WordCount /\ (w \in 1 .. filled => w # filled + 1)
          BY <4>1
        <5> QED BY <1>2, <3>3, <5>1, <5>2 DEF Relay!Words
      <4> QED BY <4>1, <4>2, <4>3
    <3>5. RelayTypes'
      BY <1>0, <1>1, <3>1, <3>3, <3>4 DEF RelayTypes, Relay!Slots, Relay!Words, Relay!Cpus
    <3>6. RelayProducer'
      <4>1. RelayCount' = RelayCount
        BY <1>1 DEF RelayCount, Span
      <4> QED BY <1>1, <1>2, <3>1, <3>4, <4>1 DEF RelayProducer
    <3> QED BY <1>0, <3>1, <3>3, <3>5, <3>6 DEF RelayNumbers
  <2>2. CASE Relay!Stamp
    <3>1. /\ ppc = "fill" /\ filled = WordCount /\ ppc' = "announce" /\ filled' = filled
          /\ nextSequence' = Relay!NextSeq(nextSequence)
          /\ stamp' = [stamp EXCEPT ![relayHead] =
                          [sequence |-> nextSequence', epoch |-> Relay!ActiveEpoch("source")]]
          /\ UNCHANGED <<block, announced>>
      BY <2>2 DEF Relay!Stamp, Relay!AllFilled
    <3>2. Relay!ActiveEpoch("source") = 1
      BY <1>0, <3>1 DEF RelayBound, Relay!ActiveEpoch
    <3>3. nextSequence = RelayNewest /\ nextSequence \in 0 .. RelayMod - 1
          /\ nextSequence' \in 1 .. RelayMod - 1
      BY <1>0, <3>1, RelayNext DEF RelayNumbers, RelayTypes
    <3>4. /\ stamp' \in [Relay!Slots -> [sequence : 0 .. RelayMod - 1, epoch : {0, 1}]]
          /\ stamp'[relayHead].sequence = nextSequence' /\ stamp'[relayHead].epoch = 1
          /\ \A s \in Relay!Slots \ {relayHead} : stamp'[s] = stamp[s]
      <4>1. [sequence |-> nextSequence', epoch |-> 1]
                \in [sequence : 0 .. RelayMod - 1, epoch : {0, 1}]
        BY <1>0, <3>3
      <4> QED BY <1>0, <1>2, <3>1, <3>2, <4>1 DEF RelayTypes
    <3>5. RelayTypes'
      BY <1>0, <1>1, <3>1, <3>3, <3>4 DEF RelayTypes, Relay!Slots, Relay!Words, Relay!Cpus
    <3>6. RelayProducer'
      <4>1. RelayCount' = RelayCount
        BY <1>1 DEF RelayCount, Span
      <4> QED BY <1>1, <1>2, <3>1, <3>4, <4>1 DEF RelayProducer
    <3>7. nextSequence' # 0
      BY <3>3
    <3> QED BY <3>1, <3>3, <3>4, <3>5, <3>6, <3>7
  <2>3. CASE Relay!Announce
    <3>1. /\ ppc = "announce" /\ ppc' = "advance" /\ filled' = filled
          /\ announced' = [announced EXCEPT ![relayHead] = stamp[relayHead].sequence]
          /\ UNCHANGED <<block, stamp, nextSequence>>
      BY <2>3 DEF Relay!Announce
    <3>2. /\ filled = WordCount
          /\ stamp[relayHead].sequence = nextSequence /\ stamp[relayHead].epoch = 1
          /\ nextSequence = Relay!NextSeq(RelayNewest)
      BY <1>0, <3>1 DEF RelayProducer, RelayNumbers
    <3>3. nextSequence \in 1 .. RelayMod - 1
      BY <1>n, <3>2, RelayNext
    <3>4. /\ announced' \in [Relay!Slots -> 0 .. RelayMod - 1]
          /\ announced'[relayHead] = nextSequence
          /\ \A s \in Relay!Slots \ {relayHead} : announced'[s] = announced[s]
      BY <1>0, <1>2, <3>1, <3>2, <3>3 DEF RelayTypes
    <3>5. RelayTypes'
      BY <1>0, <1>1, <3>1, <3>4 DEF RelayTypes, Relay!Slots, Relay!Words, Relay!Cpus
    <3>6. RelayProducer'
      <4>1. RelayCount' = RelayCount
        BY <1>1 DEF RelayCount, Span
      <4> QED BY <1>1, <1>2, <3>1, <3>2, <3>4, <4>1 DEF RelayProducer
    <3> QED BY <3>1, <3>2, <3>3, <3>4, <3>5, <3>6
  <2> QED BY <2>1, <2>2, <2>3
<1>4. /\ RelayCount' = RelayCount /\ (\A i \in Nat : RelaySlot(i)' = RelaySlot(i))
      /\ RelayKept' /\ RelayNewest' = RelayNewest
      /\ \A i \in 0 .. RelayCount - 1 : RelayNumber(i)' = RelayNumber(i)
      /\ Relay!Items' = Relay!Items
      /\ relayHead # relayTail => block'[relayTail] = block[relayTail]
  BY <1>1, <1>3, RelayStores
<1>5. RelayNumbers'
  <2>1. RelayCount \in Nat
    BY <1>0, <1>2, RelayRing
  <2>2. RelayCount > 0 => RelayNumber(0)' = Relay!NextSeq(lastPassed)
    BY <1>0, <1>4, <2>1 DEF RelayNumbers
  <2>3. \A i \in 0 .. RelayCount - 1 :
           i > 0 => RelayNumber(i)' = Relay!NextSeq(RelayNumber(i - 1)')
    <3>1. \A i \in 0 .. RelayCount - 1 : i > 0 => i - 1 \in 0 .. RelayCount - 1
      BY <2>1
    <3> QED BY <1>0, <1>4, <3>1 DEF RelayNumbers
  <2> QED BY <1>1, <1>3, <1>4, <2>2, <2>3 DEF RelayNumbers, Relay!NextSeq, Relay!Slots
<1>6. RelayBound' /\ RelayConsumer'
  BY <1>0, <1>1, <1>4 DEF RelayBound, RelayConsumer
<1> QED BY <1>1, <1>3, <1>4, <1>5, <1>6 DEF RelayInv, Relay!Q!vars

\* The head moves on: the block is in the relay.
LEMMA RelayAdvance ==
    ASSUME RelayInv, Relay!Advance
    PROVE  RelayInv' /\ Relay!Q!Next
<1> USE DEF Relay!setup, Relay!slots, Relay!producer, Relay!consumer
<1>0. /\ RelayTypes /\ RelayBound /\ RelayKept /\ RelayNumbers /\ RelayProducer /\ RelayConsumer
      /\ RelayDepth \in Nat \ {0} /\ RelayDepth >= 2 /\ WordCount \in Nat \ {0}
  BY RelayShape DEF RelayInv
<1>1. /\ ppc = "advance" /\ ppc' = "idle" /\ filled' = 0 /\ sent' = None
      /\ relayHead' = Relay!Succ(relayHead)
      /\ UNCHANGED <<bound, open, registered, block, stamp, announced, nextSequence, relayTail,
                     cpc, drained, seen, lastPassed, relayTaken>>
  BY DEF Relay!Advance
<1>2. /\ relayHead \in Relay!Slots /\ relayTail \in Relay!Slots
      /\ RelayCount \in 0 .. RelayDepth - 1 /\ RelayCount < RelayDepth - 1
      /\ sent \in Item /\ filled = WordCount
      /\ \A w \in Relay!Words : block[relayHead][w] = sent
      /\ stamp[relayHead].sequence = nextSequence /\ stamp[relayHead].epoch = 1
      /\ announced[relayHead] = nextSequence
      /\ nextSequence = Relay!NextSeq(RelayNewest)
  BY <1>0, <1>1, RelayRing DEF RelayTypes, RelayProducer, RelayNumbers, Relay!Words
<1>3. /\ RelaySlot(RelayCount) = relayHead /\ relayHead' \in Relay!Slots
      /\ relayHead' # relayTail /\ \A i \in Nat : RelaySlot(i) \in Relay!Slots
  <2>1. RelayCount # RelayDepth - 1
    BY <1>0, <1>2
  <2> QED BY <1>1, <1>2, <2>1, RelayRing
<1>4. RelayCount' = RelayCount + 1 /\ \A i : RelaySlot(i)' = RelaySlot(i)
  <2>1. Span(RelayDepth, (relayHead + 1) % RelayDepth, relayTail) =
            Span(RelayDepth, relayHead, relayTail) + 1
    <3>1. relayHead \in 0 .. RelayDepth - 1 /\ relayTail \in 0 .. RelayDepth - 1
          /\ (relayHead + 1) % RelayDepth # relayTail
      BY <1>1, <1>2, <1>3 DEF Relay!Slots, Relay!Succ
    <3> QED BY <1>0, <3>1, RingGrows
  <2> QED BY <1>1, <2>1 DEF RelayCount, RelaySlot, Relay!Succ, Place, Span
<1>5. \A i \in 0 .. RelayCount : i \in 0 .. RelayCount - 1 \/ i = RelayCount
  BY <1>2
<1>n. RelayNewest \in 0 .. RelayMod - 1
  <2>2. RelayCount # 0 => RelaySlot(RelayCount - 1) \in Relay!Slots
    BY <1>2, <1>3
  <2> QED BY <1>0, <1>2, <2>2 DEF RelayNewest, RelayNumber, RelayTypes
<1>6. RelayTypes'
  <2>1. filled' \in 0 .. WordCount /\ sent' \in Item \cup {None}
        /\ ppc' \in {"idle", "fill", "announce", "advance"} /\ relayHead' \in Relay!Slots
    BY <1>0, <1>1, <1>3
  <2>2. RelayTypes /\ Relay!Slots' = Relay!Slots /\ Relay!Words' = Relay!Words
        /\ Relay!Cpus' = Relay!Cpus
    BY <1>0 DEF Relay!Slots, Relay!Words, Relay!Cpus
  <2> QED BY <1>1, <2>1, <2>2 DEF RelayTypes
<1>7. Holds(relayHead)
  <2>1. nextSequence # 0
    BY <1>2, <1>n, RelayNext
  <2> QED BY <1>2, <2>1 DEF Holds
<1>8. RelayKept'
  <2>1. \A s : Holds(s)' <=> Holds(s)
    BY <1>1 DEF Holds, Relay!Words
  <2>2. \A i \in 0 .. RelayCount : Holds(RelaySlot(i))
    BY <1>0, <1>3, <1>5, <1>7 DEF RelayKept
  <2>3. RelayCount' - 1 = RelayCount
    BY <1>2, <1>4
  <2> QED BY <1>1, <1>4, <2>2, <2>3 DEF RelayKept, Holds, Relay!Words
<1>9. RelayNumbers'
  <2>1. \A i : RelayNumber(i)' = RelayNumber(i)
    BY <1>1, <1>4 DEF RelayNumber
  <2>2. RelayNumber(RelayCount) = nextSequence
    BY <1>2, <1>3 DEF RelayNumber
  <2>3. RelayNumber(0)' = Relay!NextSeq(lastPassed)
    <3>1. CASE RelayCount = 0
      BY <1>2, <2>1, <2>2, <3>1 DEF RelayNewest
    <3>2. CASE RelayCount # 0
      <4>1. RelayCount > 0
        BY <1>2, <3>2
      <4> QED BY <1>0, <2>1, <4>1 DEF RelayNumbers
    <3> QED BY <3>1, <3>2
  <2>4. ASSUME NEW i \in 0 .. RelayCount, i > 0
        PROVE  RelayNumber(i)' = Relay!NextSeq(RelayNumber(i - 1)')
    <3>1. CASE i = RelayCount
      BY <1>2, <2>1, <2>2, <2>4, <3>1 DEF RelayNewest
    <3>2. CASE i \in 0 .. RelayCount - 1
      BY <1>0, <2>1, <2>4, <3>2 DEF RelayNumbers
    <3> QED BY <1>5, <3>1, <3>2
  <2>5. RelayNewest' = nextSequence
    <3>1. RelayCount' # 0 /\ RelayCount' - 1 = RelayCount
      BY <1>2, <1>4
    <3> QED BY <2>1, <2>2, <3>1 DEF RelayNewest
  <2>6. RelayCount' - 1 = RelayCount
    BY <1>2, <1>4
  <2>7. nextSequence = 0 => \A s \in Relay!Slots : announced[s] = 0
    BY <1>0 DEF RelayNumbers
  <2> QED BY <1>1, <2>3, <2>4, <2>5, <2>6, <2>7 DEF RelayNumbers, Relay!NextSeq, Relay!Slots
<1>10. RelayBound' /\ RelayProducer' /\ RelayConsumer'
  <2>1. RelayBound' /\ RelayProducer'
    BY <1>0, <1>1 DEF RelayBound, RelayProducer
  <2>2. RelayConsumer'
    BY <1>0, <1>1, <1>3 DEF RelayConsumer
  <2> QED BY <2>1, <2>2
<1>11. Relay!Q!Next
  <2> DEFINE a == RelayHeld
             b == RelayHeld'
  <2>1. b = [i \in 1 .. RelayCount + 1 |-> block[RelaySlot(i - 1)][1]]
    BY <1>1, <1>4 DEF RelayHeld
  <2>2. \A s \in Relay!Slots : block[s][1] \in Item \cup {None}
    BY <1>0 DEF RelayTypes, Relay!Words
  <2>3. \A i \in 1 .. RelayCount + 1 : RelaySlot(i - 1) \in Relay!Slots
    BY <1>2, <1>3
  <2>4. a \in [1 .. RelayCount -> Item \cup {None}]
        /\ b \in [1 .. RelayCount + 1 -> Item \cup {None}]
    <3>1. 1 .. RelayCount \subseteq 1 .. RelayCount + 1
      BY <1>0, <1>2
    <3>2. a = [i \in 1 .. RelayCount |-> block[RelaySlot(i - 1)][1]]
      BY DEF RelayHeld
    <3> HIDE DEF a, b
    <3> QED BY <2>1, <2>2, <2>3, <3>1, <3>2
  <2>5. \A i \in 1 .. RelayCount : b[i] = a[i]
    <3>1. 1 .. RelayCount \subseteq 1 .. RelayCount + 1
      BY <1>0, <1>2
    <3>2. a = [i \in 1 .. RelayCount |-> block[RelaySlot(i - 1)][1]]
      BY DEF RelayHeld
    <3> HIDE DEF a, b
    <3> QED BY <2>1, <3>1, <3>2
  <2>6. b[RelayCount + 1] = sent
    <3>1. RelayCount + 1 \in 1 .. RelayCount + 1 /\ (RelayCount + 1) - 1 = RelayCount
          /\ 1 \in Relay!Words
      BY <1>0, <1>2 DEF Relay!Words
    <3> QED BY <1>2, <1>3, <2>1, <3>1
  <2> HIDE DEF a, b
  <2>7. Len(a) = RelayCount /\ b = Append(a, sent)
    <3>1. RelayCount \in Nat
      BY <1>2
    <3> QED BY <2>4, <2>5, <2>6, <3>1, OneMore
  <2>8. Relay!Items = a /\ Relay!Items' = b
    BY <1>0, <1>6, RelayItems, RelayItemsThen DEF a, b
  <2> QED BY <1>1, <1>2, <2>7, <2>8 DEF Relay!Q!Next, Relay!Q!Put
<1> QED BY <1>6, <1>8, <1>9, <1>10, <1>11 DEF RelayInv

\* The consumer passes over the slot it has looked at: the block leaves the relay.
LEMMA RelayPass ==
    ASSUME RelayInv, Relay!Consumed
    PROVE  RelayInv' /\ Relay!Q!Next
<1> USE DEF Relay!setup, Relay!slots, Relay!producer, Relay!consumer
<1>0. /\ RelayTypes /\ RelayBound /\ RelayKept /\ RelayNumbers /\ RelayProducer /\ RelayConsumer
      /\ RelayDepth \in Nat \ {0} /\ RelayDepth >= 2 /\ WordCount \in Nat \ {0}
      /\ Budget \in Nat \ {0}
  BY RelayShape DEF RelayInv
<1>1. /\ cpc = "consume" /\ cpc' = "look" /\ seen' = <<>> /\ Len(seen) = WordCount
      /\ drained' = (IF drained < Budget THEN drained + 1 ELSE Budget)
      /\ relayTail' = Relay!Succ(relayTail) /\ lastPassed' = stamp[relayTail].sequence
      /\ relayTaken' = IF Relay!Whole(seen) THEN seen[1] ELSE None
      /\ UNCHANGED <<bound, open, registered, block, stamp, announced, nextSequence, relayHead,
                     ppc, filled, sent>>
  BY DEF Relay!Consumed, Relay!PassOver, Relay!AllRead
<1>2. /\ relayHead \in Relay!Slots /\ relayTail \in Relay!Slots /\ relayHead # relayTail
      /\ Holds(relayTail) /\ \A i \in 1 .. WordCount : seen[i] = block[relayTail][i]
      /\ seen \in Seq(Item \cup {None})
  BY <1>0, <1>1, RelaySound DEF RelayTypes, RelayConsumer
<1>3. /\ RelayCount \in 1 .. RelayDepth - 1
      /\ RelaySlot(0) = relayTail /\ relayTail' \in Relay!Slots
      /\ \A i \in Nat : RelaySlot(i) \in Relay!Slots
  <2>1. /\ RelayCount \in 0 .. RelayDepth - 1 /\ RelayCount # 0
        /\ RelaySlot(0) = relayTail /\ relayTail' \in Relay!Slots
        /\ \A i \in Nat : RelaySlot(i) \in Relay!Slots
    BY <1>1, <1>2, RelayRing
  <2> QED BY <1>0, <2>1
<1>4. RelayCount' = RelayCount - 1 /\ \A i \in Nat : RelaySlot(i)' = RelaySlot(i + 1)
  <2>1. relayHead \in 0 .. RelayDepth - 1 /\ relayTail \in 0 .. RelayDepth - 1
        /\ relayTail' = (relayTail + 1) % RelayDepth
    BY <1>1, <1>2 DEF Relay!Slots, Relay!Succ
  <2>2. /\ Span(RelayDepth, relayHead, relayTail') = Span(RelayDepth, relayHead, relayTail) - 1
        /\ \A i \in Nat : Place(RelayDepth, relayTail', i) = Place(RelayDepth, relayTail, i + 1)
    <3>1. Span(RelayDepth, relayHead, relayTail') = Span(RelayDepth, relayHead, relayTail) - 1
      BY <1>0, <1>2, <2>1, RingShrinks
    <3>2. \A i \in Nat : Place(RelayDepth, relayTail', i) = Place(RelayDepth, relayTail, i + 1)
      BY <1>0, <2>1, RingShrinks
    <3> QED BY <3>1, <3>2
  <2>3. Span(RelayDepth, relayHead, relayTail)' = Span(RelayDepth, relayHead, relayTail')
        /\ \A i : Place(RelayDepth, relayTail, i)' = Place(RelayDepth, relayTail', i)
    BY <1>1 DEF Span, Place
  <2> QED BY <2>2, <2>3 DEF RelayCount, RelaySlot
\* The callback has read a block.
<1>5. relayTaken' = block[relayTail][1] /\ relayTaken' \in Item
  <2>1. PICK v \in Item : \A w \in Relay!Words : block[relayTail][w] = v
    BY <1>2 DEF Holds
  <2>2. \A i \in 1 .. WordCount : seen[i] = v
    BY <1>2, <2>1 DEF Relay!Words
  <2>3. DOMAIN seen = 1 .. WordCount /\ 1 \in 1 .. WordCount
    BY <1>0, <1>1, <1>2
  <2>4. Relay!Whole(seen)
    BY <2>2, <2>3 DEF Relay!Whole
  <2> QED BY <1>1, <1>2, <2>2, <2>3, <2>4
<1>6. RelayTypes'
  <2>1. stamp[relayTail].sequence \in 0 .. RelayMod - 1 /\ drained' \in 0 .. Budget
        /\ seen' \in Seq(Item \cup {None}) /\ Len(seen') <= WordCount
    BY <1>0, <1>1, <1>2 DEF RelayTypes
  <2> QED BY <1>0, <1>1, <1>3, <1>5, <2>1 DEF RelayTypes, Relay!Slots, Relay!Words, Relay!Cpus
<1>7. \A i \in 0 .. RelayCount' - 1 :
         i + 1 \in 0 .. RelayCount - 1 /\ RelaySlot(i)' = RelaySlot(i + 1)
  <2>1. \A i \in 0 .. RelayCount - 1 - 1 : i + 1 \in 0 .. RelayCount - 1 /\ i \in Nat
    BY <1>3
  <2> QED BY <1>4, <2>1
<1>8. RelayKept'
  BY <1>0, <1>1, <1>7 DEF RelayKept, Holds, Relay!Words
<1>9. RelayNumbers'
  <2>1. \A i \in Nat : RelayNumber(i)' = RelayNumber(i + 1)
    BY <1>1, <1>4 DEF RelayNumber
  <2>2. RelayNumber(0) = lastPassed'
    BY <1>1, <1>3 DEF RelayNumber
  <2>3. ASSUME NEW i \in 0 .. RelayCount - 1, i > 0
        PROVE  RelayNumber(i) = Relay!NextSeq(RelayNumber(i - 1))
    BY <1>0, <2>3 DEF RelayNumbers
  <2>4. RelayCount' > 0 => RelayNumber(0)' = Relay!NextSeq(lastPassed')
    <3> SUFFICES ASSUME RelayCount' > 0 PROVE RelayNumber(0)' = Relay!NextSeq(lastPassed')
      OBVIOUS
    <3>1. 1 \in 0 .. RelayCount - 1 /\ 1 > 0 /\ 1 - 1 = 0 /\ 0 + 1 = 1
      BY <1>3, <1>4
    <3>2. RelayNumber(1) = Relay!NextSeq(RelayNumber(0))
      BY <2>3, <3>1
    <3>3. RelayNumber(0)' = RelayNumber(1)
      BY <2>1, <3>1
    <3> QED BY <2>2, <3>2, <3>3
  <2>5. ASSUME NEW i \in 0 .. RelayCount' - 1, i > 0
        PROVE  RelayNumber(i)' = Relay!NextSeq(RelayNumber(i - 1)')
    <3>1. i + 1 \in 0 .. RelayCount - 1 /\ i + 1 > 0 /\ (i + 1) - 1 = i
          /\ i \in Nat /\ i - 1 \in Nat /\ (i - 1) + 1 = i
      BY <1>3, <1>4, <2>5
    <3>2. RelayNumber(i + 1) = Relay!NextSeq(RelayNumber(i))
      BY <2>3, <3>1
    <3> QED BY <2>1, <3>1, <3>2
  <2>6. RelayNewest' = RelayNewest
    <3>1. CASE RelayCount = 1
      <4>1. RelayCount' = 0 /\ RelayCount - 1 = 0
        BY <1>4, <3>1
      <4> QED BY <1>3, <2>2, <4>1 DEF RelayNewest
    <3>2. CASE RelayCount # 1
      <4>1. /\ RelayCount' # 0 /\ RelayCount # 0 /\ RelayCount' - 1 \in Nat
            /\ (RelayCount' - 1) + 1 = RelayCount - 1
        BY <1>3, <1>4, <3>2
      <4>2. RelayNumber(RelayCount - 1)' = RelayNumber(RelayCount - 1)
        BY <2>1, <4>1
      <4> QED BY <4>1, <4>2 DEF RelayNewest
    <3> QED BY <3>1, <3>2
  <2> QED BY <1>0, <1>1, <2>4, <2>5, <2>6 DEF RelayNumbers, Relay!NextSeq, Relay!Slots
<1>10. RelayBound' /\ RelayConsumer'
  BY <1>0, <1>1 DEF RelayBound, RelayConsumer
<1>11. RelayProducer'
  <2>1. RelayCount' < RelayDepth - 1
    BY <1>0, <1>3, <1>4
  <2> QED BY <1>0, <1>1, <2>1 DEF RelayProducer
<1>12. Relay!Q!Next
  <2> DEFINE n == RelayCount - 1
             a == RelayHeld
             b == RelayHeld'
  <2>1. n \in Nat /\ RelayCount = n + 1
    BY <1>3
  <2>2. b = [i \in 1 .. n |-> block[RelaySlot(i - 1)'][1]]
    BY <1>1, <1>4 DEF RelayHeld
  <2>3. \A i \in 1 .. n : RelaySlot(i - 1)' = RelaySlot(i)
    <3>1. \A i \in 1 .. n : i - 1 \in Nat /\ (i - 1) + 1 = i
      BY <2>1
    <3> QED BY <1>4, <3>1
  <2>4. \A s \in Relay!Slots : block[s][1] \in Item \cup {None}
    BY <1>0 DEF RelayTypes, Relay!Words
  <2>5. \A i \in 1 .. n + 1 : RelaySlot(i - 1) \in Relay!Slots /\ RelaySlot(i) \in Relay!Slots
    BY <1>3, <2>1
  <2>6. a \in [1 .. n + 1 -> Item \cup {None}] /\ a[1] = block[relayTail][1]
    <3>1. a = [i \in 1 .. n + 1 |-> block[RelaySlot(i - 1)][1]]
      BY <2>1 DEF RelayHeld
    <3>2. 1 \in 1 .. n + 1 /\ 1 - 1 = 0
      BY <2>1
    <3> HIDE DEF a
    <3> QED BY <1>3, <2>4, <2>5, <3>1, <3>2
  <2>7. b \in [1 .. n -> Item \cup {None}] /\ \A i \in 1 .. n : b[i] = a[i + 1]
    <3>1. \A i \in 1 .. n : i + 1 \in 1 .. n + 1 /\ (i + 1) - 1 = i
      BY <2>1
    <3>2. \A i \in 1 .. n : a[i + 1] = block[RelaySlot(i)][1]
      BY <2>1, <3>1 DEF RelayHeld
    <3>3. \A i \in 1 .. n : RelaySlot(i) \in Relay!Slots
      BY <1>3, <2>1
    <3> HIDE DEF a, n
    <3> QED BY <2>2, <2>3, <2>4, <3>2, <3>3
  <2> HIDE DEF a, b, n
  <2>8. a # <<>> /\ b = Tail(a) /\ Head(a) = a[1]
    BY <2>1, <2>6, <2>7, OneLess
  <2>9. Relay!Items = a /\ Relay!Items' = b
    BY <1>0, <1>6, RelayItems, RelayItemsThen DEF a, b
  <2> QED BY <1>5, <2>6, <2>8, <2>9 DEF Relay!Q!Next, Relay!Q!Take
<1> QED BY <1>6, <1>8, <1>9, <1>10, <1>11, <1>12 DEF RelayInv

\* Every step of the channels keeps the invariant, and is one of the queue.
LEMMA RelayStep ==
    RelayInv /\ [IpcNext]_allVars => RelayInv' /\ [Relay!Q!Next]_Relay!Q!vars
<1> SUFFICES ASSUME RelayInv, [IpcNext]_allVars
    PROVE  RelayInv' /\ [Relay!Q!Next]_Relay!Q!vars
  OBVIOUS
<1>1. CASE Relay!Next
  <2>1. CASE \/ \E c \in Relay!Cpus : Relay!Bind(c)
             \/ Relay!Open \/ Relay!Register \/ Relay!Refuse \/ Relay!BeginPublish
             \/ Relay!BeginDrain \/ Relay!EndDrain \/ Relay!BeginConsume \/ Relay!Read
    BY <2>1, RelayOutside
  <2>2. CASE Relay!Fill \/ Relay!Stamp \/ Relay!Announce
    BY <2>2, RelayStoring
  <2>3. CASE Relay!Advance
    BY <2>3, RelayAdvance
  <2>4. CASE Relay!Drop
    <3>1. registered
      BY <2>4 DEF Relay!Drop, RelayInv, RelayBound
    <3> QED BY <2>4, <3>1, RelaySound DEF Relay!Drop
  <2>5. CASE Relay!Consumed
    BY <2>5, RelayPass
  <2> QED BY <1>1, <2>1, <2>2, <2>3, <2>4, <2>5
          DEF Relay!Next, Relay!Publish, Relay!Drain
<1>2. CASE UNCHANGED relayVars
  <2>1. /\ RelayInv'
    BY <1>2 DEF relayVars, RelayInv, RelayTypes, RelayBound, RelayKept, RelayNumbers, RelayProducer,
        RelayConsumer, RelayCount, RelaySlot, RelayNumber, RelayNewest, Holds, Span, Place,
        Relay!Slots, Relay!Words, Relay!Cpus, Relay!NextSeq
  <2>2. Relay!Q!vars' = Relay!Q!vars
    BY <1>2 DEF relayVars, Relay!Q!vars, Relay!Items
  <2> QED BY <2>1, <2>2
<1> QED BY <1>1, <1>2 DEF IpcNext, allVars

\* The relay: it is well-formed, takes nothing for damage, and is a queue.
LEMMA RelayHolds ==
    IpcSpec =>
        /\ [](Relay!TypeOK /\ Relay!NeverUnderReader /\ Relay!NeverCorrupt /\ Relay!NoFalseGap)
        /\ Relay!IsQueue
<1>1. IpcInit => RelayInv /\ Relay!Q!Init
  BY RelayInit DEF IpcInit
<1>2. RelayInv =>
         Relay!TypeOK /\ Relay!NeverUnderReader /\ Relay!NeverCorrupt /\ Relay!NoFalseGap
  <2> SUFFICES ASSUME RelayInv
      PROVE  Relay!TypeOK /\ Relay!NeverUnderReader /\ Relay!NeverCorrupt /\ Relay!NoFalseGap
    OBVIOUS
  <2>1. RelayTypes /\ RelayNumbers /\ RelayConsumer
    BY DEF RelayInv
  <2>2. Relay!TypeOK
    BY <2>1 DEF RelayTypes, RelayNumbers, Relay!TypeOK
  <2>3. Relay!NeverUnderReader /\ Relay!NeverCorrupt
    BY <2>1, RelaySound DEF RelayConsumer, Relay!NeverUnderReader, Relay!NeverCorrupt
  <2>4. relayHead # relayTail => RelayCount > 0 /\ RelaySlot(0) = relayTail
    <3>1. /\ RelayCount \in 0 .. RelayDepth - 1 /\ (RelayCount = 0 <=> relayHead = relayTail)
          /\ RelaySlot(0) = relayTail
      BY <2>1, RelayRing DEF RelayTypes
    <3> QED BY <3>1, RelayShape
  <2>5. Relay!NoFalseGap
    BY <2>1, <2>4 DEF RelayNumbers, RelayNumber, Relay!NoFalseGap
  <2> QED BY <2>2, <2>3, <2>5
<1> QED BY <1>1, <1>2, RelayStep, PTL DEF IpcSpec, Relay!IsQueue, Relay!Q!Spec

-----------------------------------------------------------------------------
(* The command ring: cursors that count to FifoMod over FifoDepth slots        *)

FifoCount == Span(FifoMod, fifoHead, fifoTail)
FifoSlot(i) == Fifo!SlotOf(Place(FifoMod, fifoTail, i))

FifoTypes ==
    /\ fifoSlots \in [Fifo!Slots -> [Fifo!Words -> Item \cup {None}]]
    /\ fifoHead \in Fifo!Cursors /\ fifoTail \in Fifo!Cursors
    /\ fifoPending \in BOOLEAN /\ fifoScratch \in Item \cup {None}
    /\ copiedIn \in 0 .. WordCount
    /\ fifoRpc \in {"idle", "copying", "holding"}
    /\ scratchR \in Seq(Item \cup {None}) /\ Len(scratchR) <= WordCount
    /\ fifoTaken \in Item \cup {None}

\* A slot between tail and head holds one item, whole.
WholeItem(s) == \E v \in Item : \A w \in Fifo!Words : fifoSlots[s][w] = v
FifoKept == \A i \in 0 .. FifoCount - 1 : WholeItem(FifoSlot(i))

\* There is room for a write that is pending, and for the words it has stored.
FifoWriter ==
    /\ FifoCount <= FifoDepth - 1
    /\ (copiedIn > 0) => fifoPending
    /\ fifoPending => fifoScratch \in Item /\ FifoCount < FifoDepth - 1
    /\ \A w \in 1 .. copiedIn : fifoSlots[Fifo!SlotOf(fifoHead)][w] = fifoScratch

\* The reader's copy is the oldest item, as far as it has come.
FifoReader ==
    /\ (fifoRpc = "idle") => scratchR = <<>>
    /\ (fifoRpc = "copying") => Len(scratchR) < WordCount
    /\ (fifoRpc = "holding") => Len(scratchR) = WordCount
    /\ (fifoRpc # "idle") =>
          /\ fifoHead # fifoTail
          /\ \A i \in 1 .. Len(scratchR) :
                scratchR[i] = fifoSlots[Fifo!SlotOf(fifoTail)][i]

FifoInv == FifoTypes /\ FifoKept /\ FifoWriter /\ FifoReader

\* What the constants of the command ring are assumed to be.
LEMMA FifoShape ==
    /\ FifoDepth \in Nat \ {0} /\ FifoDepth >= 2
    /\ FifoMod \in Nat \ {0} /\ FifoMod >= 2 * FifoDepth /\ FifoMod % FifoDepth = 0
    /\ WordCount \in Nat \ {0} /\ None \notin Item
BY ChannelsAssumption DEF Fifo!FifoAssumption

\* The slot of a place less than a round away: the depth divides the round.
LEMMA SlotOfPlace ==
    ASSUME NEW k \in Nat \ {0}, NEW m \in Nat \ {0}, m % k = 0,
           NEW t \in 0 .. m - 1, NEW i \in 0 .. m - 1
    PROVE  Place(m, t, i) % k = (t + i) % k
<1> DEFINE x == t + i
<1>1. x \in 0 .. 2 * m - 1
  OBVIOUS
<1> HIDE DEF x
<1>2. x % m = IF x < m THEN x ELSE x - m
  BY <1>1, ModSmall
<1>3. CASE x < m
  BY <1>2, <1>3 DEF Place, x
<1>4. CASE ~(x < m)
  <2> DEFINE y == x - m
  <2>1. y \in Nat /\ y + m = x /\ x % m = y
    BY <1>1, <1>2, <1>4
  <2> HIDE DEF y
  <2>2. (y + m) % k = y % k
    BY <2>1, LapSlot
  <2>3. (x % m) % k = x % k
    BY <2>1, <2>2
  <2> QED BY <2>3 DEF Place, x
<1> QED BY <1>3, <1>4

\* What the command ring is made of.
LEMMA FifoRing ==
    ASSUME fifoHead \in Fifo!Cursors, fifoTail \in Fifo!Cursors
    PROVE  /\ FifoCount \in 0 .. FifoMod - 1
           /\ FifoCount = 0 <=> fifoHead = fifoTail
           /\ \A i \in 0 .. FifoMod - 1 : FifoSlot(i) \in Fifo!Slots
           /\ FifoSlot(0) = Fifo!SlotOf(fifoTail)
           /\ FifoSlot(FifoCount) = Fifo!SlotOf(fifoHead)
           /\ \A i, j \in 0 .. FifoDepth - 1 : i # j => FifoSlot(i) # FifoSlot(j)
<1>1. /\ FifoMod \in Nat \ {0} /\ fifoHead \in 0 .. FifoMod - 1
      /\ fifoTail \in 0 .. FifoMod - 1 /\ FifoDepth \in Nat \ {0}
      /\ FifoMod >= 2 * FifoDepth /\ FifoMod % FifoDepth = 0
  BY FifoShape DEF Fifo!Cursors
<1>2. /\ FifoCount = IF fifoHead >= fifoTail THEN fifoHead - fifoTail
                     ELSE fifoHead - fifoTail + FifoMod
      /\ FifoCount \in 0 .. FifoMod - 1
  BY <1>1, SpanIs DEF FifoCount
<1>3. FifoCount = 0 <=> fifoHead = fifoTail
  BY <1>1, <1>2
<1>4. \A i \in 0 .. FifoMod - 1 : FifoSlot(i) = (fifoTail + i) % FifoDepth
  BY <1>1, SlotOfPlace DEF FifoSlot, Fifo!SlotOf
<1>5. \A i \in 0 .. FifoMod - 1 : FifoSlot(i) \in Fifo!Slots
  <2>1. \A i \in 0 .. FifoMod - 1 : fifoTail + i \in Nat
    BY <1>1
  <2>2. \A x \in Nat : x % FifoDepth \in Fifo!Slots
    BY <1>1, DivFacts DEF Fifo!Slots
  <2> QED BY <1>4, <2>1, <2>2
<1>6. FifoSlot(0) = Fifo!SlotOf(fifoTail)
  <2>1. Place(FifoMod, fifoTail, 0) = fifoTail
    BY <1>1, RingPlaces
  <2> QED BY <2>1 DEF FifoSlot
<1>7. FifoSlot(FifoCount) = Fifo!SlotOf(fifoHead)
  <2>1. Place(FifoMod, fifoTail, Span(FifoMod, fifoHead, fifoTail)) = fifoHead
    BY <1>1, RingPlaces
  <2> QED BY <2>1 DEF FifoSlot, FifoCount
<1>8. ASSUME NEW i \in 0 .. FifoDepth - 1, NEW j \in 0 .. FifoDepth - 1, i < j
      PROVE  FifoSlot(i) # FifoSlot(j)
  <2>1. fifoTail + i \in Nat /\ fifoTail + j \in Nat /\ fifoTail + i # fifoTail + j
        /\ fifoTail + i <= fifoTail + j /\ fifoTail + j < fifoTail + i + FifoDepth
        /\ i \in 0 .. FifoMod - 1 /\ j \in 0 .. FifoMod - 1
    BY <1>1, <1>8
  <2>2. (fifoTail + i) % FifoDepth # (fifoTail + j) % FifoDepth
    BY <1>1, <2>1, SameSlot
  <2> QED BY <1>4, <2>1, <2>2
<1>9. ASSUME NEW i \in 0 .. FifoDepth - 1, NEW j \in 0 .. FifoDepth - 1, i # j
      PROVE  FifoSlot(i) # FifoSlot(j)
  <2>1. i < j \/ j < i
    BY <1>1, <1>9
  <2> QED BY <1>8, <2>1
<1> QED BY <1>2, <1>3, <1>5, <1>6, <1>7, <1>9

\* The slot behind the last item is none of theirs.
LEMMA FifoApart ==
    ASSUME FifoInv
    PROVE  /\ FifoCount \in 0 .. FifoDepth - 1 /\ FifoCount \in Nat
           /\ Fifo!SlotOf(fifoHead) \in Fifo!Slots /\ Fifo!SlotOf(fifoTail) \in Fifo!Slots
           /\ \A i \in 0 .. FifoCount - 1 :
                 FifoSlot(i) \in Fifo!Slots /\ FifoSlot(i) # Fifo!SlotOf(fifoHead)
           /\ fifoHead # fifoTail => FifoCount > 0 /\ Fifo!SlotOf(fifoHead) # Fifo!SlotOf(fifoTail)
<1>1. /\ fifoHead \in Fifo!Cursors /\ fifoTail \in Fifo!Cursors /\ FifoCount <= FifoDepth - 1
  BY DEF FifoInv, FifoTypes, FifoWriter
<1>2. /\ FifoCount \in 0 .. FifoMod - 1
      /\ FifoCount = 0 <=> fifoHead = fifoTail
      /\ \A i \in 0 .. FifoMod - 1 : FifoSlot(i) \in Fifo!Slots
      /\ FifoSlot(0) = Fifo!SlotOf(fifoTail)
      /\ FifoSlot(FifoCount) = Fifo!SlotOf(fifoHead)
      /\ \A i, j \in 0 .. FifoDepth - 1 : i # j => FifoSlot(i) # FifoSlot(j)
  BY <1>1, FifoRing
<1>3. FifoMod \in Nat /\ FifoDepth \in Nat /\ FifoDepth >= 2 /\ FifoMod >= 2 * FifoDepth
  BY FifoShape
<1>4. /\ FifoCount \in 0 .. FifoDepth - 1 /\ FifoCount \in Nat
      /\ 0 \in 0 .. FifoMod - 1
      /\ \A i \in 0 .. FifoCount - 1 :
            i \in 0 .. FifoMod - 1 /\ i \in 0 .. FifoDepth - 1 /\ i # FifoCount
  BY <1>1, <1>2, <1>3
<1>5. fifoHead # fifoTail => 0 \in 0 .. FifoCount - 1 /\ FifoCount > 0
  BY <1>2, <1>4
<1>6. \A i \in 0 .. FifoCount - 1 :
         FifoSlot(i) \in Fifo!Slots /\ FifoSlot(i) # Fifo!SlotOf(fifoHead)
  BY <1>2, <1>4
<1>7. Fifo!SlotOf(fifoHead) \in Fifo!Slots /\ Fifo!SlotOf(fifoTail) \in Fifo!Slots
  BY <1>2, <1>4
<1>8. fifoHead # fifoTail => FifoCount > 0 /\ Fifo!SlotOf(fifoHead) # Fifo!SlotOf(fifoTail)
  BY <1>2, <1>5, <1>6
<1> QED BY <1>4, <1>6, <1>7, <1>8

\* What the ring holds, as a sequence.
FifoHeld == [i \in 1 .. FifoCount |-> fifoSlots[FifoSlot(i - 1)][1]]
\* The queue of the command ring is what the ring holds.
LEMMA FifoItems == FifoTypes => Fifo!Items = FifoHeld
<1> SUFFICES ASSUME FifoTypes PROVE Fifo!Items = FifoHeld
  OBVIOUS
<1>1. fifoTail \in Nat /\ FifoMod \in Nat
  BY FifoShape DEF FifoTypes, Fifo!Cursors
<1>2. \A i \in Int : fifoTail + i - 1 = fifoTail + (i - 1)
  BY <1>1
<1>3. FifoCount \in Nat
  BY FifoRing, FifoShape DEF FifoTypes
<1>4. \A i \in 1 .. FifoCount :
         Fifo!SlotOf((fifoTail + i - 1) % FifoMod) = FifoSlot(i - 1)
  BY <1>2, <1>3 DEF FifoSlot, Place
<1> QED BY <1>4 DEF Fifo!Items, FifoHeld, FifoCount, Span, Fifo!Gap

\* The same after a step.
LEMMA FifoItemsThen ==
    FifoTypes' => (Fifo!Items = FifoHeld)'
BY FifoItems, PTL

\* Nothing is in the ring.
LEMMA FifoInit == Fifo!Init => FifoInv /\ Fifo!Q!Init
<1> SUFFICES ASSUME Fifo!Init PROVE FifoInv /\ Fifo!Q!Init
  OBVIOUS
<1>1. FifoTypes
  <2>1. scratchR \in Seq(Item \cup {None}) /\ Len(scratchR) = 0
    BY DEF Fifo!Init
  <2>2. fifoSlots \in [Fifo!Slots -> [Fifo!Words -> Item \cup {None}]]
    BY DEF Fifo!Init
  <2>3. 0 \in Fifo!Cursors
    BY FifoShape DEF Fifo!Cursors
  <2>4. copiedIn \in 0 .. WordCount /\ 0 <= WordCount
    BY FifoShape DEF Fifo!Init
  <2> QED BY <2>1, <2>2, <2>3, <2>4 DEF Fifo!Init, FifoTypes
<1>2. FifoCount = 0
  BY <1>1, FifoRing DEF FifoTypes, Fifo!Init
<1>3. FifoKept /\ FifoWriter /\ FifoReader
  <2>1. FifoKept /\ FifoReader
    BY <1>2 DEF Fifo!Init, FifoKept, FifoReader
  <2>2. FifoWriter
    BY <1>2, FifoShape DEF Fifo!Init, FifoWriter
  <2> QED BY <2>1, <2>2
<1>4. Fifo!Q!Init
  <2>1. Fifo!Items = <<>>
    BY <1>1, <1>2, FifoItems DEF FifoHeld
  <2> QED BY <2>1 DEF Fifo!Init, Fifo!Q!Init
<1> QED BY <1>1, <1>3, <1>4 DEF FifoInv

\* Acquiring and aborting a write touch the writer's context alone.
LEMMA FifoContext ==
    ASSUME FifoInv, Fifo!AcquireWrite \/ Fifo!Abort
    PROVE  FifoInv' /\ Fifo!Q!vars' = Fifo!Q!vars
<1> USE DEF Fifo!reader, Fifo!writer
<1>0. FifoTypes /\ FifoKept /\ FifoWriter /\ FifoReader /\ FifoCount \in Nat
      /\ FifoDepth \in Nat \ {0}
  BY FifoShape, FifoApart DEF FifoInv
<1>1. /\ UNCHANGED <<fifoSlots, fifoHead, fifoTail, copiedIn, fifoRpc, scratchR, fifoTaken>>
      /\ copiedIn = 0
      /\ \/ fifoPending' = TRUE /\ fifoScratch' \in Item /\ FifoCount < FifoDepth - 1
         \/ fifoPending' = FALSE /\ fifoScratch' = None
  <2>1. CASE Fifo!AcquireWrite
    <3>1. ~fifoPending /\ ~(FifoCount >= FifoDepth - 1)
          /\ fifoPending' = TRUE /\ fifoScratch' \in Item
          /\ UNCHANGED <<fifoSlots, fifoHead, copiedIn, fifoTail, fifoRpc, scratchR, fifoTaken>>
      BY <2>1 DEF Fifo!AcquireWrite, Fifo!Full, Fifo!Gap, FifoCount, Span
    <3>2. FifoCount < FifoDepth - 1
      BY <1>0, <3>1
    <3>3. copiedIn = 0
      BY <1>0, <3>1 DEF FifoWriter, FifoTypes
    <3> QED BY <3>1, <3>2, <3>3
  <2>2. CASE Fifo!Abort
    BY <2>2 DEF Fifo!Abort
  <2> QED BY <2>1, <2>2
<1>2. FifoCount' = FifoCount
  BY <1>1 DEF FifoCount, Span
<1>3. FifoTypes'
  BY <1>0, <1>1 DEF FifoTypes, Fifo!Slots, Fifo!Words, Fifo!Cursors
<1>4. FifoKept' /\ FifoReader'
  BY <1>0, <1>1, <1>2 DEF FifoKept, FifoReader, WholeItem, FifoSlot, Place, Fifo!Words, Fifo!SlotOf
<1>5. FifoWriter'
  BY <1>0, <1>1, <1>2 DEF FifoWriter
<1>6. Fifo!Q!vars' = Fifo!Q!vars
  BY <1>1 DEF Fifo!Q!vars, Fifo!Items, Fifo!Gap, Fifo!SlotOf
<1> QED BY <1>3, <1>4, <1>5, <1>6 DEF FifoInv

\* A word is stored behind the last item, so none of them changes.
LEMMA FifoCopyIn ==
    ASSUME FifoInv, Fifo!CopyIn
    PROVE  FifoInv' /\ Fifo!Q!vars' = Fifo!Q!vars
<1> USE DEF Fifo!reader, Fifo!writer
<1> DEFINE place == Fifo!SlotOf(fifoHead)
<1>0. /\ FifoTypes /\ FifoKept /\ FifoWriter /\ FifoReader
      /\ FifoCount \in Nat /\ place \in Fifo!Slots
      /\ \A i \in 0 .. FifoCount - 1 : FifoSlot(i) \in Fifo!Slots /\ FifoSlot(i) # place
      /\ fifoHead # fifoTail => place # Fifo!SlotOf(fifoTail)
      /\ Fifo!SlotOf(fifoTail) \in Fifo!Slots
  BY FifoApart DEF FifoInv
<1>1. /\ fifoPending /\ copiedIn < WordCount /\ copiedIn' = copiedIn + 1
      /\ fifoSlots' = [fifoSlots EXCEPT ![place][copiedIn + 1] = fifoScratch]
      /\ UNCHANGED <<fifoHead, fifoTail, fifoPending, fifoScratch, fifoRpc, scratchR, fifoTaken>>
  BY DEF Fifo!CopyIn
<1>2. /\ copiedIn \in 0 .. WordCount /\ WordCount \in Nat /\ copiedIn < WordCount
      /\ fifoSlots \in [Fifo!Slots -> [Fifo!Words -> Item \cup {None}]]
      /\ fifoScratch \in Item
  BY <1>0, <1>1, FifoShape DEF FifoTypes, FifoWriter
<1>3. copiedIn + 1 \in Fifo!Words /\ copiedIn' \in 0 .. WordCount
  BY <1>1, <1>2 DEF Fifo!Words
<1> HIDE DEF place
<1>4. /\ fifoSlots' \in [Fifo!Slots -> [Fifo!Words -> Item \cup {None}]]
      /\ fifoSlots'[place][copiedIn + 1] = fifoScratch
      /\ \A w \in Fifo!Words : w # copiedIn + 1 => fifoSlots'[place][w] = fifoSlots[place][w]
      /\ \A s \in Fifo!Slots : s # place => fifoSlots'[s] = fifoSlots[s]
  <2>1. fifoSlots[place] \in [Fifo!Words -> Item \cup {None}]
    BY <1>0, <1>2
  <2> QED BY <1>0, <1>1, <1>2, <1>3, <2>1
<1>5. FifoTypes'
  BY <1>0, <1>1, <1>3, <1>4 DEF FifoTypes, Fifo!Slots, Fifo!Words, Fifo!Cursors
<1>6. FifoCount' = FifoCount /\ \A i : FifoSlot(i)' = FifoSlot(i)
  BY <1>1 DEF FifoCount, FifoSlot, Span, Place, Fifo!SlotOf
<1>7. \A i \in 0 .. FifoCount - 1 : fifoSlots'[FifoSlot(i)'] = fifoSlots[FifoSlot(i)]
  BY <1>0, <1>4, <1>6
<1>8. FifoKept'
  BY <1>0, <1>6, <1>7 DEF FifoKept, WholeItem, Fifo!Words
<1>9. FifoWriter'
  <2>1. place' = place
    BY <1>1 DEF place, Fifo!SlotOf
  <2>2. \A w \in 1 .. copiedIn : fifoSlots[place][w] = fifoScratch
    BY <1>0 DEF FifoWriter, place
  <2>3. \A w \in 1 .. copiedIn' :
           w = copiedIn + 1 \/ (w \in 1 .. copiedIn /\ w \in 1 .. WordCount /\ w # copiedIn + 1)
    BY <1>1, <1>2
  <2>4. \A w \in 1 .. copiedIn' : fifoSlots'[place][w] = fifoScratch
    BY <1>4, <2>2, <2>3 DEF Fifo!Words
  <2>5. FifoCount <= FifoDepth - 1 /\ FifoCount < FifoDepth - 1
    BY <1>0, <1>1 DEF FifoWriter
  <2> QED BY <1>1, <1>2, <1>6, <2>1, <2>4, <2>5 DEF FifoWriter, place
<1>10. FifoReader'
  <2>1. /\ fifoHead # fifoTail => fifoSlots'[Fifo!SlotOf(fifoTail)] = fifoSlots[Fifo!SlotOf(fifoTail)]
        /\ Fifo!SlotOf(fifoTail)' = Fifo!SlotOf(fifoTail)
    BY <1>0, <1>1, <1>4 DEF Fifo!SlotOf
  <2> QED BY <1>0, <1>1, <2>1 DEF FifoReader
<1>11. Fifo!Q!vars' = Fifo!Q!vars
  <2>1. /\ Fifo!Items = [i \in 1 .. FifoCount |-> fifoSlots[FifoSlot(i - 1)][1]]
        /\ Fifo!Items' = [i \in 1 .. FifoCount' |-> fifoSlots'[FifoSlot(i - 1)'][1]]
    BY <1>0, <1>5, FifoItems, FifoItemsThen DEF FifoHeld
  <2>2. \A i \in 1 .. FifoCount : i - 1 \in 0 .. FifoCount - 1
    BY <1>0
  <2>3. Fifo!Items' = Fifo!Items
    BY <1>6, <1>7, <2>1, <2>2
  <2> QED BY <1>1, <2>3 DEF Fifo!Q!vars
<1> QED BY <1>5, <1>8, <1>9, <1>10, <1>11 DEF FifoInv

\* The head moves on: the item is in the ring.
LEMMA FifoPublish ==
    ASSUME FifoInv, Fifo!PublishHead
    PROVE  FifoInv' /\ Fifo!Q!Next
<1> USE DEF Fifo!reader, Fifo!writer
<1> DEFINE place == Fifo!SlotOf(fifoHead)
<1>0. /\ FifoTypes /\ FifoKept /\ FifoWriter /\ FifoReader
      /\ FifoCount \in Nat /\ place \in Fifo!Slots
      /\ \A i \in 0 .. FifoCount - 1 : FifoSlot(i) \in Fifo!Slots
      /\ FifoDepth \in Nat \ {0} /\ FifoMod \in Nat \ {0} /\ FifoMod >= 2 * FifoDepth
      /\ WordCount \in Nat \ {0}
  BY FifoApart, FifoShape DEF FifoInv
<1>1. /\ fifoPending /\ copiedIn = WordCount
      /\ fifoHead' = (fifoHead + 1) % FifoMod
      /\ fifoPending' = FALSE /\ fifoScratch' = None /\ copiedIn' = 0
      /\ UNCHANGED <<fifoSlots, fifoTail, fifoRpc, scratchR, fifoTaken>>
  BY DEF Fifo!PublishHead, Fifo!AllCopied, Fifo!Succ
<1>2. /\ fifoHead \in 0 .. FifoMod - 1 /\ fifoTail \in 0 .. FifoMod - 1
      /\ FifoCount < FifoDepth - 1 /\ fifoScratch \in Item
      /\ \A w \in Fifo!Words : fifoSlots[place][w] = fifoScratch
  BY <1>0, <1>1 DEF FifoTypes, FifoWriter, Fifo!Cursors, Fifo!Words
<1>3. /\ (fifoHead + 1) % FifoMod # fifoTail
      /\ Span(FifoMod, (fifoHead + 1) % FifoMod, fifoTail) = FifoCount + 1
      /\ fifoHead' \in 0 .. FifoMod - 1
  <2>1. FifoCount # FifoMod - 1
    BY <1>0, <1>2
  <2>2. (fifoHead + 1) % FifoMod # fifoTail
    BY <1>0, <1>2, <2>1, RingGrows DEF FifoCount
  <2>3. Span(FifoMod, (fifoHead + 1) % FifoMod, fifoTail) = FifoCount + 1
    BY <1>0, <1>2, <2>2, RingGrows DEF FifoCount
  <2>4. (fifoHead + 1) % FifoMod = IF fifoHead + 1 = FifoMod THEN 0 ELSE fifoHead + 1
    BY <1>0, <1>2, NextIs
  <2>5. fifoHead' \in 0 .. FifoMod - 1
    BY <1>0, <1>1, <1>2, <2>4
  <2> QED BY <2>2, <2>3, <2>5
<1>4. FifoCount' = FifoCount + 1 /\ \A i : FifoSlot(i)' = FifoSlot(i)
  BY <1>1, <1>3 DEF FifoCount, FifoSlot, Span, Place, Fifo!SlotOf
<1>5. FifoSlot(FifoCount) = place
  BY <1>0, FifoRing DEF FifoTypes
<1>6. \A i \in 0 .. FifoCount : i \in 0 .. FifoCount - 1 \/ i = FifoCount
  BY <1>0
<1>7. FifoTypes'
  <2>1. copiedIn' \in 0 .. WordCount /\ fifoHead' \in Fifo!Cursors
    BY <1>0, <1>1, <1>3 DEF Fifo!Cursors
  <2> QED BY <1>0, <1>1, <2>1 DEF FifoTypes, Fifo!Slots, Fifo!Words, Fifo!Cursors
<1>8. FifoKept'
  <2>1. \A s : WholeItem(s)' <=> WholeItem(s)
    BY <1>1 DEF WholeItem, Fifo!Words
  <2>2. WholeItem(place)
    BY <1>2 DEF WholeItem
  <2>3. \A i \in 0 .. FifoCount : WholeItem(FifoSlot(i))
    BY <1>0, <1>5, <1>6, <2>2 DEF FifoKept
  <2>4. FifoCount' - 1 = FifoCount
    BY <1>0, <1>4
  <2> QED BY <1>1, <1>4, <2>3, <2>4 DEF FifoKept, WholeItem, Fifo!Words
<1>9. FifoWriter'
  <2>1. FifoCount' <= FifoDepth - 1
    BY <1>0, <1>2, <1>4
  <2> QED BY <1>1, <2>1 DEF FifoWriter
<1>10. FifoReader'
  BY <1>0, <1>1, <1>3 DEF FifoReader, Fifo!SlotOf
<1>11. Fifo!Q!Next
  <2> DEFINE a == FifoHeld
             b == FifoHeld'
  <2>1. b = [i \in 1 .. FifoCount + 1 |-> fifoSlots[FifoSlot(i - 1)][1]]
    BY <1>1, <1>4 DEF FifoHeld
  <2>2. \A s \in Fifo!Slots : fifoSlots[s][1] \in Item \cup {None}
    <3>1. 1 \in Fifo!Words
      BY <1>0 DEF Fifo!Words
    <3> QED BY <1>0, <3>1 DEF FifoTypes
  <2>3. \A i \in 1 .. FifoCount + 1 : FifoSlot(i - 1) \in Fifo!Slots
    <3>1. \A i \in 1 .. FifoCount + 1 : i - 1 \in 0 .. FifoCount
      BY <1>0
    <3> QED BY <1>0, <1>5, <1>6, <3>1
  <2>4. a \in [1 .. FifoCount -> Item \cup {None}]
        /\ b \in [1 .. FifoCount + 1 -> Item \cup {None}]
    <3>1. 1 .. FifoCount \subseteq 1 .. FifoCount + 1
      BY <1>0
    <3>2. a = [i \in 1 .. FifoCount |-> fifoSlots[FifoSlot(i - 1)][1]]
      BY DEF FifoHeld
    <3> HIDE DEF a, b
    <3> QED BY <2>1, <2>2, <2>3, <3>1, <3>2
  <2>5. \A i \in 1 .. FifoCount : b[i] = a[i]
    <3>1. 1 .. FifoCount \subseteq 1 .. FifoCount + 1
      BY <1>0
    <3>2. a = [i \in 1 .. FifoCount |-> fifoSlots[FifoSlot(i - 1)][1]]
      BY DEF FifoHeld
    <3> HIDE DEF a, b
    <3> QED BY <2>1, <3>1, <3>2
  <2>6. b[FifoCount + 1] = fifoScratch
    <3>1. FifoCount + 1 \in 1 .. FifoCount + 1 /\ (FifoCount + 1) - 1 = FifoCount
          /\ 1 \in Fifo!Words
      BY <1>0 DEF Fifo!Words
    <3>2. b[FifoCount + 1] = fifoSlots[FifoSlot(FifoCount)][1]
      BY <2>1, <3>1
    <3> QED BY <1>2, <1>5, <3>1, <3>2
  <2> HIDE DEF a, b
  <2>7. Len(a) = FifoCount /\ b = Append(a, fifoScratch)
    BY <1>0, <2>4, <2>5, <2>6, OneMore
  <2>8. Fifo!Items = a /\ Fifo!Items' = b
    BY <1>0, <1>7, FifoItems, FifoItemsThen DEF a, b
  <2> QED BY <1>1, <1>2, <2>7, <2>8 DEF Fifo!Q!Next, Fifo!Q!Put
<1> QED BY <1>7, <1>8, <1>9, <1>10, <1>11 DEF FifoInv

\* Beginning and taking a copy touch nothing but the copy.
LEMMA FifoCopy ==
    ASSUME FifoInv, Fifo!AcquireRead \/ Fifo!CopyOut
    PROVE  FifoInv' /\ Fifo!Q!vars' = Fifo!Q!vars
<1> USE DEF Fifo!reader, Fifo!writer
<1>0. /\ FifoTypes /\ FifoKept /\ FifoWriter /\ FifoReader
      /\ Fifo!SlotOf(fifoTail) \in Fifo!Slots /\ WordCount \in Nat \ {0}
  BY FifoApart, FifoShape DEF FifoInv
<1>1. UNCHANGED <<fifoSlots, fifoHead, fifoTail, fifoPending, fifoScratch, copiedIn, fifoTaken>>
  BY DEF Fifo!AcquireRead, Fifo!CopyOut
<1>2. /\ scratchR' \in Seq(Item \cup {None}) /\ Len(scratchR') <= WordCount
      /\ fifoRpc' \in {"idle", "copying", "holding"}
      /\ FifoReader'
  <2>1. CASE Fifo!AcquireRead
    <3>1. fifoHead # fifoTail /\ fifoRpc' = "copying" /\ scratchR' = <<>>
      BY <2>1 DEF Fifo!AcquireRead
    <3>2. scratchR' \in Seq(Item \cup {None}) /\ Len(scratchR') = 0
      BY <3>1
    <3> QED BY <1>0, <1>1, <3>1, <3>2 DEF FifoReader
  <2>2. CASE Fifo!CopyOut
    <3> DEFINE n == Len(scratchR)
               x == fifoSlots[Fifo!SlotOf(fifoTail)][n + 1]
    <3>1. /\ fifoRpc = "copying" /\ scratchR' = Append(scratchR, x)
          /\ fifoRpc' = IF Len(scratchR') = WordCount THEN "holding" ELSE "copying"
      BY <2>2 DEF Fifo!CopyOut
    <3>2. /\ scratchR \in Seq(Item \cup {None}) /\ n \in Nat /\ n < WordCount
          /\ fifoHead # fifoTail
          /\ \A i \in 1 .. n : scratchR[i] = fifoSlots[Fifo!SlotOf(fifoTail)][i]
      BY <1>0, <3>1 DEF FifoTypes, FifoReader
    <3>3. n + 1 \in Fifo!Words
      BY <1>0, <3>2 DEF Fifo!Words
    <3>4. x \in Item \cup {None}
      BY <1>0, <3>3 DEF FifoTypes
    <3> HIDE DEF x
    <3>5. /\ scratchR' \in Seq(Item \cup {None}) /\ Len(scratchR') = n + 1
          /\ \A i \in 1 .. n : scratchR'[i] = scratchR[i]
          /\ scratchR'[n + 1] = x
      BY <3>1, <3>2, <3>4, AppendProperties
    <3>6. \A i \in 1 .. n + 1 : scratchR'[i] = fifoSlots[Fifo!SlotOf(fifoTail)][i]
      <4>1. \A i \in 1 .. n + 1 : i \in 1 .. n \/ i = n + 1
        BY <3>2
      <4> QED BY <3>2, <3>5, <4>1 DEF x
    <3>7. Len(scratchR') <= WordCount
          /\ (Len(scratchR') # WordCount => Len(scratchR') < WordCount)
      BY <1>0, <3>2, <3>5
    <3> QED BY <1>1, <3>1, <3>2, <3>5, <3>6, <3>7 DEF FifoReader, Fifo!SlotOf
  <2> QED BY <2>1, <2>2
<1>3. FifoTypes'
  BY <1>0, <1>1, <1>2 DEF FifoTypes, Fifo!Slots, Fifo!Words, Fifo!Cursors
<1>4. FifoKept' /\ FifoWriter'
  BY <1>0, <1>1 DEF FifoKept, FifoWriter, WholeItem, FifoCount, FifoSlot, Span, Place,
                    Fifo!Words, Fifo!SlotOf
<1>5. Fifo!Q!vars' = Fifo!Q!vars
  BY <1>1 DEF Fifo!Q!vars, Fifo!Items, Fifo!Gap, Fifo!SlotOf
<1> QED BY <1>2, <1>3, <1>4, <1>5 DEF FifoInv

\* The reader gives the oldest item back: it leaves the ring.
LEMMA FifoRelease ==
    ASSUME FifoInv, Fifo!Release
    PROVE  FifoInv' /\ Fifo!Q!Next
<1> USE DEF Fifo!reader, Fifo!writer
<1> DEFINE place == Fifo!SlotOf(fifoTail)
<1>0. /\ FifoTypes /\ FifoKept /\ FifoWriter /\ FifoReader
      /\ FifoCount \in Nat
      /\ \A i \in 0 .. FifoCount - 1 : FifoSlot(i) \in Fifo!Slots
      /\ FifoDepth \in Nat \ {0} /\ FifoMod \in Nat \ {0} /\ FifoMod >= 2 * FifoDepth
      /\ WordCount \in Nat \ {0}
  BY FifoApart, FifoShape DEF FifoInv
<1>1. /\ fifoRpc = "holding" /\ fifoRpc' = "idle" /\ scratchR' = <<>>
      /\ fifoTail' = (fifoTail + 1) % FifoMod
      /\ fifoTaken' = IF \A w \in Fifo!Words : scratchR[w] = scratchR[1] THEN scratchR[1] ELSE None
      /\ UNCHANGED <<fifoSlots, fifoHead, fifoPending, fifoScratch, copiedIn>>
  BY DEF Fifo!Release, Fifo!Succ
<1>2. /\ fifoHead \in 0 .. FifoMod - 1 /\ fifoTail \in 0 .. FifoMod - 1
      /\ fifoHead # fifoTail /\ FifoCount > 0 /\ FifoSlot(0) = place
      /\ \A w \in Fifo!Words : scratchR[w] = fifoSlots[place][w]
  <2>1. /\ fifoHead \in Fifo!Cursors /\ fifoTail \in Fifo!Cursors /\ fifoHead # fifoTail
        /\ \A w \in Fifo!Words : scratchR[w] = fifoSlots[place][w]
    BY <1>0, <1>1 DEF FifoTypes, FifoReader, Fifo!Words
  <2>2. FifoSlot(0) = place /\ FifoCount > 0
    BY <2>1, FifoRing, FifoApart
  <2> QED BY <2>1, <2>2 DEF Fifo!Cursors
<1>3. /\ fifoTail' \in 0 .. FifoMod - 1
      /\ Span(FifoMod, fifoHead, (fifoTail + 1) % FifoMod) = FifoCount - 1
      /\ \A i \in Nat : Place(FifoMod, (fifoTail + 1) % FifoMod, i) = Place(FifoMod, fifoTail, i + 1)
  <2>1. Span(FifoMod, fifoHead, (fifoTail + 1) % FifoMod) = FifoCount - 1
    BY <1>0, <1>2, RingShrinks DEF FifoCount
  <2>2. \A i \in Nat : Place(FifoMod, (fifoTail + 1) % FifoMod, i) = Place(FifoMod, fifoTail, i + 1)
    BY <1>0, <1>2, RingShrinks
  <2>3. (fifoTail + 1) % FifoMod = IF fifoTail + 1 = FifoMod THEN 0 ELSE fifoTail + 1
    BY <1>0, <1>2, NextIs
  <2>4. fifoTail' \in 0 .. FifoMod - 1
    BY <1>0, <1>1, <1>2, <2>3
  <2> QED BY <2>1, <2>2, <2>4
<1>4. FifoCount' = FifoCount - 1 /\ \A i \in Nat : FifoSlot(i)' = FifoSlot(i + 1)
  <2>1. Span(FifoMod, fifoHead, fifoTail)' = Span(FifoMod, fifoHead, (fifoTail + 1) % FifoMod)
        /\ \A i : Place(FifoMod, fifoTail, i)' = Place(FifoMod, (fifoTail + 1) % FifoMod, i)
    BY <1>1 DEF Span, Place
  <2> QED BY <1>3, <2>1 DEF FifoCount, FifoSlot, Fifo!SlotOf
\* The copy is the item.
<1>5. fifoTaken' = fifoSlots[place][1] /\ fifoTaken' \in Item
  <2>1. 0 \in 0 .. FifoCount - 1 /\ 1 \in Fifo!Words
    BY <1>0, <1>2 DEF Fifo!Words
  <2>2. PICK v \in Item : \A w \in Fifo!Words : fifoSlots[place][w] = v
    BY <1>0, <1>2, <2>1 DEF FifoKept, WholeItem
  <2>3. \A w \in Fifo!Words : scratchR[w] = v
    BY <1>2, <2>2
  <2> QED BY <1>1, <1>2, <2>1, <2>2, <2>3
<1>6. FifoTypes'
  <2>1. scratchR' \in Seq(Item \cup {None}) /\ Len(scratchR') <= WordCount
        /\ fifoTail' \in Fifo!Cursors
    BY <1>0, <1>1, <1>3 DEF Fifo!Cursors
  <2> QED BY <1>0, <1>1, <1>5, <2>1 DEF FifoTypes, Fifo!Slots, Fifo!Words, Fifo!Cursors
<1>7. FifoKept'
  <2>1. \A i \in 0 .. FifoCount - 1 - 1 : i + 1 \in 0 .. FifoCount - 1 /\ i \in Nat
    BY <1>0
  <2>2. \A i \in 0 .. FifoCount' - 1 :
           i + 1 \in 0 .. FifoCount - 1 /\ FifoSlot(i)' = FifoSlot(i + 1)
    BY <1>4, <2>1
  <2> QED BY <1>0, <1>1, <2>2 DEF FifoKept, WholeItem, Fifo!Words
<1>8. FifoReader'
  BY <1>1 DEF FifoReader
<1>9. FifoWriter'
  <2>1. FifoCount' <= FifoDepth - 1 /\ (fifoPending => FifoCount' < FifoDepth - 1)
    BY <1>0, <1>4 DEF FifoWriter
  <2> QED BY <1>0, <1>1, <2>1 DEF FifoWriter, Fifo!SlotOf
<1>10. Fifo!Q!Next
  <2> DEFINE n == FifoCount - 1
             a == FifoHeld
             b == FifoHeld'
  <2>1. n \in Nat /\ FifoCount = n + 1
    BY <1>0, <1>2
  <2>2. b = [i \in 1 .. n |-> fifoSlots[FifoSlot(i - 1)'][1]]
    BY <1>1, <1>4 DEF FifoHeld
  <2>3. \A i \in 1 .. n : FifoSlot(i - 1)' = FifoSlot(i)
    <3>1. \A i \in 1 .. n : i - 1 \in Nat /\ (i - 1) + 1 = i
      BY <2>1
    <3> QED BY <1>4, <3>1
  <2>4. \A s \in Fifo!Slots : fifoSlots[s][1] \in Item \cup {None}
    <3>1. 1 \in Fifo!Words
      BY <1>0 DEF Fifo!Words
    <3> QED BY <1>0, <3>1 DEF FifoTypes
  <2>5. /\ \A i \in 1 .. n + 1 : FifoSlot(i - 1) \in Fifo!Slots
        /\ \A i \in 1 .. n : FifoSlot(i) \in Fifo!Slots
    <3>1. /\ \A i \in 1 .. n + 1 : i - 1 \in 0 .. FifoCount - 1
          /\ \A i \in 1 .. n : i \in 0 .. FifoCount - 1
      BY <2>1
    <3> QED BY <1>0, <3>1
  <2>6. a \in [1 .. n + 1 -> Item \cup {None}] /\ a[1] = fifoSlots[place][1]
    <3>1. a = [i \in 1 .. n + 1 |-> fifoSlots[FifoSlot(i - 1)][1]]
      BY <2>1 DEF FifoHeld
    <3>2. 1 \in 1 .. n + 1 /\ 1 - 1 = 0
      BY <2>1
    <3> HIDE DEF a
    <3> QED BY <1>2, <2>4, <2>5, <3>1, <3>2
  <2>7. b \in [1 .. n -> Item \cup {None}] /\ \A i \in 1 .. n : b[i] = a[i + 1]
    <3>1. \A i \in 1 .. n : i + 1 \in 1 .. n + 1 /\ (i + 1) - 1 = i
      BY <2>1
    <3>2. \A i \in 1 .. n : a[i + 1] = fifoSlots[FifoSlot(i)][1]
      BY <2>1, <3>1 DEF FifoHeld
    <3> HIDE DEF a, n
    <3> QED BY <2>2, <2>3, <2>4, <2>5, <3>2
  <2> HIDE DEF a, b, n
  <2>8. a # <<>> /\ b = Tail(a) /\ Head(a) = a[1]
    BY <2>1, <2>6, <2>7, OneLess
  <2>9. Fifo!Items = a /\ Fifo!Items' = b
    BY <1>0, <1>6, FifoItems, FifoItemsThen DEF a, b
  <2> QED BY <1>5, <2>6, <2>8, <2>9 DEF Fifo!Q!Next, Fifo!Q!Take
<1> QED BY <1>6, <1>7, <1>8, <1>9, <1>10 DEF FifoInv

\* Every step of the channels keeps the invariant, and is one of the queue.
LEMMA FifoStep ==
    FifoInv /\ [IpcNext]_allVars => FifoInv' /\ [Fifo!Q!Next]_Fifo!Q!vars
<1> SUFFICES ASSUME FifoInv, [IpcNext]_allVars
    PROVE  FifoInv' /\ [Fifo!Q!Next]_Fifo!Q!vars
  OBVIOUS
<1>1. CASE Fifo!Next
  BY <1>1, FifoContext, FifoCopyIn, FifoPublish, FifoCopy, FifoRelease DEF Fifo!Next
<1>2. CASE UNCHANGED fifoVars
  <2>1. FifoInv'
    BY <1>2 DEF fifoVars, FifoInv, FifoTypes, FifoKept, FifoWriter, FifoReader, FifoCount,
        FifoSlot, WholeItem, Span, Place, Fifo!Slots, Fifo!Words, Fifo!Cursors, Fifo!SlotOf
  <2>2. Fifo!Q!vars' = Fifo!Q!vars
    BY <1>2 DEF fifoVars, Fifo!Q!vars, Fifo!Items, Fifo!Gap, Fifo!SlotOf
  <2> QED BY <2>1, <2>2
<1> QED BY <1>1, <1>2 DEF IpcNext, allVars

\* The command ring: it is well-formed, no slot is written while it is read, and it is
\* a queue.
LEMMA FifoHolds ==
    IpcSpec => [](Fifo!TypeOK /\ Fifo!NeverSameSlot) /\ Fifo!IsQueue
<1>1. IpcInit => FifoInv /\ Fifo!Q!Init
  BY FifoInit DEF IpcInit
<1>2. FifoInv => Fifo!TypeOK /\ Fifo!NeverSameSlot
  <2> SUFFICES ASSUME FifoInv PROVE Fifo!TypeOK /\ Fifo!NeverSameSlot
    OBVIOUS
  <2>1. FifoTypes /\ FifoWriter /\ FifoReader
    BY DEF FifoInv
  <2>2. FifoCount \in 0 .. FifoDepth - 1 /\ FifoDepth \in Nat
        /\ (fifoHead # fifoTail => Fifo!SlotOf(fifoHead) # Fifo!SlotOf(fifoTail))
    BY FifoApart, FifoShape
  <2>3. Fifo!Gap(fifoHead, fifoTail) < FifoDepth
    <3>1. FifoCount < FifoDepth
      BY <2>2
    <3> QED BY <3>1 DEF FifoCount, Span, Fifo!Gap
  <2> QED BY <2>1, <2>2, <2>3 DEF FifoTypes, FifoWriter, FifoReader, Fifo!TypeOK, Fifo!NeverSameSlot
<1> QED BY <1>1, <1>2, FifoStep, PTL DEF IpcSpec, Fifo!IsQueue, Fifo!Q!Spec

-----------------------------------------------------------------------------
(* The rings of events                                                         *)

EventCount(s) == Span(Depth, head[s], tail[s])
EventSlot(s, i) == Place(Depth, tail[s], i)
EventAt(s, i) == slots[s][EventSlot(s, i)]

\* 1 while the tail still covers the event just put in the target's queue.
Behind(s) == IF drain.pc = "advance" /\ drain.src = s THEN 1 ELSE 0

\* A ring holds events that are numbered one after the other, from the last number the
\* target has seen.
EventLine(s) ==
    /\ \A i \in 0 .. EventCount(s) - 1 :
          /\ EventAt(s, i).kind \in Kinds
          /\ (i > 0) => EventAt(s, i).seq = SuccSeq(EventAt(s, i - 1).seq)
    /\ (EventCount(s) > 0) =>
          EventAt(s, 0).seq = IF Behind(s) = 1 THEN lastSeq[s] ELSE SuccSeq(lastSeq[s])

\* The source goes on from the newest of them, and has room for what it publishes.
EventNewest(s) ==
    IF EventCount(s) = 0 THEN lastSeq[s] ELSE EventAt(s, EventCount(s) - 1).seq
EventSource(s) ==
    /\ nextSeq[s] = IF step[s].pc = "idle" THEN EventNewest(s) ELSE SuccSeq(EventNewest(s))
    /\ (step[s].pc # "idle") => EventCount(s) < Depth - 1 /\ step[s].kind \in Kinds
    /\ (step[s].pc = "publishing") =>
          slots[s][head[s]] = [seq |-> nextSeq[s], kind |-> step[s].kind]

\* What the drain has copied is the oldest event of its source.
EventDrain ==
    (drain.pc \in {"copied", "advance"}) =>
        /\ drain.src \in Sources /\ drain.per < PerSource
        /\ head[drain.src] # tail[drain.src]
        /\ (drain.pc = "copied") => drain.slot = slots[drain.src][tail[drain.src]]

EventsInv == TypeOK /\ (\A s \in Sources : EventLine(s) /\ EventSource(s)) /\ EventDrain

\* What the constants of the rings of events are assumed to be.
LEMMA EventShape ==
    /\ Depth \in Nat \ {0} /\ Depth >= 2 /\ SeqMod \in Nat \ {0} /\ SeqMod >= 5
    /\ NSources \in Nat /\ NSources >= 1 /\ PerSource \in Nat /\ Room \in Nat
    /\ DrainBudget \in Nat /\ ProcessBudget \in Nat
    /\ Known \subseteq Kinds /\ None \notin Kinds
BY IpcAssumption

\* What the ring of a source is made of.
LEMMA EventRing ==
    ASSUME TypeOK, NEW s \in Sources
    PROVE  /\ EventCount(s) \in 0 .. Depth - 1 /\ EventCount(s) \in Nat
           /\ EventCount(s) = 0 <=> head[s] = tail[s]
           /\ \A i \in Nat : EventSlot(s, i) \in 0 .. Depth - 1
           /\ EventSlot(s, 0) = tail[s] /\ EventSlot(s, EventCount(s)) = head[s]
           /\ \A i \in 0 .. EventCount(s) - 1 : EventSlot(s, i) # head[s]
           /\ \A i \in 1 .. EventCount(s) - 1 : EventSlot(s, i) # tail[s]
           /\ Succ(head[s]) \in 0 .. Depth - 1 /\ Succ(tail[s]) \in 0 .. Depth - 1
           /\ Succ(head[s]) = tail[s] <=> EventCount(s) = Depth - 1
<1> DEFINE h == head[s]
           t == tail[s]
<1>1. Depth \in Nat \ {0} /\ h \in 0 .. Depth - 1 /\ t \in 0 .. Depth - 1
  BY EventShape DEF TypeOK
<1> HIDE DEF h, t
<1>2. /\ Span(Depth, h, t) = (IF h >= t THEN h - t ELSE h - t + Depth)
      /\ Span(Depth, h, t) \in 0 .. Depth - 1
  BY <1>1, SpanIs
<1>3. /\ \A i \in Nat : Place(Depth, t, i) \in 0 .. Depth - 1
      /\ Place(Depth, t, 0) = t
      /\ Place(Depth, t, Span(Depth, h, t)) = h
      /\ \A i, j \in 0 .. Depth - 1 : i # j => Place(Depth, t, i) # Place(Depth, t, j)
  <2>1. \A i \in Nat : Place(Depth, t, i) \in 0 .. Depth - 1
    BY <1>1, RingPlaces
  <2>2. Place(Depth, t, 0) = t
    BY <1>1, RingPlaces
  <2>3. Place(Depth, t, Span(Depth, h, t)) = h
    BY <1>1, RingPlaces
  <2>4. \A i, j \in 0 .. Depth - 1 : i # j => Place(Depth, t, i) # Place(Depth, t, j)
    BY <1>1, RingPlaces
  <2> QED BY <2>1, <2>2, <2>3, <2>4
<1> DEFINE n == Span(Depth, h, t)
<1>4. n \in 0 .. Depth - 1 /\ n \in Nat /\ (n = 0 <=> h = t)
  BY <1>1, <1>2
<1> HIDE DEF n
<1>5. /\ \A i \in 0 .. n - 1 : i \in 0 .. Depth - 1 /\ i # n
      /\ \A i \in 1 .. n - 1 : i \in 0 .. Depth - 1 /\ i # 0
      /\ 0 \in 0 .. Depth - 1
  BY <1>1, <1>4
<1>6. /\ \A i \in 0 .. n - 1 : Place(Depth, t, i) # h
      /\ \A i \in 1 .. n - 1 : Place(Depth, t, i) # t
  <2>1. \A i \in 0 .. n - 1 : Place(Depth, t, i) # Place(Depth, t, n)
    BY <1>3, <1>4, <1>5
  <2>2. \A i \in 1 .. n - 1 : Place(Depth, t, i) # Place(Depth, t, 0)
    BY <1>3, <1>5
  <2> QED BY <1>3, <2>1, <2>2 DEF n
<1>7. \A c \in 0 .. Depth - 1 : Succ(c) \in 0 .. Depth - 1
  <2> SUFFICES ASSUME NEW c \in 0 .. Depth - 1 PROVE Succ(c) \in 0 .. Depth - 1
    OBVIOUS
  <2>1. Succ(c) = IF c + 1 = Depth THEN 0 ELSE c + 1
    BY <1>1, NextIs DEF Succ
  <2> QED BY <1>1, <2>1
<1>8. Succ(h) = t <=> n = Depth - 1
  BY <1>1, RingGrows DEF Succ, n
<1> QED BY <1>1, <1>3, <1>4, <1>6, <1>7, <1>8, Zenon DEF EventCount, EventSlot, h, t, n

\* The number after one is another one, never 0, and taken for a newer one.
LEMMA EventNext ==
    ASSUME NEW n \in Seqs
    PROVE  /\ SuccSeq(n) \in Seqs /\ SuccSeq(n) # 0
           /\ ~NotNewer(SuccSeq(n), n)
<1>1. SeqMod \in Nat \ {0} /\ SeqMod >= 5 /\ n \in 0 .. SeqMod - 1
  BY EventShape DEF Seqs
<1>2. (n + 1) % SeqMod = IF n + 1 = SeqMod THEN 0 ELSE n + 1
  BY <1>1, NextIs
<1>3. SuccSeq(n) = IF n + 1 = SeqMod THEN 1 ELSE n + 1
  BY <1>1, <1>2 DEF SuccSeq
<1> DEFINE d == SuccSeq(n) - n
           r == d % SeqMod
           q == SeqMod \div 2
<1>4. d \in Int /\ -SeqMod <= d /\ d < SeqMod /\ (d = 1 \/ (n + 1 = SeqMod /\ d = 1 - n))
  BY <1>1, <1>3
<1> HIDE DEF d
<1>5. r = IF d < 0 THEN d + SeqMod ELSE d
  BY <1>1, <1>4, ModNegative
<1>6. r \in 1 .. 2
  BY <1>1, <1>4, <1>5
<1>7. SeqMod = 2 * q + (SeqMod % 2) /\ q \in Nat /\ SeqMod % 2 \in 0 .. 1
  BY <1>1, DivFacts
<1>8. q >= 2
  BY <1>1, <1>7
<1> HIDE DEF r, q
<1>9. ~(r = 0 \/ r > q)
  BY <1>6, <1>7, <1>8
<1>10. ~NotNewer(SuccSeq(n), n)
  BY <1>9 DEF NotNewer, d, r, q
<1> QED BY <1>1, <1>3, <1>10 DEF Seqs

\* The pending events of a source, by the places of its ring.
EventHeld(s) ==
    [i \in 1 .. EventCount(s) - Behind(s) |-> EventAt(s, i - 1 + Behind(s)).kind]
\* The queue of a source is what its ring holds and the target has not taken.
LEMMA EventItems ==
    ASSUME TypeOK, EventDrain, NEW s \in Sources
    PROVE  Pending(s) = EventHeld(s)
<1>1. Depth \in Nat \ {0} /\ head[s] \in 0 .. Depth - 1 /\ tail[s] \in 0 .. Depth - 1
  BY EventShape DEF TypeOK
<1>2. EventCount(s) \in Nat
  BY EventRing
<1>3. CASE Behind(s) = 0
  <2>1. Settled(s) = tail[s]
    BY <1>3 DEF Settled, Behind
  <2>2. (head[s] - tail[s]) % Depth = EventCount(s)
    BY <1>1, SpanIsLess DEF EventCount
  <2>3. Pending(s) = [i \in 1 .. EventCount(s) |-> slots[s][(tail[s] + i - 1) % Depth].kind]
    BY <2>1, <2>2 DEF Pending
  <2>4. \A i \in 1 .. EventCount(s) : tail[s] + i - 1 = tail[s] + (i - 1 + 0)
    BY <1>1, <1>2
  <2>5. \A i \in 1 .. EventCount(s) :
           slots[s][(tail[s] + i - 1) % Depth] = EventAt(s, i - 1 + 0)
    BY <2>4 DEF EventAt, EventSlot, Place
  <2>6. EventCount(s) - 0 = EventCount(s)
    BY <1>2
  <2> QED BY <1>3, <2>3, <2>5, <2>6 DEF EventHeld
<1>4. CASE Behind(s) = 1
  <2>1. Settled(s) = (tail[s] + 1) % Depth /\ head[s] # tail[s]
    BY <1>4 DEF Settled, Behind, Succ, EventDrain
  <2>2. (tail[s] + 1) % Depth \in 0 .. Depth - 1
    BY EventRing DEF Succ
  <2>3. Span(Depth, head[s], (tail[s] + 1) % Depth) = EventCount(s) - 1
    BY <1>1, <2>1, RingShrinks DEF EventCount
  <2>4. \A i \in Nat : Place(Depth, (tail[s] + 1) % Depth, i) = Place(Depth, tail[s], i + 1)
    BY <1>1, RingShrinks
  <2> DEFINE u == (tail[s] + 1) % Depth
  <2>5. (head[s] - u) % Depth = EventCount(s) - 1
    BY <1>1, <2>2, <2>3, SpanIsLess
  <2>6. Pending(s) = [i \in 1 .. EventCount(s) - 1 |-> slots[s][(u + i - 1) % Depth].kind]
    BY <2>1, <2>5 DEF Pending
  <2>7. u \in 0 .. Depth - 1 /\ \A i \in Nat : (u + i) % Depth = EventSlot(s, i + 1)
    BY <2>2, <2>4 DEF Place, EventSlot
  <2> HIDE DEF u
  <2>8. \A i \in 1 .. EventCount(s) - 1 :
           u + i - 1 = u + (i - 1) /\ i - 1 \in Nat
    BY <1>1, <1>2, <2>7
  <2>9. \A i \in 1 .. EventCount(s) - 1 :
           slots[s][(u + i - 1) % Depth] = EventAt(s, i - 1 + 1)
    BY <2>7, <2>8 DEF EventAt
  <2> QED BY <1>4, <2>6, <2>9 DEF EventHeld
<1> QED BY <1>3, <1>4 DEF Behind

\* The same after a step.
LEMMA EventItemsThen ==
    TypeOK' /\ EventDrain' => \A s \in Sources : (Pending(s) = EventHeld(s))'
<1>1. TypeOK /\ EventDrain => \A s \in Sources : Pending(s) = EventHeld(s)
  BY EventItems
<1>2. Sources' = Sources
  BY DEF Sources
<1>3. (TypeOK /\ EventDrain => \A s \in Sources : Pending(s) = EventHeld(s))'
  BY <1>1, PTL
<1> QED BY <1>2, <1>3

\* The sequence check finds the event it has copied to be the next one.
LEMMA EventSound ==
    ASSUME EventsInv, drain.pc = "copied"
    PROVE  /\ drain.src \in Sources /\ ~Suspect /\ drain.slot.kind \in Kinds
           /\ drain.slot = EventAt(drain.src, 0) /\ EventCount(drain.src) > 0
           /\ drain.slot.seq = SuccSeq(lastSeq[drain.src])
<1> DEFINE s == drain.src
<1>1. /\ s \in Sources /\ head[s] # tail[s] /\ drain.slot = slots[s][tail[s]]
      /\ TypeOK /\ EventLine(s)
  BY DEF EventsInv, EventDrain
<1> HIDE DEF s
<1>2. EventCount(s) \in Nat /\ EventCount(s) # 0 /\ EventSlot(s, 0) = tail[s]
  BY <1>1, EventRing
<1>3. EventCount(s) > 0 /\ 0 \in 0 .. EventCount(s) - 1
  BY <1>2
<1>4. drain.slot = EventAt(s, 0) /\ Behind(s) = 0
  BY <1>1, <1>2 DEF EventAt, Behind
<1>5. drain.slot.kind \in Kinds /\ drain.slot.seq = SuccSeq(lastSeq[s])
  BY <1>1, <1>3, <1>4 DEF EventLine
<1>6. lastSeq[s] \in Seqs
  BY <1>1 DEF TypeOK
<1>7. ~Suspect
  BY <1>5, <1>6, EventNext DEF Suspect, s
<1> QED BY <1>1, <1>3, <1>4, <1>5, <1>7 DEF s

\* No event is in a ring.
LEMMA EventInit == Init => EventsInv /\ FirstRing!Init /\ LastRing!Init
<1> SUFFICES ASSUME Init PROVE EventsInv /\ FirstRing!Init /\ LastRing!Init
  OBVIOUS
<1>0. /\ Depth \in Nat \ {0} /\ NSources \in Nat /\ NSources >= 1 /\ SeqMod \in Nat \ {0}
      /\ PerSource \in Nat /\ Room \in Nat
  BY EventShape
<1>1. TypeOK
  <2>1. 0 \in Seqs /\ Garbage \in Slot
    BY <1>0 DEF Seqs, Garbage, Slot
  <2>2. drain \in [pc : {"rest", "look", "copied", "advance", "process"}, src : 1 .. NSources + 1,
                   per : 0 .. PerSource, done : Nat, slot : Slot]
    BY <1>0, <2>1 DEF Init, AtRest
  <2>3. slots \in [Sources -> [0 .. Depth - 1 -> Slot]]
    BY <2>1 DEF Init
  <2>4. /\ head \in [Sources -> 0 .. Depth - 1] /\ tail \in [Sources -> 0 .. Depth - 1]
        /\ used \in [Prios -> 0 .. Room]
    BY <1>0 DEF Init
  <2>5. /\ nextSeq \in [Sources -> Seqs] /\ lastSeq \in [Sources -> Seqs]
        /\ delivered \in [Sources -> Kinds \cup {None}]
    BY <2>1 DEF Init
  <2>6. step \in [Sources -> [pc : {"idle", "filling", "publishing"}, kind : Kinds \cup {None}]]
    BY DEF Init
  <2> QED BY <2>2, <2>3, <2>4, <2>5, <2>6 DEF TypeOK
<1>2. EventDrain /\ \A s \in Sources : Behind(s) = 0
  BY DEF Init, AtRest, EventDrain, Behind
<1>3. \A s \in Sources : EventCount(s) = 0
  BY <1>1, EventRing DEF Init
<1>4. \A s \in Sources : EventLine(s) /\ EventSource(s)
  BY <1>3 DEF Init, EventLine, EventSource, EventNewest
<1>5. \A s \in Sources : Pending(s) = <<>> /\ delivered[s] = None
  <2> SUFFICES ASSUME NEW s \in Sources PROVE Pending(s) = <<>> /\ delivered[s] = None
    OBVIOUS
  <2>1. EventCount(s) - Behind(s) = 0
    BY <1>2, <1>3
  <2>2. EventHeld(s) = <<>>
    BY <2>1 DEF EventHeld
  <2> QED BY <1>1, <1>2, <2>2, EventItems DEF Init
<1>6. 1 \in Sources /\ NSources \in Sources
  BY <1>0 DEF Sources
<1> QED BY <1>1, <1>2, <1>4, <1>5, <1>6 DEF EventsInv, FirstRing!Init, LastRing!Init

\* What the drain has copied stays the oldest event, and every part keeps its type.
LEMMA EventClaim ==
    ASSUME EventsInv, NEW s \in Sources, NEW k \in Kinds, Claim(s, k)
    PROVE  TypeOK' /\ EventDrain' /\ EventCount(s) < Depth - 1
<1>0. TypeOK /\ EventSource(s) /\ EventDrain
  BY DEF EventsInv
<1>1. /\ step[s].pc = "idle" /\ Succ(head[s]) # tail[s]
      /\ nextSeq' = [nextSeq EXCEPT ![s] = SuccSeq(@)]
      /\ slots' = [slots EXCEPT ![s][head[s]] = Garbage]
      /\ step' = [step EXCEPT ![s] = [pc |-> "filling", kind |-> k]]
      /\ UNCHANGED <<head, tail, lastSeq, drain, used, delivered>>
  BY DEF Claim, Full
<1>2. SuccSeq(nextSeq[s]) \in Seqs /\ Garbage \in Slot /\ head[s] \in 0 .. Depth - 1
  <2>1. nextSeq[s] \in Seqs /\ head[s] \in 0 .. Depth - 1
    BY <1>0 DEF TypeOK
  <2>2. 0 \in Seqs
    BY EventShape DEF Seqs
  <2> QED BY <2>1, <2>2, EventNext DEF Garbage, Slot
<1>3. TypeOK'
  <2>1. slots' \in [Sources -> [0 .. Depth - 1 -> Slot]]
    BY <1>0, <1>1, <1>2 DEF TypeOK
  <2>2. /\ nextSeq' \in [Sources -> Seqs]
        /\ step' \in [Sources -> [pc : {"idle", "filling", "publishing"}, kind : Kinds \cup {None}]]
    BY <1>0, <1>1, <1>2 DEF TypeOK
  <2> QED BY <1>0, <1>1, <2>1, <2>2 DEF TypeOK, Sources, Seqs, Slot, Prios
<1>4. EventDrain'
  <2>1. head[drain.src] # tail[drain.src] /\ drain.src \in Sources =>
           slots'[drain.src][tail[drain.src]] = slots[drain.src][tail[drain.src]]
    BY <1>0, <1>1, <1>2 DEF TypeOK
  <2> QED BY <1>0, <1>1, <2>1 DEF EventDrain, Sources
<1>5. EventCount(s) < Depth - 1
  <2>1. EventCount(s) \in 0 .. Depth - 1 /\ EventCount(s) # Depth - 1
    BY <1>0, <1>1, EventRing
  <2> QED BY <2>1, EventShape
<1> QED BY <1>3, <1>4, <1>5

\* The source fills in the event it has claimed a place for.
LEMMA EventFill ==
    ASSUME EventsInv, NEW s \in Sources, Fill(s)
    PROVE  TypeOK' /\ EventDrain'
<1>0. TypeOK /\ EventSource(s) /\ EventDrain
  BY DEF EventsInv
<1> DEFINE e == [seq |-> nextSeq[s], kind |-> step[s].kind]
<1>1. /\ step[s].pc = "filling"
      /\ slots' = [slots EXCEPT ![s][head[s]] = e]
      /\ step' = [step EXCEPT ![s].pc = "publishing"]
      /\ UNCHANGED <<head, tail, nextSeq, lastSeq, drain, used, delivered>>
  BY DEF Fill
<1>2. e \in Slot /\ head[s] \in 0 .. Depth - 1
  BY <1>0 DEF TypeOK, Slot
<1> HIDE DEF e
<1>3. TypeOK'
  <2>1. slots' \in [Sources -> [0 .. Depth - 1 -> Slot]]
    BY <1>0, <1>1, <1>2 DEF TypeOK
  <2>2. step' \in [Sources -> [pc : {"idle", "filling", "publishing"}, kind : Kinds \cup {None}]]
    BY <1>0, <1>1 DEF TypeOK
  <2> QED BY <1>0, <1>1, <2>1, <2>2 DEF TypeOK, Sources, Seqs, Slot, Prios
<1>4. EventDrain'
  <2>1. head[drain.src] # tail[drain.src] /\ drain.src \in Sources =>
           slots'[drain.src][tail[drain.src]] = slots[drain.src][tail[drain.src]]
    BY <1>0, <1>1, <1>2 DEF TypeOK
  <2> QED BY <1>0, <1>1, <2>1 DEF EventDrain, Sources
<1> QED BY <1>3, <1>4

\* The source moves its head behind the event.
LEMMA EventPublish ==
    ASSUME EventsInv, NEW s \in Sources, Publish(s)
    PROVE  TypeOK' /\ EventDrain'
<1>0. TypeOK /\ EventSource(s) /\ EventDrain
  BY DEF EventsInv
<1>1. /\ step[s].pc = "publishing"
      /\ head' = [head EXCEPT ![s] = Succ(@)]
      /\ step' = [step EXCEPT ![s] = [pc |-> "idle", kind |-> None]]
      /\ UNCHANGED <<slots, tail, nextSeq, lastSeq, drain, used, delivered>>
  BY DEF Publish
<1>2. Succ(head[s]) \in 0 .. Depth - 1 /\ Succ(head[s]) # tail[s]
  <2>1. EventCount(s) # Depth - 1
    BY <1>0, <1>1, EventShape, EventRing DEF EventSource
  <2> QED BY <1>0, <2>1, EventRing
<1>3. TypeOK'
  <2>1. head' \in [Sources -> 0 .. Depth - 1]
    BY <1>0, <1>1, <1>2 DEF TypeOK
  <2>2. step' \in [Sources -> [pc : {"idle", "filling", "publishing"}, kind : Kinds \cup {None}]]
    BY <1>0, <1>1 DEF TypeOK
  <2> QED BY <1>0, <1>1, <2>1, <2>2 DEF TypeOK, Sources, Seqs, Slot, Prios
<1>4. EventDrain'
  <2>1. drain.src \in Sources /\ head[drain.src] # tail[drain.src] =>
           head'[drain.src] # tail[drain.src]
    BY <1>0, <1>1, <1>2 DEF TypeOK
  <2> QED BY <1>0, <1>1, <2>1 DEF EventDrain, Sources
<1> QED BY <1>3, <1>4

\* The steps of the target.
LEMMA EventTarget ==
    ASSUME EventsInv, Target
    PROVE  TypeOK' /\ EventDrain'
<1>0. TypeOK /\ EventDrain /\ PerSource \in Nat /\ NSources \in Nat
      /\ drain \in [pc : {"rest", "look", "copied", "advance", "process"}, src : 1 .. NSources + 1,
                    per : 0 .. PerSource, done : Nat, slot : Slot]
      /\ Garbage \in Slot
  <2>1. 0 \in Seqs
    BY EventShape DEF Seqs
  <2> QED BY <2>1, EventShape DEF EventsInv, TypeOK, Garbage, Slot
<1> DEFINE Drains ==
      [pc : {"rest", "look", "copied", "advance", "process"}, src : 1 .. NSources + 1,
       per : 0 .. PerSource, done : Nat, slot : Slot]
<1>a. AtRest \in Drains
  BY <1>0 DEF AtRest
<1> SUFFICES /\ drain' \in Drains
             /\ used' \in [Prios -> 0 .. Room] /\ lastSeq' \in [Sources -> Seqs]
             /\ delivered' \in [Sources -> Kinds \cup {None}]
             /\ slots' \in [Sources -> [0 .. Depth - 1 -> Slot]]
             /\ tail' \in [Sources -> 0 .. Depth - 1]
             /\ UNCHANGED <<head, nextSeq, step>>
             /\ EventDrain'
  BY <1>0 DEF TypeOK, Sources, Seqs, Slot, Prios, Target, Iterate, Look, Inspect, Advance,
              Refuse, Process, ring
<1> HIDE DEF Drains
<1>1. CASE Iterate
  <2>1. drain' = [AtRest EXCEPT !.pc = "look"] /\ UNCHANGED <<ring, lastSeq, used, delivered>>
    BY <1>1 DEF Iterate
  <2>2. drain' \in Drains /\ drain'.pc = "look"
    BY <1>a, <2>1 DEF Drains, AtRest
  <2> QED BY <1>0, <2>1, <2>2 DEF TypeOK, ring, EventDrain
<1>2. CASE Look
  <2> DEFINE s == drain.src
  <2>1. UNCHANGED <<ring, lastSeq, used, delivered>>
    BY <1>2 DEF Look
  <2>2. \/ drain' = [drain EXCEPT !.pc = "process", !.done = 0]
        \/ s \in Sources /\ drain' = [drain EXCEPT !.src = s + 1, !.per = 0]
        \/ /\ s \in Sources /\ drain.per < PerSource /\ head[s] # tail[s]
           /\ drain.pc = "look"
           /\ drain' = [drain EXCEPT !.pc = "copied", !.slot = slots[s][tail[s]]]
    BY <1>2 DEF Look, WithinShare, Empty
  <2>3. drain.pc = "look"
    BY <1>2 DEF Look
  <2>4. CASE drain' = [drain EXCEPT !.pc = "process", !.done = 0]
    <3>1. drain' \in Drains /\ drain'.pc = "process"
      BY <1>0, <2>4 DEF Drains
    <3> QED BY <1>0, <2>1, <3>1 DEF TypeOK, ring, EventDrain
  <2>5. CASE s \in Sources /\ drain' = [drain EXCEPT !.src = s + 1, !.per = 0]
    <3>1. s + 1 \in 1 .. NSources + 1 /\ 0 \in 0 .. PerSource
      BY <1>0, <2>5 DEF Sources
    <3> HIDE DEF s
    <3>2. drain' \in Drains /\ drain'.pc = "look"
      <4>1. drain' = [drain EXCEPT !.src = s + 1, !.per = 0]
        BY <2>5
      <4> QED BY <1>0, <2>3, <3>1, <4>1 DEF Drains
    <3> QED BY <1>0, <2>1, <3>2 DEF TypeOK, ring, EventDrain
  <2>6. CASE /\ s \in Sources /\ drain.per < PerSource /\ head[s] # tail[s]
             /\ drain' = [drain EXCEPT !.pc = "copied", !.slot = slots[s][tail[s]]]
    <3>1. slots[s][tail[s]] \in Slot
      BY <1>0, <2>6 DEF TypeOK
    <3>2. drain' \in Drains
      BY <1>0, <2>6, <3>1 DEF Drains
    <3>3. drain'.src = s /\ drain'.per = drain.per /\ drain'.slot = slots[s][tail[s]]
      BY <1>0, <2>6
    <3>4. EventDrain'
      BY <2>1, <2>6, <3>3 DEF EventDrain, ring, Sources
    <3> QED BY <1>0, <2>1, <3>2, <3>4 DEF TypeOK, ring
  <2> QED BY <2>2, <2>4, <2>5, <2>6
<1>3. CASE Inspect
  <2> DEFINE s == drain.src
             k == drain.slot.kind
  <2>1. /\ s \in Sources /\ ~Suspect /\ k \in Kinds
    BY <1>3, EventSound DEF Inspect
  <2>2. /\ drain.pc = "copied" /\ drain' = [drain EXCEPT !.pc = "advance"]
        /\ k \in Known /\ used[Prio[k]] < Room
        /\ used' = [used EXCEPT ![Prio[k]] = @ + 1]
        /\ lastSeq' = [lastSeq EXCEPT ![s] = drain.slot.seq]
        /\ delivered' = [delivered EXCEPT ![s] = k]
        /\ UNCHANGED ring
    BY <1>3, <2>1 DEF Inspect, Accepts
  <2>3. Prio[k] \in Prios /\ drain.slot.seq \in Seqs
    BY <1>0, <2>1 DEF Prios, Slot
  <2>4. used' \in [Prios -> 0 .. Room]
    <3>1. used[Prio[k]] + 1 \in 0 .. Room
      BY <1>0, <2>2, <2>3, EventShape DEF TypeOK
    <3> QED BY <1>0, <2>2, <2>3, <3>1 DEF TypeOK
  <2>5. drain' \in Drains /\ drain'.pc = "advance" /\ drain'.src = s /\ drain'.per = drain.per
    BY <1>0, <2>2 DEF Drains
  <2>6. /\ lastSeq' \in [Sources -> Seqs] /\ delivered' \in [Sources -> Kinds \cup {None}]
    BY <1>0, <2>1, <2>2, <2>3 DEF TypeOK
  <2>7. EventDrain'
    BY <1>0, <2>2, <2>5 DEF EventDrain, ring, Sources
  <2> QED BY <1>0, <2>2, <2>4, <2>5, <2>6, <2>7 DEF TypeOK, ring
<1>4. CASE Advance
  <2> DEFINE s == drain.src
  <2>1. /\ drain.pc = "advance"
        /\ tail' = [tail EXCEPT ![s] = Succ(@)]
        /\ slots' = [slots EXCEPT ![s][tail[s]] = Garbage]
        /\ drain' = [drain EXCEPT !.pc = "look", !.per = @ + 1, !.done = @ + 1, !.slot = Garbage]
        /\ UNCHANGED <<head, nextSeq, step, lastSeq, used, delivered>>
    BY <1>4 DEF Advance
  <2>2. s \in Sources /\ drain.per < PerSource
    BY <1>0, <2>1 DEF EventDrain
  <2>3. drain' \in Drains /\ drain'.pc = "look"
    <3>1. drain.per + 1 \in 0 .. PerSource /\ drain.done + 1 \in Nat
      BY <1>0, <2>2
    <3> QED BY <1>0, <2>1, <3>1 DEF Drains
  <2>4. Succ(tail[s]) \in 0 .. Depth - 1 /\ tail[s] \in 0 .. Depth - 1
    BY <1>0, <2>2, EventRing DEF TypeOK
  <2>5. /\ tail' \in [Sources -> 0 .. Depth - 1]
        /\ slots' \in [Sources -> [0 .. Depth - 1 -> Slot]]
    BY <1>0, <2>1, <2>2, <2>4 DEF TypeOK
  <2> QED BY <1>0, <2>1, <2>3, <2>5 DEF TypeOK, EventDrain
<1>5. CASE Refuse
  <2>1. /\ drain' = [drain EXCEPT !.pc = "process", !.done = 0, !.slot = Garbage]
        /\ UNCHANGED <<ring, lastSeq, used, delivered>>
    BY <1>5 DEF Refuse, Return
  <2>2. drain' \in Drains /\ drain'.pc = "process"
    BY <1>0, <2>1 DEF Drains
  <2> QED BY <1>0, <2>1, <2>2 DEF TypeOK, ring, EventDrain
<1>6. CASE Process
  <2>1. /\ UNCHANGED <<ring, lastSeq, delivered>> /\ drain.pc = "process"
        /\ \/ /\ \E p \in Prios : used[p] > 0 /\ used' = [used EXCEPT ![p] = @ - 1]
              /\ drain' = [drain EXCEPT !.done = @ + 1]
           \/ drain' = AtRest /\ used' = used
    BY <1>6 DEF Process
  <2>2. used' \in [Prios -> 0 .. Room]
    <3>1. CASE \E p \in Prios : used[p] > 0 /\ used' = [used EXCEPT ![p] = @ - 1]
      <4>1. PICK p \in Prios : used[p] > 0 /\ used' = [used EXCEPT ![p] = @ - 1]
        BY <3>1
      <4>2. used[p] - 1 \in 0 .. Room
        BY <1>0, <4>1, EventShape DEF TypeOK
      <4> QED BY <1>0, <4>1, <4>2 DEF TypeOK
    <3>2. CASE used' = used
      BY <1>0, <3>2 DEF TypeOK
    <3> QED BY <2>1, <3>1, <3>2
  <2>3. drain' \in Drains /\ drain'.pc \in {"process", "rest"}
    <3>1. CASE drain' = [drain EXCEPT !.done = @ + 1]
      BY <1>0, <2>1, <3>1 DEF Drains
    <3>2. CASE drain' = AtRest
      BY <1>a, <3>2 DEF AtRest
    <3> QED BY <2>1, <3>1, <3>2
  <2> QED BY <1>0, <2>1, <2>2, <2>3 DEF TypeOK, ring, EventDrain
<1> QED BY <1>1, <1>2, <1>3, <1>4, <1>5, <1>6 DEF Target

\* An interrupt of the target publishes an event of its own.
LEMMA EventLocal ==
    ASSUME EventsInv, NEW p \in Prios, PublishLocally(p)
    PROVE  TypeOK' /\ EventDrain'
<1>0. TypeOK /\ EventDrain /\ Room \in Nat
  BY EventShape DEF EventsInv
<1>1. /\ used[p] < Room /\ used' = [used EXCEPT ![p] = @ + 1]
      /\ UNCHANGED <<ring, lastSeq, drain, delivered>>
  BY DEF PublishLocally
<1>2. used' \in [Prios -> 0 .. Room]
  <2>1. used[p] + 1 \in 0 .. Room
    BY <1>0, <1>1 DEF TypeOK
  <2> QED BY <1>0, <1>1, <2>1 DEF TypeOK
<1>3. TypeOK'
  BY <1>0, <1>1, <1>2 DEF TypeOK, ring, Sources, Seqs, Slot, Prios
<1> QED BY <1>0, <1>1, <1>3 DEF EventDrain, ring, Sources

\* A step of the bounded queue of a source.
EventStays(s) == Pending(s)' = Pending(s) /\ delivered'[s] = delivered[s]
EventPut(s) ==
    /\ Len(Pending(s)) < Depth - 1
    /\ \E k \in Kinds : Pending(s)' = Append(Pending(s), k)
    /\ delivered'[s] = delivered[s]
EventTake(s) ==
    /\ Pending(s) # <<>>
    /\ delivered'[s] = Head(Pending(s))
    /\ Pending(s)' = Tail(Pending(s))
EventSame(s) ==
    EventLine(s)' /\ EventSource(s)' /\ (EventStays(s) \/ EventPut(s) \/ EventTake(s))

\* What is stored into the place of the head touches no event of the ring.
LEMMA EventStores ==
    ASSUME EventsInv, TypeOK', EventDrain', NEW s \in Sources,
           head'[s] = head[s], tail'[s] = tail[s], lastSeq'[s] = lastSeq[s],
           delivered'[s] = delivered[s], Behind(s)' = Behind(s),
           \A i \in 0 .. Depth - 1 : i # head[s] => slots'[s][i] = slots[s][i]
    PROVE  /\ EventLine(s)' /\ EventStays(s)
           /\ EventCount(s)' = EventCount(s) /\ EventNewest(s)' = EventNewest(s)
<1>1. /\ EventCount(s)' = EventCount(s) /\ \A i \in Nat : EventSlot(s, i)' = EventSlot(s, i)
  BY DEF EventCount, EventSlot, Span, Place
<1>2. /\ TypeOK /\ EventLine(s) /\ EventCount(s) \in Nat /\ EventDrain
      /\ \A i \in 0 .. EventCount(s) - 1 :
            EventSlot(s, i) \in 0 .. Depth - 1 /\ EventSlot(s, i) # head[s]
  <2>1. TypeOK /\ EventLine(s) /\ EventDrain
    BY DEF EventsInv
  <2>2. /\ EventCount(s) \in Nat /\ \A i \in Nat : EventSlot(s, i) \in 0 .. Depth - 1
        /\ \A i \in 0 .. EventCount(s) - 1 : EventSlot(s, i) # head[s]
    BY <2>1, EventRing
  <2>3. \A i \in 0 .. EventCount(s) - 1 : i \in Nat
    BY <2>2
  <2> QED BY <2>1, <2>2, <2>3
<1>3. \A i \in 0 .. EventCount(s) - 1 : EventAt(s, i)' = EventAt(s, i)
  <2>1. ASSUME NEW i \in 0 .. EventCount(s) - 1 PROVE EventAt(s, i)' = EventAt(s, i)
    <3>1. EventSlot(s, i)' = EventSlot(s, i)
      BY <1>1, <1>2
    <3> QED BY <1>2, <3>1 DEF EventAt
  <2> QED BY <2>1
<1>4. EventLine(s)'
  <2>1. \A i \in 0 .. EventCount(s) - 1 : i > 0 => i - 1 \in 0 .. EventCount(s) - 1
    BY <1>2
  <2>2. EventCount(s) > 0 => 0 \in 0 .. EventCount(s) - 1
    BY <1>2
  <2>3. \A n : SuccSeq(n)' = SuccSeq(n)
    BY DEF SuccSeq
  <2>4. \A i \in 0 .. EventCount(s) - 1 :
           /\ (EventAt(s, i)').kind \in Kinds
           /\ (i > 0) => (EventAt(s, i)').seq = SuccSeq((EventAt(s, i - 1)').seq)
    BY <1>2, <1>3, <2>1 DEF EventLine
  <2>5. (EventCount(s) > 0) =>
          (EventAt(s, 0)').seq = IF Behind(s) = 1 THEN lastSeq[s] ELSE SuccSeq(lastSeq[s])
    BY <1>2, <1>3, <2>2 DEF EventLine
  <2> QED BY <1>1, <2>4, <2>5 DEF EventLine, SuccSeq
<1>5. EventNewest(s)' = EventNewest(s)
  <2>1. EventCount(s) # 0 => EventCount(s) - 1 \in 0 .. EventCount(s) - 1
    BY <1>2
  <2> QED BY <1>1, <1>3, <2>1 DEF EventNewest
<1>6. EventStays(s)
  <2>1. Pending(s) = EventHeld(s) /\ Pending(s)' = EventHeld(s)'
    BY <1>2, EventItems, EventItemsThen
  <2>2. Behind(s) \in {0, 1}
    BY DEF Behind
  <2>3. \A i \in 1 .. EventCount(s) - Behind(s) :
           i - 1 + Behind(s) \in 0 .. EventCount(s) - 1
    BY <1>2, <2>2
  <2>4. EventHeld(s)' = EventHeld(s)
    BY <1>1, <1>3, <2>3 DEF EventHeld
  <2> QED BY <2>1, <2>4 DEF EventStays
<1> QED BY <1>1, <1>4, <1>5, <1>6

\* Nor does what another source, or the target, does elsewhere.
LEMMA EventElsewhere ==
    ASSUME EventsInv, TypeOK', EventDrain', NEW s \in Sources,
           head'[s] = head[s], tail'[s] = tail[s], lastSeq'[s] = lastSeq[s],
           delivered'[s] = delivered[s], Behind(s)' = Behind(s),
           slots'[s] = slots[s], nextSeq'[s] = nextSeq[s], step'[s] = step[s]
    PROVE  EventSame(s)
<1>1. /\ EventLine(s)' /\ EventStays(s)
      /\ EventCount(s)' = EventCount(s) /\ EventNewest(s)' = EventNewest(s)
  BY EventStores
<1>2. EventSource(s)
  BY DEF EventsInv
<1>3. EventSource(s)'
  BY <1>1, <1>2 DEF EventSource, SuccSeq
<1> QED BY <1>1, <1>3 DEF EventSame

\* A claim keeps the line of every source in order, and its queue as it is.
LEMMA EventClaimSame ==
    ASSUME EventsInv, NEW t \in Sources, NEW k \in Kinds, Claim(t, k), NEW s \in Sources
    PROVE  EventSame(s)
<1>1. TypeOK' /\ EventDrain' /\ EventCount(t) < Depth - 1 /\ TypeOK /\ EventSource(s)
  BY EventClaim DEF EventsInv
<1>2. /\ step[t].pc = "idle"
      /\ nextSeq' = [nextSeq EXCEPT ![t] = SuccSeq(@)]
      /\ slots' = [slots EXCEPT ![t][head[t]] = Garbage]
      /\ step' = [step EXCEPT ![t] = [pc |-> "filling", kind |-> k]]
      /\ UNCHANGED <<head, tail, lastSeq, drain, used, delivered>>
  BY DEF Claim
<1>3. Behind(s)' = Behind(s)
  BY <1>2 DEF Behind
<1>4. CASE s = t
  <2>1. /\ step'[s] = [pc |-> "filling", kind |-> k] /\ nextSeq'[s] = SuccSeq(nextSeq[s])
        /\ \A i \in 0 .. Depth - 1 : i # head[s] => slots'[s][i] = slots[s][i]
    BY <1>1, <1>2, <1>4 DEF TypeOK
  <2>2. /\ EventLine(s)' /\ EventStays(s)
        /\ EventCount(s)' = EventCount(s) /\ EventNewest(s)' = EventNewest(s)
    BY <1>1, <1>2, <1>3, <2>1, EventStores
  <2>3. EventSource(s)'
    BY <1>1, <1>2, <1>4, <2>1, <2>2 DEF EventSource, SuccSeq
  <2> QED BY <2>2, <2>3 DEF EventSame
<1>5. CASE s # t
  <2>1. step'[s] = step[s] /\ nextSeq'[s] = nextSeq[s] /\ slots'[s] = slots[s]
    BY <1>1, <1>2, <1>5 DEF TypeOK
  <2> QED BY <1>1, <1>2, <1>3, <2>1, EventElsewhere
<1> QED BY <1>4, <1>5

\* So does filling in an event.
LEMMA EventFillSame ==
    ASSUME EventsInv, NEW t \in Sources, Fill(t), NEW s \in Sources
    PROVE  EventSame(s)
<1>1. TypeOK' /\ EventDrain' /\ TypeOK /\ EventSource(s)
  BY EventFill DEF EventsInv
<1>2. /\ step[t].pc = "filling"
      /\ slots' = [slots EXCEPT ![t][head[t]] = [seq |-> nextSeq[t], kind |-> step[t].kind]]
      /\ step' = [step EXCEPT ![t].pc = "publishing"]
      /\ UNCHANGED <<head, tail, nextSeq, lastSeq, drain, used, delivered>>
  BY DEF Fill
<1>3. Behind(s)' = Behind(s)
  BY <1>2 DEF Behind
<1>4. CASE s = t
  <2>1. /\ step'[s].pc = "publishing" /\ step'[s].kind = step[s].kind
        /\ slots'[s][head[s]] = [seq |-> nextSeq[s], kind |-> step[s].kind]
        /\ \A i \in 0 .. Depth - 1 : i # head[s] => slots'[s][i] = slots[s][i]
    BY <1>1, <1>2, <1>4 DEF TypeOK
  <2>2. /\ EventLine(s)' /\ EventStays(s)
        /\ EventCount(s)' = EventCount(s) /\ EventNewest(s)' = EventNewest(s)
    BY <1>1, <1>2, <1>3, <2>1, EventStores
  <2>3. EventSource(s)'
    BY <1>1, <1>2, <1>4, <2>1, <2>2 DEF EventSource, SuccSeq
  <2> QED BY <2>2, <2>3 DEF EventSame
<1>5. CASE s # t
  <2>1. step'[s] = step[s] /\ slots'[s] = slots[s]
    BY <1>1, <1>2, <1>5 DEF TypeOK
  <2> QED BY <1>1, <1>2, <1>3, <2>1, EventElsewhere
<1> QED BY <1>4, <1>5

\* A publish: the event is in the ring.
LEMMA EventPublishSame ==
    ASSUME EventsInv, NEW t \in Sources, Publish(t), NEW s \in Sources
    PROVE  EventSame(s)
<1>1. TypeOK' /\ EventDrain' /\ TypeOK /\ EventDrain /\ EventSource(s) /\ EventLine(s)
  BY EventPublish DEF EventsInv
<1>2. /\ step[t].pc = "publishing"
      /\ head' = [head EXCEPT ![t] = Succ(@)]
      /\ step' = [step EXCEPT ![t] = [pc |-> "idle", kind |-> None]]
      /\ UNCHANGED <<slots, tail, nextSeq, lastSeq, drain, used, delivered>>
  BY DEF Publish
<1>3. Behind(s)' = Behind(s)
  BY <1>2 DEF Behind
<1>4. CASE s = t
  <2> DEFINE e == slots[s][head[s]]
  <2>0. /\ Depth \in Nat \ {0} /\ Depth >= 2
        /\ head[s] \in 0 .. Depth - 1 /\ tail[s] \in 0 .. Depth - 1
    BY <1>1, EventShape DEF TypeOK
  <2>1. /\ step'[s].pc = "idle" /\ head'[s] = Succ(head[s])
    BY <1>1, <1>2, <1>4 DEF TypeOK
  <2>2. /\ EventCount(s) < Depth - 1 /\ e.seq = nextSeq[s] /\ e.kind = step[s].kind
        /\ e.kind \in Kinds /\ nextSeq[s] = SuccSeq(EventNewest(s))
    BY <1>1, <1>2, <1>4 DEF EventSource
  <2> HIDE DEF e
  <2>3. /\ EventCount(s) \in Nat /\ EventSlot(s, EventCount(s)) = head[s]
        /\ Succ(head[s]) # tail[s] /\ (EventCount(s) = 0 <=> head[s] = tail[s])
        /\ EventCount(s) # Depth - 1
    <3>1. EventCount(s) # Depth - 1
      BY <2>0, <2>2
    <3> QED BY <1>1, <3>1, EventRing
  <2>4. EventCount(s)' = EventCount(s) + 1 /\ \A i : EventAt(s, i)' = EventAt(s, i)
    <3>1. Span(Depth, (head[s] + 1) % Depth, tail[s]) = Span(Depth, head[s], tail[s]) + 1
      <4>1. (head[s] + 1) % Depth # tail[s]
        BY <2>3 DEF Succ
      <4> QED BY <2>0, <4>1, RingGrows
    <3> QED BY <1>2, <2>1, <3>1 DEF EventCount, EventAt, EventSlot, Succ, Place, Span
  <2>5. EventAt(s, EventCount(s)) = e
    BY <2>3 DEF EventAt, e
  <2>6. \A i \in 0 .. EventCount(s) : i \in 0 .. EventCount(s) - 1 \/ i = EventCount(s)
    BY <2>3
  <2>7. /\ EventCount(s)' - 1 = EventCount(s) /\ EventCount(s)' # 0
    BY <2>3, <2>4
  <2>8. EventLine(s)'
    <3>1. ASSUME NEW i \in 0 .. EventCount(s)
          PROVE  /\ EventAt(s, i).kind \in Kinds
                 /\ (i > 0) => EventAt(s, i).seq = SuccSeq(EventAt(s, i - 1).seq)
      <4>1. CASE i \in 0 .. EventCount(s) - 1
        BY <1>1, <4>1 DEF EventLine
      <4>2. CASE i = EventCount(s)
        <5>1. i > 0 => EventNewest(s) = EventAt(s, i - 1).seq
          BY <2>3, <4>2 DEF EventNewest
        <5> QED BY <2>2, <2>5, <4>2, <5>1
      <4> QED BY <2>6, <4>1, <4>2
    <3>2. EventAt(s, 0).seq = IF Behind(s) = 1 THEN lastSeq[s] ELSE SuccSeq(lastSeq[s])
      <4>1. CASE EventCount(s) = 0
        <5>1. Behind(s) = 0
          BY <1>1, <2>3, <4>1 DEF Behind, EventDrain
        <5>2. EventNewest(s) = lastSeq[s] /\ EventAt(s, 0).seq = nextSeq[s]
          BY <2>2, <2>5, <4>1 DEF EventNewest
        <5> QED BY <2>2, <5>1, <5>2
      <4>2. CASE EventCount(s) > 0
        BY <1>1, <4>2 DEF EventLine
      <4> QED BY <2>3, <4>1, <4>2
    <3>3. \A i \in 0 .. EventCount(s)' - 1 :
            /\ (EventAt(s, i)').kind \in Kinds
            /\ (i > 0) => (EventAt(s, i)').seq = SuccSeq((EventAt(s, i - 1)').seq)
      BY <2>4, <2>7, <3>1
    <3> QED BY <1>2, <1>3, <2>4, <3>2, <3>3 DEF EventLine, SuccSeq
  <2>9. EventNewest(s)' = nextSeq[s]
    BY <2>2, <2>4, <2>5, <2>7 DEF EventNewest
  <2>10. EventSource(s)'
    BY <1>2, <2>1, <2>9 DEF EventSource
  <2>11. EventPut(s)
    <3> DEFINE n == EventCount(s) - Behind(s)
               a == EventHeld(s)
               b == EventHeld(s)'
    <3>1. Behind(s) \in {0, 1} /\ (Behind(s) = 1 => EventCount(s) # 0)
      BY <1>1, <2>3 DEF Behind, EventDrain
    <3>2. n \in Nat /\ n < Depth - 1
      BY <2>0, <2>2, <2>3, <3>1
    <3>3. a = [i \in 1 .. n |-> EventAt(s, i - 1 + Behind(s)).kind]
      BY DEF EventHeld
    <3>4. b = [i \in 1 .. n + 1 |-> EventAt(s, i - 1 + Behind(s)).kind]
      <4>1. EventCount(s)' - Behind(s)' = n + 1
        BY <1>3, <2>3, <2>4, <3>1
      <4> QED BY <1>3, <2>4, <4>1 DEF EventHeld
    <3>5. \A i \in 1 .. n : EventAt(s, i - 1 + Behind(s)).kind \in Kinds
      <4>1. \A i \in 1 .. n : i - 1 + Behind(s) \in 0 .. EventCount(s) - 1
        BY <2>3, <3>1
      <4> QED BY <1>1, <4>1 DEF EventLine
    <3>6. EventAt(s, (n + 1) - 1 + Behind(s)).kind = e.kind
      <4>1. (n + 1) - 1 + Behind(s) = EventCount(s)
        BY <2>3, <3>1
      <4> QED BY <2>5, <4>1
    <3> HIDE DEF n, a, b
    <3>7. a \in [1 .. n -> Kinds] /\ b \in [1 .. n + 1 -> Kinds]
      <4>1. \A i \in 1 .. n + 1 : i \in 1 .. n \/ i = n + 1
        BY <3>2
      <4>2. \A i \in 1 .. n + 1 : EventAt(s, i - 1 + Behind(s)).kind \in Kinds
        BY <2>2, <3>5, <3>6, <4>1
      <4> QED BY <3>3, <3>4, <3>5, <4>2
    <3>8. b[n + 1] = e.kind /\ \A i \in 1 .. n : b[i] = a[i]
      <4>1. n + 1 \in 1 .. n + 1 /\ \A i \in 1 .. n : i \in 1 .. n + 1
        BY <3>2
      <4> QED BY <3>3, <3>4, <3>6, <4>1
    <3>9. Len(a) = n /\ b = Append(a, e.kind)
      BY <3>2, <3>7, <3>8, OneMore
    <3>10. Pending(s) = a /\ Pending(s)' = b
      BY <1>1, EventItems, EventItemsThen DEF a, b
    <3> QED BY <1>2, <2>2, <3>2, <3>9, <3>10 DEF EventPut
  <2> QED BY <2>8, <2>10, <2>11 DEF EventSame
<1>5. CASE s # t
  <2>1. step'[s] = step[s] /\ head'[s] = head[s]
    BY <1>1, <1>2, <1>5 DEF TypeOK
  <2> QED BY <1>1, <1>2, <1>3, <2>1, EventElsewhere
<1> QED BY <1>4, <1>5

\* The steps of the target that move no event.
LEMMA EventIdleSame ==
    ASSUME EventsInv, NEW s \in Sources,
           Iterate \/ Look \/ Refuse \/ Process \/ \E p \in Prios : PublishLocally(p)
    PROVE  EventSame(s)
<1>1. TypeOK' /\ EventDrain' /\ TypeOK
  BY EventTarget, EventLocal DEF EventsInv, Target
<1>2. UNCHANGED <<ring, lastSeq, delivered>>
  BY DEF Iterate, Look, Refuse, Process, PublishLocally
<1>3. Behind(s)' = Behind(s)
  <2>1. CASE \E p \in Prios : PublishLocally(p)
    BY <2>1 DEF PublishLocally, Behind
  <2>2. CASE Iterate \/ Look \/ Refuse \/ Process
    <3>1. drain.pc # "advance"
      BY <2>2 DEF Iterate, Look, Refuse, Process
    <3>2. drain'.pc # "advance"
      <4> USE DEF TypeOK
      <4>1. CASE Iterate
        BY <4>1 DEF Iterate, AtRest
      <4>2. CASE Look
        <5>1. /\ drain.pc = "look"
              /\ \/ drain' = [drain EXCEPT !.pc = "process", !.done = 0]
                 \/ drain' = [drain EXCEPT !.src = drain.src + 1, !.per = 0]
                 \/ drain' = [drain EXCEPT !.pc = "copied",
                                           !.slot = slots[drain.src][tail[drain.src]]]
          BY <4>2 DEF Look
        <5>2. drain' = [drain EXCEPT !.src = drain.src + 1, !.per = 0] => drain'.pc = "look"
          BY <1>1, <5>1
        <5>3. drain' = [drain EXCEPT !.pc = "process", !.done = 0] => drain'.pc = "process"
          BY <1>1
        <5>4. drain' = [drain EXCEPT !.pc = "copied", !.slot = slots[drain.src][tail[drain.src]]]
                 => drain'.pc = "copied"
          BY <1>1
        <5> QED BY <5>1, <5>2, <5>3, <5>4
      <4>3. CASE Refuse
        BY <1>1, <4>3 DEF Refuse, Return
      <4>4. CASE Process
        <5>1. /\ drain.pc = "process"
              /\ drain' = [drain EXCEPT !.done = @ + 1] \/ drain' = AtRest
          BY <4>4 DEF Process
        <5>2. drain' = [drain EXCEPT !.done = @ + 1] => drain'.pc = drain.pc
          BY <1>1
        <5>3. drain' = AtRest => drain'.pc = "rest"
          BY DEF AtRest
        <5> QED BY <5>1, <5>2, <5>3
      <4> QED BY <2>2, <4>1, <4>2, <4>3, <4>4
    <3> QED BY <3>1, <3>2 DEF Behind
  <2> QED BY <2>1, <2>2
<1> QED BY <1>1, <1>2, <1>3, EventElsewhere DEF ring

\* The oldest event goes into the target's queue: it is taken out of the ring's.
LEMMA EventInspectSame ==
    ASSUME EventsInv, Inspect, NEW s \in Sources
    PROVE  EventSame(s)
<1> DEFINE t == drain.src
           k == drain.slot.kind
<1>1. TypeOK' /\ EventDrain' /\ TypeOK /\ EventDrain /\ EventSource(s) /\ EventLine(s)
  BY EventTarget DEF EventsInv, Target
<1>2. /\ t \in Sources /\ ~Suspect /\ k \in Kinds /\ drain.slot = EventAt(t, 0)
      /\ EventCount(t) > 0
  BY EventSound DEF Inspect
<1>3. /\ drain.pc = "copied" /\ drain' = [drain EXCEPT !.pc = "advance"]
      /\ lastSeq' = [lastSeq EXCEPT ![t] = drain.slot.seq]
      /\ delivered' = [delivered EXCEPT ![t] = k]
      /\ UNCHANGED ring
  BY <1>2 DEF Inspect
<1>4. drain'.pc = "advance" /\ drain'.src = t
  BY <1>1, <1>3 DEF TypeOK
<1> HIDE DEF t, k
<1>5. CASE s = t
  <2>1. Behind(s) = 0 /\ Behind(s)' = 1
    BY <1>3, <1>4, <1>5 DEF Behind
  <2>2. lastSeq'[s] = EventAt(s, 0).seq /\ delivered'[s] = EventAt(s, 0).kind
    BY <1>1, <1>2, <1>3, <1>5 DEF TypeOK, k
  <2>3. /\ EventCount(s)' = EventCount(s) /\ \A i : EventAt(s, i)' = EventAt(s, i)
        /\ \A i : SuccSeq(i)' = SuccSeq(i)
    BY <1>3 DEF ring, EventCount, EventAt, EventSlot, Span, Place, SuccSeq
  <2>4. EventCount(s) > 0 /\ EventCount(s) \in Nat
    BY <1>1, <1>2, <1>5, EventRing
  <2>5. EventLine(s)'
    <3>1. \A i \in 0 .. EventCount(s)' - 1 :
             /\ (EventAt(s, i)').kind \in Kinds
             /\ (i > 0) => (EventAt(s, i)').seq = SuccSeq((EventAt(s, i - 1)').seq)
      BY <1>1, <2>3 DEF EventLine
    <3>2. (EventAt(s, 0)').seq = lastSeq'[s]
      BY <2>2, <2>3
    <3> QED BY <2>1, <3>1, <3>2 DEF EventLine, SuccSeq
  <2>6. EventNewest(s)' = EventNewest(s)
    BY <2>3, <2>4 DEF EventNewest
  <2>7. EventSource(s)'
    BY <1>1, <1>3, <2>3, <2>6 DEF EventSource, ring, SuccSeq
  <2>8. EventTake(s)
    <3> DEFINE n == EventCount(s) - 1
               a == EventHeld(s)
               b == EventHeld(s)'
    <3>1. n \in Nat /\ EventCount(s) = n + 1
      BY <2>4
    <3>2. a = [i \in 1 .. n + 1 |-> EventAt(s, i - 1).kind]
      <4>1. EventCount(s) - Behind(s) = n + 1 /\ \A i \in Int : i - 1 + Behind(s) = i - 1
        BY <2>1, <3>1
      <4> HIDE DEF n
      <4>2. \A i \in 1 .. n + 1 : i \in Int
        BY <3>1
      <4> QED BY <4>1, <4>2 DEF EventHeld
    <3>3. b = [i \in 1 .. n |-> EventAt(s, i).kind]
      <4>1. EventCount(s)' - Behind(s)' = n
        BY <2>1, <2>3
      <4>2. \A i \in Int : i - 1 + Behind(s)' = i
        BY <2>1
      <4> HIDE DEF n
      <4>3. \A i \in 1 .. n : i \in Int
        BY <3>1
      <4> QED BY <2>3, <4>1, <4>2, <4>3 DEF EventHeld
    <3>4. \A i \in 0 .. n : EventAt(s, i).kind \in Kinds
      BY <1>1 DEF EventLine
    <3> HIDE DEF n, a, b
    <3>5. a \in [1 .. n + 1 -> Kinds] /\ b \in [1 .. n -> Kinds]
      <4>1. (\A i \in 1 .. n + 1 : i - 1 \in 0 .. n) /\ \A i \in 1 .. n : i \in 0 .. n
        BY <3>1
      <4> QED BY <3>2, <3>3, <3>4, <4>1
    <3>6. \A i \in 1 .. n : b[i] = a[i + 1]
      <4>1. \A i \in 1 .. n : i + 1 \in 1 .. n + 1 /\ (i + 1) - 1 = i
        BY <3>1
      <4> QED BY <3>2, <3>3, <4>1
    <3>7. a[1] = EventAt(s, 0).kind
      <4>1. 1 \in 1 .. n + 1 /\ 1 - 1 = 0
        BY <3>1
      <4> QED BY <3>2, <4>1
    <3>8. a # <<>> /\ b = Tail(a) /\ Head(a) = a[1]
      BY <3>1, <3>5, <3>6, OneLess
    <3>9. Pending(s) = a /\ Pending(s)' = b
      BY <1>1, EventItems, EventItemsThen DEF a, b
    <3> QED BY <2>2, <3>7, <3>8, <3>9 DEF EventTake
  <2> QED BY <2>5, <2>7, <2>8 DEF EventSame
<1>6. CASE s # t
  <2>1. Behind(s)' = Behind(s)
    BY <1>3, <1>4, <1>6 DEF Behind
  <2>2. lastSeq'[s] = lastSeq[s] /\ delivered'[s] = delivered[s]
    BY <1>1, <1>3, <1>6 DEF TypeOK
  <2> QED BY <1>1, <1>3, <2>1, <2>2, EventElsewhere DEF ring
<1> QED BY <1>5, <1>6

\* The tail moves on, over the event that was taken.
LEMMA EventAdvanceSame ==
    ASSUME EventsInv, Advance, NEW s \in Sources
    PROVE  EventSame(s)
<1> DEFINE t == drain.src
<1>1. TypeOK' /\ EventDrain' /\ TypeOK /\ EventDrain /\ EventSource(s) /\ EventLine(s)
  BY EventTarget DEF EventsInv, Target
<1>2. /\ drain.pc = "advance"
      /\ tail' = [tail EXCEPT ![t] = Succ(@)]
      /\ slots' = [slots EXCEPT ![t][tail[t]] = Garbage]
      /\ drain' = [drain EXCEPT !.pc = "look", !.per = @ + 1, !.done = @ + 1, !.slot = Garbage]
      /\ UNCHANGED <<head, nextSeq, step, lastSeq, used, delivered>>
  BY DEF Advance
<1>3. t \in Sources /\ head[t] # tail[t] /\ drain'.pc = "look"
  BY <1>1, <1>2 DEF EventDrain, TypeOK
<1> HIDE DEF t
<1>4. CASE s = t
  <2>0. /\ Depth \in Nat \ {0} /\ head[s] \in 0 .. Depth - 1 /\ tail[s] \in 0 .. Depth - 1
    BY <1>1, EventShape DEF TypeOK
  <2>1. Behind(s) = 1 /\ Behind(s)' = 0
    BY <1>2, <1>3, <1>4 DEF Behind, t
  <2>2. /\ tail'[s] = Succ(tail[s])
        /\ \A i \in 0 .. Depth - 1 : i # tail[s] => slots'[s][i] = slots[s][i]
    BY <1>1, <1>2, <1>4, <2>0 DEF TypeOK
  <2>3. /\ EventCount(s) \in Nat /\ EventCount(s) # 0 /\ EventCount(s) <= Depth - 1
        /\ \A i \in Nat : EventSlot(s, i) \in 0 .. Depth - 1
        /\ \A i \in 1 .. EventCount(s) - 1 : EventSlot(s, i) # tail[s]
        /\ \A i \in 0 .. EventCount(s) - 1 : EventSlot(s, i) # head[s]
    <3>1. EventCount(s) \in 0 .. Depth - 1
      BY <1>1, EventRing
    <3>2. EventCount(s) <= Depth - 1
      BY <2>0, <3>1
    <3> QED BY <1>1, <1>3, <1>4, <3>2, EventRing
  <2>4. EventCount(s)' = EventCount(s) - 1 /\ \A i \in Nat : EventSlot(s, i)' = EventSlot(s, i + 1)
    <3>1. Span(Depth, head[s], (tail[s] + 1) % Depth) = Span(Depth, head[s], tail[s]) - 1
      BY <1>3, <1>4, <2>0, RingShrinks
    <3>2. \A i \in Nat : Place(Depth, (tail[s] + 1) % Depth, i) = Place(Depth, tail[s], i + 1)
      BY <2>0, RingShrinks
    <3>3. Span(Depth, head[s], tail[s])' = Span(Depth, head[s], (tail[s] + 1) % Depth)
          /\ \A i : Place(Depth, tail[s], i)' = Place(Depth, (tail[s] + 1) % Depth, i)
      BY <1>2, <2>2 DEF Span, Place, Succ
    <3> QED BY <3>1, <3>2, <3>3 DEF EventCount, EventSlot
  <2>5. \A i \in 0 .. EventCount(s)' - 1 :
           /\ i \in Nat /\ i + 1 \in 0 .. EventCount(s) - 1 /\ i + 1 \in 1 .. EventCount(s) - 1
           /\ EventAt(s, i)' = EventAt(s, i + 1)
    <3>1. \A i \in 0 .. EventCount(s) - 1 - 1 :
             /\ i \in Nat /\ i + 1 \in Nat
             /\ i + 1 \in 0 .. EventCount(s) - 1 /\ i + 1 \in 1 .. EventCount(s) - 1
      BY <2>3
    <3>2. ASSUME NEW i \in 0 .. EventCount(s)' - 1
          PROVE  EventAt(s, i)' = EventAt(s, i + 1)
      <4>1. /\ EventSlot(s, i)' = EventSlot(s, i + 1)
            /\ EventSlot(s, i + 1) \in 0 .. Depth - 1 /\ EventSlot(s, i + 1) # tail[s]
        BY <2>3, <2>4, <3>1
      <4>2. slots'[s][EventSlot(s, i + 1)] = slots[s][EventSlot(s, i + 1)]
        BY <2>2, <4>1
      <4> QED BY <4>1, <4>2 DEF EventAt
    <3> QED BY <2>4, <3>1, <3>2
  <2>6. \A i : SuccSeq(i)' = SuccSeq(i)
    BY DEF SuccSeq
  <2>7. ASSUME NEW i \in 0 .. EventCount(s) - 1, i > 0
        PROVE  EventAt(s, i).seq = SuccSeq(EventAt(s, i - 1).seq)
    BY <1>1, <2>7 DEF EventLine
  <2>8. EventAt(s, 0).seq = lastSeq[s] /\ EventCount(s) > 0
    BY <1>1, <2>1, <2>3 DEF EventLine
  <2>9. EventLine(s)'
    <3>1. ASSUME NEW i \in 0 .. EventCount(s)' - 1
          PROVE  /\ (EventAt(s, i)').kind \in Kinds
                 /\ (i > 0) => (EventAt(s, i)').seq = SuccSeq((EventAt(s, i - 1)').seq)
      <4>1. (EventAt(s, i)').kind \in Kinds
        BY <1>1, <2>5 DEF EventLine
      <4>2. ASSUME i > 0 PROVE (EventAt(s, i)').seq = SuccSeq((EventAt(s, i - 1)').seq)
        <5>1. /\ i - 1 \in 0 .. EventCount(s)' - 1 /\ (i - 1) + 1 = i /\ (i + 1) - 1 = i
              /\ i + 1 \in 0 .. EventCount(s) - 1 /\ i + 1 > 0
          BY <2>3, <2>4, <4>2
        <5>2. EventAt(s, i + 1).seq = SuccSeq(EventAt(s, i).seq)
          BY <2>7, <5>1
        <5>3. EventAt(s, i - 1)' = EventAt(s, i) /\ EventAt(s, i)' = EventAt(s, i + 1)
          BY <2>5, <5>1
        <5> QED BY <5>2, <5>3
      <4> QED BY <4>1, <4>2
    <3>2. ASSUME EventCount(s)' > 0
          PROVE  (EventAt(s, 0)').seq = SuccSeq(lastSeq[s])
      <4>1. /\ 0 \in 0 .. EventCount(s)' - 1 /\ 0 + 1 = 1 /\ 1 - 1 = 0
            /\ 1 \in 0 .. EventCount(s) - 1 /\ 1 > 0
        BY <2>3, <2>4, <3>2
      <4>2. EventAt(s, 1).seq = SuccSeq(EventAt(s, 0).seq)
        BY <2>7, <4>1
      <4>3. EventAt(s, 0)' = EventAt(s, 1)
        BY <2>5, <4>1
      <4> QED BY <2>8, <4>2, <4>3
    <3> QED BY <1>2, <2>1, <3>1, <3>2 DEF EventLine, SuccSeq
  <2>10. EventNewest(s)' = EventNewest(s)
    <3>1. CASE EventCount(s) = 1
      <4>1. EventCount(s)' = 0 /\ EventCount(s) - 1 = 0
        BY <2>4, <3>1
      <4> QED BY <1>2, <2>3, <2>8, <4>1 DEF EventNewest
    <3>2. CASE EventCount(s) # 1
      <4>1. /\ EventCount(s)' # 0 /\ EventCount(s)' - 1 \in 0 .. EventCount(s)' - 1
            /\ (EventCount(s)' - 1) + 1 = EventCount(s) - 1
        BY <2>3, <2>4, <3>2
      <4>2. (EventAt(s, EventCount(s) - 1))' = EventAt(s, EventCount(s) - 1)
        BY <2>5, <4>1 DEF EventAt, EventSlot
      <4> QED BY <2>3, <4>1, <4>2 DEF EventNewest
    <3> QED BY <3>1, <3>2
  <2>11. EventSource(s)'
    <3>1. EventCount(s) < Depth - 1 => EventCount(s)' < Depth - 1
      BY <2>0, <2>3, <2>4
    <3>2. slots'[s][head[s]] = slots[s][head[s]]
      BY <1>3, <1>4, <2>0, <2>2
    <3> QED BY <1>1, <1>2, <2>10, <3>1, <3>2 DEF EventSource, SuccSeq
  <2>12. EventStays(s)
    <3>1. Pending(s) = EventHeld(s) /\ Pending(s)' = EventHeld(s)'
      BY <1>1, EventItems, EventItemsThen
    <3> DEFINE n == EventCount(s) - 1
    <3>2. n \in Nat /\ EventCount(s)' - 0 = n
      BY <2>3, <2>4
    <3>3. EventHeld(s) = [i \in 1 .. n |-> EventAt(s, i - 1 + 1).kind]
      BY <2>1 DEF EventHeld
    <3>4. EventHeld(s)' = [i \in 1 .. n |-> (EventAt(s, i - 1 + 0)').kind]
      BY <2>1, <3>2 DEF EventHeld
    <3>5. \A i \in 1 .. n : EventAt(s, i - 1 + 0)' = EventAt(s, i - 1 + 1)
      <4>1. \A i \in 1 .. n :
               i - 1 + 0 \in 0 .. EventCount(s)' - 1 /\ (i - 1 + 0) + 1 = i - 1 + 1
        BY <3>2, <2>4
      <4>2. ASSUME NEW i \in 1 .. n PROVE EventAt(s, i - 1 + 0)' = EventAt(s, i - 1 + 1)
        <5> DEFINE j == i - 1 + 0
        <5>1. j \in 0 .. EventCount(s)' - 1 /\ j + 1 = i - 1 + 1
          BY <4>1
        <5> HIDE DEF j
        <5>2. EventAt(s, j)' = EventAt(s, j + 1)
          BY <2>5, <5>1
        <5> QED BY <5>1, <5>2 DEF j
      <4> QED BY <4>2
    <3> HIDE DEF n
    <3>6. EventHeld(s)' = EventHeld(s)
      BY <3>3, <3>4, <3>5
    <3> QED BY <1>2, <3>1, <3>6 DEF EventStays
  <2> QED BY <2>9, <2>11, <2>12 DEF EventSame
<1>5. CASE s # t
  <2>1. Behind(s)' = Behind(s)
    BY <1>3, <1>5 DEF Behind, t
  <2>2. tail'[s] = tail[s] /\ slots'[s] = slots[s]
    BY <1>1, <1>2, <1>5 DEF TypeOK
  <2> QED BY <1>1, <1>2, <2>1, <2>2, EventElsewhere
<1> QED BY <1>4, <1>5

\* Every step of the channels keeps the invariant, and is one of the queue of every
\* source.
LEMMA EventsStep ==
    ASSUME EventsInv, [IpcNext]_allVars
    PROVE  EventsInv' /\ \A s \in Sources : EventStays(s) \/ EventPut(s) \/ EventTake(s)
<1>1. CASE Next
  <2>1. TypeOK' /\ EventDrain'
    BY <1>1, EventClaim, EventFill, EventPublish, EventTarget, EventLocal DEF Next
  <2>2. ASSUME NEW s \in Sources PROVE EventSame(s)
    <3>1. CASE \E t \in Sources : (\E k \in Kinds : Claim(t, k)) \/ Fill(t) \/ Publish(t)
      BY <3>1, EventClaimSame, EventFillSame, EventPublishSame
    <3>2. CASE Target
      BY <3>2, EventIdleSame, EventInspectSame, EventAdvanceSame DEF Target
    <3>3. CASE \E p \in Prios : PublishLocally(p)
      BY <3>3, EventIdleSame
    <3> QED BY <1>1, <3>1, <3>2, <3>3 DEF Next
  <2> QED BY <2>1, <2>2 DEF EventSame, EventsInv, Sources
<1>2. CASE UNCHANGED vars
  <2>1. TypeOK' /\ EventDrain'
    BY <1>2 DEF EventsInv, vars, ring, TypeOK, EventDrain, Sources, Seqs, Slot, Prios
  <2>2. \A s \in Sources : EventSame(s)
    BY <1>2, <2>1, EventElsewhere DEF vars, ring, Behind
  <2> QED BY <2>1, <2>2 DEF EventSame, EventsInv, Sources
<1> QED BY <1>1, <1>2 DEF IpcNext, allVars

\* The rings of events: they are well-formed, no event is taken for damage, and the
\* first and the last are queues.
LEMMA EventsHold ==
    IpcSpec => [](TypeOK /\ NoFalseAlarm) /\ FirstRingIsQueue /\ LastRingIsQueue
<1>1. IpcInit => EventsInv /\ FirstRing!Init /\ LastRing!Init
  BY EventInit DEF IpcInit
<1>2. EventsInv /\ [IpcNext]_allVars =>
         EventsInv' /\ [FirstRing!Next]_FirstRing!vars /\ [LastRing!Next]_LastRing!vars
  <2> SUFFICES ASSUME EventsInv, [IpcNext]_allVars
      PROVE  EventsInv' /\ [FirstRing!Next]_FirstRing!vars /\ [LastRing!Next]_LastRing!vars
    OBVIOUS
  <2>1. EventsInv' /\ \A s \in Sources : EventStays(s) \/ EventPut(s) \/ EventTake(s)
    BY EventsStep
  <2>2. 1 \in Sources /\ NSources \in Sources
    BY EventShape DEF Sources
  <2>3. [FirstRing!Next]_FirstRing!vars
    <3>1. EventStays(1) \/ EventPut(1) \/ EventTake(1)
      BY <2>1, <2>2
    <3> QED BY <3>1 DEF EventStays, EventPut, EventTake, FirstRing!Next, FirstRing!Put,
                        FirstRing!Take, FirstRing!vars
  <2>4. [LastRing!Next]_LastRing!vars
    <3>1. EventStays(NSources) \/ EventPut(NSources) \/ EventTake(NSources)
      BY <2>1, <2>2
    <3> QED BY <3>1 DEF EventStays, EventPut, EventTake, LastRing!Next, LastRing!Put,
                        LastRing!Take, LastRing!vars
  <2> QED BY <2>1, <2>3, <2>4
<1>3. EventsInv => TypeOK /\ NoFalseAlarm
  BY EventSound DEF EventsInv, NoFalseAlarm
<1> QED BY <1>1, <1>2, <1>3, PTL
        DEF IpcSpec, FirstRingIsQueue, LastRingIsQueue, FirstRing!Spec, LastRing!Spec

-----------------------------------------------------------------------------
(* The telemetry channel                                                       *)

\* The stores of the writing CPU, the words of one frame, and the stores that end a
\* commit.
LatestStores ==
    [loc : Weak!CopyLocs \cup {Weak!SeqLoc},
     val : Weak!Numbers \cup Item \cup [Weak!Words -> Item \cup {None}], frame : Item]
Uniform(v) == [w \in Weak!Words |-> v]
StoreIs(st) ==
    \/ st.loc = Weak!SeqLoc /\ st.val \in Weak!Numbers
    \/ st.loc = Weak!CrcLoc /\ st.val = Uniform(st.frame)
    \/ \E w \in Weak!Words : st.loc = Weak!WordLoc(w) /\ st.val = st.frame
Ends(st) == st.loc = Weak!SeqLoc /\ Weak!Even(st.val)

\* What the constants of the telemetry channel are assumed to be.
LEMMA LatestShape ==
    /\ LatestMod \in Nat \ {0} /\ LatestMod >= 4 /\ LatestMod % 2 = 0
    /\ WordCount \in Nat \ {0} /\ MaxStores \in Nat /\ WeakStores \in Nat /\ None \notin Item
BY ChannelsAssumption DEF Ordered!LatestAssumption, Weak!LatestAssumption

\* The places are different ones.
LEMMA LatestPlaces ==
    /\ Weak!SeqLoc # Weak!CrcLoc
    /\ \A w \in Weak!Words : /\ Weak!WordLoc(w) # Weak!SeqLoc /\ Weak!WordLoc(w) # Weak!CrcLoc
                             /\ Weak!WordLoc(w).word = w /\ Weak!WordLoc(w) \in Weak!CopyLocs
    /\ Weak!CrcLoc \in Weak!CopyLocs /\ Weak!SeqLoc \notin Weak!CopyLocs
    /\ \A l \in Weak!CopyLocs : l = Weak!CrcLoc \/ \E w \in Weak!Words : l = Weak!WordLoc(w)
BY DEF Weak!SeqLoc, Weak!CrcLoc, Weak!WordLoc, Weak!CopyLocs

\* One after the other, the numbers are odd and even; half of them are even.
LEMMA LatestParity ==
    /\ \A n \in Weak!Numbers :
          Weak!Plus1(n) \in Weak!Numbers /\ (Weak!Even(Weak!Plus1(n)) <=> ~Weak!Even(n))
    /\ LatestMod = 2 * (LatestMod \div 2) /\ LatestMod \div 2 \in Nat
    /\ 0 \in Weak!Numbers /\ Weak!Even(0)
<1>1. LatestMod \in Nat \ {0} /\ LatestMod % 2 = 0 /\ LatestMod >= 4
  BY LatestShape
<1>2. \A x \in Nat : x = 2 * (x \div 2) + (x % 2) /\ x \div 2 \in Nat /\ x % 2 \in 0 .. 1
  BY DivFacts
<1>3. LatestMod = 2 * (LatestMod \div 2) /\ LatestMod \div 2 \in Nat
  BY <1>1, <1>2
<1>4. 0 % 2 = 0 /\ 0 \in 0 .. LatestMod - 1
  BY <1>1, <1>2
<1>5. ASSUME NEW n \in 0 .. LatestMod - 1
      PROVE  Weak!Plus1(n) \in Weak!Numbers /\ (Weak!Even(Weak!Plus1(n)) <=> ~Weak!Even(n))
  <2>1. Weak!Plus1(n) = IF n + 1 = LatestMod THEN 0 ELSE n + 1
    BY <1>1, NextIs DEF Weak!Plus1
  <2>2. Weak!Plus1(n) \in Weak!Numbers
    BY <1>1, <2>1 DEF Weak!Numbers
  <2>3. (n + 1) % 2 = 0 <=> n % 2 # 0
    <3>1. n \in Nat /\ n + 1 \in Nat
      BY <1>1
    <3>2. n = 2 * (n \div 2) + (n % 2) /\ n \div 2 \in Nat /\ n % 2 \in 0 .. 1
      BY <1>2, <3>1
    <3>3. /\ n + 1 = 2 * ((n + 1) \div 2) + ((n + 1) % 2) /\ (n + 1) \div 2 \in Nat
          /\ (n + 1) % 2 \in 0 .. 1
      BY <1>2, <3>1
    <3> QED BY <3>1, <3>2, <3>3
  <2>4. CASE n + 1 = LatestMod
    <3>1. n % 2 # 0
      BY <1>1, <2>3, <2>4
    <3>2. Weak!Plus1(n) = 0
      BY <2>1, <2>4
    <3> QED BY <1>4, <2>2, <3>1, <3>2 DEF Weak!Even
  <2>5. CASE n + 1 # LatestMod
    <3>1. Weak!Plus1(n) = n + 1
      BY <2>1, <2>5
    <3> QED BY <2>2, <2>3, <3>1 DEF Weak!Even
  <2> QED BY <2>4, <2>5
<1> QED BY <1>3, <1>4, <1>5 DEF Weak!Numbers, Weak!Even

\* One sequence behind another.
LEMMA Joined ==
    ASSUME NEW S, NEW a \in Seq(S), NEW b \in Seq(S)
    PROVE  /\ a \o b \in Seq(S) /\ Len(a \o b) = Len(a) + Len(b)
           /\ \A i \in 1 .. Len(a) : (a \o b)[i] = a[i]
           /\ \A i \in 1 .. Len(b) : (a \o b)[Len(a) + i] = b[i]
<1> DEFINE r == a \o b
           m == Len(a)
           n == Len(b)
<1>1. /\ r \in Seq(S) /\ Len(r) = m + n
      /\ \A i \in 1 .. m + n : r[i] = IF i <= m THEN a[i] ELSE b[i - m]
  BY ConcatProperties
<1>2. m \in Nat /\ n \in Nat
  BY LenProperties
<1> HIDE DEF r, m, n
<1>3. ASSUME NEW i \in 1 .. m PROVE r[i] = a[i]
  <2>1. i \in 1 .. m + n /\ i <= m
    BY <1>2
  <2> QED BY <1>1, <2>1
<1>4. ASSUME NEW i \in 1 .. n PROVE r[m + i] = b[i]
  <2>1. m + i \in 1 .. m + n /\ ~(m + i <= m) /\ (m + i) - m = i
    BY <1>2
  <2> QED BY <1>1, <2>1
<1> QED BY <1>1, <1>3, <1>4 DEF r, m, n

\* The stores of a commit.
LEMMA LatestBlock ==
    ASSUME NEW n \in Weak!Numbers, scratch \in Item
    PROVE  /\ Weak!StoresOf(n) \in Seq(LatestStores) /\ Len(Weak!StoresOf(n)) = WordCount + 3
           /\ Weak!StoresOf(n)[1] = Weak!Store(Weak!SeqLoc, n)
           /\ \A w \in Weak!Words :
                 Weak!StoresOf(n)[w + 1] = Weak!Store(Weak!WordLoc(w), scratch)
           /\ Weak!StoresOf(n)[WordCount + 2] = Weak!Store(Weak!CrcLoc, Uniform(scratch))
           /\ Weak!StoresOf(n)[WordCount + 3] = Weak!Store(Weak!SeqLoc, Weak!Plus1(n))
<1>0. WordCount \in Nat \ {0} /\ Weak!Plus1(n) \in Weak!Numbers
  BY LatestShape, LatestParity
<1> DEFINE a == <<Weak!Store(Weak!SeqLoc, n)>>
           b == [w \in Weak!Words |-> Weak!Store(Weak!WordLoc(w), scratch)]
           c == <<Weak!Store(Weak!CrcLoc, Weak!Crc(Uniform(scratch))),
                  Weak!Store(Weak!SeqLoc, Weak!Plus1(n))>>
           ab == a \o b
           abc == ab \o c
<1>1. /\ Weak!Store(Weak!SeqLoc, n) \in LatestStores
      /\ Weak!Store(Weak!SeqLoc, Weak!Plus1(n)) \in LatestStores
      /\ \A w \in Weak!Words : Weak!Store(Weak!WordLoc(w), scratch) \in LatestStores
      /\ Weak!Store(Weak!CrcLoc, Weak!Crc(Uniform(scratch))) \in LatestStores
  <2>1. Uniform(scratch) \in [Weak!Words -> Item \cup {None}]
    BY DEF Uniform
  <2> HIDE DEF Uniform
  <2> QED BY <1>0, <2>1, LatestPlaces DEF Weak!Store, LatestStores, Weak!Crc
<1>2. a \in Seq(LatestStores) /\ Len(a) = 1 /\ a[1] = Weak!Store(Weak!SeqLoc, n)
  BY <1>1
<1>3. b \in Seq(LatestStores) /\ Len(b) = WordCount
      /\ \A w \in Weak!Words : b[w] = Weak!Store(Weak!WordLoc(w), scratch)
  BY <1>0, <1>1 DEF Weak!Words
<1>4. /\ c \in Seq(LatestStores) /\ Len(c) = 2
      /\ c[1] = Weak!Store(Weak!CrcLoc, Weak!Crc(Uniform(scratch)))
      /\ c[2] = Weak!Store(Weak!SeqLoc, Weak!Plus1(n))
  BY <1>1
<1> HIDE DEF a, b, c
<1>5. /\ ab \in Seq(LatestStores) /\ Len(ab) = 1 + WordCount
      /\ \A i \in 1 .. 1 : ab[i] = a[i]
      /\ \A i \in 1 .. WordCount : ab[1 + i] = b[i]
  <2>0. a \in Seq(LatestStores) /\ b \in Seq(LatestStores)
    BY <1>2, <1>3
  <2>1. a \o b \in Seq(LatestStores) /\ Len(a \o b) = Len(a) + Len(b)
    BY <2>0, Joined
  <2>2. \A k \in 1 .. Len(a) : (a \o b)[k] = a[k]
    BY <2>0, Joined
  <2>3. \A k \in 1 .. Len(b) : (a \o b)[Len(a) + k] = b[k]
    BY <2>0, Joined
  <2>4. ab = a \o b
    OBVIOUS
  <2> HIDE DEF ab
  <2> QED BY <1>2, <1>3, <2>1, <2>2, <2>3, <2>4
<1> HIDE DEF ab
<1>6. /\ abc \in Seq(LatestStores) /\ Len(abc) = 1 + WordCount + 2
      /\ \A i \in 1 .. 1 + WordCount : abc[i] = ab[i]
      /\ \A i \in 1 .. 2 : abc[1 + WordCount + i] = c[i]
  <2>0. ab \in Seq(LatestStores) /\ c \in Seq(LatestStores)
    BY <1>4, <1>5
  <2>1. ab \o c \in Seq(LatestStores) /\ Len(ab \o c) = Len(ab) + Len(c)
    BY <2>0, Joined
  <2>2. \A k \in 1 .. Len(ab) : (ab \o c)[k] = ab[k]
    BY <2>0, Joined
  <2>3. \A k \in 1 .. Len(c) : (ab \o c)[Len(ab) + k] = c[k]
    BY <2>0, Joined
  <2>4. abc = ab \o c
    OBVIOUS
  <2> HIDE DEF abc
  <2> QED BY <1>4, <1>5, <2>1, <2>2, <2>3, <2>4
<1> HIDE DEF abc
<1>7. abc = Weak!StoresOf(n)
  BY DEF abc, ab, a, b, c, Weak!StoresOf, Uniform
<1>8. abc[1] = Weak!Store(Weak!SeqLoc, n)
  <2>1. 1 \in 1 .. 1 + WordCount /\ 1 \in 1 .. 1
    BY <1>0
  <2> QED BY <1>2, <1>5, <1>6, <2>1
<1>9. ASSUME NEW w \in Weak!Words PROVE abc[w + 1] = Weak!Store(Weak!WordLoc(w), scratch)
  <2>1. 1 + w \in 1 .. 1 + WordCount /\ w \in 1 .. WordCount /\ w + 1 = 1 + w
    BY <1>0 DEF Weak!Words
  <2> QED BY <1>3, <1>5, <1>6, <2>1
<1>10. abc[WordCount + 2] = c[1] /\ abc[WordCount + 3] = c[2] /\ Len(abc) = WordCount + 3
  <2>1. /\ WordCount + 2 = 1 + WordCount + 1 /\ WordCount + 3 = 1 + WordCount + 2
        /\ 1 \in 1 .. 2 /\ 2 \in 1 .. 2
    BY <1>0
  <2> QED BY <1>6, <2>1
<1> QED BY <1>4, <1>6, <1>7, <1>8, <1>9, <1>10 DEF Weak!Crc

\* A sequence without its i-th element.
LeftOf(b, i) == SubSeq(b, 1, i - 1) \o SubSeq(b, i + 1, Len(b))
\* What is left, in the same order.
LEMMA LeftOut ==
    ASSUME NEW S, NEW b \in Seq(S), NEW i \in 1 .. Len(b),
           NEW r, r = LeftOf(b, i)
    PROVE  /\ r \in Seq(S) /\ Len(r) = Len(b) - 1
           /\ \A k \in 1 .. Len(b) - 1 : r[k] = IF k < i THEN b[k] ELSE b[k + 1]
<1> DEFINE n == Len(b)
           x == SubSeq(b, 1, i - 1)
           y == SubSeq(b, i + 1, n)
<1>1. n \in Nat /\ i \in 1 .. n /\ i \in Int /\ \A k \in 1 .. n : b[k] \in S
  BY ElementOfSeq, LenProperties
<1>2. /\ x \in Seq(S) /\ Len(x) = i - 1
      /\ \A k \in 1 .. i - 1 : x[k] = b[k]
  <2>1. \A k \in 1 .. i - 1 : b[k] \in S
    BY <1>1
  <2>2. 1 \in Int /\ i - 1 \in Int
    BY <1>1
  <2>3. /\ x \in Seq(S) /\ Len(x) = (IF 1 <= i - 1 THEN i - 1 - 1 + 1 ELSE 0)
        /\ \A k \in 1 .. i - 1 - 1 + 1 : x[k] = b[1 + k - 1]
    BY <2>1, <2>2, SubSeqProperties
  <2> HIDE DEF x, n
  <2>4. i - 1 - 1 + 1 = i - 1 /\ (~(1 <= i - 1) => i - 1 = 0)
        /\ \A k \in 1 .. i - 1 : 1 + k - 1 = k
    BY <1>1
  <2> QED BY <2>3, <2>4
<1>3. /\ y \in Seq(S) /\ Len(y) = n - i
      /\ \A k \in 1 .. n - i : y[k] = b[i + k]
  <2>1. \A k \in i + 1 .. n : b[k] \in S
    BY <1>1
  <2>2. n \in Int /\ i + 1 \in Int
    BY <1>1
  <2>3. /\ y \in Seq(S) /\ Len(y) = (IF i + 1 <= n THEN n - (i + 1) + 1 ELSE 0)
        /\ \A k \in 1 .. n - (i + 1) + 1 : y[k] = b[i + 1 + k - 1]
    BY <2>1, <2>2, SubSeqProperties
  <2> HIDE DEF y, n
  <2>4. n - (i + 1) + 1 = n - i /\ (~(i + 1 <= n) => n - i = 0)
        /\ \A k \in 1 .. n - i : i + 1 + k - 1 = i + k
    BY <1>1
  <2> QED BY <2>3, <2>4
<1>4. r = x \o y
  BY DEF LeftOf
<1> HIDE DEF x, y
<1>5. /\ r \in Seq(S) /\ Len(r) = (i - 1) + (n - i)
      /\ \A k \in 1 .. i - 1 : r[k] = x[k]
      /\ \A k \in 1 .. n - i : r[(i - 1) + k] = y[k]
  <2>0. x \in Seq(S) /\ y \in Seq(S)
    BY <1>2, <1>3
  <2>1. x \o y \in Seq(S) /\ Len(x \o y) = Len(x) + Len(y)
    BY <2>0, Joined
  <2>2. \A k \in 1 .. Len(x) : (x \o y)[k] = x[k]
    BY <2>0, Joined
  <2>3. \A k \in 1 .. Len(y) : (x \o y)[Len(x) + k] = y[k]
    BY <2>0, Joined
  <2>4. r = x \o y
    BY <1>4
  <2> QED BY <1>2, <1>3, <2>1, <2>2, <2>3, <2>4
<1> HIDE DEF n
<1>6. (i - 1) + (n - i) = n - 1
  BY <1>1
<1>7. ASSUME NEW k \in 1 .. n - 1 PROVE r[k] = IF k < i THEN b[k] ELSE b[k + 1]
  <2>1. CASE k < i
    <3>1. k \in 1 .. i - 1
      BY <1>1, <2>1
    <3> QED BY <1>2, <1>5, <2>1, <3>1
  <2>2. CASE ~(k < i)
    <3> DEFINE j == k - (i - 1)
    <3>1. j \in 1 .. n - i /\ (i - 1) + j = k /\ i + j = k + 1
      BY <1>1, <2>2
    <3> HIDE DEF j
    <3> QED BY <1>3, <1>5, <2>2, <3>1
  <2> QED BY <2>1, <2>2
<1> QED BY <1>5, <1>6, <1>7 DEF n

LatestBound == (IF part = "weak" THEN WeakStores ELSE MaxStores) + WordCount + 3
LatestTypes ==
    /\ mem \in [seq : Weak!Numbers, payload : [Weak!Words -> Item \cup {None}],
                crc : [Weak!Words -> Item \cup {None}]]
    /\ buffer \in Seq(LatestStores) /\ Len(buffer) <= LatestBound
    /\ \A i \in 1 .. Len(buffer) : StoreIs(buffer[i])
    /\ seq \in Weak!Numbers /\ Weak!Even(seq)
    /\ wrPending \in BOOLEAN /\ scratch \in Item \cup {None}
    /\ wrPending => scratch \in Item
    /\ rpc \in {"idle", "copying"} /\ rseq \in Weak!Numbers
    /\ got \in Seq([loc : Weak!CopyLocs,
                    val : Item \cup {None} \cup [Weak!Words -> Item \cup {None}]])
    /\ result.ret \in {"OK", "WOULD_BLOCK", "INVALID"}
    /\ published \in Item \cup {None}
    /\ lap \in 0 .. LatestMod \div 2 - 1

\* N[k] is the number when the first k stores have arrived: each store of the number
\* adds one to it, and all others are made while it is odd.
Numbered(N) ==
    /\ N[0] = mem.seq /\ N[Len(buffer)] = seq
    /\ \A i \in 1 .. Len(buffer) :
          IF buffer[i].loc = Weak!SeqLoc
          THEN buffer[i].val = N[i] /\ N[i] = Weak!Plus1(N[i - 1])
          ELSE N[i] = N[i - 1] /\ ~Weak!Even(N[i])
ChainInv == \E N \in [0 .. Len(buffer) -> Weak!Numbers] : Numbered(N)

\* The checksum is stored just before the number that ends its commit, and no later
\* checksum arrives before an earlier one: when the number does, the reader sees the
\* checksum of that frame or of a newer one.
FrameAhead(i, c) ==
    \E j \in i .. Len(buffer) : Ends(buffer[j]) /\ c = Uniform(buffer[j].frame)
WeakInv ==
    /\ \A i \in 1 .. Len(buffer) :
          /\ (buffer[i].loc = Weak!CrcLoc) =>
                /\ i < Len(buffer) /\ Ends(buffer[i + 1])
                /\ buffer[i + 1].frame = buffer[i].frame
          /\ Ends(buffer[i]) =>
                \/ i > 1 /\ buffer[i - 1].loc = Weak!CrcLoc
                \/ /\ \A k \in 1 .. i - 1 : buffer[k].loc # Weak!CrcLoc
                   /\ FrameAhead(i, mem.crc)
    /\ mem.crc = Uniform(published) \/ FrameAhead(1, mem.crc)

\* A call of the reader knows how far the number has come since it began.
ReaderInv ==
    /\ mem.seq # 0 /\ Weak!Even(mem.seq) => published \in Item
    /\ (rpc = "idle") => lap = 0
    /\ (rpc = "copying") =>
          /\ published \in Item
          /\ Span(LatestMod, mem.seq, rseq) =
                IF Weak!Even(mem.seq) THEN 2 * lap ELSE 2 * lap + 1
          /\ \A i \in 1 .. Len(got) :
                got[i].loc = Weak!CrcLoc /\ lap = 0 =>
                    got[i].val = Uniform(published) \/ FrameAhead(1, got[i].val)

\* In order: P[k] and C[k] are payload and checksum when the first k stores have
\* arrived; at the end of a commit they are those of its frame.
InPlace(P, C) ==
    /\ P[0] = mem.payload /\ C[0] = mem.crc
    /\ Weak!Even(mem.seq) => P[0] = Uniform(published) /\ C[0] = Uniform(published)
    /\ \A i \in 1 .. Len(buffer) :
          /\ (buffer[i].loc = Weak!SeqLoc) => P[i] = P[i - 1] /\ C[i] = C[i - 1]
          /\ (buffer[i].loc = Weak!CrcLoc) => P[i] = P[i - 1] /\ C[i] = buffer[i].val
          /\ \A w \in Weak!Words : (buffer[i].loc = Weak!WordLoc(w)) =>
                P[i] = [P[i - 1] EXCEPT ![w] = buffer[i].val] /\ C[i] = C[i - 1]
          /\ Ends(buffer[i]) =>
                P[i] = Uniform(buffer[i].frame) /\ C[i] = Uniform(buffer[i].frame)
Places == [0 .. Len(buffer) -> [Weak!Words -> Item \cup {None}]]
PlacesInv == \E P, C \in Places : InPlace(P, C)
Current(l) == IF l = Weak!CrcLoc THEN mem.crc ELSE mem.payload[l.word]
OrderedInv ==
    (part = "ordered") =>
        /\ PlacesInv
        /\ rpc = "copying" /\ lap = 0 /\ Weak!Even(mem.seq) =>
              \A i \in 1 .. Len(got) : got[i].val = Current(got[i].loc)
        /\ result.ret # "INVALID"

ResultInv == (result.ret = "OK") => \E v \in Item : result.payload = Uniform(v)

LatestInv == LatestTypes /\ ChainInv /\ WeakInv /\ ReaderInv /\ OrderedInv /\ ResultInv

\* The operations, in whatever order their stores arrive.
LatestCommit ==
    /\ wrPending
    /\ Len(buffer) + WordCount + 3 <= LatestBound
    /\ buffer' = buffer \o Weak!StoresOf(Weak!NextOdd)
    /\ seq' = Weak!Plus1(Weak!NextOdd)
    /\ wrPending' = FALSE /\ scratch' = None
    /\ UNCHANGED <<mem, rpc, rseq, got, result, published, lap>>
LatestArrive ==
    \E i \in 1 .. Len(buffer) : Weak!Arrive(i) /\ (part = "ordered" => i = 1)
LatestReads == Weak!BeginRead \/ (\E l \in Weak!CopyLocs : Weak!CopyOne(l)) \/ Weak!EndRead

\* A step of the channel is one of them, in order or not.
LEMMA LatestSteps ==
    ASSUME LatestTypes,
           \/ part = "ordered" /\ Ordered!Next
           \/ part = "weak" /\ Weak!Next
    PROVE  Weak!AcquireWrite \/ Weak!Abort \/ LatestCommit \/ LatestArrive \/ LatestReads
<1>0. Len(buffer) \in Nat /\ WordCount \in Nat /\ MaxStores \in Nat /\ WeakStores \in Nat
  BY LatestShape DEF LatestTypes
<1>1. CASE part = "weak" /\ Weak!Next
  <2>1. Weak!Commit => LatestCommit
    <3> SUFFICES ASSUME Weak!Commit PROVE LatestCommit
      OBVIOUS
    <3>1. Len(buffer) <= WeakStores
      BY DEF Weak!Commit
    <3>2. Len(buffer) + WordCount + 3 <= LatestBound
      BY <1>0, <1>1, <3>1 DEF LatestBound
    <3> QED BY <3>2 DEF Weak!Commit, LatestCommit, Weak!reader
  <2>2. \A i \in 1 .. Len(buffer) : Weak!Arrive(i) => LatestArrive
    BY <1>1 DEF LatestArrive
  <2> QED BY <1>1, <2>1, <2>2 DEF Weak!Next, LatestReads
<1>2. CASE part = "ordered" /\ Ordered!Next
  <2>1. Ordered!Commit => LatestCommit
    <3> SUFFICES ASSUME Ordered!Commit PROVE LatestCommit
      OBVIOUS
    <3>1. Len(buffer) <= MaxStores
      BY DEF Ordered!Commit
    <3>2. Len(buffer) + WordCount + 3 <= LatestBound
      BY <1>0, <1>2, <3>1 DEF LatestBound
    <3>3. Ordered!NextOdd = Weak!NextOdd
      BY DEF Ordered!NextOdd, Weak!NextOdd, Ordered!Plus1, Weak!Plus1, Ordered!Even, Weak!Even
    <3>4. \A n : /\ Ordered!StoresOf(n) = Weak!StoresOf(n)
                 /\ Ordered!Plus1(n) = Weak!Plus1(n)
      BY DEF Ordered!StoresOf, Weak!StoresOf, Ordered!Plus1, Weak!Plus1, Ordered!Store,
             Weak!Store, Ordered!SeqLoc, Weak!SeqLoc, Ordered!CrcLoc, Weak!CrcLoc,
             Ordered!WordLoc, Weak!WordLoc, Ordered!Words, Weak!Words, Ordered!Crc, Weak!Crc
    <3> QED BY <3>2, <3>3, <3>4 DEF Ordered!Commit, LatestCommit, Ordered!reader
  <2>2. ASSUME NEW i \in 1 .. Len(buffer), Ordered!Arrive(i) PROVE LatestArrive
    <3>1. i = 1
      BY <2>2 DEF Ordered!Arrive, Ordered!MayArrive
    <3>2. Weak!Arrive(i)
      BY <2>2, <3>1 DEF Ordered!Arrive, Weak!Arrive, Weak!MayArrive, Ordered!SeqLoc,
         Weak!SeqLoc, Ordered!CrcLoc, Weak!CrcLoc, Ordered!Even, Weak!Even, Ordered!InWindow,
         Weak!InWindow, Ordered!Without, Weak!Without, Ordered!writer, Weak!writer,
         Ordered!reader, Weak!reader
    <3> QED BY <3>1, <3>2 DEF LatestArrive
  <2>3. /\ Ordered!AcquireWrite => Weak!AcquireWrite
        /\ Ordered!Abort => Weak!Abort
    BY DEF Ordered!AcquireWrite, Weak!AcquireWrite, Ordered!Abort, Weak!Abort,
           Ordered!reader, Weak!reader
  <2>4. Ordered!BeginRead => Weak!BeginRead
    BY DEF Ordered!BeginRead, Weak!BeginRead, Ordered!Readable, Weak!Readable, Ordered!Even,
           Weak!Even, Ordered!Blank, Weak!Blank, Ordered!Words, Weak!Words, Ordered!writer,
           Weak!writer
  <2>5. Ordered!CopyLocs = Weak!CopyLocs
    BY DEF Ordered!CopyLocs, Weak!CopyLocs, Ordered!WordLoc, Weak!WordLoc, Ordered!CrcLoc,
           Weak!CrcLoc, Ordered!Words, Weak!Words
  <2>6. \A l : Ordered!CopyOne(l) => Weak!CopyOne(l)
    BY DEF Ordered!CopyOne, Weak!CopyOne, Ordered!Copied, Weak!Copied, Ordered!CrcLoc,
           Weak!CrcLoc, Ordered!writer, Weak!writer
  <2>7. Ordered!EndRead => Weak!EndRead
    <3>1. \A l : Ordered!Value(l) = Weak!Value(l)
      BY DEF Ordered!Value, Weak!Value
    <3>2. Ordered!CopiedPayload = Weak!CopiedPayload
      BY <3>1 DEF Ordered!CopiedPayload, Weak!CopiedPayload, Ordered!WordLoc, Weak!WordLoc,
                  Ordered!Words, Weak!Words
    <3>3. Ordered!ChecksumMatches = Weak!ChecksumMatches
      BY <3>1, <3>2 DEF Ordered!ChecksumMatches, Weak!ChecksumMatches, Ordered!Crc, Weak!Crc,
                        Ordered!CrcLoc, Weak!CrcLoc
    <3> QED BY <2>5, <3>2, <3>3 DEF Ordered!EndRead, Weak!EndRead, Ordered!Copied, Weak!Copied,
            Ordered!Stable, Weak!Stable, Ordered!Blank, Weak!Blank, Ordered!Words, Weak!Words,
            Ordered!writer, Weak!writer
  <2> QED BY <1>2, <2>1, <2>2, <2>3, <2>4, <2>5, <2>6, <2>7 DEF Ordered!Next, LatestReads
<1> QED BY <1>1, <1>2

\* Nothing has been stored.
LEMMA LatestInit == Ordered!Init => LatestInv
<1> SUFFICES ASSUME Ordered!Init PROVE LatestInv
  OBVIOUS
<1>0. /\ LatestMod \in Nat \ {0} /\ LatestMod >= 4 /\ LatestMod = 2 * (LatestMod \div 2)
      /\ LatestMod \div 2 \in Nat /\ 0 \in Weak!Numbers /\ Weak!Even(0)
      /\ WordCount \in Nat \ {0} /\ MaxStores \in Nat /\ WeakStores \in Nat
  BY LatestShape, LatestParity
<1>1. /\ mem = [seq |-> 0, payload |-> Uniform(None), crc |-> Uniform(None)]
      /\ buffer = <<>> /\ Len(buffer) = 0
      /\ seq = 0 /\ wrPending = FALSE /\ scratch = None
      /\ rpc = "idle" /\ rseq = 0 /\ got = <<>> /\ result.ret = "WOULD_BLOCK"
      /\ published = None /\ lap = 0
  BY DEF Ordered!Init, Ordered!Blank, Ordered!Words, Weak!Words, Uniform
<1>2. Uniform(None) \in [Weak!Words -> Item \cup {None}]
  BY DEF Uniform
<1>3. LatestTypes
  <2>1. 0 <= LatestBound /\ 0 \in 0 .. LatestMod \div 2 - 1
    BY <1>0 DEF LatestBound
  <2>2. mem \in [seq : Weak!Numbers, payload : [Weak!Words -> Item \cup {None}],
                 crc : [Weak!Words -> Item \cup {None}]]
    <3> HIDE DEF Uniform
    <3> QED BY <1>0, <1>1, <1>2
  <2>3. /\ buffer \in Seq(LatestStores)
        /\ got \in Seq([loc : Weak!CopyLocs,
                      val : Item \cup {None} \cup [Weak!Words -> Item \cup {None}]])
    BY <1>1, EmptySeq
  <2>4. Len(buffer) <= LatestBound /\ \A i \in 1 .. Len(buffer) : StoreIs(buffer[i])
    <3>1. \A i \in 1 .. Len(buffer) : FALSE
      BY <1>1
    <3> QED BY <1>1, <2>1, <3>1
  <2>5. /\ seq \in Weak!Numbers /\ Weak!Even(seq)
        /\ wrPending \in BOOLEAN /\ scratch \in Item \cup {None}
        /\ ~wrPending
        /\ rpc \in {"idle", "copying"} /\ rseq \in Weak!Numbers
        /\ result.ret \in {"OK", "WOULD_BLOCK", "INVALID"}
        /\ published \in Item \cup {None}
        /\ lap \in 0 .. LatestMod \div 2 - 1
    BY <1>0, <1>1, <2>1
  <2> QED BY <2>2, <2>3, <2>4, <2>5 DEF LatestTypes
<1>4. ChainInv
  <2> DEFINE N == [k \in 0 .. Len(buffer) |-> 0]
  <2>1. N \in [0 .. Len(buffer) -> Weak!Numbers] /\ Numbered(N)
    BY <1>0, <1>1 DEF Numbered
  <2> QED BY <2>1 DEF ChainInv
<1>5. WeakInv /\ ReaderInv /\ ResultInv
  BY <1>1 DEF WeakInv, ReaderInv, ResultInv
<1>6. OrderedInv
  <2> DEFINE P == [k \in 0 .. Len(buffer) |-> Uniform(None)]
  <2>1. P \in Places /\ InPlace(P, P)
    BY <1>1, <1>2 DEF InPlace, Places
  <2> QED BY <1>1, <2>1 DEF OrderedInv, PlacesInv
<1> QED BY <1>3, <1>4, <1>5, <1>6 DEF LatestInv

\* What is on its way stays.
LEMMA PlacesKept ==
    ASSUME PlacesInv, UNCHANGED <<mem, buffer, published>>
    PROVE  PlacesInv'
<1>1. PICK P \in Places, C \in Places : InPlace(P, C)
  BY DEF PlacesInv
<1>2. (P \in Places /\ C \in Places)'
  BY <1>1 DEF Places
<1>3. InPlace(P, C)'
  BY <1>1 DEF InPlace
<1> QED BY <1>2, <1>3 DEF PlacesInv

\* What the writing CPU does before its stores.
LEMMA LatestHand ==
    ASSUME LatestInv, part' = part, Weak!AcquireWrite \/ Weak!Abort
    PROVE  LatestInv' /\ UNCHANGED <<mem, buffer, rpc, rseq, got, result, published, lap>>
<1>1. UNCHANGED <<mem, buffer, seq, rpc, rseq, got, result, published, lap>>
  BY DEF Weak!AcquireWrite, Weak!Abort, Weak!reader
<1>2. /\ wrPending' \in BOOLEAN /\ scratch' \in Item \cup {None}
      /\ wrPending' => scratch' \in Item
  BY DEF Weak!AcquireWrite, Weak!Abort
<1>3. LatestTypes'
  BY <1>1, <1>2 DEF LatestInv, LatestTypes, LatestBound
<1>4. ChainInv'
  BY <1>1 DEF LatestInv, ChainInv, Numbered
<1>5. WeakInv'
  BY <1>1 DEF LatestInv, WeakInv, FrameAhead
<1>6. ReaderInv'
  BY <1>1 DEF LatestInv, ReaderInv, FrameAhead
<1>7. OrderedInv'
  BY <1>1, PlacesKept DEF LatestInv, OrderedInv, Current
<1>8. ResultInv'
  BY <1>1 DEF LatestInv, ResultInv
<1> QED BY <1>1, <1>3, <1>4, <1>5, <1>6, <1>7, <1>8 DEF LatestInv

\* A call of the reader begins.
LEMMA LatestBegin ==
    ASSUME LatestInv, part' = part, Weak!BeginRead
    PROVE  LatestInv' /\ UNCHANGED published /\ result'.ret # "OK"
<1>0. LatestMod \in Nat \ {0} /\ LatestMod >= 4 /\ LatestMod \div 2 \in Nat
      /\ LatestMod = 2 * (LatestMod \div 2)
  BY LatestShape, LatestParity
<1>1. UNCHANGED <<mem, buffer, seq, wrPending, scratch, published>>
  BY DEF Weak!BeginRead, Weak!writer
<1>2. /\ mem.seq # 0 /\ Weak!Even(mem.seq)
      /\ rpc' = "copying" /\ rseq' = mem.seq /\ got' = <<>> /\ Len(got') = 0
      /\ result'.ret = "WOULD_BLOCK" /\ lap' = 0
  BY DEF Weak!BeginRead, Weak!Readable
<1>3. LatestTypes'
  <2>1. mem.seq \in Weak!Numbers /\ lap' \in 0 .. LatestMod \div 2 - 1
    BY <1>0, <1>2 DEF LatestInv, LatestTypes
  <2>2. got' \in Seq([loc : Weak!CopyLocs,
                      val : Item \cup {None} \cup [Weak!Words -> Item \cup {None}]])
    BY <1>2, EmptySeq
  <2> QED BY <1>1, <1>2, <2>1, <2>2 DEF LatestInv, LatestTypes, LatestBound
<1>4. ChainInv'
  BY <1>1 DEF LatestInv, ChainInv, Numbered
<1>5. WeakInv'
  BY <1>1 DEF LatestInv, WeakInv, FrameAhead
<1>6. ReaderInv'
  <2>1. published \in Item
    BY <1>2 DEF LatestInv, ReaderInv
  <2>2. Span(LatestMod, mem.seq, mem.seq) = 0
    <3>1. mem.seq \in 0 .. LatestMod - 1
      BY DEF LatestInv, LatestTypes, Weak!Numbers
    <3>2. Span(LatestMod, mem.seq, mem.seq) =
             IF mem.seq >= mem.seq THEN mem.seq - mem.seq ELSE mem.seq - mem.seq + LatestMod
      BY <1>0, <3>1, SpanIs
    <3> QED BY <3>1, <3>2
  <2>3. Span(LatestMod, mem'.seq, rseq') = 2 * lap' /\ Weak!Even(mem'.seq)
    BY <1>1, <1>2, <2>2
  <2>4. \A i \in 1 .. Len(got') : FALSE
    BY <1>2
  <2> QED BY <1>1, <1>2, <2>1, <2>3, <2>4 DEF ReaderInv
<1>7. OrderedInv'
  <2>1. \A i \in 1 .. Len(got') : FALSE
    BY <1>2
  <2>2. part = "ordered" => PlacesInv'
    BY <1>1, PlacesKept DEF LatestInv, OrderedInv
  <2> QED BY <1>2, <2>1, <2>2 DEF OrderedInv
<1>8. ResultInv'
  BY <1>2 DEF ResultInv
<1> QED BY <1>1, <1>2, <1>3, <1>4, <1>5, <1>6, <1>7, <1>8 DEF LatestInv

\* A load of the reader.
LEMMA LatestCopy ==
    ASSUME LatestInv, part' = part, NEW l \in Weak!CopyLocs, Weak!CopyOne(l)
    PROVE  LatestInv' /\ UNCHANGED <<result, published>>
<1> DEFINE e == [loc |-> l, val |-> Current(l)]
           G == [loc : Weak!CopyLocs,
                 val : Item \cup {None} \cup [Weak!Words -> Item \cup {None}]]
<1>1. /\ UNCHANGED <<mem, buffer, seq, wrPending, scratch, rpc, rseq, result, published, lap>>
      /\ rpc = "copying"
  BY DEF Weak!CopyOne, Weak!writer
<1>2. got' = Append(got, e)
  BY DEF Weak!CopyOne, Current
<1>3. e \in G /\ e.loc = l /\ e.val = Current(l)
  <2>1. Current(l) \in Item \cup {None} \cup [Weak!Words -> Item \cup {None}]
    <3>1. /\ mem.crc \in [Weak!Words -> Item \cup {None}]
          /\ mem.payload \in [Weak!Words -> Item \cup {None}]
      BY DEF LatestInv, LatestTypes
    <3>2. l = Weak!CrcLoc \/ \E w \in Weak!Words : l = Weak!WordLoc(w) /\ l.word = w
      BY LatestPlaces
    <3> QED BY <3>1, <3>2 DEF Current
  <2> QED BY <2>1
<1> HIDE DEF e
<1>4. got \in Seq(G) /\ Len(got) \in Nat
  BY LenProperties DEF LatestInv, LatestTypes
<1>5. /\ got' \in Seq(G) /\ Len(got') = Len(got) + 1
      /\ \A i \in 1 .. Len(got) : got'[i] = got[i]
      /\ got'[Len(got) + 1] = e
  BY <1>2, <1>3, <1>4, AppendProperties
<1>6. \A i \in 1 .. Len(got') : \/ i \in 1 .. Len(got) /\ got'[i] = got[i]
                                \/ got'[i] = e
  BY <1>4, <1>5
<1>7. LatestTypes'
  BY <1>1, <1>5 DEF LatestInv, LatestTypes, LatestBound
<1>8. ChainInv'
  BY <1>1 DEF LatestInv, ChainInv, Numbered
<1>9. WeakInv'
  BY <1>1 DEF LatestInv, WeakInv, FrameAhead
<1>10. ReaderInv'
  <2>1. ASSUME NEW i \in 1 .. Len(got'), got'[i].loc = Weak!CrcLoc, lap = 0
        PROVE  got'[i].val = Uniform(published) \/ FrameAhead(1, got'[i].val)
    <3>1. CASE i \in 1 .. Len(got) /\ got'[i] = got[i]
      BY <1>1, <2>1, <3>1 DEF LatestInv, ReaderInv
    <3>2. CASE got'[i] = e
      <4>1. e.val = mem.crc
        BY <1>3, <2>1, <3>2 DEF Current
      <4> QED BY <3>2, <4>1 DEF LatestInv, WeakInv
    <3> QED BY <1>6, <3>1, <3>2
  <2>2. \A c : FrameAhead(1, c) => FrameAhead(1, c)'
    BY <1>1 DEF FrameAhead
  <2>3. \A i \in 1 .. Len(got') :
           got'[i].loc = Weak!CrcLoc /\ lap' = 0 =>
              got'[i].val = Uniform(published') \/ (FrameAhead(1, got[i].val))'
    BY <1>1, <2>1 DEF FrameAhead
  <2>4. /\ mem.seq # 0 /\ Weak!Even(mem.seq) => published \in Item
        /\ published \in Item
        /\ Span(LatestMod, mem.seq, rseq) =
                IF Weak!Even(mem.seq) THEN 2 * lap ELSE 2 * lap + 1
    BY <1>1 DEF LatestInv, ReaderInv
  <2> QED BY <1>1, <2>3, <2>4 DEF ReaderInv
<1>11. OrderedInv'
  <2> SUFFICES ASSUME part = "ordered" PROVE OrderedInv'
    BY DEF OrderedInv
  <2>1. PlacesInv'
    BY <1>1, PlacesKept DEF LatestInv, OrderedInv
  <2>2. ASSUME lap = 0, Weak!Even(mem.seq), NEW i \in 1 .. Len(got')
        PROVE  got'[i].val = Current(got'[i].loc)
    <3>1. CASE i \in 1 .. Len(got) /\ got'[i] = got[i]
      BY <1>1, <2>2, <3>1 DEF LatestInv, OrderedInv
    <3>2. CASE got'[i] = e
      BY <1>3, <3>2
    <3> QED BY <1>6, <3>1, <3>2
  <2>3. lap' = 0 /\ Weak!Even(mem'.seq) =>
           \A i \in 1 .. Len(got') : got'[i].val = (Current(got[i].loc))'
    BY <1>1, <2>2 DEF Current
  <2>4. result'.ret # "INVALID"
    BY <1>1 DEF LatestInv, OrderedInv
  <2> QED BY <2>1, <2>3, <2>4 DEF OrderedInv
<1>12. ResultInv'
  BY <1>1 DEF LatestInv, ResultInv
<1> QED BY <1>1, <1>7, <1>8, <1>9, <1>10, <1>11, <1>12 DEF LatestInv

\* Every place has been copied, and its value is one that was copied.
LEMMA LatestValue ==
    ASSUME Weak!Copied = Weak!CopyLocs, NEW l \in Weak!CopyLocs
    PROVE  \E i \in 1 .. Len(got) : got[i].loc = l /\ Weak!Value(l) = got[i].val
<1>1. \E i \in 1 .. Len(got) : got[i].loc = l
  BY DEF Weak!Copied
<1> DEFINE j == CHOOSE i \in 1 .. Len(got) : got[i].loc = l
<1>2. j \in 1 .. Len(got) /\ got[j].loc = l
  BY <1>1
<1>3. Weak!Value(l) = got[j].val
  BY DEF Weak!Value
<1> HIDE DEF j
<1> QED BY <1>2, <1>3

\* A number that has not changed has not moved at all: nothing was published.
LEMMA LatestStable ==
    ASSUME LatestInv, rpc = "copying", Weak!Stable
    PROVE  lap = 0 /\ Weak!Even(mem.seq)
<1>1. /\ LatestMod \in Nat \ {0} /\ mem.seq \in 0 .. LatestMod - 1 /\ rseq = mem.seq
      /\ lap \in Nat
  <2>1. LatestMod \in Nat \ {0} /\ LatestMod \div 2 \in Nat
    BY LatestShape, LatestParity
  <2>2. lap \in 0 .. LatestMod \div 2 - 1
    BY DEF LatestInv, LatestTypes
  <2> QED BY <2>1, <2>2 DEF LatestInv, LatestTypes, Weak!Numbers, Weak!Stable
<1>2. Span(LatestMod, mem.seq, rseq) = 0
  <2>1. Span(LatestMod, mem.seq, mem.seq) =
           IF mem.seq >= mem.seq THEN mem.seq - mem.seq ELSE mem.seq - mem.seq + LatestMod
    BY <1>1, SpanIs
  <2> QED BY <1>1, <2>1
<1>3. 0 = IF Weak!Even(mem.seq) THEN 2 * lap ELSE 2 * lap + 1
  BY <1>2 DEF LatestInv, ReaderInv
<1> QED BY <1>1, <1>3

\* What a call of the reader that ends may have seen.
LEMMA LatestVerdict ==
    ASSUME LatestInv, rpc = "copying", Weak!Copied = Weak!CopyLocs, Weak!Stable
    PROVE  /\ Weak!ChecksumMatches =>
                 \E v \in {published} \cup Weak!OnItsWay :
                    v \in Item /\ Weak!CopiedPayload = Uniform(v)
           /\ (part = "ordered") =>
                 Weak!ChecksumMatches /\ Weak!CopiedPayload = Uniform(published)
<1>1. lap = 0 /\ Weak!Even(mem.seq) /\ published \in Item
  BY LatestStable DEF LatestInv, ReaderInv
<1>2. ASSUME Weak!ChecksumMatches
      PROVE  \E v \in {published} \cup Weak!OnItsWay :
                v \in Item /\ Weak!CopiedPayload = Uniform(v)
  <2>1. Weak!CrcLoc \in Weak!CopyLocs
    BY LatestPlaces
  <2>2. PICK i \in 1 .. Len(got) :
           got[i].loc = Weak!CrcLoc /\ Weak!Value(Weak!CrcLoc) = got[i].val
    BY <2>1, LatestValue
  <2>3. Weak!CopiedPayload = got[i].val
    BY <1>2, <2>2 DEF Weak!ChecksumMatches, Weak!Crc
  <2>4. got[i].val = Uniform(published) \/ FrameAhead(1, got[i].val)
    BY <1>1, <2>2 DEF LatestInv, ReaderInv
  <2>5. CASE FrameAhead(1, got[i].val)
    <3>1. PICK j \in 1 .. Len(buffer) : got[i].val = Uniform(buffer[j].frame)
      BY <2>5 DEF FrameAhead
    <3>2. buffer[j].frame \in Item
      <4>1. buffer[j] \in LatestStores
        BY <3>1, ElementOfSeq DEF LatestInv, LatestTypes
      <4> QED BY <4>1 DEF LatestStores
    <3>3. buffer[j].frame \in Weak!OnItsWay
      BY <3>1 DEF Weak!OnItsWay
    <3> QED BY <2>3, <3>1, <3>2, <3>3
  <2> QED BY <1>1, <2>3, <2>4, <2>5
<1>3. ASSUME part = "ordered"
      PROVE  Weak!ChecksumMatches /\ Weak!CopiedPayload = Uniform(published)
  <2>1. \A i \in 1 .. Len(got) : got[i].val = Current(got[i].loc)
    BY <1>1, <1>3 DEF LatestInv, OrderedInv
  <2>2. \A l \in Weak!CopyLocs : Weak!Value(l) = Current(l)
    BY <2>1, LatestValue
  <2>3. mem.payload = Uniform(published) /\ mem.crc = Uniform(published)
    <3>1. PICK P \in Places, C \in Places : InPlace(P, C)
      BY <1>3 DEF LatestInv, OrderedInv, PlacesInv
    <3> QED BY <1>1, <3>1 DEF InPlace
  <2>4. Weak!Value(Weak!CrcLoc) = Uniform(published)
    BY <2>2, <2>3, LatestPlaces DEF Current
  <2>5. \A w \in Weak!Words : Weak!Value(Weak!WordLoc(w)) = published
    <3> TAKE w \in Weak!Words
    <3>1. Weak!Value(Weak!WordLoc(w)) = mem.payload[w]
      BY <2>2, LatestPlaces DEF Current
    <3> QED BY <2>3, <3>1 DEF Uniform
  <2>6. Weak!CopiedPayload = Uniform(published)
    BY <2>5 DEF Weak!CopiedPayload, Uniform
  <2> QED BY <2>4, <2>6 DEF Weak!ChecksumMatches, Weak!Crc
<1> QED BY <1>2, <1>3

\* A call of the reader ends.
LEMMA LatestEnd ==
    ASSUME LatestInv, part' = part, Weak!EndRead
    PROVE  /\ LatestInv' /\ UNCHANGED published
           /\ (result'.ret = "OK") =>
                 \E v \in {published} \cup Weak!OnItsWay :
                    v \in Item /\ result'.payload = Uniform(v)
           /\ (part = "ordered" /\ result'.ret = "OK") =>
                 published \in Item /\ result'.payload = Uniform(published)
<1>0. 0 \in Weak!Numbers /\ 0 \in 0 .. LatestMod \div 2 - 1
  <2>1. LatestMod \div 2 \in Nat /\ LatestMod >= 4 /\ LatestMod \in Nat
        /\ LatestMod = 2 * (LatestMod \div 2) /\ 0 \in Weak!Numbers
    BY LatestParity, LatestShape
  <2>2. 0 <= LatestMod \div 2 - 1
    BY <2>1
  <2> QED BY <2>1, <2>2
<1>1. /\ UNCHANGED <<mem, buffer, seq, wrPending, scratch, published>>
      /\ rpc = "copying" /\ Weak!Copied = Weak!CopyLocs
      /\ rpc' = "idle" /\ got' = <<>> /\ rseq' = 0 /\ lap' = 0
      /\ result' = IF ~Weak!Stable THEN [ret |-> "WOULD_BLOCK", payload |-> Weak!Blank]
                   ELSE IF Weak!ChecksumMatches
                   THEN [ret |-> "OK", payload |-> Weak!CopiedPayload]
                   ELSE [ret |-> "INVALID", payload |-> Weak!Blank]
  BY DEF Weak!EndRead, Weak!writer
<1>2. /\ (result'.ret = "OK") =>
            /\ Weak!Stable /\ Weak!ChecksumMatches
            /\ result'.payload = Weak!CopiedPayload
      /\ (result'.ret = "INVALID") => Weak!Stable /\ ~Weak!ChecksumMatches
      /\ result'.ret \in {"OK", "WOULD_BLOCK", "INVALID"}
  BY <1>1
<1>3. (result'.ret = "OK") =>
         \E v \in {published} \cup Weak!OnItsWay : v \in Item /\ result'.payload = Uniform(v)
  BY <1>1, <1>2, LatestVerdict
<1>4. (part = "ordered") =>
         /\ (result'.ret = "OK") => published \in Item /\ result'.payload = Uniform(published)
         /\ result'.ret # "INVALID"
  <2>1. published \in Item
    BY <1>1 DEF LatestInv, ReaderInv
  <2> QED BY <1>1, <1>2, <2>1, LatestVerdict
<1>5. LatestTypes'
  <2>1. got' \in Seq([loc : Weak!CopyLocs,
                      val : Item \cup {None} \cup [Weak!Words -> Item \cup {None}]])
    BY <1>1, EmptySeq
  <2> QED BY <1>0, <1>1, <1>2, <2>1 DEF LatestInv, LatestTypes, LatestBound
<1>6. ChainInv'
  BY <1>1 DEF LatestInv, ChainInv, Numbered
<1>7. WeakInv'
  BY <1>1 DEF LatestInv, WeakInv, FrameAhead
<1>8. ReaderInv'
  BY <1>1 DEF LatestInv, ReaderInv
<1>9. OrderedInv'
  BY <1>1, <1>4, PlacesKept DEF LatestInv, OrderedInv
<1>10. ResultInv'
  BY <1>3 DEF ResultInv
<1> QED BY <1>1, <1>3, <1>4, <1>5, <1>6, <1>7, <1>8, <1>9, <1>10 DEF LatestInv

\* What is on its way after a commit: what was, and the stores of the new frame.
LEMMA LatestJoined ==
    ASSUME LatestInv, LatestCommit,
           NEW n, n = Len(buffer), NEW one, one = Weak!Plus1(seq),
           NEW two, two = Weak!Plus1(one)
    PROVE  /\ n \in Nat /\ WordCount \in Nat \ {0} /\ scratch \in Item
           /\ one \in Weak!Numbers /\ two \in Weak!Numbers
           /\ ~Weak!Even(one) /\ Weak!Even(two) /\ seq' = two
           /\ buffer' \in Seq(LatestStores) /\ Len(buffer') = n + WordCount + 3
           /\ \A i \in 1 .. n : buffer'[i] = buffer[i]
           /\ buffer'[n + 1].loc = Weak!SeqLoc /\ buffer'[n + 1].val = one
           /\ \A w \in Weak!Words : /\ buffer'[n + w + 1].loc = Weak!WordLoc(w)
                                    /\ buffer'[n + w + 1].val = scratch
                                    /\ buffer'[n + w + 1].frame = scratch
           /\ buffer'[n + WordCount + 2].loc = Weak!CrcLoc
           /\ buffer'[n + WordCount + 2].val = Uniform(scratch)
           /\ buffer'[n + WordCount + 2].frame = scratch
           /\ buffer'[n + WordCount + 3].loc = Weak!SeqLoc
           /\ buffer'[n + WordCount + 3].val = two
           /\ buffer'[n + WordCount + 3].frame = scratch
           /\ \A i \in 1 .. n + WordCount + 3 :
                 \/ i \in 1 .. n
                 \/ i = n + 1
                 \/ \E w \in Weak!Words : i = n + w + 1
                 \/ i = n + WordCount + 2
                 \/ i = n + WordCount + 3
<1>1. /\ WordCount \in Nat \ {0} /\ scratch \in Item
      /\ one \in Weak!Numbers /\ two \in Weak!Numbers
      /\ ~Weak!Even(one) /\ Weak!Even(two)
  BY LatestShape, LatestParity DEF LatestInv, LatestTypes, LatestCommit
<1>2. Weak!NextOdd = one /\ seq' = two
  BY <1>1 DEF Weak!NextOdd, LatestCommit
<1> DEFINE s == Weak!StoresOf(one)
<1>3. /\ s \in Seq(LatestStores) /\ Len(s) = WordCount + 3
      /\ s[1] = Weak!Store(Weak!SeqLoc, one)
      /\ \A w \in Weak!Words : s[w + 1] = Weak!Store(Weak!WordLoc(w), scratch)
      /\ s[WordCount + 2] = Weak!Store(Weak!CrcLoc, Uniform(scratch))
      /\ s[WordCount + 3] = Weak!Store(Weak!SeqLoc, two)
  BY <1>1, LatestBlock
<1>4. buffer' = buffer \o s
  BY <1>2 DEF LatestCommit
<1> HIDE DEF s
<1>5. buffer \in Seq(LatestStores) /\ n \in Nat
  BY LenProperties DEF LatestInv, LatestTypes
<1>6. buffer' \in Seq(LatestStores) /\ Len(buffer') = n + (WordCount + 3)
  <2>1. buffer \o s \in Seq(LatestStores) /\ Len(buffer \o s) = Len(buffer) + Len(s)
    <3>1. buffer \in Seq(LatestStores) /\ s \in Seq(LatestStores)
      BY <1>3, <1>5
    <3> QED BY <3>1, Joined
  <2> QED BY <1>3, <1>4, <2>1
<1>7. \A i \in 1 .. n : buffer'[i] = buffer[i]
  BY <1>3, <1>4, <1>5, Joined
<1>8. \A i \in 1 .. WordCount + 3 : buffer'[n + i] = s[i]
  BY <1>3, <1>4, <1>5, Joined
<1>9. /\ buffer'[n + 1] = s[1]
      /\ \A w \in Weak!Words : buffer'[n + w + 1] = s[w + 1]
      /\ buffer'[n + WordCount + 2] = s[WordCount + 2]
      /\ buffer'[n + WordCount + 3] = s[WordCount + 3]
  <2>1. /\ 1 \in 1 .. WordCount + 3 /\ WordCount + 2 \in 1 .. WordCount + 3
        /\ WordCount + 3 \in 1 .. WordCount + 3
        /\ n + (WordCount + 2) = n + WordCount + 2 /\ n + (WordCount + 3) = n + WordCount + 3
    BY <1>1, <1>5
  <2>2. \A w \in Weak!Words : w + 1 \in 1 .. WordCount + 3 /\ n + (w + 1) = n + w + 1
    BY <1>1, <1>5 DEF Weak!Words
  <2> QED BY <1>8, <2>1, <2>2
<1>10. \A i \in 1 .. n + WordCount + 3 :
          \/ i \in 1 .. n
          \/ i = n + 1
          \/ \E w \in Weak!Words : i = n + w + 1
          \/ i = n + WordCount + 2
          \/ i = n + WordCount + 3
  <2> SUFFICES ASSUME NEW i \in 1 .. n + WordCount + 3,
                      i \notin 1 .. n, i # n + 1, i # n + WordCount + 2,
                      i # n + WordCount + 3
               PROVE  \E w \in Weak!Words : i = n + w + 1
    OBVIOUS
  <2> DEFINE w == i - n - 1
  <2>1. w \in 1 .. WordCount /\ i = n + w + 1
    BY <1>1, <1>5
  <2> HIDE DEF w
  <2> QED BY <2>1 DEF Weak!Words
<1>11. n + (WordCount + 3) = n + WordCount + 3
  BY <1>1, <1>5
<1>12. /\ buffer'[n + 1].loc = Weak!SeqLoc /\ buffer'[n + 1].val = one
       /\ \A w \in Weak!Words : /\ buffer'[n + w + 1].loc = Weak!WordLoc(w)
                                /\ buffer'[n + w + 1].val = scratch
                                /\ buffer'[n + w + 1].frame = scratch
       /\ buffer'[n + WordCount + 2].loc = Weak!CrcLoc
       /\ buffer'[n + WordCount + 2].val = Uniform(scratch)
       /\ buffer'[n + WordCount + 2].frame = scratch
       /\ buffer'[n + WordCount + 3].loc = Weak!SeqLoc
       /\ buffer'[n + WordCount + 3].val = two
       /\ buffer'[n + WordCount + 3].frame = scratch
  <2>1. /\ s[1].loc = Weak!SeqLoc /\ s[1].val = one
        /\ s[WordCount + 2].loc = Weak!CrcLoc /\ s[WordCount + 2].val = Uniform(scratch)
        /\ s[WordCount + 2].frame = scratch
        /\ s[WordCount + 3].loc = Weak!SeqLoc /\ s[WordCount + 3].val = two
        /\ s[WordCount + 3].frame = scratch
    BY <1>3 DEF Weak!Store
  <2>2. \A w \in Weak!Words : /\ s[w + 1].loc = Weak!WordLoc(w)
                              /\ s[w + 1].val = scratch /\ s[w + 1].frame = scratch
    <3> TAKE w \in Weak!Words
    <3>1. s[w + 1] = Weak!Store(Weak!WordLoc(w), scratch)
      BY <1>3
    <3> QED BY <3>1 DEF Weak!Store
  <2> QED BY <1>9, <2>1, <2>2
<1> QED BY <1>1, <1>2, <1>5, <1>6, <1>7, <1>10, <1>11, <1>12

\* Frames that are on their way still are.
LEMMA LatestLater ==
    ASSUME LatestInv, LatestCommit, NEW i \in Nat \ {0}, NEW c, FrameAhead(i, c)
    PROVE  (FrameAhead(i, c))'
<1> DEFINE n == Len(buffer)
<1>1. /\ n \in Nat /\ WordCount \in Nat /\ Len(buffer') = n + WordCount + 3
      /\ \A k \in 1 .. n : buffer'[k] = buffer[k]
  BY LatestJoined
<1>2. PICK j \in i .. n : Ends(buffer[j]) /\ c = Uniform(buffer[j].frame)
  BY DEF FrameAhead
<1> HIDE DEF n
<1>3. j \in 1 .. n /\ j \in i .. Len(buffer')
  BY <1>1, <1>2
<1>4. Ends(buffer'[j]) /\ c = Uniform(buffer'[j].frame)
  BY <1>1, <1>2, <1>3
<1> QED BY <1>3, <1>4 DEF FrameAhead, Ends

\* After a commit the numbers go on, odd and then even.
LEMMA LatestCommitChain ==
    ASSUME LatestInv, LatestCommit
    PROVE  ChainInv'
<1> DEFINE n == Len(buffer)
           one == Weak!Plus1(seq)
           two == Weak!Plus1(one)
<1>0. n = Len(buffer) /\ one = Weak!Plus1(seq) /\ two = Weak!Plus1(one)
  OBVIOUS
<1> HIDE DEF n, one, two
<1>1. /\ n \in Nat /\ WordCount \in Nat \ {0} /\ scratch \in Item
      /\ one \in Weak!Numbers /\ two \in Weak!Numbers
      /\ ~Weak!Even(one) /\ Weak!Even(two) /\ seq' = two
      /\ Len(buffer') = n + WordCount + 3
  BY <1>0, LatestJoined
<1>2. \A i \in 1 .. n : buffer'[i] = buffer[i]
  BY <1>0, LatestJoined
<1>3. /\ buffer'[n + 1].loc = Weak!SeqLoc /\ buffer'[n + 1].val = one
      /\ buffer'[n + WordCount + 3].loc = Weak!SeqLoc /\ buffer'[n + WordCount + 3].val = two
      /\ buffer'[n + WordCount + 2].loc = Weak!CrcLoc
  BY <1>0, LatestJoined
<1>4. \A w \in Weak!Words : buffer'[n + w + 1].loc = Weak!WordLoc(w)
  <2> TAKE w \in Weak!Words
  <2> QED BY <1>0, LatestJoined
<1>5. \A i \in 1 .. n + WordCount + 3 :
          \/ i \in 1 .. n
          \/ i = n + 1
          \/ \E w \in Weak!Words : i = n + w + 1
          \/ i = n + WordCount + 2
          \/ i = n + WordCount + 3
  BY <1>0, LatestJoined
<1>6. one = Weak!Plus1(seq) /\ two = Weak!Plus1(one)
  BY <1>0
<1>7. PICK N \in [0 .. n -> Weak!Numbers] : Numbered(N)
  BY <1>0 DEF LatestInv, ChainInv
<1>8. /\ N[0] = mem.seq /\ N[n] = seq
      /\ \A i \in 1 .. n :
            IF buffer[i].loc = Weak!SeqLoc
            THEN buffer[i].val = N[i] /\ N[i] = Weak!Plus1(N[i - 1])
            ELSE N[i] = N[i - 1] /\ ~Weak!Even(N[i])
  BY <1>0, <1>7 DEF Numbered
<1> DEFINE m == n + WordCount + 3
           M == [k \in 0 .. m |-> IF k <= n THEN N[k] ELSE IF k = m THEN two ELSE one]
<1>9. M \in [0 .. m -> Weak!Numbers]
  <2>1. \A k \in 0 .. m : k <= n => N[k] \in Weak!Numbers
    BY <1>1, <1>7
  <2> QED BY <1>1, <2>1
<1>10. /\ M[0] = mem.seq /\ M[m] = two /\ M[n] = seq /\ M[n + 1] = one
       /\ \A k \in 1 .. n : M[k] = N[k] /\ M[k - 1] = N[k - 1]
  <2>1. \A k \in 0 .. n : k \in 0 .. m /\ k <= n
    BY <1>1
  <2>2. /\ \A k \in 1 .. n : k \in 0 .. n /\ k - 1 \in 0 .. n
        /\ n + 1 \in 0 .. m /\ ~(n + 1 <= n) /\ n + 1 # m /\ m \in 0 .. m /\ ~(m <= n)
        /\ 0 \in 0 .. n /\ n \in 0 .. n
    BY <1>1
  <2> HIDE DEF m
  <2> QED BY <1>8, <2>1, <2>2
<1>11. \A k \in n + 1 .. m - 1 : M[k] = one
  <2>1. \A k \in n + 1 .. m - 1 : k \in 0 .. m /\ ~(k <= n) /\ k # m
    BY <1>1
  <2> HIDE DEF m
  <2> QED BY <2>1
<1>12. m = Len(buffer') /\ m = n + WordCount + 3
  BY <1>1
<1> HIDE DEF m, M
<1>13. ASSUME NEW i \in 1 .. m
       PROVE  IF buffer'[i].loc = Weak!SeqLoc
              THEN buffer'[i].val = M[i] /\ M[i] = Weak!Plus1(M[i - 1])
              ELSE M[i] = M[i - 1] /\ ~Weak!Even(M[i])
  <2>1. CASE i \in 1 .. n
    BY <1>2, <1>8, <1>10, <2>1
  <2>2. CASE i = n + 1
    <3>1. i - 1 = n
      BY <1>1, <2>2
    <3> QED BY <1>3, <1>6, <1>10, <2>2, <3>1
  <2>3. CASE \E w \in Weak!Words : i = n + w + 1
    <3>1. PICK w \in Weak!Words : i = n + w + 1
      BY <2>3
    <3>2. i \in n + 1 .. m - 1 /\ i - 1 \in n + 1 .. m - 1
      BY <1>1, <1>12, <3>1 DEF Weak!Words
    <3>3. buffer'[i].loc # Weak!SeqLoc
      BY <1>4, <3>1, LatestPlaces
    <3> QED BY <1>1, <1>11, <3>2, <3>3
  <2>4. CASE i = n + WordCount + 2
    <3>1. i \in n + 1 .. m - 1 /\ i - 1 \in n + 1 .. m - 1
      BY <1>1, <1>12, <2>4
    <3>2. buffer'[i].loc # Weak!SeqLoc
      BY <1>3, <2>4, LatestPlaces
    <3> QED BY <1>1, <1>11, <3>1, <3>2
  <2>5. CASE i = n + WordCount + 3
    <3>1. i - 1 \in n + 1 .. m - 1 /\ i = m
      BY <1>1, <1>12, <2>5
    <3> QED BY <1>3, <1>6, <1>10, <1>11, <2>5, <3>1
  <2> QED BY <1>5, <1>12, <2>1, <2>2, <2>3, <2>4, <2>5
<1>14. mem' = mem /\ seq' = two
  BY <1>1 DEF LatestCommit
<1> QED BY <1>9, <1>10, <1>12, <1>13, <1>14 DEF ChainInv, Numbered

\* The new checksum is followed by the number that ends its commit.
LEMMA LatestCommitWeak ==
    ASSUME LatestInv, LatestCommit
    PROVE  WeakInv'
<1> DEFINE n == Len(buffer)
           one == Weak!Plus1(seq)
           two == Weak!Plus1(one)
<1>0. n = Len(buffer) /\ one = Weak!Plus1(seq) /\ two = Weak!Plus1(one)
  OBVIOUS
<1> HIDE DEF n, one, two
<1>1. /\ n \in Nat /\ WordCount \in Nat \ {0} /\ scratch \in Item
      /\ ~Weak!Even(one) /\ Weak!Even(two)
      /\ Len(buffer') = n + WordCount + 3
  BY <1>0, LatestJoined
<1>2. \A i \in 1 .. n : buffer'[i] = buffer[i]
  BY <1>0, LatestJoined
<1>3. /\ buffer'[n + 1].loc = Weak!SeqLoc /\ buffer'[n + 1].val = one
      /\ Ends(buffer'[n + WordCount + 3]) /\ buffer'[n + WordCount + 3].frame = scratch
      /\ buffer'[n + WordCount + 3].loc = Weak!SeqLoc
      /\ buffer'[n + WordCount + 2].loc = Weak!CrcLoc
      /\ buffer'[n + WordCount + 2].frame = scratch
  BY <1>0, <1>1, LatestJoined DEF Ends
<1>4. \A w \in Weak!Words : buffer'[n + w + 1].loc = Weak!WordLoc(w)
  <2> TAKE w \in Weak!Words
  <2> QED BY <1>0, LatestJoined
<1>5. \A i \in 1 .. n + WordCount + 3 :
          \/ i \in 1 .. n
          \/ i = n + 1
          \/ \E w \in Weak!Words : i = n + w + 1
          \/ i = n + WordCount + 2
          \/ i = n + WordCount + 3
  BY <1>0, LatestJoined
<1>6. /\ \A i \in 1 .. n :
            /\ (buffer[i].loc = Weak!CrcLoc) =>
                  /\ i < n /\ Ends(buffer[i + 1])
                  /\ buffer[i + 1].frame = buffer[i].frame
            /\ Ends(buffer[i]) =>
                  \/ i > 1 /\ buffer[i - 1].loc = Weak!CrcLoc
                  \/ /\ \A k \in 1 .. i - 1 : buffer[k].loc # Weak!CrcLoc
                     /\ FrameAhead(i, mem.crc)
      /\ mem.crc = Uniform(published) \/ FrameAhead(1, mem.crc)
  BY <1>0 DEF LatestInv, WeakInv
<1>7. mem' = mem /\ published' = published
  BY DEF LatestCommit
<1>8. \A i \in Nat \ {0} : FrameAhead(i, mem.crc) => (FrameAhead(i, mem.crc))'
  BY <1>7, LatestLater DEF FrameAhead
<1> DEFINE m == n + WordCount + 3
<1>9. m \in Nat /\ m = Len(buffer')
  BY <1>1
<1>10. ASSUME NEW i \in 1 .. m, buffer'[i].loc = Weak!CrcLoc
       PROVE  /\ i < m /\ Ends(buffer'[i + 1])
              /\ buffer'[i + 1].frame = buffer'[i].frame
  <2>1. CASE i \in 1 .. n
    <3>1. /\ i < n /\ Ends(buffer[i + 1])
          /\ buffer[i + 1].frame = buffer[i].frame
      BY <1>2, <1>6, <1>10, <2>1
    <3>2. i + 1 \in 1 .. n /\ i < m
      BY <1>1, <2>1, <3>1
    <3> HIDE DEF m
    <3> QED BY <1>2, <2>1, <3>1, <3>2
  <2>2. CASE i = n + WordCount + 2
    <3>1. i + 1 = n + WordCount + 3 /\ i < m
      BY <1>1, <2>2
    <3> QED BY <1>3, <2>2, <3>1
  <2>3. i \in 1 .. n \/ i = n + WordCount + 2
    <3> HIDE DEF m
    <3> QED BY <1>3, <1>4, <1>5, <1>10, LatestPlaces DEF m
  <2> QED BY <2>1, <2>2, <2>3
<1>11. ASSUME NEW i \in 1 .. m, Ends(buffer'[i])
       PROVE  \/ i > 1 /\ buffer'[i - 1].loc = Weak!CrcLoc
              \/ /\ \A k \in 1 .. i - 1 : buffer'[k].loc # Weak!CrcLoc
                 /\ (FrameAhead(i, mem.crc))'
  <2>1. CASE i \in 1 .. n
    <3>1. \/ i > 1 /\ buffer[i - 1].loc = Weak!CrcLoc
          \/ /\ \A k \in 1 .. i - 1 : buffer[k].loc # Weak!CrcLoc
             /\ FrameAhead(i, mem.crc)
      BY <1>2, <1>6, <1>11, <2>1
    <3>2. \A k \in 1 .. i - 1 : k \in 1 .. n
      BY <1>1, <2>1
    <3>3. i \in Nat \ {0} /\ (i > 1 => i - 1 \in 1 .. n)
      BY <1>1, <2>1
    <3> HIDE DEF m
    <3> QED BY <1>2, <1>8, <3>1, <3>2, <3>3
  <2>2. CASE i = n + WordCount + 3
    <3>1. i - 1 = n + WordCount + 2 /\ i > 1
      BY <1>1, <2>2
    <3> QED BY <1>3, <3>1
  <2>3. i \in 1 .. n \/ i = n + WordCount + 3
    <3>1. /\ ~Ends(buffer'[n + 1]) /\ ~Ends(buffer'[n + WordCount + 2])
          /\ \A w \in Weak!Words : ~Ends(buffer'[n + w + 1])
      BY <1>1, <1>3, <1>4, LatestPlaces DEF Ends
    <3> HIDE DEF m
    <3> QED BY <1>5, <1>11, <3>1 DEF m
  <2> QED BY <2>1, <2>2, <2>3
<1>12. mem'.crc = Uniform(published') \/ (FrameAhead(1, mem.crc))'
  <2>1. 1 \in Nat \ {0}
    OBVIOUS
  <2> QED BY <1>6, <1>7, <1>8, <2>1
<1> HIDE DEF m
<1> QED BY <1>9, <1>10, <1>11, <1>12 DEF WeakInv, Ends

\* The words of a frame stored one after the other.
Partly(p, f, j) == [w \in Weak!Words |-> IF w <= j THEN f ELSE p[w]]
\* After the last word the frame is whole.
LEMMA LatestWords ==
    ASSUME NEW p \in [Weak!Words -> Item \cup {None}], NEW f \in Item
    PROVE  /\ Partly(p, f, 0) = p
           /\ \A j \in Nat : j >= WordCount => Partly(p, f, j) = Uniform(f)
           /\ \A w \in Weak!Words : Partly(p, f, w) = [Partly(p, f, w - 1) EXCEPT ![w] = f]
           /\ \A j \in Nat : Partly(p, f, j) \in [Weak!Words -> Item \cup {None}]
<1>0. WordCount \in Nat \ {0} /\ \A w \in Weak!Words : w \in 1 .. WordCount
  BY LatestShape DEF Weak!Words
<1>1. Partly(p, f, 0) = p
  <2>1. \A w \in Weak!Words : ~(w <= 0)
    BY <1>0
  <2> QED BY <2>1 DEF Partly
<1>2. ASSUME NEW j \in Nat, j >= WordCount PROVE Partly(p, f, j) = Uniform(f)
  <2>1. \A w \in Weak!Words : w <= j
    BY <1>0, <1>2
  <2> QED BY <2>1 DEF Partly, Uniform
<1>3. ASSUME NEW w \in Weak!Words
      PROVE  Partly(p, f, w) = [Partly(p, f, w - 1) EXCEPT ![w] = f]
  <2>1. \A v \in Weak!Words : v <= w <=> (v = w \/ v <= w - 1)
    BY <1>0
  <2> QED BY <2>1 DEF Partly
<1>4. \A j \in Nat : Partly(p, f, j) \in [Weak!Words -> Item \cup {None}]
  BY DEF Partly
<1> QED BY <1>1, <1>2, <1>3, <1>4

\* In order, a commit ends with payload and checksum of its frame.
LEMMA LatestCommitPlaces ==
    ASSUME LatestInv, LatestCommit, PlacesInv
    PROVE  PlacesInv'
<1> DEFINE n == Len(buffer)
           one == Weak!Plus1(seq)
           two == Weak!Plus1(one)
           f == scratch
<1>0. n = Len(buffer) /\ one = Weak!Plus1(seq) /\ two = Weak!Plus1(one) /\ f = scratch
  OBVIOUS
<1> HIDE DEF n, one, two, f
<1>1. /\ n \in Nat /\ WordCount \in Nat \ {0} /\ f \in Item
      /\ ~Weak!Even(one) /\ Weak!Even(two)
      /\ Len(buffer') = n + WordCount + 3
  BY <1>0, LatestJoined
<1>2. \A i \in 1 .. n : buffer'[i] = buffer[i]
  BY <1>0, LatestJoined
<1>3. /\ buffer'[n + 1].loc = Weak!SeqLoc /\ buffer'[n + 1].val = one
      /\ buffer'[n + WordCount + 2].loc = Weak!CrcLoc
      /\ buffer'[n + WordCount + 2].val = Uniform(f)
      /\ buffer'[n + WordCount + 3].loc = Weak!SeqLoc
      /\ buffer'[n + WordCount + 3].frame = f
  BY <1>0, LatestJoined
<1>4. \A w \in Weak!Words : /\ buffer'[n + w + 1].loc = Weak!WordLoc(w)
                            /\ buffer'[n + w + 1].val = f
  <2> TAKE w \in Weak!Words
  <2>1. buffer'[n + w + 1].loc = Weak!WordLoc(w) /\ buffer'[n + w + 1].val = scratch
    BY <1>0, LatestJoined
  <2> QED BY <1>0, <2>1
<1>5. \A i \in 1 .. n + WordCount + 3 :
          \/ i \in 1 .. n
          \/ i = n + 1
          \/ \E w \in Weak!Words : i = n + w + 1
          \/ i = n + WordCount + 2
          \/ i = n + WordCount + 3
  BY <1>0, LatestJoined
<1>6. PICK P \in Places, C \in Places : InPlace(P, C)
  BY DEF PlacesInv
<1>7. /\ P[0] = mem.payload /\ C[0] = mem.crc
      /\ Weak!Even(mem.seq) => P[0] = Uniform(published) /\ C[0] = Uniform(published)
      /\ \A i \in 1 .. n :
          /\ (buffer[i].loc = Weak!SeqLoc) => P[i] = P[i - 1] /\ C[i] = C[i - 1]
          /\ (buffer[i].loc = Weak!CrcLoc) => P[i] = P[i - 1] /\ C[i] = buffer[i].val
          /\ \A w \in Weak!Words : (buffer[i].loc = Weak!WordLoc(w)) =>
                P[i] = [P[i - 1] EXCEPT ![w] = buffer[i].val] /\ C[i] = C[i - 1]
          /\ Ends(buffer[i]) =>
                P[i] = Uniform(buffer[i].frame) /\ C[i] = Uniform(buffer[i].frame)
  BY <1>0, <1>6 DEF InPlace
<1>8. \A k \in 0 .. n : /\ P[k] \in [Weak!Words -> Item \cup {None}]
                        /\ C[k] \in [Weak!Words -> Item \cup {None}]
  BY <1>0, <1>6 DEF Places
<1>9. mem' = mem /\ published' = published
  BY DEF LatestCommit
<1>19. PICK p \in [Weak!Words -> Item \cup {None}] : p = P[n]
  BY <1>1, <1>8
<1> DEFINE m == n + WordCount + 3
           Q(j) == Partly(p, f, j)
           U == [k \in 0 .. m |-> IF k <= n THEN P[k]
                                  ELSE IF k = m THEN Uniform(f) ELSE Q(k - n - 1)]
           V == [k \in 0 .. m |-> IF k <= n THEN C[k]
                                  ELSE IF k >= n + WordCount + 2 THEN Uniform(f) ELSE C[n]]
<1>10. /\ Q(0) = P[n] /\ Q(WordCount) = Uniform(f) /\ Q(WordCount + 1) = Uniform(f)
       /\ \A w \in Weak!Words : Q(w) = [Q(w - 1) EXCEPT ![w] = f]
       /\ \A j \in 0 .. WordCount + 1 : Q(j) \in [Weak!Words -> Item \cup {None}]
  <2>1. /\ WordCount \in Nat /\ WordCount >= WordCount
        /\ WordCount + 1 \in Nat /\ WordCount + 1 >= WordCount
        /\ \A j \in 0 .. WordCount + 1 : j \in Nat
    BY <1>1
  <2>2. Q(0) = P[n] /\ Q(WordCount) = Uniform(f) /\ Q(WordCount + 1) = Uniform(f)
    BY <1>1, <1>19, <2>1, LatestWords
  <2>3. \A w \in Weak!Words : Q(w) = [Q(w - 1) EXCEPT ![w] = f]
    BY <1>1, LatestWords
  <2>4. \A j \in 0 .. WordCount + 1 : Q(j) \in [Weak!Words -> Item \cup {None}]
    BY <1>1, <2>1, LatestWords
  <2> QED BY <2>2, <2>3, <2>4
<1>11. m = n + WordCount + 3 /\ m = Len(buffer')
  BY <1>1
<1>12. /\ \A k \in 0 .. n : U[k] = P[k] /\ V[k] = C[k]
       /\ \A k \in n + 1 .. m - 1 : U[k] = Q(k - n - 1)
       /\ \A k \in n + 1 .. n + WordCount + 1 : V[k] = C[n]
       /\ U[m] = Uniform(f) /\ V[m] = Uniform(f) /\ V[m - 1] = Uniform(f)
  <2>1. /\ \A k \in 0 .. n : k \in 0 .. m /\ k <= n
        /\ \A k \in n + 1 .. m - 1 : k \in 0 .. m /\ ~(k <= n) /\ k # m
        /\ \A k \in n + 1 .. n + WordCount + 1 :
              k \in 0 .. m /\ ~(k <= n) /\ ~(k >= n + WordCount + 2)
        /\ m \in 0 .. m /\ ~(m <= n) /\ m >= n + WordCount + 2
        /\ m - 1 \in 0 .. m /\ ~(m - 1 <= n) /\ m - 1 >= n + WordCount + 2
    BY <1>1, <1>11
  <2> HIDE DEF m, Q
  <2>2. \A k \in 0 .. m : U[k] = IF k <= n THEN P[k]
                                 ELSE IF k = m THEN Uniform(f) ELSE Q(k - n - 1)
    OBVIOUS
  <2>3. \A k \in 0 .. m : V[k] = IF k <= n THEN C[k]
                                 ELSE IF k >= n + WordCount + 2 THEN Uniform(f) ELSE C[n]
    OBVIOUS
  <2> HIDE DEF U, V
  <2> QED BY <2>1, <2>2, <2>3
<1>13. Uniform(f) \in [Weak!Words -> Item \cup {None}]
  BY <1>1 DEF Uniform
<1>14. /\ U \in [0 .. m -> [Weak!Words -> Item \cup {None}]]
       /\ V \in [0 .. m -> [Weak!Words -> Item \cup {None}]]
  <2>1. \A k \in 0 .. m : ~(k <= n) /\ k # m => k - n - 1 \in 0 .. WordCount + 1
    BY <1>1, <1>11
  <2>2. \A k \in 0 .. m : k <= n => k \in 0 .. n
    BY <1>1, <1>11
  <2>3. n \in 0 .. n
    BY <1>1
  <2> HIDE DEF m, Q
  <2> QED BY <1>8, <1>10, <1>13, <2>1, <2>2, <2>3
<1> HIDE DEF m, Q, U, V
<1>15. ASSUME NEW i \in 1 .. m
       PROVE  /\ (buffer'[i].loc = Weak!SeqLoc) => U[i] = U[i - 1] /\ V[i] = V[i - 1]
              /\ (buffer'[i].loc = Weak!CrcLoc) => U[i] = U[i - 1] /\ V[i] = buffer'[i].val
              /\ \A w \in Weak!Words : (buffer'[i].loc = Weak!WordLoc(w)) =>
                    U[i] = [U[i - 1] EXCEPT ![w] = buffer'[i].val] /\ V[i] = V[i - 1]
              /\ Ends(buffer'[i]) =>
                    U[i] = Uniform(buffer'[i].frame) /\ V[i] = Uniform(buffer'[i].frame)
  <2>1. CASE i \in 1 .. n
    <3>1. i \in 0 .. n /\ i - 1 \in 0 .. n
      BY <1>1, <2>1
    <3>2. U[i] = P[i] /\ V[i] = C[i] /\ U[i - 1] = P[i - 1] /\ V[i - 1] = C[i - 1]
      BY <1>12, <3>1
    <3>3. buffer'[i] = buffer[i]
      BY <1>2, <2>1
    <3> QED BY <1>7, <2>1, <3>2, <3>3
  <2>2. CASE i = n + 1
    <3>1. /\ i - 1 = n /\ i - n - 1 = 0 /\ n \in 0 .. n
          /\ i \in n + 1 .. m - 1 /\ i \in n + 1 .. n + WordCount + 1
      BY <1>1, <1>11, <2>2
    <3>2. U[i] = P[n] /\ V[i] = C[n] /\ U[i - 1] = P[n] /\ V[i - 1] = C[n]
      BY <1>10, <1>12, <3>1
    <3>3. buffer'[i].loc = Weak!SeqLoc /\ ~Ends(buffer'[i])
      BY <1>1, <1>3, <2>2 DEF Ends
    <3> QED BY <3>2, <3>3, LatestPlaces
  <2>3. CASE \E w \in Weak!Words : i = n + w + 1
    <3>1. PICK w \in Weak!Words : i = n + w + 1
      BY <2>3
    <3>2. /\ i \in n + 1 .. m - 1 /\ i \in n + 1 .. n + WordCount + 1 /\ i - n - 1 = w
          /\ i - 1 \in n + 1 .. m - 1 /\ i - 1 \in n + 1 .. n + WordCount + 1
          /\ (i - 1) - n - 1 = w - 1
      BY <1>1, <1>11, <3>1 DEF Weak!Words
    <3>3. U[i] = Q(w) /\ V[i] = C[n] /\ U[i - 1] = Q(w - 1) /\ V[i - 1] = C[n]
      BY <1>12, <3>2
    <3>4. buffer'[i].loc = Weak!WordLoc(w) /\ buffer'[i].val = f
      BY <1>4, <3>1
    <3>5. /\ buffer'[i].loc # Weak!SeqLoc /\ buffer'[i].loc # Weak!CrcLoc /\ ~Ends(buffer'[i])
          /\ \A v \in Weak!Words : (buffer'[i].loc = Weak!WordLoc(v)) => v = w
      <4>1. \A v \in Weak!Words : Weak!WordLoc(v).word = v
        BY LatestPlaces
      <4> QED BY <3>4, <4>1, LatestPlaces DEF Ends
    <3>6. U[i] = [U[i - 1] EXCEPT ![w] = buffer'[i].val]
      BY <1>10, <3>3, <3>4
    <3> QED BY <3>3, <3>5, <3>6
  <2>4. CASE i = n + WordCount + 2
    <3>1. /\ i = m - 1 /\ i \in n + 1 .. m - 1 /\ i - n - 1 = WordCount + 1
          /\ i - 1 \in n + 1 .. m - 1 /\ (i - 1) - n - 1 = WordCount
      BY <1>1, <1>11, <2>4
    <3>2. U[i] = Uniform(f) /\ U[i - 1] = Uniform(f) /\ V[i] = Uniform(f)
      BY <1>10, <1>12, <3>1
    <3>3. buffer'[i].loc = Weak!CrcLoc /\ buffer'[i].val = Uniform(f)
      BY <1>3, <2>4
    <3>4. buffer'[i].loc # Weak!SeqLoc /\ ~Ends(buffer'[i])
          /\ \A w \in Weak!Words : buffer'[i].loc # Weak!WordLoc(w)
      BY <3>3, LatestPlaces DEF Ends
    <3> QED BY <3>2, <3>3, <3>4
  <2>5. CASE i = n + WordCount + 3
    <3>1. /\ i = m /\ i - 1 = m - 1 /\ i - 1 \in n + 1 .. m - 1
          /\ (i - 1) - n - 1 = WordCount + 1
      BY <1>1, <1>11, <2>5
    <3>2. /\ U[i] = Uniform(f) /\ V[i] = Uniform(f)
          /\ U[i - 1] = Uniform(f) /\ V[i - 1] = Uniform(f)
      BY <1>10, <1>12, <3>1
    <3>3. buffer'[i].loc = Weak!SeqLoc /\ buffer'[i].frame = f
      BY <1>3, <2>5
    <3> QED BY <3>2, <3>3, LatestPlaces
  <2> QED BY <1>5, <1>11, <2>1, <2>2, <2>3, <2>4, <2>5
<1>16. U[0] = P[0] /\ V[0] = C[0]
  <2>1. 0 \in 0 .. n
    BY <1>1
  <2> QED BY <1>12, <2>1
<1>17. ASSUME NEW u, NEW v, u = U, v = V
       PROVE  (u \in Places /\ v \in Places)' /\ InPlace(u, v)'
  <2>1. (u \in Places /\ v \in Places)'
    BY <1>11, <1>14, <1>17 DEF Places
  <2>2. InPlace(u, v)'
    BY <1>7, <1>9, <1>11, <1>15, <1>16, <1>17 DEF InPlace, Ends
  <2> QED BY <2>1, <2>2
<1> QED BY <1>17 DEF PlacesInv

\* After a commit the stores on their way are well-formed.
LEMMA LatestCommitTypes ==
    ASSUME LatestInv, part' = part, LatestCommit
    PROVE  LatestTypes'
<1> DEFINE n == Len(buffer)
           one == Weak!Plus1(seq)
           two == Weak!Plus1(one)
<1>0. n = Len(buffer) /\ one = Weak!Plus1(seq) /\ two = Weak!Plus1(one)
  OBVIOUS
<1> HIDE DEF n, one, two
<1>1. /\ n \in Nat /\ WordCount \in Nat \ {0} /\ scratch \in Item
      /\ one \in Weak!Numbers /\ two \in Weak!Numbers /\ Weak!Even(two) /\ seq' = two
      /\ buffer' \in Seq(LatestStores) /\ Len(buffer') = n + WordCount + 3
  BY <1>0, LatestJoined
<1>2. \A i \in 1 .. n : buffer'[i] = buffer[i]
  BY <1>0, LatestJoined
<1>3. /\ buffer'[n + 1].loc = Weak!SeqLoc /\ buffer'[n + 1].val = one
      /\ buffer'[n + WordCount + 2].loc = Weak!CrcLoc
      /\ buffer'[n + WordCount + 2].val = Uniform(scratch)
      /\ buffer'[n + WordCount + 2].frame = scratch
      /\ buffer'[n + WordCount + 3].loc = Weak!SeqLoc
      /\ buffer'[n + WordCount + 3].val = two
  BY <1>0, LatestJoined
<1>4. \A w \in Weak!Words : /\ buffer'[n + w + 1].loc = Weak!WordLoc(w)
                            /\ buffer'[n + w + 1].val = buffer'[n + w + 1].frame
  <2> TAKE w \in Weak!Words
  <2>1. /\ buffer'[n + w + 1].loc = Weak!WordLoc(w)
        /\ buffer'[n + w + 1].val = scratch /\ buffer'[n + w + 1].frame = scratch
    BY <1>0, LatestJoined
  <2> QED BY <2>1
<1>5. \A i \in 1 .. n + WordCount + 3 :
          \/ i \in 1 .. n
          \/ i = n + 1
          \/ \E w \in Weak!Words : i = n + w + 1
          \/ i = n + WordCount + 2
          \/ i = n + WordCount + 3
  BY <1>0, LatestJoined
<1>6. \A i \in 1 .. n : StoreIs(buffer[i])
  BY <1>0 DEF LatestInv, LatestTypes
<1>7. \A i \in 1 .. Len(buffer') : StoreIs(buffer'[i])
  <2> SUFFICES ASSUME NEW i \in 1 .. n + WordCount + 3 PROVE StoreIs(buffer'[i])
    BY <1>1
  <2>1. CASE i \in 1 .. n
    BY <1>2, <1>6, <2>1
  <2>2. CASE i = n + 1
    BY <1>1, <1>3, <2>2 DEF StoreIs
  <2>3. CASE \E w \in Weak!Words : i = n + w + 1
    BY <1>4, <2>3 DEF StoreIs
  <2>4. CASE i = n + WordCount + 2
    BY <1>3, <2>4 DEF StoreIs
  <2>5. CASE i = n + WordCount + 3
    BY <1>1, <1>3, <2>5 DEF StoreIs
  <2> QED BY <1>5, <2>1, <2>2, <2>3, <2>4, <2>5
<1>8. Len(buffer') <= LatestBound
  BY <1>0, <1>1 DEF LatestCommit
<1>9. /\ UNCHANGED <<mem, rpc, rseq, got, result, published, lap>>
      /\ wrPending' = FALSE /\ scratch' = None
  BY DEF LatestCommit
<1> QED BY <1>1, <1>7, <1>8, <1>9 DEF LatestInv, LatestTypes, LatestBound, StoreIs

\* The writing CPU commits a frame.
LEMMA LatestCommits ==
    ASSUME LatestInv, part' = part, LatestCommit
    PROVE  LatestInv' /\ UNCHANGED <<mem, rpc, rseq, got, result, published, lap>>
<1>1. UNCHANGED <<mem, rpc, rseq, got, result, published, lap>>
  BY DEF LatestCommit
<1>2. LatestTypes' /\ ChainInv' /\ WeakInv'
  BY LatestCommitTypes, LatestCommitChain, LatestCommitWeak
<1>3. ReaderInv'
  <2>1. \A i \in 1 .. Len(got) : FrameAhead(1, got[i].val) => (FrameAhead(1, got[i].val))'
    <3> TAKE i \in 1 .. Len(got)
    <3> HAVE FrameAhead(1, got[i].val)
    <3>1. PICK c : c = got[i].val
      OBVIOUS
    <3>2. 1 \in Nat \ {0} /\ FrameAhead(1, c)
      BY <3>1
    <3>3. (FrameAhead(1, c))'
      BY <3>2, LatestLater
    <3> QED BY <1>1, <3>1, <3>3 DEF FrameAhead
  <2> QED BY <1>1, <2>1 DEF LatestInv, ReaderInv
<1>4. OrderedInv'
  BY <1>1, LatestCommitPlaces DEF LatestInv, OrderedInv, Current
<1>5. ResultInv'
  BY <1>1 DEF LatestInv, ResultInv
<1> QED BY <1>1, <1>2, <1>3, <1>4, <1>5 DEF LatestInv

\* What is on its way after a store has arrived: the others.
LEMMA LatestGone ==
    ASSUME LatestInv, NEW i \in 1 .. Len(buffer), Weak!Arrive(i), NEW n, n = Len(buffer)
    PROVE  /\ n \in Nat \ {0} /\ i \in 1 .. n
           /\ buffer' \in Seq(LatestStores) /\ Len(buffer') = n - 1
           /\ \A k \in 1 .. n - 1 : buffer'[k] = IF k < i THEN buffer[k] ELSE buffer[k + 1]
           /\ buffer[i] \in LatestStores /\ StoreIs(buffer[i]) /\ buffer[i].frame \in Item
           /\ i = 1 \/ /\ buffer[i].loc # Weak!SeqLoc
                       /\ \A j \in 1 .. i - 1 : buffer[j].loc # buffer[i].loc
           /\ UNCHANGED <<seq, wrPending, scratch, rpc, rseq, got, result>>
<1>1. buffer \in Seq(LatestStores) /\ n \in Nat /\ i \in 1 .. n
  BY LenProperties DEF LatestInv, LatestTypes
<1>2. buffer' = LeftOf(buffer, i)
  BY DEF Weak!Arrive, Weak!Without, LeftOf
<1>3. buffer' \in Seq(LatestStores) /\ Len(buffer') = Len(buffer) - 1
  BY <1>1, <1>2, LeftOut
<1>4. \A k \in 1 .. Len(buffer) - 1 : buffer'[k] = IF k < i THEN buffer[k] ELSE buffer[k + 1]
  BY <1>1, <1>2, LeftOut
<1>5. buffer[i] \in LatestStores /\ StoreIs(buffer[i]) /\ buffer[i].frame \in Item
  <2>1. buffer[i] \in LatestStores
    BY <1>1, ElementOfSeq
  <2> QED BY <2>1 DEF LatestStores, LatestInv, LatestTypes
<1>6. i = 1 \/ /\ buffer[i].loc # Weak!SeqLoc
               /\ \A j \in 1 .. i - 1 : buffer[j].loc # buffer[i].loc
  BY DEF Weak!Arrive, Weak!MayArrive
<1>7. UNCHANGED <<seq, wrPending, scratch, rpc, rseq, got, result>>
  BY DEF Weak!Arrive, Weak!writer, Weak!reader
<1>8. n \in Nat \ {0}
  BY <1>1
<1> QED BY <1>1, <1>3, <1>4, <1>5, <1>6, <1>7, <1>8

\* What a store does that arrives: the number, the checksum or a word.
LEMMA LatestEffect ==
    ASSUME LatestInv, NEW i \in 1 .. Len(buffer), Weak!Arrive(i)
    PROVE  /\ (buffer[i].loc = Weak!SeqLoc) =>
                 /\ i = 1 /\ buffer[i].val \in Weak!Numbers
                 /\ mem' = [mem EXCEPT !.seq = buffer[i].val]
           /\ (buffer[i].loc = Weak!CrcLoc) =>
                 /\ buffer[i].val = Uniform(buffer[i].frame)
                 /\ mem' = [mem EXCEPT !.crc = buffer[i].val]
           /\ \A w \in Weak!Words : (buffer[i].loc = Weak!WordLoc(w)) =>
                 /\ buffer[i].val = buffer[i].frame
                 /\ mem' = [mem EXCEPT !.payload[w] = buffer[i].val]
           /\ \/ buffer[i].loc = Weak!SeqLoc
              \/ buffer[i].loc = Weak!CrcLoc
              \/ \E w \in Weak!Words : buffer[i].loc = Weak!WordLoc(w)
           /\ Ends(buffer[i]) =>
                 /\ lap < LatestMod \div 2 - 1
                 /\ published' = buffer[i].frame
                 /\ lap' = IF rpc = "idle" THEN 0 ELSE lap + 1
           /\ ~Ends(buffer[i]) => published' = published /\ lap' = lap
<1>1. /\ mem' = CASE buffer[i].loc = Weak!SeqLoc -> [mem EXCEPT !.seq = buffer[i].val]
                  [] buffer[i].loc = Weak!CrcLoc -> [mem EXCEPT !.crc = buffer[i].val]
                  [] OTHER -> [mem EXCEPT !.payload[buffer[i].loc.word] = buffer[i].val]
      /\ IF Ends(buffer[i])
         THEN /\ lap < LatestMod \div 2 - 1
              /\ published' = buffer[i].frame
              /\ lap' = IF rpc = "idle" THEN 0 ELSE lap + 1
         ELSE UNCHANGED <<published, lap>>
  BY DEF Weak!Arrive, Ends, Weak!InWindow
<1>2. StoreIs(buffer[i])
  BY LatestGone
<1>3. (buffer[i].loc = Weak!SeqLoc) =>
          /\ i = 1 /\ buffer[i].val \in Weak!Numbers
          /\ mem' = [mem EXCEPT !.seq = buffer[i].val]
  <2>1. (buffer[i].loc = Weak!SeqLoc) => i = 1
    BY LatestGone
  <2> QED BY <1>1, <1>2, <2>1, LatestPlaces DEF StoreIs
<1>4. (buffer[i].loc = Weak!CrcLoc) =>
          /\ buffer[i].val = Uniform(buffer[i].frame)
          /\ mem' = [mem EXCEPT !.crc = buffer[i].val]
  BY <1>1, <1>2, LatestPlaces DEF StoreIs
<1>5. ASSUME NEW w \in Weak!Words, buffer[i].loc = Weak!WordLoc(w)
      PROVE  /\ buffer[i].val = buffer[i].frame
             /\ mem' = [mem EXCEPT !.payload[w] = buffer[i].val]
  <2>1. /\ buffer[i].loc # Weak!SeqLoc /\ buffer[i].loc # Weak!CrcLoc
        /\ buffer[i].loc.word = w
    BY <1>5, LatestPlaces
  <2> QED BY <1>1, <1>2, <2>1 DEF StoreIs
<1>6. \/ buffer[i].loc = Weak!SeqLoc
      \/ buffer[i].loc = Weak!CrcLoc
      \/ \E w \in Weak!Words : buffer[i].loc = Weak!WordLoc(w)
  BY <1>2 DEF StoreIs
<1> QED BY <1>1, <1>3, <1>4, <1>5, <1>6

\* Frames that were on their way still are, except one whose last store has arrived.
LEMMA LatestAhead ==
    ASSUME LatestInv, NEW i \in 1 .. Len(buffer), Weak!Arrive(i), NEW c
    PROVE  /\ \A k \in 1 .. i : FrameAhead(k, c) /\ ~Ends(buffer[i]) => FrameAhead(k, c)'
           /\ \A k \in Nat : k >= i /\ FrameAhead(k + 1, c) => FrameAhead(k, c)'
<1> DEFINE n == Len(buffer)
<1>0. n = Len(buffer)
  OBVIOUS
<1> HIDE DEF n
<1>1. n \in Nat \ {0} /\ i \in 1 .. n /\ Len(buffer') = n - 1
  BY <1>0, LatestGone
<1>2. \A k \in 1 .. n - 1 : buffer'[k] = IF k < i THEN buffer[k] ELSE buffer[k + 1]
  BY <1>0, LatestGone
<1>3. ASSUME NEW j \in 1 .. n, j # i, Ends(buffer[j]), c = Uniform(buffer[j].frame),
             NEW k \in Nat, k <= IF j < i THEN j ELSE j - 1
      PROVE  FrameAhead(k, c)'
  <2> DEFINE x == IF j < i THEN j ELSE j - 1
  <2>1. x \in 1 .. n - 1 /\ (x < i => x = j) /\ (~(x < i) => x + 1 = j) /\ x \in k .. n - 1
    BY <1>1, <1>3
  <2>2. buffer'[x] = buffer[j]
    BY <1>2, <2>1
  <2> HIDE DEF x
  <2> QED BY <1>1, <1>3, <2>1, <2>2 DEF FrameAhead, Ends
<1>4. ASSUME NEW k \in 1 .. i, FrameAhead(k, c), ~Ends(buffer[i])
      PROVE  FrameAhead(k, c)'
  <2>1. PICK j \in k .. n : Ends(buffer[j]) /\ c = Uniform(buffer[j].frame)
    BY <1>0, <1>4 DEF FrameAhead
  <2>2. j # i
    BY <1>4, <2>1
  <2>3. j \in 1 .. n /\ k \in Nat /\ k <= IF j < i THEN j ELSE j - 1
    BY <1>1, <2>2
  <2> QED BY <1>3, <2>1, <2>2, <2>3
<1>5. ASSUME NEW k \in Nat, k >= i, FrameAhead(k + 1, c)
      PROVE  FrameAhead(k, c)'
  <2>1. PICK j \in k + 1 .. n : Ends(buffer[j]) /\ c = Uniform(buffer[j].frame)
    BY <1>0, <1>5 DEF FrameAhead
  <2>2. j \in 1 .. n /\ j # i /\ k <= IF j < i THEN j ELSE j - 1
    BY <1>1, <1>5
  <2> QED BY <1>3, <2>1, <2>2
<1> QED BY <1>4, <1>5

\* The numbers of the stores that are left.
LEMMA LatestArriveChain ==
    ASSUME LatestInv, NEW i \in 1 .. Len(buffer), Weak!Arrive(i)
    PROVE  /\ ChainInv'
           /\ (buffer[i].loc = Weak!SeqLoc) => mem'.seq = Weak!Plus1(mem.seq)
           /\ (buffer[i].loc # Weak!SeqLoc /\ i = 1) => ~Weak!Even(mem.seq)
<1> DEFINE n == Len(buffer)
<1>0. n = Len(buffer)
  OBVIOUS
<1> HIDE DEF n
<1>1. n \in Nat \ {0} /\ i \in 1 .. n /\ Len(buffer') = n - 1 /\ seq' = seq
  BY <1>0, LatestGone
<1>2. \A k \in 1 .. n - 1 : buffer'[k] = IF k < i THEN buffer[k] ELSE buffer[k + 1]
  BY <1>0, LatestGone
<1>3. i = 1 \/ buffer[i].loc # Weak!SeqLoc
  BY LatestGone
<1>4. PICK N \in [0 .. n -> Weak!Numbers] : Numbered(N)
  BY <1>0 DEF LatestInv, ChainInv
<1>5. /\ N[0] = mem.seq /\ N[n] = seq
      /\ \A k \in 1 .. n :
            IF buffer[k].loc = Weak!SeqLoc
            THEN buffer[k].val = N[k] /\ N[k] = Weak!Plus1(N[k - 1])
            ELSE N[k] = N[k - 1] /\ ~Weak!Even(N[k])
  BY <1>0, <1>4 DEF Numbered
<1>6. /\ (buffer[i].loc = Weak!SeqLoc) => i = 1 /\ mem'.seq = buffer[i].val
      /\ (buffer[i].loc # Weak!SeqLoc) => mem'.seq = mem.seq
  <2>1. mem.seq \in Weak!Numbers /\ mem = [seq |-> mem.seq, payload |-> mem.payload,
                                           crc |-> mem.crc]
    BY DEF LatestInv, LatestTypes
  <2>2. (buffer[i].loc = Weak!SeqLoc) => i = 1 /\ mem' = [mem EXCEPT !.seq = buffer[i].val]
    BY LatestEffect
  <2>3. (buffer[i].loc = Weak!CrcLoc) => mem' = [mem EXCEPT !.crc = buffer[i].val]
    BY LatestEffect
  <2>4. \A w \in Weak!Words : (buffer[i].loc = Weak!WordLoc(w)) =>
           mem' = [mem EXCEPT !.payload[w] = buffer[i].val]
    BY LatestEffect
  <2>5. \/ buffer[i].loc = Weak!SeqLoc
        \/ buffer[i].loc = Weak!CrcLoc
        \/ \E w \in Weak!Words : buffer[i].loc = Weak!WordLoc(w)
    BY LatestEffect
  <2>6. (buffer[i].loc = Weak!SeqLoc) => mem'.seq = buffer[i].val
    BY <2>1, <2>2
  <2>7. (buffer[i].loc = Weak!CrcLoc) => mem'.seq = mem.seq
    BY <2>1, <2>3
  <2>8. \A w \in Weak!Words : (buffer[i].loc = Weak!WordLoc(w)) => mem'.seq = mem.seq
    BY <2>1, <2>4
  <2> QED BY <2>2, <2>5, <2>6, <2>7, <2>8
<1>7. /\ (buffer[i].loc = Weak!SeqLoc) => mem'.seq = N[1] /\ N[1] = Weak!Plus1(mem.seq)
      /\ (buffer[i].loc # Weak!SeqLoc) =>
             mem'.seq = mem.seq /\ N[i] = N[i - 1] /\ (i = 1 => ~Weak!Even(mem.seq))
  <2>1. 1 - 1 = 0
    OBVIOUS
  <2> QED BY <1>1, <1>5, <1>6, <2>1
<1> DEFINE M == [k \in 0 .. n - 1 |-> IF k < i - 1 THEN N[k] ELSE N[k + 1]]
<1>8. M \in [0 .. n - 1 -> Weak!Numbers]
  <2>1. \A k \in 0 .. n - 1 : k \in 0 .. n /\ k + 1 \in 0 .. n
    BY <1>1
  <2> QED BY <1>4, <2>1
<1>9. \A k \in 0 .. n - 1 : /\ (k >= i - 1) => M[k] = N[k + 1]
                            /\ (k < i) /\ (k > 0 \/ i > 1) => M[k] = N[k]
  <2> TAKE k \in 0 .. n - 1
  <2>1. M[k] = IF k < i - 1 THEN N[k] ELSE N[k + 1]
    OBVIOUS
  <2> HIDE DEF M
  <2>2. (k >= i - 1) => M[k] = N[k + 1]
    BY <1>1, <2>1
  <2>3. ASSUME k < i, k > 0 \/ i > 1 PROVE M[k] = N[k]
    <3>1. CASE k < i - 1
      BY <2>1, <3>1
    <3>2. CASE k = i - 1
      <4>1. i > 1 /\ k + 1 = i /\ ~(k < i - 1)
        BY <1>1, <2>3, <3>2
      <4>2. N[i] = N[i - 1]
        BY <1>1, <1>3, <1>7, <4>1
      <4> QED BY <2>1, <3>2, <4>1, <4>2
    <3> QED BY <1>1, <2>3, <3>1, <3>2
  <2> QED BY <2>2, <2>3
<1>10. M[0] = mem'.seq /\ M[n - 1] = seq
  <2>1. /\ 0 \in 0 .. n - 1 /\ n - 1 \in 0 .. n - 1 /\ n - 1 >= i - 1 /\ (n - 1) + 1 = n
        /\ (i = 1 => 0 >= i - 1 /\ 0 + 1 = 1) /\ (i # 1 => 0 < i /\ i > 1) /\ i - 1 \in Int
        /\ (i = 1 => i - 1 = 0)
    BY <1>1
  <2> HIDE DEF M
  <2>2. M[n - 1] = seq
    BY <1>5, <1>9, <2>1
  <2>3. CASE i = 1
    <3>1. M[0] = N[1]
      BY <1>9, <2>1, <2>3
    <3>2. (buffer[i].loc # Weak!SeqLoc) => N[1] = N[0]
      BY <1>7, <2>1, <2>3
    <3> QED BY <1>5, <1>7, <2>2, <3>1, <3>2
  <2>4. CASE i # 1
    <3>1. M[0] = N[0]
      BY <1>9, <2>1, <2>4
    <3> QED BY <1>3, <1>5, <1>7, <2>2, <2>4, <3>1
  <2> QED BY <2>3, <2>4
<1> HIDE DEF M
<1>11. ASSUME NEW k \in 1 .. n - 1
       PROVE  IF buffer'[k].loc = Weak!SeqLoc
              THEN buffer'[k].val = M[k] /\ M[k] = Weak!Plus1(M[k - 1])
              ELSE M[k] = M[k - 1] /\ ~Weak!Even(M[k])
  <2>1. CASE k < i
    <3>1. /\ k \in 0 .. n - 1 /\ k - 1 \in 0 .. n - 1 /\ k > 0 /\ i > 1 /\ k - 1 < i
          /\ k \in 1 .. n
      BY <1>1, <2>1
    <3>2. M[k] = N[k] /\ M[k - 1] = N[k - 1] /\ buffer'[k] = buffer[k]
      BY <1>2, <1>9, <2>1, <3>1
    <3> QED BY <1>5, <3>1, <3>2
  <2>2. CASE ~(k < i)
    <3>1. /\ k \in 0 .. n - 1 /\ k - 1 \in 0 .. n - 1 /\ k >= i - 1 /\ k - 1 >= i - 1
          /\ k + 1 \in 1 .. n /\ (k - 1) + 1 = k /\ (k + 1) - 1 = k
      BY <1>1, <2>2
    <3>2. M[k] = N[k + 1] /\ M[k - 1] = N[k] /\ buffer'[k] = buffer[k + 1]
      BY <1>2, <1>9, <2>2, <3>1
    <3> QED BY <1>5, <3>1, <3>2
  <2> QED BY <2>1, <2>2
<1>12. ChainInv'
  BY <1>1, <1>8, <1>10, <1>11 DEF ChainInv, Numbered
<1> QED BY <1>7, <1>12

\* The checksum that arrives is followed by the number that ends its commit.
LEMMA LatestArriveWeak ==
    ASSUME LatestInv, NEW i \in 1 .. Len(buffer), Weak!Arrive(i)
    PROVE  WeakInv'
<1> DEFINE n == Len(buffer)
<1>0. n = Len(buffer)
  OBVIOUS
<1> HIDE DEF n
<1>1. n \in Nat \ {0} /\ i \in 1 .. n /\ Len(buffer') = n - 1
  BY <1>0, LatestGone
<1>2. \A k \in 1 .. n - 1 : buffer'[k] = IF k < i THEN buffer[k] ELSE buffer[k + 1]
  BY <1>0, LatestGone
<1>3. i = 1 \/ /\ buffer[i].loc # Weak!SeqLoc
               /\ \A j \in 1 .. i - 1 : buffer[j].loc # buffer[i].loc
  BY LatestGone
<1>4. /\ \A k \in 1 .. n :
            /\ (buffer[k].loc = Weak!CrcLoc) =>
                  /\ k < n /\ Ends(buffer[k + 1])
                  /\ buffer[k + 1].frame = buffer[k].frame
            /\ Ends(buffer[k]) =>
                  \/ k > 1 /\ buffer[k - 1].loc = Weak!CrcLoc
                  \/ /\ \A j \in 1 .. k - 1 : buffer[j].loc # Weak!CrcLoc
                     /\ FrameAhead(k, mem.crc)
      /\ mem.crc = Uniform(published) \/ FrameAhead(1, mem.crc)
  BY <1>0 DEF LatestInv, WeakInv
<1>5. PICK c : c = mem'.crc
  OBVIOUS
<1>6. /\ (buffer[i].loc = Weak!CrcLoc) => c = Uniform(buffer[i].frame)
      /\ (buffer[i].loc # Weak!CrcLoc) => c = mem.crc
  <2>1. mem = [seq |-> mem.seq, payload |-> mem.payload, crc |-> mem.crc]
    BY DEF LatestInv, LatestTypes
  <2>2. (buffer[i].loc = Weak!SeqLoc) => mem' = [mem EXCEPT !.seq = buffer[i].val]
    BY LatestEffect
  <2>3. (buffer[i].loc = Weak!CrcLoc) =>
            /\ buffer[i].val = Uniform(buffer[i].frame)
            /\ mem' = [mem EXCEPT !.crc = buffer[i].val]
    BY LatestEffect
  <2>4. \A w \in Weak!Words : (buffer[i].loc = Weak!WordLoc(w)) =>
           mem' = [mem EXCEPT !.payload[w] = buffer[i].val]
    BY LatestEffect
  <2>5. \/ buffer[i].loc = Weak!SeqLoc
        \/ buffer[i].loc = Weak!CrcLoc
        \/ \E w \in Weak!Words : buffer[i].loc = Weak!WordLoc(w)
    BY LatestEffect
  <2>6. (buffer[i].loc = Weak!SeqLoc) => mem'.crc = mem.crc
    BY <2>1, <2>2
  <2>7. (buffer[i].loc = Weak!CrcLoc) => mem'.crc = Uniform(buffer[i].frame)
    BY <2>1, <2>3
  <2>8. \A w \in Weak!Words : (buffer[i].loc = Weak!WordLoc(w)) => mem'.crc = mem.crc
    BY <2>1, <2>4
  <2> QED BY <1>5, <2>5, <2>6, <2>7, <2>8
<1>7. \A k \in 1 .. i : FrameAhead(k, c) /\ ~Ends(buffer[i]) => FrameAhead(k, c)'
  BY LatestAhead
<1>8. \A k \in Nat : k >= i /\ FrameAhead(k + 1, c) => FrameAhead(k, c)'
  BY LatestAhead
<1>9. (buffer[i].loc = Weak!CrcLoc) =>
         /\ i \in 1 .. n - 1 /\ buffer'[i] = buffer[i + 1] /\ ~Ends(buffer[i])
         /\ Ends(buffer'[i]) /\ buffer'[i].frame = buffer[i].frame
         /\ \A k \in 1 .. i : FrameAhead(k, c)'
  <2> SUFFICES ASSUME buffer[i].loc = Weak!CrcLoc
               PROVE  /\ i \in 1 .. n - 1 /\ buffer'[i] = buffer[i + 1] /\ ~Ends(buffer[i])
                      /\ Ends(buffer'[i]) /\ buffer'[i].frame = buffer[i].frame
                      /\ \A k \in 1 .. i : FrameAhead(k, c)'
    OBVIOUS
  <2>1. i < n /\ Ends(buffer[i + 1]) /\ buffer[i + 1].frame = buffer[i].frame
    BY <1>1, <1>4
  <2>2. i \in 1 .. n - 1 /\ ~(i < i)
    BY <1>1, <2>1
  <2>3. buffer'[i] = buffer[i + 1] /\ ~Ends(buffer[i])
    BY <1>2, <2>2, LatestPlaces DEF Ends
  <2>4. ASSUME NEW k \in 1 .. i PROVE FrameAhead(k, c)'
    <3>1. i \in k .. n - 1
      BY <1>1, <2>2
    <3>2. c = Uniform(buffer'[i].frame)
      BY <1>6, <2>1, <2>3
    <3> QED BY <1>1, <2>1, <2>3, <3>1, <3>2 DEF FrameAhead, Ends
  <2> QED BY <2>1, <2>2, <2>3, <2>4
<1>10. ASSUME NEW k \in 1 .. n - 1, buffer'[k].loc = Weak!CrcLoc
       PROVE  /\ k < n - 1 /\ Ends(buffer'[k + 1])
              /\ buffer'[k + 1].frame = buffer'[k].frame
  <2>1. CASE k < i
    <3>1. buffer'[k] = buffer[k] /\ k \in 1 .. n
      BY <1>1, <1>2, <2>1
    <3>2. k < n /\ Ends(buffer[k + 1]) /\ buffer[k + 1].frame = buffer[k].frame
      BY <1>4, <1>10, <3>1
    <3>3. k + 1 # i
      <4>1. i # 1
        BY <1>1, <2>1
      <4> QED BY <1>3, <3>2, <4>1 DEF Ends
    <3>4. k + 1 \in 1 .. n - 1 /\ k + 1 < i /\ k < n - 1
      BY <1>1, <2>1, <3>3
    <3> QED BY <1>2, <3>1, <3>2, <3>4
  <2>2. CASE ~(k < i)
    <3>1. buffer'[k] = buffer[k + 1] /\ k + 1 \in 1 .. n
      BY <1>1, <1>2, <2>2
    <3>2. k + 1 < n /\ Ends(buffer[(k + 1) + 1])
          /\ buffer[(k + 1) + 1].frame = buffer[k + 1].frame
      BY <1>4, <1>10, <3>1
    <3>3. k + 1 \in 1 .. n - 1 /\ ~(k + 1 < i) /\ k < n - 1
      BY <1>1, <2>2, <3>2
    <3> QED BY <1>2, <3>1, <3>2, <3>3
  <2> QED BY <2>1, <2>2
<1>11. ASSUME NEW k \in 1 .. n - 1, Ends(buffer'[k])
       PROVE  \/ k > 1 /\ buffer'[k - 1].loc = Weak!CrcLoc
              \/ /\ \A j \in 1 .. k - 1 : buffer'[j].loc # Weak!CrcLoc
                 /\ FrameAhead(k, c)'
  <2>1. CASE k < i
    <3>1. buffer'[k] = buffer[k] /\ k \in 1 .. n /\ k \in 1 .. i /\ i # 1
      BY <1>1, <1>2, <2>1
    <3>2. ~Ends(buffer[i])
      BY <1>3, <3>1 DEF Ends
    <3>3. \A j \in 1 .. k - 1 : j \in 1 .. n - 1 /\ j < i
      BY <1>1, <2>1
    <3>4. \A j \in 1 .. k - 1 : buffer'[j] = buffer[j]
      BY <1>2, <3>3
    <3>5. CASE k > 1 /\ buffer[k - 1].loc = Weak!CrcLoc
      <4>1. k - 1 \in 1 .. k - 1
        BY <3>5
      <4> QED BY <3>4, <3>5, <4>1
    <3>6. CASE /\ \A j \in 1 .. k - 1 : buffer[j].loc # Weak!CrcLoc
               /\ FrameAhead(k, mem.crc)
      <4>1. \A j \in 1 .. k - 1 : buffer'[j].loc # Weak!CrcLoc
        BY <3>4, <3>6
      <4>2. FrameAhead(k, c)'
        <5>1. CASE buffer[i].loc = Weak!CrcLoc
          BY <1>9, <3>1, <5>1
        <5>2. CASE buffer[i].loc # Weak!CrcLoc
          BY <1>6, <1>7, <3>1, <3>2, <3>6, <5>2
        <5> QED BY <5>1, <5>2
      <4> QED BY <4>1, <4>2
    <3> QED BY <1>4, <1>11, <3>1, <3>5, <3>6
  <2>2. CASE ~(k < i)
    <3>1. buffer'[k] = buffer[k + 1] /\ k + 1 \in 1 .. n /\ k \in 1 .. n /\ (k + 1) - 1 = k
      BY <1>1, <1>2, <2>2
    <3>2. CASE buffer[k].loc = Weak!CrcLoc /\ k # i
      <4>1. k > 1 /\ k - 1 \in 1 .. n - 1 /\ ~(k - 1 < i) /\ (k - 1) + 1 = k
        BY <1>1, <2>2, <3>2
      <4>2. buffer'[k - 1] = buffer[k]
        BY <1>2, <4>1
      <4> QED BY <3>2, <4>1, <4>2
    <3>3. CASE buffer[k].loc = Weak!CrcLoc /\ k = i
      <4>1. FrameAhead(k, c)'
        <5>1. k \in 1 .. i
          BY <3>3
        <5> QED BY <1>9, <3>3, <5>1
      <4>2. \A j \in 1 .. k - 1 : buffer'[j].loc # Weak!CrcLoc
        <5>1. \A j \in 1 .. k - 1 : j \in 1 .. n - 1 /\ j < i /\ i # 1 /\ j \in 1 .. i - 1
          BY <1>1, <3>3
        <5> QED BY <1>2, <1>3, <3>3, <5>1
      <4> QED BY <4>1, <4>2
    <3>4. CASE /\ \A j \in 1 .. k : buffer[j].loc # Weak!CrcLoc
               /\ FrameAhead(k + 1, mem.crc)
      <4>1. /\ i \in 1 .. k /\ k \in Nat /\ k >= i
            /\ \A j \in 1 .. k - 1 : j \in 1 .. n - 1 /\ j \in 1 .. k /\ j + 1 \in 1 .. k
        BY <1>1, <2>2
      <4>2. \A j \in 1 .. k - 1 : buffer'[j].loc # Weak!CrcLoc
        BY <1>2, <3>4, <4>1
      <4>3. FrameAhead(k, c)'
        BY <1>6, <1>8, <3>4, <4>1
      <4> QED BY <4>2, <4>3
    <3>5. \/ buffer[k].loc = Weak!CrcLoc
          \/ /\ \A j \in 1 .. k : buffer[j].loc # Weak!CrcLoc
             /\ FrameAhead(k + 1, mem.crc)
      BY <1>4, <1>11, <3>1
    <3> QED BY <3>2, <3>3, <3>4, <3>5
  <2> QED BY <2>1, <2>2
<1>12. c = Uniform(published') \/ FrameAhead(1, c)'
  <2>0. 1 \in 1 .. i /\ 1 \in 1 .. n
    BY <1>1
  <2>1. CASE buffer[i].loc = Weak!CrcLoc
    BY <1>9, <2>0, <2>1
  <2>2. CASE buffer[i].loc # Weak!CrcLoc /\ ~Ends(buffer[i])
    <3>1. published' = published /\ c = mem.crc
      BY <1>6, <2>2, LatestEffect
    <3> QED BY <1>4, <1>7, <2>0, <2>2, <3>1
  <2>3. CASE Ends(buffer[i])
    <3>1. i = 1 /\ c = mem.crc /\ published' = buffer[1].frame
      BY <1>3, <1>6, <2>3, LatestEffect, LatestPlaces DEF Ends
    <3>2. FrameAhead(1, c)
      BY <1>4, <2>0, <2>3, <3>1
    <3>3. PICK j \in 1 .. n : Ends(buffer[j]) /\ c = Uniform(buffer[j].frame)
      BY <1>0, <3>2 DEF FrameAhead
    <3>4. CASE j = 1
      BY <3>1, <3>3, <3>4
    <3>5. CASE j # 1
      <4>1. FrameAhead(1 + 1, c)
        <5>1. j \in (1 + 1) .. n
          BY <1>1, <3>5
        <5> QED BY <1>0, <3>3, <5>1 DEF FrameAhead
      <4>2. 1 \in Nat /\ 1 >= i
        BY <3>1
      <4> QED BY <1>8, <4>1, <4>2
    <3> QED BY <3>4, <3>5
  <2> QED BY <2>1, <2>2, <2>3
<1>13. \A k \in Nat : FrameAhead(k, c)' => FrameAhead(k, mem.crc)'
  BY <1>5 DEF FrameAhead
<1> QED BY <1>1, <1>5, <1>10, <1>11, <1>12, <1>13 DEF WeakInv, Ends

\* How far the number has come since the reader's call began.
LEMMA LatestArriveReader ==
    ASSUME LatestInv, NEW i \in 1 .. Len(buffer), Weak!Arrive(i)
    PROVE  /\ ReaderInv' /\ lap' \in 0 .. LatestMod \div 2 - 1
           /\ published' = published \/ published' \in Item
           /\ Weak!Even(mem'.seq) =>
                 \/ published' = published /\ mem'.seq = mem.seq /\ lap' = lap
                    /\ Weak!Even(mem.seq)
                 \/ i = 1 /\ Ends(buffer[1]) /\ published' = buffer[1].frame
           /\ (rpc = "copying" /\ Ends(buffer[i])) => lap' # 0
<1> DEFINE H == LatestMod \div 2
<1>0. H = LatestMod \div 2
  OBVIOUS
<1> HIDE DEF H
<1>1. /\ LatestMod \in Nat \ {0} /\ H \in Nat /\ LatestMod = 2 * H /\ LatestMod >= 4
      /\ mem.seq \in 0 .. LatestMod - 1 /\ rseq \in 0 .. LatestMod - 1 /\ lap \in 0 .. H - 1
      /\ buffer[i].frame \in Item /\ published \in Item \cup {None}
  <2>1. LatestMod \in Nat \ {0} /\ H \in Nat /\ LatestMod = 2 * H /\ LatestMod >= 4
    BY <1>0, LatestShape, LatestParity
  <2>2. buffer[i].frame \in Item
    BY LatestGone
  <2> QED BY <1>0, <2>1, <2>2 DEF LatestInv, LatestTypes, Weak!Numbers
<1>2. rpc' = rpc /\ rseq' = rseq /\ got' = got
  BY LatestGone
<1>3. /\ Ends(buffer[i]) =>
             /\ lap < H - 1 /\ published' = buffer[i].frame
             /\ lap' = IF rpc = "idle" THEN 0 ELSE lap + 1
      /\ ~Ends(buffer[i]) => published' = published /\ lap' = lap
  BY <1>0, LatestEffect
<1>4. (buffer[i].loc = Weak!SeqLoc) =>
         /\ i = 1 /\ mem'.seq = Weak!Plus1(mem.seq) /\ mem'.seq = buffer[i].val
         /\ (Weak!Even(mem'.seq) <=> ~Weak!Even(mem.seq))
  <2>1. (buffer[i].loc = Weak!SeqLoc) => mem'.seq = Weak!Plus1(mem.seq)
    BY LatestArriveChain
  <2>2. mem.seq \in Weak!Numbers
    BY <1>1 DEF Weak!Numbers
  <2>3. mem = [seq |-> mem.seq, payload |-> mem.payload, crc |-> mem.crc]
    BY DEF LatestInv, LatestTypes
  <2>4. (buffer[i].loc = Weak!SeqLoc) => i = 1 /\ mem' = [mem EXCEPT !.seq = buffer[i].val]
    BY LatestEffect
  <2>5. (buffer[i].loc = Weak!SeqLoc) => mem'.seq = buffer[i].val
    BY <2>3, <2>4
  <2> QED BY <2>1, <2>2, <2>4, <2>5, LatestParity
<1>5. (buffer[i].loc # Weak!SeqLoc) => mem'.seq = mem.seq
  <2>1. mem = [seq |-> mem.seq, payload |-> mem.payload, crc |-> mem.crc]
    BY DEF LatestInv, LatestTypes
  <2>2. (buffer[i].loc = Weak!CrcLoc) => mem'.seq = mem.seq
    <3>1. (buffer[i].loc = Weak!CrcLoc) => mem' = [mem EXCEPT !.crc = buffer[i].val]
      BY LatestEffect
    <3> QED BY <2>1, <3>1
  <2>3. ASSUME NEW w \in Weak!Words, buffer[i].loc = Weak!WordLoc(w)
        PROVE  mem'.seq = mem.seq
    <3>1. mem' = [mem EXCEPT !.payload[w] = buffer[i].val]
      BY <2>3, LatestEffect
    <3> QED BY <2>1, <3>1
  <2> QED BY <2>2, <2>3, LatestEffect
<1>6. Ends(buffer[i]) <=> buffer[i].loc = Weak!SeqLoc /\ Weak!Even(mem'.seq)
  BY <1>4 DEF Ends
<1>7. lap' \in 0 .. H - 1
  BY <1>1, <1>3
<1>8. published' = published \/ published' \in Item
  BY <1>1, <1>3
<1>9. Weak!Even(mem'.seq) =>
         \/ published' = published /\ mem'.seq = mem.seq /\ lap' = lap /\ Weak!Even(mem.seq)
         \/ i = 1 /\ Ends(buffer[1]) /\ published' = buffer[1].frame
  BY <1>3, <1>4, <1>5, <1>6
<1>10. (rpc = "copying" /\ Ends(buffer[i])) => lap' # 0
  BY <1>1, <1>3
<1>11. mem'.seq # 0 /\ Weak!Even(mem'.seq) => published' \in Item
  <2>1. mem.seq # 0 /\ Weak!Even(mem.seq) => published \in Item
    BY DEF LatestInv, ReaderInv
  <2> QED BY <1>1, <1>3, <1>9, <2>1
<1>12. (rpc = "idle") => lap' = 0
  <2>1. (rpc = "idle") => lap = 0
    BY DEF LatestInv, ReaderInv
  <2> QED BY <1>3, <2>1
<1>13. ASSUME rpc = "copying"
       PROVE  /\ published' \in Item
              /\ Span(LatestMod, mem'.seq, rseq) =
                    IF Weak!Even(mem'.seq) THEN 2 * lap' ELSE 2 * lap' + 1
  <2>1. published \in Item
        /\ Span(LatestMod, mem.seq, rseq) =
              IF Weak!Even(mem.seq) THEN 2 * lap ELSE 2 * lap + 1
    BY <1>13 DEF LatestInv, ReaderInv
  <2>2. published' \in Item
    BY <1>8, <2>1
  <2> DEFINE g == mem'.seq
             s == Span(LatestMod, mem.seq, rseq)
  <2>3. g = Weak!Plus1(mem.seq) /\ s # LatestMod - 1 => Span(LatestMod, g, rseq) = s + 1
    <3>1. ((mem.seq + 1) % LatestMod # rseq) =>
             Span(LatestMod, (mem.seq + 1) % LatestMod, rseq) = s + 1
      BY <1>1, RingGrows
    <3>2. ((mem.seq + 1) % LatestMod = rseq) <=> s = LatestMod - 1
      BY <1>1, RingGrows
    <3>3. Weak!Plus1(mem.seq) = (mem.seq + 1) % LatestMod
      BY DEF Weak!Plus1
    <3> HIDE DEF s, g
    <3> QED BY <3>1, <3>2, <3>3
  <2>4. s = IF Weak!Even(mem.seq) THEN 2 * lap ELSE 2 * lap + 1
    BY <2>1
  <2> HIDE DEF s
  <2>5. CASE Ends(buffer[i])
    <3>1. g = Weak!Plus1(mem.seq) /\ Weak!Even(g) /\ ~Weak!Even(mem.seq)
      BY <1>4, <1>6, <2>5
    <3>2. lap < H - 1 /\ lap' = lap + 1
      BY <1>3, <1>13, <2>5
    <3> HIDE DEF g
    <3>3. s = 2 * lap + 1 /\ s # LatestMod - 1
      BY <1>1, <2>4, <3>1, <3>2
    <3>4. Span(LatestMod, g, rseq) = s + 1
      BY <2>3, <3>1, <3>3
    <3>5. s + 1 = 2 * lap'
      BY <1>1, <3>2, <3>3
    <3>6. Span(LatestMod, g, rseq) = IF Weak!Even(g) THEN 2 * lap' ELSE 2 * lap' + 1
      BY <3>1, <3>4, <3>5
    <3> QED BY <2>2, <3>6 DEF g
  <2>6. CASE ~Ends(buffer[i]) /\ buffer[i].loc = Weak!SeqLoc
    <3>1. g = Weak!Plus1(mem.seq) /\ ~Weak!Even(g) /\ Weak!Even(mem.seq) /\ lap' = lap
      BY <1>3, <1>4, <1>6, <2>6
    <3> HIDE DEF g
    <3>2. s = 2 * lap /\ s # LatestMod - 1
      BY <1>1, <2>4, <3>1
    <3>3. Span(LatestMod, g, rseq) = s + 1
      BY <2>3, <3>1, <3>2
    <3>4. Span(LatestMod, g, rseq) = IF Weak!Even(g) THEN 2 * lap' ELSE 2 * lap' + 1
      BY <3>1, <3>2, <3>3
    <3> QED BY <2>2, <3>4 DEF g
  <2>7. CASE ~Ends(buffer[i]) /\ buffer[i].loc # Weak!SeqLoc
    BY <1>3, <1>5, <2>1, <2>2, <2>7
  <2> QED BY <2>5, <2>6, <2>7
<1>14. ASSUME rpc = "copying", lap' = 0, NEW k \in 1 .. Len(got), got[k].loc = Weak!CrcLoc
       PROVE  got[k].val = Uniform(published') \/ FrameAhead(1, got[k].val)'
  <2>1. ~Ends(buffer[i]) /\ published' = published /\ lap = 0
    BY <1>3, <1>10, <1>14
  <2>2. got[k].val = Uniform(published) \/ FrameAhead(1, got[k].val)
    BY <1>14, <2>1 DEF LatestInv, ReaderInv
  <2>3. PICK c : c = got[k].val
    OBVIOUS
  <2>4. FrameAhead(1, c) => FrameAhead(1, c)'
    <3>1. 1 \in 1 .. i
      OBVIOUS
    <3> QED BY <2>1, <3>1, LatestAhead
  <2>5. c = got'[k].val
    BY <1>2, <2>3
  <2> QED BY <2>1, <2>2, <2>3, <2>4, <2>5 DEF FrameAhead
<1>15. ReaderInv'
  BY <1>2, <1>11, <1>12, <1>13, <1>14 DEF ReaderInv
<1> QED BY <1>0, <1>7, <1>8, <1>9, <1>10, <1>15

\* In order, the first store has arrived.
LEMMA LatestArrivePlaces ==
    ASSUME LatestInv, 1 \in 1 .. Len(buffer), Weak!Arrive(1), PlacesInv
    PROVE  PlacesInv'
<1> DEFINE n == Len(buffer)
<1>0. n = Len(buffer)
  OBVIOUS
<1> HIDE DEF n
<1>1. n \in Nat \ {0} /\ Len(buffer') = n - 1
  BY <1>0, LatestGone
<1>2. \A k \in 1 .. n - 1 : buffer'[k] = buffer[k + 1]
  <2>1. \A k \in 1 .. n - 1 : buffer'[k] = IF k < 1 THEN buffer[k] ELSE buffer[k + 1]
    BY <1>0, LatestGone
  <2>2. \A k \in 1 .. n - 1 : ~(k < 1)
    BY <1>1
  <2> QED BY <2>1, <2>2
<1>3. PICK P \in Places, C \in Places : InPlace(P, C)
  BY DEF PlacesInv
<1>4. /\ P[0] = mem.payload /\ C[0] = mem.crc
      /\ Weak!Even(mem.seq) => P[0] = Uniform(published) /\ C[0] = Uniform(published)
      /\ \A k \in 1 .. n :
          /\ (buffer[k].loc = Weak!SeqLoc) => P[k] = P[k - 1] /\ C[k] = C[k - 1]
          /\ (buffer[k].loc = Weak!CrcLoc) => P[k] = P[k - 1] /\ C[k] = buffer[k].val
          /\ \A w \in Weak!Words : (buffer[k].loc = Weak!WordLoc(w)) =>
                P[k] = [P[k - 1] EXCEPT ![w] = buffer[k].val] /\ C[k] = C[k - 1]
          /\ Ends(buffer[k]) =>
                P[k] = Uniform(buffer[k].frame) /\ C[k] = Uniform(buffer[k].frame)
  BY <1>0, <1>3 DEF InPlace
<1>5. \A k \in 0 .. n : /\ P[k] \in [Weak!Words -> Item \cup {None}]
                        /\ C[k] \in [Weak!Words -> Item \cup {None}]
  BY <1>0, <1>3 DEF Places
<1> DEFINE U == [k \in 0 .. n - 1 |-> P[k + 1]]
           V == [k \in 0 .. n - 1 |-> C[k + 1]]
<1>6. \A k \in 0 .. n - 1 : U[k] = P[k + 1] /\ V[k] = C[k + 1]
  OBVIOUS
<1>7. /\ U \in [0 .. n - 1 -> [Weak!Words -> Item \cup {None}]]
      /\ V \in [0 .. n - 1 -> [Weak!Words -> Item \cup {None}]]
  <2>1. \A k \in 0 .. n - 1 : k + 1 \in 0 .. n
    BY <1>1
  <2> QED BY <1>5, <2>1
<1> HIDE DEF U, V
<1>8. U[0] = P[1] /\ V[0] = C[1] /\ 1 \in 1 .. n /\ 1 - 1 = 0
  <2>1. 0 \in 0 .. n - 1 /\ 0 + 1 = 1
    BY <1>1
  <2> QED BY <1>1, <1>6, <2>1
<1>9. /\ (buffer[1].loc = Weak!SeqLoc) => P[1] = P[0] /\ C[1] = C[0]
      /\ (buffer[1].loc = Weak!CrcLoc) => P[1] = P[0] /\ C[1] = buffer[1].val
      /\ \A w \in Weak!Words : (buffer[1].loc = Weak!WordLoc(w)) =>
            P[1] = [P[0] EXCEPT ![w] = buffer[1].val] /\ C[1] = C[0]
      /\ Ends(buffer[1]) => P[1] = Uniform(buffer[1].frame) /\ C[1] = Uniform(buffer[1].frame)
  BY <1>4, <1>8
<1>10. U[0] = mem'.payload /\ V[0] = mem'.crc
  <2>1. mem \in [seq : Weak!Numbers, payload : [Weak!Words -> Item \cup {None}],
                 crc : [Weak!Words -> Item \cup {None}]]
    BY DEF LatestInv, LatestTypes
  <2>2. CASE buffer[1].loc = Weak!SeqLoc
    <3>1. mem' = [mem EXCEPT !.seq = buffer[1].val]
      BY <2>2, LatestEffect
    <3>2. mem'.payload = mem.payload /\ mem'.crc = mem.crc
      BY <2>1, <3>1
    <3> QED BY <1>4, <1>8, <1>9, <2>2, <3>2
  <2>3. CASE buffer[1].loc = Weak!CrcLoc
    <3>1. mem' = [mem EXCEPT !.crc = buffer[1].val]
      BY <2>3, LatestEffect
    <3>2. mem'.payload = mem.payload /\ mem'.crc = buffer[1].val
      BY <2>1, <3>1
    <3> QED BY <1>4, <1>8, <1>9, <2>3, <3>2
  <2>4. ASSUME NEW w \in Weak!Words, buffer[1].loc = Weak!WordLoc(w)
        PROVE  U[0] = mem'.payload /\ V[0] = mem'.crc
    <3>1. mem' = [mem EXCEPT !.payload[w] = buffer[1].val]
      BY <2>4, LatestEffect
    <3>2. mem'.payload = [mem.payload EXCEPT ![w] = buffer[1].val] /\ mem'.crc = mem.crc
      BY <2>1, <3>1
    <3>3. P[1] = [P[0] EXCEPT ![w] = buffer[1].val] /\ C[1] = C[0]
      BY <1>9, <2>4
    <3> QED BY <1>4, <1>8, <3>2, <3>3
  <2> QED BY <2>2, <2>3, <2>4, LatestEffect
<1>11. Weak!Even(mem'.seq) => U[0] = Uniform(published') /\ V[0] = Uniform(published')
  <2> SUFFICES ASSUME Weak!Even(mem'.seq)
               PROVE  U[0] = Uniform(published') /\ V[0] = Uniform(published')
    OBVIOUS
  <2>1. CASE Ends(buffer[1])
    <3>1. published' = buffer[1].frame
      BY <2>1, LatestEffect
    <3> QED BY <1>8, <1>9, <2>1, <3>1
  <2>2. CASE ~Ends(buffer[1])
    <3>1. mem'.seq = mem.seq /\ Weak!Even(mem.seq)
      BY <2>2, LatestArriveReader
    <3>2. buffer[1].loc = Weak!SeqLoc
      BY <3>1, LatestArriveChain
    <3>3. mem'.seq = Weak!Plus1(mem.seq) /\ mem.seq \in Weak!Numbers
      BY <3>2, LatestArriveChain DEF LatestInv, LatestTypes
    <3> QED BY <3>1, <3>3, LatestParity
  <2> QED BY <2>1, <2>2
<1>12. ASSUME NEW k \in 1 .. n - 1
       PROVE  /\ (buffer'[k].loc = Weak!SeqLoc) => U[k] = U[k - 1] /\ V[k] = V[k - 1]
              /\ (buffer'[k].loc = Weak!CrcLoc) => U[k] = U[k - 1] /\ V[k] = buffer'[k].val
              /\ \A w \in Weak!Words : (buffer'[k].loc = Weak!WordLoc(w)) =>
                    U[k] = [U[k - 1] EXCEPT ![w] = buffer'[k].val] /\ V[k] = V[k - 1]
              /\ Ends(buffer'[k]) =>
                    U[k] = Uniform(buffer'[k].frame) /\ V[k] = Uniform(buffer'[k].frame)
  <2>1. /\ k \in 0 .. n - 1 /\ k - 1 \in 0 .. n - 1 /\ (k - 1) + 1 = k
        /\ k + 1 \in 1 .. n /\ (k + 1) - 1 = k
    BY <1>1
  <2>2. /\ U[k] = P[k + 1] /\ V[k] = C[k + 1] /\ U[k - 1] = P[k] /\ V[k - 1] = C[k]
        /\ buffer'[k] = buffer[k + 1]
    BY <1>2, <1>6, <2>1
  <2> DEFINE j == k + 1
  <2>3. j \in 1 .. n /\ j - 1 = k /\ j = k + 1
    BY <2>1
  <2> HIDE DEF j
  <2>4. /\ (buffer[j].loc = Weak!SeqLoc) => P[j] = P[k] /\ C[j] = C[k]
        /\ (buffer[j].loc = Weak!CrcLoc) => P[j] = P[k] /\ C[j] = buffer[j].val
        /\ \A w \in Weak!Words : (buffer[j].loc = Weak!WordLoc(w)) =>
              P[j] = [P[k] EXCEPT ![w] = buffer[j].val] /\ C[j] = C[k]
        /\ Ends(buffer[j]) => P[j] = Uniform(buffer[j].frame) /\ C[j] = Uniform(buffer[j].frame)
    BY <1>4, <2>3
  <2>5. /\ U[k] = P[j] /\ V[k] = C[j] /\ U[k - 1] = P[k] /\ V[k - 1] = C[k]
        /\ buffer'[k] = buffer[j]
    BY <2>2, <2>3
  <2> QED BY <2>4, <2>5
<1>13. ASSUME NEW u, NEW v, u = U, v = V
       PROVE  (u \in Places /\ v \in Places)' /\ InPlace(u, v)'
  <2>1. (u \in Places /\ v \in Places)'
    BY <1>1, <1>7, <1>13 DEF Places
  <2>2. InPlace(u, v)'
    BY <1>1, <1>10, <1>11, <1>12, <1>13 DEF InPlace, Ends
  <2> QED BY <2>1, <2>2
<1> QED BY <1>13 DEF PlacesInv

\* After a store has arrived the channel is well-formed.
LEMMA LatestArriveTypes ==
    ASSUME LatestInv, part' = part, NEW i \in 1 .. Len(buffer), Weak!Arrive(i)
    PROVE  LatestTypes'
<1> DEFINE n == Len(buffer)
<1>0. n = Len(buffer)
  OBVIOUS
<1> HIDE DEF n
<1>1. /\ n \in Nat \ {0} /\ i \in 1 .. n /\ Len(buffer') = n - 1
      /\ buffer' \in Seq(LatestStores) /\ buffer[i].frame \in Item
      /\ UNCHANGED <<seq, wrPending, scratch, rpc, rseq, got, result>>
  BY <1>0, LatestGone
<1>2. \A k \in 1 .. n - 1 : buffer'[k] = IF k < i THEN buffer[k] ELSE buffer[k + 1]
  BY <1>0, LatestGone
<1>3. \A k \in 1 .. n - 1 : StoreIs(buffer'[k])
  <2>1. \A k \in 1 .. n : StoreIs(buffer[k])
    BY <1>0 DEF LatestInv, LatestTypes
  <2>2. \A k \in 1 .. n - 1 : k \in 1 .. n /\ k + 1 \in 1 .. n
    BY <1>1
  <2> QED BY <1>2, <2>1, <2>2
<1>4. n - 1 <= LatestBound
  <2>1. n <= LatestBound /\ LatestBound \in Nat
    BY <1>0, LatestShape DEF LatestInv, LatestTypes, LatestBound
  <2> QED BY <1>1, <2>1
<1>5. lap' \in 0 .. LatestMod \div 2 - 1 /\ published' \in Item \cup {None}
  BY LatestArriveReader DEF LatestInv, LatestTypes
<1>6. mem' \in [seq : Weak!Numbers, payload : [Weak!Words -> Item \cup {None}],
                crc : [Weak!Words -> Item \cup {None}]]
  <2>1. mem \in [seq : Weak!Numbers, payload : [Weak!Words -> Item \cup {None}],
                 crc : [Weak!Words -> Item \cup {None}]]
    BY DEF LatestInv, LatestTypes
  <2>2. CASE buffer[i].loc = Weak!SeqLoc
    <3>1. mem' = [mem EXCEPT !.seq = buffer[i].val] /\ buffer[i].val \in Weak!Numbers
      BY <2>2, LatestEffect
    <3> QED BY <2>1, <3>1
  <2>3. CASE buffer[i].loc = Weak!CrcLoc
    <3>1. mem' = [mem EXCEPT !.crc = buffer[i].val] /\ buffer[i].val = Uniform(buffer[i].frame)
      BY <2>3, LatestEffect
    <3>2. Uniform(buffer[i].frame) \in [Weak!Words -> Item \cup {None}]
      BY <1>1 DEF Uniform
    <3> QED BY <2>1, <3>1, <3>2
  <2>4. ASSUME NEW w \in Weak!Words, buffer[i].loc = Weak!WordLoc(w)
        PROVE  mem' \in [seq : Weak!Numbers, payload : [Weak!Words -> Item \cup {None}],
                         crc : [Weak!Words -> Item \cup {None}]]
    <3>1. mem' = [mem EXCEPT !.payload[w] = buffer[i].val] /\ buffer[i].val \in Item
      BY <1>1, <2>4, LatestEffect
    <3> QED BY <2>1, <3>1
  <2> QED BY <2>2, <2>3, <2>4, LatestEffect
<1> QED BY <1>1, <1>3, <1>4, <1>5, <1>6 DEF LatestInv, LatestTypes, LatestBound, StoreIs

\* A store arrives.
LEMMA LatestArrives ==
    ASSUME LatestInv, part' = part, LatestArrive
    PROVE  /\ LatestInv' /\ UNCHANGED result
           /\ published' = published \/ published' \in Item
<1>1. PICK i \in 1 .. Len(buffer) : Weak!Arrive(i) /\ (part = "ordered" => i = 1)
  BY DEF LatestArrive
<1>2. UNCHANGED <<rpc, got, result>>
  BY <1>1, LatestGone
<1>3. LatestTypes' /\ ChainInv' /\ WeakInv' /\ ReaderInv'
  BY <1>1, LatestArriveTypes, LatestArriveChain, LatestArriveWeak, LatestArriveReader
<1>4. published' = published \/ published' \in Item
  BY <1>1, LatestArriveReader
<1>5. OrderedInv'
  <2> SUFFICES ASSUME part = "ordered" PROVE OrderedInv'
    BY DEF OrderedInv
  <2>1. i = 1 /\ PlacesInv /\ result.ret # "INVALID"
    BY <1>1 DEF LatestInv, OrderedInv
  <2>2. PlacesInv'
    BY <1>1, <2>1, LatestArrivePlaces
  <2>3. ASSUME rpc = "copying", Weak!Even(mem'.seq) PROVE lap' # 0
    <3>1. CASE Ends(buffer[i])
      BY <1>1, <2>3, <3>1, LatestArriveReader
    <3>2. CASE ~Ends(buffer[i])
      <4>1. mem'.seq = mem.seq /\ Weak!Even(mem.seq)
        BY <1>1, <2>1, <2>3, <3>2, LatestArriveReader
      <4>2. buffer[i].loc = Weak!SeqLoc
        BY <1>1, <2>1, <4>1, LatestArriveChain
      <4>3. mem'.seq = Weak!Plus1(mem.seq) /\ mem.seq \in Weak!Numbers
        BY <1>1, <4>2, LatestArriveChain DEF LatestInv, LatestTypes
      <4> QED BY <4>1, <4>3, LatestParity
    <3> QED BY <3>1, <3>2
  <2> QED BY <1>2, <2>1, <2>2, <2>3 DEF OrderedInv
<1>6. ResultInv'
  BY <1>2 DEF LatestInv, ResultInv
<1> QED BY <1>2, <1>3, <1>4, <1>5, <1>6 DEF LatestInv

\* What is not about the telemetry channel leaves it alone.
LEMMA LatestStays ==
    ASSUME LatestInv, UNCHANGED <<part, latestVars>>
    PROVE  LatestInv' /\ UNCHANGED <<result, published>>
<1>1. UNCHANGED <<part, mem, buffer, seq, wrPending, scratch, rpc, rseq, got, result,
                  published, lap>>
  BY DEF latestVars
<1>2. LatestTypes'
  BY <1>1 DEF LatestInv, LatestTypes, LatestBound
<1>3. ChainInv'
  BY <1>1 DEF LatestInv, ChainInv, Numbered
<1>4. WeakInv'
  BY <1>1 DEF LatestInv, WeakInv, FrameAhead
<1>5. ReaderInv'
  BY <1>1 DEF LatestInv, ReaderInv, FrameAhead
<1>6. OrderedInv'
  BY <1>1, PlacesKept DEF LatestInv, OrderedInv, Current
<1>7. ResultInv'
  BY <1>1 DEF LatestInv, ResultInv
<1> QED BY <1>1, <1>2, <1>3, <1>4, <1>5, <1>6, <1>7 DEF LatestInv

\* The steps of the register.
LEMMA LatestRegisterStep ==
    ASSUME part' = part,
           \/ UNCHANGED <<result, published>>
           \/ UNCHANGED result /\ published' \in Item
           \/ UNCHANGED published /\ result'.ret # "OK"
           \/ /\ UNCHANGED published
              /\ (part = "ordered") =>
                    published \in Item /\ result'.payload = Uniform(published)
    PROVE  [Register!Next]_(Register!vars)
<1> DEFINE newest == IF part = "ordered" THEN published ELSE None
           held == IF part = "ordered" THEN Ordered!Loan ELSE None
<1>1. CASE part # "ordered"
  <2>1. Register!vars' = Register!vars
    BY <1>1 DEF Register!vars
  <2> QED BY <2>1
<1>2. CASE part = "ordered" /\ UNCHANGED <<result, published>>
  <2>1. Register!vars' = Register!vars
    BY <1>2 DEF Register!vars, Ordered!Loan
  <2> QED BY <2>1
<1>3. CASE part = "ordered" /\ UNCHANGED result /\ published' \in Item
  <2>1. Register!Publish
    BY <1>3 DEF Register!Publish, Ordered!Loan
  <2> QED BY <2>1 DEF Register!Next
<1>4. CASE part = "ordered" /\ UNCHANGED published /\ result'.ret # "OK"
  <2>1. Register!Return
    BY <1>4 DEF Register!Return, Ordered!Loan
  <2> QED BY <2>1 DEF Register!Next
<1>5. CASE /\ part = "ordered" /\ UNCHANGED published /\ result'.ret = "OK"
           /\ published \in Item /\ result'.payload = Uniform(published)
  <2>1. published # None /\ 1 \in Weak!Words
    BY <1>5, LatestShape DEF Weak!Words
  <2>2. result'.payload[1] = published
    BY <1>5, <2>1 DEF Uniform
  <2>3. Register!Borrow
    BY <1>5, <2>1, <2>2 DEF Register!Borrow, Ordered!Loan
  <2> QED BY <2>3 DEF Register!Next
<1> QED BY <1>1, <1>2, <1>3, <1>4, <1>5

\* Every step of the channels keeps the invariant, and is one of the register.
LEMMA LatestStep ==
    ASSUME LatestInv, [IpcNext]_allVars
    PROVE  LatestInv' /\ [Register!Next]_(Register!vars)
<1>0. part' = part
  BY DEF IpcNext, allVars
<1>1. CASE UNCHANGED latestVars
  BY <1>0, <1>1, LatestStays, LatestRegisterStep
<1>2. CASE \/ part = "ordered" /\ Ordered!Next
           \/ part = "weak" /\ Weak!Next
  <2>1. Weak!AcquireWrite \/ Weak!Abort \/ LatestCommit \/ LatestArrive \/ LatestReads
    BY <1>2, LatestSteps DEF LatestInv
  <2>2. CASE Weak!AcquireWrite \/ Weak!Abort
    BY <1>0, <2>2, LatestHand, LatestRegisterStep
  <2>3. CASE LatestCommit
    BY <1>0, <2>3, LatestCommits, LatestRegisterStep
  <2>4. CASE LatestArrive
    BY <1>0, <2>4, LatestArrives, LatestRegisterStep
  <2>5. CASE Weak!BeginRead
    BY <1>0, <2>5, LatestBegin, LatestRegisterStep
  <2>6. CASE \E l \in Weak!CopyLocs : Weak!CopyOne(l)
    BY <1>0, <2>6, LatestCopy, LatestRegisterStep
  <2>7. CASE Weak!EndRead
    BY <1>0, <2>7, LatestEnd, LatestRegisterStep
  <2> QED BY <2>1, <2>2, <2>3, <2>4, <2>5, <2>6, <2>7 DEF LatestReads
<1> QED BY <1>1, <1>2 DEF IpcNext, allVars

\* The telemetry channel: it is well-formed; in order it takes nothing for damage and is
\* a register; in whatever order it returns whole frames that are not stale.
LEMMA LatestHolds ==
    IpcSpec =>
        /\ [](/\ IF part = "weak" THEN Weak!TypeOK ELSE Ordered!TypeOK
              /\ (part = "ordered") => Ordered!NoFalseAlarm)
        /\ LatestIsRegister
<1>1. IpcInit => LatestInv /\ Register!Init
  BY LatestInit DEF IpcInit, Register!Init, Ordered!Init, Ordered!Loan
<1>2. LatestInv =>
         /\ IF part = "weak" THEN Weak!TypeOK ELSE Ordered!TypeOK
         /\ (part = "ordered") => Ordered!NoFalseAlarm
  <2> SUFFICES ASSUME LatestInv
      PROVE  /\ IF part = "weak" THEN Weak!TypeOK ELSE Ordered!TypeOK
             /\ (part = "ordered") => Ordered!NoFalseAlarm
    OBVIOUS
  <2>1. LatestTypes
    BY DEF LatestInv
  <2>2. (part = "weak") => Weak!TypeOK
    BY <2>1 DEF LatestTypes, LatestBound, Weak!TypeOK
  <2>3. (part # "weak") => Ordered!TypeOK
    BY <2>1 DEF LatestTypes, LatestBound, Ordered!TypeOK, Ordered!Numbers, Weak!Numbers,
                Ordered!Words, Weak!Words, Ordered!Even, Weak!Even
  <2> QED BY <2>2, <2>3 DEF LatestInv, OrderedInv, Ordered!NoFalseAlarm
<1>3. LatestInv /\ [IpcNext]_allVars => LatestInv' /\ [Register!Next]_(Register!vars)
  BY LatestStep
<1>4. LatestInv /\ [IpcNext]_allVars =>
         [Weak!EndRead /\ result'.ret = "OK"
            => \E v \in {published} \cup Weak!OnItsWay :
                  result'.payload = [w \in Weak!Words |-> v]]_(Weak!vars)
  <2> SUFFICES ASSUME LatestInv, [IpcNext]_allVars, Weak!EndRead, result'.ret = "OK"
      PROVE  \E v \in {published} \cup Weak!OnItsWay :
                  result'.payload = [w \in Weak!Words |-> v]
    OBVIOUS
  <2>1. part' = part
    BY DEF IpcNext, allVars
  <2> QED BY <2>1, LatestEnd DEF Uniform
<1>5. LatestInv => Weak!WholeFrames
  BY DEF LatestInv, ResultInv, Weak!WholeFrames, Uniform
<1>6. LatestInv' => [(Weak!WholeFrames)']_allVars
  BY <1>5, PTL
<1> QED BY <1>1, <1>2, <1>3, <1>4, <1>6, PTL
        DEF IpcSpec, LatestIsRegister, Register!Spec, Weak!NeverStale

-----------------------------------------------------------------------------
(* The channels together                                                       *)

\* Rings, channel and relay are well-formed, and neither reader is ever in the slot
\* its writer stores into (bm_mp_ipc_backend.c:104, 126, 162; bm_stream_relay.c:283-311).
THEOREM ChannelsHold == IpcSpec => []ChannelsOK
<1>1. /\ TypeOK /\ NoFalseAlarm
      /\ Relay!TypeOK /\ Relay!NeverUnderReader /\ Relay!NeverCorrupt /\ Relay!NoFalseGap
      /\ Fifo!TypeOK /\ Fifo!NeverSameSlot
      /\ IF part = "weak" THEN Weak!TypeOK ELSE Ordered!TypeOK
      => ChannelsOK
  BY DEF ChannelsOK
<1> QED BY <1>1, RelayHolds, FifoHolds, EventsHold, LatestHolds, PTL

\* What is in good order is never taken for damage, wherever a counter comes round
\* (bm_mp_ipc_matrix.c:266; bm_mp_ipc_backend.c:282-286; bm_stream_relay.c:284-311).
THEOREM AlarmsHold == IpcSpec => []NoFalseAlarms
<1>1. /\ NoFalseAlarm /\ Relay!NeverCorrupt /\ Relay!NoFalseGap
      /\ (part = "ordered") => Ordered!NoFalseAlarm
      => NoFalseAlarms
  BY DEF NoFalseAlarms
<1> QED BY <1>1, RelayHolds, EventsHold, LatestHolds, PTL

\* The rings of events, the command ring and the relay carry whole items, in order, each
\* once, whatever the target refuses (bm_mp_ipc_backend.c:16-27; bm_mp_ipc_matrix.c:309-316).
THEOREM QueuesHold == IpcSpec => ChannelsAreQueues
BY RelayHolds, FifoHolds, EventsHold, PTL DEF ChannelsAreQueues

\* With stores in order the telemetry channel is a register; in whatever order they
\* arrive, what it returns is whole and not stale (bm_mp_ipc_backend.c:189-206, 291-292).
THEOREM RegisterHolds == IpcSpec => LatestIsRegister
BY LatestHolds, PTL
=============================================================================
