---------------------------- MODULE AckerProofs ----------------------------
(***************************************************************************)
(* Proofs about the event ACKer, for any number of events and however the  *)
(* publishing goroutine and the one that ACKs interleave.                  *)
(***************************************************************************)
EXTENDS Acker, FiniteSetTheorems, Recursion

Gap == [send : Nat, dropped : Nat]

ProdType == [pc : {"idle", "add", "callback", "panic"}, batch : Seq(Events)]

AckType == [pc : {"idle", "loop", "pop", "callback", "panic"},
            n : Nat, total : Nat, batch : Seq(Events)]

\* The number of published events among the first i events of p.
Count(p, i) == Cardinality({j \in 1 .. i : p[j]})

\* b[k] is the last event that the first k gaps of g stand for: each gap stands
\* for a run of published events and the drops after it.
Runs(g, p, b) ==
    \A k \in 1 .. Len(g) :
        /\ b[k] = b[k - 1] + g[k].send + g[k].dropped
        /\ g[k].send = 0 => Len(g) = 1 /\ g[k].dropped = 0
        /\ \A j \in 1 .. g[k].send : p[b[k - 1] + j]
        /\ \A j \in 1 .. g[k].dropped : ~p[b[k - 1] + g[k].send + j]

\* The list g stands for the events after x, up to y.
Stands(g, p, x, y) ==
    /\ g \in Seq(Gap) /\ Len(g) > 0
    /\ \E b \in [0 .. Len(g) -> Nat] : b[0] = x /\ b[Len(g)] = y /\ Runs(g, p, b)

\* The events that were cut off data.
Popped == Len(published) - Len(data)

\* The queue of private fields holds the events after them, in their order.
DataShape ==
    /\ Len(published) <= MaxEvents
    /\ Len(data) <= Len(published)
    /\ \A i \in 1 .. Len(data) : data[i] = Popped + i

\* The events in a total under way.
UnderWay == IF ack.pc \in {"loop", "pop"} THEN ack.total ELSE 0

\* The events that are counted in the list of gaps.
InList == Len(published) - (IF prod.pc = "add" THEN 1 ELSE 0)

\* The events that have left the list of gaps.
Left == Popped + UnderWay

\* The list of gaps goes on where the total under way ends, and the ACKs that
\* were used up are those of the published events before it.
GapShape ==
    /\ Stands(gaps, published, Left, InList)
    /\ acked - ack.n = Count(published, Left)
    /\ acked <= Count(published, InList)

\* What was cut off data is reported, or in a batch that is about to be.
BatchShape ==
    /\ prod.pc # "callback" => prod.batch = <<>>
    /\ ack.pc # "callback" => ack.batch = <<>>
    /\ ack.pc # "loop" => ack.n = 0
    /\ prod.pc = "add" => published # <<>>
    /\ ToSet(reported) \cup ToSet(prod.batch) \cup ToSet(ack.batch) = 1 .. Popped
    /\ Len(reported) + Len(prod.batch) + Len(ack.batch) = Popped

\* Without a drop the batches come in order.
OrderShape ==
    (\A i \in 1 .. Len(published) : published[i]) =>
        /\ prod.batch = <<>>
        /\ \A i \in 1 .. Len(reported) : reported[i] = i
        /\ \A i \in 1 .. Len(ack.batch) : ack.batch[i] = Len(reported) + i

IInv ==
    /\ TypeOK
    /\ Running
    /\ DataShape
    /\ BatchShape
    /\ OrderShape
    /\ GapShape
-----------------------------------------------------------------------------
(***************************************************************************)
(* Counting.                                                               *)
(***************************************************************************)

\* Counting gives a number, zero at first, and never goes down.
LEMMA CountType ==
  ASSUME NEW p, NEW i \in Nat
  PROVE  IsFiniteSet({j \in 1 .. i : p[j]}) /\ Count(p, i) \in Nat
<1>1. IsFiniteSet(1 .. i)
  BY FS_Interval
<1>2. {j \in 1 .. i : p[j]} \in SUBSET (1 .. i)
  OBVIOUS
<1>3. IsFiniteSet({j \in 1 .. i : p[j]})
  BY <1>1, <1>2, FS_Subset
<1> QED BY <1>3, FS_CardinalityType DEF Count

\* Among no events there is none.
LEMMA CountNone == ASSUME NEW p PROVE Count(p, 0) = 0
<1>1. {j \in 1 .. 0 : p[j]} = {}
  OBVIOUS
<1> QED BY <1>1, FS_EmptySet DEF Count

\* More events, more published ones.
LEMMA CountGrows ==
  ASSUME NEW p, NEW i \in Nat, NEW k \in Nat, i <= k
  PROVE  Count(p, i) <= Count(p, k)
<1>1. {j \in 1 .. i : p[j]} \in SUBSET {j \in 1 .. k : p[j]}
  OBVIOUS
<1>2. IsFiniteSet({j \in 1 .. k : p[j]})
  BY CountType
<1> QED BY <1>1, <1>2, FS_Subset DEF Count

\* A run of published events counts in full.
LEMMA CountRun ==
  ASSUME NEW p, NEW i \in Nat, NEW k \in Nat, \A j \in 1 .. k : p[i + j]
  PROVE  Count(p, i + k) = Count(p, i) + k
<1> DEFINE A == {j \in 1 .. i : p[j]}
           B == i + 1 .. i + k
<1>1. {j \in 1 .. i + k : p[j]} = A \cup B
  <2>1. ASSUME NEW j \in B PROVE p[j] /\ j \in 1 .. i + k
    <3>1. j - i \in 1 .. k /\ i + (j - i) = j
      OBVIOUS
    <3> QED BY <3>1
  <2>2. ASSUME NEW j \in 1 .. i + k, p[j], j \notin B PROVE j \in A
    BY <2>2
  <2>3. \A j \in A : j \in 1 .. i + k /\ p[j]
    OBVIOUS
  <2> HIDE DEF A, B
  <2> QED BY <2>1, <2>2, <2>3
<1>2. A \cap B = {}
  OBVIOUS
<1>3. IsFiniteSet(A) /\ Cardinality(A) \in Nat
  BY CountType DEF Count
<1>4. IsFiniteSet(B) /\ Cardinality(B) = k
  <2>1. i + 1 \in Int /\ i + k \in Int
    OBVIOUS
  <2>2. IsFiniteSet(B) /\ Cardinality(B) = IF i + 1 > i + k THEN 0 ELSE (i + k) - (i + 1) + 1
    BY <2>1, FS_Interval
  <2> QED BY <2>2
<1> HIDE DEF A, B
<1>5. Cardinality(A \cup B) = Cardinality(A) + Cardinality(B) - Cardinality({})
  BY <1>2, <1>3, <1>4, FS_Union
<1>6. Cardinality(A \cup B) = Cardinality(A) + k
  BY <1>3, <1>4, <1>5, FS_EmptySet
<1> QED BY <1>1, <1>6 DEF Count, A

\* Drops do not count.
LEMMA CountDrops ==
  ASSUME NEW p, NEW i \in Nat, NEW k \in Nat, \A j \in 1 .. k : ~p[i + j]
  PROVE  Count(p, i + k) = Count(p, i)
<1>1. ASSUME NEW j \in 1 .. i + k, p[j] PROVE j \in 1 .. i
  <2> SUFFICES ASSUME j > i PROVE FALSE
    OBVIOUS
  <2>1. j - i \in 1 .. k /\ i + (j - i) = j
    OBVIOUS
  <2> QED BY <1>1, <2>1
<1>2. \A j \in 1 .. i : j \in 1 .. i + k
  OBVIOUS
<1>3. {j \in 1 .. i + k : p[j]} = {j \in 1 .. i : p[j]}
  BY <1>1, <1>2
<1> QED BY <1>3 DEF Count

\* A sequence with one more element.
LEMMA AppendParts ==
  ASSUME NEW p \in Seq(BOOLEAN), NEW x \in BOOLEAN
  PROVE  /\ Len(Append(p, x)) = Len(p) + 1 /\ Append(p, x)[Len(p) + 1] = x
         /\ \A i \in 1 .. Len(p) : Append(p, x)[i] = p[i]
<1>1. Len(Append(p, x)) = Len(p) + 1
  OBVIOUS
<1>2. Append(p, x)[Len(p) + 1] = x
  OBVIOUS
<1>3. \A i \in 1 .. Len(p) : Append(p, x)[i] = p[i]
  OBVIOUS
<1> QED BY <1>1, <1>2, <1>3

\* What happens to one more event does not change what was counted.
LEMMA CountAppend ==
  ASSUME NEW p \in Seq(BOOLEAN), NEW x \in BOOLEAN, NEW i \in 0 .. Len(p)
  PROVE  Count(Append(p, x), i) = Count(p, i)
<1>1. \A j \in 1 .. i : Append(p, x)[j] = p[j]
  OBVIOUS
<1> QED BY <1>1 DEF Count
-----------------------------------------------------------------------------
(***************************************************************************)
(* The list of gaps.                                                       *)
(***************************************************************************)

\* The fields of an entry.
LEMMA GapFields ==
  ASSUME NEW g \in Seq(Gap), NEW k \in 1 .. Len(g)
  PROVE  g[k] \in Gap /\ g[k].send \in Nat /\ g[k].dropped \in Nat
<1>1. g[k] \in Gap
  OBVIOUS
<1> QED BY <1>1 DEF Gap

\* An entry is [send |-> s, dropped |-> d] for some numbers.
LEMMA GapExcept ==
  ASSUME NEW x \in Gap, NEW n \in Nat
  PROVE  /\ [x EXCEPT !.send = n] = [send |-> n, dropped |-> x.dropped]
         /\ [x EXCEPT !.dropped = n] = [send |-> x.send, dropped |-> n]
  BY DEF Gap

\* One entry of the list is replaced.
LEMMA Replaced ==
  ASSUME NEW g \in Seq(Gap), NEW i \in 1 .. Len(g), NEW x \in Gap, NEW h, h = [g EXCEPT ![i] = x]
  PROVE  /\ h \in Seq(Gap) /\ Len(h) = Len(g) /\ h[i] = x
         /\ \A k \in 1 .. Len(g) : k # i => h[k] = g[k]
  OBVIOUS

\* The head of the list is worth its published events.
LEMMA HeadCount ==
  ASSUME NEW g, NEW p, NEW x, NEW y, Stands(g, p, x, y)
  PROVE  /\ Count(p, x + g[1].send + g[1].dropped) = Count(p, x) + g[1].send
         /\ \A n \in 0 .. g[1].send : Count(p, x + n) = Count(p, x) + n
<1> g \in Seq(Gap) /\ Len(g) > 0
  BY DEF Stands
<1>0. PICK b \in [0 .. Len(g) -> Nat] : b[0] = x /\ b[Len(g)] = y /\ Runs(g, p, b)
  BY DEF Stands
<1>1. 1 \in 1 .. Len(g) /\ 0 \in 0 .. Len(g) /\ 1 \in 0 .. Len(g) /\ 1 - 1 = 0
  OBVIOUS
<1>2. PICK s \in Nat, d \in Nat : s = g[1].send /\ d = g[1].dropped
  BY <1>1, GapFields
<1>3. PICK b0 \in Nat : b0 = b[0]
  BY <1>1
<1>4. /\ b[1] = b0 + s + d
      /\ \A j \in 1 .. s : p[b0 + j]
      /\ \A j \in 1 .. d : ~p[b0 + s + j]
  BY <1>0, <1>1, <1>2, <1>3 DEF Runs
<1>5. \A n \in 0 .. s : Count(p, b0 + n) = Count(p, b0) + n
  <2> SUFFICES ASSUME NEW n \in 0 .. s PROVE Count(p, b0 + n) = Count(p, b0) + n
    OBVIOUS
  <2>1. \A j \in 1 .. n : j \in 1 .. s
    OBVIOUS
  <2>2. n \in Nat /\ \A j \in 1 .. n : p[b0 + j]
    <3>1. n \in Nat
      OBVIOUS
    <3> QED BY <2>1, <3>1, <1>4, Zenon
  <2> QED BY <2>2, CountRun
<1>6. Count(p, (b0 + s) + d) = Count(p, b0 + s)
  <2>1. b0 + s \in Nat
    OBVIOUS
  <2> QED BY <2>1, <1>4, CountDrops
<1>7. s \in 0 .. s
  OBVIOUS
<1> QED BY <1>0, <1>2, <1>3, <1>5, <1>6, <1>7

\* One more event: the list does not mind.
LEMMA RunsAppend ==
  ASSUME NEW g \in Seq(Gap), NEW p \in Seq(BOOLEAN), NEW b \in [0 .. Len(g) -> Nat], NEW x \in BOOLEAN,
         Runs(g, p, b), b[Len(g)] <= Len(p), \A k \in 0 .. Len(g) : b[k] <= Len(p)
  PROVE  Runs(g, Append(p, x), b)
<1> SUFFICES ASSUME NEW k \in 1 .. Len(g)
             PROVE  /\ b[k] = b[k - 1] + g[k].send + g[k].dropped
                    /\ g[k].send = 0 => Len(g) = 1 /\ g[k].dropped = 0
                    /\ \A j \in 1 .. g[k].send : Append(p, x)[b[k - 1] + j]
                    /\ \A j \in 1 .. g[k].dropped : ~Append(p, x)[b[k - 1] + g[k].send + j]
  BY DEF Runs
<1>1. \A i \in 1 .. Len(p) : Append(p, x)[i] = p[i]
  OBVIOUS
<1>2. PICK s \in Nat, d \in Nat : s = g[k].send /\ d = g[k].dropped
  BY GapFields
<1>3. k \in 0 .. Len(g) /\ k - 1 \in 0 .. Len(g)
  OBVIOUS
<1>4. PICK b0 \in Nat : b0 = b[k - 1]
  BY <1>3
<1>5. b[k] = b0 + s + d /\ b[k] <= Len(p) /\ Len(p) \in Nat
  BY <1>2, <1>3, <1>4 DEF Runs
<1>6. /\ \A j \in 1 .. s : p[b0 + j]
      /\ \A j \in 1 .. d : ~p[b0 + s + j]
  BY <1>2, <1>4, Zenon DEF Runs
<1>7. \A j \in 1 .. s : b0 + j \in 1 .. Len(p)
  BY <1>5
<1>8. \A j \in 1 .. d : b0 + s + j \in 1 .. Len(p)
  BY <1>5
<1> QED BY <1>1, <1>2, <1>4, <1>5, <1>6, <1>7, <1>8 DEF Runs

\* The ends of the gaps are in order.
LEMMA RunsBound ==
  ASSUME NEW g \in Seq(Gap), NEW p, NEW b \in [0 .. Len(g) -> Nat], Runs(g, p, b)
  PROVE  \A k \in 0 .. Len(g) : b[k] <= b[Len(g)]
<1>0. Len(g) \in Nat
  OBVIOUS
<1>1. \A k \in 1 .. Len(g) : b[k - 1] <= b[k]
  <2> TAKE k \in 1 .. Len(g)
  <2>1. g[k].send \in Nat /\ g[k].dropped \in Nat
    BY GapFields
  <2>2. k - 1 \in 0 .. Len(g)
    BY <1>0
  <2>3. b[k - 1] \in Nat
    BY <2>2
  <2>4. b[k] = b[k - 1] + g[k].send + g[k].dropped
    BY DEF Runs
  <2> QED BY <2>1, <2>3, <2>4
<1> DEFINE S == {i \in 0 .. Len(g) : b[Len(g) - i] <= b[Len(g)]}
<1>3. 0 \in S
  BY <1>0
<1>4. ASSUME NEW i \in 0 .. Len(g) - 1, i \in S PROVE i + 1 \in S
  <2>1. Len(g) - i \in 1 .. Len(g) /\ Len(g) - (i + 1) \in 0 .. Len(g)
          /\ (Len(g) - i) - 1 = Len(g) - (i + 1) /\ i + 1 \in 0 .. Len(g)
    BY <1>0
  <2>2. b[Len(g) - (i + 1)] <= b[Len(g) - i]
    BY <2>1, <1>1
  <2>3. b[Len(g) - i] <= b[Len(g)]
    BY <1>4
  <2>4. b[Len(g) - (i + 1)] \in Nat /\ b[Len(g) - i] \in Nat /\ b[Len(g)] \in Nat
    BY <2>1, <1>0
  <2> QED BY <2>1, <2>2, <2>3, <2>4
<1> HIDE DEF S
<1>5. 0 .. Len(g) \subseteq S
  BY <1>0, <1>3, <1>4, IntervalInduction
<1>6. ASSUME NEW k \in 0 .. Len(g) PROVE b[k] <= b[Len(g)]
  <2>1. Len(g) - k \in 0 .. Len(g) /\ Len(g) - (Len(g) - k) = k
    BY <1>0
  <2> QED BY <2>1, <1>5 DEF S
<1> QED BY <1>6

\* A list stands for a range of events, and its head for the first of them.
LEMMA StandsType ==
  ASSUME NEW g, NEW p, NEW x, NEW y, Stands(g, p, x, y)
  PROVE  /\ x \in Nat /\ y \in Nat /\ x <= y
         /\ x + g[1].send + g[1].dropped <= y
         /\ Len(g) = 1 => x + g[1].send + g[1].dropped = y
<1> g \in Seq(Gap) /\ Len(g) > 0
  BY DEF Stands
<1>1. PICK b \in [0 .. Len(g) -> Nat] : b[0] = x /\ b[Len(g)] = y /\ Runs(g, p, b)
  BY DEF Stands
<1>2. 0 \in 0 .. Len(g) /\ 1 \in 0 .. Len(g) /\ Len(g) \in 0 .. Len(g) /\ 1 \in 1 .. Len(g) /\ 1 - 1 = 0
  OBVIOUS
<1>3. b[0] <= b[Len(g)] /\ b[1] <= b[Len(g)]
  BY <1>1, <1>2, RunsBound
<1>4. b[1] = b[0] + g[1].send + g[1].dropped
  BY <1>1, <1>2 DEF Runs
<1> QED BY <1>1, <1>2, <1>3, <1>4

\* One more event: the list stands for the same ones.
LEMMA StandsAppend ==
  ASSUME NEW g, NEW p \in Seq(BOOLEAN), NEW x, NEW y, Stands(g, p, x, y), y <= Len(p), NEW v \in BOOLEAN
  PROVE  Stands(g, Append(p, v), x, y)
<1>1. g \in Seq(Gap) /\ Len(g) > 0 /\ y \in Nat /\ Len(p) \in Nat
  BY StandsType DEF Stands
<1>2. PICK b \in [0 .. Len(g) -> Nat] : b[0] = x /\ b[Len(g)] = y /\ Runs(g, p, b)
  BY DEF Stands
<1>3. ASSUME NEW k \in 0 .. Len(g) PROVE b[k] <= Len(p)
  <2>1. b[k] <= b[Len(g)] /\ b[k] \in Nat
    BY <1>1, <1>2, RunsBound
  <2> QED BY <2>1, <1>1, <1>2
<1>4. Runs(g, Append(p, v), b)
  BY <1>1, <1>2, <1>3, RunsAppend
<1> QED BY <1>1, <1>2, <1>4 DEF Stands

\* A list whose last entry holds no published event is empty.
LEMMA StandsNone ==
  ASSUME NEW g, NEW p, NEW x, NEW y, Stands(g, p, x, y), g[Len(g)].send = 0
  PROVE  Len(g) = 1 /\ x = y /\ g = <<EmptyGap>>
<1>1. g \in Seq(Gap) /\ Len(g) > 0 /\ Len(g) \in 1 .. Len(g)
  BY DEF Stands
<1>2. Len(g) = 1 /\ g[1].dropped = 0 /\ g[1].send = 0
  BY <1>1 DEF Stands, Runs
<1>3. x \in Nat /\ x + 0 + 0 = y
  BY <1>2, StandsType
<1>4. g[1] = EmptyGap
  <2>1. g[1] \in Gap
    BY <1>1, <1>2, GapFields
  <2> QED BY <2>1, <1>2 DEF Gap, EmptyGap
<1>5. g = <<EmptyGap>>
  BY <1>1, <1>2, <1>4
<1> QED BY <1>2, <1>3, <1>5

\* A part of the head is ACKed.
LEMMA StandsPart ==
  ASSUME NEW g, NEW p, NEW x, NEW y, Stands(g, p, x, y), NEW n \in Nat, n < g[1].send,
         NEW h, h = [g EXCEPT ![1] = [send |-> g[1].send - n, dropped |-> g[1].dropped]]
  PROVE  Stands(h, p, x + n, y)
<1> g \in Seq(Gap) /\ Len(g) > 0
  BY DEF Stands
<1>0. PICK b \in [0 .. Len(g) -> Nat] : b[0] = x /\ b[Len(g)] = y /\ Runs(g, p, b)
  BY DEF Stands
<1>1. 1 \in 1 .. Len(g) /\ 0 \in 0 .. Len(g) /\ 1 \in 0 .. Len(g) /\ 1 - 1 = 0 /\ Len(g) \in Nat
  OBVIOUS
<1>2. PICK s \in Nat, d \in Nat : s = g[1].send /\ d = g[1].dropped
  BY <1>1, GapFields
<1>3. PICK t \in Nat : t = s - n /\ t > 0
  BY <1>2
<1>4. PICK z \in Gap : z = [send |-> t, dropped |-> d] /\ z.send = t /\ z.dropped = d
  <2>1. [send |-> t, dropped |-> d] \in Gap
    BY DEF Gap
  <2> QED BY <2>1
<1>5. /\ h \in Seq(Gap) /\ Len(h) = Len(g) /\ h[1] = z
      /\ \A k \in 1 .. Len(g) : k # 1 => h[k] = g[k]
  BY <1>1, <1>2, <1>3, <1>4, Replaced
<1>6. PICK b0 \in Nat : b0 = b[0]
  BY <1>1
<1> DEFINE c == [k \in 0 .. Len(g) |-> IF k = 0 THEN b0 + n ELSE b[k]]
<1>7. c \in [0 .. Len(g) -> Nat] /\ c[0] = b0 + n /\ \A k \in 1 .. Len(g) : c[k] = b[k]
  OBVIOUS
<1> HIDE DEF c
<1>8. /\ \A j \in 1 .. s : p[b0 + j]
      /\ \A j \in 1 .. d : ~p[b0 + s + j]
  <2>1. /\ \A j \in 1 .. g[1].send : p[b[1 - 1] + j]
        /\ \A j \in 1 .. g[1].dropped : ~p[b[1 - 1] + g[1].send + j]
    BY <1>0, <1>1, Zenon DEF Runs
  <2>2. b[1 - 1] = b0
    BY <1>1, <1>6
  <2> QED BY <2>1, <2>2, <1>2
<1>9. ASSUME NEW k \in 1 .. Len(g)
      PROVE  /\ c[k] = c[k - 1] + h[k].send + h[k].dropped
             /\ h[k].send = 0 => Len(h) = 1 /\ h[k].dropped = 0
             /\ \A j \in 1 .. h[k].send : p[c[k - 1] + j]
             /\ \A j \in 1 .. h[k].dropped : ~p[c[k - 1] + h[k].send + j]
  <2>1. CASE k = 1
    <3>1. h[k].send = t /\ h[k].dropped = d /\ c[k - 1] = b0 + n /\ c[k] = b[1] /\ c[0] = b0 + n
      BY <2>1, <1>1, <1>4, <1>5, <1>7
    <3>2. b[1] = (b0 + n) + t + d /\ t # 0
      <4>1. b[1] = b0 + s + d
        BY <1>0, <1>1, <1>2, <1>6 DEF Runs
      <4>2. (b0 + n) + t = b0 + s
        BY <1>3
      <4>3. t # 0
        BY <1>3
      <4> QED BY <4>1, <4>2, <4>3
    <3>3. ASSUME NEW j \in 1 .. t PROVE p[(b0 + n) + j]
      <4>1. n + j \in 1 .. s /\ b0 + (n + j) = (b0 + n) + j
        BY <1>3
      <4>2. p[b0 + (n + j)]
        BY <4>1, <1>8, Zenon
      <4> QED BY <4>1, <4>2
    <3>4. (b0 + n) + t = b0 + s
      BY <1>3
    <3>5. ASSUME NEW j \in 1 .. d PROVE ~p[(b0 + n) + t + j]
      BY <3>4, <1>8, Zenon
    <3> QED BY <3>1, <3>2, <3>3, <3>5
  <2>2. CASE k # 1
    <3>1. k - 1 \in 1 .. Len(g) /\ h[k] = g[k] /\ c[k] = b[k] /\ c[k - 1] = b[k - 1] /\ Len(g) # 1
      BY <2>2, <1>1, <1>5, <1>7
    <3>2. /\ b[k] = b[k - 1] + g[k].send + g[k].dropped
          /\ g[k].send # 0
          /\ \A j \in 1 .. g[k].send : p[b[k - 1] + j]
          /\ \A j \in 1 .. g[k].dropped : ~p[b[k - 1] + g[k].send + j]
      BY <1>0, <3>1 DEF Runs
    <3> QED BY <3>1, <3>2
  <2> QED BY <2>1, <2>2
<1>10. Runs(h, p, c)
  BY <1>5, <1>9 DEF Runs
<1>11. c \in [0 .. Len(h) -> Nat] /\ c[0] = b[0] + n /\ c[Len(h)] = b[Len(g)]
  <2>1. Len(g) \in 1 .. Len(g)
    BY <1>1
  <2> QED BY <2>1, <1>5, <1>6, <1>7
<1>12. c \in [0 .. Len(h) -> Nat] /\ c[0] = x + n /\ c[Len(h)] = y
  BY <1>0, <1>11
<1> QED BY <1>5, <1>10, <1>12 DEF Stands

\* The head is used up, and is not the only entry.
LEMMA StandsTail ==
  ASSUME NEW g, NEW p, NEW x, NEW y, Stands(g, p, x, y), Len(g) > 1, NEW h, h = Tail(g)
  PROVE  Stands(h, p, x + g[1].send + g[1].dropped, y)
<1> g \in Seq(Gap)
  BY DEF Stands
<1>0. PICK b \in [0 .. Len(g) -> Nat] : b[0] = x /\ b[Len(g)] = y /\ Runs(g, p, b)
  BY DEF Stands
<1>1. /\ h \in Seq(Gap) /\ Len(g) \in Nat /\ Len(h) = Len(g) - 1 /\ h # <<>>
      /\ \A k \in 1 .. Len(h) : h[k] = g[k + 1]
  OBVIOUS
<1> DEFINE c == [k \in 0 .. Len(h) |-> b[k + 1]]
<1>2. \A k \in 0 .. Len(h) : k + 1 \in 0 .. Len(g)
  BY <1>1
<1>3. c \in [0 .. Len(h) -> Nat]
  BY <1>2
<1>4. \A k \in 0 .. Len(h) : c[k] = b[k + 1]
  OBVIOUS
<1> HIDE DEF c
<1>5. ASSUME NEW k \in 1 .. Len(h)
      PROVE  /\ c[k] = c[k - 1] + h[k].send + h[k].dropped
             /\ h[k].send = 0 => Len(h) = 1 /\ h[k].dropped = 0
             /\ \A j \in 1 .. h[k].send : p[c[k - 1] + j]
             /\ \A j \in 1 .. h[k].dropped : ~p[c[k - 1] + h[k].send + j]
  <2>1. k + 1 \in 1 .. Len(g) /\ (k + 1) - 1 = k /\ k \in 0 .. Len(h) /\ k - 1 \in 0 .. Len(h) /\ (k - 1) + 1 = k
    BY <1>1
  <2>2. h[k] = g[k + 1] /\ c[k] = b[k + 1] /\ c[k - 1] = b[k] /\ Len(g) # 1
    BY <2>1, <1>1, <1>4
  <2>3. /\ b[k + 1] = b[k] + g[k + 1].send + g[k + 1].dropped
        /\ g[k + 1].send # 0
        /\ \A j \in 1 .. g[k + 1].send : p[b[k] + j]
        /\ \A j \in 1 .. g[k + 1].dropped : ~p[b[k] + g[k + 1].send + j]
    BY <1>0, <2>1, <2>2 DEF Runs
  <2> QED BY <2>2, <2>3
<1>6. Runs(h, p, c)
  BY <1>5 DEF Runs
<1>7. c[0] = b[1] /\ c[Len(h)] = b[Len(g)]
  <2>1. 0 \in 0 .. Len(h) /\ Len(h) \in 0 .. Len(h) /\ Len(h) + 1 = Len(g)
    BY <1>1
  <2> QED BY <2>1, <1>4
<1>8. b[1] = x + g[1].send + g[1].dropped
  <2>1. 1 \in 1 .. Len(g) /\ 1 - 1 = 0
    OBVIOUS
  <2> QED BY <2>1, <1>0 DEF Runs
<1>9. c[0] = x + g[1].send + g[1].dropped /\ c[Len(h)] = y
  BY <1>0, <1>7, <1>8
<1> QED BY <1>1, <1>3, <1>6, <1>9 DEF Stands

\* An empty list stands for nothing.
LEMMA StandsEmpty ==
  ASSUME NEW p, NEW x \in Nat
  PROVE  Stands(<<EmptyGap>>, p, x, x)
<1>1. EmptyGap \in Gap /\ EmptyGap.send = 0 /\ EmptyGap.dropped = 0
  BY DEF EmptyGap, Gap
<1>2. PICK h \in Seq(Gap) : h = <<EmptyGap>> /\ Len(h) = 1 /\ h[1] = EmptyGap
  <2>1. PICK y \in Gap : y = EmptyGap
    BY <1>1
  <2>2. <<y>> \in Seq(Gap) /\ Len(<<y>>) = 1 /\ <<y>>[1] = y
    OBVIOUS
  <2> QED BY <2>1, <2>2
<1> DEFINE c == [k \in 0 .. 1 |-> x]
<1>3. c \in [0 .. 1 -> Nat] /\ c[0] = x /\ c[1] = x
  OBVIOUS
<1> HIDE DEF c
<1>4. Runs(h, p, c)
  <2> SUFFICES ASSUME NEW k \in 1 .. Len(h)
               PROVE  /\ c[k] = c[k - 1] + h[k].send + h[k].dropped
                      /\ h[k].send = 0 => Len(h) = 1 /\ h[k].dropped = 0
                      /\ \A j \in 1 .. h[k].send : p[c[k - 1] + j]
                      /\ \A j \in 1 .. h[k].dropped : ~p[c[k - 1] + h[k].send + j]
    BY DEF Runs
  <2>1. k = 1 /\ k - 1 = 0
    BY <1>2
  <2>2. h[k].send = 0 /\ h[k].dropped = 0 /\ c[k] = x /\ c[k - 1] = x
    BY <2>1, <1>1, <1>2, <1>3
  <2>3. \A j \in 1 .. 0 : FALSE
    OBVIOUS
  <2> QED BY <2>2, <2>3, <1>2
<1>5. Stands(h, p, x, x)
  BY <1>2, <1>3, <1>4 DEF Stands
<1> QED BY <1>2, <1>5

\* A published event after drops gets an entry of its own.
LEMMA StandsNew ==
  ASSUME NEW g, NEW p, NEW x, NEW y, Stands(g, p, x, y), p[y + 1], g[Len(g)].dropped > 0,
         NEW h, h = Append(g, [send |-> 1, dropped |-> 0])
  PROVE  Stands(h, p, x, y + 1)
<1> g \in Seq(Gap) /\ Len(g) > 0
  BY DEF Stands
<1> PICK b \in [0 .. Len(g) -> Nat] : b[0] = x /\ b[Len(g)] = y /\ Runs(g, p, b)
  BY DEF Stands
<1>0. PICK z \in Gap : z = [send |-> 1, dropped |-> 0] /\ z.send = 1 /\ z.dropped = 0
  <2>1. [send |-> 1, dropped |-> 0] \in Gap
    BY DEF Gap
  <2> QED BY <2>1
<1>1. /\ h \in Seq(Gap) /\ Len(g) \in Nat /\ Len(h) = Len(g) + 1 /\ h # <<>>
      /\ \A k \in 1 .. Len(g) : h[k] = g[k]
      /\ h[Len(g) + 1] = z
  BY <1>0
<1>2. PICK e \in Nat : e = b[Len(g)]
  BY <1>1
<1> DEFINE c == [k \in 0 .. Len(h) |-> IF k = Len(h) THEN e + 1 ELSE b[k]]
<1>3. c \in [0 .. Len(h) -> Nat]
  BY <1>1
<1>4. c[Len(h)] = e + 1 /\ \A k \in 0 .. Len(g) : c[k] = b[k]
  BY <1>1
<1> HIDE DEF c
<1>5. ASSUME NEW k \in 1 .. Len(h)
      PROVE  /\ c[k] = c[k - 1] + h[k].send + h[k].dropped
             /\ h[k].send = 0 => Len(h) = 1 /\ h[k].dropped = 0
             /\ \A j \in 1 .. h[k].send : p[c[k - 1] + j]
             /\ \A j \in 1 .. h[k].dropped : ~p[c[k - 1] + h[k].send + j]
  <2>1. CASE k = Len(g) + 1
    <3>1. h[k].send = 1 /\ h[k].dropped = 0 /\ c[k] = e + 1 /\ c[k - 1] = e
      <4>1. k - 1 = Len(g) /\ k - 1 \in 0 .. Len(g) /\ k = Len(h)
        BY <2>1, <1>1
      <4> QED BY <4>1, <2>1, <1>0, <1>1, <1>2, <1>4
    <3>2. p[e + 1] /\ \A j \in 1 .. 1 : j = 1
      BY <1>2
    <3>3. \A j \in 1 .. 0 : FALSE
      OBVIOUS
    <3>4. e + 1 = e + 1 + 0
      OBVIOUS
    <3> QED BY <3>1, <3>2, <3>3, <3>4
  <2>2. CASE k # Len(g) + 1
    <3>1. k \in 1 .. Len(g) /\ k \in 0 .. Len(g) /\ k - 1 \in 0 .. Len(g)
      BY <2>2, <1>1
    <3>2. h[k] = g[k] /\ c[k] = b[k] /\ c[k - 1] = b[k - 1]
      BY <3>1, <1>1, <1>4
    <3>3. /\ b[k] = b[k - 1] + g[k].send + g[k].dropped
          /\ g[k].send = 0 => Len(g) = 1 /\ g[k].dropped = 0
          /\ \A j \in 1 .. g[k].send : p[b[k - 1] + j]
          /\ \A j \in 1 .. g[k].dropped : ~p[b[k - 1] + g[k].send + j]
      BY <3>1 DEF Runs
    <3>4. g[k].send # 0
      <4>1. Len(g) = 1 => k = Len(g)
        BY <3>1
      <4> SUFFICES ASSUME g[k].send = 0 PROVE FALSE
        OBVIOUS
      <4>2. k = Len(g) /\ g[k].dropped = 0
        BY <4>1, <3>3
      <4> QED BY <4>2
    <3> QED BY <3>2, <3>3, <3>4
  <2> QED BY <2>1, <2>2
<1>6. Runs(h, p, c)
  BY <1>5 DEF Runs
<1>7. c[0] = b[0] /\ c[Len(h)] = b[Len(g)] + 1
  <2>1. 0 \in 0 .. Len(g)
    BY <1>1
  <2> QED BY <2>1, <1>2, <1>4
<1>8. c[0] = x /\ c[Len(h)] = y + 1 /\ Len(h) > 0
  BY <1>1, <1>7
<1> QED BY <1>1, <1>3, <1>6, <1>8 DEF Stands

\* The last entry grows by one event, published or dropped.
LEMMA StandsLast ==
  ASSUME NEW g, NEW p, NEW x, NEW y, Stands(g, p, x, y), NEW s \in Nat, NEW d \in Nat,
         \/ p[y + 1] /\ g[Len(g)].dropped = 0 /\ s = g[Len(g)].send + 1 /\ d = 0
         \/ ~p[y + 1] /\ g[Len(g)].send > 0 /\ s = g[Len(g)].send /\ d = g[Len(g)].dropped + 1,
         NEW h, h = [g EXCEPT ![Len(g)] = [send |-> s, dropped |-> d]]
  PROVE  Stands(h, p, x, y + 1)
<1> g \in Seq(Gap) /\ Len(g) > 0
  BY DEF Stands
<1> PICK b \in [0 .. Len(g) -> Nat] : b[0] = x /\ b[Len(g)] = y /\ Runs(g, p, b)
  BY DEF Stands
<1> DEFINE L == Len(g)
<1>1. L \in Nat /\ L \in 1 .. L /\ L \in 0 .. L /\ L - 1 \in 0 .. L /\ L # 0 /\ 0 \in 0 .. L
  OBVIOUS
<1>2. PICK z \in Gap : z = [send |-> s, dropped |-> d] /\ z.send = s /\ z.dropped = d
  <2>1. [send |-> s, dropped |-> d] \in Gap
    BY DEF Gap
  <2> QED BY <2>1
<1>3. /\ h \in Seq(Gap) /\ Len(h) = L /\ h[L] = z
      /\ \A k \in 1 .. L : k # L => h[k] = g[k]
  BY <1>1, <1>2, Replaced
<1>4. PICK s0 \in Nat, d0 \in Nat, f \in Nat, e \in Nat :
          s0 = g[L].send /\ d0 = g[L].dropped /\ f = b[L - 1] /\ e = b[L]
  BY <1>1, GapFields
<1>5. e = f + s0 + d0
  BY <1>1, <1>4 DEF Runs
<1>6. /\ \A j \in 1 .. s0 : p[f + j]
      /\ \A j \in 1 .. d0 : ~p[f + s0 + j]
  BY <1>1, <1>4 DEF Runs
<1>7. \/ p[e + 1] /\ d0 = 0 /\ s = s0 + 1 /\ d = 0
      \/ ~p[e + 1] /\ s0 > 0 /\ s = s0 /\ d = d0 + 1
  BY <1>4
<1> DEFINE c == [k \in 0 .. L |-> IF k = L THEN e + 1 ELSE b[k]]
<1>8. c \in [0 .. L -> Nat]
  OBVIOUS
<1>9. c[L] = e + 1 /\ \A k \in 0 .. L : k # L => c[k] = b[k]
  BY <1>1
<1> HIDE DEF c, L
<1>10. ASSUME NEW k \in 1 .. L
       PROVE  /\ c[k] = c[k - 1] + h[k].send + h[k].dropped
              /\ h[k].send = 0 => Len(h) = 1 /\ h[k].dropped = 0
              /\ \A j \in 1 .. h[k].send : p[c[k - 1] + j]
              /\ \A j \in 1 .. h[k].dropped : ~p[c[k - 1] + h[k].send + j]
  <2>1. CASE k = L
    <3>1. h[k].send = s /\ h[k].dropped = d /\ c[k] = e + 1 /\ c[k - 1] = f
      <4>1. L - 1 # L
        BY <1>1
      <4> QED BY <4>1, <2>1, <1>1, <1>2, <1>3, <1>4, <1>9
    <3>2. e + 1 = f + s + d /\ s # 0
      BY <1>5, <1>7
    <3>3. ASSUME NEW j \in 1 .. s PROVE p[f + j]
      <4>1. j \in 1 .. s0 \/ (j = s0 + 1 /\ s = s0 + 1)
        BY <1>7
      <4>2. CASE j \in 1 .. s0
        BY <4>2, <1>6, Zenon
      <4>3. CASE j = s0 + 1 /\ s = s0 + 1
        <5>1. d0 = 0 /\ p[e + 1]
          BY <4>3, <1>7
        <5>2. f + j = e + 1
          BY <4>3, <5>1, <1>5
        <5> QED BY <5>1, <5>2
      <4> QED BY <4>1, <4>2, <4>3
    <3>4. ASSUME NEW j \in 1 .. d PROVE ~p[f + s + j]
      <4>1. s = s0 /\ d = d0 + 1 /\ ~p[e + 1]
        BY <1>7
      <4>2. j \in 1 .. d0 \/ j = d0 + 1
        BY <4>1
      <4>3. CASE j \in 1 .. d0
        BY <4>1, <4>3, <1>6, Zenon
      <4>4. CASE j = d0 + 1
        <5>1. f + s + j = e + 1
          BY <4>1, <4>4, <1>5
        <5> QED BY <4>1, <5>1
      <4> QED BY <4>2, <4>3, <4>4
    <3> QED BY <3>1, <3>2, <3>3, <3>4
  <2>2. CASE k # L
    <3>1. k \in 1 .. Len(g) /\ k \in 0 .. L /\ k - 1 \in 0 .. L /\ k - 1 # L /\ L # 1
      BY <2>2, <1>1 DEF L
    <3>2. h[k] = g[k] /\ c[k] = b[k] /\ c[k - 1] = b[k - 1]
      BY <2>2, <3>1, <1>3, <1>9
    <3>3. /\ b[k] = b[k - 1] + g[k].send + g[k].dropped
          /\ g[k].send = 0 => Len(g) = 1 /\ g[k].dropped = 0
          /\ \A j \in 1 .. g[k].send : p[b[k - 1] + j]
          /\ \A j \in 1 .. g[k].dropped : ~p[b[k - 1] + g[k].send + j]
      BY <3>1 DEF Runs
    <3> QED BY <3>1, <3>2, <3>3 DEF L
  <2> QED BY <2>1, <2>2
<1>11. Runs(h, p, c)
  BY <1>3, <1>10 DEF Runs
<1>12. c \in [0 .. Len(h) -> Nat] /\ c[0] = b[0] /\ c[Len(h)] = b[Len(g)] + 1
  <2>1. 0 # L
    BY <1>1
  <2>2. c[0] = b[0] /\ c[L] = e + 1 /\ e = b[L]
    BY <2>1, <1>1, <1>4, <1>9
  <2> QED BY <2>2, <1>3, <1>8 DEF L
<1> QED BY <1>1, <1>3, <1>11, <1>12 DEF L, Stands
-----------------------------------------------------------------------------
(***************************************************************************)
(* The steps.                                                              *)
(***************************************************************************)

\* The list of gaps counts what the pipeline was sent.
LEMMA SentCount ==
  ASSUME published \in Seq(BOOLEAN), prod.pc = "add" => published # <<>>
  PROVE  InList \in 0 .. Len(published) /\ Sent = Count(published, InList)
<1> DEFINE p == published
           N == Len(published)
<1>1. N \in Nat /\ DOMAIN p = 1 .. N /\ (p # <<>> => N > 0)
  OBVIOUS
<1>2. Cardinality({i \in DOMAIN p : p[i]}) = Count(p, N)
  BY <1>1 DEF Count
<1>3. CASE prod.pc # "add"
  <2>1. Count(p, N) \in Nat
    BY <1>1, CountType
  <2>2. InList = N - 0 /\ Sent = Count(p, N) - 0
    BY <1>2, <1>3 DEF Sent, InList
  <2> QED BY <1>1, <2>1, <2>2
<1>4. CASE prod.pc = "add"
  <2>1. PICK m \in Nat : N = m + 1 /\ m = N - 1
    <3>1. N > 0
      BY <1>1, <1>4
    <3>2. N - 1 \in Nat /\ N = (N - 1) + 1
      BY <3>1, <1>1
    <3> QED BY <3>2, Zenon
  <2>2. InList = m /\ m \in 0 .. N
    BY <1>4, <2>1 DEF InList
  <2>3. Last(published) = p[m + 1] /\ 1 \in Nat /\ \A j \in 1 .. 1 : j = 1
    BY <2>1 DEF Last
  <2>4. CASE p[m + 1]
    <3>1. \A j \in 1 .. 1 : p[m + j]
      BY <2>3, <2>4
    <3>2. Count(p, m + 1) = Count(p, m) + 1
      BY <3>1, <2>3, CountRun
    <3>3. Count(p, m) \in Nat
      BY CountType
    <3>4. Sent = Count(p, N) - 1
      BY <1>2, <1>4, <2>3, <2>4 DEF Sent
    <3> QED BY <3>2, <3>3, <3>4, <2>1, <2>2
  <2>5. CASE ~p[m + 1]
    <3>1. \A j \in 1 .. 1 : ~p[m + j]
      BY <2>3, <2>5
    <3>2. Count(p, m + 1) = Count(p, m)
      BY <3>1, <2>3, CountDrops
    <3>3. Count(p, m) \in Nat
      BY CountType
    <3>4. Sent = Count(p, N) - 0
      BY <1>2, <1>4, <2>3, <2>5 DEF Sent
    <3> QED BY <3>2, <3>3, <3>4, <2>1, <2>2
  <2> QED BY <2>4, <2>5
<1> QED BY <1>3, <1>4

\* The parts of the invariant that the steps take for granted.
LEMMA Shape ==
  ASSUME IInv
  PROVE  /\ gaps \in Seq(Gap) /\ Len(gaps) \in Nat /\ Len(gaps) > 0
         /\ prod \in ProdType /\ prod.batch \in Seq(Events)
         /\ ack \in AckType /\ ack.n \in Nat /\ ack.total \in Nat /\ ack.batch \in Seq(Events)
         /\ Len(published) \in Nat /\ Len(data) \in Nat /\ Popped \in Nat
         /\ InList \in 0 .. Len(published) /\ Left \in 0 .. InList
         /\ Stands(gaps, published, Left, InList)
<1>1. TypeOK /\ Running /\ DataShape /\ BatchShape
  BY DEF IInv
<1>2. gaps \in Seq(Gap) /\ Len(gaps) \in Nat /\ Len(gaps) > 0
  BY <1>1 DEF TypeOK, Gap
<1>3. prod \in ProdType /\ ack \in AckType
  BY <1>1 DEF TypeOK, ProdType, AckType
<1>4. prod.batch \in Seq(Events) /\ ack.n \in Nat /\ ack.total \in Nat /\ ack.batch \in Seq(Events)
  BY <1>3 DEF ProdType, AckType
<1>5. Len(published) \in Nat /\ Len(data) \in Nat /\ Popped \in Nat
  BY <1>1 DEF TypeOK, DataShape, Popped
<1>6. InList \in 0 .. Len(published)
  BY <1>1, SentCount DEF TypeOK, BatchShape
<1>7. Left \in 0 .. InList /\ Stands(gaps, published, Left, InList)
  BY <1>6, StandsType DEF IInv, GapShape
<1> QED BY <1>2, <1>3, <1>4, <1>5, <1>6, <1>7

\* The list begins with nothing in it.
LEMMA InitIInv == Init => IInv
<1> SUFFICES ASSUME Init PROVE IInv
  OBVIOUS
<1> USE DEF Init
<1>1. Len(published) = 0 /\ Len(data) = 0 /\ Len(reported) = 0 /\ prod.batch = <<>> /\ ack.batch = <<>>
        /\ prod.pc = "idle" /\ ack.pc = "idle" /\ ack.n = 0 /\ ack.total = 0
  BY DEF NoACK
<1>2. Stands(<<EmptyGap>>, published, 0, 0)
  BY StandsEmpty
<1>3. TypeOK
  <2>1. MaxEvents \in Nat
    BY AckerAssumption
  <2>2. gaps \in Seq([send : Nat, dropped : Nat]) /\ gaps # <<>>
    BY <1>2 DEF Gap, Stands
  <2>3. <<>> \in Seq(Events) /\ <<>> \in Seq(BOOLEAN)
    OBVIOUS
  <2> QED BY <2>1, <2>2, <2>3 DEF TypeOK, NoACK
<1>4. Popped = 0 /\ UnderWay = 0 /\ InList = 0 /\ Left = 0
  BY <1>1 DEF Popped, UnderWay, InList, Left
<1>5. Count(published, 0) = 0
  BY CountNone
<1>6. Running
  BY <1>1 DEF Running
<1>7. DataShape
  BY <1>1, <1>4, AckerAssumption DEF DataShape
<1>8. BatchShape
  <2>1. ToSet(<<>>) = {}
    BY DEF ToSet
  <2> QED BY <1>1, <1>4, <2>1 DEF BatchShape
<1>9. OrderShape
  BY <1>1 DEF OrderShape
<1>10. GapShape
  BY <1>1, <1>2, <1>4, <1>5 DEF GapShape
<1> QED BY <1>3, <1>6, <1>7, <1>8, <1>9, <1>10 DEF IInv

\* AddEvent queues the private field of the next event.
LEMMA AddEventStep ==
  ASSUME IInv, NEW publish \in BOOLEAN, AddEvent(publish)
  PROVE  IInv'
<1> DEFINE p == published
           N == Len(published)
<1> p \in Seq(BOOLEAN)
  BY DEF IInv, TypeOK
<1>0. PICK q \in Seq(BOOLEAN) : q = Append(p, publish) /\ q = published'
  <2>1. Append(p, publish) \in Seq(BOOLEAN)
    OBVIOUS
  <2> QED BY <2>1 DEF AddEvent
<1>1. /\ Len(q) = N + 1 /\ q[N + 1] = publish /\ \A i \in 1 .. N : q[i] = p[i]
      /\ N \in Nat /\ N < MaxEvents /\ MaxEvents \in Nat
  <2>1. Len(q) = Len(p) + 1 /\ q[Len(p) + 1] = publish /\ \A i \in 1 .. Len(p) : q[i] = p[i]
    <3>1. /\ Len(Append(p, publish)) = Len(p) + 1 /\ Append(p, publish)[Len(p) + 1] = publish
          /\ \A i \in 1 .. Len(p) : Append(p, publish)[i] = p[i]
      BY AppendParts
    <3> QED BY <3>1, <1>0
  <2>2. Len(published) < MaxEvents /\ Len(published) \in Nat
    BY DEF AddEvent
  <2> QED BY <2>1, <2>2, AckerAssumption
<1>2. /\ data' = Append(data, N + 1) /\ N + 1 \in Events /\ data' \in Seq(Events)
      /\ Len(data') = Len(data) + 1 /\ data'[Len(data) + 1] = N + 1
      /\ \A i \in 1 .. Len(data) : data'[i] = data[i]
  <2>1. N + 1 \in Events /\ data' = Append(data, N + 1)
    BY <1>0, <1>1 DEF AddEvent, Events
  <2> QED BY <2>1 DEF IInv, TypeOK
<1>3. prod' \in ProdType /\ prod'.pc = "add" /\ prod'.batch = prod.batch /\ prod.pc = "idle"
  <2>1. prod \in ProdType
    BY Shape
  <2> QED BY <2>1 DEF AddEvent, ProdType
<1>4. UNCHANGED <<client, gaps, ack, acked, reported>>
  BY DEF AddEvent
<1>5. Popped' = Popped /\ Left' = Left /\ InList' = N /\ InList = N /\ Len(published') = N + 1
        /\ Popped \in Nat /\ Len(data) \in Nat /\ Left \in 0 .. N
  BY <1>0, <1>1, <1>2, <1>3, <1>4, Shape DEF Popped, UnderWay, InList, Left
<1>6. TypeOK'
  <2>1. published' \in Seq(BOOLEAN) /\ data' \in Seq(Events)
    BY <1>0, <1>2
  <2>2. prod' \in ProdType
    BY <1>3
  <2>3. TypeOK
    BY DEF IInv
  <2> QED BY <2>1, <2>2, <2>3, <1>4 DEF TypeOK, ProdType
<1>7. Running'
  BY <1>3, <1>4 DEF IInv, Running
<1>8. \A i \in 0 .. N : Count(published', i) = Count(published, i)
  <2>1. \A i \in 0 .. Len(p) : Count(Append(p, publish), i) = Count(p, i)
    BY CountAppend
  <2> QED BY <2>1, <1>0
<1>10. DataShape'
  <2>1. N + 1 = Popped + (Len(data) + 1)
    BY <1>1, <1>5 DEF Popped
  <2>2. \A i \in 1 .. Len(data) : data'[i] = Popped + i
    BY <1>2 DEF IInv, DataShape
  <2>3. ASSUME NEW i \in 1 .. Len(data) + 1 PROVE data'[i] = Popped + i
    <3>1. i \in 1 .. Len(data) \/ i = Len(data) + 1
      BY <1>5
    <3>2. CASE i = Len(data) + 1
      BY <3>2, <2>1, <1>2
    <3> QED BY <3>1, <3>2, <2>2
  <2>4. Len(data) <= N
    BY DEF IInv, DataShape
  <2> QED BY <2>3, <2>4, <1>1, <1>2, <1>5 DEF DataShape
<1>11. BatchShape'
  <2>1. BatchShape
    BY DEF IInv
  <2>2. published' # <<>>
    BY <1>0, <1>1
  <2> QED BY <2>1, <2>2, <1>3, <1>4, <1>5 DEF BatchShape
<1>12. OrderShape'
  <2>1. (\A i \in 1 .. N + 1 : q[i]) => \A i \in 1 .. N : p[i]
    BY <1>1
  <2> QED BY <2>1, <1>0, <1>1, <1>3, <1>4 DEF IInv, OrderShape
<1>13. GapShape'
  <2>1. Stands(gaps, q, Left, N)
    <3>1. Stands(gaps, p, Left, N) /\ N <= Len(p)
      BY <1>1, <1>5, Shape
    <3> QED BY <3>1, <1>0, StandsAppend
  <2>2. N \in 0 .. N
    BY <1>1
  <2> QED BY <2>1, <2>2, <1>0, <1>4, <1>5, <1>8 DEF GapShape, IInv
<1> QED BY <1>4, <1>6, <1>7, <1>10, <1>11, <1>12, <1>13 DEF IInv

\* An event gets into the list of gaps.
LEMMA Listed ==
  ASSUME IInv, prod.pc = "add", prod' = [prod EXCEPT !.pc = "idle"],
         UNCHANGED <<client, data, ack, published, acked, reported>>,
         Stands(gaps', published, Left, InList + 1)
  PROVE  IInv'
<1>1. /\ prod' \in ProdType /\ prod'.pc = "idle" /\ prod'.batch = prod.batch
  <2>1. prod \in ProdType
    BY Shape
  <2> QED BY <2>1 DEF ProdType
<1>2. Popped' = Popped /\ Left' = Left /\ Len(published) \in Nat
  BY Shape DEF Popped, UnderWay, Left
<1>3. InList' = Len(published) /\ InList + 1 = Len(published) /\ InList \in Nat
  BY <1>1, Shape DEF InList
<1>4. TypeOK'
  BY <1>1 DEF IInv, TypeOK, ProdType, Gap, Stands
<1>5. Running'
  BY <1>1 DEF IInv, Running
<1>6. acked <= Count(published, Len(published))
  <2>1. Count(published, InList) <= Count(published, Len(published))
    BY <1>2, <1>3, CountGrows
  <2>2. Count(published, InList) \in Nat /\ Count(published, Len(published)) \in Nat
    BY <1>2, <1>3, CountType
  <2>3. acked <= Count(published, InList) /\ acked \in Nat
    BY DEF IInv, TypeOK, GapShape
  <2> QED BY <2>1, <2>2, <2>3
<1>7. DataShape'
  BY <1>2 DEF IInv, DataShape
<1>8. BatchShape'
  BY <1>1, <1>2 DEF IInv, BatchShape
<1>9. OrderShape'
  BY <1>1 DEF IInv, OrderShape
<1>10. GapShape'
  BY <1>2, <1>3, <1>6 DEF GapShape, IInv
<1> QED BY <1>4, <1>5, <1>7, <1>8, <1>9, <1>10 DEF IInv

\* The event that AddEvent counts comes after the ones in the list.
LEMMA NextInList ==
  ASSUME IInv, prod.pc = "add"
  PROVE  Last(published) = published[InList + 1]
<1>1. InList + 1 = Len(published)
  BY Shape DEF InList
<1> QED BY <1>1 DEF Last

\* addPublishedEvent.
LEMMA AddPublishedEventStep ==
  ASSUME IInv, AddPublishedEvent
  PROVE  IInv'
<1>1. PICK g \in Seq(Gap) : g = gaps /\ Len(g) \in 1 .. Len(g)
  BY Shape
<1>2. Stands(g, published, Left, InList) /\ published[InList + 1]
  BY <1>1, NextInList, Shape DEF AddPublishedEvent
<1>3. PICK x \in Gap, s \in Nat, d \in Nat : x = g[Len(g)] /\ s = x.send /\ d = x.dropped
  BY <1>1, GapFields
<1>4. prod.pc = "add" /\ prod' = [prod EXCEPT !.pc = "idle"] /\ UNCHANGED <<client, data, ack, published, acked, reported>>
  BY DEF AddPublishedEvent
<1>5. Stands(gaps', published, Left, InList + 1)
  <2>1. CASE d > 0
    <3>1. PICK h : h = gaps' /\ h = Append(g, [send |-> 1, dropped |-> 0])
      BY <2>1, <1>1, <1>3 DEF AddPublishedEvent, Last
    <3>2. g[Len(g)].dropped > 0
      BY <2>1, <1>3
    <3> QED BY <3>1, <3>2, <1>2, StandsNew
  <2>2. CASE ~(d > 0)
    <3>1. PICK t \in Nat : t = s + 1 /\ d = 0
      BY <2>2
    <3>2. [x EXCEPT !.send = t] = [send |-> t, dropped |-> x.dropped]
      BY GapExcept
    <3>3. gaps' = [g EXCEPT ![Len(g)] = [x EXCEPT !.send = t]]
      BY <3>1, <2>2, <1>1, <1>3 DEF AddPublishedEvent, Last
    <3>4. PICK h : h = gaps' /\ h = [g EXCEPT ![Len(g)] = [send |-> t, dropped |-> d]]
      BY <3>2, <3>3, <1>3
    <3>5. published[InList + 1] /\ g[Len(g)].dropped = 0 /\ t = g[Len(g)].send + 1 /\ d = 0
      BY <3>1, <1>2, <1>3
    <3>6. \/ published[InList + 1] /\ g[Len(g)].dropped = 0 /\ t = g[Len(g)].send + 1 /\ d = 0
          \/ ~published[InList + 1] /\ g[Len(g)].send > 0 /\ t = g[Len(g)].send /\ d = g[Len(g)].dropped + 1
      BY <3>5
    <3>7. Stands(h, published, Left, InList + 1)
      BY <3>4, <3>6, <1>2, StandsLast
    <3> QED BY <3>4, <3>7
  <2> QED BY <2>1, <2>2
<1> QED BY <1>4, <1>5, Listed

\* addDropEvent behind an event that is not ACKed yet.
LEMMA AddDropEventStep ==
  ASSUME IInv, AddDropEvent
  PROVE  IInv'
<1>1. PICK g \in Seq(Gap) : g = gaps /\ Len(g) \in 1 .. Len(g)
  BY Shape
<1>2. Stands(g, published, Left, InList) /\ ~published[InList + 1]
  BY <1>1, NextInList, Shape DEF AddDropEvent
<1>3. PICK x \in Gap, s \in Nat, d \in Nat : x = g[Len(g)] /\ s = x.send /\ d = x.dropped
  BY <1>1, GapFields
<1>4. prod.pc = "add" /\ prod' = [prod EXCEPT !.pc = "idle"] /\ UNCHANGED <<client, data, ack, published, acked, reported>>
  BY DEF AddDropEvent
<1>5. Stands(gaps', published, Left, InList + 1)
  <2>1. PICK t \in Nat : t = d + 1
    OBVIOUS
  <2>2. [x EXCEPT !.dropped = t] = [send |-> x.send, dropped |-> t]
    BY GapExcept
  <2>3. gaps' = [g EXCEPT ![Len(g)] = [x EXCEPT !.dropped = t]]
    BY <2>1, <1>1, <1>3 DEF AddDropEvent
  <2>4. PICK h : h = gaps' /\ h = [g EXCEPT ![Len(g)] = [send |-> s, dropped |-> t]]
    BY <2>2, <2>3, <1>3
  <2>5. ~published[InList + 1] /\ g[Len(g)].send > 0 /\ s = g[Len(g)].send /\ t = g[Len(g)].dropped + 1
    BY <2>1, <1>1, <1>2, <1>3 DEF AddDropEvent, Last
  <2> QED BY <2>4, <2>5, <1>2, StandsLast
<1> QED BY <1>4, <1>5, Listed

\* The elements of two sequences, one after the other.
LEMMA ToSetConcat ==
  ASSUME NEW X, NEW s \in Seq(X), NEW t \in Seq(X)
  PROVE  ToSet(s \o t) = ToSet(s) \cup ToSet(t)
<1>1. /\ Len(s \o t) = Len(s) + Len(t) /\ Len(s) \in Nat /\ Len(t) \in Nat
      /\ DOMAIN (s \o t) = 1 .. Len(s) + Len(t)
      /\ DOMAIN s = 1 .. Len(s) /\ DOMAIN t = 1 .. Len(t)
  OBVIOUS
<1>2. \A i \in 1 .. Len(s) : (s \o t)[i] = s[i] /\ i \in 1 .. Len(s) + Len(t)
  OBVIOUS
<1>3. \A i \in 1 .. Len(t) : (s \o t)[Len(s) + i] = t[i] /\ Len(s) + i \in 1 .. Len(s) + Len(t)
  OBVIOUS
<1>4. ASSUME NEW i \in 1 .. Len(s) + Len(t) PROVE (s \o t)[i] \in ToSet(s) \cup ToSet(t)
  <2>1. CASE i \in 1 .. Len(s)
    BY <2>1, <1>1, <1>2 DEF ToSet
  <2>2. CASE i \notin 1 .. Len(s)
    <3>1. i - Len(s) \in 1 .. Len(t) /\ Len(s) + (i - Len(s)) = i
      BY <2>2, <1>1
    <3> QED BY <3>1, <1>1, <1>3 DEF ToSet
  <2> QED BY <2>1, <2>2
<1>5. ToSet(s \o t) \subseteq ToSet(s) \cup ToSet(t)
  BY <1>1, <1>4 DEF ToSet
<1>6. ToSet(s) \subseteq ToSet(s \o t)
  BY <1>1, <1>2 DEF ToSet
<1>7. ToSet(t) \subseteq ToSet(s \o t)
  BY <1>1, <1>3 DEF ToSet
<1> QED BY <1>5, <1>6, <1>7

\* t is the first k of the n events after m, and r the others.
Parts(n, m, k, t, r) ==
    /\ t \in Seq(Events) /\ Len(t) = k /\ \A i \in 1 .. k : t[i] = m + i
    /\ ToSet(t) = m + 1 .. m + k
    /\ r \in Seq(Events) /\ Len(r) = n - k /\ \A i \in 1 .. Len(r) : r[i] = (m + k) + i

\* A batch of k events is cut off a queue that holds the events after m.
LEMMA Cut ==
  ASSUME NEW d \in Seq(Events), NEW m \in Nat, \A i \in 1 .. Len(d) : d[i] = m + i,
         NEW k \in 0 .. Len(d), NEW t, t = SubSeq(d, 1, k), NEW r, r = SubSeq(d, k + 1, Len(d))
  PROVE  Parts(Len(d), m, k, t, r)
<1>1. Len(d) \in Nat
  OBVIOUS
<1>2. t \in Seq(Events) /\ Len(t) = k /\ \A i \in 1 .. k : t[i] = d[i]
  BY <1>1
<1>3. \A i \in 1 .. k : t[i] = m + i
  BY <1>1, <1>2
<1>4. ToSet(t) = m + 1 .. m + k
  <2>1. DOMAIN t = 1 .. k
    BY <1>2
  <2>2. \A j \in m + 1 .. m + k : j - m \in 1 .. k /\ m + (j - m) = j
    BY <1>1
  <2>3. \A i \in 1 .. k : m + i \in m + 1 .. m + k
    BY <1>1
  <2>4. ASSUME NEW j \in ToSet(t) PROVE j \in m + 1 .. m + k
    BY <2>1, <2>3, <1>3 DEF ToSet
  <2>5. ASSUME NEW j \in m + 1 .. m + k PROVE j \in ToSet(t)
    BY <2>1, <2>2, <1>3 DEF ToSet
  <2> QED BY <2>4, <2>5
<1>5. r \in Seq(Events) /\ Len(r) = Len(d) - k /\ \A i \in 1 .. Len(r) : r[i] = d[k + i]
  BY <1>1
<1>6. ASSUME NEW i \in 1 .. Len(r) PROVE r[i] = (m + k) + i
  <2>1. k + i \in 1 .. Len(d) /\ m + (k + i) = (m + k) + i
    BY <1>1, <1>5
  <2> QED BY <2>1, <1>5
<1> QED BY <1>2, <1>3, <1>4, <1>5, <1>6 DEF Parts

\* What a step that cuts k events off data finds and leaves.
LEMMA CutOff ==
  ASSUME IInv, NEW k \in 0 .. Len(data), data' = NotReported(k), published' = published
  PROVE  /\ DataShape' /\ data' \in Seq(Events) /\ Popped' = Popped + k
         /\ SubSeq(data, 1, k) \in Seq(Events) /\ Len(SubSeq(data, 1, k)) = k
         /\ ToSet(SubSeq(data, 1, k)) = Popped + 1 .. Popped + k
         /\ \A i \in 1 .. k : SubSeq(data, 1, k)[i] = Popped + i
<1>1. /\ data \in Seq(Events) /\ Len(data) \in Nat /\ Len(published) \in Nat /\ Popped \in Nat
      /\ Len(published) <= MaxEvents /\ Len(data) <= Len(published)
      /\ \A i \in 1 .. Len(data) : data[i] = Popped + i
  BY Shape DEF IInv, TypeOK, DataShape
<1>20. PICK m \in Nat : m = Popped
  BY <1>1
<1>2. PICK t, r : m = Popped /\ t = SubSeq(data, 1, k) /\ r = SubSeq(data, k + 1, Len(data))
  BY <1>20
<1>3. /\ t \in Seq(Events) /\ Len(t) = k /\ \A i \in 1 .. k : t[i] = m + i
      /\ ToSet(t) = m + 1 .. m + k
      /\ r \in Seq(Events) /\ Len(r) = Len(data) - k /\ \A i \in 1 .. Len(r) : r[i] = (m + k) + i
  <2>1. PICK d \in Seq(Events) : d = data
    BY <1>1
  <2>2. \A i \in 1 .. Len(d) : d[i] = m + i
    BY <2>1, <1>1, <1>2
  <2>3. k \in 0 .. Len(d) /\ t = SubSeq(d, 1, k) /\ r = SubSeq(d, k + 1, Len(d))
    BY <2>1, <1>2
  <2>4. Parts(Len(d), m, k, t, r)
    BY <2>2, <2>3, Cut
  <2> QED BY <2>1, <2>4 DEF Parts
<1>4. data' = r
  BY <1>2 DEF NotReported
<1>5. Popped' = m + k /\ Len(r) <= Len(published)
  <2>1. Len(data') = Len(data) - k /\ Len(r) = Len(data) - k
    BY <1>3, <1>4
  <2>2. Popped' = Len(published) - (Len(data) - k) /\ m = Len(published) - Len(data)
    BY <2>1, <1>2 DEF Popped
  <2> QED BY <2>1, <2>2, <1>1
<1>6. DataShape'
  BY <1>1, <1>3, <1>4, <1>5 DEF DataShape
<1> QED BY <1>2, <1>3, <1>4, <1>5, <1>6

\* The lengths of the batches.
LEMMA BatchLengths ==
  ASSUME IInv
  PROVE  Len(reported) \in Nat /\ Len(prod.batch) \in Nat /\ Len(ack.batch) \in Nat
<1>1. reported \in Seq(Events) /\ prod.batch \in Seq(Events) /\ ack.batch \in Seq(Events)
  BY Shape DEF IInv, TypeOK
<1> QED BY <1>1

\* addDropEvent in front of an empty list.
LEMMA AddDropEmptyStep ==
  ASSUME IInv, AddDropEmpty
  PROVE  IInv'
<1> DEFINE N == Len(published)
           batch == SubSeq(data, 1, 1)
<1>1. prod.pc = "add" /\ data' = NotReported(1) /\ UNCHANGED <<client, gaps, ack, published, acked, reported>>
  BY DEF AddDropEmpty
<1>2. gaps = <<EmptyGap>> /\ Len(gaps) = 1 /\ Left = InList
  <2>1. gaps[Len(gaps)].send = 0
    BY DEF AddDropEmpty, Last
  <2> QED BY <2>1, StandsNone, Shape
<1>3. N \in Nat /\ Len(data) \in Nat /\ Popped \in Nat /\ InList + 1 = N /\ InList \in Nat /\ UnderWay \in Nat
  BY <1>1, Shape DEF InList, UnderWay
<1>4. 1 \in 0 .. Len(data)
  BY <1>2, <1>3 DEF Left, Popped
<1>5. /\ DataShape' /\ data' \in Seq(Events) /\ Popped' = Popped + 1
      /\ batch \in Seq(Events) /\ Len(batch) = 1
      /\ ToSet(batch) = Popped + 1 .. Popped + 1
  BY <1>1, <1>4, CutOff
<1> HIDE DEF batch
<1>6. prod' \in ProdType /\ prod'.pc = "callback" /\ prod'.batch = batch
  <2>1. prod' = OnACK(prod, 1)
    BY <1>2 DEF AddDropEmpty
  <2>2. prod' = [prod EXCEPT !.pc = "callback", !.batch = batch]
    BY <2>1, <1>4 DEF OnACK, batch
  <2>3. prod \in ProdType
    BY Shape
  <2> QED BY <2>2, <2>3, <1>5 DEF ProdType
<1>7. InList' = N /\ Left' = N
  <2>1. UnderWay' = UnderWay
    BY <1>1 DEF UnderWay
  <2>2. InList' = N
    BY <1>1, <1>3, <1>6 DEF InList
  <2>3. Left' = (Popped + 1) + UnderWay /\ Left = Popped + UnderWay
    BY <2>1, <1>5 DEF Left
  <2> QED BY <2>2, <2>3, <1>2, <1>3
<1>8. ~published[N]
  BY DEF AddDropEmpty, Last
<1>9. TypeOK'
  BY <1>1, <1>5, <1>6 DEF IInv, TypeOK, ProdType
<1>10. Running'
  BY <1>1, <1>6 DEF IInv, Running
<1>11. BatchShape'
  <2>1. prod.batch = <<>> /\ ToSet(<<>>) = {} /\ published # <<>> /\ Len(<<>>) = 0
    BY <1>1 DEF IInv, BatchShape, ToSet
  <2>2. ToSet(reported) \cup ToSet(ack.batch) = 1 .. Popped /\ Len(reported) + Len(ack.batch) = Popped
    <3>1. ToSet(reported) \cup {} \cup ToSet(ack.batch) = 1 .. Popped
      BY <2>1 DEF IInv, BatchShape
    <3>2. Len(reported) + Len(prod.batch) + Len(ack.batch) = Popped
      BY DEF IInv, BatchShape
    <3>3. Len(prod.batch) = 0
      BY <2>1
    <3>4. Len(reported) + Len(ack.batch) = Popped
      BY <3>2, <3>3, BatchLengths
    <3> QED BY <3>1, <3>4
  <2>3. ToSet(reported) \cup ToSet(batch) \cup ToSet(ack.batch) = 1 .. Popped + 1
    <3>1. (1 .. Popped) \cup (Popped + 1 .. Popped + 1) = 1 .. Popped + 1
      BY <1>3
    <3> QED BY <3>1, <2>2, <1>5
  <2>4. Len(reported) + Len(batch) + Len(ack.batch) = Popped + 1
    <3>1. Len(reported) + Len(ack.batch) = Popped /\ Len(batch) = 1
      BY <2>2, <1>5
    <3>2. PICK x \in Nat, y \in Nat : x = Len(reported) /\ y = Len(ack.batch)
      BY BatchLengths
    <3>3. x + 1 + y = (x + y) + 1
      OBVIOUS
    <3> QED BY <3>1, <3>2, <3>3
  <2>5. BatchShape
    BY DEF IInv
  <2> QED BY <2>1, <2>3, <2>4, <2>5, <1>1, <1>5, <1>6 DEF BatchShape
<1>12. OrderShape'
  <2>1. N \in 1 .. N
    BY <1>3
  <2> QED BY <2>1, <1>1, <1>8 DEF OrderShape
<1>13. GapShape'
  <2>1. Stands(<<EmptyGap>>, published, N, N)
    BY <1>3, StandsEmpty
  <2>2. Count(published, InList + 1) = Count(published, InList)
    <3>1. \A j \in 1 .. 1 : ~published[InList + j]
      BY <1>3, <1>8
    <3> QED BY <3>1, <1>3, CountDrops
  <2>3. acked - ack.n = Count(published, N) /\ acked <= Count(published, N)
    BY <2>2, <1>2, <1>3 DEF IInv, GapShape
  <2> QED BY <2>1, <2>3, <1>1, <1>2, <1>7 DEF GapShape
<1> QED BY <1>5, <1>9, <1>10, <1>11, <1>12, <1>13 DEF IInv

\* A batch is reported: nothing but the batch and what was reported changes.
LEMMA Reports ==
  ASSUME IInv, NEW batch \in Seq(Events), reported' = reported \o batch
  PROVE  /\ reported' \in Seq(Events) /\ ToSet(reported') = ToSet(reported) \cup ToSet(batch)
         /\ Len(reported') = Len(reported) + Len(batch) /\ Len(reported) \in Nat /\ Len(batch) \in Nat
         /\ \A i \in 1 .. Len(reported) : reported'[i] = reported[i]
         /\ \A i \in 1 .. Len(batch) : reported'[Len(reported) + i] = batch[i]
<1>1. PICK r \in Seq(Events) : r = reported
  BY DEF IInv, TypeOK
<1>2. r \o batch \in Seq(Events) /\ Len(r \o batch) = Len(r) + Len(batch)
  OBVIOUS
<1>3. ToSet(r \o batch) = ToSet(r) \cup ToSet(batch)
  BY ToSetConcat
<1>4. \A i \in 1 .. Len(r) : (r \o batch)[i] = r[i]
  OBVIOUS
<1>5. \A i \in 1 .. Len(batch) : (r \o batch)[Len(r) + i] = batch[i]
  OBVIOUS
<1> QED BY <1>1, <1>2, <1>3, <1>4, <1>5

\* The callback of a drop.
LEMMA DropCallbackStep ==
  ASSUME IInv, DropCallback
  PROVE  IInv'
<1>1. /\ prod.pc = "callback" /\ reported' = reported \o prod.batch
      /\ UNCHANGED <<client, data, gaps, ack, published, acked>>
      /\ prod'.pc = "idle" /\ prod'.batch = <<>> /\ prod' \in ProdType
  BY DEF DropCallback, ProdType
<1>2. PICK batch \in Seq(Events) : batch = prod.batch
  BY Shape
<1>3. /\ reported' \in Seq(Events) /\ ToSet(reported') = ToSet(reported) \cup ToSet(batch)
      /\ Len(reported') = Len(reported) + Len(batch) /\ Len(reported) \in Nat /\ Len(batch) \in Nat
      /\ \A i \in 1 .. Len(reported) : reported'[i] = reported[i]
  BY <1>1, <1>2, Reports
<1>4. Popped' = Popped /\ Left' = Left /\ InList' = InList
  BY <1>1 DEF Popped, Left, UnderWay, InList
<1>5. TypeOK'
  BY <1>1, <1>3 DEF IInv, TypeOK, ProdType
<1>6. Running' /\ DataShape' /\ GapShape'
  BY <1>1, <1>4 DEF IInv, Running, DataShape, GapShape
<1>7. BatchShape'
  <2>1. ToSet(<<>>) = {} /\ Len(<<>>) = 0
    BY DEF ToSet
  <2>2. ToSet(reported') \cup ToSet(prod'.batch) \cup ToSet(ack.batch) = 1 .. Popped
    <3>1. ToSet(reported) \cup ToSet(batch) \cup ToSet(ack.batch) = 1 .. Popped
      BY <1>2 DEF IInv, BatchShape
    <3> QED BY <3>1, <2>1, <1>1, <1>3
  <2>3. Len(reported') + Len(prod'.batch) + Len(ack.batch) = Popped
    <3>1. Len(reported) + Len(batch) + Len(ack.batch) = Popped
      BY <1>2 DEF IInv, BatchShape
    <3>2. Len(prod'.batch) = 0 /\ Len(reported') = Len(reported) + Len(batch) /\ Len(batch) \in Nat
      BY <2>1, <1>1, <1>3
    <3>3. PICK x \in Nat, y \in Nat, z \in Nat : x = Len(reported) /\ y = Len(batch) /\ z = Len(ack.batch)
      BY <3>2, BatchLengths
    <3>4. (x + y) + 0 + z = x + y + z
      OBVIOUS
    <3> QED BY <3>1, <3>2, <3>3, <3>4
  <2> QED BY <2>2, <2>3, <1>1, <1>4 DEF IInv, BatchShape
<1>8. OrderShape'
  <2> SUFFICES ASSUME \A i \in 1 .. Len(published) : published[i]
               PROVE  /\ \A i \in 1 .. Len(reported') : reported'[i] = i
                      /\ \A i \in 1 .. Len(ack.batch) : ack.batch[i] = Len(reported') + i
    BY <1>1 DEF OrderShape
  <2>1. /\ batch = <<>>
        /\ \A i \in 1 .. Len(reported) : reported[i] = i
        /\ \A i \in 1 .. Len(ack.batch) : ack.batch[i] = Len(reported) + i
    BY <1>2 DEF IInv, OrderShape
  <2>2. Len(reported') = Len(reported)
    BY <2>1, <1>3
  <2> QED BY <2>1, <2>2, <1>3
<1> QED BY <1>5, <1>6, <1>7, <1>8 DEF IInv

\* The pipeline ACKs what it was sent.
LEMMA ACKEventsStep ==
  ASSUME IInv, NEW n \in Events, ACKEvents(n)
  PROVE  IInv'
<1>1. /\ ack.pc = "idle" /\ n \in 1 .. (Sent - acked) /\ acked' = acked + n
      /\ UNCHANGED <<client, data, gaps, prod, published, reported>>
  BY DEF ACKEvents
<1>2. n \in Nat /\ acked \in Nat /\ ack.n = 0 /\ ack.batch = <<>>
  BY <1>1, AckerAssumption DEF IInv, TypeOK, BatchShape, Events
<1>3. ack' \in AckType /\ ack'.pc = "loop" /\ ack'.n = n /\ ack'.total = 0 /\ ack'.batch = <<>>
  <2>1. ack' = [pc |-> "loop", n |-> n, total |-> 0, batch |-> <<>>]
    BY DEF ACKEvents, NoACK
  <2>2. <<>> \in Seq(Events)
    OBVIOUS
  <2> QED BY <2>1, <2>2, <1>2 DEF AckType
<1>4. Popped' = Popped /\ Left' = Left /\ InList' = InList
  BY <1>1, <1>3 DEF Popped, Left, UnderWay, InList
<1>5. acked + n <= Count(published, InList)
  <2>1. Sent = Count(published, InList) /\ InList \in Nat
    BY SentCount DEF IInv, TypeOK, BatchShape
  <2>2. Count(published, InList) \in Nat
    BY <2>1, CountType
  <2> QED BY <2>1, <2>2, <1>1, <1>2
<1>6. TypeOK'
  BY <1>1, <1>2, <1>3 DEF IInv, TypeOK, AckType
<1>7. Running' /\ DataShape'
  BY <1>1, <1>3, <1>4 DEF IInv, Running, DataShape
<1>8. BatchShape' /\ OrderShape'
  BY <1>1, <1>2, <1>3, <1>4 DEF IInv, BatchShape, OrderShape
<1>9. GapShape'
  <2>1. acked - 0 = Count(published, Left)
    BY <1>2 DEF IInv, GapShape
  <2>2. (acked + n) - n = acked - 0
    BY <1>2
  <2> QED BY <2>1, <2>2, <1>1, <1>3, <1>4, <1>5 DEF IInv, GapShape
<1> QED BY <1>6, <1>7, <1>8, <1>9 DEF IInv

\* k more events leave the list, and m of the ACKs are left.
LEMMA Passed ==
  ASSUME IInv, ack.pc = "loop", NEW q \in {"loop", "pop"}, NEW m \in Nat, q = "pop" => m = 0, NEW k \in Nat,
         ack' = [pc |-> q, n |-> m, total |-> ack.total + k, batch |-> <<>>],
         UNCHANGED <<client, data, prod, published, acked, reported>>,
         Stands(gaps', published, Left + k, InList), acked - m = Count(published, Left + k)
  PROVE  IInv'
<1>1. ack.total \in Nat /\ ack.batch = <<>> /\ Popped \in Nat
  BY Shape DEF IInv, BatchShape
<1>2. ack' \in AckType /\ ack'.pc = q /\ ack'.n = m /\ ack'.total = ack.total + k /\ ack'.batch = <<>>
  BY <1>1 DEF AckType
<1>3. Popped' = Popped /\ InList' = InList
  BY DEF Popped, InList
<1>4. Left' = Left + k
  <2>1. UnderWay' = ack.total + k /\ UnderWay = ack.total
    BY <1>2 DEF UnderWay
  <2> QED BY <2>1, <1>1, <1>3 DEF Left
<1>5. TypeOK'
  <2>1. gaps' \in Seq([send : Nat, dropped : Nat]) /\ gaps' # <<>>
    BY DEF Stands, Gap
  <2> QED BY <2>1, <1>2 DEF IInv, TypeOK, AckType
<1>6. Running' /\ DataShape'
  BY <1>2, <1>3 DEF IInv, Running, DataShape
<1>7. BatchShape' /\ OrderShape'
  BY <1>1, <1>2, <1>3 DEF IInv, BatchShape, OrderShape
<1>8. GapShape'
  BY <1>2, <1>3, <1>4 DEF IInv, GapShape
<1> QED BY <1>5, <1>6, <1>7, <1>8 DEF IInv

\* One pass of the loop over the list of gaps.
LEMMA ACKGapStep ==
  ASSUME IInv, ACKGap
  PROVE  IInv'
<1>1. ack.pc = "loop" /\ UNCHANGED <<client, data, prod, published, acked, reported>>
  BY DEF ACKGap
<1>2. PICK g \in Seq(Gap) : g = gaps /\ 1 \in 1 .. Len(g) /\ (Len(g) # 1 => Len(g) > 1) /\ Head(g) = g[1]
  <2>1. PICK g \in Seq(Gap) : g = gaps /\ Len(g) > 0
    BY Shape
  <2>2. 1 \in 1 .. Len(g) /\ (Len(g) # 1 => Len(g) > 1)
    <3>1. PICK l \in Nat : l = Len(g) /\ l > 0
      BY <2>1
    <3>2. 1 \in 1 .. l /\ (l # 1 => l > 1)
      BY <3>1
    <3> QED BY <3>1, <3>2
  <2>3. Head(g) = g[1]
    BY <2>1
  <2> QED BY <2>1, <2>2, <2>3
<1>3. Stands(g, published, Left, InList)
  BY <1>2, Shape
<1>4. PICK x \in Gap, s \in Nat, d \in Nat, n \in Nat : x = g[1] /\ s = x.send /\ d = x.dropped /\ n = ack.n
  BY <1>2, GapFields, Shape
<1>5. PICK u \in Nat : u = Count(published, Left) /\ acked - n = u
  <2>1. Left \in Nat
    BY Shape
  <2>2. Count(published, Left) \in Nat
    BY <2>1, CountType
  <2>3. acked - n = Count(published, Left)
    BY <1>4 DEF IInv, GapShape
  <2> QED BY <2>2, <2>3
<1>6. /\ Count(published, Left + s + d) = u + s
      /\ \A i \in 0 .. s : Count(published, Left + i) = u + i
  BY <1>3, <1>4, <1>5, HeadCount
<1>7. gaps' = IF n < s THEN [g EXCEPT ![1].send = @ - n] ELSE IF Len(g) = 1 THEN <<EmptyGap>> ELSE Tail(g)
  BY <1>2, <1>4 DEF ACKGap, Advanced
<1>8. ack' = [pc    |-> IF n - s <= 0 THEN "pop" ELSE IF Len(g) = 1 THEN "panic" ELSE "loop",
              n     |-> IF n - s <= 0 THEN 0 ELSE n - s,
              total |-> ack.total + (IF n < s THEN n ELSE s + d),
              batch |-> <<>>]
  BY <1>2, <1>4 DEF ACKGap, Consumed
<1>9. acked \in Nat /\ Left \in Nat /\ acked = u + n
  BY <1>5, Shape DEF IInv, TypeOK
<1>10. CASE n < s
  <2>1. PICK t \in Nat : t = s - n
    BY <1>10
  <2>2. [x EXCEPT !.send = t] = [send |-> t, dropped |-> x.dropped]
    BY GapExcept
  <2>3. gaps' = [g EXCEPT ![1] = [x EXCEPT !.send = t]]
    BY <2>1, <1>4, <1>7, <1>10
  <2>4. PICK h : h = gaps' /\ h = [g EXCEPT ![1] = [send |-> g[1].send - n, dropped |-> g[1].dropped]]
    BY <2>1, <2>2, <2>3, <1>4
  <2>5. n < g[1].send
    BY <1>4, <1>10
  <2>6. Stands(h, published, Left + n, InList)
    BY <2>4, <2>5, <1>3, StandsPart
  <2>7. ack' = [pc |-> "pop", n |-> 0, total |-> ack.total + n, batch |-> <<>>]
    <3>1. n - s <= 0
      BY <1>10
    <3> QED BY <3>1, <1>8, <1>10
  <2>8. acked - 0 = Count(published, Left + n)
    <3>1. n \in 0 .. s
      BY <1>10
    <3> QED BY <3>1, <1>6, <1>9
  <2> QED BY <2>4, <2>6, <2>7, <2>8, <1>1, Passed
<1>11. CASE ~(n < s) /\ Len(g) = 1
  <2>1. InList = Left + s + d
    BY <1>3, <1>4, <1>11, StandsType
  <2>2. n = s
    <3>1. acked <= u + s
      BY <2>1, <1>6 DEF IInv, GapShape
    <3> QED BY <3>1, <1>9, <1>11
  <2>3. ack' = [pc |-> "pop", n |-> 0, total |-> ack.total + (s + d), batch |-> <<>>]
    <3>1. n - s <= 0
      BY <2>2
    <3> QED BY <3>1, <1>8, <1>11
  <2>4. s + d \in Nat /\ Left + (s + d) = Left + s + d /\ Left + s + d \in Nat
    BY <1>9
  <2>5. Stands(gaps', published, Left + (s + d), InList)
    <3>1. gaps' = <<EmptyGap>>
      BY <1>7, <1>11
    <3> QED BY <3>1, <2>1, <2>4, StandsEmpty
  <2>6. acked - 0 = Count(published, Left + (s + d))
    BY <2>2, <2>4, <1>6, <1>9
  <2> QED BY <2>3, <2>4, <2>5, <2>6, <1>1, Passed
<1>12. CASE ~(n < s) /\ Len(g) # 1
  <2>1. PICK m \in Nat : m = n - s
    BY <1>12
  <2>2. PICK q \in {"loop", "pop"} : q = IF m = 0 THEN "pop" ELSE "loop"
    OBVIOUS
  <2>3. ack' = [pc |-> q, n |-> m, total |-> ack.total + (s + d), batch |-> <<>>]
    <3>1. CASE m = 0
      BY <3>1, <2>1, <2>2, <1>8, <1>12
    <3>2. CASE m # 0
      <4>1. ~(n - s <= 0)
        BY <3>2, <2>1
      <4> QED BY <4>1, <3>2, <2>1, <2>2, <1>8, <1>12
    <3> QED BY <3>1, <3>2
  <2>4. s + d \in Nat /\ Left + (s + d) = Left + s + d
    BY <1>9
  <2>5. Stands(gaps', published, Left + (s + d), InList)
    <3>1. PICK h : h = gaps' /\ h = Tail(g)
      BY <1>7, <1>12
    <3>2. Len(g) > 1
      BY <1>2, <1>12, Zenon
    <3>3. Stands(h, published, Left + g[1].send + g[1].dropped, InList)
      BY <3>1, <3>2, <1>3, StandsTail
    <3> QED BY <3>1, <3>3, <2>4, <1>4
  <2>6. acked - m = Count(published, Left + (s + d))
    <3>1. (u + n) - (n - s) = u + s
      OBVIOUS
    <3> QED BY <3>1, <2>1, <2>4, <1>6, <1>9
  <2>7. q = "pop" => m = 0
    BY <2>2
  <2> QED BY <2>3, <2>4, <2>5, <2>6, <2>7, <1>1, Passed
<1> QED BY <1>10, <1>11, <1>12

\* The ACKed batch is cut off data.
LEMMA ACKPopStep ==
  ASSUME IInv, ACKPop
  PROVE  IInv'
<1>1. /\ ack.pc = "pop" /\ data' = NotReported(ack.total) /\ ack' = OnACK(ack, ack.total)
      /\ UNCHANGED <<client, gaps, prod, published, acked, reported>>
  BY DEF ACKPop
<1>2. PICK k \in Nat : k = ack.total
  BY Shape
<1>3. k \in 0 .. Len(data)
  <2>1. Left = Popped + k
    BY <1>1, <1>2 DEF Left, UnderWay
  <2> QED BY <2>1, Shape DEF Popped
<1> DEFINE batch == SubSeq(data, 1, k)
<1>4. /\ DataShape' /\ data' \in Seq(Events) /\ Popped' = Popped + k
      /\ batch \in Seq(Events) /\ Len(batch) = k
      /\ ToSet(batch) = Popped + 1 .. Popped + k
      /\ \A i \in 1 .. k : batch[i] = Popped + i
  BY <1>1, <1>2, <1>3, CutOff
<1>5. ack' = [ack EXCEPT !.pc = "callback", !.batch = batch]
  BY <1>1, <1>2, <1>3 DEF OnACK
<1> HIDE DEF batch
<1>6. ack' \in AckType /\ ack'.pc = "callback" /\ ack'.batch = batch /\ ack'.n = ack.n
  <2>1. ack \in AckType
    BY Shape
  <2> QED BY <2>1, <1>4, <1>5 DEF AckType
<1>7. InList' = InList /\ Left' = Left
  <2>1. UnderWay = k /\ UnderWay' = 0
    BY <1>1, <1>2, <1>6 DEF UnderWay
  <2>2. Popped \in Nat
    BY Shape
  <2> QED BY <2>1, <2>2, <1>1, <1>4 DEF Left, InList
<1>8. TypeOK' /\ Running' /\ GapShape'
  BY <1>1, <1>4, <1>6, <1>7 DEF IInv, TypeOK, AckType, Running, GapShape
<1>9. ack.batch = <<>> /\ ToSet(<<>>) = {} /\ Len(<<>>) = 0
  BY <1>1 DEF IInv, BatchShape, ToSet
<1>10. PICK x \in Nat, y \in Nat : x = Len(reported) /\ y = Len(prod.batch) /\ x + y = Popped
  <2>1. PICK x \in Nat, y \in Nat : x = Len(reported) /\ y = Len(prod.batch)
    BY BatchLengths
  <2>2. x + y + Len(ack.batch) = Popped
    BY <2>1 DEF IInv, BatchShape
  <2>3. x + y + 0 = Popped
    BY <2>2, <1>9
  <2>4. x + y + 0 = x + y
    OBVIOUS
  <2> QED BY <2>1, <2>3, <2>4
<1>11. BatchShape'
  <2>1. ToSet(reported) \cup ToSet(prod.batch) \cup ToSet(batch) = 1 .. Popped + k
    <3>1. ToSet(reported) \cup ToSet(prod.batch) \cup {} = 1 .. Popped
      BY <1>9 DEF IInv, BatchShape
    <3>2. (1 .. Popped) \cup (Popped + 1 .. Popped + k) = 1 .. Popped + k
      BY Shape
    <3> QED BY <3>1, <3>2, <1>4
  <2>2. Len(reported) + Len(prod.batch) + Len(batch) = Popped + k
    BY <1>4, <1>10
  <2>3. BatchShape
    BY DEF IInv
  <2> QED BY <2>1, <2>2, <2>3, <1>1, <1>4, <1>6 DEF BatchShape
<1>12. OrderShape'
  <2> SUFFICES ASSUME \A i \in 1 .. Len(published) : published[i]
               PROVE  /\ prod.batch = <<>>
                      /\ \A i \in 1 .. Len(reported) : reported[i] = i
                      /\ \A i \in 1 .. Len(batch) : batch[i] = Len(reported) + i
    BY <1>1, <1>6 DEF OrderShape
  <2>1. prod.batch = <<>> /\ \A i \in 1 .. Len(reported) : reported[i] = i
    BY DEF IInv, OrderShape
  <2>2. y = 0
    BY <2>1, <1>9, <1>10
  <2>3. x = Popped
    BY <2>2, <1>10
  <2> QED BY <2>1, <2>3, <1>4, <1>10
<1> QED BY <1>4, <1>8, <1>11, <1>12 DEF IInv

\* The callback of an ACK.
LEMMA ACKCallbackStep ==
  ASSUME IInv, ACKCallback
  PROVE  IInv'
<1>1. /\ ack.pc = "callback" /\ reported' = reported \o ack.batch
      /\ UNCHANGED <<client, data, gaps, prod, published, acked>>
      /\ ack'.pc = "idle" /\ ack'.n = 0 /\ ack'.batch = <<>> /\ ack' \in AckType
  BY DEF ACKCallback, NoACK, AckType
<1>2. PICK batch \in Seq(Events) : batch = ack.batch
  BY Shape
<1>3. /\ reported' \in Seq(Events) /\ ToSet(reported') = ToSet(reported) \cup ToSet(batch)
      /\ Len(reported') = Len(reported) + Len(batch) /\ Len(reported) \in Nat /\ Len(batch) \in Nat
      /\ \A i \in 1 .. Len(reported) : reported'[i] = reported[i]
      /\ \A i \in 1 .. Len(batch) : reported'[Len(reported) + i] = batch[i]
  BY <1>1, <1>2, Reports
<1>4. Popped' = Popped /\ Left' = Left /\ InList' = InList /\ ack.n = 0
  <2>1. ack.n = 0
    BY <1>1 DEF IInv, BatchShape
  <2> QED BY <2>1, <1>1 DEF Popped, Left, UnderWay, InList
<1>5. TypeOK'
  BY <1>1, <1>3 DEF IInv, TypeOK, AckType
<1>6. Running' /\ DataShape' /\ GapShape'
  BY <1>1, <1>4 DEF IInv, Running, DataShape, GapShape
<1>7. BatchShape'
  <2>1. ToSet(<<>>) = {} /\ Len(<<>>) = 0
    BY DEF ToSet
  <2>2. ToSet(reported') \cup ToSet(prod.batch) \cup ToSet(ack'.batch) = 1 .. Popped
    <3>1. ToSet(reported) \cup ToSet(prod.batch) \cup ToSet(batch) = 1 .. Popped
      BY <1>2 DEF IInv, BatchShape
    <3> QED BY <3>1, <2>1, <1>1, <1>3
  <2>3. Len(reported') + Len(prod.batch) + Len(ack'.batch) = Popped
    <3>1. Len(reported) + Len(prod.batch) + Len(batch) = Popped
      BY <1>2 DEF IInv, BatchShape
    <3>2. Len(ack'.batch) = 0 /\ Len(reported') = Len(reported) + Len(batch) /\ Len(batch) \in Nat
      BY <2>1, <1>1, <1>3
    <3>3. PICK x \in Nat, y \in Nat, z \in Nat : x = Len(reported) /\ y = Len(batch) /\ z = Len(prod.batch)
      BY <3>2, BatchLengths
    <3>4. (x + y) + z + 0 = x + z + y
      OBVIOUS
    <3> QED BY <3>1, <3>2, <3>3, <3>4
  <2> QED BY <2>2, <2>3, <1>1, <1>4 DEF IInv, BatchShape
<1>8. OrderShape'
  <2> SUFFICES ASSUME \A i \in 1 .. Len(published) : published[i]
               PROVE  /\ prod.batch = <<>>
                      /\ \A i \in 1 .. Len(reported') : reported'[i] = i
                      /\ \A i \in 1 .. Len(ack'.batch) : FALSE
    BY <1>1 DEF OrderShape
  <2>1. /\ prod.batch = <<>>
        /\ \A i \in 1 .. Len(reported) : reported[i] = i
        /\ \A i \in 1 .. Len(batch) : batch[i] = Len(reported) + i
    BY <1>2 DEF IInv, OrderShape
  <2>2. ASSUME NEW i \in 1 .. Len(reported') PROVE reported'[i] = i
    <3>1. CASE i \in 1 .. Len(reported)
      BY <3>1, <2>1, <1>3
    <3>2. CASE i \notin 1 .. Len(reported)
      <4>1. i - Len(reported) \in 1 .. Len(batch) /\ Len(reported) + (i - Len(reported)) = i
        BY <3>2, <1>3
      <4> QED BY <4>1, <2>1, <1>3
    <3> QED BY <3>1, <3>2
  <2>3. \A i \in 1 .. Len(ack'.batch) : FALSE
    BY <1>1
  <2> QED BY <2>1, <2>2, <2>3
<1> QED BY <1>5, <1>6, <1>7, <1>8 DEF IInv

\* A step that changes nothing but the connection.
LEMMA CloseStep ==
  ASSUME IInv, UNCHANGED <<data, gaps, prod, ack, published, acked, reported>>,
         client' \in {"unwrapped", "open", "closed"}
  PROVE  IInv'
<1>1. Popped' = Popped /\ Left' = Left /\ InList' = InList
  BY DEF Popped, Left, UnderWay, InList
<1>2. TypeOK' /\ Running'
  BY DEF IInv, TypeOK, Running
<1>3. DataShape' /\ BatchShape'
  BY <1>1 DEF IInv, DataShape, BatchShape
<1>4. OrderShape'
  BY DEF IInv, OrderShape
<1>5. GapShape'
  BY <1>1 DEF IInv, GapShape
<1> QED BY <1>2, <1>3, <1>4, <1>5 DEF IInv
-----------------------------------------------------------------------------
(***************************************************************************)
(* What holds of the ACKer.                                                *)
(***************************************************************************)

\* The list of gaps, the queue of private fields, the batches and the ACKs
\* under way agree in every state.
THEOREM InductiveInvariant == Spec => []IInv
<1>1. Init => IInv
  BY InitIInv
<1>2. IInv /\ [Next]_vars => IInv'
  <2> SUFFICES ASSUME IInv, [Next]_vars PROVE IInv'
    OBVIOUS
  <2>1. ASSUME NEW publish \in BOOLEAN, AddEvent(publish) PROVE IInv'
    BY <2>1, AddEventStep
  <2>2. ASSUME NEW n \in Events, ACKEvents(n) PROVE IInv'
    BY <2>2, ACKEventsStep
  <2>3. CASE ProdStep
    BY <2>3, AddPublishedEventStep, AddDropEventStep, AddDropEmptyStep, DropCallbackStep DEF ProdStep
  <2>4. CASE ACKStep
    BY <2>4, ACKGapStep, ACKPopStep, ACKCallbackStep DEF ACKStep
  <2>5. CASE Close
    <3>1. client' \in {"unwrapped", "open", "closed"} /\ UNCHANGED <<data, gaps, prod, ack, published, acked, reported>>
      BY <2>5 DEF Close
    <3> QED BY <3>1, CloseStep
  <2>6. CASE UNCHANGED vars
    <3>1. client' \in {"unwrapped", "open", "closed"} /\ UNCHANGED <<data, gaps, prod, ack, published, acked, reported>>
      BY <2>6 DEF vars, IInv, TypeOK
    <3> QED BY <3>1, CloseStep
  <2> QED BY <2>1, <2>2, <2>3, <2>4, <2>5, <2>6 DEF Next
<1> QED BY <1>1, <1>2, PTL DEF Spec

\* The variables of the ACKer have their types.
THEOREM TypeCorrect == Spec => []TypeOK
<1>1. IInv => TypeOK
  BY DEF IInv
<1> QED BY <1>1, InductiveInvariant, PTL

\* Neither the list of gaps nor a slice expression panics.
THEOREM NoPanics == Spec => []NoPanic
<1>1. IInv => NoPanic
  BY DEF IInv, NoPanic
<1> QED BY <1>1, InductiveInvariant, PTL

\* An event that was cut off data is complete.
LEMMA PoppedComplete ==
  ASSUME IInv, NEW i \in 1 .. Popped
  PROVE  Complete(i)
<1>1. Left \in Nat /\ Popped \in Nat /\ ack.n \in Nat /\ acked \in Nat /\ Popped <= Left
  <2>1. Popped \in Nat /\ ack.n \in Nat /\ ack.total \in Nat
    BY Shape
  <2>2. acked \in Nat
    BY DEF IInv, TypeOK
  <2>3. UnderWay \in Nat
    BY <2>1 DEF UnderWay
  <2> QED BY <2>1, <2>2, <2>3 DEF Left
<1>2. i \in Nat /\ i <= Left
  BY <1>1
<1>3. Count(published, i) <= Count(published, Left)
  BY <1>1, <1>2, CountGrows
<1>4. Count(published, i) \in Nat /\ Count(published, Left) \in Nat
  BY <1>1, <1>2, CountType
<1>5. acked - ack.n = Count(published, Left)
  BY DEF IInv, GapShape
<1>6. Count(published, i) <= acked
  BY <1>1, <1>3, <1>4, <1>5
<1> QED BY <1>6 DEF Complete, Count

\* Whichever goroutine reports an event, it is complete by then.
THEOREM NoEarlyReports == Spec => []NoEarlyReport
<1>1. IInv => NoEarlyReport
  <2> SUFFICES ASSUME IInv, NEW i \in ToSet(reported \o prod.batch \o ack.batch) PROVE Complete(i)
    BY DEF NoEarlyReport
  <2>1. PICK r \in Seq(Events), d \in Seq(Events), a \in Seq(Events) :
            r = reported /\ d = prod.batch /\ a = ack.batch
    BY Shape DEF IInv, TypeOK
  <2>2. ToSet(r \o d) = ToSet(r) \cup ToSet(d) /\ r \o d \in Seq(Events)
    BY ToSetConcat
  <2>3. ToSet((r \o d) \o a) = ToSet(r \o d) \cup ToSet(a)
    <3>1. PICK e \in Seq(Events) : e = r \o d
      BY <2>2
    <3>2. ToSet(e \o a) = ToSet(e) \cup ToSet(a)
      BY ToSetConcat
    <3> QED BY <3>1, <3>2
  <2>4. ToSet(r) \cup ToSet(d) \cup ToSet(a) = 1 .. Popped
    BY <2>1 DEF IInv, BatchShape
  <2>5. i \in 1 .. Popped
    BY <2>1, <2>2, <2>3, <2>4
  <2> QED BY <2>5, PoppedComplete
<1> QED BY <1>1, InductiveInvariant, PTL

\* The first event that a list stands for is a published one.
LEMMA StandsFirst ==
  ASSUME NEW g, NEW p, NEW x, NEW y, Stands(g, p, x, y), x # y
  PROVE  p[x + 1] /\ Count(p, x + 1) = Count(p, x) + 1
<1>1. g \in Seq(Gap) /\ 1 \in 1 .. Len(g) /\ 0 \in 0 .. Len(g) /\ 1 - 1 = 0
  BY DEF Stands
<1>2. PICK s \in Nat, d \in Nat : s = g[1].send /\ d = g[1].dropped
  BY <1>1, GapFields
<1>3. PICK b \in [0 .. Len(g) -> Nat] : b[0] = x /\ b[Len(g)] = y /\ Runs(g, p, b)
  BY DEF Stands
<1>4. /\ s = 0 => Len(g) = 1 /\ d = 0
      /\ \A j \in 1 .. s : p[x + j]
  BY <1>1, <1>2, <1>3 DEF Runs
<1>5. x \in Nat /\ (Len(g) = 1 => x + s + d = y)
  BY <1>2, StandsType
<1>6. 1 \in 1 .. s /\ 1 \in 0 .. s
  BY <1>4, <1>5
<1>7. Count(p, x + 1) = Count(p, x) + 1
  BY <1>2, <1>6, HeadCount
<1> QED BY <1>4, <1>6, <1>7

\* Between the calls, exactly the events before the first one that is not
\* complete are reported, each of them once.
THEOREM PrefixReported == Spec => []CompletePrefix
<1>1. IInv => CompletePrefix
  <2> SUFFICES ASSUME IInv, prod.pc = "idle", ack.pc = "idle"
               PROVE  LET prefix == {i \in DOMAIN published : \A j \in 1 .. i : Complete(j)}
                      IN ToSet(reported) = prefix /\ Len(reported) = Cardinality(prefix)
    BY DEF CompletePrefix
  <2> DEFINE prefix == {i \in DOMAIN published : \A j \in 1 .. i : Complete(j)}
  <2>1. /\ Len(published) \in Nat /\ InList = Len(published) /\ Left = Popped /\ Popped \in 0 .. Len(published)
        /\ DOMAIN published = 1 .. Len(published) /\ acked \in Nat /\ ack.n = 0
    <3>1. Len(published) \in Nat /\ DOMAIN published = 1 .. Len(published) /\ acked \in Nat /\ Popped \in Nat
      BY Shape DEF IInv, TypeOK
    <3>2. InList = Len(published) - 0 /\ Left = Popped + 0
      BY DEF InList, Left, UnderWay
    <3>3. ack.n = 0
      BY DEF IInv, BatchShape
    <3>4. Left \in 0 .. InList
      BY Shape
    <3>5. InList = Len(published) /\ Left = Popped
      BY <3>1, <3>2
    <3> QED BY <3>1, <3>3, <3>4, <3>5
  <2>2. acked = Count(published, Popped)
    <3>1. acked - 0 = Count(published, Popped)
      BY <2>1 DEF IInv, GapShape
    <3> QED BY <3>1, <2>1
  <2>3. prefix = 1 .. Popped
    <3>1. ASSUME NEW i \in 1 .. Popped PROVE i \in prefix
      <4>1. i \in 1 .. Len(published) /\ \A j \in 1 .. i : j \in 1 .. Popped
        BY <2>1
      <4> QED BY <4>1, <2>1, PoppedComplete
    <3>2. ASSUME NEW i \in prefix PROVE i \in 1 .. Popped
      <4>1. i \in 1 .. Len(published) /\ \A j \in 1 .. i : Complete(j)
        BY <2>1
      <4> SUFFICES ASSUME i > Popped PROVE FALSE
        BY <4>1, <2>1
      <4>2. Popped + 1 \in 1 .. i /\ Popped # Len(published)
        BY <4>1, <2>1
      <4>3. published[Popped + 1] /\ Count(published, Popped + 1) = Count(published, Popped) + 1
        BY <4>2, <2>1, StandsFirst, Shape
      <4>4. Complete(Popped + 1)
        BY <4>1, <4>2
      <4>5. Count(published, Popped + 1) <= acked
        BY <4>3, <4>4 DEF Complete, Count
      <4> QED BY <4>3, <4>5, <2>1, <2>2
    <3> QED BY <3>1, <3>2
  <2>4. Cardinality(1 .. Popped) = Popped
    <3>1. 1 \in Int /\ Popped \in Int
      BY <2>1
    <3>2. Cardinality(1 .. Popped) = IF 1 > Popped THEN 0 ELSE Popped - 1 + 1
      BY <3>1, FS_Interval
    <3> QED BY <3>2, <2>1
  <2>5. ToSet(reported) = 1 .. Popped /\ Len(reported) = Popped
    <3>1. prod.batch = <<>> /\ ack.batch = <<>> /\ ToSet(<<>>) = {} /\ Len(<<>>) = 0
      BY DEF IInv, BatchShape, ToSet
    <3>2. ToSet(reported) \cup {} \cup {} = 1 .. Popped /\ Len(reported) + 0 + 0 = Popped
      BY <3>1 DEF IInv, BatchShape
    <3>3. Len(reported) + 0 + 0 = Len(reported)
      BY BatchLengths
    <3> QED BY <3>2, <3>3
  <2> HIDE DEF prefix
  <2>6. ToSet(reported) = prefix /\ Len(reported) = Cardinality(prefix)
    BY <2>3, <2>4, <2>5
  <2> QED BY <2>6 DEF prefix
<1> QED BY <1>1, InductiveInvariant, PTL

\* Without a drop the callback sees the events in their order.
THEOREM InOrder == Spec => []InOrderWithoutDrops
<1>1. IInv => InOrderWithoutDrops
  <2> SUFFICES ASSUME IInv, \A i \in DOMAIN published : published[i], NEW i \in 1 .. Len(reported) - 1
               PROVE  reported[i] < reported[i + 1]
    BY DEF InOrderWithoutDrops
  <2>1. DOMAIN published = 1 .. Len(published)
    BY DEF IInv, TypeOK
  <2>2. \A j \in 1 .. Len(reported) : reported[j] = j
    BY <2>1 DEF IInv, OrderShape
  <2>3. i \in 1 .. Len(reported) /\ i + 1 \in 1 .. Len(reported)
    BY BatchLengths
  <2> QED BY <2>2, <2>3
<1> QED BY <1>1, InductiveInvariant, PTL

\* A list counts the events that it stands for.
LEMMA CountedIs ==
  ASSUME NEW g, NEW p, NEW x, NEW y, Stands(g, p, x, y)
  PROVE  Counted(g) = y - x
<1>1. g \in Seq(Gap) /\ Len(g) \in Nat
  BY DEF Stands
<1>2. PICK b \in [0 .. Len(g) -> Nat] : b[0] = x /\ b[Len(g)] = y /\ Runs(g, p, b)
  BY DEF Stands
<1> DEFINE F(s) == [k \in 0 .. Len(g) |-> IF k = 0 THEN 0 ELSE s[k - 1] + g[k].send + g[k].dropped]
           sum == CHOOSE s : s = F(s)
           w == [k \in 0 .. Len(g) |-> b[k] - b[0]]
<1>3. Counted(g) = sum[Len(g)]
  BY Zenon DEF Counted
<1>4. ASSUME NEW k \in 1 .. Len(g)
      PROVE  /\ b[k] - b[0] = (b[k - 1] - b[0]) + g[k].send + g[k].dropped
             /\ k - 1 \in 0 .. Len(g) /\ k \in 0 .. Len(g)
  <2>1. k - 1 \in 0 .. Len(g) /\ k \in 0 .. Len(g) /\ 0 \in 0 .. Len(g)
    BY <1>1
  <2>2. PICK u \in Nat, v \in Nat, s \in Nat, d \in Nat :
            u = b[k - 1] /\ v = b[0] /\ s = g[k].send /\ d = g[k].dropped
    BY <2>1, <1>1, GapFields
  <2>3. b[k] = u + s + d
    BY <2>2, <1>2 DEF Runs
  <2>4. (u + s + d) - v = (u - v) + s + d
    OBVIOUS
  <2> QED BY <2>1, <2>2, <2>3, <2>4
<1>5. b[0] - b[0] = 0 /\ 0 \in 0 .. Len(g) /\ Len(g) \in 0 .. Len(g)
  BY <1>1
<1>6. w = F(w)
  <2>1. ASSUME NEW k \in 0 .. Len(g) PROVE w[k] = IF k = 0 THEN 0 ELSE w[k - 1] + g[k].send + g[k].dropped
    <3>1. CASE k = 0
      BY <3>1, <1>5
    <3>2. CASE k # 0
      <4>1. k \in 1 .. Len(g)
        BY <3>2, <1>1
      <4> QED BY <4>1, <3>2, <1>4
    <3> QED BY <3>1, <3>2
  <2> QED BY <2>1
<1>7. sum = F(sum)
  BY <1>6, Zenon
<1> HIDE DEF sum, w
<1>8. /\ sum[0] = 0
      /\ \A k \in 1 .. Len(g) : sum[k] = sum[k - 1] + g[k].send + g[k].dropped
  <2>1. \A k \in 0 .. Len(g) : sum[k] = IF k = 0 THEN 0 ELSE sum[k - 1] + g[k].send + g[k].dropped
    BY <1>7
  <2>2. \A k \in 1 .. Len(g) : k \in 0 .. Len(g) /\ k # 0
    BY <1>1
  <2> QED BY <2>1, <2>2, <1>5
<1> HIDE DEF F
<1> DEFINE S == {k \in 0 .. Len(g) : sum[k] = b[k] - b[0]}
<1>9. 0 \in S
  BY <1>5, <1>8
<1>10. ASSUME NEW i \in 0 .. Len(g) - 1, i \in S PROVE i + 1 \in S
  <2>1. i + 1 \in 1 .. Len(g) /\ (i + 1) - 1 = i
    BY <1>1
  <2>2. sum[i + 1] = (b[i] - b[0]) + g[i + 1].send + g[i + 1].dropped
    BY <2>1, <1>8, <1>10
  <2> QED BY <2>1, <2>2, <1>4
<1> HIDE DEF S
<1>11. 0 .. Len(g) \subseteq S
  BY <1>1, <1>9, <1>10, IntervalInduction
<1>12. sum[Len(g)] = b[Len(g)] - b[0]
  BY <1>5, <1>11 DEF S
<1> QED BY <1>2, <1>3, <1>12

\* The list of gaps, the total under way and the queue of private fields agree.
THEOREM DataTracked == Spec => []DataIsTracked
<1>1. IInv => DataIsTracked
  <2> SUFFICES ASSUME IInv PROVE DataIsTracked
    OBVIOUS
  <2>1. PICK n \in Nat, l \in Nat, t \in Nat, a \in Nat :
            /\ n = Len(published) /\ l = Len(data) /\ t = ack.total
            /\ a = IF prod.pc = "add" THEN 1 ELSE 0
    BY Shape
  <2>2. PICK u \in Nat : u = UnderWay /\ u = t * (IF ack.pc \in {"loop", "pop"} THEN 1 ELSE 0)
    BY <2>1 DEF UnderWay
  <2>3. Popped = n - l /\ InList = n - a /\ Left = (n - l) + u
    BY <2>1, <2>2 DEF Popped, InList, Left
  <2>4. Counted(gaps) = (n - a) - ((n - l) + u)
    BY <2>3, CountedIs, Shape
  <2>5. l = ((n - a) - ((n - l) + u)) + u + a
    OBVIOUS
  <2> QED BY <2>1, <2>2, <2>4, <2>5 DEF DataIsTracked
<1> QED BY <1>1, InductiveInvariant, PTL
=============================================================================
