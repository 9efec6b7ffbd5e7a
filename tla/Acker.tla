-------------------------------- MODULE Acker --------------------------------
(***************************************************************************)
(* The ACKer of one pipeline client (pkg/publisher/acker):                 *)
(* EventPrivateReporter on top of TrackingCounter, the ACK handler of the  *)
(* cursor inputs, alone or with ConnectionOnly around it.                  *)
(*                                                                         *)
(* The client calls AddEvent from one goroutine, the pipeline ACKEvents    *)
(* from another, and Close comes from any.  The list of gaps is locked     *)
(* hand over hand: gapList first, then the node, which is kept when the    *)
(* list is released.  Each pass over the list is therefore one step, save  *)
(* the callback of a drop, which runs with both locks held.  The batch     *)
(* that the callback reports is cut off data under a mutex of its own,     *)
(* and the callback runs when that one is released again.                  *)
(*                                                                         *)
(* Events are numbered in the order in which they are added.               *)
(* trackingACKer.events is left out: nothing reads it.                     *)
(***************************************************************************)
EXTENDS Integers, SequencesExt

CONSTANT MaxEvents      \* bound: events of the client

ASSUME AckerAssumption == MaxEvents \in Nat

VARIABLES
    client,     \* "unwrapped": no ConnectionOnly; "closed": its acker is nil
    data,       \* eventDataACKer.data: events not reported yet
    gaps,       \* gapList: runs of sent events, each with the drops after it
    prod,       \* the goroutine in AddEvent: pc, and the batch it reports
    ack,        \* the goroutine in ACKEvents: pc, its local variables, its batch
    published,  \* history: for each event added, if it has been published
    acked,      \* history: events the pipeline has ACKed
    reported    \* history: events the callback was called with, in this order

vars == <<client, data, gaps, prod, ack, published, acked, reported>>

EmptyGap == [send |-> 0, dropped |-> 0]

Events == 1 .. MaxEvents

TypeOK ==
    /\ client \in {"unwrapped", "open", "closed"}
    /\ data \in Seq(Events)
    /\ gaps \in Seq([send : Nat, dropped : Nat]) /\ gaps # <<>>
    /\ prod \in [pc : {"idle", "add", "callback", "panic"}, batch : Seq(Events)]
    /\ ack \in [pc : {"idle", "loop", "pop", "callback", "panic"},
                n : Nat, total : Nat, batch : Seq(Events)]
    /\ published \in Seq(BOOLEAN)
    /\ acked \in Nat
    /\ reported \in Seq(Events)

NoACK == [pc |-> "idle", n |-> 0, total |-> 0, batch |-> <<>>]

Init ==
    /\ client \in {"unwrapped", "open"}
    /\ data = <<>>
    /\ gaps = <<EmptyGap>>
    /\ prod = [pc |-> "idle", batch |-> <<>>]
    /\ ack = NoACK
    /\ published = <<>>
    /\ acked = 0
    /\ reported = <<>>

Running == prod.pc # "panic" /\ ack.pc # "panic"

\* clientOnlyACKer.mu, which AddEvent holds until it returns.
ClientLocked == client = "open" /\ prod.pc # "idle"

\* AddEvent: the private field is queued first (eventDataACKer) ...
AddEvent(publish) ==
    /\ Running
    /\ client # "closed"
    /\ prod.pc = "idle"
    /\ Len(published) < MaxEvents
    /\ published' = Append(published, publish)
    /\ data' = Append(data, Len(published'))
    /\ prod' = [prod EXCEPT !.pc = "add"]
    /\ UNCHANGED <<client, gaps, ack, acked, reported>>

\* ... and the event is counted in the list of gaps afterwards.
AddPublishedEvent ==
    /\ Running
    /\ prod.pc = "add"
    /\ Last(published)
    /\ gaps' = IF Last(gaps).dropped > 0
               THEN Append(gaps, [send |-> 1, dropped |-> 0])
               ELSE [gaps EXCEPT ![Len(gaps)].send = @ + 1]
    /\ prod' = [prod EXCEPT !.pc = "idle"]
    /\ UNCHANGED <<client, data, ack, published, acked, reported>>

AddDropEvent ==
    /\ Running
    /\ prod.pc = "add"
    /\ ~Last(published)
    /\ Last(gaps).send > 0
    /\ gaps' = [gaps EXCEPT ![Len(gaps)].dropped = @ + 1]
    /\ prod' = [prod EXCEPT !.pc = "idle"]
    /\ UNCHANGED <<client, data, ack, published, acked, reported>>

\* Mutant: the batch is cut off from its end.
OnACKReversed(goroutine, total) ==
    IF total > Len(data)
    THEN [goroutine EXCEPT !.pc = "panic"]
    ELSE [goroutine EXCEPT !.pc = "callback", !.batch = Reverse(SubSeq(data, 1, total))]

\* onACK: the goroutine cuts a batch off data; data[:total] panics if it is too
\* short.
OnACK(goroutine, total) ==
    IF total > Len(data)
    THEN [goroutine EXCEPT !.pc = "panic"]
    ELSE [goroutine EXCEPT !.pc = "callback", !.batch = SubSeq(data, 1, total)]

NotReported(total) == SubSeq(data, total + 1, Len(data))

\* Mutant: a drop in front of an empty list waits for the next ACK.
AddDropEmptyWaits ==
    /\ Running
    /\ prod.pc = "add"
    /\ ~Last(published)
    /\ Last(gaps).send = 0
    /\ gaps' = [gaps EXCEPT ![Len(gaps)].dropped = @ + 1]
    /\ prod' = [prod EXCEPT !.pc = "idle"]
    /\ UNCHANGED <<client, data, ack, published, acked, reported>>

\* A drop in front of an empty list is reported at once.  The locks of the list
\* are held until the callback has returned.
AddDropEmpty ==
    /\ Running
    /\ prod.pc = "add"
    /\ ~Last(published)
    /\ Last(gaps).send = 0
    /\ data' = NotReported(1)
    /\ prod' = IF Len(gaps) > 1         \* "gap list expected to be empty"
               THEN [prod EXCEPT !.pc = "panic"]
               ELSE OnACK(prod, 1)
    /\ UNCHANGED <<client, gaps, ack, published, acked, reported>>

DropCallback ==
    /\ Running
    /\ prod.pc = "callback"
    /\ reported' = reported \o prod.batch
    /\ prod' = [pc |-> "idle", batch |-> <<>>]
    /\ UNCHANGED <<client, data, gaps, ack, published, acked>>

\* The published events that the client has handed to the pipeline, which it
\* does when AddEvent has returned.
Sent == Cardinality({i \in DOMAIN published : published[i]})
        - (IF prod.pc = "add" /\ Last(published) THEN 1 ELSE 0)

\* ACKEvents: the wrapped ACKer is read under clientOnlyACKer.mu and used after
\* it.  The pipeline ACKs what it was sent, in one goroutine.
ACKEvents(n) ==
    /\ Running
    /\ client # "closed"
    /\ ack.pc = "idle"
    /\ ~ClientLocked
    /\ n \in 1 .. (Sent - acked)
    /\ acked' = acked + n
    /\ ack' = [NoACK EXCEPT !.pc = "loop", !.n = n]
    /\ UNCHANGED <<client, data, gaps, prod, published, reported>>

\* Mutant: the drops are not reset when the last entry is used again.
AdvancedKeepingDrops(n) ==
    IF n < Head(gaps).send THEN [gaps EXCEPT ![1].send = @ - n]
    ELSE IF Len(gaps) = 1 THEN <<[Head(gaps) EXCEPT !.send = 0]>>
    ELSE Tail(gaps)

\* The list after n ACKs: a head that they use up is taken off it, or reset if
\* it is the only entry.
Advanced(n) ==
    IF n < Head(gaps).send THEN [gaps EXCEPT ![1].send = @ - n]
    ELSE IF Len(gaps) = 1 THEN <<EmptyGap>>
    ELSE Tail(gaps)

\* Mutant: the drops are reported with a part of the events before them.
ConsumedEarly(n) ==
    IF n < Head(gaps).send THEN n + Head(gaps).dropped
                           ELSE Head(gaps).send + Head(gaps).dropped

\* Mutant: the drops behind the ACKed events are not reported.
ConsumedWithoutDrops(n) == IF n < Head(gaps).send THEN n ELSE Head(gaps).send

\* The events that n ACKs complete in the head of the list: its drops too if
\* all of the events before them are ACKed.
Consumed(n) ==
    IF n < Head(gaps).send THEN n ELSE Head(gaps).send + Head(gaps).dropped

\* One pass of the loop in trackingACKer.ACKEvents.
ACKGap ==
    /\ Running
    /\ ack.pc = "loop"
    /\ prod.pc # "callback"         \* gapList.Mutex
    /\ gaps' = Advanced(ack.n)
    /\ LET rest == ack.n - Head(gaps).send
       IN ack' = [pc    |-> IF rest <= 0 THEN "pop"
                            ELSE IF Len(gaps) = 1 THEN "panic"   \* "too many events acked"
                            ELSE "loop",
                  n     |-> IF rest <= 0 THEN 0 ELSE rest,
                  total |-> ack.total + Consumed(ack.n),
                  batch |-> <<>>]
    /\ UNCHANGED <<client, data, prod, published, acked, reported>>

ACKPop ==
    /\ Running
    /\ ack.pc = "pop"
    /\ data' = NotReported(ack.total)
    /\ ack' = OnACK(ack, ack.total)
    /\ UNCHANGED <<client, gaps, prod, published, acked, reported>>

ACKCallback ==
    /\ Running
    /\ ack.pc = "callback"
    /\ reported' = reported \o ack.batch
    /\ ack' = NoACK
    /\ UNCHANGED <<client, data, gaps, prod, published, acked>>

\* Close drops the wrapped ACKer.  Without ConnectionOnly it does nothing.
Close ==
    /\ Running
    /\ client = "open"
    /\ ~ClientLocked
    /\ client' = "closed"
    /\ UNCHANGED <<data, gaps, prod, ack, published, acked, reported>>

ProdStep == AddPublishedEvent \/ AddDropEvent \/ AddDropEmpty \/ DropCallback
ACKStep == ACKGap \/ ACKPop \/ ACKCallback

Next ==
    \/ \E publish \in BOOLEAN : AddEvent(publish)
    \/ \E n \in Events : ACKEvents(n)
    \/ ProdStep \/ ACKStep \/ Close

Spec == Init /\ [][Next]_vars

\* A call that has begun goes on, and the pipeline ACKs what it was sent.
Fairness == /\ WF_vars(ProdStep)
            /\ WF_vars(ACKStep)
            /\ WF_vars(\E n \in Events : ACKEvents(n))

FairSpec == Spec /\ Fairness
-----------------------------------------------------------------------------
\* Neither the list nor the slice expressions of the ACKer panic, however
\* AddEvent and ACKEvents interleave.
NoPanic == Running

\* The events that the entries of a list of gaps stand for.
Counted(list) ==
    LET sum[k \in 0 .. Len(list)] ==
            IF k = 0 THEN 0 ELSE sum[k - 1] + list[k].send + list[k].dropped
    IN sum[Len(list)]

\* What the list counts and what the queue of private fields holds agree: each
\* queued event is in the list, in a total under way, or about to be added.
DataIsTracked ==
    Len(data) = Counted(gaps)
                + ack.total * (IF ack.pc \in {"loop", "pop"} THEN 1 ELSE 0)
                + (IF prod.pc = "add" THEN 1 ELSE 0)

\* An event is complete when it was dropped, or published and ACKed.
Complete(i) ==
    ~published[i] \/ Cardinality({j \in 1 .. i : published[j]}) <= acked

\* No event is reported before it is complete, by whichever goroutine.
NoEarlyReport == \A i \in ToSet(reported \o prod.batch \o ack.batch) : Complete(i)

\* Between the calls of AddEvent and ACKEvents the events reported are, each
\* once, exactly those before the first one that is not complete: the ACK of N
\* events also reports the drops between them and the drops that follow.
CompletePrefix ==
    prod.pc = "idle" /\ ack.pc = "idle" =>
        LET prefix == {i \in DOMAIN published : \A j \in 1 .. i : Complete(j)}
        IN ToSet(reported) = prefix /\ Len(reported) = Cardinality(prefix)

\* Each event is reported in the end if the client is not closed.
AllReported ==
    \A i \in Events :
        i \in DOMAIN published ~> (i \in ToSet(reported) \/ client = "closed")

\* The callback sees the events of a client in their order as long as none of them
\* is dropped.  With a drop it need not: the drop is reported by the publishing
\* goroutine, past a batch that the ACK goroutine has counted and not reported yet.
InOrderWithoutDrops ==
    (\A i \in DOMAIN published : published[i]) =>
        \A i \in 1 .. Len(reported) - 1 : reported[i] < reported[i + 1]
=============================================================================
