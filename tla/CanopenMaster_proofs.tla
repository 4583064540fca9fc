------------------------- MODULE CanopenMaster_proofs -------------------------
(***************************************************************************)
(* Proofs about CanopenMaster, for every set of groups with their           *)
(* descriptors and every capacity and limit: the realtime lane is           *)
(* consistent, what the groups see of it is PdoTransfer, and the SDO writes *)
(* go out as they were accepted.                                            *)
(***************************************************************************)
EXTENDS CanopenMaster, FiniteSetTheorems, TLAPS

-----------------------------------------------------------------------------
(* Groups, plans and batches.                                              *)
One(b) == IF b THEN 1 ELSE 0
Total(g) == Descriptor[g].arm + Descriptor[g].trigger
Frames == [group : Groups, at : Nat]

LEMMA GroupFacts ==
    ASSUME NEW g \in Groups
    PROVE  /\ g \in Nat \ {0}
           /\ Descriptor[g].arm \in Nat \ {0} /\ Descriptor[g].trigger \in Nat
           /\ Descriptor[g].syncAfterArm \in BOOLEAN
           /\ Descriptor[g].syncAfterTrigger \in BOOLEAN
           /\ Descriptor[g].syncAfterTrigger => Descriptor[g].trigger # 0
<1>1. IsFiniteSet(Groups) /\ Groups = 1..Cardinality(Groups)
    BY GroupAssumption
<1>2. Cardinality(Groups) \in Nat
    BY <1>1, FS_CardinalityType
<1>3. g \in Nat \ {0}
    BY <1>1, <1>2
<1>4. Descriptor[g] \in [arm : Nat \ {0}, trigger : Nat,
                         syncAfterArm : BOOLEAN, syncAfterTrigger : BOOLEAN]
    BY GroupAssumption
<1> QED
    BY <1>3, <1>4, GroupAssumption

LEMMA RepeatFacts ==
    ASSUME NEW S, NEW x \in S, NEW n \in Nat
    PROVE  /\ Repeat(x, n) \in Seq(S) /\ Len(Repeat(x, n)) = n
           /\ \A i \in 1..n : Repeat(x, n)[i] = x
BY DEF Repeat

LEMMA ConcatFacts ==
    ASSUME NEW S, NEW p \in Seq(S), NEW q \in Seq(S)
    PROVE  /\ p \o q \in Seq(S) /\ Len(p \o q) = Len(p) + Len(q)
           /\ \A i \in 1..Len(p) : (p \o q)[i] = p[i]
           /\ \A i \in 1..Len(q) : (p \o q)[Len(p) + i] = q[i]
OBVIOUS

LEMMA SequenceIsFunction ==
    ASSUME NEW S, NEW q \in Seq(S)
    PROVE  q = [i \in 1..Len(q) |-> q[i]]
OBVIOUS

LEMMA SingletonFacts ==
    ASSUME NEW S, NEW x \in S
    PROVE  /\ <<x>> \in Seq(S) /\ <<x>> # <<>> /\ Head(<<x>>) = x /\ Tail(<<x>>) = <<>>
           /\ DOMAIN <<x>> = {1} /\ <<x>>[1] = x
OBVIOUS

LEMMA TailFacts ==
    ASSUME NEW S, NEW q \in Seq(S), q # <<>>
    PROVE  Tail(q) = [i \in 1..(Len(q) - 1) |-> q[i + 1]]
<1>1. /\ Tail(q) \in Seq(S) /\ Len(Tail(q)) = Len(q) - 1
      /\ \A i \in 1..(Len(q) - 1) : Tail(q)[i] = q[i + 1]
    OBVIOUS
<1>2. Tail(q) = [i \in 1..Len(Tail(q)) |-> Tail(q)[i]]
    BY <1>1, SequenceIsFunction, Zenon
<1> QED
    BY <1>1, <1>2

(* The places of a plan: arm frames, SYNC, trigger frames, SYNC.            *)
LEMMA PlanFacts ==
    ASSUME NEW g \in Groups
    PROVE  LET d == Descriptor[g]
           IN  /\ Len(Plan[g]) = Total(g) + One(d.syncAfterArm) + One(d.syncAfterTrigger)
               /\ \A i \in 1..d.arm : Plan[g][i] = "arm"
               /\ \A i \in 1..d.trigger :
                    Plan[g][d.arm + One(d.syncAfterArm) + i] = "trigger"
<1> DEFINE d == Descriptor[g]
           a == d.arm
           m == One(d.syncAfterArm)
           t == d.trigger
           n == One(d.syncAfterTrigger)
           S == {"arm", "sync", "trigger"}
           A == Repeat("arm", a)
           M == Repeat("sync", m)
           T == Repeat("trigger", t)
           N == Repeat("sync", n)
<1>1. a \in Nat /\ m \in Nat /\ t \in Nat /\ n \in Nat
    BY GroupFacts DEF One
<1>2. Plan[g] = A \o M \o T \o N
    BY DEF Plan, One
<1>3. "arm" \in S /\ "sync" \in S /\ "trigger" \in S
    OBVIOUS
<1> HIDE DEF a, m, t, n, S
<1>4. A \in Seq(S) /\ Len(A) = a /\ \A i \in 1..a : A[i] = "arm"
    BY <1>1, <1>3, RepeatFacts
<1>5. T \in Seq(S) /\ Len(T) = t /\ \A i \in 1..t : T[i] = "trigger"
    BY <1>1, <1>3, RepeatFacts
<1>6. M \in Seq(S) /\ Len(M) = m /\ N \in Seq(S) /\ Len(N) = n
    BY <1>1, <1>3, RepeatFacts
<1> HIDE DEF A, M, T, N
<1> DEFINE AM == A \o M
           AMT == AM \o T
<1>7. /\ AM \in Seq(S) /\ Len(AM) = a + m
      /\ \A i \in 1..a : AM[i] = "arm"
    BY ZenonT(60), <1>4, <1>6, ConcatFacts
<1> HIDE DEF AM
<1>8. /\ AMT \in Seq(S) /\ Len(AMT) = a + m + t
      /\ \A i \in 1..(a + m) : AMT[i] = AM[i]
      /\ \A i \in 1..t : AMT[a + m + i] = "trigger"
    <2>1. AM \in Seq(S) /\ T \in Seq(S)
        BY <1>5, <1>7
    <2>2. AMT \in Seq(S) /\ Len(AMT) = Len(AM) + Len(T)
        BY <2>1, ConcatFacts
    <2>3. \A i \in 1..Len(AM) : AMT[i] = AM[i]
        BY <2>1, ConcatFacts
    <2>4. \A i \in 1..Len(T) : AMT[Len(AM) + i] = T[i]
        BY <2>1, ConcatFacts
    <2> HIDE DEF AMT
    <2> QED
        BY <1>1, <1>5, <1>7, <2>2, <2>3, <2>4
<1> HIDE DEF AMT
<1>9. /\ Len(AMT \o N) = a + m + t + n
      /\ \A i \in 1..(a + m + t) : (AMT \o N)[i] = AMT[i]
    <2>1. /\ Len(AMT \o N) = Len(AMT) + Len(N)
          /\ \A i \in 1..Len(AMT) : (AMT \o N)[i] = AMT[i]
        BY <1>6, <1>8, ConcatFacts
    <2> QED
        BY <1>1, <1>6, <1>8, <2>1
<1>10. Plan[g] = AMT \o N
    BY <1>2 DEF AMT, AM
<1>11. \A i \in 1..a : Plan[g][i] = "arm"
    BY <1>1, <1>7, <1>8, <1>9, <1>10
<1>12. \A i \in 1..t : Plan[g][a + m + i] = "trigger"
    BY <1>1, <1>8, <1>9, <1>10
<1> QED
    BY SMTT(60), <1>1, <1>9, <1>10, <1>11, <1>12 DEF Total, a, m, t, n

(* The place in the plan of the k-th request of a batch.                    *)
Place(g, k) ==
    IF k <= Descriptor[g].arm THEN k ELSE k + One(Descriptor[g].syncAfterArm)

LEMMA BatchFacts ==
    ASSUME NEW g \in Groups
    PROVE  /\ Total(g) \in Nat \ {0}
           /\ Batch[g] \in Seq(Frames) /\ Len(Batch[g]) = Total(g)
           /\ \A k \in 1..Total(g) :
                /\ Batch[g][k] = Frame(g, Place(g, k)) /\ Batch[g][k] \in Frames
                /\ Batch[g][k].group = g /\ Batch[g][k] # NoFrame
                /\ IsTrigger(Batch[g][k]) <=> k > Descriptor[g].arm
<1> DEFINE arm == Descriptor[g].arm
<1>1. Total(g) \in Nat \ {0} /\ arm \in Nat /\ Descriptor[g].trigger \in Nat
    BY GroupFacts DEF Total
<1>2. One(Descriptor[g].syncAfterArm) \in Nat
    BY DEF One
<1>3. Batch[g] = [i \in 1..Total(g) |-> Frame(g, Place(g, i))]
    BY DEF Batch, Total, Place, One
<1>4. \A i \in 1..Total(g) : Place(g, i) \in Nat
    BY <1>1, <1>2 DEF Place
<1>5. ASSUME NEW k \in 1..Total(g)
      PROVE  (Plan[g][Place(g, k)] = "trigger") <=> k > arm
    <2>1. CASE k <= arm
        BY <1>1, <2>1, PlanFacts DEF Place
    <2>2. CASE k > arm
        <3>1. k - arm \in 1..Descriptor[g].trigger
            BY <1>1, <2>2 DEF Total
        <3>2. Place(g, k) = arm + One(Descriptor[g].syncAfterArm) + (k - arm)
            BY <1>1, <1>2, <2>2 DEF Place
        <3> QED
            BY <2>2, <3>1, <3>2, PlanFacts
    <2> QED
        BY <1>1, <2>1, <2>2
<1>6. ASSUME NEW k \in 1..Total(g)
      PROVE  LET f == Frame(g, Place(g, k))
             IN  /\ f \in Frames /\ f.group = g /\ f.at = Place(g, k) /\ f # NoFrame
                 /\ IsTrigger(f) <=> k > arm
    <2> DEFINE f == Frame(g, Place(g, k))
    <2>1. f.group = g /\ f.at = Place(g, k) /\ f \in Frames
        BY <1>4 DEF Frame, Frames
    <2>2. f # NoFrame /\ g # 0
        BY <2>1, GroupFacts DEF NoFrame
    <2> HIDE DEF f
    <2>3. IsTrigger(f) <=> Plan[g][Place(g, k)] = "trigger"
        BY <2>1, <2>2 DEF IsTrigger
    <2> QED
        BY <1>5, <2>1, <2>2, <2>3 DEF f
<1>7. Batch[g] \in Seq(Frames) /\ Len(Batch[g]) = Total(g)
    BY <1>1, <1>3, <1>6
<1> QED
    BY <1>1, <1>3, <1>6, <1>7

(* What is left of a batch when k of its frames are out.                    *)
Rest(g, k) == [i \in 1..(Total(g) - k) |-> Batch[g][k + i]]

LEMMA RestFacts ==
    ASSUME NEW g \in Groups, NEW k \in 0..Total(g)
    PROVE  /\ Rest(g, k) \in Seq(Frames) /\ Len(Rest(g, k)) = Total(g) - k
           /\ \A i \in DOMAIN Rest(g, k) : Rest(g, k)[i].group = g
           /\ k = 0 => Rest(g, k) = Batch[g]
           /\ k = Total(g) => Rest(g, k) = <<>>
           /\ k < Total(g) => /\ Rest(g, k) # <<>>
                              /\ Head(Rest(g, k)) = Batch[g][k + 1]
                              /\ Tail(Rest(g, k)) = Rest(g, k + 1)
<1>1. Total(g) \in Nat /\ Batch[g] \in Seq(Frames) /\ Len(Batch[g]) = Total(g)
    BY BatchFacts
<1>2. \A i \in 1..(Total(g) - k) : k + i \in 1..Total(g)
    BY <1>1
<1>3. \A i \in 1..(Total(g) - k) : Batch[g][k + i] \in Frames /\ Batch[g][k + i].group = g
    BY <1>2, BatchFacts
<1>4. Total(g) - k \in Nat
    BY <1>1
<1>5. /\ Rest(g, k) \in Seq(Frames) /\ Len(Rest(g, k)) = Total(g) - k
      /\ \A i \in DOMAIN Rest(g, k) : Rest(g, k)[i].group = g
    BY <1>3, <1>4 DEF Rest
<1>6. k = 0 => Rest(g, k) = Batch[g]
    BY <1>1 DEF Rest
<1>7. k = Total(g) => Rest(g, k) = <<>>
    BY <1>1 DEF Rest
<1>8. ASSUME k < Total(g)
      PROVE  /\ Rest(g, k) # <<>>
             /\ Head(Rest(g, k)) = Batch[g][k + 1]
             /\ Tail(Rest(g, k)) = Rest(g, k + 1)
    <2>1. Rest(g, k) # <<>> /\ Head(Rest(g, k)) = Rest(g, k)[1]
        <3>1. Len(Rest(g, k)) > 0
            BY <1>1, <1>5, <1>8
        <3> QED
            BY <1>5, <3>1
    <2>2. Rest(g, k)[1] = Batch[g][k + 1]
        BY <1>1, <1>8 DEF Rest
    <2>3. Tail(Rest(g, k)) = [i \in 1..(Len(Rest(g, k)) - 1) |-> Rest(g, k)[i + 1]]
        BY <1>5, <2>1, TailFacts
    <2>4. \A i \in 1..(Len(Rest(g, k)) - 1) : Rest(g, k)[i + 1] = Batch[g][(k + 1) + i]
        BY <1>1, <1>5, <1>8 DEF Rest
    <2>5. Total(g) - (k + 1) = Len(Rest(g, k)) - 1 /\ Len(Rest(g, k)) = Total(g) - k
        BY <1>1, <1>5
    <2>6. Rest(g, k + 1) = [i \in 1..(Total(g) - (k + 1)) |-> Batch[g][(k + 1) + i]]
        BY DEF Rest
    <2> HIDE DEF Rest
    <2>7. Tail(Rest(g, k)) = [i \in 1..(Len(Rest(g, k)) - 1) |-> Batch[g][(k + 1) + i]]
        BY <2>3, <2>4
    <2>8. Tail(Rest(g, k)) = Rest(g, k + 1)
        BY <2>5, <2>6, <2>7
    <2> QED
        BY <2>1, <2>2, <2>8
<1> QED
    BY <1>5, <1>6, <1>7, <1>8

-----------------------------------------------------------------------------
(* What remains of a queue.                                                *)
LEMMA FilteredNone ==
    ASSUME NEW q
    PROVE  Filtered(q, {}) = <<>>
<1>1. Cardinality({}) = 0
    BY FS_EmptySet
<1> QED
    BY <1>1 DEF Filtered

LEMMA FilteredFirst ==
    ASSUME NEW S, NEW q \in Seq(S), q # <<>>
    PROVE  Filtered(q, {1}) = <<Head(q)>>
<1> DEFINE upto(i) == Cardinality({j \in {1} : j <= i})
           place(n) == CHOOSE i \in {1} : upto(i) = n
<1>1. Cardinality({1}) = 1
    BY FS_Singleton
<1>2. {j \in {1} : j <= 1} = {1}
    OBVIOUS
<1>3. \A n \in 1..1 : place(n) = 1
    <2>1. upto(1) = 1
        BY <1>1, <1>2
    <2> HIDE DEF upto
    <2> QED
        BY <2>1
<1>4. Filtered(q, {1}) = [n \in 1..Cardinality({1}) |-> q[place(n)]]
    BY DEF Filtered
<1> HIDE DEF place
<1>5. q[1] = Head(q)
    OBVIOUS
<1> QED
    BY <1>1, <1>3, <1>4, <1>5

LEMMA FilteredAll ==
    ASSUME NEW S, NEW q \in Seq(S)
    PROVE  Filtered(q, DOMAIN q) = q
<1> DEFINE D == 1..Len(q)
           upto(i) == Cardinality({j \in D : j <= i})
           place(n) == CHOOSE i \in D : upto(i) = n
<1>1. DOMAIN q = D /\ Len(q) \in Nat /\ q = [n \in D |-> q[n]]
    OBVIOUS
<1>2. Cardinality(D) = Len(q)
    BY <1>1, FS_Interval
<1>3. ASSUME NEW i \in D PROVE upto(i) = i
    <2>1. {j \in D : j <= i} = 1..i
        BY <1>1
    <2>2. Cardinality(1..i) = IF 1 > i THEN 0 ELSE i - 1 + 1
        BY <1>1, FS_Interval
    <2>3. upto(i) = Cardinality(1..i)
        BY <2>1
    <2> HIDE DEF upto
    <2> QED
        BY <1>1, <2>2, <2>3
<1>4. Filtered(q, D) = [n \in 1..Cardinality(D) |-> q[place(n)]]
    BY DEF Filtered
<1> HIDE DEF upto
<1>5. \A n \in D : place(n) = n
    BY <1>3
<1> HIDE DEF place
<1> QED
    BY <1>1, <1>2, <1>4, <1>5

-----------------------------------------------------------------------------
(* The fields of the service.  Every operation keeps them, and most keep    *)
(* what was counted of the group.                                          *)
Fields == {"queue", "retries", "tried", "inFlight", "sync", "age", "seen", "group",
           "state", "arms", "triggers", "armSync", "triggerSync", "cancel", "started",
           "history", "slot", "lastFailed", "normal", "busy", "wait"}

Counted(s) == <<s.arms, s.triggers, s.armSync, s.triggerSync, s.cancel>>
Told(s) == <<s.group, s.state, s.history, s.slot, s.lastFailed>>

LEMMA LandedFacts ==
    ASSUME NEW s, DOMAIN s = Fields
    PROVE  /\ DOMAIN Landed(s) = Fields
           /\ Landed(s).inFlight = NoFrame /\ ~Landed(s).sync
           /\ Landed(s).queue = s.queue /\ Landed(s).normal = s.normal
           /\ Counted(Landed(s)) = Counted(s) /\ Told(Landed(s)) = Told(s)
BY DEF Landed, Fields, Counted, Told

(* Where a verdict is recorded.                                            *)
Known(s, g) == {i \in DOMAIN s.history : s.history[i].group = g}
RecordAt(s, g) == IF Known(s, g) # {} THEN CHOOSE i \in Known(s, g) : TRUE ELSE s.slot

Noted(h, at, g, v) == [h EXCEPT ![at] = [group |-> g, result |-> v]]
SlotAfter(s, g) == IF Known(s, g) # {} THEN s.slot ELSE 1 + (s.slot % HistoryCapacity)
WithRecord(s, h, c) == [s EXCEPT !.history = h, !.slot = c]

LEMMA RecordFacts ==
    ASSUME NEW s, DOMAIN s = Fields, NEW g, NEW v
    PROVE  /\ Record(s, g, v) = WithRecord(s, Record(s, g, v).history, Record(s, g, v).slot)
           /\ Record(s, g, v).history = Noted(s.history, RecordAt(s, g), g, v)
           /\ Record(s, g, v).slot = SlotAfter(s, g)
<1> DEFINE h == Noted(s.history, RecordAt(s, g), g, v)
           c == SlotAfter(s, g)
<1>1. Record(s, g, v) = [s EXCEPT !.history = h, !.slot = c]
    BY DEF Record, RecordAt, Known, Fields, Noted, SlotAfter
<1> HIDE DEF h, c
<1>2. Record(s, g, v).history = h /\ Record(s, g, v).slot = c
    BY <1>1 DEF Fields
<1> QED
    BY <1>1, <1>2 DEF h, c, WithRecord

LEMMA RecordDependsOn ==
    ASSUME NEW s, NEW t, DOMAIN s = Fields, DOMAIN t = Fields,
           t.history = s.history, t.slot = s.slot, NEW g, NEW v
    PROVE  /\ Record(t, g, v).history = Record(s, g, v).history
           /\ Record(t, g, v).slot = Record(s, g, v).slot
<1>1. Known(t, g) = Known(s, g)
    BY DEF Known
<1>2. RecordAt(t, g) = RecordAt(s, g) /\ SlotAfter(t, g) = SlotAfter(s, g)
    BY <1>1 DEF RecordAt, SlotAfter
<1>3. /\ Record(s, g, v).history = Noted(s.history, RecordAt(s, g), g, v)
      /\ Record(s, g, v).slot = SlotAfter(s, g)
    BY RecordFacts
<1>4. /\ Record(t, g, v).history = Noted(t.history, RecordAt(t, g), g, v)
      /\ Record(t, g, v).slot = SlotAfter(t, g)
    BY RecordFacts
<1> QED
    BY <1>2, <1>3, <1>4

LEMMA ConcludeFacts ==
    ASSUME NEW s, DOMAIN s = Fields, NEW v
    PROVE  LET x == Conclude(s, v)
           IN  /\ DOMAIN x = Fields
               /\ x.state = v /\ x.group = s.group /\ x.lastFailed = s.lastFailed
               /\ x.queue = s.queue /\ x.inFlight = s.inFlight /\ x.sync = s.sync
               /\ x.normal = s.normal
               /\ x.history = Record(s, s.group, v).history
               /\ x.slot = Record(s, s.group, v).slot
<1> DEFINE e == [Ended(s) EXCEPT !.state = v]
           x == Record(e, s.group, v)
<1>1. /\ DOMAIN e = Fields /\ e.state = v /\ e.group = s.group
      /\ e.lastFailed = s.lastFailed /\ e.queue = s.queue /\ e.inFlight = s.inFlight
      /\ e.sync = s.sync /\ e.normal = s.normal
      /\ e.history = s.history /\ e.slot = s.slot
    BY DEF Ended, Fields
<1> HIDE DEF e
<1>2. /\ x = WithRecord(e, x.history, x.slot)
      /\ x.history = Record(s, s.group, v).history
      /\ x.slot = Record(s, s.group, v).slot
    <2>1. x = WithRecord(e, x.history, x.slot)
        BY <1>1, RecordFacts
    <2>2. x.history = Record(s, s.group, v).history /\ x.slot = Record(s, s.group, v).slot
        BY <1>1, RecordDependsOn
    <2> QED
        BY <2>1, <2>2
<1> HIDE DEF x
<1>3. /\ DOMAIN x = Fields /\ x.state = v /\ x.group = s.group
      /\ x.lastFailed = s.lastFailed /\ x.queue = s.queue /\ x.inFlight = s.inFlight
      /\ x.sync = s.sync /\ x.normal = s.normal
    BY <1>1, <1>2 DEF Fields, WithRecord
<1> QED
    BY <1>2, <1>3 DEF Conclude, x, e

LEMMA DropGroupFacts ==
    ASSUME NEW s, DOMAIN s = Fields, s.queue \in Seq(Frames), NEW g
    PROVE  LET x == DropGroup(s, g)
           IN  /\ DOMAIN x = Fields
               /\ x.inFlight = s.inFlight /\ x.sync = s.sync /\ x.normal = s.normal
               /\ Counted(x) = Counted(s) /\ Told(x) = Told(s)
               /\ (\A i \in DOMAIN s.queue : s.queue[i].group = g) =>
                    x.queue = IF s.queue # <<>> /\ s.inFlight = Head(s.queue)
                              THEN <<Head(s.queue)>> ELSE <<>>
               /\ (\A i \in DOMAIN s.queue : s.queue[i].group # g) => x.queue = s.queue
<1> DEFINE stays == {i \in DOMAIN s.queue : \/ s.queue[i].group # g
                                            \/ i = 1 /\ s.queue[i] = s.inFlight}
           queue == Filtered(s.queue, stays)
           same == queue # <<>> /\ Head(queue) = Head(s.queue)
           x == DropGroup(s, g)
<1>1. x = [s EXCEPT !.queue = queue, !.retries = IF same THEN @ ELSE 0, !.tried = @ /\ same]
    BY DEF DropGroup
<1>2. ASSUME \A i \in DOMAIN s.queue : s.queue[i].group = g,
             s.queue # <<>>, s.inFlight = Head(s.queue)
      PROVE  queue = <<Head(s.queue)>>
    <2>1. stays = {1}
        BY <1>2
    <2> HIDE DEF stays
    <2> QED
        BY <1>2, <2>1, FilteredFirst
<1>3. ASSUME \A i \in DOMAIN s.queue : s.queue[i].group = g,
             ~(s.queue # <<>> /\ s.inFlight = Head(s.queue))
      PROVE  queue = <<>>
    <2>1. stays = {}
        BY <1>3
    <2> HIDE DEF stays
    <2> QED
        BY <2>1, FilteredNone
<1>4. ASSUME \A i \in DOMAIN s.queue : s.queue[i].group # g
      PROVE  queue = s.queue
    <2>1. stays = DOMAIN s.queue
        BY <1>4
    <2> HIDE DEF stays
    <2> QED
        BY <2>1, FilteredAll
<1> HIDE DEF queue
<1>5. x.queue = queue /\ DOMAIN x = Fields
    BY <1>1 DEF Fields
<1>6. /\ x.inFlight = s.inFlight /\ x.sync = s.sync /\ x.normal = s.normal
      /\ Counted(x) = Counted(s) /\ Told(x) = Told(s)
    BY <1>1 DEF Fields, Counted, Told
<1> HIDE DEF x
<1> QED
    BY <1>2, <1>3, <1>4, <1>5, <1>6 DEF x

-----------------------------------------------------------------------------
(* The invariant.  Done frames of the active group are out, the queue holds *)
(* the rest of its batch with the frame in flight at its head, and of a     *)
(* cancelled group nothing but that frame.                                 *)
Done(s) == s.arms + s.triggers

Ahead(s) ==
    LET g == s.group
        d == Descriptor[g]
    IN  /\ s.normal /\ g \in Groups
        /\ s.arms \in 0..d.arm /\ s.triggers \in 0..d.trigger
        /\ s.triggers > 0 => s.arms = d.arm
        /\ ~s.cancel => s.queue = Rest(g, Done(s))
        /\ s.cancel => s.inFlight # NoFrame /\ s.queue = <<s.inFlight>>
        /\ s.inFlight # NoFrame => /\ Done(s) < Total(g)
                                  /\ s.inFlight = Batch[g][Done(s) + 1]
        /\ s.armSync => d.syncAfterArm /\ s.arms = d.arm
        /\ (s.triggers > 0 \/ IsTrigger(s.inFlight)) /\ d.syncAfterArm => s.armSync
        /\ s.triggerSync => /\ d.syncAfterTrigger /\ Done(s) = Total(g)
                            /\ s.inFlight = NoFrame

Empty(s) == s.queue = <<>> /\ s.inFlight = NoFrame

Lane(s) ==
    /\ DOMAIN s = Fields
    /\ ~(s.sync /\ s.inFlight # NoFrame)
    /\ Active(s) => Ahead(s)
    /\ ~Active(s) => Empty(s)

(* What was told: the verdict of every group that ended last is on record,  *)
(* and no group has two.                                                   *)
Slots == 1..HistoryCapacity

History(s, n) ==
    /\ DOMAIN s.history = Slots /\ s.slot \in Slots
    /\ \A i \in Slots : /\ s.history[i].group \in 0..n
                        /\ s.history[i].group # 0 => s.history[i].result \in Transfer!Decided
    /\ \A i, j \in Slots : s.history[i].group = s.history[j].group =>
                              i = j \/ s.history[i].group = 0

Verdicts(s, n) ==
    /\ History(s, n)
    /\ s.group \in 0..n /\ s.lastFailed \in 0..n
    /\ Active(s) => /\ s.lastFailed # s.group
                    /\ \A i \in Slots : s.history[i].group # s.group
    /\ ~Active(s) /\ s.group # 0 =>
            /\ s.state \in Transfer!Decided
            /\ \E i \in Slots : s.history[i].group = s.group /\ s.history[i].result = s.state
    /\ \A i \in Slots : s.history[i].group = s.lastFailed /\ s.lastFailed # 0 =>
                            s.history[i].result \in {"failed", "cancelled"}

(* What the controller was given and what left it.                          *)
Upto(n) == [i \in 1..n |-> i]
GivenBy(s) == Done(s) + One(s.inFlight # NoFrame) + One(s.armSync) + One(s.triggerSync)

Wire(b, n) ==
    /\ DOMAIN b = {"tx", "off", "given", "out"}
    /\ DOMAIN b.given = Groups /\ DOMAIN b.out = Groups
    /\ \A g \in Groups :
        /\ Len(b.given[g]) \in Nat /\ b.given[g] = Upto(Len(b.given[g]))
        /\ Len(b.out[g]) \in Nat /\ b.out[g] = Upto(Len(b.out[g]))
        /\ Len(b.out[g]) <= Len(b.given[g])
        /\ g > n => b.given[g] = <<>>
    /\ b.tx.group # 0 =>
        /\ b.tx.group \in Groups /\ b.tx.at = Len(b.out[b.tx.group]) + 1
        /\ b.tx.at <= Len(b.given[b.tx.group])

Lockstep(s, b) ==
    LET g == s.group
    IN  /\ Len(b.given[g]) = GivenBy(s)
        /\ b.tx.group = g => Awaiting(s) /\ Len(b.given[g]) = Len(b.out[g]) + 1
        /\ b.tx.group # g => Len(b.given[g]) = Len(b.out[g])

Good(s, b, n) ==
    /\ Lane(s) /\ Verdicts(s, n) /\ Wire(b, n)
    /\ Active(s) => Lockstep(s, b)

IInv ==
    /\ DOMAIN requests = {"groups", "writes"} /\ requests.groups \in Nat
    /\ Good(svc, bus, requests.groups)

-----------------------------------------------------------------------------
(* What an operation does to the lane: it goes on with the group, or the    *)
(* group ends with a verdict.                                              *)
Same(s, t) ==
    /\ t.group = s.group /\ t.history = s.history /\ t.slot = s.slot
    /\ t.lastFailed = s.lastFailed
    /\ Active(t) <=> Active(s)
    /\ ~Active(s) => t.state = s.state

GoesOn(s, t) ==
    /\ Lane(t) /\ Same(s, t)
    /\ Active(s) => GivenBy(t) = GivenBy(s)

Ends(s, t, v) ==
    /\ Active(s) /\ DOMAIN t = Fields /\ Empty(t)
    /\ v \in Transfer!Decided /\ t.group = s.group /\ t.state = v
    /\ t.lastFailed = IF v = "failed" THEN s.group ELSE s.lastFailed
    /\ t.history = Record(s, s.group, v).history /\ t.slot = Record(s, s.group, v).slot
    /\ v = "complete" => GivenBy(s) = Len(Plan[s.group])

LEMMA EndsFacts ==
    ASSUME NEW s, NEW t, NEW v, Ends(s, t, v)
    PROVE  Lane(t) /\ ~Active(t)
BY DEF Ends, Lane, Active, Empty, Transfer!Decided

LEMMA ActiveFacts ==
    ASSUME NEW s, Lane(s), Active(s)
    PROVE  /\ s.group \in Groups /\ s.group # 0 /\ s.normal
           /\ s.queue \in Seq(Frames)
           /\ \A i \in DOMAIN s.queue : s.queue[i].group = s.group
           /\ s.inFlight # NoFrame => /\ s.queue # <<>> /\ s.inFlight = Head(s.queue)
                                     /\ s.inFlight.group = s.group
           /\ s.queue # <<>> => Head(s.queue).group = s.group
<1> DEFINE g == s.group
<1>1. Ahead(s) /\ g \in Groups
    BY DEF Lane, Ahead
<1>2. /\ Total(g) \in Nat /\ Done(s) \in 0..Total(g)
    BY <1>1, GroupFacts DEF Ahead, Done, Total
<1>3. ASSUME s.inFlight # NoFrame
      PROVE  s.inFlight \in Frames /\ s.inFlight.group = g
    BY <1>1, <1>2, <1>3, BatchFacts DEF Ahead
<1>4. /\ s.queue \in Seq(Frames)
      /\ \A i \in DOMAIN s.queue : s.queue[i].group = g
      /\ s.inFlight # NoFrame => s.queue # <<>> /\ s.inFlight = Head(s.queue)
    <2>1. CASE s.cancel
        <3>1. s.inFlight # NoFrame /\ s.queue = <<s.inFlight>>
            BY <1>1, <2>1 DEF Ahead
        <3> QED
            BY <1>3, <3>1, SingletonFacts
    <2>2. CASE ~s.cancel
        BY <1>1, <1>2, <2>2, RestFacts DEF Ahead
    <2> QED
        BY <2>1, <2>2
<1>5. s.queue # <<>> => Head(s.queue) = s.queue[1] /\ 1 \in DOMAIN s.queue
    BY <1>4
<1> QED
    BY <1>1, <1>3, <1>4, <1>5, GroupFacts DEF Ahead

LEMMA FailGroupEnds ==
    ASSUME NEW s, Lane(s), Active(s)
    PROVE  /\ Ends(s, FailGroup(s, s.group), "failed") /\ ~FailGroup(s, s.group).sync
           /\ FailGroup(s, s.group).normal
<1> DEFINE g == s.group
           l == Landed(s)
           d == DropGroup(l, g)
           f == [NoteFailure(d, g) EXCEPT !.group = g]
           x == Conclude(f, "failed")
<1>1. DOMAIN s = Fields /\ s.normal
    BY ActiveFacts DEF Lane
<1>2. /\ DOMAIN l = Fields /\ l.inFlight = NoFrame /\ ~l.sync
      /\ l.queue = s.queue /\ l.normal = s.normal /\ Told(l) = Told(s)
    BY <1>1, LandedFacts
<1> HIDE DEF l
<1>3. NoFrame # Head(s.queue) \/ s.queue = <<>>
    BY ActiveFacts DEF NoFrame
<1>4. /\ DOMAIN d = Fields /\ d.inFlight = NoFrame /\ ~d.sync
      /\ d.queue = <<>> /\ d.normal = s.normal /\ Told(d) = Told(s)
    <2>1. l.queue \in Seq(Frames) /\ \A i \in DOMAIN l.queue : l.queue[i].group = g
        BY <1>2, ActiveFacts
    <2>2. Told(d) = Told(l) /\ DOMAIN d = Fields /\ d.inFlight = l.inFlight
          /\ d.sync = l.sync /\ d.normal = l.normal /\ d.queue = <<>>
        <3>1. /\ DOMAIN d = Fields /\ d.inFlight = l.inFlight
              /\ d.sync = l.sync /\ d.normal = l.normal /\ Told(d) = Told(l)
              /\ d.queue = IF l.queue # <<>> /\ l.inFlight = Head(l.queue)
                           THEN <<Head(l.queue)>> ELSE <<>>
            BY <1>2, <2>1, DropGroupFacts, Zenon
        <3> QED
            BY <1>2, <1>3, <3>1
    <2> QED
        BY <1>2, <2>2
<1> HIDE DEF d
<1>5. /\ DOMAIN f = Fields /\ f.inFlight = NoFrame /\ ~f.sync /\ f.queue = <<>>
      /\ f.normal = s.normal /\ f.group = g /\ f.lastFailed = g
      /\ f.history = s.history /\ f.slot = s.slot
    BY <1>4 DEF NoteFailure, Fields, Told
<1> HIDE DEF f
<1>6. /\ DOMAIN x = Fields /\ Empty(x) /\ ~x.sync /\ x.group = g /\ x.state = "failed"
      /\ x.lastFailed = g /\ x.normal
    <2>1. /\ DOMAIN x = Fields /\ x.state = "failed" /\ x.group = f.group
          /\ x.lastFailed = f.lastFailed /\ x.queue = f.queue
          /\ x.inFlight = f.inFlight /\ x.sync = f.sync /\ x.normal = f.normal
        BY <1>5, ConcludeFacts
    <2> QED
        BY <1>1, <1>5, <2>1 DEF Empty
<1>7. /\ x.history = Record(s, g, "failed").history
      /\ x.slot = Record(s, g, "failed").slot
    BY <1>1, <1>5, ConcludeFacts, RecordDependsOn
<1>8. FailGroup(s, g) = x
    BY DEF FailGroup, f, d, l
<1> QED
    BY <1>6, <1>7, <1>8 DEF Ends, Transfer!Decided

(* What was counted, as the invariant speaks of it.                         *)
LEMMA AheadFacts ==
    ASSUME NEW s, Lane(s), Active(s)
    PROVE  LET g == s.group
               d == Descriptor[g]
           IN  /\ Ahead(s) /\ g \in Groups
               /\ d.arm \in Nat \ {0} /\ d.trigger \in Nat /\ Total(g) = d.arm + d.trigger
               /\ s.arms \in 0..d.arm /\ s.triggers \in 0..d.trigger
               /\ Done(s) \in 0..Total(g)
               /\ s.inFlight # NoFrame =>
                    /\ Done(s) + 1 \in 1..Total(g) /\ s.inFlight = Batch[g][Done(s) + 1]
                    /\ IsTrigger(s.inFlight) <=> Done(s) + 1 > d.arm
<1>1. Ahead(s) /\ s.group \in Groups
    BY DEF Lane, Ahead
<1>2. /\ Total(s.group) \in Nat /\ Done(s) \in 0..Total(s.group)
    BY <1>1, GroupFacts DEF Ahead, Done, Total
<1>3. s.inFlight # NoFrame =>
        /\ Done(s) + 1 \in 1..Total(s.group) /\ s.inFlight = Batch[s.group][Done(s) + 1]
    BY <1>1, <1>2 DEF Ahead
<1>4. s.inFlight # NoFrame => (IsTrigger(s.inFlight) <=> Done(s) + 1 > Descriptor[s.group].arm)
    BY <1>1, <1>3, BatchFacts
<1> QED
    BY <1>1, <1>2, <1>3, <1>4, GroupFacts DEF Ahead, Total

LEMMA PlanLength ==
    ASSUME NEW g \in Groups
    PROVE  /\ Len(Plan[g]) = Total(g) + One(Descriptor[g].syncAfterArm)
                                     + One(Descriptor[g].syncAfterTrigger)
           /\ Len(Plan[g]) \in Nat
BY PlanFacts, GroupFacts DEF Total, One

LEMMA FinalizeFacts ==
    ASSUME NEW s, Lane(s)
    PROVE  \/ Finalize(s) = s /\ ~(Active(s) /\ AllFramesDone(s) /\ SyncsDone(s))
           \/ /\ Ends(s, Finalize(s), "complete") /\ ~Awaiting(s)
              /\ Finalize(s).sync = s.sync /\ Finalize(s).normal = s.normal
<1> DEFINE over == Active(s) /\ AllFramesDone(s) /\ SyncsDone(s)
           x == Conclude(s, "complete")
           g == s.group
           d == Descriptor[g]
<1>1. CASE ~over
    BY <1>1 DEF Finalize
<1>2. CASE over
    <2>1. /\ Ahead(s) /\ g \in Groups /\ Done(s) = Total(g) /\ Total(g) \in Nat
          /\ s.inFlight = NoFrame /\ ~s.sync
        BY <1>2, AheadFacts DEF AllFramesDone, SyncsDone, Done, Total
    <2>2. s.queue = <<>>
        <3>1. s.queue = Rest(g, Done(s))
            BY <2>1 DEF Ahead
        <3> QED
            BY <2>1, <3>1, RestFacts
    <2>3. GivenBy(s) = Len(Plan[g])
        <3>1. /\ s.armSync <=> d.syncAfterArm
              /\ s.triggerSync <=> d.syncAfterTrigger
            BY <1>2, <2>1, GroupFacts, AheadFacts DEF SyncsDone, Ahead, Done, Total
        <3> QED
            BY <2>1, <3>1, PlanLength DEF GivenBy, One
    <2>4. /\ DOMAIN x = Fields /\ x.state = "complete" /\ x.group = s.group
          /\ x.lastFailed = s.lastFailed /\ x.queue = s.queue
          /\ x.inFlight = s.inFlight /\ x.sync = s.sync /\ x.normal = s.normal
          /\ x.history = Record(s, s.group, "complete").history
          /\ x.slot = Record(s, s.group, "complete").slot
        BY ConcludeFacts DEF Lane
    <2>5. Finalize(s) = x
        BY <1>2 DEF Finalize
    <2> QED
        BY <1>2, <2>1, <2>2, <2>3, <2>4, <2>5 DEF Ends, Empty, Awaiting, Transfer!Decided
<1> QED
    BY <1>1, <1>2

LEMMA GoesOnToEnd ==
    ASSUME NEW s, NEW t, NEW x, NEW v, Lane(s), GoesOn(s, t), Ends(t, x, v)
    PROVE  Ends(s, x, v)
<1>1. /\ DOMAIN s = Fields /\ DOMAIN t = Fields /\ Same(s, t) /\ Active(s) /\ Active(t)
      /\ GivenBy(t) = GivenBy(s)
    BY DEF GoesOn, Lane, Ends, Same
<1>2. /\ Record(t, t.group, v).history = Record(s, s.group, v).history
      /\ Record(t, t.group, v).slot = Record(s, s.group, v).slot
    BY <1>1, RecordDependsOn DEF Same
<1> QED
    BY <1>1, <1>2 DEF Ends, Same

LEMMA GoesOnTransitive ==
    ASSUME NEW s, NEW t, NEW x, GoesOn(s, t), GoesOn(t, x)
    PROVE  GoesOn(s, x)
BY DEF GoesOn, Same

LEMMA GoesOnItself ==
    ASSUME NEW s, Lane(s)
    PROVE  GoesOn(s, s)
BY DEF GoesOn, Same

(* The frame in flight is out.                                             *)
FrameOut(s) ==
    LET trigger == IsTrigger(s.inFlight)
    IN  [DropHead(Landed(s)) EXCEPT
            !.arms = IF trigger THEN @ ELSE @ + 1,
            !.triggers = IF trigger THEN @ + 1 ELSE @,
            !.started = @ \/ trigger]

LEMMA FrameOutFields ==
    ASSUME NEW s, DOMAIN s = Fields
    PROVE  LET d == FrameOut(s)
               trigger == IsTrigger(s.inFlight)
           IN  /\ DOMAIN d = Fields /\ d.queue = Tail(s.queue)
               /\ d.inFlight = NoFrame /\ ~d.sync /\ d.normal = s.normal
               /\ Told(d) = Told(s) /\ d.cancel = s.cancel
               /\ d.armSync = s.armSync /\ d.triggerSync = s.triggerSync
               /\ d.arms = IF trigger THEN s.arms ELSE s.arms + 1
               /\ d.triggers = IF trigger THEN s.triggers + 1 ELSE s.triggers
<1> DEFINE l == Landed(s)
           h == DropHead(l)
           d == FrameOut(s)
           trigger == IsTrigger(s.inFlight)
<1>1. /\ DOMAIN l = Fields /\ l.inFlight = NoFrame /\ ~l.sync
      /\ l.queue = s.queue /\ l.normal = s.normal
      /\ Counted(l) = Counted(s) /\ Told(l) = Told(s)
    BY LandedFacts
<1> HIDE DEF l
<1>2. /\ DOMAIN h = Fields /\ h.inFlight = NoFrame /\ ~h.sync
      /\ h.queue = Tail(s.queue) /\ h.normal = s.normal
      /\ Counted(h) = Counted(s) /\ Told(h) = Told(s)
    BY <1>1 DEF DropHead, Fields, Counted, Told
<1>3. d = [h EXCEPT !.arms = IF trigger THEN @ ELSE @ + 1,
                    !.triggers = IF trigger THEN @ + 1 ELSE @,
                    !.started = @ \/ trigger]
    BY DEF FrameOut, l
<1> HIDE DEF h, d, trigger
<1>4. /\ DOMAIN d = Fields /\ d.inFlight = h.inFlight /\ d.sync = h.sync
      /\ d.queue = h.queue /\ d.normal = h.normal /\ Told(d) = Told(h)
      /\ d.cancel = h.cancel /\ d.armSync = h.armSync /\ d.triggerSync = h.triggerSync
      /\ d.arms = IF trigger THEN h.arms ELSE h.arms + 1
      /\ d.triggers = IF trigger THEN h.triggers + 1 ELSE h.triggers
    BY <1>2, <1>3 DEF Fields, Told
<1> QED
    BY <1>2, <1>4 DEF Counted, d, trigger

LEMMA CompletePdoFacts ==
    ASSUME NEW s, Lane(s), s.inFlight # NoFrame
    PROVE  /\ ~Awaiting(CompletePdo(s))
           /\ \/ GoesOn(s, CompletePdo(s))
              \/ \E v \in Transfer!Decided : Ends(s, CompletePdo(s), v)
<1> DEFINE g == s.group
           desc == Descriptor[g]
           d == FrameOut(s)
           trigger == IsTrigger(s.inFlight)
           x == CompletePdo(s)
<1>1. DOMAIN s = Fields /\ Active(s)
    BY DEF Lane, Empty
<1>2. /\ Ahead(s) /\ g \in Groups
      /\ desc.arm \in Nat \ {0} /\ desc.trigger \in Nat
      /\ Total(g) = desc.arm + desc.trigger
      /\ s.arms \in 0..desc.arm /\ s.triggers \in 0..desc.trigger
      /\ Done(s) + 1 \in 1..Total(g) /\ s.inFlight = Batch[g][Done(s) + 1]
      /\ trigger <=> Done(s) + 1 > desc.arm
    BY <1>1, AheadFacts
<1>3. /\ DOMAIN d = Fields /\ d.queue = Tail(s.queue)
      /\ d.inFlight = NoFrame /\ ~d.sync /\ d.normal = s.normal
      /\ Told(d) = Told(s) /\ d.cancel = s.cancel
      /\ d.armSync = s.armSync /\ d.triggerSync = s.triggerSync
      /\ d.arms = IF trigger THEN s.arms ELSE s.arms + 1
      /\ d.triggers = IF trigger THEN s.triggers + 1 ELSE s.triggers
    BY <1>1, FrameOutFields
<1>4. x = CASE ~d.cancel -> Finalize(d)
            [] d.cancel /\ d.started -> Conclude(NoteFailure(d, d.group), "failed")
            [] OTHER -> Conclude(d, "cancelled")
    BY DEF CompletePdo, FrameOut
<1> HIDE DEF d, trigger, x
<1> SUFFICES /\ ~Awaiting(x)
             /\ GoesOn(s, x) \/ \E v \in Transfer!Decided : Ends(s, x, v)
    BY DEF x
<1>5. d.group = g /\ Active(d)
    BY <1>1, <1>3 DEF Told, Active
<1>6. CASE ~s.cancel
    <2>1. Done(d) = Done(s) + 1 /\ Done(s) \in Nat
        BY <1>2, <1>3 DEF Done
    <2>2. d.queue = Rest(g, Done(d))
        <3>1. s.queue = Rest(g, Done(s)) /\ Done(s) \in 0..Total(g) /\ Done(s) < Total(g)
            BY <1>2, <1>6, <2>1 DEF Ahead
        <3>2. Tail(Rest(g, Done(s))) = Rest(g, Done(s) + 1)
            BY <1>2, <3>1, RestFacts
        <3> QED
            BY <1>3, <2>1, <3>1, <3>2
    <2>3. /\ d.arms \in 0..desc.arm /\ d.triggers \in 0..desc.trigger
          /\ d.triggers > 0 => d.arms = desc.arm
        BY <1>2, <1>3 DEF Ahead, Done
    <2>4. /\ d.armSync => desc.syncAfterArm /\ d.arms = desc.arm
          /\ d.triggers > 0 /\ desc.syncAfterArm => d.armSync
          /\ ~d.triggerSync
        BY <1>2, <1>3, <2>3 DEF Ahead, trigger, Done
    <2>5. ~IsTrigger(NoFrame)
        BY DEF IsTrigger, NoFrame
    <2>6. Ahead(d)
        BY <1>2, <1>3, <1>5, <1>6, <2>1, <2>2, <2>3, <2>4, <2>5 DEF Ahead
    <2>7. GoesOn(s, d) /\ ~Awaiting(d)
        <3>1. GivenBy(d) = GivenBy(s)
            BY <1>2, <1>3, <2>1, <2>4 DEF GivenBy, One, Ahead
        <3> QED
            BY <1>1, <1>3, <1>5, <2>6, <3>1 DEF GoesOn, Lane, Same, Told, Awaiting
    <2>8. x = Finalize(d)
        BY <1>3, <1>4, <1>6
    <2>9. Lane(d)
        BY <2>7 DEF GoesOn
    <2>10. CASE Finalize(d) = d
        BY <2>7, <2>8, <2>10
    <2>11. CASE Ends(d, Finalize(d), "complete") /\ Finalize(d).sync = d.sync
        <3>1. Ends(s, x, "complete")
            BY <2>7, <2>8, <2>11, GoesOnToEnd
        <3>2. ~Awaiting(x)
            BY <1>3, <2>8, <2>11 DEF Awaiting, Ends, Empty
        <3> QED
            BY <3>1, <3>2 DEF Transfer!Decided
    <2> QED
        BY <2>9, <2>10, <2>11, FinalizeFacts
<1>7. CASE s.cancel
    <2>1. d.queue = <<>>
        <3>1. s.queue = <<s.inFlight>>
            BY <1>2, <1>7 DEF Ahead
        <3> QED
            BY <1>3, <3>1, SingletonFacts
    <2>2. CASE d.started
        <3> DEFINE e == NoteFailure(d, d.group)
        <3>1. /\ DOMAIN e = Fields /\ e.queue = <<>> /\ e.inFlight = NoFrame /\ ~e.sync
              /\ e.group = g /\ e.lastFailed = g
              /\ e.history = s.history /\ e.slot = s.slot
            BY <1>3, <1>5, <2>1 DEF NoteFailure, Fields, Told
        <3>2. x = Conclude(e, "failed")
            BY <1>3, <1>4, <1>7, <2>2
        <3> HIDE DEF e
        <3>3. /\ DOMAIN x = Fields /\ x.state = "failed" /\ x.group = g
              /\ x.lastFailed = g /\ x.queue = <<>> /\ x.inFlight = NoFrame /\ ~x.sync
              /\ x.history = Record(e, e.group, "failed").history
              /\ x.slot = Record(e, e.group, "failed").slot
            BY <3>1, <3>2, ConcludeFacts
        <3>4. /\ x.history = Record(s, g, "failed").history
              /\ x.slot = Record(s, g, "failed").slot
            BY <1>1, <3>1, <3>3, RecordDependsOn
        <3> QED
            BY <1>1, <3>3, <3>4 DEF Ends, Empty, Awaiting, Transfer!Decided
    <2>3. CASE ~d.started
        <3>1. x = Conclude(d, "cancelled")
            BY <1>3, <1>4, <1>7, <2>3
        <3>2. /\ DOMAIN x = Fields /\ x.state = "cancelled" /\ x.group = g
              /\ x.lastFailed = s.lastFailed /\ x.queue = <<>> /\ x.inFlight = NoFrame
              /\ ~x.sync
              /\ x.history = Record(d, d.group, "cancelled").history
              /\ x.slot = Record(d, d.group, "cancelled").slot
            BY <1>3, <1>5, <2>1, <3>1, ConcludeFacts DEF Told
        <3>3. /\ x.history = Record(s, g, "cancelled").history
              /\ x.slot = Record(s, g, "cancelled").slot
            BY <1>1, <1>3, <1>5, <3>2, RecordDependsOn DEF Told
        <3> QED
            BY <1>1, <3>2, <3>3 DEF Ends, Empty, Awaiting, Transfer!Decided
    <2> QED
        BY <2>2, <2>3
<1> QED
    BY <1>6, <1>7

-----------------------------------------------------------------------------
(* What a part of a call does to the lane over a controller b: it goes on   *)
(* or ends the group, or it gives the controller the next place of the      *)
(* plan.  A wait ends only with an empty buffer.                            *)
Outcome(s, b, t) ==
    \/ /\ GoesOn(s, t)
       /\ Active(s) /\ Awaiting(s) => Awaiting(t) \/ b.tx = NoFrame
    \/ \E v \in Transfer!Decided :
        /\ Ends(s, t, v)
        /\ v = "complete" => ~Awaiting(s) \/ b.tx = NoFrame

GivesNext(s, b, t) ==
    /\ Active(s) /\ (~Awaiting(s) \/ b.tx = NoFrame)
    /\ Lane(t) /\ Same(s, t) /\ Awaiting(t)
    /\ GivenBy(s) \in Nat /\ GivenBy(t) = GivenBy(s) + 1
    /\ GivenBy(s) < Len(Plan[s.group])

Effect(s, b, t, c) ==
    \/ c = b /\ Outcome(s, b, t)
    \/ \E r \in Results(b) :
        /\ Sent(r) /\ GivesNext(s, b, t)
        /\ c = Give(b, Frame(s.group, GivenBy(s) + 1), r)

LEMMA EndedGoesOn ==
    ASSUME NEW s, NEW t, NEW u, NEW v, Ends(s, t, v), GoesOn(t, u)
    PROVE  Ends(s, u, v)
BY DEF Ends, GoesOn, Same, Lane, Active, Transfer!Decided

LEMMA OutcomeThenOutcome ==
    ASSUME NEW s, NEW b, NEW t, NEW u, Lane(s), Outcome(s, b, t), Outcome(t, b, u)
    PROVE  Outcome(s, b, u)
<1>1. CASE /\ GoesOn(s, t)
           /\ Active(s) /\ Awaiting(s) => Awaiting(t) \/ b.tx = NoFrame
    <2>1. CASE /\ GoesOn(t, u)
               /\ Active(t) /\ Awaiting(t) => Awaiting(u) \/ b.tx = NoFrame
        <3>1. Active(t) <=> Active(s)
            BY <1>1 DEF GoesOn, Same
        <3> QED
            BY <1>1, <2>1, <3>1, GoesOnTransitive DEF Outcome
    <2>2. ASSUME NEW v \in Transfer!Decided, Ends(t, u, v),
                 v = "complete" => ~Awaiting(t) \/ b.tx = NoFrame
          PROVE  Outcome(s, b, u)
        <3>1. Active(s) /\ Ends(s, u, v)
            BY <1>1, <2>2, GoesOnToEnd DEF Ends
        <3> QED
            BY <1>1, <2>2, <3>1 DEF Outcome
    <2> QED
        BY <2>1, <2>2 DEF Outcome
<1>2. ASSUME NEW v \in Transfer!Decided, Ends(s, t, v),
             v = "complete" => ~Awaiting(s) \/ b.tx = NoFrame
      PROVE  Outcome(s, b, u)
    <2>1. ~Active(t)
        BY <1>2, EndsFacts
    <2>2. GoesOn(t, u)
        BY <2>1 DEF Outcome, Ends
    <2> QED
        BY <1>2, <2>2, EndedGoesOn DEF Outcome
<1> QED
    BY <1>1, <1>2 DEF Outcome

LEMMA OutcomeThenEffect ==
    ASSUME NEW s, NEW b, NEW t, NEW u, NEW c, Lane(s), Outcome(s, b, t), Effect(t, b, u, c)
    PROVE  Effect(s, b, u, c)
<1>1. CASE c = b /\ Outcome(t, b, u)
    BY <1>1, OutcomeThenOutcome DEF Effect
<1>2. ASSUME NEW r \in Results(b), Sent(r), GivesNext(t, b, u),
             c = Give(b, Frame(t.group, GivenBy(t) + 1), r)
      PROVE  Effect(s, b, u, c)
    <2>1. Active(t)
        BY <1>2 DEF GivesNext
    <2>2. GoesOn(s, t) /\ (Active(s) /\ Awaiting(s) => Awaiting(t) \/ b.tx = NoFrame)
        BY <2>1, EndsFacts DEF Outcome
    <2>3. t.group = s.group /\ GivenBy(t) = GivenBy(s)
        BY <2>1, <2>2 DEF GoesOn, Same
    <2>4. GivesNext(s, b, u)
        BY <1>2, <2>2, <2>3 DEF GivesNext, GoesOn, Same
    <2> QED
        BY <1>2, <2>3, <2>4 DEF Effect
<1> QED
    BY <1>1, <1>2 DEF Effect

LEMMA OutcomeLane ==
    ASSUME NEW s, NEW b, NEW t, Outcome(s, b, t)
    PROVE  Lane(t)
BY EndsFacts DEF Outcome, GoesOn

LEMMA OutcomeItself ==
    ASSUME NEW s, NEW b, Lane(s)
    PROVE  Outcome(s, b, s) /\ Effect(s, b, s, b)
BY GoesOnItself DEF Outcome, Effect

LEMMA FinalizeOutcome ==
    ASSUME NEW s, NEW b, Lane(s)
    PROVE  Outcome(s, b, Finalize(s))
<1>1. CASE Finalize(s) = s
    BY <1>1, OutcomeItself
<1>2. CASE Ends(s, Finalize(s), "complete") /\ ~Awaiting(s)
    BY <1>2 DEF Outcome, Transfer!Decided
<1> QED
    BY <1>1, <1>2, FinalizeFacts

LEMMA LandedGoesOn ==
    ASSUME NEW s, Lane(s), s.inFlight = NoFrame
    PROVE  GoesOn(s, Landed(s)) /\ ~Awaiting(Landed(s))
<1> DEFINE x == Landed(s)
<1>1. /\ DOMAIN s = Fields /\ DOMAIN x = Fields
      /\ x.inFlight = NoFrame /\ ~x.sync
      /\ x.queue = s.queue /\ x.normal = s.normal
      /\ Counted(x) = Counted(s) /\ Told(x) = Told(s)
    BY LandedFacts DEF Lane
<1> HIDE DEF x
<1>2. /\ Active(x) <=> Active(s)
      /\ Same(s, x) /\ ~Awaiting(x)
    BY <1>1 DEF Active, Told, Same, Awaiting
<1>3. Active(s) => Ahead(x)
    BY <1>1 DEF Ahead, Done, Lane, Counted, Told
<1>4. ~Active(s) => Empty(x)
    BY <1>1 DEF Lane, Empty
<1>5. GivenBy(x) = GivenBy(s)
    BY <1>1 DEF GivenBy, Done, Counted
<1> QED
    BY <1>1, <1>2, <1>3, <1>4, <1>5 DEF GoesOn, Lane, x

LEMMA ReapOutcome ==
    ASSUME NEW s, NEW b, Lane(s)
    PROVE  Outcome(s, b, Reap(s, b))
<1>1. CASE b.tx = NoFrame /\ s.seen /\ s.sync
    <2>1. Reap(s, b) = Landed(s)
        BY <1>1 DEF Reap
    <2>2. s.inFlight = NoFrame
        BY <1>1 DEF Lane
    <2> QED
        BY <1>1, <2>1, <2>2, LandedGoesOn DEF Outcome
<1>2. CASE b.tx = NoFrame /\ s.seen /\ ~s.sync /\ s.inFlight # NoFrame
    <2>1. Reap(s, b) = CompletePdo(s)
        BY <1>2 DEF Reap
    <2> QED
        BY <1>2, <2>1, CompletePdoFacts DEF Outcome
<1>3. CASE Reap(s, b) = s
    BY <1>3, OutcomeItself
<1> QED
    BY <1>1, <1>2, <1>3 DEF Reap

LEMMA FailOutcome ==
    ASSUME NEW s, NEW b, Lane(s), Active(s)
    PROVE  Outcome(s, b, FailGroup(s, s.group)) /\ Outcome(s, b, FailWithoutRequest(s))
BY FailGroupEnds DEF Outcome, FailWithoutRequest, Transfer!Decided

(* A SYNC that is due is the next place of the plan.                        *)
LEMMA SyncDueFacts ==
    ASSUME NEW s, Lane(s), ArmSyncDue(s) \/ TriggerSyncDue(s)
    PROVE  LET at == IF ArmSyncDue(s) THEN Descriptor[s.group].arm + 1 ELSE Len(Plan[s.group])
           IN  /\ Active(s) /\ ~Awaiting(s) /\ ~s.cancel
               /\ GivenBy(s) \in Nat /\ at = GivenBy(s) + 1
               /\ GivenBy(s) < Len(Plan[s.group])
               /\ ArmSyncDue(s) => /\ ~s.armSync /\ s.arms = Descriptor[s.group].arm
                                   /\ Descriptor[s.group].syncAfterArm
               /\ ~ArmSyncDue(s) => /\ ~s.triggerSync /\ Done(s) = Total(s.group)
                                    /\ Descriptor[s.group].syncAfterTrigger
<1> DEFINE g == s.group
           d == Descriptor[g]
<1>1. /\ Active(s) /\ s.inFlight = NoFrame /\ ~s.sync
    BY DEF ArmSyncDue, TriggerSyncDue, AllFramesDone
<1>2. /\ Ahead(s) /\ g \in Groups
      /\ d.arm \in Nat \ {0} /\ d.trigger \in Nat /\ Total(g) = d.arm + d.trigger
      /\ s.arms \in 0..d.arm /\ s.triggers \in 0..d.trigger
    BY <1>1, AheadFacts
<1>3. /\ Len(Plan[g]) = Total(g) + One(d.syncAfterArm) + One(d.syncAfterTrigger)
      /\ d.syncAfterArm \in BOOLEAN /\ d.syncAfterTrigger \in BOOLEAN
      /\ d.syncAfterTrigger => d.trigger # 0
    BY <1>2, PlanLength, GroupFacts
<1>4. ~Awaiting(s) /\ ~s.cancel
    BY <1>1, <1>2 DEF Awaiting, Ahead
<1>5. CASE ArmSyncDue(s)
    <2>1. d.syncAfterArm /\ ~s.armSync /\ s.arms = d.arm
        BY <1>2, <1>5 DEF ArmSyncDue
    <2>2. s.triggers = 0
        BY <1>2, <2>1 DEF Ahead
    <2>3. ~s.triggerSync
        BY <1>2, <1>3, <2>1, <2>2 DEF Ahead, Done
    <2>4. GivenBy(s) = d.arm
        BY <1>1, <1>2, <2>1, <2>2, <2>3 DEF GivenBy, One, Done
    <2>5. Len(Plan[g]) > d.arm
        BY <1>2, <1>3, <2>1 DEF One
    <2> QED
        BY <1>1, <1>2, <1>4, <1>5, <2>1, <2>4, <2>5
<1>6. CASE ~ArmSyncDue(s)
    <2>1. d.syncAfterTrigger /\ ~s.triggerSync /\ Done(s) = Total(g)
        BY <1>2, <1>6 DEF TriggerSyncDue, AllFramesDone, Done, Total
    <2>2. s.arms = d.arm
        BY <1>2, <2>1 DEF Done
    <2>3. s.armSync <=> d.syncAfterArm
        BY <1>1, <1>2, <1>6, <2>2 DEF ArmSyncDue, Ahead
    <2>4. GivenBy(s) = Total(g) + One(d.syncAfterArm)
        BY <1>1, <1>2, <2>1, <2>3 DEF GivenBy, One
    <2>5. Len(Plan[g]) = GivenBy(s) + 1 /\ GivenBy(s) \in Nat
        BY <1>2, <1>3, <2>1, <2>4 DEF One
    <2> QED
        BY <1>1, <1>4, <1>6, <2>1, <2>5
<1> QED
    BY <1>5, <1>6

LEMMA StartSyncEffect ==
    ASSUME NEW s, NEW b, NEW r \in Results(b), Lane(s)
    PROVE  LET x == StartSync(s, b, r)
           IN  /\ Effect(s, b, x.s, x.b)
               /\ ~x.sent => x.b = b /\ Outcome(s, b, x.s)
<1> DEFINE arm == ArmSyncDue(s)
           at == IF arm THEN Descriptor[s.group].arm + 1 ELSE Len(Plan[s.group])
           x == StartSync(s, b, r)
           t == [s EXCEPT !.sync = TRUE, !.age = 0, !.seen = r = "late",
                          !.armSync = @ \/ arm, !.triggerSync = @ \/ ~arm]
<1>1. CASE ~arm /\ ~TriggerSyncDue(s)
    <2>1. x.s = s /\ x.b = b
        BY <1>1 DEF StartSync
    <2> QED
        BY <2>1, OutcomeItself
<1>2. CASE (arm \/ TriggerSyncDue(s)) /\ Sent(r)
    <2> DEFINE g == s.group
    <2>1. x.s = t /\ x.b = Give(b, Frame(g, at), r) /\ x.sent
        <3> DEFINE given == [s |-> t, b |-> Give(b, Frame(g, at), r), sent |-> TRUE]
        <3>1. x = CASE ~arm /\ ~TriggerSyncDue(s) -> [s |-> s, b |-> b, sent |-> FALSE]
                    [] (arm \/ TriggerSyncDue(s)) /\ Sent(r) -> given
                    [] (arm \/ TriggerSyncDue(s)) /\ r = "busy" ->
                           [s |-> s, b |-> b, sent |-> FALSE]
                    [] OTHER -> [s |-> FailWithoutRequest(s), b |-> b, sent |-> FALSE]
            BY DEF StartSync
        <3> HIDE DEF given, arm, x
        <3>2. x = given
            BY <1>2, <3>1 DEF Sent
        <3> QED
            BY <3>2 DEF given
    <2>2. /\ Active(s) /\ ~Awaiting(s) /\ ~s.cancel
          /\ GivenBy(s) \in Nat /\ at = GivenBy(s) + 1 /\ GivenBy(s) < Len(Plan[g])
          /\ arm => /\ ~s.armSync /\ s.arms = Descriptor[g].arm
                    /\ Descriptor[g].syncAfterArm
          /\ ~arm => /\ ~s.triggerSync /\ Done(s) = Total(g)
                     /\ Descriptor[g].syncAfterTrigger
        BY <1>2, SyncDueFacts
    <2> HIDE DEF at, arm
    <2>3. /\ DOMAIN t = Fields /\ t.sync /\ t.inFlight = s.inFlight /\ t.queue = s.queue
          /\ t.normal = s.normal /\ Told(t) = Told(s)
          /\ t.arms = s.arms /\ t.triggers = s.triggers /\ t.cancel = s.cancel
          /\ t.armSync <=> s.armSync \/ arm
          /\ t.triggerSync <=> s.triggerSync \/ ~arm
        BY DEF Lane, Fields, Told
    <2> HIDE DEF t
    <2>4. Active(t) /\ Same(s, t) /\ Awaiting(t) /\ t.inFlight = NoFrame
        BY <2>2, <2>3 DEF Active, Told, Same, Awaiting
    <2>5. Ahead(s)
        BY <2>2, AheadFacts
    <2>6. Ahead(t)
        BY <2>2, <2>3, <2>4, <2>5 DEF Ahead, Done, Told
    <2>7. GivenBy(t) = GivenBy(s) + 1
        <3>1. Done(s) \in Nat /\ Done(t) = Done(s)
            BY <2>2, <2>3, AheadFacts DEF Done
        <3>2. CASE arm
            BY <2>2, <2>3, <3>1, <3>2 DEF GivenBy, One
        <3>3. CASE ~arm
            BY <2>2, <2>3, <3>1, <3>3 DEF GivenBy, One
        <3> QED
            BY <3>2, <3>3
    <2>8. GivesNext(s, b, t)
        BY <2>2, <2>3, <2>4, <2>6, <2>7 DEF GivesNext, Lane
    <2>9. Effect(s, b, t, Give(b, Frame(g, GivenBy(s) + 1), r))
        BY <1>2, <2>8 DEF Effect
    <2> QED
        BY <2>1, <2>2, <2>9
<1>3. CASE (arm \/ TriggerSyncDue(s)) /\ ~Sent(r)
    <2>1. Active(s)
        BY <1>3, SyncDueFacts
    <2>2. x.b = b /\ ~x.sent /\ x.s \in {s, FailWithoutRequest(s)}
        BY <1>3 DEF StartSync, Sent
    <2>3. Outcome(s, b, x.s)
        BY <2>1, <2>2, OutcomeItself, FailOutcome
    <2> QED
        BY <2>2, <2>3 DEF Effect
<1> QED
    BY <1>1, <1>2, <1>3

(* The head of the queue is the next place of the plan.                     *)
LEMMA SubmittedEffect ==
    ASSUME NEW s, NEW b, NEW r \in Results(b), Sent(r), Lane(s),
           MayStart(s), ~TooEarly(s)
    PROVE  Effect(s, b, Submitted(s, r), Give(b, Head(s.queue), r))
<1> DEFINE g == s.group
           d == Descriptor[g]
           f == Head(s.queue)
           k == Done(s) + 1
           t == Submitted(s, r)
<1>1. /\ Active(s) /\ s.inFlight = NoFrame /\ ~s.sync /\ s.queue # <<>>
    BY DEF MayStart, Lane, Empty
<1>2. /\ Ahead(s) /\ g \in Groups
      /\ d.arm \in Nat \ {0} /\ d.trigger \in Nat /\ Total(g) = d.arm + d.trigger
      /\ s.arms \in 0..d.arm /\ s.triggers \in 0..d.trigger
      /\ Done(s) \in 0..Total(g)
    BY <1>1, AheadFacts
<1>3. ~s.cancel /\ s.queue = Rest(g, Done(s))
    BY <1>1, <1>2 DEF Ahead
<1>4. Done(s) < Total(g) /\ f = Batch[g][k]
    BY SMTT(60), <1>1, <1>2, <1>3, RestFacts
<1>5. /\ k \in 1..Total(g) /\ f = Frame(g, Place(g, k)) /\ f # NoFrame /\ f.group = g
      /\ IsTrigger(f) <=> k > d.arm
    BY <1>2, <1>4, BatchFacts
<1>6. /\ ~s.triggerSync
      /\ k <= d.arm => ~s.armSync
      /\ k > d.arm => (s.armSync <=> d.syncAfterArm)
    BY <1>2, <1>4, <1>5 DEF Ahead, Done, TooEarly
<1>7. GivenBy(s) \in Nat /\ Place(g, k) = GivenBy(s) + 1
    BY <1>1, <1>2, <1>6 DEF GivenBy, Place, One
<1>8. GivenBy(s) < Len(Plan[g])
    BY <1>1, <1>2, <1>4, <1>6, PlanLength DEF GivenBy, One
<1>9. /\ DOMAIN t = Fields /\ t.inFlight = f /\ t.sync = s.sync /\ t.queue = s.queue
      /\ t.normal = s.normal /\ Counted(t) = Counted(s)
      /\ t.group = g /\ t.history = s.history /\ t.slot = s.slot
      /\ t.lastFailed = s.lastFailed
    BY DEF Submitted, Lane, Fields, Counted
<1>10. t.state \in {"arm", "trigger"}
    BY DEF Submitted, Lane, Fields
<1> HIDE DEF t, f
<1>11. Active(t) /\ Same(s, t) /\ Awaiting(t)
    BY <1>1, <1>5, <1>9, <1>10 DEF Active, Same, Awaiting
<1>12. /\ t.arms = s.arms /\ t.triggers = s.triggers /\ t.cancel = s.cancel
       /\ t.armSync = s.armSync /\ t.triggerSync = s.triggerSync /\ Done(t) = Done(s)
    BY <1>9 DEF Counted, Done
<1>13. Ahead(t)
    BY <1>2, <1>3, <1>4, <1>5, <1>6, <1>9, <1>12 DEF Ahead, Done
<1>14. GivenBy(t) = GivenBy(s) + 1
    BY <1>1, <1>2, <1>5, <1>9, <1>12 DEF GivenBy, One
<1>15. GivesNext(s, b, t)
    BY <1>1, <1>7, <1>8, <1>9, <1>11, <1>13, <1>14 DEF GivesNext, Lane, Awaiting
<1>16. f = Frame(g, GivenBy(s) + 1)
    BY <1>5, <1>7
<1> QED
    BY <1>15, <1>16 DEF Effect, t, f

LEMMA RefusedOutcome ==
    ASSUME NEW s, NEW b, NEW r, Lane(s), MayStart(s)
    PROVE  Outcome(s, b, Refused(s, r))
<1> DEFINE t == [s EXCEPT !.tried = TRUE, !.retries = IF r = "error" THEN @ + 1 ELSE @]
<1>1. Active(s) /\ Head(s.queue).group = s.group
    BY ActiveFacts DEF MayStart, Lane, Empty
<1>2. /\ DOMAIN t = Fields /\ t.inFlight = s.inFlight /\ t.sync = s.sync
      /\ t.queue = s.queue /\ t.normal = s.normal
      /\ Counted(t) = Counted(s) /\ Told(t) = Told(s)
    BY DEF Lane, Fields, Counted, Told
<1>3. Refused(s, r) = IF r = "error" /\ t.retries >= MaxRetries
                      THEN FailGroup(t, Head(s.queue).group) ELSE t
    BY DEF Refused
<1> HIDE DEF t
<1>4. Active(t) /\ Same(s, t) /\ (Awaiting(t) <=> Awaiting(s))
    BY <1>1, <1>2 DEF Active, Same, Told, Awaiting
<1>5. Ahead(t) /\ GivenBy(t) = GivenBy(s)
    BY <1>1, <1>2 DEF Lane, Ahead, Counted, Told, Done, GivenBy
<1>6. GoesOn(s, t)
    BY <1>2, <1>4, <1>5 DEF GoesOn, Lane
<1>7. Outcome(s, b, t) /\ Lane(t) /\ t.group = s.group
    BY <1>4, <1>6 DEF Outcome, GoesOn, Same
<1>8. Outcome(t, b, FailGroup(t, t.group))
    BY <1>4, <1>7, FailOutcome
<1> QED
    BY <1>1, <1>3, <1>7, <1>8, OutcomeThenOutcome

(* The end of a burst and the end of a wait: a SYNC or the verdict.         *)
LEMMA SyncOrFinalize ==
    ASSUME NEW s, NEW b, NEW r \in Results(b), Lane(s)
    PROVE  LET x == StartSync(s, b, r)
           IN  Effect(s, b, IF x.sent THEN x.s ELSE Finalize(x.s), x.b)
<1> DEFINE x == StartSync(s, b, r)
<1>1. Effect(s, b, x.s, x.b)
    BY StartSyncEffect
<1>2. CASE x.sent
    BY <1>1, <1>2
<1>3. CASE ~x.sent
    <2>1. x.b = b /\ Outcome(s, b, x.s)
        BY <1>3, StartSyncEffect
    <2> HIDE DEF x
    <2>2. Outcome(x.s, b, Finalize(x.s))
        BY <2>1, OutcomeLane, FinalizeOutcome
    <2>3. Outcome(s, b, Finalize(x.s))
        BY <2>1, <2>2, OutcomeThenOutcome
    <2> QED
        BY <1>3, <2>1, <2>3 DEF Effect, x
<1> QED
    BY <1>2, <1>3

-----------------------------------------------------------------------------
(* What is told of the groups.                                             *)
PendingIn(s, g) ==
    (s.group = g /\ Active(s)) \/ \E i \in DOMAIN s.queue : s.queue[i].group = g
RecordedIn(s, g) ==
    {s.history[i].result : i \in {j \in 1..HistoryCapacity : s.history[j].group = g}}
ResultOf(s, g) ==
    CASE PendingIn(s, g) -> "pending"
      [] ~PendingIn(s, g) /\ s.lastFailed = g -> "failed"
      [] ~PendingIn(s, g) /\ s.lastFailed # g /\ s.group = g -> s.state
      [] OTHER -> IF RecordedIn(s, g) = {} THEN "unknown"
                  ELSE CHOOSE v \in RecordedIn(s, g) : TRUE

LEMMA HistoryLimits == 1 \in Slots /\ HistoryCapacity \in Nat \ {0}
BY LimitAssumption DEF Slots

LEMMA PendingFacts ==
    ASSUME NEW s, Lane(s), NEW g
    PROVE  PendingIn(s, g) <=> Active(s) /\ s.group = g
<1>1. CASE Active(s)
    BY <1>1, ActiveFacts DEF PendingIn
<1>2. CASE ~Active(s)
    BY <1>2 DEF PendingIn, Lane, Empty
<1> QED
    BY <1>1, <1>2

LEMMA RecordedFacts ==
    ASSUME NEW s, NEW n \in Nat, History(s, n), NEW g, g # 0
    PROVE  /\ \A i \in Slots : s.history[i].group = g =>
                    /\ RecordedIn(s, g) # {}
                    /\ (CHOOSE v \in RecordedIn(s, g) : TRUE) = s.history[i].result
           /\ (\A i \in Slots : s.history[i].group # g) => RecordedIn(s, g) = {}
<1>1. ASSUME NEW i \in Slots, s.history[i].group = g
      PROVE  RecordedIn(s, g) = {s.history[i].result}
    BY <1>1 DEF RecordedIn, History, Slots
<1>2. (\A i \in Slots : s.history[i].group # g) => RecordedIn(s, g) = {}
    BY DEF RecordedIn, Slots
<1> QED
    BY <1>1, <1>2

(* The verdict of a group that is neither active nor the last one.          *)
LEMMA ResultFacts ==
    ASSUME NEW s, NEW n \in Nat, Lane(s), History(s, n), NEW g, g # 0
    PROVE  /\ Active(s) /\ s.group = g => ResultOf(s, g) = "pending"
           /\ ~(Active(s) /\ s.group = g) =>
                /\ s.lastFailed = g => ResultOf(s, g) = "failed"
                /\ s.lastFailed # g /\ s.group = g => ResultOf(s, g) = s.state
                /\ s.lastFailed # g /\ s.group # g =>
                    /\ \A i \in Slots : s.history[i].group = g =>
                            ResultOf(s, g) = s.history[i].result
                    /\ (\A i \in Slots : s.history[i].group # g) =>
                            ResultOf(s, g) = "unknown"
<1>1. PendingIn(s, g) <=> Active(s) /\ s.group = g
    BY PendingFacts
<1>2. /\ \A i \in Slots : s.history[i].group = g =>
                    /\ RecordedIn(s, g) # {}
                    /\ (CHOOSE v \in RecordedIn(s, g) : TRUE) = s.history[i].result
      /\ (\A i \in Slots : s.history[i].group # g) => RecordedIn(s, g) = {}
    BY RecordedFacts
<1> DEFINE r == IF RecordedIn(s, g) = {} THEN "unknown"
                ELSE CHOOSE v \in RecordedIn(s, g) : TRUE
<1>3. /\ \A i \in Slots : s.history[i].group = g => r = s.history[i].result
      /\ (\A i \in Slots : s.history[i].group # g) => r = "unknown"
    BY <1>2
<1>4. ResultOf(s, g) = CASE PendingIn(s, g) -> "pending"
                         [] ~PendingIn(s, g) /\ s.lastFailed = g -> "failed"
                         [] ~PendingIn(s, g) /\ s.lastFailed # g /\ s.group = g -> s.state
                         [] OTHER -> r
    BY DEF ResultOf
<1> HIDE DEF r
<1> QED
    BY <1>1, <1>3, <1>4

(* Recording a verdict: at one slot, which was the group's if it had one.   *)
LEMMA RecordHistory ==
    ASSUME NEW s, DOMAIN s = Fields, NEW n \in Nat, History(s, n),
           NEW g \in 1..n, NEW v \in Transfer!Decided,
           NEW t, t.history = Record(s, g, v).history, t.slot = Record(s, g, v).slot
    PROVE  /\ History(t, n)
           /\ \E at \in Slots :
                /\ t.history[at].group = g /\ t.history[at].result = v
                /\ \A i \in Slots : i # at => /\ t.history[i] = s.history[i]
                                              /\ s.history[i].group # g
<1> DEFINE at == RecordAt(s, g)
<1>1. t.history = Noted(s.history, at, g, v) /\ t.slot = SlotAfter(s, g)
    BY RecordFacts
<1>2. at \in Slots /\ \A i \in Slots : i # at => s.history[i].group # g
    <2>1. CASE Known(s, g) # {}
        <3>1. at \in Known(s, g)
            BY <2>1 DEF RecordAt
        <3> HIDE DEF at
        <3> QED
            BY <3>1 DEF Known, History
    <2>2. CASE Known(s, g) = {}
        BY <2>2 DEF RecordAt, Known, History
    <2> QED
        BY <2>1, <2>2
<1>3. t.slot \in Slots
    <2>1. s.slot % HistoryCapacity \in 0..(HistoryCapacity - 1)
        BY HistoryLimits DEF History, Slots
    <2> QED
        BY <1>1, <2>1, HistoryLimits DEF SlotAfter, History, Slots
<1> HIDE DEF at
<1>4. /\ DOMAIN t.history = Slots
      /\ t.history[at].group = g /\ t.history[at].result = v
      /\ \A i \in Slots : i # at => t.history[i] = s.history[i]
    BY <1>1, <1>2 DEF Noted, History
<1>5. History(t, n)
    BY <1>2, <1>3, <1>4 DEF History
<1> QED
    BY <1>2, <1>4, <1>5

(* How a verdict may change without the group being decided anew.           *)
Revised(v, w) ==
    w = v \/ (v \in Transfer!Decided /\ w \in {"cancelled", "unknown"})

LEMMA GoesOnVerdicts ==
    ASSUME NEW s, NEW t, NEW n \in Nat, Lane(s), Lane(t), Verdicts(s, n), Same(s, t)
    PROVE  /\ Verdicts(t, n)
           /\ \A g : g # 0 => ResultOf(t, g) = ResultOf(s, g)
<1>1. Verdicts(t, n)
    BY DEF Verdicts, History, Same
<1>2. ASSUME NEW g, g # 0
      PROVE  ResultOf(t, g) = ResultOf(s, g)
    <2>1. PendingIn(t, g) <=> PendingIn(s, g)
        BY PendingFacts DEF Same
    <2>2. RecordedIn(t, g) = RecordedIn(s, g)
        BY DEF RecordedIn, Same
    <2>3. t.group = g /\ ~PendingIn(t, g) => t.state = s.state
        BY PendingFacts DEF Same
    <2> QED
        BY <2>1, <2>2, <2>3 DEF ResultOf, Same
<1> QED
    BY <1>1, <1>2

(* A verdict v is recorded for the group g, and t is s with it.             *)
LEMMA OthersRevised ==
    ASSUME NEW s, NEW t, NEW n \in Nat, Lane(s), Lane(t), Verdicts(s, n), History(t, n),
           NEW g \in 1..n, s.group = g, t.group \in {g, 0}, ~Active(t),
           t.lastFailed \in {g, s.lastFailed},
           NEW at \in Slots, t.history[at].group = g,
           \A i \in Slots : i # at => t.history[i] = s.history[i],
           NEW h, h # 0, h # g
    PROVE  Revised(ResultOf(s, h), ResultOf(t, h))
<1>1. /\ s.lastFailed = h => ResultOf(s, h) = "failed"
      /\ s.lastFailed # h =>
            /\ \A i \in Slots : s.history[i].group = h => ResultOf(s, h) = s.history[i].result
            /\ (\A i \in Slots : s.history[i].group # h) => ResultOf(s, h) = "unknown"
    BY ResultFacts DEF Verdicts
<1>2. /\ t.lastFailed = h => ResultOf(t, h) = "failed"
      /\ t.lastFailed # h =>
            /\ \A i \in Slots : t.history[i].group = h => ResultOf(t, h) = t.history[i].result
            /\ (\A i \in Slots : t.history[i].group # h) => ResultOf(t, h) = "unknown"
    BY ResultFacts
<1>3. CASE t.lastFailed = h
    <2>1. s.lastFailed = h
        BY <1>3
    <2>2. ResultOf(s, h) = "failed" /\ ResultOf(t, h) = "failed"
        BY <1>1, <1>2, <1>3, <2>1
    <2> QED
        BY <2>2 DEF Revised
<1>4. ASSUME t.lastFailed # h, NEW i \in Slots, t.history[i].group = h
      PROVE  Revised(ResultOf(s, h), ResultOf(t, h))
    <2>1. /\ i # at /\ s.history[i].group = h /\ s.history[i] = t.history[i]
          /\ ResultOf(t, h) = s.history[i].result
        BY <1>2, <1>4
    <2>2. CASE s.lastFailed # h
        <3>1. ResultOf(s, h) = s.history[i].result
            BY <1>1, <2>1, <2>2
        <3> QED
            BY <2>1, <3>1 DEF Revised
    <2>3. CASE s.lastFailed = h
        <3>1. s.history[i].result \in {"failed", "cancelled"}
            BY <2>1, <2>3 DEF Verdicts
        <3>2. ResultOf(s, h) = "failed"
            BY <1>1, <2>3
        <3> QED
            BY <2>1, <3>1, <3>2 DEF Revised, Transfer!Decided
    <2> QED
        BY <2>2, <2>3
<1>5. CASE t.lastFailed # h /\ \A i \in Slots : t.history[i].group # h
    <2>1. ResultOf(t, h) = "unknown"
        BY <1>2, <1>5
    <2>2. ResultOf(s, h) \in Transfer!Decided \cup {"unknown"}
        <3>1. CASE s.lastFailed = h
            BY <1>1, <3>1 DEF Transfer!Decided
        <3>2. ASSUME s.lastFailed # h, NEW i \in Slots, s.history[i].group = h
              PROVE  ResultOf(s, h) \in Transfer!Decided
            BY <1>1, <3>2 DEF Verdicts, History
        <3> QED
            BY <1>1, <3>1, <3>2
    <2> QED
        BY <2>1, <2>2 DEF Revised
<1> QED
    BY <1>3, <1>4, <1>5

LEMMA EndsVerdicts ==
    ASSUME NEW s, NEW t, NEW v, NEW n \in Nat, Lane(s), Verdicts(s, n), Ends(s, t, v)
    PROVE  /\ Verdicts(t, n)
           /\ ResultOf(s, s.group) = "pending" /\ ResultOf(t, s.group) = v
           /\ \A h : h # 0 /\ h # s.group => Revised(ResultOf(s, h), ResultOf(t, h))
<1> DEFINE g == s.group
<1>1. Active(s) /\ g \in 1..n /\ Lane(t) /\ ~Active(t)
    BY EndsFacts, ActiveFacts DEF Ends, Verdicts
<1>2. /\ v \in Transfer!Decided /\ t.group = g /\ t.state = v
      /\ t.lastFailed = IF v = "failed" THEN g ELSE s.lastFailed
      /\ t.history = Record(s, g, v).history /\ t.slot = Record(s, g, v).slot
    BY DEF Ends
<1>3. DOMAIN s = Fields /\ History(s, n)
    BY DEF Lane, Verdicts
<1>4. PICK at \in Slots :
        /\ t.history[at].group = g /\ t.history[at].result = v
        /\ \A i \in Slots : i # at => t.history[i] = s.history[i] /\ s.history[i].group # g
    BY <1>1, <1>2, <1>3, RecordHistory
<1>5. History(t, n)
    BY <1>1, <1>2, <1>3, RecordHistory
<1>6. s.lastFailed # g
    BY <1>1 DEF Verdicts
<1>7. ASSUME NEW i \in Slots, t.history[i].group = t.lastFailed, t.lastFailed # 0
      PROVE  t.history[i].result \in {"failed", "cancelled"}
    BY <1>2, <1>4, <1>6, <1>7 DEF Verdicts
<1>8. Verdicts(t, n)
    BY <1>1, <1>2, <1>4, <1>5, <1>7 DEF Verdicts
<1>9. ResultOf(s, g) = "pending"
    BY <1>1, <1>3, ResultFacts
<1>10. ResultOf(t, g) = v
    BY <1>1, <1>2, <1>5, <1>6, ResultFacts
<1>11. ASSUME NEW h, h # 0, h # g
       PROVE  Revised(ResultOf(s, h), ResultOf(t, h))
    BY <1>1, <1>2, <1>4, <1>5, <1>11, OthersRevised
<1> QED
    BY <1>8, <1>9, <1>10, <1>11

(* The lane is cleared: a group that was active is recorded as cancelled.   *)
Clears(s, t) ==
    /\ DOMAIN t = Fields /\ Empty(t) /\ t.group = 0 /\ t.state = "idle"
    /\ t.lastFailed = s.lastFailed
    /\ Active(s) => /\ t.history = Record(s, s.group, "cancelled").history
                    /\ t.slot = Record(s, s.group, "cancelled").slot
    /\ ~Active(s) => t.history = s.history /\ t.slot = s.slot

LEMMA ClearsLane ==
    ASSUME NEW s, NEW t, Clears(s, t)
    PROVE  Lane(t) /\ ~Active(t)
BY DEF Clears, Lane, Active, Empty

LEMMA ClearsActive ==
    ASSUME NEW s, NEW t, NEW n \in Nat, Lane(s), Verdicts(s, n), Clears(s, t), Active(s)
    PROVE  /\ Verdicts(t, n)
           /\ ResultOf(s, s.group) = "pending" /\ ResultOf(t, s.group) = "cancelled"
           /\ \A h : h # 0 /\ h # s.group => Revised(ResultOf(s, h), ResultOf(t, h))
<1> DEFINE g == s.group
<1>1. g \in 1..n /\ Lane(t) /\ ~Active(t) /\ t.group = 0 /\ t.lastFailed = s.lastFailed
    BY ClearsLane, ActiveFacts DEF Clears, Verdicts
<1>2. DOMAIN s = Fields /\ History(s, n) /\ "cancelled" \in Transfer!Decided
    BY DEF Lane, Verdicts, Transfer!Decided
<1>3. /\ t.history = Record(s, g, "cancelled").history
      /\ t.slot = Record(s, g, "cancelled").slot
    BY DEF Clears
<1>4. PICK at \in Slots :
        /\ t.history[at].group = g /\ t.history[at].result = "cancelled"
        /\ \A i \in Slots : i # at => t.history[i] = s.history[i] /\ s.history[i].group # g
    BY <1>1, <1>2, <1>3, RecordHistory
<1>5. History(t, n)
    BY <1>1, <1>2, <1>3, RecordHistory
<1>6. s.lastFailed # g /\ g # 0
    BY <1>1 DEF Verdicts
<1>7. Verdicts(t, n)
    BY <1>1, <1>4, <1>5, <1>6 DEF Verdicts
<1>8. ResultOf(s, g) = "pending"
    BY <1>2, <1>6, ResultFacts
<1>9. ResultOf(t, g) = "cancelled"
    BY <1>1, <1>4, <1>5, <1>6, ResultFacts
<1>10. ASSUME NEW h, h # 0, h # g
       PROVE  Revised(ResultOf(s, h), ResultOf(t, h))
    BY <1>1, <1>4, <1>5, <1>10, OthersRevised
<1> QED
    BY <1>7, <1>8, <1>9, <1>10

LEMMA ClearsInactive ==
    ASSUME NEW s, NEW t, NEW n \in Nat, Lane(s), Verdicts(s, n), Clears(s, t), ~Active(s)
    PROVE  /\ Verdicts(t, n)
           /\ \A h : h # 0 => ResultOf(t, h) = ResultOf(s, h)
<1>1. /\ Lane(t) /\ ~Active(t) /\ t.group = 0 /\ t.lastFailed = s.lastFailed
      /\ t.history = s.history /\ t.slot = s.slot
    BY ClearsLane DEF Clears
<1>2. History(s, n) /\ History(t, n)
    BY <1>1 DEF Verdicts, History
<1>3. Verdicts(t, n)
    BY <1>1, <1>2 DEF Verdicts
<1>4. ASSUME NEW h, h # 0
      PROVE  ResultOf(t, h) = ResultOf(s, h)
    <2>1. CASE s.lastFailed = h
        BY <1>1, <1>2, <1>4, <2>1, ResultFacts
    <2>2. ASSUME s.lastFailed # h, NEW i \in Slots, s.history[i].group = h
          PROVE  ResultOf(t, h) = ResultOf(s, h)
        <3>1. ResultOf(t, h) = s.history[i].result
            BY <1>1, <1>2, <1>4, <2>2, ResultFacts
        <3>2. CASE s.group # h
            BY <1>2, <1>4, <2>2, <3>1, <3>2, ResultFacts
        <3>3. CASE s.group = h
            <4>1. s.history[i].result = s.state
                BY <1>4, <2>2, <3>3 DEF Verdicts, History
            <4>2. ResultOf(s, h) = s.state
                BY <1>2, <1>4, <2>2, <3>3, ResultFacts
            <4> QED
                BY <3>1, <4>1, <4>2
        <3> QED
            BY <3>2, <3>3
    <2>3. CASE s.lastFailed # h /\ \A i \in Slots : s.history[i].group # h
        <3>1. ResultOf(t, h) = "unknown"
            BY <1>1, <1>2, <1>4, <2>3, ResultFacts
        <3>2. s.group # h
            BY <1>4, <2>3 DEF Verdicts
        <3>3. ResultOf(s, h) = "unknown"
            BY <1>2, <1>4, <2>3, <3>2, ResultFacts
        <3> QED
            BY <3>1, <3>3
    <2> QED
        BY <2>1, <2>2, <2>3
<1> QED
    BY <1>3, <1>4

(* A verdict that is out is turned into a cancellation.                     *)
Revokes(s, t) ==
    /\ ~Active(s) /\ s.group # 0
    /\ DOMAIN t = Fields /\ Empty(t) /\ t.group = s.group /\ t.state = "cancelled"
    /\ t.lastFailed = s.lastFailed
    /\ t.history = Record(s, s.group, "cancelled").history
    /\ t.slot = Record(s, s.group, "cancelled").slot

LEMMA RevokesVerdicts ==
    ASSUME NEW s, NEW t, NEW n \in Nat, Lane(s), Verdicts(s, n), Revokes(s, t)
    PROVE  /\ Lane(t) /\ ~Active(t) /\ Verdicts(t, n)
           /\ \A h : h # 0 => Revised(ResultOf(s, h), ResultOf(t, h))
<1> DEFINE g == s.group
<1>1. /\ ~Active(s) /\ g \in 1..n /\ Lane(t) /\ ~Active(t)
      /\ t.group = g /\ t.state = "cancelled" /\ t.lastFailed = s.lastFailed
      /\ t.history = Record(s, g, "cancelled").history
      /\ t.slot = Record(s, g, "cancelled").slot
    BY DEF Revokes, Verdicts, Lane, Active, Empty
<1>2. DOMAIN s = Fields /\ History(s, n) /\ "cancelled" \in Transfer!Decided
    BY DEF Lane, Verdicts, Transfer!Decided
<1>3. PICK at \in Slots :
        /\ t.history[at].group = g /\ t.history[at].result = "cancelled"
        /\ \A i \in Slots : i # at => t.history[i] = s.history[i] /\ s.history[i].group # g
    BY <1>1, <1>2, RecordHistory
<1>4. History(t, n)
    BY <1>1, <1>2, RecordHistory
<1>5. Verdicts(t, n)
    <2>1. ASSUME NEW i \in Slots, t.history[i].group = t.lastFailed, t.lastFailed # 0
          PROVE  t.history[i].result \in {"failed", "cancelled"}
        BY <1>1, <1>3, <2>1 DEF Verdicts
    <2>2. t.lastFailed \in 0..n
        BY <1>1 DEF Verdicts
    <2> QED
        BY <1>1, <1>2, <1>3, <1>4, <2>1, <2>2 DEF Verdicts
<1>6. ASSUME NEW h, h # 0, h # g
      PROVE  Revised(ResultOf(s, h), ResultOf(t, h))
    BY <1>1, <1>3, <1>4, <1>6, OthersRevised
<1>7. Revised(ResultOf(s, g), ResultOf(t, g))
    <2>1. s.lastFailed = g =>
            ResultOf(s, g) = "failed" /\ ResultOf(t, g) = "failed"
        BY <1>1, <1>2, <1>4, ResultFacts
    <2>2. s.lastFailed # g =>
            ResultOf(s, g) = s.state /\ ResultOf(t, g) = "cancelled"
        BY <1>1, <1>2, <1>4, ResultFacts
    <2>3. s.state \in Transfer!Decided
        BY <1>1 DEF Verdicts
    <2> QED
        BY <2>1, <2>2, <2>3 DEF Revised
<1> QED
    BY <1>1, <1>5, <1>6, <1>7

(* A new group begins: it was unknown, and nothing changes for the others.  *)
LEMMA BegunVerdicts ==
    ASSUME NEW s, NEW t, NEW n \in Nat, Lane(s), ~Active(s), Verdicts(s, n),
           Lane(t), Active(t), t.group = n + 1, t.history = s.history, t.slot = s.slot,
           t.lastFailed = s.lastFailed
    PROVE  /\ Verdicts(t, n + 1)
           /\ ResultOf(s, n + 1) = "unknown" /\ ResultOf(t, n + 1) = "pending"
           /\ \A h : h # 0 /\ h # n + 1 => ResultOf(t, h) = ResultOf(s, h)
<1>1. History(s, n) /\ History(t, n)
    BY DEF Verdicts, History
<1>2. /\ s.group # n + 1 /\ s.lastFailed # n + 1
      /\ \A i \in Slots : s.history[i].group # n + 1
    BY DEF Verdicts, History
<1>3. Verdicts(t, n + 1)
    <2>1. History(t, n + 1)
        BY <1>1 DEF History
    <2>2. t.group \in 0..(n + 1) /\ t.lastFailed \in 0..(n + 1)
        BY DEF Verdicts
    <2> QED
        BY <1>2, <2>1, <2>2 DEF Verdicts
<1>4. ResultOf(s, n + 1) = "unknown"
    BY <1>1, <1>2, ResultFacts
<1>5. ResultOf(t, n + 1) = "pending"
    BY <1>1, ResultFacts
<1>6. ASSUME NEW h, h # 0, h # n + 1
      PROVE  ResultOf(t, h) = ResultOf(s, h)
    <2>1. CASE s.lastFailed = h
        BY <1>1, <1>6, <2>1, ResultFacts
    <2>2. ASSUME s.lastFailed # h, NEW i \in Slots, s.history[i].group = h
          PROVE  ResultOf(t, h) = ResultOf(s, h)
        <3>1. ResultOf(t, h) = s.history[i].result
            BY <1>1, <1>6, <2>2, ResultFacts
        <3>2. CASE s.group # h
            BY <1>1, <1>6, <2>2, <3>1, <3>2, ResultFacts
        <3>3. CASE s.group = h
            <4>1. s.history[i].result = s.state
                BY <1>6, <2>2, <3>3 DEF Verdicts, History
            <4>2. ResultOf(s, h) = s.state
                BY <1>1, <1>6, <2>2, <3>3, ResultFacts
            <4> QED
                BY <3>1, <4>1, <4>2
        <3> QED
            BY <3>2, <3>3
    <2>3. CASE s.lastFailed # h /\ \A i \in Slots : s.history[i].group # h
        <3>1. ResultOf(t, h) = "unknown"
            BY <1>1, <1>6, <2>3, ResultFacts
        <3>2. s.group # h
            BY <1>6, <2>3 DEF Verdicts
        <3>3. ResultOf(s, h) = "unknown"
            BY <1>1, <1>6, <2>3, <3>2, ResultFacts
        <3> QED
            BY <3>1, <3>3
    <2> QED
        BY <2>1, <2>2, <2>3
<1> QED
    BY <1>3, <1>4, <1>5, <1>6

-----------------------------------------------------------------------------
(* The operations of recovery, cancellation and acceptance.                 *)
LEMMA ClearClears ==
    ASSUME NEW s, Lane(s), NEW ok \in BOOLEAN
    PROVE  Clears(s, Clear(s)) /\ Clears(s, Rebuilt(Clear(s), ok))
<1> DEFINE r == IF Active(s) THEN Record(s, s.group, "cancelled") ELSE s
           l == Landed(Ended(r))
           c == Clear(s)
           u == Rebuilt(c, ok)
<1>1. /\ DOMAIN r = Fields /\ r.lastFailed = s.lastFailed
      /\ Active(s) => /\ r.history = Record(s, s.group, "cancelled").history
                      /\ r.slot = Record(s, s.group, "cancelled").slot
      /\ ~Active(s) => r.history = s.history /\ r.slot = s.slot
    <2>1. CASE Active(s)
        <3> DEFINE x == Record(s, s.group, "cancelled")
        <3>1. x = WithRecord(s, x.history, x.slot)
            BY RecordFacts DEF Lane
        <3> HIDE DEF x
        <3>2. DOMAIN x = Fields /\ x.lastFailed = s.lastFailed
            BY <3>1 DEF Lane, WithRecord, Fields
        <3> QED
            BY <2>1, <3>2 DEF x
    <2>2. CASE ~Active(s)
        BY <2>2 DEF Lane
    <2> QED
        BY <2>1, <2>2
<1> HIDE DEF r
<1>2. /\ DOMAIN l = Fields /\ l.lastFailed = r.lastFailed /\ l.inFlight = NoFrame
      /\ l.history = r.history /\ l.slot = r.slot
    BY <1>1 DEF Ended, Landed, Fields
<1>3. c = [l EXCEPT !.queue = <<>>, !.retries = 0, !.tried = FALSE, !.busy = -1,
                    !.group = 0, !.state = "idle"]
    BY DEF Clear, r
<1> HIDE DEF l, c
<1>4. /\ DOMAIN c = Fields /\ c.queue = <<>> /\ c.inFlight = NoFrame
      /\ c.group = 0 /\ c.state = "idle" /\ c.lastFailed = r.lastFailed
      /\ c.history = r.history /\ c.slot = r.slot
    BY <1>2, <1>3 DEF Fields
<1>5. /\ DOMAIN u = Fields /\ u.queue = <<>> /\ u.inFlight = NoFrame
      /\ u.group = 0 /\ u.state = "idle" /\ u.lastFailed = r.lastFailed
      /\ u.history = r.history /\ u.slot = r.slot
    BY <1>4 DEF Rebuilt, Landed, Fields
<1> HIDE DEF u
<1> QED
    BY <1>1, <1>4, <1>5 DEF Clears, Empty, c, u

LEMMA FailActiveOutcome ==
    ASSUME NEW s, NEW b, Lane(s)
    PROVE  Outcome(s, b, FailActive(s)) /\ ~Active(FailActive(s))
<1>1. CASE Active(s)
    <2>1. FailActive(s) = FailGroup(s, s.group)
        BY <1>1, ActiveFacts DEF FailActive, FailWithoutRequest
    <2> QED
        BY <1>1, <2>1, FailGroupEnds, EndsFacts, FailOutcome
<1>2. CASE ~Active(s)
    <2>1. FailActive(s) = s
        BY <1>2 DEF FailActive, Lane, Empty
    <2> QED
        BY <1>2, <2>1, OutcomeItself
<1> QED
    BY <1>1, <1>2

(* Only the transport fields differ.                                        *)
LEMMA TransportGoesOn ==
    ASSUME NEW s, NEW t, NEW b, Lane(s), DOMAIN t = Fields,
           t.queue = s.queue, t.inFlight = s.inFlight, t.sync = s.sync,
           Counted(t) = Counted(s), Told(t) = Told(s),
           Active(s) => t.normal = s.normal
    PROVE  Outcome(s, b, t) /\ (Active(t) <=> Active(s)) /\ Awaiting(t) = Awaiting(s)
<1>1. (Active(t) <=> Active(s)) /\ Same(s, t) /\ Awaiting(t) = Awaiting(s)
    BY DEF Active, Same, Told, Awaiting
<1>2. Active(s) => Ahead(t)
    BY DEF Lane, Ahead, Counted, Told, Done
<1>3. Lane(t)
    BY <1>1, <1>2 DEF Lane, Empty
<1>4. GivenBy(t) = GivenBy(s)
    BY DEF GivenBy, Done, Counted
<1> QED
    BY <1>1, <1>3, <1>4 DEF Outcome, GoesOn

LEMMA LaneFacts ==
    ASSUME NEW s, Lane(s)
    PROVE  /\ DOMAIN s = Fields /\ s.queue \in Seq(Frames)
           /\ \A i \in DOMAIN s.queue : s.queue[i].group = s.group
<1>1. CASE Active(s)
    BY <1>1, ActiveFacts DEF Lane
<1>2. CASE ~Active(s)
    <2>1. DOMAIN s = Fields /\ s.queue = <<>>
        BY <1>2 DEF Lane, Empty
    <2>2. <<>> \in Seq(Frames) /\ \A i \in DOMAIN <<>> : <<>>[i].group = s.group
        OBVIOUS
    <2> QED
        BY <2>1, <2>2
<1> QED
    BY <1>1, <1>2

LEMMA BusyOutcome ==
    ASSUME NEW s, NEW b, Lane(s), NEW e
    PROVE  Outcome(s, b, [s EXCEPT !.busy = e])
<1> DEFINE t == [s EXCEPT !.busy = e]
<1>1. /\ DOMAIN t = Fields /\ t.queue = s.queue /\ t.inFlight = s.inFlight
      /\ t.sync = s.sync /\ Counted(t) = Counted(s) /\ Told(t) = Told(s)
      /\ t.normal = s.normal
    BY LaneFacts DEF Fields, Counted, Told
<1> HIDE DEF t
<1> QED
    BY <1>1, TransportGoesOn DEF t

LEMMA GivenUpOutcome ==
    ASSUME NEW s, NEW b, Lane(s)
    PROVE  LET t == [FailActive(s) EXCEPT !.normal = FALSE]
           IN  Outcome(s, b, t) /\ ~Active(t)
<1> DEFINE f == FailActive(s)
           t == [f EXCEPT !.normal = FALSE]
<1>1. Outcome(s, b, f) /\ ~Active(f) /\ Lane(f)
    BY FailActiveOutcome, OutcomeLane
<1> HIDE DEF f
<1>2. /\ DOMAIN t = Fields /\ t.queue = f.queue /\ t.inFlight = f.inFlight
      /\ t.sync = f.sync /\ Counted(t) = Counted(f) /\ Told(t) = Told(f)
    BY <1>1, LaneFacts DEF Fields, Counted, Told
<1> HIDE DEF t
<1>3. Outcome(f, b, t) /\ ~Active(t)
    BY <1>1, <1>2, TransportGoesOn
<1> QED
    BY <1>1, <1>3, OutcomeThenOutcome DEF t, f

LEMMA PolledOutcome ==
    ASSUME NEW s, NEW b, Lane(s)
    PROVE  Outcome(s, b, Polled(s, b))
<1> DEFINE w == Watched(s, b)
<1>1. Outcome(s, b, w)
    <2>1. w \in {[s EXCEPT !.busy = -1], [s EXCEPT !.busy = 0],
                 [FailActive(s) EXCEPT !.normal = FALSE], s}
        BY DEF Watched
    <2> QED
        BY <2>1, BusyOutcome, GivenUpOutcome, OutcomeItself
<1>2. Lane(w)
    BY <1>1, OutcomeLane
<1>3. Polled(s, b) \in {[FailActive(w) EXCEPT !.normal = FALSE], w}
    BY DEF Polled
<1> HIDE DEF w
<1>4. Outcome(w, b, Polled(s, b))
    BY <1>2, <1>3, GivenUpOutcome, OutcomeItself
<1> QED
    BY <1>1, <1>4, OutcomeThenOutcome

LEMMA CancelledOutcome ==
    ASSUME NEW s, NEW b, Lane(s), NEW g \in Groups
    PROVE  Outcome(s, b, Cancelled(s, g)) \/ Revokes(s, Cancelled(s, g))
<1> DEFINE c == IF s.group # g THEN s
                ELSE [s EXCEPT !.cancel = TRUE,
                               !.started = s.triggers > 0 \/ IsTrigger(s.inFlight)]
           d == DropGroup(c, g)
           x == Conclude(d, "cancelled")
<1>1. Cancelled(s, g) = IF s.group = g /\ s.inFlight = NoFrame THEN x ELSE d
    BY DEF Cancelled
<1>2. /\ DOMAIN s = Fields /\ s.queue \in Seq(Frames)
      /\ \A i \in DOMAIN s.queue : s.queue[i].group = s.group
    BY LaneFacts
<1>3. /\ DOMAIN c = Fields /\ c.queue = s.queue /\ c.inFlight = s.inFlight
      /\ c.sync = s.sync /\ c.normal = s.normal /\ Told(c) = Told(s)
      /\ c.arms = s.arms /\ c.triggers = s.triggers
      /\ c.armSync = s.armSync /\ c.triggerSync = s.triggerSync
      /\ IF s.group # g THEN c.cancel = s.cancel ELSE c.cancel
    BY <1>2 DEF Fields, Told
<1> HIDE DEF c
<1>4. /\ DOMAIN d = Fields /\ d.inFlight = c.inFlight /\ d.sync = c.sync
      /\ d.normal = c.normal /\ Counted(d) = Counted(c) /\ Told(d) = Told(c)
      /\ (\A i \in DOMAIN c.queue : c.queue[i].group = g) =>
            d.queue = IF c.queue # <<>> /\ c.inFlight = Head(c.queue)
                      THEN <<Head(c.queue)>> ELSE <<>>
      /\ (\A i \in DOMAIN c.queue : c.queue[i].group # g) => d.queue = c.queue
    <2>1. DOMAIN c = Fields /\ c.queue \in Seq(Frames)
        BY <1>2, <1>3
    <2> QED
        BY <2>1, DropGroupFacts
<1> HIDE DEF d
<1>5. CASE s.group # g
    <2>1. /\ d.queue = s.queue /\ d.inFlight = s.inFlight /\ d.sync = s.sync
          /\ d.normal = s.normal /\ Told(d) = Told(s) /\ Counted(d) = Counted(s)
        BY <1>2, <1>3, <1>4, <1>5 DEF Counted
    <2> QED
        BY <1>1, <1>4, <1>5, <2>1, TransportGoesOn
<1>6. ASSUME s.group = g
      PROVE  /\ d.cancel /\ Done(d) = Done(s) /\ d.arms = s.arms /\ d.triggers = s.triggers
             /\ d.armSync = s.armSync /\ d.triggerSync = s.triggerSync
             /\ d.group = g /\ d.state = s.state /\ d.lastFailed = s.lastFailed
             /\ d.history = s.history /\ d.slot = s.slot
             /\ d.inFlight = s.inFlight /\ d.sync = s.sync /\ d.normal = s.normal
             /\ d.queue = IF s.queue # <<>> /\ s.inFlight = Head(s.queue)
                          THEN <<Head(s.queue)>> ELSE <<>>
    BY <1>2, <1>3, <1>4, <1>6 DEF Counted, Told, Done
<1>7. CASE s.group = g /\ s.inFlight = NoFrame
    <2>1. d.queue = <<>>
        BY <1>6, <1>7, ActiveFacts DEF Lane, Empty, NoFrame
    <2>2. /\ DOMAIN x = Fields /\ x.state = "cancelled" /\ x.group = g
          /\ x.lastFailed = s.lastFailed /\ x.queue = <<>> /\ x.inFlight = NoFrame
          /\ x.history = Record(d, d.group, "cancelled").history
          /\ x.slot = Record(d, d.group, "cancelled").slot
        BY <1>4, <1>6, <1>7, <2>1, ConcludeFacts
    <2>3. /\ x.history = Record(s, g, "cancelled").history
          /\ x.slot = Record(s, g, "cancelled").slot
        BY <1>2, <1>4, <1>6, <1>7, <2>2, RecordDependsOn
    <2>4. Cancelled(s, g) = x
        BY <1>1, <1>7
    <2> HIDE DEF x
    <2>5. CASE Active(s)
        <3>1. Ends(s, x, "cancelled")
            BY <1>7, <2>2, <2>3, <2>5 DEF Ends, Empty, Transfer!Decided
        <3> QED
            BY <2>4, <3>1 DEF Outcome, Transfer!Decided
    <2>6. CASE ~Active(s)
        BY <1>7, <2>2, <2>3, <2>4, <2>6, GroupFacts DEF Revokes, Empty
    <2> QED
        BY <2>5, <2>6
<1>8. CASE s.group = g /\ s.inFlight # NoFrame
    <2>1. /\ Active(s) /\ s.queue # <<>> /\ s.inFlight = Head(s.queue)
        BY <1>8, ActiveFacts DEF Lane, Empty
    <2>2. d.queue = <<d.inFlight>> /\ d.inFlight # NoFrame
        BY <1>6, <1>8, <2>1
    <2>3. Ahead(s)
        BY <2>1 DEF Lane
    <2>4. Ahead(d)
        BY <1>6, <1>8, <2>2, <2>3 DEF Ahead
    <2>5. Active(d) /\ Same(s, d) /\ Awaiting(d)
        BY <1>6, <1>8, <2>1, <2>2 DEF Active, Same, Awaiting
    <2>6. GivenBy(d) = GivenBy(s)
        BY <1>6, <1>8 DEF GivenBy
    <2>7. Lane(d)
        BY <1>4, <1>6, <1>8, <2>4, <2>5 DEF Lane
    <2> QED
        BY <1>1, <1>8, <2>5, <2>6, <2>7 DEF Outcome, GoesOn
<1> QED
    BY <1>5, <1>7, <1>8

LEMMA BegunFacts ==
    ASSUME NEW s, Lane(s), ~Active(s), s.normal, NEW g \in Groups
    PROVE  LET t == Begun(s, g)
           IN  /\ Lane(t) /\ Active(t) /\ GivenBy(t) = 0 /\ t.group = g
               /\ t.history = s.history /\ t.slot = s.slot /\ t.lastFailed = s.lastFailed
               /\ (Awaiting(s) => Awaiting(t))
<1> DEFINE e == Ended(s)
           t == [e EXCEPT !.queue = @ \o Batch[g], !.group = g, !.state = "queued"]
<1>1. /\ DOMAIN s = Fields /\ s.queue = <<>> /\ s.inFlight = NoFrame
    BY DEF Lane, Empty
<1>2. /\ DOMAIN e = Fields /\ e.queue = <<>> /\ e.inFlight = NoFrame /\ e.normal
      /\ e.arms = 0 /\ e.triggers = 0 /\ ~e.armSync /\ ~e.triggerSync /\ ~e.cancel
      /\ e.history = s.history /\ e.slot = s.slot /\ e.lastFailed = s.lastFailed
      /\ e.sync = s.sync
    BY <1>1 DEF Ended, Fields
<1> HIDE DEF e
<1>3. <<>> \o Batch[g] = Batch[g]
    BY BatchFacts
<1>4. /\ DOMAIN t = Fields /\ t.queue = Batch[g] /\ t.inFlight = NoFrame /\ t.normal
      /\ t.arms = 0 /\ t.triggers = 0 /\ ~t.armSync /\ ~t.triggerSync /\ ~t.cancel
      /\ t.history = s.history /\ t.slot = s.slot /\ t.lastFailed = s.lastFailed
      /\ t.group = g /\ t.state = "queued" /\ t.sync = s.sync
    BY <1>2, <1>3 DEF Fields
<1>5. Begun(s, g) = t
    BY DEF Begun, e
<1> HIDE DEF t
<1>6. Active(t) /\ Done(t) = 0
    BY <1>4 DEF Active, Done
<1>7. t.queue = Rest(g, 0)
    BY <1>4, BatchFacts, RestFacts
<1>8. ~IsTrigger(NoFrame)
    BY DEF IsTrigger, NoFrame
<1>9. Ahead(t)
    BY <1>4, <1>6, <1>7, <1>8, GroupFacts DEF Ahead
<1>10. GivenBy(t) = 0
    BY <1>4, <1>6 DEF GivenBy, One
<1> QED
    BY <1>1, <1>4, <1>5, <1>6, <1>9, <1>10 DEF Lane, Awaiting

-----------------------------------------------------------------------------
(* The controller.  out grows by the next place that was given, given by    *)
(* the next place of the plan.                                             *)
Grown(q, g) == [q EXCEPT ![g] = Append(@, Len(@) + 1)]

LEMMA UptoFacts ==
    ASSUME NEW n \in Nat
    PROVE  /\ Len(Upto(n)) = n /\ Append(Upto(n), n + 1) = Upto(n + 1)
           /\ Upto(0) = <<>>
BY DEF Upto

(* A sequence of places, for each group.                                    *)
Places(q) ==
    /\ DOMAIN q = Groups
    /\ \A g \in Groups : Len(q[g]) \in Nat /\ q[g] = Upto(Len(q[g]))

LEMMA GrownFacts ==
    ASSUME NEW q, Places(q), NEW g \in Groups
    PROVE  /\ Places(Grown(q, g)) /\ Len(Grown(q, g)[g]) = Len(q[g]) + 1
           /\ \A h \in Groups : h # g => Grown(q, g)[h] = q[h]
<1> DEFINE x == Grown(q, g)
           k == Len(q[g])
<1>1. k \in Nat /\ q[g] = Upto(k)
    BY DEF Places
<1>2. Append(q[g], k + 1) = Upto(k + 1)
    BY <1>1, UptoFacts
<1>3. DOMAIN x = Groups /\ x[g] = Append(q[g], k + 1) /\ \A h \in Groups : h # g => x[h] = q[h]
    BY DEF Grown, Places
<1> HIDE DEF x
<1>4. x[g] = Upto(k + 1) /\ Len(x[g]) = k + 1
    <2>1. x[g] = Upto(k + 1)
        BY <1>2, <1>3
    <2>2. Len(Upto(k + 1)) = k + 1
        <3> HIDE DEF k
        <3>1. k + 1 \in Nat
            BY <1>1
        <3> QED
            BY <3>1, UptoFacts
    <2> QED
        BY <2>1, <2>2
<1>5. Places(x)
    <2>1. ASSUME NEW h \in Groups
          PROVE  Len(x[h]) \in Nat /\ x[h] = Upto(Len(x[h]))
        <3>1. CASE h = g
            BY <1>1, <1>4, <3>1
        <3>2. CASE h # g
            BY <1>3, <3>2 DEF Places
        <3> QED
            BY <3>1, <3>2
    <2> QED
        BY <1>3, <2>1 DEF Places
<1> QED
    BY <1>3, <1>4, <1>5 DEF x

BusFields == {"tx", "off", "given", "out"}

LEMMA WireFacts ==
    ASSUME NEW b, NEW n
    PROVE  Wire(b, n) <=>
            /\ DOMAIN b = BusFields /\ Places(b.given) /\ Places(b.out)
            /\ \A g \in Groups : /\ Len(b.out[g]) <= Len(b.given[g])
                                 /\ g > n => b.given[g] = <<>>
            /\ b.tx.group # 0 =>
                /\ b.tx.group \in Groups /\ b.tx.at = Len(b.out[b.tx.group]) + 1
                /\ b.tx.at <= Len(b.given[b.tx.group])
BY DEF Wire, BusFields, Places

(* The frame in the buffer leaves.                                         *)
LEMMA LeaveFacts ==
    ASSUME NEW b, NEW n, Wire(b, n)
    PROVE  LET c == Leave(b)
           IN  /\ Wire(c, n) /\ c.tx = NoFrame /\ c.given = b.given
               /\ b.tx.group = 0 => c.out = b.out
               /\ b.tx.group # 0 =>
                    /\ b.tx.group \in Groups
                    /\ Len(b.out[b.tx.group]) < Len(b.given[b.tx.group])
                    /\ c.out = Grown(b.out, b.tx.group)
<1> DEFINE c == Leave(b)
           g == b.tx.group
<1>1. /\ DOMAIN b = BusFields /\ Places(b.given) /\ Places(b.out)
      /\ \A h \in Groups : /\ Len(b.out[h]) <= Len(b.given[h])
                           /\ h > n => b.given[h] = <<>>
      /\ g # 0 => /\ g \in Groups /\ b.tx.at = Len(b.out[g]) + 1
                  /\ b.tx.at <= Len(b.given[g])
    BY WireFacts
<1>2. CASE g = 0
    <2>1. DOMAIN c = BusFields /\ c.tx = NoFrame /\ c.given = b.given /\ c.out = b.out
        BY <1>1, <1>2 DEF Leave, BusFields
    <2> HIDE DEF c
    <2>2. Wire(c, n)
        BY <1>1, <2>1, WireFacts DEF NoFrame
    <2> QED
        BY <1>2, <2>1, <2>2 DEF c
<1>3. CASE g # 0
    <2>1. /\ DOMAIN c = BusFields /\ c.tx = NoFrame /\ c.given = b.given
          /\ c.out = [b.out EXCEPT ![g] = Append(@, b.tx.at)]
        BY <1>1, <1>3 DEF Leave, BusFields
    <2> HIDE DEF c
    <2>2. c.out = Grown(b.out, g)
        BY <1>1, <1>3, <2>1 DEF Grown
    <2>3. /\ Places(c.out) /\ Len(c.out[g]) = Len(b.out[g]) + 1
          /\ \A h \in Groups : h # g => c.out[h] = b.out[h]
        BY <1>1, <1>3, <2>2, GrownFacts
    <2>4. \A h \in Groups : Len(c.out[h]) <= Len(c.given[h])
        BY <1>1, <1>3, <2>1, <2>3
    <2>5. Wire(c, n)
        <3>1. c.tx.group = 0
            BY <2>1 DEF NoFrame
        <3>2. \A h \in Groups : h > n => c.given[h] = <<>>
            BY <1>1, <2>1
        <3> QED
            BY <1>1, <2>1, <2>3, <2>4, <3>1, <3>2, WireFacts
    <2>6. Len(b.out[g]) < Len(b.given[g])
        BY <1>1, <1>3 DEF Places
    <2> QED
        BY <1>1, <1>3, <2>1, <2>2, <2>5, <2>6 DEF c
<1> QED
    BY <1>2, <1>3

(* hpm_can_send took a frame.                                              *)
Before(b, r) == IF r = "late" THEN Leave(b) ELSE b

LEMMA BeforeFacts ==
    ASSUME NEW b, NEW n, Wire(b, n), NEW r \in Results(b), Sent(r)
    PROVE  LET c == Before(b, r)
           IN  /\ Wire(c, n) /\ c.tx = NoFrame /\ c.given = b.given
               /\ b.tx.group = 0 => c.out = b.out
               /\ b.tx.group # 0 =>
                    /\ b.tx.group \in Groups
                    /\ Len(b.out[b.tx.group]) < Len(b.given[b.tx.group])
                    /\ c.out = Grown(b.out, b.tx.group)
<1>1. CASE r = "late"
    BY <1>1, LeaveFacts DEF Before
<1>2. CASE r = "ok"
    BY <1>2 DEF Before, Results, NoFrame
<1> QED
    BY <1>1, <1>2 DEF Sent

LEMMA GiveOtherFacts ==
    ASSUME NEW b, NEW n, Wire(b, n), NEW r \in Results(b), Sent(r)
    PROVE  LET c == Give(b, Other, r)
           IN  Wire(c, n) /\ c.given = b.given /\ c.out = Before(b, r).out /\ c.tx = Other
<1> DEFINE a == Before(b, r)
           c == [a EXCEPT !.tx = Other]
<1>1. Give(b, Other, r) = c
    BY DEF Give, Before, Other
<1>2. Wire(a, n) /\ a.given = b.given
    BY BeforeFacts
<1> HIDE DEF a
<1>3. DOMAIN a = BusFields
    BY <1>2, WireFacts
<1>4. DOMAIN c = BusFields /\ c.tx = Other /\ c.given = a.given /\ c.out = a.out
    BY <1>3 DEF BusFields
<1> HIDE DEF c
<1>5. Wire(c, n)
    BY <1>2, <1>4, WireFacts DEF Other
<1> QED
    BY <1>1, <1>2, <1>4, <1>5 DEF a

LEMMA GiveFrameFacts ==
    ASSUME NEW b, NEW n, Wire(b, n), NEW r \in Results(b), Sent(r),
           NEW h \in Groups, ~(h > n), b.tx.group # h,
           Len(b.given[h]) = Len(b.out[h])
    PROVE  LET c == Give(b, Frame(h, Len(b.given[h]) + 1), r)
           IN  /\ Wire(c, n) /\ c.given = Grown(b.given, h) /\ c.out = Before(b, r).out
               /\ c.tx.group = h
               /\ Len(c.given[h]) = Len(b.given[h]) + 1 /\ Len(c.out[h]) = Len(b.out[h])
<1> DEFINE a == Before(b, r)
           k == Len(b.given[h])
           f == Frame(h, k + 1)
           c == Give(b, f, r)
<1>1. /\ Wire(a, n) /\ a.given = b.given
      /\ b.tx.group = 0 => a.out = b.out
      /\ b.tx.group # 0 => b.tx.group \in Groups /\ a.out = Grown(b.out, b.tx.group)
    BY BeforeFacts
<1>2. a.out[h] = b.out[h]
    <2>1. Places(b.out)
        BY WireFacts
    <2> HIDE DEF a
    <2> QED
        BY <1>1, <2>1, GrownFacts
<1>3. f.group = h /\ f.at = k + 1 /\ h # 0
    BY GroupFacts DEF Frame
<1>4. c = [a EXCEPT !.tx = f, !.given[h] = Append(@, k + 1)]
    <2> HIDE DEF f
    <2>1. c = [a EXCEPT !.tx = f, !.given[f.group] = Append(@, f.at)]
        BY <1>3 DEF Give, Before
    <2> QED
        BY <1>3, <2>1
<1> HIDE DEF a, c, f
<1>5. /\ DOMAIN a = BusFields /\ Places(a.given) /\ Places(a.out)
      /\ \A g \in Groups : /\ Len(a.out[g]) <= Len(a.given[g])
                           /\ g > n => a.given[g] = <<>>
    BY <1>1, WireFacts
<1>6. /\ DOMAIN c = BusFields /\ c.tx = f /\ c.out = a.out
      /\ c.given = [a.given EXCEPT ![h] = Append(@, k + 1)]
    BY <1>4, <1>5 DEF BusFields
<1>7. c.given = Grown(b.given, h)
    BY <1>1, <1>6 DEF Grown
<1>8. /\ Places(c.given) /\ Len(c.given[h]) = k + 1
      /\ \A g \in Groups : g # h => c.given[g] = b.given[g]
    <2>1. Places(b.given)
        BY <1>1, <1>5
    <2> QED
        BY <1>7, <2>1, GrownFacts
<1>9. k \in Nat /\ Len(a.out[h]) = k
    BY <1>1, <1>2, <1>5 DEF Places
<1>10. \A g \in Groups : /\ Len(c.out[g]) <= Len(c.given[g])
                         /\ g > n => c.given[g] = <<>>
    BY <1>1, <1>5, <1>6, <1>8, <1>9
<1>11. Wire(c, n)
    <2>1. /\ DOMAIN c = BusFields /\ Places(c.given) /\ Places(c.out)
        BY <1>5, <1>6, <1>8
    <2>2. /\ c.tx.group = h /\ c.tx.at = Len(c.out[h]) + 1
          /\ c.tx.at <= Len(c.given[h])
        BY <1>3, <1>6, <1>8, <1>9
    <2> QED
        BY <1>10, <2>1, <2>2, WireFacts
<1> QED
    BY <1>2, <1>3, <1>6, <1>7, <1>8, <1>11 DEF a, c, f

-----------------------------------------------------------------------------
(* Steps of PdoTransfer, seen from the service and the controller.          *)
SameTold(s, t) == \A g \in Groups : ResultOf(t, g) = ResultOf(s, g)
Leaves(b, c, g) == Len(b.out[g]) < Len(b.given[g]) /\ c.out = Grown(b.out, g)

Deciding(s, b, t, c) ==
    /\ c.given = b.given /\ c.out = b.out
    /\ \A g \in Groups :
        \/ Revised(ResultOf(s, g), ResultOf(t, g))
        \/ /\ ResultOf(s, g) = "pending" /\ ResultOf(t, g) \in Transfer!Decided
           /\ ResultOf(t, g) = "complete" => Len(b.out[g]) = Len(Plan[g])

Leaving(s, b, t, c) ==
    /\ SameTold(s, t) /\ c.given = b.given
    /\ \E g \in Groups : Leaves(b, c, g)

Giving(s, b, t, c) ==
    \E h \in Groups :
        /\ SameTold(s, t) /\ ResultOf(s, h) = "pending"
        /\ Len(b.given[h]) < Len(Plan[h]) /\ Len(b.out[h]) = Len(b.given[h])
        /\ c.given = Grown(b.given, h)
        /\ \/ c.out = b.out
           \/ \E g \in Groups : Leaves(b, c, g) /\ ResultOf(s, g) # "pending"

Accepting(s, b, t, c) ==
    \E h \in Groups :
        /\ ResultOf(s, h) = "unknown" /\ b.given[h] = <<>>
        /\ \A g \in Groups : ResultOf(s, g) # "pending"
        /\ ResultOf(t, h) = "pending"
        /\ \A g \in Groups : g # h => ResultOf(t, g) = ResultOf(s, g)
        /\ c.given = b.given /\ c.out = b.out

Implements(s, b, t, c) ==
    Deciding(s, b, t, c) \/ Leaving(s, b, t, c) \/ Giving(s, b, t, c) \/ Accepting(s, b, t, c)

LEMMA PendingIsActive ==
    ASSUME NEW s, NEW n \in Nat, Lane(s), Verdicts(s, n), NEW g \in Groups
    PROVE  /\ ResultOf(s, g) = "pending" <=> Active(s) /\ s.group = g
           /\ ResultOf(s, g) \in Transfer!Verdicts
<1>1. g # 0 /\ History(s, n)
    BY GroupFacts DEF Verdicts
<1>2. CASE Active(s) /\ s.group = g
    BY <1>1, <1>2, ResultFacts DEF Transfer!Verdicts
<1>3. ASSUME ~(Active(s) /\ s.group = g)
      PROVE  ResultOf(s, g) \in Transfer!Decided \cup {"unknown"}
    <2>1. CASE s.lastFailed = g
        BY <1>1, <1>3, <2>1, ResultFacts DEF Transfer!Decided
    <2>2. CASE s.lastFailed # g /\ s.group = g
        BY <1>1, <1>3, <2>2, ResultFacts DEF Verdicts
    <2>3. ASSUME s.lastFailed # g, s.group # g, NEW i \in Slots, s.history[i].group = g
          PROVE  ResultOf(s, g) \in Transfer!Decided
        BY <1>1, <1>3, <2>3, ResultFacts DEF History
    <2>4. CASE s.lastFailed # g /\ s.group # g /\ \A i \in Slots : s.history[i].group # g
        BY <1>1, <1>3, <2>4, ResultFacts
    <2> QED
        BY <2>1, <2>2, <2>3, <2>4
<1> QED
    BY <1>2, <1>3 DEF Transfer!Decided, Transfer!Verdicts

LEMMA OutcomeStep ==
    ASSUME NEW s, NEW b, NEW t, NEW n \in Nat, Good(s, b, n), Outcome(s, b, t)
    PROVE  Good(t, b, n) /\ Deciding(s, b, t, b)
<1>1. Lane(s) /\ Verdicts(s, n) /\ Wire(b, n) /\ (Active(s) => Lockstep(s, b))
    BY DEF Good
<1>2. \A g \in Groups : g # 0
    BY GroupFacts
<1>3. CASE GoesOn(s, t) /\ (Active(s) /\ Awaiting(s) => Awaiting(t) \/ b.tx = NoFrame)
    <2>1. Lane(t) /\ Same(s, t) /\ (Active(s) => GivenBy(t) = GivenBy(s))
        BY <1>3 DEF GoesOn
    <2>2. Verdicts(t, n) /\ SameTold(s, t)
        BY <1>1, <1>2, <2>1, GoesOnVerdicts DEF SameTold
    <2>3. Active(t) => Lockstep(t, b)
        <3> SUFFICES ASSUME Active(t) PROVE Lockstep(t, b)
            OBVIOUS
        <3>1. Active(s) /\ Lockstep(s, b) /\ t.group = s.group /\ s.group # 0
            BY <1>1, <2>1, ActiveFacts DEF Same
        <3>2. b.tx = NoFrame => b.tx.group = 0
            BY DEF NoFrame
        <3> QED
            BY <1>3, <2>1, <3>1, <3>2 DEF Lockstep
    <2> QED
        BY <1>1, <2>1, <2>2, <2>3 DEF Good, Deciding, SameTold, Revised
<1>4. ASSUME NEW v \in Transfer!Decided, Ends(s, t, v),
             v = "complete" => ~Awaiting(s) \/ b.tx = NoFrame
      PROVE  Good(t, b, n) /\ Deciding(s, b, t, b)
    <2> DEFINE g == s.group
    <2>1. Active(s) /\ g \in Groups /\ g # 0 /\ Lane(t) /\ ~Active(t) /\ Lockstep(s, b)
        BY <1>1, <1>4, EndsFacts, ActiveFacts DEF Ends
    <2>2. /\ Verdicts(t, n)
          /\ ResultOf(s, g) = "pending" /\ ResultOf(t, g) = v
          /\ \A h : h # 0 /\ h # g => Revised(ResultOf(s, h), ResultOf(t, h))
        BY <1>1, <1>4, EndsVerdicts
    <2>3. v = "complete" => Len(b.out[g]) = Len(Plan[g])
        <3> SUFFICES ASSUME v = "complete" PROVE Len(b.out[g]) = Len(Plan[g])
            OBVIOUS
        <3>1. b.tx.group # g
            BY <1>4, <2>1 DEF Lockstep, NoFrame
        <3> QED
            BY <1>4, <2>1, <3>1 DEF Lockstep, Ends
    <2>4. ASSUME NEW h \in Groups
          PROVE  \/ Revised(ResultOf(s, h), ResultOf(t, h))
                 \/ /\ ResultOf(s, h) = "pending" /\ ResultOf(t, h) \in Transfer!Decided
                    /\ ResultOf(t, h) = "complete" => Len(b.out[h]) = Len(Plan[h])
        BY <1>2, <1>4, <2>2, <2>3
    <2> QED
        BY <1>1, <2>1, <2>2, <2>4 DEF Good, Deciding
<1> QED
    BY <1>3, <1>4 DEF Outcome

LEMMA EffectStep ==
    ASSUME NEW s, NEW b, NEW t, NEW c, NEW n \in Nat, Good(s, b, n), Effect(s, b, t, c)
    PROVE  Good(t, c, n) /\ Implements(s, b, t, c)
<1>1. CASE c = b /\ Outcome(s, b, t)
    BY <1>1, OutcomeStep DEF Implements
<1>2. ASSUME NEW r \in Results(b), Sent(r), GivesNext(s, b, t),
             c = Give(b, Frame(s.group, GivenBy(s) + 1), r)
      PROVE  Good(t, c, n) /\ Giving(s, b, t, c)
    <2> DEFINE g == s.group
    <2>1. /\ Lane(s) /\ Verdicts(s, n) /\ Wire(b, n) /\ Active(s) /\ Lockstep(s, b)
          /\ (~Awaiting(s) \/ b.tx = NoFrame)
          /\ Lane(t) /\ Same(s, t) /\ Awaiting(t)
          /\ GivenBy(t) = GivenBy(s) + 1 /\ GivenBy(s) < Len(Plan[g])
        BY <1>2 DEF Good, GivesNext
    <2>2. g \in Groups /\ g # 0 /\ ~(g > n)
        BY <2>1, ActiveFacts DEF Verdicts
    <2>3. /\ b.tx.group # g /\ Len(b.given[g]) = GivenBy(s)
          /\ Len(b.given[g]) = Len(b.out[g])
        BY <2>1, <2>2 DEF Lockstep, NoFrame
    <2>4. c = Give(b, Frame(g, Len(b.given[g]) + 1), r)
        BY <1>2, <2>3
    <2>5. /\ Wire(c, n) /\ c.given = Grown(b.given, g) /\ c.out = Before(b, r).out
          /\ c.tx.group = g
          /\ Len(c.given[g]) = Len(b.given[g]) + 1 /\ Len(c.out[g]) = Len(b.out[g])
        <3> HIDE DEF g
        <3>1. r \in Results(b) /\ Sent(r) /\ Wire(b, n)
            BY <1>2, <2>1
        <3> QED
            BY ZenonT(60), <2>2, <2>3, <2>4, <3>1, GiveFrameFacts
    <2>6. /\ Verdicts(t, n) /\ SameTold(s, t)
        BY <2>1, GoesOnVerdicts, GroupFacts DEF SameTold
    <2>7. Active(t) /\ t.group = g
        BY <2>1 DEF Same
    <2>8. Lockstep(t, c)
        BY <2>1, <2>3, <2>5, <2>7 DEF Lockstep
    <2>9. \/ c.out = b.out
          \/ \E h \in Groups : Leaves(b, c, h) /\ ResultOf(s, h) # "pending"
        <3>1. CASE b.tx.group = 0
            BY <1>2, <2>1, <2>5, <3>1, BeforeFacts
        <3>2. CASE b.tx.group # 0
            <4>1. /\ b.tx.group \in Groups /\ Leaves(b, c, b.tx.group)
                BY <1>2, <2>1, <2>5, <3>2, BeforeFacts DEF Leaves
            <4>2. ResultOf(s, b.tx.group) # "pending"
                BY <2>1, <2>3, <4>1, PendingIsActive
            <4> QED
                BY <4>1, <4>2
        <3> QED
            BY <3>1, <3>2
    <2>10. ResultOf(s, g) = "pending"
        BY <2>1, <2>2, PendingIsActive
    <2>11. Giving(s, b, t, c)
        BY <2>1, <2>2, <2>3, <2>5, <2>6, <2>9, <2>10 DEF Giving
    <2> QED
        BY <2>1, <2>5, <2>6, <2>8, <2>11 DEF Good
<1> QED
    BY <1>1, <1>2 DEF Effect, Implements

-----------------------------------------------------------------------------
(* The steps of a call.                                                    *)
LEMMA ClearsStep ==
    ASSUME NEW s, NEW b, NEW t, NEW c, NEW n \in Nat, Good(s, b, n), Clears(s, t),
           c \in {b, Reset(b)}
    PROVE  Good(t, c, n) /\ Deciding(s, b, t, c) /\ (~Active(s) => SameTold(s, t))
<1>1. Lane(s) /\ Verdicts(s, n) /\ Wire(b, n)
    BY DEF Good
<1>2. c.given = b.given /\ c.out = b.out /\ Wire(c, n)
    <2>1. CASE c = b
        BY <1>1, <2>1
    <2>2. CASE c = Reset(b)
        <3>1. DOMAIN c = BusFields /\ c.tx = NoFrame /\ c.given = b.given /\ c.out = b.out
            BY <1>1, <2>2, WireFacts DEF Reset, BusFields
        <3>2. c.tx.group = 0
            BY <3>1 DEF NoFrame
        <3> QED
            BY <1>1, <3>1, <3>2, WireFacts
    <2> QED
        BY <2>1, <2>2
<1>3. Lane(t) /\ ~Active(t)
    BY ClearsLane
<1>4. CASE Active(s)
    <2>1. /\ Verdicts(t, n)
          /\ ResultOf(s, s.group) = "pending" /\ ResultOf(t, s.group) = "cancelled"
          /\ \A h : h # 0 /\ h # s.group => Revised(ResultOf(s, h), ResultOf(t, h))
        BY <1>1, <1>4, ClearsActive
    <2> QED
        BY <1>2, <1>3, <1>4, <2>1, GroupFacts DEF Good, Deciding, Transfer!Decided
<1>5. CASE ~Active(s)
    <2>1. Verdicts(t, n) /\ SameTold(s, t)
        BY <1>1, <1>5, ClearsInactive, GroupFacts DEF SameTold
    <2> QED
        BY <1>2, <1>3, <1>5, <2>1 DEF Good, Deciding, SameTold, Revised
<1> QED
    BY <1>4, <1>5

LEMMA PollHealthStep ==
    ASSUME IInv, NEW ok \in BOOLEAN, PollHealth(ok)
    PROVE  Good(svc', bus', requests.groups) /\ Deciding(svc, bus, svc', bus')
<1> DEFINE n == requests.groups
           p == Polled(svc, bus)
<1>1. Lane(svc) /\ Good(svc, bus, n) /\ n \in Nat
    BY DEF IInv, Good
<1>2. Good(p, bus, n) /\ Deciding(svc, bus, p, bus)
    BY <1>1, PolledOutcome, OutcomeStep
<1>3. CASE ~RecoveryDue(p)
    BY <1>2, <1>3 DEF PollHealth
<1>4. CASE RecoveryDue(p)
    <2>1. svc' = Rebuilt(Clear(p), ok) /\ bus' = Reset(bus)
        BY <1>4 DEF PollHealth
    <2>2. ~Active(p) /\ Lane(p)
        BY <1>2, <1>4 DEF RecoveryDue, RealtimeIdle, Good
    <2>3. Clears(p, svc')
        BY <2>1, <2>2, ClearClears
    <2>4. /\ Good(svc', bus', n) /\ Deciding(p, bus, svc', bus') /\ SameTold(p, svc')
        BY <1>1, <1>2, <2>1, <2>2, <2>3, ClearsStep
    <2> QED
        BY <1>2, <2>4 DEF Deciding, SameTold
<1> QED
    BY <1>3, <1>4

LEMMA ProcessQueueStep ==
    ASSUME IInv, NEW r \in Results(bus), ProcessQueue(r)
    PROVE  Effect(svc, bus, svc', bus')
<1> DEFINE s == Reap(svc, bus)
           late == s.sync /\ TimedOut(s)
           t == IF late THEN Landed(s) ELSE s
           x == StartSync(Finalize(t), bus, r)
<1>1. Lane(svc) /\ Lane(s) /\ Outcome(svc, bus, s)
    BY ReapOutcome, OutcomeLane DEF IInv, Good
<1>2. CASE ~svc.normal
    BY <1>1, <1>2, OutcomeItself DEF ProcessQueue
<1> HIDE DEF s
<1>3. ASSUME late
      PROVE  t.inFlight = NoFrame /\ GoesOn(s, t) /\ Lane(t)
    BY <1>1, <1>3, LandedGoesOn, LandedFacts DEF Lane, GoesOn
<1>4. CASE svc.normal /\ late /\ Active(t)
    <2>1. svc' = FailWithoutRequest(t) /\ bus' = bus
        BY <1>4 DEF ProcessQueue, s
    <2>2. Ends(t, svc', "failed")
        BY <1>3, <1>4, <2>1, FailGroupEnds DEF FailWithoutRequest
    <2>3. Ends(s, svc', "failed")
        BY <1>1, <1>3, <1>4, <2>2, GoesOnToEnd
    <2>4. Outcome(s, bus, svc')
        BY <2>3 DEF Outcome, Transfer!Decided
    <2> QED
        BY <1>1, <2>1, <2>4, OutcomeThenOutcome DEF Effect
<1>5. ASSUME ~(late /\ Active(t))
      PROVE  Lane(t) /\ Outcome(s, bus, t)
    <2>1. CASE late
        BY <1>3, <1>5, <2>1 DEF Outcome, GoesOn, Same
    <2>2. CASE ~late
        BY <1>1, <2>2, OutcomeItself
    <2> QED
        BY <2>1, <2>2
<1>6. CASE svc.normal /\ ~(late /\ Active(t)) /\ t.inFlight # NoFrame /\ TimedOut(t)
    <2>1. svc' = FailGroup(t, t.inFlight.group) /\ bus' = bus
        BY <1>6 DEF ProcessQueue, s
    <2>2. Lane(t) /\ Outcome(s, bus, t) /\ Active(t) /\ t.inFlight.group = t.group
        BY <1>5, <1>6, ActiveFacts DEF Lane, Empty
    <2> HIDE DEF t
    <2>3. Outcome(t, bus, svc')
        BY <2>1, <2>2, FailOutcome
    <2> QED
        BY <1>1, <2>1, <2>2, <2>3, OutcomeThenOutcome DEF Effect
<1>7. CASE /\ svc.normal /\ ~(late /\ Active(t))
           /\ ~(t.inFlight # NoFrame /\ TimedOut(t))
    <2>1. svc' = x.s /\ bus' = x.b
        BY <1>7 DEF ProcessQueue, s
    <2>2. Lane(t) /\ Outcome(s, bus, t)
        BY <1>5, <1>7
    <2> HIDE DEF t
    <2>3. Outcome(t, bus, Finalize(t)) /\ Lane(Finalize(t))
        BY <2>2, FinalizeOutcome, OutcomeLane
    <2>4. Effect(Finalize(t), bus, x.s, x.b)
        BY <2>3, StartSyncEffect
    <2>5. Effect(t, bus, x.s, x.b)
        BY <2>2, <2>3, <2>4, OutcomeThenEffect
    <2>6. Effect(s, bus, x.s, x.b)
        BY <1>1, <2>2, <2>5, OutcomeThenEffect
    <2> QED
        BY <1>1, <2>1, <2>6, OutcomeThenEffect
<1> QED
    BY <1>2, <1>4, <1>6, <1>7

LEMMA EndBurstEffect ==
    ASSUME NEW s, Lane(s), NEW r \in Results(bus), EndBurst(s, r)
    PROVE  Effect(s, bus, svc', bus')
BY SyncOrFinalize DEF EndBurst

LEMMA SendFrameStep ==
    ASSUME IInv, NEW r \in Results(bus), SendFrame(r)
    PROVE  Effect(svc, bus, svc', bus')
<1>1. Lane(svc)
    BY DEF IInv, Good
<1>2. CASE ~MayStart(svc)
    <2>1. EndBurst(svc, r)
        BY <1>2 DEF SendFrame
    <2> QED
        BY <1>1, <2>1, EndBurstEffect
<1>3. CASE MayStart(svc) /\ OutOfOrder(svc)
    <2> DEFINE f == FailGroup(svc, Head(svc.queue).group)
    <2>1. EndBurst(f, r)
        BY <1>3 DEF SendFrame
    <2>2. Active(svc) /\ Head(svc.queue).group = svc.group
        BY <1>1, <1>3, ActiveFacts DEF MayStart, Lane, Empty
    <2>3. Outcome(svc, bus, f) /\ Lane(f)
        BY <1>1, <2>2, FailOutcome, OutcomeLane
    <2>4. Effect(f, bus, svc', bus')
        BY <2>1, <2>3, EndBurstEffect
    <2> QED
        BY <1>1, <2>3, <2>4, OutcomeThenEffect
<1>4. CASE MayStart(svc) /\ ~OutOfOrder(svc) /\ TooEarly(svc)
    <2>1. EndBurst(svc, r)
        BY <1>4 DEF SendFrame
    <2> QED
        BY <1>1, <2>1, EndBurstEffect
<1>5. CASE MayStart(svc) /\ ~OutOfOrder(svc) /\ ~TooEarly(svc) /\ Sent(r)
    <2>1. svc' = Submitted(svc, r) /\ bus' = Give(bus, Head(svc.queue), r)
        BY <1>5 DEF SendFrame
    <2> QED
        BY <1>1, <1>5, <2>1, SubmittedEffect
<1>6. CASE MayStart(svc) /\ ~OutOfOrder(svc) /\ ~TooEarly(svc) /\ ~Sent(r)
    <2>1. EndBurst(Refused(svc, r), r)
        BY <1>6 DEF SendFrame
    <2>2. Outcome(svc, bus, Refused(svc, r)) /\ Lane(Refused(svc, r))
        BY <1>1, <1>6, RefusedOutcome, OutcomeLane
    <2>3. Effect(Refused(svc, r), bus, svc', bus')
        BY <2>1, <2>2, EndBurstEffect
    <2> QED
        BY <1>1, <2>2, <2>3, OutcomeThenEffect
<1> QED
    BY <1>2, <1>3, <1>4, <1>5, <1>6

LEMMA AfterFrameStep ==
    ASSUME IInv, NEW r \in Results(bus), AfterFrame(r)
    PROVE  Effect(svc, bus, svc', bus')
<1> DEFINE s == Reap(svc, bus)
           x == StartSync(s, bus, r)
           on == s.inFlight = NoFrame /\ ~s.sync /\ s.state \notin {"failed", "cancelled"}
<1>1. Lane(svc) /\ Lane(s) /\ Outcome(svc, bus, s)
    BY ReapOutcome, OutcomeLane DEF IInv, Good
<1>2. CASE ~on
    <2>1. svc' = s /\ bus' = bus
        BY <1>2 DEF AfterFrame
    <2> QED
        BY <1>1, <2>1 DEF Effect
<1>3. CASE on
    <2>1. svc' = (IF x.sent THEN x.s ELSE Finalize(x.s)) /\ bus' = x.b
        BY <1>3 DEF AfterFrame
    <2> HIDE DEF s
    <2>2. Effect(s, bus, svc', bus')
        BY <1>1, <2>1, SyncOrFinalize
    <2> QED
        BY <1>1, <2>2, OutcomeThenEffect
<1> QED
    BY <1>2, <1>3

-----------------------------------------------------------------------------
(* What the devices ask for, the controller and the clock.                  *)
LEMMA InactiveStep ==
    ASSUME NEW s, NEW b, NEW t, NEW c, NEW n \in Nat, Good(s, b, n), ~Active(s),
           Lane(t), Same(s, t), Wire(c, n), c.given = b.given
    PROVE  /\ Good(t, c, n) /\ SameTold(s, t)
           /\ c.out = b.out => Deciding(s, b, t, c)
<1>1. Lane(s) /\ Verdicts(s, n)
    BY DEF Good
<1>2. Verdicts(t, n) /\ SameTold(s, t)
    BY <1>1, GoesOnVerdicts, GroupFacts DEF SameTold
<1>3. ~Active(t)
    BY DEF Same
<1> QED
    BY <1>2, <1>3 DEF Good, Deciding, SameTold, Revised

(* A frame of no group is given while no group is active.                   *)
LEMMA OtherFrameStep ==
    ASSUME NEW s, NEW b, NEW t, NEW n \in Nat, Good(s, b, n), ~Active(s),
           Lane(t), Same(s, t), NEW r \in Results(b), Sent(r)
    PROVE  Good(t, Give(b, Other, r), n) /\ Implements(s, b, t, Give(b, Other, r))
<1> DEFINE c == Give(b, Other, r)
<1>1. Wire(b, n)
    BY DEF Good
<1>2. /\ Wire(c, n) /\ c.given = b.given /\ c.out = Before(b, r).out
    BY <1>1, GiveOtherFacts
<1> HIDE DEF c
<1>3. Good(t, c, n) /\ SameTold(s, t) /\ (c.out = b.out => Deciding(s, b, t, c))
    BY <1>2, InactiveStep
<1>4. CASE b.tx.group = 0
    <2>1. c.out = b.out
        BY <1>1, <1>2, <1>4, BeforeFacts
    <2> QED
        BY <1>3, <2>1 DEF Implements, c
<1>5. CASE b.tx.group # 0
    <2>1. b.tx.group \in Groups /\ Leaves(b, c, b.tx.group)
        BY <1>1, <1>2, <1>5, BeforeFacts DEF Leaves
    <2> QED
        BY <1>2, <1>3, <2>1 DEF Implements, Leaving, c
<1> QED
    BY <1>4, <1>5

(* The service with other SYNC bookkeeping, no group being active.          *)
LEMMA SyncFieldsSame ==
    ASSUME NEW s, Lane(s), ~Active(s), NEW t, DOMAIN t = Fields,
           t.queue = s.queue, t.inFlight = s.inFlight, Told(t) = Told(s)
    PROVE  Lane(t) /\ Same(s, t)
BY DEF Lane, Empty, Same, Told, Active

LEMMA SendFeedbackSyncStep ==
    ASSUME IInv, NEW r \in Results(bus), SendFeedbackSync(r)
    PROVE  Good(svc', bus', requests.groups) /\ Implements(svc, bus, svc', bus')
<1>1. /\ Good(svc, bus, requests.groups) /\ requests.groups \in Nat /\ Lane(svc)
      /\ ~Active(svc) /\ Sent(r) /\ bus' = Give(bus, Other, r)
      /\ svc' = [svc EXCEPT !.seen = @ \/ (r = "late" /\ svc.sync)]
    BY DEF IInv, Good, SendFeedbackSync, LaneFree
<1>2. /\ DOMAIN svc' = Fields /\ svc'.queue = svc.queue /\ svc'.inFlight = svc.inFlight
      /\ Told(svc') = Told(svc)
    BY <1>1 DEF Lane, Fields, Told
<1>3. Lane(svc') /\ Same(svc, svc')
    BY <1>1, <1>2, SyncFieldsSame
<1> QED
    BY <1>1, <1>3, OtherFrameStep

LEMMA SendSyncStep ==
    ASSUME IInv, NEW r \in Results(bus), SendSync(r)
    PROVE  Good(svc', bus', requests.groups) /\ Implements(svc, bus, svc', bus')
<1>1. /\ Good(svc, bus, requests.groups) /\ requests.groups \in Nat /\ Lane(svc)
      /\ ~Active(svc) /\ Sent(r) /\ bus' = Give(bus, Other, r)
      /\ svc' = [svc EXCEPT !.sync = TRUE, !.age = 0, !.seen = r = "late"]
    BY DEF IInv, Good, SendSync, LaneFree
<1>2. /\ DOMAIN svc' = Fields /\ svc'.queue = svc.queue /\ svc'.inFlight = svc.inFlight
      /\ Told(svc') = Told(svc)
    BY <1>1 DEF Lane, Fields, Told
<1>3. Lane(svc') /\ Same(svc, svc')
    BY <1>1, <1>2, SyncFieldsSame
<1> QED
    BY <1>1, <1>3, OtherFrameStep

LEMMA RequestNmtStep ==
    ASSUME IInv, RequestNmt
    PROVE  Good(svc', bus', requests.groups) /\ Implements(svc, bus, svc', bus')
<1>1. /\ Good(svc, bus, requests.groups) /\ requests.groups \in Nat /\ Lane(svc)
      /\ ~Active(svc) /\ bus' = Give(bus, Other, "ok") /\ svc' = svc
      /\ "ok" \in Results(bus) /\ Sent("ok")
    BY DEF IInv, Good, RequestNmt, RealtimeIdle, NmtSent, Sent
<1>2. Same(svc, svc)
    BY DEF Same
<1> QED
    BY <1>1, <1>2, OtherFrameStep

LEMMA BackgroundStep ==
    ASSUME IInv, NEW ends \in BOOLEAN, NEW f \in {NoFrame, Other}, Background(ends, f)
    PROVE  Good(svc', bus', requests.groups) /\ Deciding(svc, bus, svc', bus')
<1>1. /\ Good(svc, bus, requests.groups) /\ requests.groups \in Nat /\ Lane(svc)
      /\ Wire(bus, requests.groups)
      /\ ~Active(svc) /\ bus' = [bus EXCEPT !.tx = f] /\ svc' = svc
    BY DEF IInv, Good, Background, RealtimeIdle
<1>2. /\ DOMAIN bus' = BusFields /\ bus'.tx = f /\ bus'.given = bus.given
      /\ bus'.out = bus.out
    BY <1>1, WireFacts DEF BusFields
<1>3. f.group = 0
    BY DEF NoFrame, Other
<1>4. Wire(bus', requests.groups)
    BY <1>1, <1>2, <1>3, WireFacts
<1>5. Same(svc, svc)
    BY DEF Same
<1> QED
    BY <1>1, <1>2, <1>4, <1>5, InactiveStep

LEMMA CancelRealtimeStep ==
    ASSUME IInv, CancelRealtime
    PROVE  Good(svc', bus', requests.groups) /\ Deciding(svc, bus, svc', bus')
<1>1. /\ Good(svc, bus, requests.groups) /\ requests.groups \in Nat /\ Lane(svc)
      /\ svc' = Clear(svc) /\ bus' = bus
    BY DEF IInv, Good, CancelRealtime
<1> QED
    BY <1>1, ClearClears, ClearsStep

LEMMA RecoverTransportStep ==
    ASSUME IInv, NEW ok \in BOOLEAN, RecoverTransport(ok)
    PROVE  Good(svc', bus', requests.groups) /\ Deciding(svc, bus, svc', bus')
<1>1. /\ Good(svc, bus, requests.groups) /\ requests.groups \in Nat /\ Lane(svc)
      /\ svc' = Rebuilt(Clear(svc), ok) /\ bus' = Reset(bus)
    BY DEF IInv, Good, RecoverTransport
<1>2. Clears(svc, svc')
    BY <1>1, ClearClears
<1> QED
    BY <1>1, <1>2, ClearsStep

LEMMA CancelGroupStep ==
    ASSUME IInv, NEW g \in Groups, CancelGroup(g)
    PROVE  Good(svc', bus', requests.groups) /\ Deciding(svc, bus, svc', bus')
<1> DEFINE n == requests.groups
<1>1. /\ Good(svc, bus, n) /\ n \in Nat /\ Lane(svc) /\ Verdicts(svc, n) /\ Wire(bus, n)
      /\ svc' = Cancelled(svc, g) /\ bus' = bus
    BY DEF IInv, Good, CancelGroup
<1>2. CASE Outcome(svc, bus, svc')
    BY <1>1, <1>2, OutcomeStep
<1>3. CASE Revokes(svc, svc')
    <2>1. /\ Lane(svc') /\ ~Active(svc') /\ Verdicts(svc', n)
          /\ \A h : h # 0 => Revised(ResultOf(svc, h), ResultOf(svc', h))
        BY <1>1, <1>3, RevokesVerdicts
    <2> QED
        BY <1>1, <2>1, GroupFacts DEF Good, Deciding
<1> QED
    BY <1>1, <1>2, <1>3, CancelledOutcome

LEMMA QueueGroupStep ==
    ASSUME IInv, NEW g \in Groups, QueueGroup(g)
    PROVE  /\ requests'.groups = requests.groups + 1 /\ DOMAIN requests' = DOMAIN requests
           /\ Good(svc', bus', requests.groups + 1) /\ Accepting(svc, bus, svc', bus')
<1> DEFINE n == requests.groups
<1>1. /\ DOMAIN requests = {"groups", "writes"} /\ n \in Nat
      /\ Good(svc, bus, n) /\ Lane(svc) /\ Verdicts(svc, n) /\ Wire(bus, n)
      /\ ~Active(svc) /\ svc.normal /\ g = n + 1
      /\ svc' = Begun(svc, g) /\ bus' = bus /\ requests' = [requests EXCEPT !.groups = g]
    BY DEF IInv, Good, QueueGroup, CanAccept
<1>2. requests'.groups = n + 1 /\ DOMAIN requests' = DOMAIN requests
    BY <1>1
<1>3. /\ Lane(svc') /\ Active(svc') /\ GivenBy(svc') = 0 /\ svc'.group = g
      /\ svc'.history = svc.history /\ svc'.slot = svc.slot
      /\ svc'.lastFailed = svc.lastFailed
    BY <1>1, BegunFacts
<1> HIDE DEF n
<1>4. /\ Verdicts(svc', n + 1)
      /\ ResultOf(svc, g) = "unknown" /\ ResultOf(svc', g) = "pending"
      /\ \A h : h # 0 /\ h # g => ResultOf(svc', h) = ResultOf(svc, h)
    BY <1>1, <1>3, BegunVerdicts
<1>5. /\ Places(bus.given) /\ Places(bus.out) /\ bus.given[g] = <<>>
      /\ Len(bus.out[g]) <= Len(bus.given[g])
      /\ bus.tx.group = g => /\ bus.tx.at = Len(bus.out[g]) + 1
                             /\ bus.tx.at <= Len(bus.given[g])
    BY <1>1, WireFacts, GroupFacts
<1>6. Len(bus.given[g]) = 0 /\ Len(bus.out[g]) = 0
    BY <1>5 DEF Places
<1>7. Lockstep(svc', bus)
    BY <1>3, <1>5, <1>6 DEF Lockstep
<1>8. Wire(bus, n + 1)
    <2>1. \A h \in Groups : h > n + 1 => h > n
        BY <1>1, GroupFacts
    <2> QED
        BY <1>1, <2>1 DEF Wire
<1>9. Good(svc', bus', n + 1)
    BY <1>1, <1>3, <1>4, <1>7, <1>8 DEF Good
<1>10. \A h \in Groups : ResultOf(svc, h) # "pending"
    BY <1>1, PendingIsActive
<1>11. Accepting(svc, bus, svc', bus')
    BY <1>1, <1>4, <1>5, <1>10, GroupFacts DEF Accepting
<1> QED
    BY <1>2, <1>9, <1>11 DEF n

LEMMA TickStep ==
    ASSUME IInv, Tick
    PROVE  Good(svc', bus', requests.groups) /\ Deciding(svc, bus, svc', bus')
<1>1. Good(svc, bus, requests.groups) /\ Lane(svc) /\ requests.groups \in Nat /\ bus' = bus
    BY DEF IInv, Good, Tick
<1>2. /\ DOMAIN svc' = Fields /\ svc'.queue = svc.queue /\ svc'.inFlight = svc.inFlight
      /\ svc'.sync = svc.sync /\ Counted(svc') = Counted(svc) /\ Told(svc') = Told(svc)
      /\ svc'.normal = svc.normal
    BY <1>1 DEF Tick, Lane, Fields, Counted, Told
<1>3. Outcome(svc, bus, svc')
    BY <1>1, <1>2, TransportGoesOn
<1> QED
    BY <1>1, <1>3, OutcomeStep

LEMMA TxDoneStep ==
    ASSUME IInv, NEW counted \in BOOLEAN, TxDone(counted)
    PROVE  Good(svc', bus', requests.groups) /\ Implements(svc, bus, svc', bus')
<1> DEFINE n == requests.groups
           h == bus.tx.group
<1>1. /\ Good(svc, bus, n) /\ Lane(svc) /\ Verdicts(svc, n) /\ Wire(bus, n) /\ n \in Nat
      /\ Active(svc) => Lockstep(svc, bus)
      /\ bus' = Leave(bus)
      /\ svc' = [svc EXCEPT !.seen = @ \/ (counted /\ Awaiting(svc))]
    BY DEF IInv, Good, TxDone
<1>2. /\ DOMAIN svc' = Fields /\ svc'.queue = svc.queue /\ svc'.inFlight = svc.inFlight
      /\ svc'.sync = svc.sync /\ Counted(svc') = Counted(svc) /\ Told(svc') = Told(svc)
      /\ svc'.normal = svc.normal
    BY <1>1 DEF Lane, Fields, Counted, Told
<1>3. GoesOn(svc, svc') /\ Lane(svc') /\ Same(svc, svc')
    <2>1. Outcome(svc, bus, svc') /\ (Active(svc') <=> Active(svc))
        BY <1>1, <1>2, TransportGoesOn
    <2>2. GoesOn(svc, svc')
        BY <2>1, EndsFacts DEF Outcome, Ends
    <2> QED
        BY <2>2 DEF GoesOn
<1>4. Verdicts(svc', n) /\ SameTold(svc, svc')
    BY <1>1, <1>3, GoesOnVerdicts, GroupFacts DEF SameTold
<1>5. /\ Wire(bus', n) /\ bus'.tx = NoFrame /\ bus'.given = bus.given
      /\ h = 0 => bus'.out = bus.out
      /\ h # 0 => h \in Groups /\ Leaves(bus, bus', h)
    BY <1>1, LeaveFacts DEF Leaves
<1>6. ASSUME Active(svc')
      PROVE  Lockstep(svc', bus')
    <2> DEFINE g == svc.group
    <2>1. /\ Active(svc) /\ g \in Groups /\ g # 0 /\ svc'.group = g
          /\ GivenBy(svc') = GivenBy(svc) /\ Lockstep(svc, bus)
        BY <1>1, <1>3, <1>6, ActiveFacts DEF GoesOn, Same
    <2>2. bus'.tx.group # g
        BY <1>5, <2>1 DEF NoFrame
    <2>3. Places(bus.out)
        BY <1>1, WireFacts
    <2>4. CASE h = g
        <3>1. Len(bus'.out[g]) = Len(bus.out[g]) + 1
            BY <1>5, <2>1, <2>3, <2>4, GrownFacts DEF Leaves
        <3> QED
            BY <1>5, <2>1, <2>2, <2>4, <3>1 DEF Lockstep
    <2>5. CASE h # g
        <3>1. bus'.out[g] = bus.out[g]
            BY <1>5, <2>1, <2>3, <2>5, GrownFacts DEF Leaves
        <3> QED
            BY <1>5, <2>1, <2>2, <2>5, <3>1 DEF Lockstep
    <2> QED
        BY <2>4, <2>5
<1>7. Good(svc', bus', n)
    BY <1>3, <1>4, <1>5, <1>6 DEF Good
<1>8. Implements(svc, bus, svc', bus')
    BY <1>4, <1>5 DEF Implements, Deciding, Leaving, SameTold, Revised
<1> QED
    BY <1>7, <1>8

LEMMA BusStep ==
    ASSUME IInv, BusOff \/ BusBack
    PROVE  Good(svc', bus', requests.groups) /\ Deciding(svc, bus, svc', bus')
<1> DEFINE n == requests.groups
<1>1. /\ Lane(svc) /\ Verdicts(svc, n) /\ Wire(bus, n) /\ (Active(svc) => Lockstep(svc, bus))
      /\ svc' = svc /\ DOMAIN bus = BusFields
    BY WireFacts DEF IInv, Good, BusOff, BusBack
<1>2. /\ DOMAIN bus' = BusFields /\ bus'.tx = bus.tx /\ bus'.given = bus.given
      /\ bus'.out = bus.out
    BY <1>1 DEF BusOff, BusBack, BusFields
<1>3. Wire(bus', n)
    BY <1>1, <1>2 DEF Wire, BusFields
<1> QED
    BY <1>1, <1>2, <1>3 DEF Good, Lockstep, Deciding, Revised

-----------------------------------------------------------------------------
(* Every step.                                                             *)
LEMMA UntouchedStep ==
    ASSUME IInv, svc' = svc, bus' = bus
    PROVE  Good(svc', bus', requests.groups) /\ Implements(svc, bus, svc', bus')
BY DEF IInv, Implements, Deciding, Revised

LEMMA CallStep ==
    ASSUME IInv, Call
    PROVE  /\ Good(svc', bus', requests.groups) /\ Implements(svc, bus, svc', bus')
           /\ requests' = requests
<1>1. Good(svc, bus, requests.groups) /\ requests.groups \in Nat
    BY DEF IInv
<1>2. CASE \E ok \in BOOLEAN : PollHealth(ok)
    BY <1>2, PollHealthStep DEF Implements, PollHealth
<1>3. ASSUME NEW r \in Results(bus), ProcessQueue(r)
      PROVE  Effect(svc, bus, svc', bus') /\ requests' = requests
    BY <1>3, ProcessQueueStep DEF ProcessQueue
<1>4. ASSUME NEW r \in Results(bus), SendFrame(r)
      PROVE  Effect(svc, bus, svc', bus') /\ requests' = requests
    BY <1>4, SendFrameStep DEF SendFrame
<1>5. ASSUME NEW r \in Results(bus), AfterFrame(r)
      PROVE  Effect(svc, bus, svc', bus') /\ requests' = requests
    BY <1>5, AfterFrameStep DEF AfterFrame
<1>6. CASE Effect(svc, bus, svc', bus') /\ requests' = requests
    BY <1>1, <1>6, EffectStep
<1> QED
    BY <1>2, <1>3, <1>4, <1>5, <1>6 DEF Call

(* A step of a device other than the acceptance of a group.                 *)
LEMMA DeviceStep ==
    ASSUME IInv, Device, ~\E g \in Groups : QueueGroup(g)
    PROVE  /\ Good(svc', bus', requests.groups) /\ Implements(svc, bus, svc', bus')
           /\ requests'.groups = requests.groups /\ DOMAIN requests' = DOMAIN requests
<1>1. ASSUME NEW r \in Results(bus), SendFeedbackSync(r) \/ SendSync(r)
      PROVE  /\ Good(svc', bus', requests.groups) /\ Implements(svc, bus, svc', bus')
             /\ requests' = requests
    BY <1>1, SendFeedbackSyncStep, SendSyncStep DEF SendFeedbackSync, SendSync
<1>2. CASE CancelRealtime
    BY <1>2, CancelRealtimeStep DEF Implements, CancelRealtime
<1>3. ASSUME NEW ok \in BOOLEAN, RecoverTransport(ok)
      PROVE  /\ Good(svc', bus', requests.groups) /\ Implements(svc, bus, svc', bus')
             /\ requests' = requests
    BY <1>3, RecoverTransportStep DEF Implements, RecoverTransport
<1>4. ASSUME NEW g \in Groups, CancelGroup(g)
      PROVE  /\ Good(svc', bus', requests.groups) /\ Implements(svc, bus, svc', bus')
             /\ requests' = requests
    BY <1>4, CancelGroupStep DEF Implements, CancelGroup
<1>5. CASE RequestNmt
    BY <1>5, RequestNmtStep DEF RequestNmt
<1>6. ASSUME NEW k \in Keys, RequestWrite(k)
      PROVE  /\ Good(svc', bus', requests.groups) /\ Implements(svc, bus, svc', bus')
             /\ requests'.groups = requests.groups /\ DOMAIN requests' = DOMAIN requests
    <2>1. svc' = svc /\ bus' = bus
        BY <1>6 DEF RequestWrite
    <2>2. requests' = [requests EXCEPT !.writes = requests.writes + 1]
        BY <1>6 DEF RequestWrite
    <2>3. DOMAIN requests = {"groups", "writes"}
        BY DEF IInv
    <2> QED
        BY <2>1, <2>2, <2>3, UntouchedStep
<1>7. ASSUME NEW ends \in BOOLEAN, NEW f \in {NoFrame, Other}, Background(ends, f)
      PROVE  /\ Good(svc', bus', requests.groups) /\ Implements(svc, bus, svc', bus')
             /\ requests' = requests
    BY <1>7, BackgroundStep DEF Implements, Background
<1> QED
    BY <1>1, <1>2, <1>3, <1>4, <1>5, <1>6, <1>7 DEF Device

LEMMA StepFacts ==
    ASSUME IInv, [Next]_vars
    PROVE  /\ Good(svc', bus', requests'.groups) /\ Implements(svc, bus, svc', bus')
           /\ requests'.groups \in Nat /\ DOMAIN requests' = {"groups", "writes"}
<1>1. requests.groups \in Nat /\ DOMAIN requests = {"groups", "writes"}
    BY DEF IInv
<1>2. CASE Call
    BY <1>1, <1>2, CallStep
<1>3. CASE Device
    <2>1. ASSUME NEW g \in Groups, QueueGroup(g)
          PROVE  /\ Good(svc', bus', requests'.groups) /\ Implements(svc, bus, svc', bus')
                 /\ requests'.groups \in Nat /\ DOMAIN requests' = DOMAIN requests
        BY <1>1, <2>1, QueueGroupStep DEF Implements
    <2>2. CASE ~\E g \in Groups : QueueGroup(g)
        BY <1>1, <1>3, <2>2, DeviceStep
    <2> QED
        BY <1>1, <2>1, <2>2
<1>4. CASE Controller
    <2>1. ASSUME NEW counted \in BOOLEAN, TxDone(counted)
          PROVE  /\ Good(svc', bus', requests.groups) /\ Implements(svc, bus, svc', bus')
                 /\ requests' = requests
        BY <2>1, TxDoneStep DEF TxDone
    <2>2. ASSUME BusOff \/ BusBack
          PROVE  /\ Good(svc', bus', requests.groups) /\ Implements(svc, bus, svc', bus')
                 /\ requests' = requests
        <3>1. requests' = requests
            BY <2>2 DEF BusOff, BusBack
        <3> QED
            BY <2>2, <3>1, BusStep DEF Implements
    <2> QED
        BY <1>1, <1>4, <2>1, <2>2 DEF Controller
<1>5. CASE Tick
    BY <1>1, <1>5, TickStep DEF Implements, Tick
<1>6. CASE UNCHANGED vars
    BY <1>1, <1>6, UntouchedStep DEF vars
<1> QED
    BY <1>2, <1>3, <1>4, <1>5, <1>6 DEF Next

LEMMA NextHolds == IInv /\ [Next]_vars => IInv'
BY StepFacts DEF IInv

LEMMA InitHolds == Init => IInv
<1> SUFFICES ASSUME Init PROVE IInv
    OBVIOUS
<1>1. /\ requests.groups = 0 /\ DOMAIN requests = {"groups", "writes"}
    BY DEF Init
<1>2. /\ DOMAIN svc = Fields /\ svc.queue = <<>> /\ svc.inFlight = NoFrame /\ ~svc.sync
      /\ svc.group = 0 /\ svc.state = "idle" /\ svc.slot = 1 /\ svc.lastFailed = 0
      /\ svc.history = [i \in 1..HistoryCapacity |-> [group |-> 0, result |-> "unknown"]]
    BY DEF Init, Fields, Repeat
<1>3. Lane(svc) /\ ~Active(svc)
    BY <1>2 DEF Lane, Active, Empty
<1>4. Verdicts(svc, 0)
    <2>1. 1 \in Slots
        BY HistoryLimits
    <2>2. /\ DOMAIN svc.history = Slots
          /\ \A i \in Slots : svc.history[i].group = 0
        BY <1>2 DEF Slots
    <2>3. History(svc, 0)
        <3>1. svc.slot \in Slots
            BY <1>2, <2>1
        <3>2. \A i \in Slots : /\ svc.history[i].group \in 0..0
                              /\ ~(svc.history[i].group # 0)
            BY <2>2
        <3> QED
            BY <2>2, <3>1, <3>2 DEF History
    <2> QED
        BY <1>2, <1>3, <2>3 DEF Verdicts
<1>5. Wire(bus, 0)
    <2>1. Groups = 1..Cardinality(Groups)
        BY GroupAssumption
    <2>2. /\ DOMAIN bus = {"tx", "off", "given", "out"} /\ bus.tx = NoFrame
          /\ bus.given = [g \in Groups |-> <<>>] /\ bus.out = [g \in Groups |-> <<>>]
        BY <2>1 DEF Init, Repeat
    <2>3. Len(<<>>) = 0 /\ <<>> = Upto(0)
        BY UptoFacts
    <2> QED
        BY <2>2, <2>3 DEF Wire, NoFrame
<1> QED
    BY <1>1, <1>3, <1>4, <1>5 DEF IInv, Good

(* Counted frames, queue, record and wire agree in every state of the       *)
(* master, whatever the interrupt counts and whenever a call is interrupted. *)
THEOREM Invariance == Spec => []IInv
<1>1. Init => IInv
    BY InitHolds
<1>2. IInv /\ [Next]_vars => IInv'
    BY NextHolds
<1> QED
    BY <1>1, <1>2, PTL DEF Spec

(* What process_pdo_tx_queue relies on without a test is so: while a group   *)
(* is active the transport is usable, the queue holds its frames only, and   *)
(* the frame in flight is the head of the queue.                            *)
THEOREM LaneConsistentHolds == Spec => []LaneConsistent
<1>1. ASSUME IInv
      PROVE  LaneConsistent
    <2>1. Lane(svc)
        BY <1>1 DEF IInv, Good
    <2>2. CASE Active(svc)
        BY <2>1, <2>2, ActiveFacts DEF LaneConsistent, Lane
    <2>3. CASE ~Active(svc)
        BY <2>1, <2>3 DEF LaneConsistent, Lane, Empty
    <2> QED
        BY <2>2, <2>3
<1> QED
    BY <1>1, Invariance, PTL

-----------------------------------------------------------------------------
(* The refinement of PdoTransfer.                                          *)
told == [g \in Groups |-> Result(g)]
planned == [g \in Groups |-> Len(Plan[g])]

LEMMA ToldIs ==
    ASSUME NEW g \in Groups
    PROVE  told[g] = ResultOf(svc, g) /\ told'[g] = ResultOf(svc', g)
BY DEF told, Result, ResultOf, Pending, PendingIn, Recorded, RecordedIn, Active

LEMMA MappedLeft ==
    ASSUME NEW b, NEW n, Wire(b, n), NEW c, NEW g \in Groups, Leaves(b, c, g)
    PROVE  c.out = [b.out EXCEPT ![g] = Append(@, b.given[g][Len(@) + 1])]
<1>1. /\ b.given[g] = Upto(Len(b.given[g])) /\ Len(b.given[g]) \in Nat
      /\ Len(b.out[g]) \in Nat /\ Len(b.out[g]) < Len(b.given[g])
    BY WireFacts DEF Places, Leaves
<1>2. b.given[g][Len(b.out[g]) + 1] = Len(b.out[g]) + 1
    <2> DEFINE k == Len(b.given[g])
               i == Len(b.out[g]) + 1
    <2>1. i \in 1..k
        BY <1>1
    <2>2. b.given[g] = Upto(k)
        BY <1>1
    <2> HIDE DEF k, i
    <2>3. b.given[g][i] = i
        BY <2>1, <2>2 DEF Upto
    <2> QED
        BY <2>3 DEF i
<1> QED
    BY <1>2 DEF Leaves, Grown

LEMMA DecidingMaps ==
    ASSUME IInv, Good(svc', bus', requests'.groups), requests'.groups \in Nat,
           Deciding(svc, bus, svc', bus')
    PROVE  Transfer!Decide
<1>1. told' \in [Groups -> Transfer!Verdicts]
    <2>1. \A g \in Groups : told'[g] \in Transfer!Verdicts
        BY ToldIs, PendingIsActive DEF Good
    <2> QED
        BY <2>1 DEF told
<1>2. ASSUME NEW g \in Groups
      PROVE  \/ told'[g] = told[g]
             \/ /\ told[g] = "pending" /\ told'[g] \in Transfer!Decided
                /\ told'[g] = "complete" => Len(bus.out[g]) = planned[g]
             \/ told[g] \in Transfer!Decided /\ told'[g] \in {"cancelled", "unknown"}
    BY ToldIs DEF Deciding, Revised, planned
<1>3. bus'.given = bus.given /\ bus'.out = bus.out
    BY DEF Deciding
<1> QED
    BY <1>1, <1>2, <1>3 DEF Transfer!Decide, Transfer!Allowed, told, planned

LEMMA SameToldMaps ==
    ASSUME SameTold(svc, svc')
    PROVE  told' = told
<1>1. \A g \in Groups : told'[g] = told[g]
    BY ToldIs DEF SameTold
<1> QED
    BY <1>1 DEF told

LEMMA LeavingMaps ==
    ASSUME IInv, Leaving(svc, bus, svc', bus')
    PROVE  \E g \in Groups : Transfer!Leave(g)
<1>1. PICK g \in Groups : Leaves(bus, bus', g)
    BY DEF Leaving
<1>2. /\ Len(bus.out[g]) < Len(bus.given[g]) /\ bus'.given = bus.given
      /\ bus'.out = [bus.out EXCEPT ![g] = Append(@, bus.given[g][Len(@) + 1])]
    BY <1>1, MappedLeft DEF IInv, Good, Leaves, Leaving
<1>3. told' = told
    BY SameToldMaps DEF Leaving
<1> QED
    BY <1>2, <1>3 DEF Transfer!Leave, Transfer!Left, told

LEMMA GivingMaps ==
    ASSUME IInv, Giving(svc, bus, svc', bus')
    PROVE  \/ \E g \in Groups : Transfer!Give(g)
           \/ \E g, h \in Groups : Transfer!LeaveAndGive(g, h)
<1>1. PICK h \in Groups :
        /\ SameTold(svc, svc') /\ ResultOf(svc, h) = "pending"
        /\ Len(bus.given[h]) < Len(Plan[h]) /\ Len(bus.out[h]) = Len(bus.given[h])
        /\ bus'.given = Grown(bus.given, h)
        /\ \/ bus'.out = bus.out
           \/ \E g \in Groups : Leaves(bus, bus', g) /\ ResultOf(svc, g) # "pending"
    BY DEF Giving
<1>2. told' = told /\ told[h] = "pending" /\ Len(bus.given[h]) < planned[h]
    BY <1>1, SameToldMaps, ToldIs DEF planned
<1>3. Transfer!MayGive(h)
    BY <1>2 DEF Transfer!MayGive, told, planned
<1>4. bus.out[h] = bus.given[h]
    BY <1>1, WireFacts DEF IInv, Good, Places
<1>5. bus'.given = Transfer!Given(h)
    BY <1>1 DEF Grown, Transfer!Given
<1>6. CASE bus'.out = bus.out
    BY <1>2, <1>3, <1>4, <1>5, <1>6 DEF Transfer!Give, told
<1>7. ASSUME NEW g \in Groups, Leaves(bus, bus', g), ResultOf(svc, g) # "pending"
      PROVE  Transfer!LeaveAndGive(g, h)
    <2>1. told[g] # "pending" /\ Len(bus.out[g]) < Len(bus.given[g])
        BY <1>7, ToldIs DEF Leaves
    <2>2. bus'.out = Transfer!Left(g)
        BY <1>7, MappedLeft DEF IInv, Good, Transfer!Left
    <2> QED
        BY <1>2, <1>3, <1>4, <1>5, <2>1, <2>2 DEF Transfer!LeaveAndGive, told
<1> QED
    BY <1>1, <1>6, <1>7

LEMMA AcceptingMaps ==
    ASSUME Accepting(svc, bus, svc', bus')
    PROVE  \E g \in Groups : Transfer!Accept(g)
<1>1. PICK h \in Groups :
        /\ ResultOf(svc, h) = "unknown" /\ bus.given[h] = <<>>
        /\ \A g \in Groups : ResultOf(svc, g) # "pending"
        /\ ResultOf(svc', h) = "pending"
        /\ \A g \in Groups : g # h => ResultOf(svc', g) = ResultOf(svc, g)
        /\ bus'.given = bus.given /\ bus'.out = bus.out
    BY DEF Accepting
<1>2. told[h] = "unknown" /\ \A g \in Groups : told[g] # "pending"
    BY <1>1, ToldIs
<1>3. told' = [told EXCEPT ![h] = "pending"]
    <2>1. \A g \in Groups : told'[g] = IF g = h THEN "pending" ELSE told[g]
        BY <1>1, ToldIs
    <2> QED
        BY <2>1 DEF told
<1> QED
    BY <1>1, <1>2, <1>3 DEF Transfer!Accept, told

LEMMA InitMaps == Init => Transfer!Init
<1> SUFFICES ASSUME Init PROVE Transfer!Init
    OBVIOUS
<1>1. bus.given = [g \in Groups |-> <<>>] /\ bus.out = [g \in Groups |-> <<>>]
    BY GroupAssumption DEF Init, Repeat
<1>2. ASSUME NEW g \in Groups
      PROVE  told[g] = "unknown"
    <2>1. g # 0 /\ Lane(svc) /\ History(svc, 0) /\ Active(svc) = FALSE
        BY InitHolds, GroupFacts DEF IInv, Good, Verdicts, Init, Active
    <2>2. svc.group = 0 /\ svc.lastFailed = 0 /\ \A i \in Slots : svc.history[i].group = 0
        BY DEF Init, Repeat, Slots
    <2>3. ResultOf(svc, g) = "unknown"
        BY <2>1, <2>2, ResultFacts
    <2> QED
        BY <2>3, ToldIs
<1>3. told = [g \in Groups |-> "unknown"]
    BY <1>2 DEF told
<1> QED
    BY <1>1, <1>3 DEF Transfer!Init, told

LEMMA StepMaps == IInv /\ [Next]_vars => [Transfer!Next]_(Transfer!vars)
<1> SUFFICES ASSUME IInv, [Next]_vars PROVE Transfer!Next
    OBVIOUS
<1>1. /\ Good(svc', bus', requests'.groups) /\ requests'.groups \in Nat
      /\ Implements(svc, bus, svc', bus')
    BY StepFacts
<1>2. CASE Deciding(svc, bus, svc', bus')
    BY <1>1, <1>2, DecidingMaps DEF Transfer!Next
<1>3. CASE Leaving(svc, bus, svc', bus')
    BY <1>3, LeavingMaps DEF Transfer!Next
<1>4. CASE Giving(svc, bus, svc', bus')
    BY <1>4, GivingMaps DEF Transfer!Next
<1>5. CASE Accepting(svc, bus, svc', bus')
    BY <1>5, AcceptingMaps DEF Transfer!Next
<1> QED
    BY <1>1, <1>2, <1>3, <1>4, <1>5 DEF Implements

(* The master keeps its promise to the devices: every group reaches the bus  *)
(* in the order of its plan, a frame at a time; canopen_master_service says  *)
(* "complete" only of a group whose last frame or SYNC has left; and of a    *)
(* group that was decided only the frame that was under way still leaves.    *)
THEOREM TransferHolds == Spec => TransferSpec
<1>1. Init => Transfer!Init
    BY InitMaps
<1>2. IInv /\ [Next]_vars => [Transfer!Next]_(Transfer!vars)
    BY StepMaps
<1> QED
    BY <1>1, <1>2, Invariance, PTL DEF Spec, TransferSpec, Transfer!Spec

-----------------------------------------------------------------------------
(* The SDO writes.  A write is accepted at the end of the outgoing ones or   *)
(* in the place of an older one of its object.                              *)
Writes == [key : Keys, number : Nat]

Kept(all, accepted) ==
    /\ \A i, j \in DOMAIN all :
           /\ i < j
           /\ all[i].key = all[j].key \/ {all[i].key, all[j].key} \subseteq OrderedKeys
           => all[i].number < all[j].number
    /\ \A n \in DOMAIN accepted :
           \/ \E i \in DOMAIN all : all[i] = accepted[n]
           \/ /\ ~Ordered(accepted[n].key)
              /\ \E m \in DOMAIN accepted : m > n /\ accepted[m].key = accepted[n].key
    /\ \A i \in DOMAIN all : \E n \in DOMAIN accepted : all[i] = accepted[n]

QueuedOnce(queue) ==
    \A i, j \in DOMAIN queue :
        queue[i].key = queue[j].key /\ ~Ordered(queue[i].key) => i = j

SdoInv ==
    /\ {sdo.queue, sdo.sent, sdo.accepted} \subseteq Seq(Writes)
    /\ DOMAIN sdo = {"queue", "active", "accepted", "sent"}
    /\ DOMAIN requests = {"groups", "writes"} /\ requests.writes = Len(sdo.accepted)
    /\ \A n \in DOMAIN sdo.accepted : sdo.accepted[n].number = n
    /\ QueuedOnce(sdo.queue)
    /\ Kept(Outgoing, sdo.accepted)

LEMMA AppendFacts ==
    ASSUME NEW S, NEW q \in Seq(S), NEW x \in S
    PROVE  /\ Append(q, x) \in Seq(S) /\ Len(q) \in Nat
           /\ DOMAIN q = 1..Len(q) /\ DOMAIN Append(q, x) = 1..(Len(q) + 1)
           /\ \A i \in 1..Len(q) : Append(q, x)[i] = q[i] /\ q[i] \in S
           /\ Append(q, x)[Len(q) + 1] = x
OBVIOUS

(* A write with the next number is put where no later write is of its        *)
(* object, and what it replaces is an older one of an unordered object.     *)
LEMMA KeptAfterWrite ==
    ASSUME NEW all \in Seq(Writes), NEW accepted \in Seq(Writes), NEW new \in Seq(Writes),
           NEW w \in Writes, w.number = Len(accepted) + 1,
           Kept(all, accepted), \A n \in DOMAIN accepted : accepted[n].number = n,
           NEW p \in DOMAIN new, new[p] = w,
           \A i \in DOMAIN new : i # p => i \in DOMAIN all /\ new[i] = all[i],
           \A i \in DOMAIN all : /\ i \in DOMAIN new
                                 /\ i = p => all[i].key = w.key /\ ~Ordered(w.key),
           \A j \in DOMAIN new : j > p => new[j].key # w.key /\ ~Ordered(w.key)
    PROVE  Kept(new, Append(accepted, w))
<1> DEFINE grown == Append(accepted, w)
           L == Len(accepted)
<1>1. /\ L \in Nat /\ DOMAIN accepted = 1..L /\ DOMAIN grown = 1..(L + 1)
      /\ \A n \in 1..L : grown[n] = accepted[n]
      /\ grown[L + 1] = w
    BY AppendFacts
<1>2. /\ DOMAIN new = 1..Len(new) /\ DOMAIN all = 1..Len(all)
      /\ Len(new) \in Nat /\ Len(all) \in Nat
    OBVIOUS
<1> HIDE DEF grown, L
<1>3. \A i \in DOMAIN all : \E n \in 1..L : all[i] = accepted[n] /\ all[i].number = n
    BY <1>1 DEF Kept
<1>4. ASSUME NEW i \in DOMAIN new, NEW j \in DOMAIN new, i < j,
             new[i].key = new[j].key \/ {new[i].key, new[j].key} \subseteq OrderedKeys
      PROVE  new[i].number < new[j].number
    <2>1. CASE i = p
        BY <1>4, <2>1 DEF Ordered
    <2>2. CASE i # p /\ j = p
        <3>1. i \in DOMAIN all /\ new[i] = all[i]
            BY <2>2
        <3>2. PICK n \in 1..L : all[i].number = n
            BY <1>3, <3>1
        <3> QED
            BY <1>1, <2>2, <3>1, <3>2 DEF L
    <2>3. CASE i # p /\ j # p
        <3>1. i \in DOMAIN all /\ new[i] = all[i] /\ j \in DOMAIN all /\ new[j] = all[j]
            BY <2>3
        <3> QED
            BY <1>4, <3>1 DEF Kept
    <2> QED
        BY <2>1, <2>2, <2>3
<1>5. ASSUME NEW n \in DOMAIN grown
      PROVE  \/ \E i \in DOMAIN new : new[i] = grown[n]
             \/ /\ ~Ordered(grown[n].key)
                /\ \E m \in DOMAIN grown : m > n /\ grown[m].key = grown[n].key
    <2>1. CASE n = L + 1
        BY <1>1, <2>1
    <2>2. CASE n # L + 1
        <3>1. n \in DOMAIN accepted /\ grown[n] = accepted[n]
            BY <1>1, <2>2
        <3>2. CASE /\ ~Ordered(accepted[n].key)
                   /\ \E m \in DOMAIN accepted : m > n /\ accepted[m].key = accepted[n].key
            <4>1. PICK m \in DOMAIN accepted : m > n /\ accepted[m].key = accepted[n].key
                BY <3>2
            <4>2. m \in DOMAIN grown /\ grown[m] = accepted[m]
                BY <1>1
            <4> QED
                BY <3>1, <3>2, <4>1, <4>2
        <3>3. ASSUME NEW i \in DOMAIN all, all[i] = accepted[n]
              PROVE  \/ \E a \in DOMAIN new : new[a] = grown[n]
                     \/ /\ ~Ordered(grown[n].key)
                        /\ \E m \in DOMAIN grown : m > n /\ grown[m].key = grown[n].key
            <4>1. CASE i = p
                <5>1. grown[n].key = w.key /\ ~Ordered(w.key)
                    BY <3>1, <3>3, <4>1
                <5>2. L + 1 \in DOMAIN grown /\ L + 1 > n /\ grown[L + 1] = w
                    BY <1>1, <3>1
                <5> QED
                    BY <5>1, <5>2
            <4>2. CASE i # p
                BY <3>1, <3>3, <4>2
            <4> QED
                BY <4>1, <4>2
        <3>4. \/ \E i \in DOMAIN all : all[i] = accepted[n]
              \/ /\ ~Ordered(accepted[n].key)
                 /\ \E m \in DOMAIN accepted : m > n /\ accepted[m].key = accepted[n].key
            BY <3>1 DEF Kept
        <3> QED
            BY <3>2, <3>3, <3>4
    <2> QED
        BY <2>1, <2>2
<1>6. ASSUME NEW i \in DOMAIN new
      PROVE  \E n \in DOMAIN grown : new[i] = grown[n]
    <2>1. CASE i = p
        BY <1>1, <2>1
    <2>2. CASE i # p
        <3>1. i \in DOMAIN all /\ new[i] = all[i]
            BY <2>2
        <3>2. PICK n \in 1..L : all[i] = accepted[n]
            BY <1>3, <3>1
        <3> QED
            BY <1>1, <3>1, <3>2
    <2> QED
        BY <2>1, <2>2
<1> QED
    BY <1>4, <1>5, <1>6 DEF Kept, grown

(* request_sdo_write_impl: the write is queued at the end of the outgoing    *)
(* writes, or over the one older write of its object that waits.            *)
LEMMA CoalescedKeeps ==
    ASSUME NEW sent \in Seq(Writes), NEW queue \in Seq(Writes), NEW accepted \in Seq(Writes),
           NEW w \in Writes, w.number = Len(accepted) + 1,
           \A n \in DOMAIN accepted : accepted[n].number = n,
           QueuedOnce(queue), Kept(sent \o queue, accepted)
    PROVE  /\ Coalesced(queue, w) \in Seq(Writes) /\ QueuedOnce(Coalesced(queue, w))
           /\ Kept(sent \o Coalesced(queue, w), Append(accepted, w))
<1> DEFINE at == {i \in DOMAIN queue : queue[i].key = w.key /\ ~Ordered(w.key)}
           S == Len(sent)
           Q == Len(queue)
           all == sent \o queue
<1>1. S \in Nat /\ Q \in Nat /\ DOMAIN queue = 1..Q /\ DOMAIN sent = 1..S
    OBVIOUS
<1>2. /\ all \in Seq(Writes) /\ Len(all) = S + Q /\ DOMAIN all = 1..(S + Q)
      /\ \A i \in 1..S : all[i] = sent[i]
      /\ \A i \in 1..Q : all[S + i] = queue[i]
      /\ Kept(all, accepted)
    <2>1. all \in Seq(Writes) /\ Len(all) = S + Q
        BY ConcatFacts
    <2>2. DOMAIN all = 1..Len(all)
        BY <2>1
    <2> QED
        BY <2>1, <2>2, ConcatFacts
<1>3. S = Len(sent) /\ Q = Len(queue)
    OBVIOUS
<1> HIDE DEF S, Q
<1>4. CASE at = {}
    <2> DEFINE q == Append(queue, w)
               new == sent \o q
    <2>1. Coalesced(queue, w) = q
        BY <1>4 DEF Coalesced
    <2>2. /\ q \in Seq(Writes) /\ Len(q) = Q + 1 /\ DOMAIN q = 1..(Q + 1)
          /\ \A i \in 1..Q : q[i] = queue[i]
          /\ q[Q + 1] = w
        BY <1>3, AppendFacts
    <2> HIDE DEF q
    <2>3. /\ new \in Seq(Writes) /\ Len(new) = S + (Q + 1)
          /\ \A i \in 1..S : new[i] = sent[i]
          /\ \A i \in 1..(Q + 1) : new[S + i] = q[i]
        <3>1. q \in Seq(Writes)
            BY <2>2
        <3>2. /\ new \in Seq(Writes) /\ Len(new) = Len(sent) + Len(q)
              /\ \A i \in 1..Len(sent) : new[i] = sent[i]
              /\ \A i \in 1..Len(q) : new[Len(sent) + i] = q[i]
            BY <3>1, ConcatFacts
        <3> HIDE DEF new
        <3> QED
            BY <1>3, <2>2, <3>2
    <2>4. DOMAIN new = 1..(S + Q + 1)
        BY <1>1, <2>3
    <2>5. QueuedOnce(q)
        <3>1. \A i \in 1..Q : ~(queue[i].key = w.key /\ ~Ordered(w.key))
            BY <1>1, <1>4
        <3>2. ASSUME NEW i \in 1..(Q + 1), NEW j \in 1..(Q + 1),
                     q[i].key = q[j].key, ~Ordered(q[i].key)
              PROVE  i = j
            <4>1. CASE i \in 1..Q /\ j \in 1..Q
                BY <1>1, <2>2, <3>2, <4>1 DEF QueuedOnce
            <4>2. CASE i = Q + 1 /\ j \in 1..Q
                BY <2>2, <3>1, <3>2, <4>2
            <4>3. CASE i \in 1..Q /\ j = Q + 1
                BY <2>2, <3>1, <3>2, <4>3
            <4> QED
                BY <1>1, <4>1, <4>2, <4>3
        <3> QED
            BY <2>2, <3>2 DEF QueuedOnce
    <2>6. Kept(new, Append(accepted, w))
        <3> DEFINE p == S + (Q + 1)
        <3> HIDE DEF new, all
        <3>1. p \in DOMAIN new /\ new[p] = w
            BY <1>1, <2>2, <2>3, <2>4
        <3>2. ASSUME NEW i \in DOMAIN new, i # p
              PROVE  i \in DOMAIN all /\ new[i] = all[i]
            <4>1. i \in 1..(S + Q)
                <5>1. i \in 1..(S + Q + 1) /\ i # S + (Q + 1)
                    BY <2>4, <3>2 DEF p
                <5>2. S + (Q + 1) = S + Q + 1 /\ S + Q \in Nat
                    BY <1>1
                <5>3. \A n \in Nat : 1..(n + 1) \subseteq 1..n \cup {n + 1}
                    OBVIOUS
                <5>4. i \in 1..(S + Q) \cup {S + Q + 1}
                    BY <5>1, <5>2, <5>3, Zenon
                <5> QED
                    BY <5>1, <5>2, <5>4, Zenon
            <4>2. CASE i <= S
                BY <1>1, <1>2, <2>3, <4>1, <4>2
            <4>3. CASE i > S
                <5>1. i - S \in 1..Q /\ i = S + (i - S) /\ i - S \in 1..(Q + 1)
                    BY <1>1, <4>1, <4>3
                <5>2. new[S + (i - S)] = q[i - S] /\ all[S + (i - S)] = queue[i - S]
                    BY <1>2, <2>3, <5>1
                <5> QED
                    BY <1>2, <2>2, <4>1, <5>1, <5>2
            <4> QED
                BY <1>1, <4>1, <4>2, <4>3
        <3>3. \A i \in DOMAIN all : i \in DOMAIN new /\ i # p
            BY <1>1, <1>2, <2>4
        <3>4. \A j \in DOMAIN new : ~(j > p)
            BY <1>1, <2>4
        <3> HIDE DEF p
        <3>6. all \in Seq(Writes) /\ new \in Seq(Writes) /\ Kept(all, accepted)
            BY <1>2, <2>3
        <3>7. p \in DOMAIN new /\ new[p] = w
            BY <3>1
        <3> QED
            BY ZenonT(60), <3>6, <3>7, <3>2, <3>3, <3>4, KeptAfterWrite
    <2> QED
        BY <2>1, <2>2, <2>5, <2>6
<1>5. CASE at # {}
    <2> DEFINE q == [i \in DOMAIN queue |-> IF i \in at THEN w ELSE queue[i]]
               new == sent \o q
    <2>1. Coalesced(queue, w) = q
        BY <1>5 DEF Coalesced
    <2>2. PICK c \in DOMAIN queue : queue[c].key = w.key /\ ~Ordered(w.key)
        BY <1>5
    <2>3. at = {c}
        BY <2>2 DEF QueuedOnce
    <2>4. /\ q \in Seq(Writes) /\ Len(q) = Q /\ DOMAIN q = 1..Q /\ q[c] = w
          /\ \A i \in 1..Q : i # c => q[i] = queue[i]
        <3> HIDE DEF at
        <3>1. \A i \in 1..Q : q[i] \in Writes
            BY <1>1
        <3>2. q = [i \in 1..Q |-> q[i]]
            BY <1>1
        <3>3. q[c] = w /\ \A i \in 1..Q : i # c => q[i] = queue[i]
            BY <1>1, <2>3
        <3> HIDE DEF q
        <3>4. q \in Seq(Writes) /\ Len(q) = Q /\ DOMAIN q = 1..Q
            BY <1>1, <3>1, <3>2
        <3> QED
            BY <3>3, <3>4
    <2> HIDE DEF q, at
    <2>5. /\ new \in Seq(Writes) /\ Len(new) = S + Q
          /\ \A i \in 1..S : new[i] = sent[i]
          /\ \A i \in 1..Q : new[S + i] = q[i]
        <3>1. q \in Seq(Writes)
            BY <2>4
        <3>2. /\ new \in Seq(Writes) /\ Len(new) = Len(sent) + Len(q)
              /\ \A i \in 1..Len(sent) : new[i] = sent[i]
              /\ \A i \in 1..Len(q) : new[Len(sent) + i] = q[i]
            BY <3>1, ConcatFacts
        <3> HIDE DEF new
        <3> QED
            BY <1>3, <2>4, <3>2
    <2>6. DOMAIN new = 1..(S + Q)
        BY <1>1, <2>5
    <2>7. \A i \in 1..Q : q[i].key = queue[i].key
        BY <2>2, <2>4
    <2>8. QueuedOnce(q)
        BY <1>1, <2>4, <2>7 DEF QueuedOnce
    <2>9. Kept(new, Append(accepted, w))
        <3> DEFINE p == S + c
        <3> HIDE DEF new, all
        <3>1. c \in 1..Q
            BY <1>1
        <3>2. p \in DOMAIN new /\ new[p] = w /\ all[p] = queue[c]
            <4>1. p \in DOMAIN new
                BY <1>1, <2>6, <3>1
            <4>2. new[S + c] = q[c] /\ all[S + c] = queue[c]
                BY <1>2, <2>5, <3>1
            <4> QED
                BY <2>4, <4>1, <4>2
        <3>3. ASSUME NEW i \in DOMAIN new, i # p
              PROVE  i \in DOMAIN all /\ new[i] = all[i]
            <4>1. i \in 1..(S + Q)
                BY <2>6
            <4>2. CASE i <= S
                BY <1>1, <1>2, <2>5, <4>1, <4>2
            <4>3. CASE i > S
                <5>1. i - S \in 1..Q /\ i = S + (i - S) /\ i - S # c
                    BY <1>1, <3>1, <3>3, <4>1, <4>3
                <5>2. new[S + (i - S)] = q[i - S] /\ all[S + (i - S)] = queue[i - S]
                    BY <1>2, <2>5, <5>1
                <5> QED
                    BY <1>2, <2>4, <4>1, <5>1, <5>2
            <4> QED
                BY <1>1, <4>1, <4>2, <4>3
        <3>4. \A i \in DOMAIN all : /\ i \in DOMAIN new
                                    /\ i = p => all[i].key = w.key /\ ~Ordered(w.key)
            BY <1>2, <2>2, <2>6, <3>2
        <3>5. ASSUME NEW j \in DOMAIN new, j > p
              PROVE  new[j].key # w.key /\ ~Ordered(w.key)
            <4>1. j - S \in 1..Q /\ j = S + (j - S) /\ j - S # c
                BY <1>1, <2>6, <3>1, <3>5
            <4>2. new[S + (j - S)] = q[j - S]
                BY <2>5, <4>1
            <4>3. queue[j - S].key # w.key
                BY <1>1, <2>2, <4>1 DEF QueuedOnce
            <4> QED
                BY <2>2, <2>7, <4>1, <4>2, <4>3
        <3> HIDE DEF p
        <3>6. all \in Seq(Writes) /\ new \in Seq(Writes) /\ Kept(all, accepted)
            BY <1>2, <2>5
        <3>7. p \in DOMAIN new /\ new[p] = w
            BY <3>2
        <3> QED
            BY ZenonT(60), <3>6, <3>7, <3>3, <3>4, <3>5, KeptAfterWrite
    <2> QED
        BY <2>1, <2>4, <2>8, <2>9
<1> QED
    BY <1>4, <1>5

LEMMA RequestWriteKeeps ==
    ASSUME SdoInv, NEW k \in Keys, RequestWrite(k)
    PROVE  SdoInv'
<1> DEFINE w == [key |-> k, number |-> requests.writes + 1]
           queue == Coalesced(sdo.queue, w)
           accepted == Append(sdo.accepted, w)
<1>1. /\ sdo.queue \in Seq(Writes) /\ sdo.sent \in Seq(Writes) /\ sdo.accepted \in Seq(Writes)
      /\ DOMAIN sdo = {"queue", "active", "accepted", "sent"}
      /\ DOMAIN requests = {"groups", "writes"} /\ requests.writes = Len(sdo.accepted)
      /\ QueuedOnce(sdo.queue) /\ Kept(sdo.sent \o sdo.queue, sdo.accepted)
    BY DEF SdoInv, Outgoing
<1>2. w \in Writes /\ w.number = Len(sdo.accepted) + 1
    <2>1. requests.writes \in Nat
        BY <1>1
    <2> QED
        BY <1>1, <2>1 DEF Writes
<1>3. /\ sdo' = [sdo EXCEPT !.queue = queue, !.accepted = accepted]
      /\ requests' = [requests EXCEPT !.writes = w.number]
    BY DEF RequestWrite
<1> HIDE DEF w
<1>4. /\ sdo'.queue = queue /\ sdo'.sent = sdo.sent /\ sdo'.accepted = accepted
      /\ DOMAIN sdo' = DOMAIN sdo
      /\ DOMAIN requests' = DOMAIN requests /\ requests'.writes = w.number
    <2> HIDE DEF queue, accepted
    <2> QED
        BY <1>1, <1>3
<1>5. /\ queue \in Seq(Writes) /\ QueuedOnce(queue)
      /\ Kept(sdo.sent \o queue, accepted)
    BY <1>1, <1>2, CoalescedKeeps DEF SdoInv
<1>6. /\ accepted \in Seq(Writes) /\ w.number = Len(accepted)
      /\ \A n \in DOMAIN accepted : accepted[n].number = n
    <2>1. /\ accepted \in Seq(Writes) /\ DOMAIN accepted = 1..(Len(sdo.accepted) + 1)
          /\ Len(sdo.accepted) \in Nat /\ DOMAIN sdo.accepted = 1..Len(sdo.accepted)
          /\ \A i \in 1..Len(sdo.accepted) : accepted[i] = sdo.accepted[i]
          /\ accepted[Len(sdo.accepted) + 1] = w
        BY <1>1, <1>2, AppendFacts
    <2>2. Len(accepted) = Len(sdo.accepted) + 1
        BY <1>1, <1>2
    <2> HIDE DEF accepted
    <2> QED
        BY <1>2, <2>1, <2>2 DEF SdoInv
<1> HIDE DEF queue, accepted
<1> QED
    BY <1>1, <1>4, <1>5, <1>6 DEF SdoInv, Outgoing

(* A write goes from the queue to the bus: the outgoing writes stay.        *)
LEMMA BackgroundKeeps ==
    ASSUME SdoInv, NEW ends \in BOOLEAN, NEW f \in {NoFrame, Other}, Background(ends, f)
    PROVE  SdoInv'
<1>1. /\ sdo.queue \in Seq(Writes) /\ sdo.sent \in Seq(Writes)
      /\ DOMAIN sdo = {"queue", "active", "accepted", "sent"} /\ requests' = requests
    BY DEF SdoInv, Background
<1>2. CASE sdo' = SdoFinished(sdo, ends) \/ sdo' = sdo
    <2>1. /\ sdo'.queue = sdo.queue /\ sdo'.sent = sdo.sent
          /\ sdo'.accepted = sdo.accepted /\ DOMAIN sdo' = DOMAIN sdo
        BY <1>1, <1>2 DEF SdoFinished
    <2> QED
        BY <1>1, <2>1 DEF SdoInv, Outgoing
<1>3. CASE sdo.queue # <<>> /\ sdo' = SdoStarted(SdoPopped(sdo), Head(sdo.queue), ends)
    <2> DEFINE q == sdo.queue
               t == Tail(q)
               sent == Append(sdo.sent, Head(q))
    <2>1. /\ sdo'.queue = t /\ sdo'.sent = sent
          /\ sdo'.accepted = sdo.accepted /\ DOMAIN sdo' = DOMAIN sdo
        <3> HIDE DEF t, sent, q
        <3>1. sdo' = [[sdo EXCEPT !.queue = t] EXCEPT !.active = ~ends, !.sent = sent]
            BY <1>3 DEF SdoStarted, SdoPopped, t, sent, q
        <3> QED
            BY <1>1, <3>1
    <2>2. /\ t \in Seq(Writes) /\ sent \in Seq(Writes)
          /\ sent \o t = sdo.sent \o q
        <3>1. /\ t \in Seq(Writes) /\ Len(q) \in Nat \ {0} /\ Head(q) = q[1] /\ Head(q) \in Writes
              /\ Len(t) = Len(q) - 1 /\ \A i \in 1..Len(t) : t[i] = q[i + 1]
            BY <1>1, <1>3
        <3>2. /\ sent \in Seq(Writes) /\ Len(sent) = Len(sdo.sent) + 1
              /\ \A i \in 1..Len(sdo.sent) : sent[i] = sdo.sent[i]
              /\ sent[Len(sdo.sent) + 1] = q[1] /\ Len(sdo.sent) \in Nat
            BY <1>1, <3>1
        <3> HIDE DEF t, sent, q
        <3>3. sdo.sent \in Seq(Writes) /\ q \in Seq(Writes)
            BY <1>1 DEF q
        <3>4. sent \in Seq(Writes) /\ t \in Seq(Writes)
            BY <3>1, <3>2
        <3>5. /\ sent \o t \in Seq(Writes) /\ Len(sent \o t) = Len(sent) + Len(t)
              /\ \A i \in 1..Len(sent) : (sent \o t)[i] = sent[i]
              /\ \A i \in 1..Len(t) : (sent \o t)[Len(sent) + i] = t[i]
            BY <3>4, ConcatFacts
        <3>6. /\ sdo.sent \o q \in Seq(Writes) /\ Len(sdo.sent \o q) = Len(sdo.sent) + Len(q)
              /\ \A i \in 1..Len(sdo.sent) : (sdo.sent \o q)[i] = sdo.sent[i]
              /\ \A i \in 1..Len(q) : (sdo.sent \o q)[Len(sdo.sent) + i] = q[i]
            BY <3>3, ConcatFacts
        <3> DEFINE a == sent \o t
                   b == sdo.sent \o q
                   S == Len(sdo.sent)
        <3>7. /\ Len(a) = Len(b) /\ Len(b) = S + Len(q) /\ S \in Nat
              /\ Len(sent) = S + 1 /\ Len(t) = Len(q) - 1 /\ Len(q) \in Nat \ {0}
            BY <3>1, <3>2, <3>5, <3>6
        <3>8. /\ \A i \in 1..S : b[i] = sdo.sent[i] /\ sent[i] = sdo.sent[i]
              /\ \A i \in 1..(S + 1) : a[i] = sent[i]
              /\ sent[S + 1] = q[1]
            BY <3>2, <3>5, <3>6, <3>7
        <3>9. /\ \A i \in 1..Len(q) : b[S + i] = q[i]
              /\ \A i \in 1..Len(t) : a[(S + 1) + i] = q[i + 1]
            <4>1. \A i \in 1..Len(t) : a[Len(sent) + i] = t[i]
                BY <3>5
            <4>2. Len(sent) = S + 1
                BY <3>7
            <4>3. \A i \in 1..Len(t) : a[(S + 1) + i] = t[i]
                BY <4>1, <4>2
            <4>4. \A i \in 1..Len(t) : t[i] = q[i + 1]
                BY <3>1
            <4> HIDE DEF a
            <4>5. \A i \in 1..Len(t) : a[(S + 1) + i] = q[i + 1]
                BY <4>3, <4>4
            <4> QED
                BY <3>6, <4>5
        <3>10. a = [i \in 1..Len(a) |-> a[i]] /\ b = [i \in 1..Len(b) |-> b[i]]
            BY <3>5, <3>6, SequenceIsFunction, Zenon
        <3> HIDE DEF a, b, S
        <3>11. ASSUME NEW i \in 1..Len(b)
              PROVE  a[i] = b[i]
            <4>1. CASE i <= S
                BY <3>7, <3>8, <4>1
            <4>2. CASE i = S + 1
                <5>1. 1 \in 1..Len(q) /\ S + 1 \in 1..(S + 1)
                    BY <3>7
                <5> QED
                    BY <3>8, <3>9, <4>2, <5>1
            <4>3. CASE i > S + 1
                <5> DEFINE n == i - (S + 1)
                <5>1. /\ n \in 1..Len(t) /\ i = (S + 1) + n
                      /\ n + 1 \in 1..Len(q) /\ i = S + (n + 1)
                    BY <3>7, <4>3
                <5> HIDE DEF n
                <5> QED
                    BY <3>9, <5>1
            <4> QED
                BY <3>7, <4>1, <4>2, <4>3
        <3>12. a = b
            BY <3>7, <3>11, <3>10
        <3> QED
            BY <3>1, <3>2, <3>12 DEF a, b
    <2>3. QueuedOnce(t)
        <3>1. /\ Len(q) \in Nat \ {0} /\ DOMAIN t = 1..(Len(q) - 1) /\ DOMAIN q = 1..Len(q)
              /\ \A i \in 1..(Len(q) - 1) : t[i] = q[i + 1]
            BY <1>1, <1>3
        <3>2. QueuedOnce(q)
            BY DEF SdoInv
        <3> HIDE DEF t, q
        <3>3. ASSUME NEW i \in DOMAIN t, NEW j \in DOMAIN t,
                     t[i].key = t[j].key, ~Ordered(t[i].key)
              PROVE  i = j
            <4>1. i + 1 \in DOMAIN q /\ j + 1 \in DOMAIN q /\ t[i] = q[i + 1] /\ t[j] = q[j + 1]
                BY <3>1
            <4>2. i + 1 = j + 1
                BY <3>2, <3>3, <4>1 DEF QueuedOnce
            <4> QED
                BY <3>1, <4>2
        <3> QED
            BY <3>3 DEF QueuedOnce
    <2> HIDE DEF t, sent
    <2> QED
        BY <1>1, <2>1, <2>2, <2>3 DEF SdoInv, Outgoing
<1> QED
    BY <1>2, <1>3 DEF Background

LEMMA SdoUntouched ==
    ASSUME SdoInv, sdo' = sdo, requests'.writes = requests.writes,
           DOMAIN requests' = DOMAIN requests
    PROVE  SdoInv'
BY DEF SdoInv, Outgoing

LEMMA SdoInvHolds == SdoInv /\ [Next]_vars => SdoInv'
<1> SUFFICES ASSUME SdoInv, [Next]_vars PROVE SdoInv'
    OBVIOUS
<1>1. ASSUME sdo' = sdo, requests' = requests
      PROVE  SdoInv'
    BY <1>1, SdoUntouched
<1>2. CASE Call
    BY <1>1, <1>2 DEF Call, PollHealth, ProcessQueue, SendFrame, AfterFrame
<1>3. CASE Device
    <2>1. CASE \E r \in Results(bus) : SendFeedbackSync(r) \/ SendSync(r)
        BY <1>1, <2>1 DEF SendFeedbackSync, SendSync
    <2>2. CASE CancelRealtime \/ RequestNmt
        BY <1>1, <2>2 DEF CancelRealtime, RequestNmt
    <2>3. CASE \E ok \in BOOLEAN : RecoverTransport(ok)
        BY <1>1, <2>3 DEF RecoverTransport
    <2>4. ASSUME NEW g \in Groups, QueueGroup(g)
          PROVE  SdoInv'
        <3>1. DOMAIN requests = {"groups", "writes"}
            BY DEF SdoInv
        <3>2. sdo' = sdo /\ requests' = [requests EXCEPT !.groups = g]
            BY <2>4 DEF QueueGroup
        <3> QED
            BY <3>1, <3>2, SdoUntouched
    <2>5. ASSUME NEW g \in Groups, CancelGroup(g)
          PROVE  SdoInv'
        BY <1>1, <2>5 DEF CancelGroup
    <2>6. CASE \E k \in Keys : RequestWrite(k)
        BY <2>6, RequestWriteKeeps
    <2>7. CASE \E ends \in BOOLEAN, f \in {NoFrame, Other} : Background(ends, f)
        BY <2>7, BackgroundKeeps
    <2> QED
        BY <1>3, <2>1, <2>2, <2>3, <2>4, <2>5, <2>6, <2>7 DEF Device
<1>4. CASE Controller \/ Tick
    BY <1>1, <1>4 DEF Controller, TxDone, BusOff, BusBack, Tick
<1>5. CASE UNCHANGED vars
    BY <1>1, <1>5 DEF vars
<1> QED
    BY <1>2, <1>3, <1>4, <1>5 DEF Next

(* The writes of the ordered objects all go out, each once and in the order  *)
(* in which request_sdo_write took them; of the other objects an older write *)
(* never follows a newer one, and the last one asked for is not lost.        *)
THEOREM WritesKeptHolds == Spec => []WritesKept
<1>1. Init => SdoInv
    <2> SUFFICES ASSUME Init PROVE SdoInv
        OBVIOUS
    <2>1. /\ sdo = [queue |-> <<>>, active |-> FALSE, accepted |-> <<>>, sent |-> <<>>]
          /\ requests = [groups |-> 0, writes |-> 0]
        BY DEF Init
    <2>2. <<>> \in Seq(Writes) /\ DOMAIN <<>> = {} /\ Len(<<>>) = 0 /\ <<>> \o <<>> = <<>>
        OBVIOUS
    <2>3. QueuedOnce(<<>>) /\ Kept(<<>>, <<>>)
        BY <2>2 DEF QueuedOnce, Kept
    <2> QED
        BY <2>1, <2>2, <2>3 DEF SdoInv, Outgoing
<1>2. SdoInv /\ [Next]_vars => SdoInv'
    BY SdoInvHolds
<1>3. SdoInv => WritesKept
    BY DEF SdoInv, Kept, WritesKept
<1> QED
    BY <1>1, <1>2, <1>3, PTL DEF Spec
=============================================================================
