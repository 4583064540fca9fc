------------------------- MODULE SbusService_proofs -------------------------
(***************************************************************************)
(* Proofs about SbusService, for every frame length, payload, clock and     *)
(* timeout.  The bytes of a FIFO are fed one by one: what that does is      *)
(* proved by induction over the FIFO.                                      *)
(***************************************************************************)
EXTENDS SbusService, WellFoundedInduction, TLAPS

-----------------------------------------------------------------------------
(* Induction up to n, over the set of the numbers for which it fails.       *)
LEMMA UpTo ==
    ASSUME NEW n \in Nat, NEW Good, 0 \in Good,
           \A i \in 1..n : i - 1 \in Good => i \in Good
    PROVE  0..n \subseteq Good
<1> DEFINE bad == {i \in 0..n : i \notin Good}
<1>1. CASE bad = {}
    BY <1>1
<1>2. CASE bad # {}
    <2>1. bad \subseteq Nat
        OBVIOUS
    <2>2. PICK i \in bad : \A j \in bad : i <= j
        <3>1. IsWellFoundedOn(OpToRel(<, Nat), Nat)
            BY NatLessThanWellFounded
        <3>2. PICK i \in bad : \A j \in bad : ~(<<j, i>> \in OpToRel(<, Nat))
            <4> HIDE DEF bad
            <4> QED
                BY <1>2, <2>1, <3>1, WFMin
        <3>3. ASSUME NEW j \in bad
              PROVE  i <= j
            <4>1. ~(<<j, i>> \in {ss \in Nat \X Nat : ss[1] < ss[2]})
                BY <3>2, <3>3 DEF OpToRel
            <4>2. i \in Nat /\ j \in Nat
                BY <2>1, <3>2
            <4> QED
                BY <4>1, <4>2
        <3> QED
            BY <3>3
    <2>3. i # 0 /\ i - 1 \in 0..n /\ i \in 1..n
        BY <2>2
    <2>4. i - 1 \in Good
        BY <2>2, <2>3
    <2> QED
        BY <2>2, <2>3, <2>4
<1> QED
    BY <1>1, <1>2

-----------------------------------------------------------------------------
(* Draining the FIFO.                                                      *)
IsFed(fed, svc, n) ==
    fed = [i \in 0..n |-> IF i = 0 THEN svc ELSE FeedByte(fed[i - 1], fifo[i])]

LEMMA FedExists ==
    ASSUME NEW svc, NEW n \in Nat
    PROVE  \E fed : IsFed(fed, svc, n)
<1> DEFINE Some == {i \in 0..n : \E fed : IsFed(fed, svc, i)}
<1>1. 0 \in Some
    <2>1. IsFed([i \in 0..0 |-> svc], svc, 0)
        BY DEF IsFed
    <2> QED
        BY <2>1
<1>2. ASSUME NEW i \in 1..n, i - 1 \in Some
      PROVE  i \in Some
    <2>1. PICK f : IsFed(f, svc, i - 1)
        BY <1>2
    <2> DEFINE g == [j \in 0..i |-> IF j = 0 THEN svc ELSE FeedByte(f[j - 1], fifo[j])]
    <2>2. \A j \in 0..(i - 1) : g[j] = f[j]
        BY <2>1 DEF IsFed
    <2>3. \A j \in 1..i : g[j] = FeedByte(g[j - 1], fifo[j])
        BY <2>2
    <2>4. g[0] = svc
        OBVIOUS
    <2>5. \A j \in 0..i : g[j] = IF j = 0 THEN svc ELSE FeedByte(g[j - 1], fifo[j])
        BY SMTT(60), <2>3, <2>4
    <2>6. g = [j \in 0..i |-> g[j]]
        OBVIOUS
    <2> HIDE DEF g
    <2>7. IsFed(g, svc, i)
        BY <2>5, <2>6 DEF IsFed
    <2> QED
        BY <2>7
<1> HIDE DEF Some
<1>3. n \in Some
    BY <1>1, <1>2, UpTo
<1> QED
    BY <1>3 DEF Some

LEMMA DrainFacts ==
    ASSUME NEW svc, Len(fifo) \in Nat
    PROVE  \E fed : /\ fed[0] = svc /\ Drain(svc) = fed[Len(fifo)]
                    /\ \A i \in 1..Len(fifo) : fed[i] = FeedByte(fed[i - 1], fifo[i])
<1> DEFINE n == Len(fifo)
           fed == CHOOSE f : IsFed(f, svc, n)
<1>1. IsFed(fed, svc, n)
    BY FedExists
<1>2. Drain(svc) = fed[n]
    BY DEF Drain, IsFed
<1> HIDE DEF fed
<1>3. fed[0] = svc /\ \A i \in 1..n : fed[i] = FeedByte(fed[i - 1], fifo[i])
    BY <1>1 DEF IsFed
<1> QED
    BY <1>2, <1>3

-----------------------------------------------------------------------------
(* Types.                                                                  *)
Clock == 0..(Wrap - 1)
Bytes == [of : {0, 1}, value : {Header, End} \cup Payload]
ServiceType ==
    [buffer : Seq(Bytes), valid : BOOLEAN, connected : BOOLEAN, failsafe : BOOLEAN,
     of : SUBSET {0, 1}, last : Clock, errors : 0..ErrorLimit]
SampleType ==
    [valid : BOOLEAN, connected : BOOLEAN, failsafe : BOOLEAN, of : SUBSET {0, 1},
     age : 0..TooOld]

TypeOK ==
    /\ now \in Clock
    /\ line \in [number : {0, 1}, sent : 0..FrameLength, clean : BOOLEAN, idle : BOOLEAN]
    /\ fifo \in Seq(Bytes)
    /\ service \in ServiceType
    /\ silence \in 0..Longest
    /\ task \in [step : {"idle", "poll", "expire", "snapshot"}, now : Clock, since : Nat]
    /\ sample \in SampleType

(* A buffer is not full, and its bytes are those of one frame.              *)
Partial(svc, m) ==
    Len(svc.buffer) < FrameLength /\ \A i \in DOMAIN svc.buffer : svc.buffer[i].of = m
One(set) == \A f, g \in set : f = g

LEMMA Limits ==
    /\ FrameLength \in Nat /\ FrameLength >= 3
    /\ Wrap \in Nat \ {0} /\ Timeout \in Nat \ {0} /\ Period \in Nat \ {0} /\ MaxLag \in Nat \ {0}
    /\ Timeout + MaxLag + Period < Wrap /\ ErrorLimit \in Nat \ {0}
    /\ Longest = Wrap + Timeout /\ TooOld = Timeout + MaxLag
BY LengthAssumption, TimeAssumption, ErrorAssumption DEF Longest, TooOld

LEMMA EmptyBytes == <<>> \in Seq(Bytes) /\ Len(<<>>) = 0 /\ DOMAIN <<>> = {}
OBVIOUS

LEMMA CountErrorFacts ==
    ASSUME NEW svc \in ServiceType
    PROVE  /\ CountError(svc) \in ServiceType
           /\ CountError(svc) = [svc EXCEPT !.errors = CountError(svc).errors]
<1> DEFINE e == IF svc.errors < ErrorLimit THEN svc.errors + 1 ELSE svc.errors
<1>1. e \in 0..ErrorLimit
    BY Limits DEF ServiceType
<1>2. CountError(svc) = [svc EXCEPT !.errors = e]
    BY DEF CountError
<1> HIDE DEF e
<1>3. [svc EXCEPT !.errors = e] \in ServiceType /\ [svc EXCEPT !.errors = e].errors = e
    BY <1>1 DEF ServiceType
<1> QED
    BY <1>2, <1>3

(* One byte.  k bytes of a frame are in the buffer before it.               *)
LEMMA FeedByteFacts ==
    ASSUME NEW svc \in ServiceType, NEW m \in {0, 1}, Partial(svc, m), now \in Clock,
           NEW b \in Bytes, b.of = m
    PROVE  LET t == FeedByte(svc, b)
               k == Len(svc.buffer)
           IN  /\ t \in ServiceType /\ Partial(t, m)
               /\ One(svc.of) => One(t.of)
               /\ (svc.connected => svc.valid) => (t.connected => t.valid)
               /\ (k = 0 => b.value = Header) /\ k + 1 < FrameLength =>
                    t.errors = svc.errors /\ Len(t.buffer) = k + 1
               /\ k + 1 = FrameLength /\ b.value = End =>
                    t.errors = svc.errors /\ t.buffer = <<>> /\ t.of = {m}
<1> DEFINE t == FeedByte(svc, b)
           k == Len(svc.buffer)
           q == Append(svc.buffer, b)
<1>1. /\ svc.buffer \in Seq(Bytes) /\ k \in Nat /\ k < FrameLength
      /\ (svc.buffer = <<>> <=> k = 0)
    BY DEF ServiceType, Partial
<1>2. /\ q \in Seq(Bytes) /\ Len(q) = k + 1 /\ q[k + 1] = b
      /\ \A i \in 1..Len(q) : q[i].of = m
    BY <1>1 DEF Partial
<1>3. CASE k = 0 /\ b.value # Header
    <2>1. t = svc
        BY <1>1, <1>3 DEF FeedByte
    <2> QED
        BY <1>1, <1>3, <2>1, Limits
<1>4. CASE ~(k = 0 /\ b.value # Header) /\ k + 1 < FrameLength
    <2>1. t = [svc EXCEPT !.buffer = q]
        BY <1>1, <1>2, <1>4 DEF FeedByte
    <2>2. t \in ServiceType
        BY <1>2, <2>1 DEF ServiceType
    <2>3. /\ t.buffer = q /\ t.of = svc.of /\ t.connected = svc.connected
          /\ t.valid = svc.valid /\ t.errors = svc.errors
        BY <2>1 DEF ServiceType
    <2> HIDE DEF t, q
    <2> QED
        BY <1>2, <1>4, <2>2, <2>3 DEF Partial, t
<1>5. CASE ~(k = 0 /\ b.value # Header) /\ k + 1 >= FrameLength
    <2> DEFINE d == Decode(svc, q)
    <2>1. k + 1 = FrameLength /\ t = [d EXCEPT !.buffer = <<>>]
        <3>1. k + 1 = FrameLength /\ ~(svc.buffer = <<>> /\ b.value # Header)
            BY <1>1, <1>5, Limits
        <3>2. ~(Len(q) < FrameLength)
            BY <1>2, <3>1
        <3> HIDE DEF d, k
        <3> QED
            BY <3>1, <3>2 DEF FeedByte, d
    <2>2. CASE b.value # End
        <3>1. d = CountError(svc)
            BY <1>2, <2>1, <2>2 DEF Decode
        <3> HIDE DEF d
        <3>2. /\ d \in ServiceType /\ d.of = svc.of /\ d.valid = svc.valid
              /\ d.connected = svc.connected
            BY <3>1, CountErrorFacts DEF ServiceType
        <3> HIDE DEF t
        <3>3. /\ t \in ServiceType /\ t.buffer = <<>> /\ t.of = d.of
              /\ t.valid = d.valid /\ t.connected = d.connected
            BY <2>1, <3>2, EmptyBytes DEF ServiceType
        <3> QED
            BY <2>1, <2>2, <3>2, <3>3, Limits DEF Partial, t
    <2>3. CASE b.value = End
        <3> DEFINE of == {q[i].of : i \in 1..FrameLength}
        <3>1. d = [svc EXCEPT !.valid = TRUE, !.connected = ~Failsafe(q),
                              !.failsafe = Failsafe(q), !.last = now, !.of = of]
            BY <1>2, <2>1, <2>3 DEF Decode
        <3>2. Failsafe(q) \in BOOLEAN
            BY DEF Failsafe
        <3>3. of = {m}
            BY <1>2, <2>1, Limits
        <3> HIDE DEF d, of
        <3>4. /\ d \in ServiceType /\ d.of = {m} /\ d.valid /\ d.errors = svc.errors
            BY <3>1, <3>2, <3>3 DEF ServiceType
        <3> HIDE DEF t
        <3>5. /\ t \in ServiceType /\ t.buffer = <<>> /\ t.of = d.of
              /\ t.valid = d.valid /\ t.errors = d.errors
            BY <2>1, <3>4, EmptyBytes DEF ServiceType
        <3> QED
            BY <2>1, <3>4, <3>5, Limits DEF Partial, One, t
    <2> QED
        BY <2>2, <2>3
<1> QED
    BY <1>1, <1>3, <1>4, <1>5, Limits

-----------------------------------------------------------------------------
(* The whole FIFO.                                                         *)
LEMMA DrainKeeps ==
    ASSUME fifo \in Seq(Bytes), now \in Clock, NEW m \in {0, 1},
           \A i \in DOMAIN fifo : fifo[i].of = m,
           NEW svc \in ServiceType, Partial(svc, m)
    PROVE  LET t == Drain(svc)
           IN  /\ t \in ServiceType /\ Partial(t, m)
               /\ One(svc.of) => One(t.of)
               /\ (svc.connected => svc.valid) => (t.connected => t.valid)
<1> DEFINE n == Len(fifo)
           Kept(t) == /\ t \in ServiceType /\ Partial(t, m)
                      /\ One(svc.of) => One(t.of)
                      /\ (svc.connected => svc.valid) => (t.connected => t.valid)
<1>1. n \in Nat
    OBVIOUS
<1>2. PICK fed : /\ fed[0] = svc /\ Drain(svc) = fed[n]
                 /\ \A i \in 1..n : fed[i] = FeedByte(fed[i - 1], fifo[i])
    BY <1>1, DrainFacts
<1> DEFINE Some == {i \in 0..n : Kept(fed[i])}
<1>3. 0 \in Some
    BY <1>1, <1>2
<1>4. ASSUME NEW i \in 1..n, i - 1 \in Some
      PROVE  i \in Some
    <2> DEFINE a == fed[i - 1]
    <2>1. Kept(a) /\ fed[i] = FeedByte(a, fifo[i])
        BY <1>2, <1>4
    <2>2. fifo[i] \in Bytes /\ fifo[i].of = m
        BY <1>4
    <2> HIDE DEF a
    <2>3. Kept(FeedByte(a, fifo[i]))
        BY <2>1, <2>2, FeedByteFacts
    <2> QED
        BY <1>4, <2>1, <2>3
<1>5. n \in Some
    <2> HIDE DEF Some, n
    <2>1. \A i \in 1..n : i - 1 \in Some => i \in Some
        BY <1>4
    <2>2. 0..n \subseteq Some
        BY <1>1, <1>3, <2>1, UpTo
    <2> QED
        BY <1>1, <2>2
<1> QED
    BY <1>2, <1>5

(* The FIFO ends where the line is: what is in the buffer and in the FIFO    *)
(* are the bytes of the frame so far, none of them lost.                    *)
Whole(svc) ==
    /\ Len(svc.buffer) + Len(fifo) = line.sent
    /\ svc.buffer = <<>> /\ fifo # <<>> => fifo[1].value = Header
    /\ line.sent = FrameLength => fifo[Len(fifo)].value = End
Accepted(svc) ==
    /\ line.sent = FrameLength /\ svc.buffer = <<>> /\ fifo = <<>>
    /\ svc.of = {line.number}

LEMMA DrainWhole ==
    ASSUME TypeOK, \A i \in DOMAIN fifo : fifo[i].of = line.number,
           Partial(service, line.number), Whole(service)
    PROVE  LET t == Drain(service)
           IN  /\ t.errors = service.errors
               /\ line.sent < FrameLength => Len(t.buffer) = line.sent
               /\ line.sent = FrameLength => t.buffer = <<>> /\ t.of = {line.number}
<1> DEFINE n == Len(fifo)
           k == Len(service.buffer)
           m == line.number
<1>1. /\ n \in Nat /\ k \in Nat /\ m \in {0, 1} /\ k + n = line.sent /\ line.sent <= FrameLength
      /\ service \in ServiceType /\ fifo \in Seq(Bytes) /\ now \in Clock
    BY Limits DEF TypeOK, ServiceType, Whole
<1>2. PICK fed : /\ fed[0] = service /\ Drain(service) = fed[n]
                 /\ \A i \in 1..n : fed[i] = FeedByte(fed[i - 1], fifo[i])
    BY <1>1, DrainFacts
<1> DEFINE Good(i, t) ==
                /\ t \in ServiceType /\ Partial(t, m) /\ t.errors = service.errors
                /\ k + i < FrameLength => Len(t.buffer) = k + i
                /\ k + i = FrameLength => t.buffer = <<>> /\ t.of = {m}
           Some == {i \in 0..n : Good(i, fed[i])}
<1>3. 0 \in Some
    BY <1>1, <1>2 DEF Partial
<1>4. ASSUME NEW i \in 1..n, i - 1 \in Some
      PROVE  i \in Some
    <2> DEFINE a == fed[i - 1]
               b == fifo[i]
    <2>1. Good(i - 1, a) /\ fed[i] = FeedByte(a, b) /\ b \in Bytes /\ b.of = m
        BY <1>1, <1>2, <1>4
    <2>2. k + (i - 1) < FrameLength /\ Len(a.buffer) = k + (i - 1)
        BY <1>1, <2>1, Limits
    <2>3. k + (i - 1) = 0 => b.value = Header
        <3> SUFFICES ASSUME k + (i - 1) = 0 PROVE b.value = Header
            OBVIOUS
        <3>1. i = 1 /\ k = 0 /\ fifo # <<>>
            BY <1>1
        <3>2. service.buffer = <<>>
            BY <1>1, <3>1 DEF ServiceType
        <3> QED
            BY <3>1, <3>2 DEF Whole
    <2>4. k + (i - 1) + 1 = FrameLength => b.value = End
        BY <1>1 DEF Whole
    <2>5. a \in ServiceType /\ Partial(a, m) /\ a.errors = service.errors
        BY <2>1
    <2> HIDE DEF a, b, k, m, n
    <2>6. LET t == FeedByte(a, b)
          IN  /\ t \in ServiceType /\ Partial(t, m)
              /\ k + i < FrameLength => t.errors = a.errors /\ Len(t.buffer) = k + i
              /\ k + i = FrameLength => t.errors = a.errors /\ t.buffer = <<>> /\ t.of = {m}
        BY <1>1, <2>1, <2>2, <2>3, <2>4, <2>5, FeedByteFacts
    <2>7. k + i < FrameLength \/ k + i = FrameLength
        BY <1>1, <2>2, Limits
    <2>8. FeedByte(a, b).errors = service.errors
        BY <2>5, <2>6, <2>7
    <2>9. Good(i, fed[i])
        BY <2>1, <2>6, <2>8
    <2>10. i \in 0..n
        BY <1>1
    <2> QED
        BY <2>9, <2>10
<1>5. n \in Some
    <2> HIDE DEF Some, n
    <2>1. \A i \in 1..n : i - 1 \in Some => i \in Some
        BY <1>4
    <2>2. 0..n \subseteq Some
        BY <1>1, <1>3, <2>1, UpTo
    <2> QED
        BY <1>1, <2>2
<1> QED
    BY <1>1, <1>2, <1>5

(* Whether a frame is accepted does not depend on an older one.             *)
LEMMA DrainAccepts ==
    ASSUME fifo \in Seq(Bytes), service \in ServiceType
    PROVE  LET t == Drain(service)
           IN  IF FrameAccepted THEN t.valid /\ t.last = now
               ELSE /\ t.valid = service.valid /\ t.connected = service.connected
                    /\ t.last = service.last
<1> DEFINE n == Len(fifo)
           other == [service EXCEPT !.valid = FALSE]
<1>1. n \in Nat
    OBVIOUS
<1>2. PICK fed : /\ fed[0] = service /\ Drain(service) = fed[n]
                 /\ \A i \in 1..n : fed[i] = FeedByte(fed[i - 1], fifo[i])
    BY <1>1, DrainFacts
<1>3. PICK alt : /\ alt[0] = other /\ Drain(other) = alt[n]
                 /\ \A i \in 1..n : alt[i] = FeedByte(alt[i - 1], fifo[i])
    BY <1>1, DrainFacts
<1> DEFINE Like(s, t) ==
                /\ DOMAIN s = DOMAIN service /\ DOMAIN t = DOMAIN service
                /\ s.buffer = t.buffer
                /\ IF t.valid THEN s.valid /\ s.last = now
                   ELSE /\ s.valid = service.valid /\ s.connected = service.connected
                        /\ s.last = service.last
           Some == {i \in 0..n : Like(fed[i], alt[i])}
<1>4. 0 \in Some
    <2>1. Like(service, other)
        BY DEF ServiceType
    <2> HIDE DEF other
    <2>2. Like(fed[0], alt[0])
        BY <1>2, <1>3, <2>1
    <2> QED
        BY <1>1, <2>2
<1>5. ASSUME NEW s, NEW t, NEW b, Like(s, t)
      PROVE  Like(FeedByte(s, b), FeedByte(t, b))
    <2>0. DOMAIN service = {"buffer", "valid", "connected", "failsafe", "of", "last", "errors"}
        BY DEF ServiceType
    <2>1. CASE s.buffer = <<>> /\ b.value # Header
        BY <1>5, <2>1 DEF FeedByte
    <2>2. CASE ~(s.buffer = <<>> /\ b.value # Header) /\ Len(Append(s.buffer, b)) < FrameLength
        <3> DEFINE q == Append(s.buffer, b)
        <3>1. /\ FeedByte(s, b) = [s EXCEPT !.buffer = q] /\ FeedByte(t, b) = [t EXCEPT !.buffer = q]
            BY <1>5, <2>2 DEF FeedByte
        <3> HIDE DEF q
        <3> QED
            BY <1>5, <2>0, <3>1
    <2>3. CASE ~(s.buffer = <<>> /\ b.value # Header) /\ ~(Len(Append(s.buffer, b)) < FrameLength)
        <3> DEFINE q == Append(s.buffer, b)
        <3>1. /\ FeedByte(s, b) = [Decode(s, q) EXCEPT !.buffer = <<>>]
              /\ FeedByte(t, b) = [Decode(t, q) EXCEPT !.buffer = <<>>]
            BY <1>5, <2>3 DEF FeedByte
        <3> HIDE DEF q
        <3>2. Like(Decode(s, q), Decode(t, q))
            BY <1>5, <2>0 DEF Decode, CountError
        <3> QED
            BY <2>0, <3>1, <3>2
    <2> QED
        BY <2>1, <2>2, <2>3
<1>6. ASSUME NEW i \in 1..n, i - 1 \in Some
      PROVE  i \in Some
    <2>1. Like(fed[i - 1], alt[i - 1])
        BY <1>6
    <2>2. Like(FeedByte(fed[i - 1], fifo[i]), FeedByte(alt[i - 1], fifo[i]))
        <3> HIDE DEF Like
        <3> QED
            BY <1>5, <2>1
    <2> QED
        BY <1>2, <1>3, <1>6, <2>2
<1>7. n \in Some
    <2> HIDE DEF Some, n
    <2>1. \A i \in 1..n : i - 1 \in Some => i \in Some
        BY <1>6
    <2>2. 0..n \subseteq Some
        BY <1>1, <1>4, <2>1, UpTo
    <2> QED
        BY <1>1, <2>2
<1>8. FrameAccepted <=> alt[n].valid
    BY <1>3 DEF FrameAccepted
<1> QED
    BY <1>2, <1>7, <1>8

-----------------------------------------------------------------------------
(* The clock.                                                              *)
LEMMA Difference ==
    ASSUME NEW a \in Clock, NEW b \in Clock
    PROVE  /\ (a - b) % Wrap \in Clock
           /\ a >= b => (a - b) % Wrap = a - b
           /\ a < b => (a - b) % Wrap = a - b + Wrap
BY Limits DEF Clock

LEMMA Successor ==
    ASSUME NEW a \in Clock
    PROVE  /\ (a + 1) % Wrap \in Clock
           /\ (a + 1) % Wrap = IF a + 1 = Wrap THEN 0 ELSE a + 1
BY Limits DEF Clock

-----------------------------------------------------------------------------
(* The invariant.  The bytes between the line and the service are those of  *)
(* the frame on the line.                                                  *)
LineInv ==
    /\ \A i \in DOMAIN fifo : fifo[i].of = line.number
    /\ Partial(service, line.number)
    /\ One(service.of) /\ One(sample.of)
    /\ line.idle => line.sent = FrameLength
    /\ line.clean => Whole(service) \/ Accepted(service)

(* How long a link may have been silent that still counts as connected.      *)
Pause == IF Period > MaxLag THEN Period ELSE MaxLag
SilenceInv ==
    /\ service.connected => service.valid
    /\ service.valid /\ silence < Wrap => silence = (now - service.last) % Wrap
    /\ task.since <= IF task.step = "idle" THEN Pause ELSE MaxLag
    /\ service.connected =>
        /\ task.step \in {"idle", "snapshot"} => silence < Timeout + task.since
        /\ task.step = "poll" => silence <= ((task.now - service.last) % Wrap) + task.since
    /\ SilenceDetected

IInv == TypeOK /\ LineInv /\ SilenceInv

-----------------------------------------------------------------------------
(* One lemma for each action.                                              *)
LEMMA InitHolds == Init => IInv
<1> SUFFICES ASSUME Init PROVE IInv
    OBVIOUS
<1>1. TypeOK
    BY Limits, EmptyBytes DEF Init, TypeOK, Clock, ServiceType, SampleType
<1>2. LineInv
    BY Limits, EmptyBytes DEF Init, LineInv, Partial, One, Whole
<1>3. SilenceInv
    BY Limits DEF Init, SilenceInv, SilenceDetected, Pause
<1> QED
    BY <1>1, <1>2, <1>3 DEF IInv

LEMMA ByteStep ==
    ASSUME IInv, NEW v \in {Header, End} \cup Payload, NEW arrives \in BOOLEAN,
           Byte(v, arrives)
    PROVE  IInv'
<1> DEFINE b == [of |-> line.number, value |-> v]
           n == Len(fifo)
<1>1. /\ TypeOK /\ LineInv /\ SilenceInv /\ b \in Bytes
      /\ UNCHANGED <<now, service, silence, task, sample>>
      /\ line.sent < FrameLength /\ LegalByte(v)
      /\ fifo' = IF arrives THEN Append(fifo, b) ELSE fifo
      /\ line' = [line EXCEPT !.sent = line.sent + 1, !.clean = line.clean /\ arrives]
    BY DEF IInv, Byte, Bytes, TypeOK
<1>2. /\ fifo' \in Seq(Bytes) /\ fifo \in Seq(Bytes) /\ n \in Nat
      /\ \A i \in DOMAIN fifo' : fifo'[i].of = line.number
    BY <1>1 DEF TypeOK, LineInv
<1>3. /\ line' \in [number : {0, 1}, sent : 0..FrameLength, clean : BOOLEAN, idle : BOOLEAN]
      /\ line'.number = line.number /\ line'.sent = line.sent + 1
      /\ line'.idle = line.idle /\ (line'.clean => line.clean /\ arrives)
      /\ line.sent \in 0..FrameLength
    <2> DEFINE c == line.clean /\ arrives
    <2>1. line.sent + 1 \in 0..FrameLength /\ c \in BOOLEAN
        BY <1>1, Limits DEF TypeOK
    <2>2. line' = [line EXCEPT !.sent = line.sent + 1, !.clean = c]
        BY <1>1
    <2>3. c => line.clean /\ arrives
        OBVIOUS
    <2> HIDE DEF c
    <2> QED
        BY <1>1, <2>1, <2>2, <2>3 DEF TypeOK
<1> HIDE DEF b
<1>4. ASSUME line'.clean
      PROVE  Whole(service)'
    <2>1. /\ Whole(service) /\ fifo' = Append(fifo, b) /\ b.value = v
        BY <1>1, <1>3, <1>4 DEF LineInv, Accepted, b
    <2>2. /\ Len(fifo') = n + 1 /\ fifo'[n + 1] = b
          /\ fifo # <<>> => fifo'[1] = fifo[1] /\ n > 0
          /\ fifo = <<>> => n = 0
        BY <1>2, <2>1
    <2>3. /\ Len(service.buffer) \in Nat /\ (service.buffer = <<>> => Len(service.buffer) = 0)
          /\ Len(service.buffer) + n = line.sent
        BY <1>1, <2>1 DEF Whole, TypeOK, ServiceType
    <2>4. service.buffer = <<>> => fifo'[1].value = Header
        <3>1. CASE fifo # <<>>
            BY <2>1, <2>2, <3>1 DEF Whole
        <3>2. CASE fifo = <<>> /\ service.buffer = <<>>
            <4>1. line.sent = 0
                BY <2>2, <2>3, <3>2
            <4> QED
                BY <1>1, <2>1, <2>2, <3>2, <4>1, Limits DEF LegalByte
        <3> QED
            BY <3>1, <3>2
    <2>5. line'.sent = FrameLength => b.value = End
        <3> SUFFICES ASSUME line'.sent = FrameLength PROVE b.value = End
            OBVIOUS
        <3>1. line.sent = FrameLength - 1 /\ line.sent # 0
            BY <1>3, Limits
        <3> QED
            BY <1>1, <2>1, <3>1 DEF LegalByte
    <2>6. service' = service /\ Len(service.buffer) + Len(fifo') = line'.sent
        <3>1. service' = service
            BY <1>1
        <3>2. Len(fifo') = n + 1 /\ line'.sent = line.sent + 1 /\ n \in Nat
            BY <1>2, <1>3, <2>2
        <3> DEFINE k == Len(service.buffer)
        <3>3. k + n = line.sent /\ k \in Nat
            BY <2>3
        <3> HIDE DEF k, n
        <3>4. k + (n + 1) = line.sent + 1
            BY <3>2, <3>3
        <3> QED
            BY <3>1, <3>2, <3>4 DEF k
    <2> QED
        BY <2>2, <2>4, <2>5, <2>6 DEF Whole
<1>5. TypeOK'
    BY <1>1, <1>2, <1>3 DEF TypeOK
<1>6. LineInv'
    BY <1>1, <1>2, <1>3, <1>4, Limits DEF LineInv, Partial
<1>7. SilenceInv'
    BY <1>1 DEF SilenceInv, SilenceDetected
<1> QED
    BY <1>5, <1>6, <1>7 DEF IInv

LEMMA LineIdleStep ==
    ASSUME IInv, LineIdle
    PROVE  IInv'
<1>1. /\ TypeOK /\ LineInv /\ SilenceInv /\ line.sent = FrameLength
      /\ UNCHANGED <<now, fifo, service, silence, task, sample>>
      /\ line' \in [number : {0, 1}, sent : 0..FrameLength, clean : BOOLEAN, idle : BOOLEAN]
      /\ line'.number = line.number /\ line'.sent = line.sent /\ line'.clean = line.clean
    BY DEF IInv, LineIdle, TypeOK
<1>2. TypeOK'
    BY <1>1 DEF TypeOK
<1>3. LineInv'
    BY <1>1 DEF LineInv, Whole, Accepted, Partial
<1>4. SilenceInv'
    BY <1>1 DEF SilenceInv, SilenceDetected
<1> QED
    BY <1>2, <1>3, <1>4 DEF IInv

(* What the interrupt makes of the service.                                 *)
LEMMA ServeFacts ==
    ASSUME TypeOK, LineInv
    PROVE  LET t == Serve(service)
           IN  /\ t \in ServiceType /\ Partial(t, line.number) /\ One(t.of)
               /\ (service.connected => service.valid) => (t.connected => t.valid)
               /\ IF FrameAccepted THEN t.valid /\ t.last = now
                  ELSE /\ t.valid = service.valid /\ t.connected = service.connected
                       /\ t.last = service.last
               /\ line.idle => t.buffer = <<>>
               /\ line.clean =>
                    /\ t.errors = service.errors
                    /\ line.sent < FrameLength => Len(t.buffer) = line.sent
                    /\ line.sent = FrameLength => t.buffer = <<>> /\ t.of = {line.number}
<1> DEFINE d == Drain(service)
           t == Serve(service)
           m == line.number
<1>1. /\ fifo \in Seq(Bytes) /\ now \in Clock /\ m \in {0, 1} /\ service \in ServiceType
      /\ \A i \in DOMAIN fifo : fifo[i].of = m
      /\ Partial(service, m) /\ One(service.of)
    BY DEF TypeOK, LineInv
<1>2. /\ d \in ServiceType /\ Partial(d, m) /\ One(d.of)
      /\ (service.connected => service.valid) => (d.connected => d.valid)
    BY <1>1, DrainKeeps
<1>3. IF FrameAccepted THEN d.valid /\ d.last = now
      ELSE d.valid = service.valid /\ d.connected = service.connected /\ d.last = service.last
    BY <1>1, DrainAccepts
<1>4. line.clean =>
        /\ d.errors = service.errors
        /\ line.sent < FrameLength => Len(d.buffer) = line.sent
        /\ line.sent = FrameLength => d.buffer = <<>> /\ d.of = {m}
    <2>1. CASE Whole(service)
        BY <1>1, <2>1, DrainWhole
    <2>2. CASE Accepted(service)
        <3>1. PICK fed : fed[0] = service /\ Drain(service) = fed[Len(fifo)]
            BY <1>1, DrainFacts
        <3>2. d = service /\ line.sent = FrameLength
            BY <2>2, <3>1, EmptyBytes DEF Accepted
        <3> QED
            BY <2>2, <3>2, Limits DEF Accepted
    <2> QED
        BY <2>1, <2>2 DEF LineInv
<1> HIDE DEF d
<1>5. CASE ~line.idle \/ d.buffer = <<>>
    <2>1. t = d
        BY <1>5 DEF Serve, NoteIdle, d
    <2> QED
        BY <1>2, <1>3, <1>4, <1>5, <2>1
<1>6. CASE line.idle /\ d.buffer # <<>>
    <2>1. t = [CountError(d) EXCEPT !.buffer = <<>>]
        BY <1>6 DEF Serve, NoteIdle, d
    <2>2. CountError(d) \in ServiceType /\ CountError(d) = [d EXCEPT !.errors = CountError(d).errors]
        BY <1>2, CountErrorFacts
    <2>3. /\ t \in ServiceType /\ t.buffer = <<>> /\ t.valid = d.valid
          /\ t.connected = d.connected /\ t.last = d.last /\ t.of = d.of
        BY <1>2, <2>1, <2>2, EmptyBytes DEF ServiceType
    <2>4. ~line.clean
        BY <1>4, <1>6 DEF LineInv
    <2> QED
        BY <1>2, <1>3, <1>6, <2>3, <2>4, EmptyBytes, Limits DEF Partial
<1> QED
    BY <1>5, <1>6

LEMMA IsrStep ==
    ASSUME IInv, Isr
    PROVE  /\ IInv'
           /\ line.idle /\ line.clean => service'.of = {line.number} /\ service'.buffer = <<>>
           /\ line.clean => service'.errors = service.errors
<1> DEFINE m == line.number
<1>1. /\ TypeOK /\ LineInv /\ SilenceInv /\ service' = Serve(service)
      /\ silence' = IF FrameAccepted THEN 0 ELSE silence
      /\ fifo' = <<>> /\ UNCHANGED <<now, task, sample>>
      /\ line' = IF line.idle
                 THEN [number |-> 1 - m, sent |-> 0, clean |-> TRUE, idle |-> FALSE]
                 ELSE line
    BY DEF IInv, Isr
<1>2. /\ service' \in ServiceType /\ Partial(service', m) /\ One(service'.of)
      /\ service'.connected => service'.valid
      /\ IF FrameAccepted THEN service'.valid /\ service'.last = now
         ELSE /\ service'.valid = service.valid /\ service'.connected = service.connected
              /\ service'.last = service.last
      /\ line.idle => service'.buffer = <<>>
      /\ line.clean =>
            /\ service'.errors = service.errors
            /\ line.sent < FrameLength => Len(service'.buffer) = line.sent
            /\ line.sent = FrameLength => service'.buffer = <<>> /\ service'.of = {m}
    BY <1>1, ServeFacts DEF SilenceInv
<1>3. /\ line.number \in {0, 1} /\ line.sent \in 0..FrameLength /\ now \in Clock
      /\ silence \in 0..Longest /\ task.now \in Clock /\ task.since \in Nat
      /\ service.last \in Clock
    BY <1>1 DEF TypeOK, ServiceType
<1>4. TypeOK'
    <2>1. line' \in [number : {0, 1}, sent : 0..FrameLength, clean : BOOLEAN, idle : BOOLEAN]
        BY <1>1, <1>3, Limits DEF TypeOK
    <2>2. silence' \in 0..Longest
        BY <1>1, <1>3, Limits
    <2> QED
        BY <1>1, <1>2, <2>1, <2>2, EmptyBytes DEF TypeOK
<1>5. LineInv'
    <2>1. One(service.of)' /\ One(sample.of)'
        BY <1>1, <1>2 DEF LineInv, One
    <2>2. CASE line.idle
        BY <1>1, <1>2, <2>1, <2>2, EmptyBytes, Limits DEF LineInv, Partial, Whole
    <2>3. CASE ~line.idle
        <3>1. line' = line /\ (line'.idle => line'.sent = FrameLength)
            BY <1>1, <2>3
        <3>2. line'.clean => (Whole(service) \/ Accepted(service))'
            <4>1. CASE line.sent < FrameLength
                BY <1>1, <1>2, <1>3, <3>1, <4>1, EmptyBytes, Limits DEF Whole
            <4>2. CASE line.sent = FrameLength
                BY <1>1, <1>2, <3>1, <4>2 DEF Accepted
            <4> QED
                BY <1>3, <4>1, <4>2, Limits
        <3> QED
            BY <1>1, <1>2, <2>1, <3>1, <3>2, EmptyBytes DEF LineInv, Partial
    <2> QED
        BY <2>2, <2>3
<1>6. SilenceInv'
    <2>1. CASE FrameAccepted
        <3>1. silence' = 0 /\ service'.last = now /\ now' = now /\ task' = task
            BY <1>1, <1>2, <2>1
        <3>2. /\ (now - now) % Wrap = 0
              /\ (task.now - now) % Wrap >= 0
            BY <1>3, Difference, Limits DEF Clock
        <3>3. 0 < Timeout + task.since /\ ((task.now - now) % Wrap) + task.since >= 0
            BY <1>3, <3>2, Difference, Limits DEF Clock
        <3> QED
            BY <1>1, <1>2, <3>1, <3>2, <3>3 DEF SilenceInv, SilenceDetected
    <2>2. CASE ~FrameAccepted
        BY <1>1, <1>2, <2>2 DEF SilenceInv, SilenceDetected
    <2> QED
        BY <2>1, <2>2
<1> QED
    BY <1>1, <1>2, <1>4, <1>5, <1>6 DEF IInv, LineInv

(* A step of the remote task leaves the line alone.                         *)
LEMMA SameLine ==
    ASSUME LineInv, UNCHANGED <<line, fifo>>, service'.buffer = service.buffer,
           service'.of = service.of, One(sample'.of)
    PROVE  LineInv'
BY DEF LineInv, Partial, Whole, Accepted

LEMMA TickStep ==
    ASSUME IInv, Tick
    PROVE  IInv'
<1>1. /\ TypeOK /\ LineInv /\ SilenceInv
      /\ task.since < IF task.step = "idle" THEN Period ELSE MaxLag
      /\ now' = (now + 1) % Wrap
      /\ silence' = IF silence < Longest THEN silence + 1 ELSE silence
      /\ task' = [task EXCEPT !.since = @ + 1]
      /\ UNCHANGED <<line, fifo, service, sample>>
    BY DEF IInv, Tick
<1>2. /\ now \in Clock /\ silence \in 0..Longest /\ task.since \in Nat /\ task.now \in Clock
      /\ (service.valid => service.last \in Clock)
    BY <1>1 DEF TypeOK, ServiceType
<1>3. /\ task' \in [step : {"idle", "poll", "expire", "snapshot"}, now : Clock, since : Nat]
      /\ task'.step = task.step /\ task'.now = task.now /\ task'.since = task.since + 1
    BY <1>1 DEF TypeOK
<1>4. now' \in Clock /\ silence' \in 0..Longest /\ silence' <= silence + 1
    BY <1>1, <1>2, Successor, Limits
<1>5. service.valid /\ silence' < Wrap => silence' = (now' - service.last) % Wrap
    <2> SUFFICES ASSUME service.valid, silence' < Wrap
                 PROVE  silence' = (now' - service.last) % Wrap
        OBVIOUS
    <2>1. silence' = silence + 1 /\ silence < Wrap
        BY <1>1, <1>2, Limits
    <2>2. silence = (now - service.last) % Wrap /\ service.last \in Clock
        BY <1>1, <1>2, <2>1 DEF SilenceInv
    <2>3. now' = IF now + 1 = Wrap THEN 0 ELSE now + 1
        BY <1>1, <1>2, Successor
    <2>4. /\ now >= service.last => silence = now - service.last
          /\ now < service.last => silence = now - service.last + Wrap
        BY <1>2, <2>2, Difference
    <2>5. /\ now' >= service.last => (now' - service.last) % Wrap = now' - service.last
          /\ now' < service.last => (now' - service.last) % Wrap = now' - service.last + Wrap
        BY <1>4, <2>2, Difference
    <2> QED
        BY <1>2, <2>1, <2>2, <2>3, <2>4, <2>5, Limits DEF Clock
<1>6. TypeOK' /\ LineInv'
    BY <1>1, <1>3, <1>4, SameLine DEF TypeOK, LineInv
<1>7. SilenceInv'
    <2>1. task'.since <= IF task'.step = "idle" THEN Pause ELSE MaxLag
        BY <1>1, <1>2, <1>3, Limits DEF Pause
    <2>2. ASSUME service.connected, task.step \in {"idle", "snapshot"}
          PROVE  silence' < Timeout + task'.since
        BY <1>1, <1>2, <1>3, <1>4, <2>2, Limits DEF SilenceInv
    <2>3. ASSUME service.connected, task.step = "poll"
          PROVE  silence' <= ((task'.now - service.last) % Wrap) + task'.since
        <3>1. silence <= ((task.now - service.last) % Wrap) + task.since /\ service.last \in Clock
            BY <1>1, <1>2, <2>3 DEF SilenceInv
        <3>2. (task.now - service.last) % Wrap \in Clock
            BY <1>2, <3>1, Difference
        <3> QED
            BY <1>2, <1>3, <1>4, <3>1, <3>2, Limits DEF Clock
    <2>4. UNCHANGED <<service, sample>> /\ task'.step = task.step
        BY <1>1, <1>3
    <2> QED
        BY <1>1, <1>5, <2>1, <2>2, <2>3, <2>4 DEF SilenceInv, SilenceDetected
<1> QED
    BY <1>6, <1>7 DEF IInv

LEMMA RemoteStartStep ==
    ASSUME IInv, RemoteStart
    PROVE  IInv'
<1>1. /\ TypeOK /\ LineInv /\ SilenceInv /\ task.step = "idle"
      /\ task' = [step |-> "poll", now |-> now, since |-> 0]
      /\ UNCHANGED <<now, line, fifo, service, silence, sample>>
    BY DEF IInv, RemoteStart
<1>2. now \in Clock /\ silence \in Nat /\ task.since \in Nat /\ service.last \in Clock
    BY <1>1, Limits DEF TypeOK, ServiceType
<1>3. TypeOK' /\ LineInv'
    BY <1>1, <1>2, SameLine DEF TypeOK, LineInv
<1>4. ASSUME service.connected
      PROVE  silence <= ((now - service.last) % Wrap) + 0
    <2>1. service.valid /\ silence < Timeout + task.since /\ task.since <= Pause
        BY <1>1, <1>4 DEF SilenceInv
    <2>2. silence < Wrap
        BY <1>2, <2>1, Limits DEF Pause
    <2>3. silence = (now - service.last) % Wrap
        BY <1>1, <2>1, <2>2 DEF SilenceInv
    <2> QED
        BY <1>2, <2>3
<1>5. SilenceInv'
    BY <1>1, <1>4, Limits DEF SilenceInv, SilenceDetected
<1> QED
    BY <1>3, <1>5 DEF IInv

LEMMA PollCheckStep ==
    ASSUME IInv, PollCheck
    PROVE  IInv'
<1>1. /\ TypeOK /\ LineInv /\ SilenceInv /\ task.step = "poll"
      /\ task' = [task EXCEPT !.step = IF service.valid /\ Elapsed THEN "expire" ELSE "snapshot"]
      /\ UNCHANGED <<now, line, fifo, service, silence, sample>>
    BY DEF IInv, PollCheck
<1>2. /\ task' \in [step : {"idle", "poll", "expire", "snapshot"}, now : Clock, since : Nat]
      /\ task'.since = task.since /\ task'.step \in {"expire", "snapshot"}
      /\ task'.step = "snapshot" => ~(service.valid /\ Elapsed)
    BY <1>1 DEF TypeOK
<1>3. TypeOK' /\ LineInv'
    BY <1>1, <1>2, SameLine DEF TypeOK, LineInv
<1>4. ASSUME service.connected, task'.step = "snapshot"
      PROVE  silence < Timeout + task.since
    <2>1. service.valid /\ silence <= ((task.now - service.last) % Wrap) + task.since
        BY <1>1, <1>4 DEF SilenceInv
    <2>2. ~((task.now - service.last) % Wrap >= Timeout)
        BY <1>2, <1>4, <2>1 DEF Elapsed
    <2>3. /\ silence \in Nat /\ task.since \in Nat
          /\ (task.now - service.last) % Wrap \in Nat
        BY SMTT(60), <1>1, Difference, Limits DEF TypeOK, ServiceType, Clock
    <2> QED
        BY <2>1, <2>2, <2>3, Limits
<1>5. SilenceInv'
    BY <1>1, <1>2, <1>4 DEF SilenceInv, SilenceDetected
<1> QED
    BY <1>3, <1>5 DEF IInv

LEMMA PollExpireStep ==
    ASSUME IInv, PollExpire
    PROVE  IInv' /\ service'.errors = service.errors
<1>1. /\ TypeOK /\ LineInv /\ SilenceInv /\ task.step = "expire"
      /\ service' = [service EXCEPT !.connected = FALSE]
      /\ task' = [task EXCEPT !.step = "snapshot"]
      /\ UNCHANGED <<now, line, fifo, silence, sample>>
    BY DEF IInv, PollExpire
<1>2. /\ task' \in [step : {"idle", "poll", "expire", "snapshot"}, now : Clock, since : Nat]
      /\ task'.since = task.since /\ task'.step = "snapshot"
    BY <1>1 DEF TypeOK
<1>3. /\ service' \in ServiceType /\ ~service'.connected /\ service'.valid = service.valid
      /\ service'.last = service.last /\ service'.errors = service.errors
      /\ service'.buffer = service.buffer /\ service'.of = service.of
    BY <1>1 DEF TypeOK, ServiceType
<1>4. TypeOK' /\ LineInv'
    BY <1>1, <1>2, <1>3, SameLine DEF TypeOK, LineInv
<1>5. SilenceInv'
    BY <1>1, <1>2, <1>3 DEF SilenceInv, SilenceDetected
<1> QED
    BY <1>3, <1>4, <1>5 DEF IInv

LEMMA GetSnapshotStep ==
    ASSUME IInv, GetSnapshot
    PROVE  IInv'
<1> DEFINE age == IF silence < TooOld THEN silence ELSE TooOld
<1>1. /\ TypeOK /\ LineInv /\ SilenceInv /\ task.step = "snapshot"
      /\ sample' = [valid |-> service.valid, connected |-> service.connected,
                    failsafe |-> service.failsafe, of |-> service.of, age |-> age]
      /\ task' = [task EXCEPT !.step = "idle"]
      /\ UNCHANGED <<now, line, fifo, service, silence>>
    BY DEF IInv, GetSnapshot
<1>2. silence \in Nat /\ task.since \in Nat /\ TooOld \in Nat /\ age \in 0..TooOld
    BY <1>1, Limits DEF TypeOK
<1>3. ASSUME service.connected
      PROVE  silence < Timeout + task.since /\ age < TooOld
    <2>1. silence < Timeout + task.since /\ task.since <= MaxLag
        BY <1>1, <1>3 DEF SilenceInv
    <2> QED
        BY <1>2, <2>1, Limits
<1> HIDE DEF age
<1>4. /\ task' \in [step : {"idle", "poll", "expire", "snapshot"}, now : Clock, since : Nat]
      /\ task'.since = task.since /\ task'.step = "idle"
    BY <1>1 DEF TypeOK
<1>5. TypeOK'
    BY <1>1, <1>2, <1>4 DEF TypeOK, ServiceType, SampleType
<1>6. LineInv'
    BY <1>1, SameLine DEF LineInv
<1>7. SilenceInv'
    <2>1. task.since <= MaxLag
        BY <1>1 DEF SilenceInv
    <2>2. task'.since <= Pause
        BY <1>2, <1>4, <2>1, Limits DEF Pause
    <2> QED
        BY <1>1, <1>3, <1>4, <2>2 DEF SilenceInv, SilenceDetected
<1> QED
    BY <1>5, <1>6, <1>7 DEF IInv

-----------------------------------------------------------------------------
(* The bytes between the line and the service, and how old a connected link  *)
(* may be, are as IInv says, whatever is lost and however the tasks and the  *)
(* interrupt interleave.                                                    *)
THEOREM Invariance == Spec => []IInv
<1>1. ASSUME IInv, UNCHANGED vars
      PROVE  IInv'
    BY <1>1 DEF vars, IInv, TypeOK, LineInv, SilenceInv, SilenceDetected, Partial,
                Whole, Accepted
<1>2. IInv /\ [Next]_vars => IInv'
    BY <1>1, ByteStep, LineIdleStep, IsrStep, TickStep, RemoteStartStep, PollCheckStep,
       PollExpireStep, GetSnapshotStep DEF Next
<1> QED
    BY <1>2, InitHolds, PTL DEF Spec

(* sbus_service_poll notices the silence: no sample is connected that is     *)
(* older than the timeout and the time of the task, clock wraps included.   *)
THEOREM SilenceDetectedHolds == Spec => []SilenceDetected
<1>1. IInv => SilenceDetected
    BY DEF IInv, SilenceInv
<1> QED
    BY <1>1, Invariance, PTL

(* No sample mixes the channels of two frames, although the interrupt never  *)
(* looks at where a frame begins but for header, length and idle line.      *)
THEOREM SampleIsOneFrameHolds == Spec => []SampleIsOneFrame
<1>1. IInv => SampleIsOneFrame
    BY DEF IInv, LineInv, One, SampleIsOneFrame
<1> QED
    BY <1>1, Invariance, PTL

(* A frame that came in whole is accepted by the interrupt, and errors are   *)
(* only counted against frames that lost a byte.                            *)
THEOREM LossConfinedHolds == Spec => LossConfined
<1> DEFINE Confined ==
        /\ Isr /\ line.idle /\ line.clean =>
                service'.of = {line.number} /\ service'.buffer = <<>>
        /\ service'.errors # service.errors => ~line.clean
<1>1. ASSUME IInv, [Next]_vars
      PROVE  Confined
    <2>1. CASE Isr
        BY <1>1, <2>1, IsrStep
    <2>2. CASE PollExpire /\ ~Isr
        BY <1>1, <2>2, PollExpireStep
    <2>3. CASE ~Isr /\ ~PollExpire
        <3>1. service' = service
            BY <1>1, <2>3 DEF Next, Byte, LineIdle, Tick, RemoteStart, PollCheck, GetSnapshot, vars
        <3> QED
            BY <2>3, <3>1
    <2> QED
        BY <2>1, <2>2, <2>3
<1>2. IInv /\ [Next]_vars => [Confined]_vars
    BY <1>1
<1> QED
    BY <1>2, Invariance, PTL DEF Spec, LossConfined
=============================================================================
