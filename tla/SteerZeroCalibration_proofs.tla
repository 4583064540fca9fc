---------------------- MODULE SteerZeroCalibration_proofs ----------------------
(***************************************************************************)
(* Proofs about SteerZeroCalibration, for every number of axes, every       *)
(* distance of the stops and every old offset: an accepted zero is the      *)
(* centre, and an abort leaves the axes in one coordinate system, but for   *)
(* the axes that were misled.                                               *)
(***************************************************************************)
EXTENDS SteerZeroCalibration, FiniteSetTheorems, WellFoundedInduction, TLAPS

Velocities == {"none", "left", "right", "back"}
States == Running \cup {"idle", "complete", "fault"}
Writing == {"write_zero", "verify_zero"}
Moving == Searching \cup {"return_mid"}

CalFields ==
    {"state", "age", "requested", "done", "node", "setup", "retry", "prepared",
     "settling", "left", "right", "mid", "peak", "stable", "last", "written", "write",
     "restore", "stopped", "synced", "waiting", "group"}

-----------------------------------------------------------------------------
(* The invariant, of the calibration c, the axes x, the download s, the     *)
(* lane l and the histories u and w, so that it can be stated of            *)
(* Started(cal) too.                                                        *)
CalType(c) ==
    /\ DOMAIN c = CalFields
    /\ c.state \in States /\ c.age \in {"early", "armed", "late"}
    /\ c.setup \in 0..LastStep
    /\ c.requested \in BOOLEAN /\ c.prepared \in BOOLEAN
    /\ c.waiting \in BOOLEAN /\ c.group \in BOOLEAN
    /\ c.done \in SUBSET Axes /\ c.written \in SUBSET Axes
    /\ c.node \in Nat \ {0} /\ c.write \in Nat \ {0} /\ c.restore \in Nat \ {0}
    /\ c.left \in [Axes -> Int] /\ c.right \in [Axes -> Int] /\ c.mid \in [Axes -> Int]

Types(c, x, s, l, u) ==
    /\ CalType(c)
    /\ x \in [Axes -> [pos : Int, off : Int, vel : Velocities]]
    /\ s \in [state : {"idle", "busy", "done", "aborted"}, axis : Int,
              position : BOOLEAN, value : Int]
    /\ l \in [state : {"pending", "complete", "failed"}, vel : [Axes -> Velocities]]
    /\ u \in BOOLEAN
    /\ s.position => s.axis \in Axes

(* Which downloads can be under way in which phase.                         *)
Offset(s) == s.state = "busy" /\ s.position
Downloads(c, s) ==
    /\ c.state \in Preparing /\ c.waiting => ~s.position /\ c.node \in Axes
    /\ c.state \in (Preparing \ {"setup"}) \cup Moving \cup {"verify_zero", "complete"} =>
         ~Offset(s)
    /\ c.state = "setup" /\ c.node # 1 => ~Offset(s)
    /\ c.state \in Moving \cup {"verify_zero", "idle", "complete", "fault"} => ~c.waiting
    /\ c.state = "write_zero" =>
         IF c.waiting THEN s.position /\ s.value = 0 /\ s.axis = c.write - 1 ELSE ~Offset(s)
    /\ c.waiting => s.state # "idle"
    /\ c.state \in Running \ {"aborting"} => c.restore = 1
    /\ c.state = "aborting" /\ c.waiting /\ s.position =>
         s.value = IF c.restore = 1 THEN 0 ELSE c.mid[s.axis]
    /\ c.state \in Preparing \cup Moving \cup {"idle"} => c.written = {}

(* What the velocity group holds, and with it the axes.                     *)
Way == [search_left |-> "left", search_right |-> "right", return_mid |-> "back"]
Halted(x) == \A a \in Axes : x[a].vel = "none"
Lanes(c, x, l) ==
    /\ c.state \in Preparing /\ c.prepared =>
         \/ c.group /\ l.state = "pending" /\ l.vel = All("none")
         \/ c.group /\ l.state = "failed"
         \/ l.state # "pending" /\ Halted(x)
    /\ c.state \in Moving =>
         \A a \in Axes : /\ x[a].vel \in {"none", Way[c.state]}
                         /\ l.state = "pending" => l.vel[a] \in {"none", Way[c.state]}

(* What has been measured so far, on the axes that were not misled: those   *)
(* in w were, and may be anywhere.                                          *)
Measured(c, x, w) ==
    /\ c.state = "search_left" => \A a \in c.done \ w : c.left[a] = x[a].off - Stop
    /\ c.state \in {"retreat_left", "search_right"} =>
         \A a \in Axes \ w : c.left[a] = x[a].off - Stop
    /\ c.state = "search_right" => \A a \in c.done \ w : c.right[a] = x[a].off + Stop
    /\ c.state \in {"retreat_right", "return_mid"} => \A a \in Axes \ w : c.mid[a] = x[a].off

(* While the zero is written the axes stand in the middle, unless the group *)
(* that stopped them was lost, which the next phase sees.                   *)
Asked(c, s, a) == c.waiting /\ a = s.axis /\ s.state # "done"
Zeroed(c, x, s, l, w) ==
    /\ c.state \in Writing =>
         \/ c.group /\ l.state = "failed"
         \/ /\ \A a \in Axes \ w : x[a].pos = 0
            /\ l.state = "pending" => l.vel = All("none") /\ c.group
            /\ \/ Halted(x)
               \/ /\ c.state = "write_zero" /\ l.state = "pending"
                  /\ c.write = 1 \/ (c.write = 2 /\ c.waiting /\ s.state = "busy")
                  /\ \A a \in Axes : x[a].vel \in {"none", "back"}
                  /\ \A a \in Axes \ w : x[a].off = c.mid[a]
            /\ \A a \in Axes \ w :
                 c.state = "write_zero" => a >= c.write \/ Asked(c, s, a) \/ x[a].off = 0
            /\ \A a \in Axes \ w : c.state = "verify_zero" => x[a].off = 0
    /\ c.state = "complete" => \A a \in Axes \ w : x[a].off = 0

(* The axes in new coordinates, as the code will know when it has looked at *)
(* the answer of its download.                                              *)
New(c, s) ==
    IF c.waiting /\ s.state = "done" /\ s.position
    THEN IF s.value = 0 /\ c.restore = 1 THEN c.written \cup {s.axis} ELSE c.written \ {s.axis}
    ELSE c.written

(* As long as nothing has gone unseen, all others count from the measured   *)
(* centre, where every axis rests until the old coordinates are back.       *)
Touched(c, s) ==
    \/ c.state \in Writing
    \/ c.state \in {"fault", "aborting"} /\ (New(c, s) # {} \/ (c.waiting /\ s.position))
Known(c, x, s, l, u, w) ==
    ~u =>
      /\ l.state # "failed"
      /\ \A a \in New(c, s) \ w : x[a].off = 0
      /\ \A a, b \in Axes \ (New(c, s) \cup w) : x[a].off = x[b].off
      /\ Touched(c, s) =>
           /\ \A a \in Axes \ w : x[a].pos = 0
           /\ \A a, b \in Axes \ w : c.mid[a] = c.mid[b]
           /\ \A a \in Axes \ (New(c, s) \cup w) : x[a].off = c.mid[a]
           /\ l.state = "pending" => l.vel = All("none")
           /\ \/ Halted(x)
              \/ /\ l.state = "pending" /\ New(c, s) = {}
                 /\ \A a \in Axes : x[a].vel \in {"none", "back"}

Good(c, x, s, l, u, w) ==
    /\ Types(c, x, s, l, u) /\ Downloads(c, s) /\ Lanes(c, x, l)
    /\ Measured(c, x, w) /\ Zeroed(c, x, s, l, w) /\ Known(c, x, s, l, u, w)
IInv == Good(cal, axis, sdo, lane, unseen, misled)

-----------------------------------------------------------------------------
(* The operators.                                                          *)
LEMMA Constants ==
    /\ Stop \in Nat \ {0} /\ LastStep \in Nat \ {0} /\ StableSamples \in Nat \ {0}
    /\ SetupRetries \in Nat /\ OldOffset \in Int
    /\ Last \in Nat /\ Axes = 1..Last
<1>1. Last \in Nat
    BY CalibrationAssumption, FS_CardinalityType DEF Last
<1> QED
    BY <1>1, CalibrationAssumption DEF Last

(* The middle between two stops.                                           *)
LEMMA HalfOfTwice ==
    ASSUME NEW n \in Int
    PROVE  Half((n - Stop) + (n + Stop)) = n
<1>1. (n - Stop) + (n + Stop) = 2 * n
    BY Constants
<1>2. CASE n >= 0
    <2>1. (2 * n) \div 2 = n
        BY <1>2
    <2> QED
        BY <1>1, <1>2, <2>1 DEF Half
<1>3. CASE n < 0
    <2>1. (-(2 * n)) \div 2 = -n
        BY <1>3
    <2> QED
        BY <1>1, <1>3, <2>1 DEF Half
<1> QED
    BY <1>2, <1>3

(* The next axis to restore.                                               *)
LEMMA LeastFacts ==
    ASSUME NEW S \in SUBSET Axes, S # {}
    PROVE  Min(S) \in S
<1>1. IsWellFoundedOn(OpToRel(<, Nat), Nat)
    BY NatLessThanWellFounded
<1>2. S \subseteq Nat
    BY Constants
<1>3. PICK m \in S : \A j \in S : ~(<<j, m>> \in OpToRel(<, Nat))
    BY <1>1, <1>2, WFMin
<1>4. ASSUME NEW j \in S
      PROVE  m <= j
    <2>1. ~(<<j, m>> \in {ss \in Nat \X Nat : ss[1] < ss[2]})
        BY <1>3, <1>4 DEF OpToRel
    <2>2. m \in Nat /\ j \in Nat
        BY <1>2
    <2> QED
        BY <2>1, <2>2
<1> QED
    BY <1>4 DEF Min

(* Rest has the calibration's fields, and measures nothing.                *)
LEMMA RestType == CalType(Rest)
BY Constants DEF CalType, Rest, CalFields, States, Running, All

(* What the record of a failed or abandoned search keeps.                  *)
LEMMA OverFacts ==
    ASSUME NEW c, CalType(c), NEW s \in States
    PROVE  LET d == Over(Enter(c, s))
           IN  /\ CalType(d)
               /\ d.state = s /\ d.mid = c.mid /\ d.written = c.written
               /\ d.restore = c.restore /\ d.stopped = c.stopped
               /\ d.waiting = c.waiting /\ d.group = c.group
<1> DEFINE e == Enter(c, s)
<1>1. /\ DOMAIN e = CalFields /\ e.state = s /\ e.mid = c.mid /\ e.written = c.written
      /\ e.restore = c.restore /\ e.stopped = c.stopped
      /\ e.waiting = c.waiting /\ e.group = c.group
    BY DEF Enter, CalType, CalFields
<1> DEFINE d == Over(e)
<1> HIDE DEF e
<1>2. /\ CalType(d)
      /\ d.state = s /\ d.mid = c.mid /\ d.written = c.written
      /\ d.restore = c.restore /\ d.stopped = c.stopped
      /\ d.waiting = c.waiting /\ d.group = c.group
    BY <1>1, RestType DEF Over, CalType, CalFields
<1> QED
    BY <1>2 DEF e

LEMMA FaultFacts ==
    ASSUME NEW c, CalType(c)
    PROVE  /\ CalType(Fault(c))
           /\ Fault(c).state = "fault" /\ Fault(c).mid = c.mid
           /\ Fault(c).written = c.written /\ Fault(c).restore = c.restore
           /\ ~Fault(c).waiting /\ ~Fault(c).group
<1> DEFINE d == Over(Enter(c, "fault"))
<1>1. /\ CalType(d) /\ d.state = "fault" /\ d.mid = c.mid /\ d.written = c.written
      /\ d.restore = c.restore
    BY OverFacts DEF States
<1> HIDE DEF d
<1>2. Fault(c) = [d EXCEPT !.waiting = FALSE, !.group = FALSE]
    BY DEF Fault, d
<1> QED
    BY <1>1, <1>2 DEF CalType, CalFields

(* A failed calibration knows which axes it has changed, except for one     *)
(* whose answer it has not looked at.                                      *)
LEMMA FaultGood ==
    ASSUME NEW c, NEW x, NEW s, NEW l, NEW u, NEW w, Good(c, x, s, l, u, w),
           c.state \in Running \cup {"fault"},
           NEW v \in BOOLEAN, u => v,
           c.waiting /\ s.position /\ s.state = "done" => v
    PROVE  Good(Fault(c), x, s, l, v, w)
<1> DEFINE d == Fault(c)
<1>1. /\ CalType(d) /\ d.state = "fault" /\ d.mid = c.mid /\ d.written = c.written
      /\ d.restore = c.restore /\ ~d.waiting /\ ~d.group
    BY FaultFacts DEF Good, Types
<1> HIDE DEF d
<1>2. Types(d, x, s, l, v)
    BY <1>1 DEF Good, Types
<1>3. Downloads(d, s) /\ Lanes(d, x, l) /\ Measured(d, x, w) /\ Zeroed(d, x, s, l, w)
    BY <1>1 DEF Downloads, Lanes, Measured, Zeroed, Preparing, Searching, Moving, Writing, Running
<1>4. Known(d, x, s, l, v, w)
    <2> SUFFICES ASSUME ~v PROVE Known(d, x, s, l, v, w)
        BY DEF Known
    <2>1. New(d, s) = c.written /\ New(c, s) = c.written
        BY <1>1 DEF New
    <2>2. Known(c, x, s, l, u, w) /\ ~u
        BY DEF Good
    <2>3. Touched(d, s) => Touched(c, s)
        <3>1. Touched(d, s) => c.written # {}
            BY <1>1, <2>1 DEF Touched, Writing
        <3>2. c.written # {} => c.state \in Writing \cup {"fault", "aborting"}
            BY DEF Good, Downloads, Running, Preparing, Moving, Searching, Writing
        <3> QED
            BY <2>1, <3>1, <3>2 DEF Touched, Writing
    <2> QED
        BY <1>1, <2>1, <2>2, <2>3 DEF Known
<1> QED
    BY <1>2, <1>3, <1>4 DEF Good, d

(* The fewer axes it speaks of the weaker it is.                            *)
LEMMA Fewer ==
    ASSUME NEW c, NEW x, NEW s, NEW l, NEW u, NEW w, NEW v, w \subseteq v,
           Good(c, x, s, l, u, w)
    PROVE  Good(c, x, s, l, u, v)
<1>1. Measured(c, x, v)
    BY DEF Good, Measured
<1>2. Zeroed(c, x, s, l, v)
    BY DEF Good, Zeroed
<1>3. Known(c, x, s, l, u, v)
    BY DEF Good, Known
<1> QED
    BY <1>1, <1>2, <1>3 DEF Good

LEMMA Forgotten ==
    ASSUME NEW c, NEW x, NEW s, NEW l, NEW u, NEW w, Good(c, x, s, l, u, w),
           NEW v \in BOOLEAN, u => v
    PROVE  Good(c, x, s, l, v, w)
BY DEF Good, Types, Known

-----------------------------------------------------------------------------
(* The start of a call: HOME left, or a gesture.                            *)
LEMMA StartedFacts ==
    ASSUME IInv
    PROVE  /\ Good(Started(cal), axis, sdo, lane, unseen \/ Forgets, misled)
           /\ Started(cal).state \in Moving \cup Writing => Started(cal) = cal
           /\ Started(cal).waiting => cal.waiting
<1>1. CASE ~domain /\ cal.state \in (Running \cup {"fault"}) \ {"aborting"}
    <2> DEFINE e == Over(Enter(cal, "aborting"))
               d == Started(cal)
    <2>1. /\ CalType(e) /\ e.state = "aborting" /\ e.mid = cal.mid /\ e.written = cal.written
          /\ e.waiting = cal.waiting /\ e.group = cal.group
        BY OverFacts DEF IInv, Good, Types, States, Running
    <2>2. d = [e EXCEPT !.restore = 1, !.stopped = FALSE]
        BY <1>1 DEF Started, Restarts
    <2> HIDE DEF d, e
    <2>3. /\ CalType(d) /\ d.state = "aborting" /\ d.mid = cal.mid /\ d.written = cal.written
          /\ d.waiting = cal.waiting /\ d.group = cal.group /\ d.restore = 1
        BY <2>1, <2>2 DEF CalType, CalFields
    <2>4. ~Forgets
        BY <1>1 DEF Forgets, Restarts, Running
    <2>5. Types(d, axis, sdo, lane, unseen \/ Forgets)
        BY <2>3, <2>4 DEF IInv, Good, Types
    <2>6. cal.waiting /\ sdo.position => cal.state = "write_zero" /\ sdo.value = 0
        BY <1>1 DEF IInv, Good, Downloads, Running, Moving, Searching
    <2>7. Downloads(d, sdo)
        BY <2>3, <2>6 DEF IInv, Good, Downloads, Preparing, Moving, Searching, Running
    <2>8. Lanes(d, axis, lane) /\ Measured(d, axis, misled) /\ Zeroed(d, axis, sdo, lane, misled)
        BY <2>3 DEF Lanes, Measured, Zeroed, Preparing, Moving, Searching, Writing
    <2>9. Known(d, axis, sdo, lane, unseen \/ Forgets, misled)
        <3>1. New(d, sdo) = New(cal, sdo)
            <4>1. cal.waiting => cal.restore = 1
                BY <1>1 DEF IInv, Good, Downloads
            <4> QED
                BY <2>3, <4>1 DEF New
        <3>2. Touched(d, sdo) => Touched(cal, sdo)
            <4>1. cal.written # {} => cal.state \in Writing \cup {"fault"}
                BY <1>1 DEF IInv, Good, Downloads, Running, Moving, Writing
            <4>2. New(d, sdo) # {} => cal.written # {} \/ (cal.waiting /\ sdo.position)
                BY <2>3 DEF New
            <4> QED
                BY <2>3, <2>6, <3>1, <4>1, <4>2 DEF Touched, Writing
        <3> QED
            BY <2>3, <2>4, <3>1, <3>2 DEF IInv, Good, Known
    <2> QED
        BY <2>3, <2>5, <2>7, <2>8, <2>9 DEF Good, d, Moving, Searching, Writing
<1>2. CASE ~(~domain /\ cal.state \in (Running \cup {"fault"}) \ {"aborting"}) /\ Restarts(cal)
    <2> DEFINE d == Started(cal)
    <2>1. d = [Rest EXCEPT !.state = "setup", !.requested = TRUE]
        BY <1>2 DEF Started
    <2>2. /\ CalType(d) /\ d.state = "setup" /\ d.written = {} /\ ~d.waiting /\ ~d.prepared
          /\ d.node = 1 /\ d.restore = 1
        <3>1. CalType(Rest) /\ Rest.written = {} /\ ~Rest.waiting /\ ~Rest.prepared
              /\ Rest.node = 1 /\ Rest.restore = 1
            BY RestType DEF Rest
        <3> HIDE DEF d
        <3> QED
            BY <2>1, <3>1 DEF CalType, CalFields, States, Running, Preparing
    <2> HIDE DEF d
    <2>3. Types(d, axis, sdo, lane, unseen \/ Forgets)
        BY <2>2 DEF IInv, Good, Types, Forgets, Restarts
    <2>4. Downloads(d, sdo)
        BY <2>2 DEF Downloads, Preparing, Moving, Searching, Running
    <2>5. Lanes(d, axis, lane) /\ Measured(d, axis, misled) /\ Zeroed(d, axis, sdo, lane, misled)
        BY <2>2 DEF Lanes, Measured, Zeroed, Moving, Searching, Writing
    <2>6. Known(d, axis, sdo, lane, unseen \/ Forgets, misled)
        <3>1. New(d, sdo) = {} /\ ~Touched(d, sdo)
            BY <2>2 DEF New, Touched, Writing
        <3>2. ~Forgets => New(cal, sdo) = {} \/ cal.state = "complete"
            BY <1>2 DEF IInv, Good, Downloads, New, Forgets, Restarts, Preparing, Moving
        <3>3. cal.state = "complete" => \A a \in Axes \ misled : axis[a].off = 0
            BY DEF IInv, Good, Zeroed
        <3> QED
            BY <3>1, <3>2, <3>3 DEF IInv, Good, Known
    <2> QED
        BY <2>2, <2>3, <2>4, <2>5, <2>6 DEF Good, d, Moving, Searching, Writing
<1>3. CASE ~(~domain /\ cal.state \in (Running \cup {"fault"}) \ {"aborting"}) /\ ~Restarts(cal)
    <2>1. Started(cal) = cal
        BY <1>3 DEF Started
    <2>2. ~Forgets
        BY <1>3 DEF Forgets
    <2>3. unseen \/ Forgets <=> unseen
        BY <2>2
    <2>4. Good(cal, axis, sdo, lane, unseen \/ Forgets, misled)
        BY <2>2, Forgotten DEF IInv, Good, Types
    <2> QED
        BY <2>1, <2>4
<1> QED
    BY <1>1, <1>2, <1>3

(* The call has looked at its last group, and it arrived.                   *)
SameBut(d, c) ==
    /\ CalType(d)
    /\ d.state = c.state /\ d.age = c.age /\ d.done = c.done /\ d.node = c.node
    /\ d.setup = c.setup /\ d.prepared = c.prepared /\ d.settling = c.settling
    /\ d.left = c.left /\ d.right = c.right /\ d.mid = c.mid /\ d.peak = c.peak
    /\ d.stable = c.stable /\ d.last = c.last /\ d.written = c.written /\ d.write = c.write
    /\ d.restore = c.restore /\ d.stopped = c.stopped /\ d.synced = c.synced
    /\ d.waiting = c.waiting /\ d.requested = c.requested

LEMMA SettleGood ==
    ASSUME NEW c, NEW u, NEW w, Good(c, axis, sdo, lane, u, w), ~Pending(c),
           ~Lost(c) \/ c.state = "aborting"
    PROVE  /\ Good(Settle(c), axis, sdo, lane, u, w)
           /\ SameBut(Settle(c), c)
           /\ ~Settle(c).group
<1> DEFINE d == Settle(c)
<1>1. SameBut(d, c) /\ ~d.group
    BY DEF Settle, Good, Types, CalType, CalFields, SameBut
<1> HIDE DEF d
<1>2. /\ CalType(d) /\ d.state = c.state /\ d.done = c.done /\ d.node = c.node
      /\ d.prepared = c.prepared /\ d.left = c.left /\ d.right = c.right /\ d.mid = c.mid
      /\ d.written = c.written /\ d.write = c.write /\ d.restore = c.restore
      /\ d.waiting = c.waiting /\ ~d.group
    BY <1>1 DEF SameBut
<1>3. Types(d, axis, sdo, lane, u) /\ Downloads(d, sdo) /\ Measured(d, axis, w)
    BY <1>2 DEF Good, Types, Downloads, Measured
<1>4. Lanes(d, axis, lane)
    BY <1>2 DEF Good, Lanes, Lost, Pending, Preparing, Moving, Searching
<1>5. Zeroed(d, axis, sdo, lane, w)
    <2>1. \A a : Asked(d, sdo, a) <=> Asked(c, sdo, a)
        BY <1>2 DEF Asked
    <2>2. c.state \in Writing => lane.state # "pending"
        BY DEF Good, Zeroed, Lost, Pending
    <2> QED
        BY <1>2, <2>1, <2>2 DEF Good, Zeroed, Lost, Writing
<1>6. Known(d, axis, sdo, lane, u, w)
    <2>1. New(d, sdo) = New(c, sdo) /\ (Touched(d, sdo) <=> Touched(c, sdo))
        BY <1>2 DEF New, Touched
    <2> QED
        BY <1>2, <2>1 DEF Good, Known
<1> QED
    BY <1>1, <1>3, <1>4, <1>5, <1>6 DEF Good, d

(* While a movement is prepared nothing is measured and nothing rewritten.  *)
LEMMA PreparingGood ==
    ASSUME NEW c, NEW d, NEW x, NEW s, NEW t, NEW l, NEW m, NEW u,
           NEW w, Good(c, x, s, l, u, w), c.state \in Preparing,
           d.state = c.state, d.left = c.left, d.mid = c.mid, d.written = c.written,
           Types(d, x, t, m, u), Downloads(d, t), Lanes(d, x, m),
           m = l \/ m.state = "pending"
    PROVE  Good(d, x, t, m, u, w)
<1>1. Measured(d, x, w) /\ Zeroed(d, x, t, m, w)
    BY DEF Good, Measured, Zeroed, Preparing, Searching, Writing
<1>2. Known(d, x, t, m, u, w)
    <2>1. c.written = {}
        BY DEF Good, Downloads
    <2>2. New(c, s) = {}
        BY <2>1 DEF Good, Downloads, New
    <2>3. New(d, t) = {} /\ ~Touched(d, t)
        BY <2>1 DEF Downloads, New, Touched, Preparing, Writing
    <2> QED
        BY <2>2, <2>3 DEF Good, Known
<1> QED
    BY <1>1, <1>2 DEF Good

LEMMA PhaseFacts ==
    ASSUME NEW c
    PROVE  /\ c.state = "setup" => NextPhase(c) = "search_left"
           /\ c.state = "search_left" => NextPhase(c) = "retreat_left"
           /\ c.state = "retreat_left" => NextPhase(c) = "search_right"
           /\ c.state = "search_right" => NextPhase(c) = "retreat_right"
           /\ c.state = "retreat_right" => NextPhase(c) = "return_mid"
<1> DEFINE Pairs == {<<"setup", "search_left">>, <<"search_left", "retreat_left">>,
                     <<"retreat_left", "search_right">>, <<"search_right", "retreat_right">>,
                     <<"retreat_right", "return_mid">>}
<1>1. ASSUME NEW s, NEW t \in Running, <<s, t>> \in Pairs, c.state = s
      PROVE  NextPhase(c) = t
    <2>1. \A r \in Running : <<s, r>> \in Pairs <=> r = t
        BY <1>1
    <2> QED
        BY <1>1, <2>1 DEF NextPhase
<1> QED
    BY <1>1 DEF Running, Preparing, Searching

-----------------------------------------------------------------------------
(* Prepare.                                                                *)
LEMMA SetupStepGood ==
    ASSUME NEW c, NEW u, NEW w, Good(c, axis, sdo, lane, u, w), c.state \in Preparing,
           c.node \in Axes, ~c.waiting, NEW lost, NEW latched, SetupStep(c, lost, latched)
    PROVE  Good(cal', axis, sdo', lane, u, w)
<1>1. CASE cal' = c /\ sdo' = sdo
    BY <1>1
<1>2. CASE cal' = [c EXCEPT !.setup = 1, !.retry = 0] /\ sdo' = sdo
    <2>1. /\ CalType(cal') /\ cal'.state = c.state /\ cal'.left = c.left
          /\ cal'.mid = c.mid /\ cal'.written = c.written /\ cal'.waiting = c.waiting
          /\ cal'.node = c.node /\ cal'.restore = c.restore
          /\ cal'.prepared = c.prepared /\ cal'.group = c.group
        <3>1. 1 \in 0..LastStep
            BY Constants
        <3> QED
            BY <1>2, <3>1 DEF Good, Types, CalType, CalFields
    <2>2. Types(cal', axis, sdo', lane, u) /\ Downloads(cal', sdo') /\ Lanes(cal', axis, lane)
        BY <1>2, <2>1 DEF Good, Types, Downloads, Lanes, Preparing, Searching, Moving, Running
    <2> QED
        BY <2>1, <2>2, PreparingGood
<1>3. CASE Ask(c, c.node, FALSE, 0)
    <2>1. /\ CalType(cal') /\ cal'.state = c.state /\ cal'.left = c.left
          /\ cal'.mid = c.mid /\ cal'.written = c.written /\ cal'.waiting
          /\ cal'.node = c.node /\ cal'.restore = c.restore
          /\ cal'.prepared = c.prepared /\ cal'.group = c.group
        BY <1>3 DEF Good, Types, CalType, CalFields, Ask
    <2>2. sdo' = [state |-> "busy", axis |-> c.node, position |-> FALSE, value |-> 0]
        BY <1>3 DEF Ask
    <2>3. Types(cal', axis, sdo', lane, u)
        BY <2>1, <2>2, Constants DEF Good, Types
    <2>4. Downloads(cal', sdo') /\ Lanes(cal', axis, lane)
        BY <2>1, <2>2 DEF Good, Downloads, Lanes, Offset, Preparing, Searching, Moving, Running
    <2> QED
        BY <2>1, <2>3, <2>4, PreparingGood
<1> QED
    BY <1>1, <1>2, <1>3 DEF SetupStep, KeepSdo

LEMMA AfterSetupGood ==
    ASSUME NEW c, NEW u, NEW w, Good(c, axis, sdo, lane, u, w), c.state \in Preparing,
           c.waiting, sdo.state # "busy"
    PROVE  /\ Good(AfterSetup(c), axis, sdo, lane, u, w)
           /\ AfterSetup(c).state \in Preparing /\ ~AfterSetup(c).waiting
           /\ c.setup < LastStep => AfterSetup(c).node = c.node
<1> DEFINE d == AfterSetup(c)
<1>1. /\ CalType(d) /\ d.state = c.state /\ d.left = c.left
      /\ d.mid = c.mid /\ d.written = c.written /\ ~d.waiting
      /\ d.restore = c.restore /\ d.prepared = c.prepared /\ d.group = c.group
    <2>1. CASE c.setup < LastStep
        <3>1. c.setup + 1 \in 0..LastStep
            <4>1. c.setup \in 0..LastStep
                BY DEF Good, Types, CalType
            <4> QED
                BY <2>1, <4>1, Constants
        <3> QED
            BY <2>1, <3>1 DEF AfterSetup, Good, Types, CalType, CalFields
    <2>2. CASE ~(c.setup < LastStep)
        <3>1. 0 \in 0..LastStep
            BY Constants
        <3>2. d = [c EXCEPT !.setup = 0, !.node = @ + 1, !.retry = 0, !.waiting = FALSE]
            BY <2>2 DEF AfterSetup
        <3>3. CalType(c) /\ c.node + 1 \in Nat \ {0}
            BY DEF Good, Types, CalType
        <3> HIDE DEF d
        <3> QED
            BY <3>1, <3>2, <3>3 DEF CalType, CalFields
    <2> QED
        BY <2>1, <2>2
<1>2. c.setup < LastStep => d.node = c.node
    BY DEF AfterSetup, Good, Types, CalType, CalFields
<1> HIDE DEF d
<1>3. Types(d, axis, sdo, lane, u) /\ Downloads(d, sdo) /\ Lanes(d, axis, lane)
    BY <1>1 DEF Good, Types, Downloads, Offset, Lanes, Preparing, Searching, Moving, Running
<1>4. Good(d, axis, sdo, lane, u, w)
    BY <1>1, <1>3, PreparingGood
<1> QED
    BY <1>1, <1>2, <1>4 DEF d

LEMMA SetupGood ==
    ASSUME NEW c, NEW u, NEW w, Good(c, axis, sdo, lane, u, w), c.state \in Preparing,
           c.node \in Axes, NEW lost, NEW latched, NEW late \in BOOLEAN,
           Setup(c, lost, latched, late), NEW v \in BOOLEAN, u => v
    PROVE  Good(cal', axis, sdo', lane, v, w)
<1>1. SUFFICES Good(cal', axis, sdo', lane, u, w) \/ Good(cal', axis, sdo', lane, v, w)
    BY Forgotten
<1>2. CASE c.waiting /\ Unanswered(late)
    <2>1. CASE KeepSdo([c EXCEPT !.retry = @ + 1, !.waiting = FALSE])
        <3>1. /\ CalType(cal') /\ cal'.state = c.state /\ cal'.left = c.left
              /\ cal'.mid = c.mid /\ cal'.written = c.written /\ ~cal'.waiting
              /\ cal'.node = c.node /\ cal'.restore = c.restore /\ sdo' = sdo
              /\ cal'.prepared = c.prepared /\ cal'.group = c.group
            BY <2>1 DEF Good, Types, CalType, CalFields, KeepSdo
        <3>2. Types(cal', axis, sdo', lane, u) /\ Lanes(cal', axis, lane)
            BY <3>1 DEF Good, Types, Lanes
        <3>3. Downloads(cal', sdo')
            BY <1>2, <3>1 DEF Good, Downloads, Offset, Preparing, Searching, Moving, Running
        <3> QED
            BY <3>1, <3>2, <3>3, PreparingGood
    <2>2. CASE KeepSdo(Fault(c))
        <3>1. ~(c.waiting /\ sdo.position /\ sdo.state = "done")
            BY DEF Good, Downloads
        <3> QED
            BY <2>2, <3>1, FaultGood DEF KeepSdo, Running
    <2> QED
        BY <1>2, <2>1, <2>2 DEF Setup, Unanswered
<1>3. CASE c.waiting /\ ~Unanswered(late) /\ sdo.state = "done"
    <2>1. CASE c.setup = LastStep /\ KeepSdo(AfterSetup(c))
        BY <1>3, <2>1, AfterSetupGood DEF KeepSdo
    <2>2. CASE c.setup # LastStep /\ SetupStep(AfterSetup(c), lost, latched)
        <3>1. AfterSetup(c).node \in Axes
            <4>1. c.setup < LastStep
                <5>1. c.setup \in 0..LastStep
                    BY DEF Good, Types, CalType
                <5> QED
                    BY <2>2, <5>1, Constants
            <4>2. AfterSetup(c).node = c.node
                BY <1>3, <4>1, AfterSetupGood
            <4> QED
                BY <4>2
        <3> QED
            BY <1>3, <2>2, <3>1, AfterSetupGood, SetupStepGood
    <2> QED
        BY <1>3, <2>1, <2>2 DEF Setup, Unanswered
<1>4. CASE ~c.waiting
    <2>1. SetupStep(c, lost, latched)
        BY <1>4 DEF Setup
    <2> QED
        BY <1>4, <2>1, SetupStepGood
<1>5. CASE c.waiting /\ ~Unanswered(late) /\ sdo.state # "done"
    <2>1. KeepSdo(c)
        BY <1>5 DEF Setup
    <2> QED
        BY <2>1 DEF KeepSdo
<1> QED
    BY <1>2, <1>3, <1>4, <1>5

LEMMA EnterFacts ==
    ASSUME NEW c, CalType(c), NEW s \in States
    PROVE  LET d == Enter(c, s)
           IN  /\ CalType(d) /\ d.state = s /\ d.done = {}
               /\ d.node = c.node /\ d.prepared = c.prepared /\ d.left = c.left
               /\ d.right = c.right /\ d.mid = c.mid /\ d.written = c.written
               /\ d.write = c.write /\ d.restore = c.restore
               /\ d.waiting = c.waiting /\ d.group = c.group
BY DEF Enter, CalType, CalFields

(* All drives are set up: the axes are halted, and the next phase begins.   *)
LEMMA PreparedGood ==
    ASSUME NEW c, NEW u, NEW w, Good(c, axis, sdo, lane, u, w), c.state \in Preparing,
           c.node \notin Axes, ~c.group, NEW lost, NEW accepts, NEW rested,
           Prepared(c, lost, accepts, rested)
    PROVE  Good(cal', axis, sdo, lane', u, w)
<1>0. ~c.waiting
    BY DEF Good, Downloads
<1>1. CASE ~c.prepared
    <2>1. CASE Queue([c EXCEPT !.prepared = TRUE, !.settling = FALSE], All("none"))
        <3>1. /\ CalType(cal') /\ cal'.state = c.state /\ cal'.left = c.left
              /\ cal'.mid = c.mid /\ cal'.written = c.written /\ cal'.waiting = c.waiting
              /\ cal'.node = c.node /\ cal'.restore = c.restore /\ cal'.group
            BY <2>1 DEF Good, Types, CalType, CalFields, Queue
        <3>2. lane' = [state |-> "pending", vel |-> All("none")]
            BY <2>1 DEF Queue
        <3>3. Types(cal', axis, sdo, lane', u)
            BY <3>1, <3>2 DEF Good, Types, All, Velocities
        <3>4. Downloads(cal', sdo) /\ Lanes(cal', axis, lane')
            BY <3>1, <3>2 DEF Good, Downloads, Lanes, Preparing, Searching, Moving, Running
        <3> QED
            BY <3>1, <3>2, <3>3, <3>4, PreparingGood
    <2> QED
        BY <1>1, <2>1 DEF Prepared, KeepLane
<1>2. CASE c.prepared /\ ~c.settling
    <2>1. cal' = [c EXCEPT !.settling = TRUE] /\ lane' = lane
        BY <1>2 DEF Prepared, KeepLane
    <2>2. /\ CalType(cal') /\ cal'.state = c.state /\ cal'.left = c.left
          /\ cal'.mid = c.mid /\ cal'.written = c.written /\ cal'.waiting = c.waiting
          /\ cal'.node = c.node /\ cal'.restore = c.restore
          /\ cal'.prepared = c.prepared /\ cal'.group = c.group
        BY <2>1 DEF Good, Types, CalType, CalFields
    <2>3. Types(cal', axis, sdo, lane', u) /\ Downloads(cal', sdo) /\ Lanes(cal', axis, lane')
        BY <2>1, <2>2 DEF Good, Types, Downloads, Lanes, Preparing, Searching, Moving, Running
    <2> QED
        BY <2>1, <2>2, <2>3, PreparingGood
<1>3. CASE c.prepared /\ c.settling /\ ~rested
    BY <1>3 DEF Prepared, KeepLane
<1>4. CASE c.prepared /\ c.settling /\ rested /\ lost # {} /\ c.state # "retreat_right"
    <2>1. cal' = Fault(c) /\ lane' = lane
        BY <1>4 DEF Prepared, KeepLane
    <2> QED
        BY <1>0, <2>1, FaultGood DEF Running, Good, Types
<1>5. CASE /\ c.prepared /\ c.settling /\ rested
           /\ ~(lost # {} /\ c.state # "retreat_right")
    <2> DEFINE s == NextPhase(c)
               e == Enter(c, s)
               d == [e EXCEPT !.stable = IF c.state = "retreat_right" THEN All(0) ELSE @,
                              !.last = All(0)]
    <2>1. cal' = d /\ lane' = lane
        BY <1>5 DEF Prepared, KeepLane
    <2>2. /\ c.state = "setup" => s = "search_left"
          /\ c.state = "retreat_left" => s = "search_right"
          /\ c.state = "retreat_right" => s = "return_mid"
        BY PhaseFacts
    <2>3. s \in Moving
        BY <2>2 DEF Preparing, Moving, Searching
    <2> HIDE DEF s
    <2>4. /\ CalType(e) /\ e.state = s /\ e.done = {} /\ e.left = c.left
          /\ e.mid = c.mid /\ e.written = c.written /\ e.restore = c.restore
          /\ e.waiting = c.waiting
        BY <2>3, EnterFacts DEF Good, Types, States, Running, Moving, Searching
    <2> HIDE DEF e
    <2>5. /\ CalType(d) /\ d.state = s /\ d.done = {} /\ d.left = c.left
          /\ d.mid = c.mid /\ d.written = c.written /\ d.restore = c.restore
          /\ d.waiting = c.waiting
        BY <2>4 DEF CalType, CalFields
    <2> HIDE DEF d
    <2>6. lane.state # "pending" /\ Halted(axis)
        BY <1>5 DEF Good, Lanes
    <2>7. Types(d, axis, sdo, lane, u)
        BY <2>5 DEF Good, Types
    <2>8. Downloads(d, sdo)
        <3>1. ~Offset(sdo)
            <4>1. CASE c.state = "setup"
                <5>1. c.node # 1 \/ Axes = {}
                    BY Constants
                <5> QED
                    BY <4>1, <5>1 DEF Good, Downloads, Types, Offset
            <4> QED
                BY <4>1 DEF Good, Downloads, Preparing
        <3>2. c.written = {} /\ c.restore = 1
            BY DEF Good, Downloads, Running, Preparing
        <3> QED
            BY <1>0, <2>3, <2>5, <3>1, <3>2 DEF Downloads, Preparing, Moving, Searching
    <2>9. Lanes(d, axis, lane)
        BY <2>3, <2>5, <2>6 DEF Lanes, Halted, Preparing, Moving, Searching
    <2>10. Measured(d, axis, w)
        BY <2>2, <2>5 DEF Good, Measured, Preparing
    <2>11. Zeroed(d, axis, sdo, lane, w)
        BY <2>3, <2>5 DEF Zeroed, Moving, Searching, Writing
    <2>12. Known(d, axis, sdo, lane, u, w)
        <3>1. New(d, sdo) = New(c, sdo) /\ ~Touched(d, sdo)
            BY <1>0, <2>3, <2>5 DEF New, Touched, Moving, Searching, Writing
        <3> QED
            BY <3>1 DEF Good, Known
    <2> QED
        BY <2>1, <2>7, <2>8, <2>9, <2>10, <2>11, <2>12 DEF Good
<1> QED
    BY <1>1, <1>2, <1>3, <1>4, <1>5

LEMMA PrepareKeeps ==
    ASSUME IInv, NEW lost, NEW latched, NEW accepts \in BOOLEAN, NEW late \in BOOLEAN,
           NEW rested \in BOOLEAN, Prepare(lost, latched, accepts, late, rested)
    PROVE  IInv'
<1> DEFINE c == Started(cal)
           u == unseen \/ Forgets
<1>1. /\ Good(c, axis, sdo, lane, u, misled) /\ c.state \in Preparing
      /\ c.waiting => cal.waiting
    BY StartedFacts DEF Prepare
<1>2. /\ axis' = axis /\ unseen' \in BOOLEAN /\ misled' = misled
      /\ u => unseen'
      /\ Overlooks => unseen'
    BY DEF Prepare, Keep, IInv, Good, Types
<1>3. CASE Late(c) \/ Lost(c)
    <2>1. cal' = Fault(c) /\ sdo' = sdo /\ lane' = lane
        BY <1>3 DEF Prepare, Lost, Pending
    <2>2. c.waiting /\ sdo.position /\ sdo.state = "done" => unseen'
        BY <1>1, <1>2, <2>1, FaultFacts DEF Overlooks, Good, Types
    <2> HIDE DEF c
    <2>3. Good(Fault(c), axis, sdo, lane, unseen', misled)
        BY <1>1, <1>2, <2>2, FaultGood DEF Running
    <2> QED
        BY <1>2, <2>1, <2>3 DEF IInv
<1>4. CASE ~(Late(c) \/ Lost(c)) /\ Pending(c)
    <2>1. cal' = c /\ sdo' = sdo /\ lane' = lane
        BY <1>4 DEF Prepare, Lost
    <2> HIDE DEF c
    <2> QED
        BY <1>1, <1>2, <2>1, Forgotten DEF IInv
<1>5. CASE ~(Late(c) \/ Lost(c)) /\ ~Pending(c)
    <2> DEFINE d == Settle(c)
    <2>1. IF c.node \in Axes
          THEN Setup(d, lost, latched, late) /\ UNCHANGED lane
          ELSE Prepared(d, lost, accepts, rested) /\ UNCHANGED sdo
        BY <1>5 DEF Prepare
    <2> HIDE DEF c
    <2>2. Good(d, axis, sdo, lane, u, misled) /\ SameBut(d, c) /\ ~d.group
        BY <1>1, <1>5, SettleGood
    <2>3. d.state \in Preparing /\ d.node = c.node
        BY <1>1, <2>2 DEF SameBut
    <2> HIDE DEF d
    <2>4. CASE c.node \in Axes
        BY <1>2, <2>1, <2>2, <2>3, <2>4, SetupGood DEF IInv
    <2>5. CASE c.node \notin Axes
        <3>1. Good(cal', axis, sdo, lane', u, misled)
            BY <2>1, <2>2, <2>3, <2>5, PreparedGood
        <3>2. Good(cal', axis, sdo, lane', unseen', misled)
            BY <1>2, <3>1, Forgotten
        <3> QED
            BY <1>2, <2>1, <2>5, <3>2 DEF IInv
    <2> QED
        BY <2>4, <2>5
<1> QED
    BY <1>3, <1>4, <1>5

-----------------------------------------------------------------------------
(* What all calls have in common.                                          *)
LEMMA CallFacts ==
    ASSUME IInv, Keep
    PROVE  /\ axis' = axis /\ unseen' \in BOOLEAN
           /\ unseen \/ Forgets => unseen'
           /\ Started(cal).waiting /\ sdo.position /\ sdo.state = "done"
                /\ cal'.state = "fault" => unseen'
BY StartedFacts DEF Keep, IInv, Good, Types, Overlooks

LEMMA CallGood ==
    ASSUME IInv, Keep, Good(cal', axis, sdo', lane', unseen \/ Forgets, misled')
    PROVE  IInv'
<1>1. Good(cal', axis, sdo', lane', unseen', misled')
    BY CallFacts, Forgotten
<1> QED
    BY <1>1, CallFacts DEF IInv

LEMMA CallFails ==
    ASSUME IInv, Keep, NEW c, Good(c, axis, sdo, lane, unseen \/ Forgets, misled'),
           c.state \in Running \cup {"fault"}, c.waiting => Started(cal).waiting,
           cal' = Fault(c), sdo' = sdo, lane' = lane
    PROVE  IInv'
<1>1. c.waiting /\ sdo.position /\ sdo.state = "done" => unseen'
    BY CallFacts, FaultFacts DEF Good, Types
<1>2. Good(Fault(c), axis, sdo, lane, unseen', misled')
    BY <1>1, CallFacts, FaultGood
<1> QED
    BY <1>2, CallFacts DEF IInv

-----------------------------------------------------------------------------
(* Search and return.                                                      *)
LEMMA MovingGood ==
    ASSUME NEW c, NEW d, NEW x, NEW s, NEW l, NEW m, NEW u,
           NEW w, Good(c, x, s, l, u, w), c.state \in Moving,
           CalType(d), d.state = c.state, d.mid = c.mid, d.written = c.written,
           d.waiting = c.waiting, d.restore = c.restore,
           Measured(d, x, w), Lanes(d, x, m),
           m = l \/ m \in [state : {"pending"}, vel : [Axes -> Velocities]]
    PROVE  Good(d, x, s, m, u, w)
<1>1. Types(d, x, s, m, u)
    BY DEF Good, Types
<1>2. Downloads(d, s)
    BY DEF Good, Downloads, Preparing, Moving, Searching, Running
<1>3. Zeroed(d, x, s, m, w)
    BY DEF Zeroed, Moving, Searching, Writing
<1>4. Known(d, x, s, m, u, w)
    <2>1. New(d, s) = New(c, s) /\ ~Touched(d, s)
        BY DEF New, Touched, Moving, Searching, Writing
    <2>2. m.state = "failed" => l.state = "failed"
        OBVIOUS
    <2> QED
        BY <2>1, <2>2 DEF Good, Known
<1> QED
    BY <1>1, <1>2, <1>3, <1>4 DEF Good

(* A new group for axes that move.                                         *)
LEMMA MovingQueued ==
    ASSUME NEW c, NEW u, NEW w, Good(c, axis, sdo, lane, u, w), c.state \in Moving,
           NEW v \in [Axes -> {"none", Way[c.state]}], Queue(c, v)
    PROVE  Good(cal', axis, sdo, lane', u, w)
<1>1. cal' = [c EXCEPT !.group = TRUE] /\ lane' = [state |-> "pending", vel |-> v]
    BY DEF Queue
<1>2. /\ CalType(cal') /\ cal'.state = c.state /\ cal'.mid = c.mid
      /\ cal'.written = c.written /\ cal'.waiting = c.waiting /\ cal'.restore = c.restore
      /\ cal'.left = c.left /\ cal'.right = c.right /\ cal'.done = c.done
    BY <1>1 DEF Good, Types, CalType, CalFields
<1>3. Measured(cal', axis, w)
    BY <1>2 DEF Good, Measured
<1>4. Lanes(cal', axis, lane')
    BY <1>1, <1>2 DEF Good, Lanes, Preparing, Moving, Searching
<1>5. lane' \in [state : {"pending"}, vel : [Axes -> Velocities]]
    <2>1. Way[c.state] \in Velocities
        BY DEF Way, Moving, Searching, Velocities
    <2> QED
        BY <1>1, <2>1 DEF Velocities
<1> QED
    BY <1>2, <1>3, <1>4, <1>5, MovingGood

(* Only an axis that presses against its stop is found there, unless it    *)
(* latched a fault elsewhere.                                               *)
LEMMA HitFacts ==
    ASSUME IInv, Started(cal).state \in Searching, NEW peak,
           NEW high \in SUBSET MayDraw, NEW held \in SUBSET high,
           NEW latched \in SUBSET Axes,
           NEW a \in Hit(cal, peak, held, latched)
    PROVE  /\ a \in Axes
           /\ \/ a \in latched /\ ~Pressed(a)
              \/ /\ cal.state = "search_left" => Actual(a) = axis[a].off - Stop
                 /\ cal.state = "search_right" => Actual(a) = axis[a].off + Stop
<1>1. Started(cal) = cal /\ cal.state \in Searching
    BY StartedFacts DEF Moving
<1>2. a \in Axes /\ (Pressed(a) \/ a \in latched)
    BY <1>1 DEF Hit, MayDraw
<1>3. axis[a].vel \in {"none", Way[cal.state]} /\ axis[a].pos \in Int /\ axis[a].off \in Int
    BY <1>1, <1>2 DEF IInv, Good, Lanes, Types, Moving
<1>4. CASE Pressed(a)
    BY <1>1, <1>2, <1>3, <1>4, Constants DEF Pressed, Way, Actual, Searching
<1>5. CASE ~Pressed(a)
    BY <1>2, <1>5
<1> QED
    BY <1>2, <1>4, <1>5

(* A call that searches notes the stops of the axes that are hit.           *)
LEMMA NotedGood ==
    ASSUME IInv, NEW c, NEW u, NEW w, Good(c, axis, sdo, lane, u, w), c.state \in Searching,
           NEW peak, NEW hit \in SUBSET Axes,
           \A a \in hit \ w :
               /\ c.state = "search_left" => Actual(a) = axis[a].off - Stop
               /\ c.state = "search_right" => Actual(a) = axis[a].off + Stop
    PROVE  LET d == Noted([c EXCEPT !.peak = peak], hit)
           IN  Good(d, axis, sdo, lane, u, w) /\ d.state = c.state /\ d.waiting = c.waiting
<1> DEFINE p == [c EXCEPT !.peak = peak]
           d == Noted(p, hit)
           at(f) == [a \in Axes |-> IF a \in hit THEN Actual(a) ELSE f[a]]
<1>1. /\ CalType(p) /\ p.state = c.state /\ p.mid = c.mid /\ p.written = c.written
      /\ p.waiting = c.waiting /\ p.restore = c.restore /\ p.done = c.done
      /\ p.left = c.left /\ p.right = c.right /\ p.group = c.group
    BY DEF Good, Types, CalType, CalFields
<1>2. \A a \in Axes : Actual(a) \in Int
    BY DEF IInv, Good, Types, Actual
<1>3. at(c.left) \in [Axes -> Int] /\ at(c.right) \in [Axes -> Int]
    BY <1>2 DEF Good, Types, CalType
<1>4. CASE c.state = "search_left"
    <2>1. d = [p EXCEPT !.left = at(p.left), !.done = p.done \cup hit]
        BY <1>1, <1>4 DEF Noted, CalType, CalFields
    <2> HIDE DEF p, d
    <2>2. /\ CalType(d) /\ d.state = c.state /\ d.mid = c.mid /\ d.written = c.written
          /\ d.waiting = c.waiting /\ d.restore = c.restore /\ d.group = c.group
          /\ d.done = c.done \cup hit /\ d.left = at(c.left)
        <3> HIDE DEF at
        <3> QED
            BY <1>1, <1>3, <2>1 DEF CalType, CalFields
    <2>3. Measured(d, axis, w)
        BY <1>4, <2>2 DEF Good, Measured, Types, CalType
    <2>4. Lanes(d, axis, lane)
        BY <1>4, <2>2 DEF Good, Lanes, Preparing, Moving, Searching
    <2>5. Good(d, axis, sdo, lane, u, w)
        BY <2>2, <2>3, <2>4, MovingGood DEF Moving
    <2> QED
        BY <2>2, <2>5 DEF d, p
<1>5. CASE c.state = "search_right"
    <2>1. d = [p EXCEPT !.right = at(p.right), !.done = p.done \cup hit]
        BY <1>1, <1>5 DEF Noted, CalType, CalFields
    <2> HIDE DEF p, d
    <2>2. /\ CalType(d) /\ d.state = c.state /\ d.mid = c.mid /\ d.written = c.written
          /\ d.waiting = c.waiting /\ d.restore = c.restore /\ d.group = c.group
          /\ d.done = c.done \cup hit /\ d.right = at(c.right) /\ d.left = c.left
        <3> HIDE DEF at
        <3> QED
            BY <1>1, <1>3, <2>1 DEF CalType, CalFields
    <2>3. Measured(d, axis, w)
        BY <1>5, <2>2 DEF Good, Measured, Types, CalType
    <2>4. Lanes(d, axis, lane)
        BY <1>5, <2>2 DEF Good, Lanes, Preparing, Moving, Searching
    <2>5. Good(d, axis, sdo, lane, u, w)
        BY <2>2, <2>3, <2>4, MovingGood DEF Moving
    <2> QED
        BY <2>2, <2>5 DEF d, p
<1> QED
    BY <1>4, <1>5 DEF Searching

(* All stops of one side are found: back from them.                         *)
LEMMA FoundGood ==
    ASSUME NEW c, NEW u, NEW w, Good(c, axis, sdo, lane, u, w), c.state \in Searching,
           c.done = Axes, Queue(Found(c), All("none"))
    PROVE  Good(cal', axis, sdo, lane', u, w)
<1> DEFINE m == IF c.state = "search_left" THEN c
                ELSE [c EXCEPT !.mid = [a \in Axes |-> Half(c.left[a] + c.right[a])],
                               !.left = All(0), !.right = All(0)]
           s == NextPhase(c)
           e == Enter(m, s)
           mid == [a \in Axes |-> Half(c.left[a] + c.right[a])]
<1>1. CalType(c) /\ axis \in [Axes -> [pos : Int, off : Int, vel : Velocities]]
    BY DEF Good, Types
<1>2. c.state = "search_right" => \A a \in Axes \ w : mid[a] = axis[a].off
    <2>1. SUFFICES ASSUME c.state = "search_right", NEW a \in Axes \ w
                   PROVE  mid[a] = axis[a].off
        OBVIOUS
    <2>2. c.left[a] = axis[a].off - Stop /\ c.right[a] = axis[a].off + Stop
        BY <2>1 DEF Good, Measured
    <2>3. axis[a].off \in Int
        BY <1>1
    <2> QED
        BY <2>2, <2>3, HalfOfTwice
<1>3. mid \in [Axes -> Int]
    <2>1. ASSUME NEW a \in Axes PROVE mid[a] \in Int
        <3>1. c.left[a] + c.right[a] \in Int
            BY <1>1 DEF CalType
        <3> QED
            BY <3>1 DEF Half
    <2> QED
        BY <2>1
<1> HIDE DEF mid
<1>4. /\ CalType(m) /\ m.state = c.state /\ m.written = c.written /\ m.restore = c.restore
      /\ c.state = "search_left" => m.left = c.left
      /\ c.state = "search_right" => m.mid = mid
    <2>1. All(0) \in [Axes -> Int]
        BY DEF All
    <2> HIDE DEF All
    <2> QED
        BY <1>1, <1>3, <2>1 DEF CalType, CalFields, Searching, mid
<1> HIDE DEF m
<1>5. /\ c.state = "search_left" => s = "retreat_left"
      /\ c.state = "search_right" => s = "retreat_right"
    BY PhaseFacts
<1>6. s \in {"retreat_left", "retreat_right"}
    BY <1>5 DEF Searching
<1> HIDE DEF s
<1>7. /\ CalType(e) /\ e.state = s /\ e.written = c.written /\ e.restore = c.restore
      /\ e.left = m.left /\ e.mid = m.mid
    BY <1>4, <1>6, EnterFacts DEF States, Running, Preparing
<1> HIDE DEF e
<1>8. cal' = [BeginPrepare(e) EXCEPT !.group = TRUE]
      /\ lane' = [state |-> "pending", vel |-> All("none")]
    BY DEF Queue, Found, e, m, s
<1>9. /\ CalType(cal') /\ cal'.state = s /\ cal'.written = c.written
      /\ cal'.restore = c.restore /\ cal'.left = m.left /\ cal'.mid = m.mid
      /\ ~cal'.waiting /\ ~cal'.prepared
    <2>1. 0 \in 0..LastStep
        BY Constants
    <2> QED
        BY <1>7, <1>8, <2>1 DEF BeginPrepare, CalType, CalFields
<1>10. Types(cal', axis, sdo, lane', u)
    BY <1>8, <1>9 DEF Good, Types, All, Velocities
<1>11. ~Offset(sdo) /\ ~c.waiting /\ c.written = {} /\ c.restore = 1
    BY DEF Good, Downloads, Running, Moving, Searching
<1>12. Downloads(cal', sdo)
    BY <1>6, <1>9, <1>11 DEF Downloads, Preparing, Moving, Searching
<1>13. Lanes(cal', axis, lane')
    BY <1>6, <1>9 DEF Lanes, Preparing, Moving, Searching
<1>14. Measured(cal', axis, w)
    BY <1>2, <1>4, <1>5, <1>6, <1>9 DEF Good, Measured, Searching
<1>15. Zeroed(cal', axis, sdo, lane', w)
    BY <1>6, <1>9 DEF Zeroed, Writing
<1>16. Known(cal', axis, sdo, lane', u, w)
    <2>1. New(c, sdo) = {} /\ New(cal', sdo) = {} /\ ~Touched(cal', sdo)
        BY <1>6, <1>9, <1>11 DEF New, Touched, Writing
    <2>2. lane'.state = "pending"
        BY <1>8
    <2> QED
        BY <2>1, <2>2 DEF Good, Known
<1> QED
    BY <1>10, <1>12, <1>13, <1>14, <1>15, <1>16 DEF Good

LEMMA SearchKeeps ==
    ASSUME IInv, NEW lost \in SUBSET Axes, NEW latched \in SUBSET Axes,
           NEW high \in SUBSET MayDraw, NEW held \in SUBSET high,
           NEW accepts \in BOOLEAN, NEW due \in BOOLEAN,
           Search(lost, latched, high, held, accepts, due)
    PROVE  IInv'
<1> DEFINE c == Started(cal)
           u == unseen \/ Forgets
           open == Axes \ c.done
           peak == c.peak \cup (high \cap open)
           hit == Hit(c, peak, held, latched) \cap open
           p == [Settle(c) EXCEPT !.peak = peak]
           d == Noted(p, hit)
           way == IF c.state = "search_left" THEN "left" ELSE "right"
           v == [a \in Axes |-> IF a \in d.done THEN "none" ELSE way]
<1>0. misled \subseteq misled'
    BY DEF Search
<1>1. Good(c, axis, sdo, lane, u, misled') /\ c.state \in Searching /\ c = cal
    <2>1. Good(c, axis, sdo, lane, u, misled) /\ c.state \in Searching /\ c = cal
        BY StartedFacts DEF Search, Moving
    <2> HIDE DEF c, u
    <2> QED
        BY <1>0, <2>1, Fewer
<1>2. Keep /\ sdo' = sdo
    BY DEF Search
<1>3. CASE Late(c) \/ Lost(c)
    <2>1. cal' = Fault(c) /\ lane' = lane
        BY <1>3 DEF Search, KeepLane, Lost, Pending
    <2> HIDE DEF c, u
    <2> QED
        BY <1>1, <1>2, <2>1, CallFails DEF Running, c, u
<1>4. CASE ~(Late(c) \/ Lost(c)) /\ Pending(c)
    <2>1. cal' = c /\ lane' = lane
        BY <1>4 DEF Search, KeepLane
    <2> QED
        BY <1>1, <1>2, <2>1, CallGood
<1>5. CASE ~(Late(c) \/ Lost(c)) /\ ~Pending(c)
    <2>1. Good(Settle(c), axis, sdo, lane, u, misled') /\ SameBut(Settle(c), c)
        BY <1>1, <1>5, SettleGood
    <2>2. \A a \in hit : /\ a \in Axes
                         /\ \/ a \in misled'
                            \/ /\ c.state = "search_left" => Actual(a) = axis[a].off - Stop
                               /\ c.state = "search_right" => Actual(a) = axis[a].off + Stop
        <3>1. misled' = misled \cup {a \in hit \cap latched : ~Pressed(a)}
            <4> HIDE DEF hit
            <4> QED
                BY <1>5 DEF Search, hit
        <3>2. \A a \in hit : /\ a \in Axes
                             /\ \/ a \in latched /\ ~Pressed(a)
                                \/ /\ c.state = "search_left" => Actual(a) = axis[a].off - Stop
                                   /\ c.state = "search_right" => Actual(a) = axis[a].off + Stop
            BY <1>1, HitFacts
        <3> HIDE DEF hit, c
        <3> QED
            BY <3>1, <3>2
    <2>3. Good(d, axis, sdo, lane, u, misled') /\ d.state = c.state /\ d.waiting = c.waiting
        <3> DEFINE f == Settle(c)
        <3>1. f.state = c.state /\ f.waiting = c.waiting
            BY <2>1 DEF SameBut
        <3>2. hit \in SUBSET Axes
            BY <2>2
        <3>3. \A a \in hit \ misled' :
                  /\ f.state = "search_left" => Actual(a) = axis[a].off - Stop
                  /\ f.state = "search_right" => Actual(a) = axis[a].off + Stop
            BY <2>2, <3>1
        <3>4. d = Noted([f EXCEPT !.peak = peak], hit)
            OBVIOUS
        <3> HIDE DEF f, hit, peak, d, u, c
        <3> QED
            BY <1>1, <2>1, <3>1, <3>2, <3>3, <3>4, NotedGood DEF f
    <2>4. \/ KeepLane(Fault(c)) \/ KeepLane(Fault(d)) \/ KeepLane(d)
          \/ d.done = Axes /\ Queue(Found(d), All("none"))
          \/ Queue(d, v)
        <3> HIDE DEF v, d, p, hit, u
        <3> QED
            BY <1>5 DEF Search, v, d, p, hit
    <2> HIDE DEF c, u, d
    <2>5. CASE KeepLane(Fault(c))
        BY <1>1, <1>2, <2>5, CallFails DEF Running, KeepLane, c, u
    <2>6. CASE KeepLane(Fault(d))
        BY <1>1, <1>2, <2>3, <2>6, CallFails DEF Running, KeepLane, c, u
    <2>7. CASE KeepLane(d)
        BY <1>2, <2>3, <2>7, CallGood DEF KeepLane, u
    <2>8. CASE d.done = Axes /\ Queue(Found(d), All("none"))
        BY <1>1, <1>2, <2>3, <2>8, FoundGood, CallGood DEF u
    <2>9. CASE Queue(d, v)
        <3>1. v \in [Axes -> {"none", Way[d.state]}]
            BY <1>1, <2>3 DEF Way, Searching
        <3>2. Good(cal', axis, sdo, lane', u, misled')
            BY <1>1, <2>3, <2>9, <3>1, MovingQueued DEF Moving
        <3> QED
            BY <1>2, <3>2, CallGood DEF u
    <2> QED
        BY <2>4, <2>5, <2>6, <2>7, <2>8, <2>9
<1> QED
    BY <1>3, <1>4, <1>5

(* The axes stand in the middle: the zero is written next.                  *)
LEMMA WriteBegins ==
    ASSUME NEW c, NEW u, NEW w, Good(c, axis, sdo, lane, u, w), c.state = "return_mid",
           \A a \in Axes \ w : Actual(a) = c.mid[a],
           Queue([Enter(c, "write_zero") EXCEPT !.write = 1, !.setup = 0, !.last = All(0)],
                 All("none"))
    PROVE  Good(cal', axis, sdo, lane', u, w)
<1> DEFINE e == Enter(c, "write_zero")
           p == [e EXCEPT !.write = 1, !.setup = 0, !.last = All(0)]
<1>1. /\ CalType(e) /\ e.state = "write_zero" /\ e.mid = c.mid /\ e.written = c.written
      /\ e.restore = c.restore /\ e.waiting = c.waiting
    BY EnterFacts DEF Good, Types, States, Running
<1> HIDE DEF e
<1>2. /\ CalType(p) /\ p.state = "write_zero" /\ p.mid = c.mid /\ p.written = c.written
      /\ p.restore = c.restore /\ p.waiting = c.waiting /\ p.write = 1
    <2>1. 0 \in 0..LastStep
        BY Constants
    <2> QED
        BY <1>1, <2>1 DEF CalType, CalFields
<1> HIDE DEF p
<1>3. cal' = [p EXCEPT !.group = TRUE] /\ lane' = [state |-> "pending", vel |-> All("none")]
    BY DEF Queue, e, p
<1>4. /\ CalType(cal') /\ cal'.state = "write_zero" /\ cal'.mid = c.mid
      /\ cal'.written = c.written /\ cal'.restore = c.restore
      /\ cal'.waiting = c.waiting /\ cal'.write = 1 /\ cal'.group
    BY <1>2, <1>3 DEF CalType, CalFields
<1>5. Types(cal', axis, sdo, lane', u)
    BY <1>3, <1>4 DEF Good, Types, All, Velocities
<1>6. ~Offset(sdo) /\ ~c.waiting /\ c.written = {} /\ c.restore = 1
    BY DEF Good, Downloads, Running, Moving
<1>7. Downloads(cal', sdo)
    BY <1>4, <1>6 DEF Downloads, Preparing, Moving, Searching
<1>8. Lanes(cal', axis, lane') /\ Measured(cal', axis, w)
    BY <1>4 DEF Lanes, Measured, Preparing, Moving, Searching
<1>9. /\ \A a \in Axes : axis[a].vel \in {"none", "back"}
      /\ \A a \in Axes \ w : axis[a].pos = 0 /\ axis[a].off = c.mid[a]
    <2>1. \A a \in Axes : axis[a].vel \in {"none", "back"}
        BY DEF Good, Lanes, Moving, Way
    <2>2. ASSUME NEW a \in Axes \ w
          PROVE  axis[a].pos = 0 /\ axis[a].off = c.mid[a]
        <3>1. c.mid[a] = axis[a].off
            BY DEF Good, Measured
        <3>2. axis[a].pos \in Int /\ axis[a].off \in Int
            BY DEF Good, Types
        <3> QED
            BY <3>1, <3>2 DEF Actual
    <2> QED
        BY <2>1, <2>2
<1>10. Zeroed(cal', axis, sdo, lane', w)
    BY <1>3, <1>4, <1>9, Constants DEF Zeroed, Writing
<1>11. Known(cal', axis, sdo, lane', u, w)
    <2>1. New(c, sdo) = {} /\ New(cal', sdo) = {}
        BY <1>4, <1>6 DEF New
    <2>2. ~u => \A a, b \in Axes \ w : c.mid[a] = c.mid[b]
        BY <1>9, <2>1 DEF Good, Known
    <2>3. ~u => \A a, b \in Axes \ w : axis[a].off = axis[b].off
        BY <2>1 DEF Good, Known
    <2>4. lane'.state = "pending" /\ lane'.vel = All("none")
        BY <1>3
    <2> QED
        BY <1>4, <1>9, <2>1, <2>2, <2>3, <2>4 DEF Known
<1> QED
    BY <1>5, <1>7, <1>8, <1>10, <1>11 DEF Good

LEMMA ReturnKeeps ==
    ASSUME IInv, NEW lost \in SUBSET Axes, NEW latched \in SUBSET Axes,
           NEW accepts \in BOOLEAN, NEW due \in BOOLEAN,
           NEW error, ReturnMid(lost, latched, accepts, due, error)
    PROVE  IInv'
<1> DEFINE c == Started(cal)
           u == unseen \/ Forgets
           close == {a \in Axes : Actual(a) = c.mid[a]}
           crossed == {a \in Axes : c.last[a] # 0 /\ error[a] = -c.last[a]}
           arrived == close \cup crossed
           stable == [a \in Axes |-> IF a \in arrived THEN c.stable[a] + 1 ELSE 0]
           ready == {a \in Axes : stable[a] >= StableSamples}
           f == [a \in Axes |-> Min({stable[a], StableSamples})]
           d == [Settle(c) EXCEPT !.stable = f, !.last = error]
           v == [a \in Axes |-> IF a \in ready THEN "none" ELSE "back"]
<1>0. misled' = IF cal'.state = "write_zero" THEN misled \cup (Axes \ close) ELSE misled
    BY DEF ReturnMid
<1>1. Good(c, axis, sdo, lane, u, misled') /\ c.state = "return_mid"
    <2>1. Good(c, axis, sdo, lane, u, misled) /\ c.state = "return_mid"
        BY StartedFacts DEF ReturnMid
    <2>2. misled \subseteq misled'
        BY <1>0
    <2> HIDE DEF c, u
    <2> QED
        BY <2>1, <2>2, Fewer
<1>2. Keep /\ sdo' = sdo
    BY DEF ReturnMid
<1>3. CASE Late(c) \/ Lost(c)
    <2>1. cal' = Fault(c) /\ lane' = lane
        BY <1>3 DEF ReturnMid, KeepLane, Lost, Pending
    <2> QED
        BY <1>1, <1>2, <2>1, CallFails DEF Running
<1>4. CASE ~(Late(c) \/ Lost(c)) /\ Pending(c)
    <2>1. cal' = c /\ lane' = lane
        BY <1>4 DEF ReturnMid, KeepLane
    <2> QED
        BY <1>1, <1>2, <2>1, CallGood
<1>5. CASE ~(Late(c) \/ Lost(c)) /\ ~Pending(c)
    <2>1. Good(Settle(c), axis, sdo, lane, u, misled') /\ SameBut(Settle(c), c)
        BY <1>1, <1>5, SettleGood
    <2>2. SameBut(Settle(c), c) => /\ CalType(d) /\ d.state = c.state /\ d.mid = c.mid
          /\ d.written = c.written /\ d.waiting = c.waiting /\ d.restore = c.restore
          /\ d.group = Settle(c).group
        <3> HIDE DEF c, f
        <3> QED
            BY DEF SameBut, CalType, CalFields
    <2>3. Good(d, axis, sdo, lane, u, misled')
        <3> HIDE DEF c, d, u
        <3>1. Measured(d, axis, misled') /\ Lanes(d, axis, lane)
            BY <1>1, <2>1, <2>2 DEF SameBut, Good, Measured, Lanes, Preparing, Moving, Searching
        <3> QED
            BY <1>1, <2>1, <2>2, <3>1, MovingGood DEF SameBut, Moving
    <2> DEFINE e == [Enter(d, "write_zero") EXCEPT !.write = 1, !.setup = 0, !.last = All(0)]
    <2>4. cal' = [e EXCEPT !.group = TRUE] => \A a \in Axes \ misled' : Actual(a) = c.mid[a]
        <3>1. e.state = "write_zero" /\ "state" # "group"
            <4> HIDE DEF d
            <4> QED
                BY <2>2, <2>1, EnterFacts DEF CalType, CalFields, States, Running
        <3> HIDE DEF e, d, c
        <3>2. cal' = [e EXCEPT !.group = TRUE] => cal'.state = "write_zero"
            BY <3>1
        <3> QED
            BY <1>0, <3>2
    <2>5. \/ KeepLane(Fault(c)) \/ KeepLane(Fault(d)) \/ KeepLane(d)
          \/ Queue(e, All("none"))
          \/ Queue(d, v)
        <3> HIDE DEF v, e, d, f, ready, arrived
        <3> QED
            BY <1>5 DEF ReturnMid, v, e, d, f, ready, arrived
    <2> HIDE DEF c, u, d
    <2>6. CASE KeepLane(Fault(c))
        BY <1>1, <1>2, <2>6, CallFails DEF Running, KeepLane, c, u
    <2>7. CASE KeepLane(Fault(d))
        BY <1>1, <1>2, <2>1, <2>2, <2>3, <2>7, CallFails DEF Running, KeepLane, c, u
    <2>8. CASE KeepLane(d)
        BY <1>2, <2>3, <2>8, CallGood DEF KeepLane, u
    <2>9. CASE Queue(e, All("none"))
        <3>1. \A a \in Axes \ misled' : Actual(a) = d.mid[a]
            BY <2>1, <2>2, <2>4, <2>9 DEF Queue
        <3>2. Good(cal', axis, sdo, lane', u, misled')
            BY <1>1, <2>1, <2>2, <2>3, <2>9, <3>1, WriteBegins
        <3> QED
            BY <1>2, <3>2, CallGood DEF u
    <2>10. CASE Queue(d, v)
        <3>1. v \in [Axes -> {"none", Way[d.state]}] /\ d.state \in Moving
            BY <1>1, <2>1, <2>2 DEF Way, Moving
        <3>2. Good(cal', axis, sdo, lane', u, misled')
            BY <2>3, <2>10, <3>1, MovingQueued
        <3> QED
            BY <1>2, <3>2, CallGood DEF u
    <2> QED
        BY <2>5, <2>6, <2>7, <2>8, <2>9, <2>10
<1> QED
    BY <1>3, <1>4, <1>5

-----------------------------------------------------------------------------
(* The zero is written, axis by axis.                                       *)
LEMMA WriteKeeps ==
    ASSUME IInv, NEW late \in BOOLEAN, WriteZero(late)
    PROVE  IInv'
<1> DEFINE c == Started(cal)
           u == unseen \/ Forgets
           d == IF c.waiting
                THEN [c EXCEPT !.waiting = FALSE, !.written = @ \cup {sdo.axis}] ELSE c
<1>1. Good(c, axis, sdo, lane, u, misled) /\ c.state = "write_zero"
    BY StartedFacts DEF WriteZero
<1>2. Keep /\ lane' = lane /\ misled' = misled
    BY DEF WriteZero
<1>3. CASE c.waiting /\ Unanswered(late)
    <2>1. cal' = Fault(c) /\ sdo' = sdo
        BY <1>3 DEF WriteZero, KeepSdo, Unanswered
    <2> QED
        BY <1>1, <1>2, <2>1, CallFails DEF Running
<1>4. CASE c.waiting /\ ~Unanswered(late) /\ sdo.state = "busy"
    <2>1. cal' = c /\ sdo' = sdo
        BY <1>4 DEF WriteZero, KeepSdo, Unanswered
    <2> QED
        BY <1>1, <1>2, <2>1, CallGood
<1>5. CASE ~c.waiting \/ (~Unanswered(late) /\ sdo.state # "busy")
    <2>1. /\ CalType(d) /\ d.state = "write_zero" /\ d.mid = c.mid /\ ~d.waiting
          /\ d.write = c.write /\ d.restore = 1 /\ d.group = c.group
          /\ d.written = New(c, sdo)
        <3>1. c.waiting => sdo.axis \in Axes /\ sdo.position /\ sdo.value = 0
                             /\ sdo.state = "done"
            BY <1>1, <1>5 DEF Good, Types, Downloads, Unanswered
        <3>2. c.restore = 1 /\ CalType(c)
            BY <1>1 DEF Good, Types, Downloads, Running
        <3> HIDE DEF c
        <3> QED
            BY <1>1, <3>1, <3>2 DEF New, CalType, CalFields
    <2>2. ~Offset(sdo)
        BY <1>1, <1>5 DEF Good, Downloads, Offset
    <2>3. Good(d, axis, sdo, lane, u, misled)
        <3> HIDE DEF c, d, u
        <3>1. Types(d, axis, sdo, lane, u)
            BY <1>1, <2>1 DEF Good, Types
        <3>2. Downloads(d, sdo)
            BY <2>1, <2>2 DEF Downloads, Preparing, Moving, Searching
        <3>3. Lanes(d, axis, lane) /\ Measured(d, axis, misled)
            BY <2>1 DEF Lanes, Measured, Preparing, Moving, Searching
        <3>4. Zeroed(d, axis, sdo, lane, misled)
            <4>1. c.waiting => sdo.state = "done"
                BY <1>1, <1>5 DEF Good, Downloads, Types, Unanswered
            <4>2. \A a \in Axes : ~Asked(c, sdo, a)
                BY <4>1 DEF Asked
            <4> QED
                BY <1>1, <2>1, <4>1, <4>2 DEF Good, Zeroed
        <3>5. Known(d, axis, sdo, lane, u, misled)
            <4>1. New(d, sdo) = New(c, sdo) /\ Touched(c, sdo)
                BY <1>1, <2>1 DEF New, Touched, Writing
            <4> QED
                BY <1>1, <2>1, <4>1 DEF Good, Known
        <3> QED
            BY <3>1, <3>2, <3>3, <3>4, <3>5 DEF Good
    <2>4. \/ d.write \notin Axes /\ KeepSdo(Enter([d EXCEPT !.synced = FALSE], "verify_zero"))
          \/ d.write \in Axes /\ Free /\ Ask([d EXCEPT !.write = @ + 1], d.write, TRUE, 0)
          \/ KeepSdo(d)
        <3> HIDE DEF d
        <3> QED
            BY <1>5 DEF WriteZero, d, Unanswered
    <2> HIDE DEF c, d, u
    <2>5. CASE d.write \notin Axes /\ KeepSdo(Enter([d EXCEPT !.synced = FALSE], "verify_zero"))
        <3> DEFINE p == [d EXCEPT !.synced = FALSE]
        <3>1. /\ CalType(p) /\ p.mid = d.mid /\ p.written = d.written /\ p.restore = d.restore
              /\ p.waiting = d.waiting /\ p.group = d.group
            BY <2>1 DEF CalType, CalFields
        <3> HIDE DEF p
        <3>2. cal' = Enter(p, "verify_zero") /\ sdo' = sdo
            BY <2>5 DEF KeepSdo, p
        <3>3. /\ CalType(cal') /\ cal'.state = "verify_zero" /\ cal'.mid = d.mid
              /\ cal'.written = d.written /\ cal'.restore = 1 /\ ~cal'.waiting
              /\ cal'.group = d.group
            BY <2>1, <3>1, <3>2, EnterFacts DEF States, Running
        <3>4. Types(cal', axis, sdo, lane, u)
            BY <2>3, <3>3 DEF Good, Types
        <3>5. Downloads(cal', sdo)
            BY <2>2, <3>3 DEF Downloads, Preparing, Moving, Searching
        <3>6. Lanes(cal', axis, lane) /\ Measured(cal', axis, misled)
            BY <3>3 DEF Lanes, Measured, Preparing, Moving, Searching
        <3>7. Zeroed(cal', axis, sdo, lane, misled)
            <4>2. Axes = {} \/ d.write # 1
                BY <2>5, Constants
            <4>3. Axes = {} => Halted(axis)
                BY DEF Halted
            <4>4. CASE d.group /\ lane.state = "failed"
                BY <3>3, <4>4 DEF Zeroed
            <4>5. CASE ~(d.group /\ lane.state = "failed")
                <5>1. /\ \A a \in Axes \ misled : axis[a].pos = 0
                      /\ lane.state = "pending" => lane.vel = All("none") /\ d.group
                      /\ Halted(axis) \/ d.write = 1 \/ d.waiting
                      /\ \A a \in Axes \ misled :
                           a >= d.write \/ Asked(d, sdo, a) \/ axis[a].off = 0
                    BY <2>1, <2>3, <4>5 DEF Good, Zeroed, Writing
                <5>2. \A a \in Axes \ misled : axis[a].off = 0
                    <6>1. \A a \in Axes : ~(a >= d.write)
                        BY <2>1, <2>5, Constants DEF CalType
                    <6>2. \A a \in Axes : ~Asked(d, sdo, a)
                        BY <2>1 DEF Asked
                    <6> QED
                        BY <5>1, <6>1, <6>2
                <5>3. Halted(axis)
                    BY <2>1, <4>2, <4>3, <5>1
                <5> QED
                    BY <3>3, <5>1, <5>2, <5>3 DEF Zeroed
            <4> QED
                BY <4>4, <4>5
        <3>8. Known(cal', axis, sdo, lane, u, misled)
            <4>1. New(cal', sdo) = New(d, sdo) /\ Touched(d, sdo)
                BY <2>1, <3>3 DEF New, Touched, Writing
            <4> QED
                BY <2>3, <3>3, <4>1 DEF Good, Known
        <3> QED
            BY <1>2, <3>2, <3>4, <3>5, <3>6, <3>7, <3>8, CallGood DEF Good, u
    <2>6. CASE d.write \in Axes /\ Free /\ Ask([d EXCEPT !.write = @ + 1], d.write, TRUE, 0)
        <3>1. sdo' = [state |-> "busy", axis |-> d.write, position |-> TRUE, value |-> 0]
            BY <2>6 DEF Ask
        <3>2. /\ CalType(cal') /\ cal'.state = "write_zero" /\ cal'.mid = d.mid
              /\ cal'.written = d.written /\ cal'.restore = 1 /\ cal'.waiting
              /\ cal'.group = d.group /\ cal'.write = d.write + 1
            BY <2>1, <2>6 DEF Ask, CalType, CalFields
        <3>3. Types(cal', axis, sdo', lane, u)
            BY <2>3, <2>6, <3>1, <3>2, Constants DEF Good, Types
        <3>4. Downloads(cal', sdo')
            BY <2>1, <3>1, <3>2 DEF Downloads, CalType, Preparing, Moving, Searching
        <3>5. Lanes(cal', axis, lane) /\ Measured(cal', axis, misled)
            BY <3>2 DEF Lanes, Measured, Preparing, Moving, Searching
        <3>6. Zeroed(cal', axis, sdo', lane, misled)
            <4>1. \A a \in Axes : a >= d.write + 1 \/ a = d.write \/ ~(a >= d.write)
                BY <2>6, Constants
            <4> QED
                BY <2>1, <2>3, <3>1, <3>2, <4>1 DEF Good, Zeroed, Asked
        <3>7. Known(cal', axis, sdo', lane, u, misled)
            <4>1. New(cal', sdo') = New(d, sdo) /\ Touched(d, sdo)
                BY <2>1, <3>1, <3>2 DEF New, Touched, Writing
            <4> QED
                BY <2>3, <3>2, <4>1 DEF Good, Known
        <3> QED
            BY <1>2, <3>3, <3>4, <3>5, <3>6, <3>7, CallGood DEF Good, u
    <2>7. CASE KeepSdo(d)
        BY <1>2, <2>3, <2>7, CallGood DEF KeepSdo, u
    <2> QED
        BY <2>4, <2>5, <2>6, <2>7
<1> QED
    BY <1>3, <1>4, <1>5

-----------------------------------------------------------------------------
(* The zero is looked at, and a failed calibration stops the axes.          *)

(* Zero velocities for axes that have them already, or that must get them.  *)
LEMMA HaltQueued ==
    ASSUME NEW c, NEW d, NEW u, NEW w, Good(c, axis, sdo, lane, u, w), lane.state # "pending",
           ~Lost(c) \/ c.state = "aborting",
           c.state \in {"verify_zero", "fault", "aborting"},
           CalType(d), d.state = c.state, d.mid = c.mid, d.written = c.written,
           d.waiting = c.waiting, d.restore = c.restore, Queue(d, All("none"))
    PROVE  Good(cal', axis, sdo, lane', u, w)
<1>1. cal' = [d EXCEPT !.group = TRUE] /\ lane' = [state |-> "pending", vel |-> All("none")]
    BY DEF Queue
<1>2. /\ CalType(cal') /\ cal'.state = c.state /\ cal'.mid = c.mid /\ cal'.group
      /\ cal'.written = c.written /\ cal'.waiting = c.waiting /\ cal'.restore = c.restore
    BY <1>1 DEF CalType, CalFields
<1>3. Types(cal', axis, sdo, lane', u)
    BY <1>1, <1>2 DEF Good, Types, All, Velocities
<1>4. Downloads(cal', sdo)
    BY <1>2 DEF Good, Downloads, Preparing, Moving, Searching, Running
<1>5. Lanes(cal', axis, lane') /\ Measured(cal', axis, w)
    BY <1>2 DEF Lanes, Measured, Preparing, Moving, Searching
<1>6. Zeroed(cal', axis, sdo, lane', w)
    <2>1. CASE c.state # "verify_zero"
        BY <1>2, <2>1 DEF Zeroed, Writing
    <2>2. CASE c.state = "verify_zero" /\ c.group /\ lane.state = "failed"
        BY <2>2 DEF Lost
    <2>3. CASE c.state = "verify_zero" /\ ~(c.group /\ lane.state = "failed")
        <3>1. /\ \A a \in Axes \ w : axis[a].pos = 0
              /\ Halted(axis) /\ \A a \in Axes \ w : axis[a].off = 0
            BY <2>3 DEF Good, Zeroed, Writing
        <3> QED
            BY <1>1, <1>2, <2>3, <3>1 DEF Zeroed
    <2> QED
        BY <2>1, <2>2, <2>3
<1>7. Known(cal', axis, sdo, lane', u, w)
    <2>1. New(cal', sdo) = New(c, sdo) /\ (Touched(cal', sdo) <=> Touched(c, sdo))
        BY <1>2 DEF New, Touched
    <2>2. lane'.state = "pending" /\ lane'.vel = All("none")
        BY <1>1
    <2> QED
        BY <1>2, <2>1, <2>2 DEF Good, Known
<1> QED
    BY <1>3, <1>4, <1>5, <1>6, <1>7 DEF Good

LEMMA VerifyKeeps ==
    ASSUME IInv, NEW lost \in SUBSET Axes, NEW latched \in SUBSET Axes,
           NEW accepts \in BOOLEAN, VerifyZero(lost, latched, accepts)
    PROVE  IInv'
<1> DEFINE c == Started(cal)
           u == unseen \/ Forgets
           d == Settle(c)
<1>1. Good(c, axis, sdo, lane, u, misled) /\ c.state = "verify_zero"
    BY StartedFacts DEF VerifyZero
<1>2. Keep /\ sdo' = sdo /\ misled' = misled
    BY DEF VerifyZero
<1>3. CASE Late(c) \/ Lost(c)
    <2>1. cal' = Fault(c) /\ lane' = lane
        BY <1>3 DEF VerifyZero, KeepLane, Lost, Pending
    <2> QED
        BY <1>1, <1>2, <2>1, CallFails DEF Running
<1>4. CASE ~(Late(c) \/ Lost(c)) /\ Pending(c)
    <2>1. cal' = c /\ lane' = lane
        BY <1>4 DEF VerifyZero, KeepLane
    <2> QED
        BY <1>1, <1>2, <2>1, CallGood
<1>5. CASE ~(Late(c) \/ Lost(c)) /\ ~Pending(c)
    <2>1. Good(d, axis, sdo, lane, u, misled) /\ SameBut(d, c) /\ ~d.group
        BY <1>1, <1>5, SettleGood
    <2>2. d.state = "verify_zero" /\ ~Lost(d)
        BY <1>1, <2>1 DEF SameBut, Lost
    <2>3. \/ Queued(accepts) /\ Queue([d EXCEPT !.synced = TRUE], All("none"))
          \/ KeepLane([Enter(d, "complete") EXCEPT !.requested = FALSE])
          \/ KeepLane(d)
        <3> HIDE DEF d
        <3> QED
            BY <1>5 DEF VerifyZero, d
    <2> HIDE DEF c, d, u
    <2>4. CASE Queued(accepts) /\ Queue([d EXCEPT !.synced = TRUE], All("none"))
        <3> DEFINE p == [d EXCEPT !.synced = TRUE]
        <3>1. /\ CalType(p) /\ p.state = d.state /\ p.mid = d.mid /\ p.written = d.written
              /\ p.waiting = d.waiting /\ p.restore = d.restore
            BY <2>1 DEF SameBut, CalType, CalFields
        <3> HIDE DEF p
        <3>2. Good(cal', axis, sdo, lane', u, misled)
            BY <2>1, <2>2, <2>4, <3>1, HaltQueued DEF Queued, p
        <3> QED
            BY <1>2, <3>2, CallGood DEF u
    <2>5. CASE KeepLane([Enter(d, "complete") EXCEPT !.requested = FALSE])
        <3> DEFINE e == Enter(d, "complete")
        <3>1. /\ CalType(e) /\ e.state = "complete" /\ e.mid = d.mid /\ e.written = d.written
              /\ e.restore = d.restore /\ e.waiting = d.waiting
            BY <2>1, EnterFacts DEF SameBut, States
        <3> HIDE DEF e
        <3>2. cal' = [e EXCEPT !.requested = FALSE] /\ lane' = lane
            BY <2>5 DEF KeepLane, e
        <3>3. /\ CalType(cal') /\ cal'.state = "complete" /\ cal'.mid = d.mid
              /\ cal'.written = d.written /\ cal'.restore = d.restore /\ cal'.waiting = d.waiting
            BY <3>1, <3>2 DEF CalType, CalFields
        <3>4. Types(cal', axis, sdo, lane, u)
            BY <2>1, <3>3 DEF Good, Types
        <3>5. Downloads(cal', sdo)
            BY <2>1, <2>2, <3>3 DEF Good, Downloads, Preparing, Moving, Searching, Running
        <3>6. Lanes(cal', axis, lane) /\ Measured(cal', axis, misled)
            BY <3>3 DEF Lanes, Measured, Preparing, Moving, Searching
        <3>7. Zeroed(cal', axis, sdo, lane, misled)
            BY <2>1, <2>2, <3>3 DEF Good, Zeroed, Lost, Writing
        <3>8. Known(cal', axis, sdo, lane, u, misled)
            <4>1. New(cal', sdo) = New(d, sdo) /\ ~Touched(cal', sdo)
                BY <3>3 DEF New, Touched, Writing
            <4>2. \A a \in Axes \ misled : axis[a].off = 0
                BY <2>1, <2>2 DEF Good, Zeroed, Lost, Writing
            <4> QED
                BY <2>1, <4>1, <4>2 DEF Good, Known
        <3> QED
            BY <1>2, <3>2, <3>4, <3>5, <3>6, <3>7, <3>8, CallGood DEF Good, u
    <2>6. CASE KeepLane(d)
        BY <1>2, <2>1, <2>6, CallGood DEF KeepLane, u
    <2> QED
        BY <2>3, <2>4, <2>5, <2>6
<1> QED
    BY <1>3, <1>4, <1>5

LEMMA FaultKeeps ==
    ASSUME IInv, NEW accepts \in BOOLEAN, NEW due \in BOOLEAN, FaultStep(accepts, due)
    PROVE  IInv'
<1> DEFINE c == Started(cal)
           u == unseen \/ Forgets
           d == Settle(c)
<1>1. Good(c, axis, sdo, lane, u, misled) /\ c.state = "fault"
    BY StartedFacts DEF FaultStep
<1>2. Keep /\ sdo' = sdo /\ misled' = misled
    BY DEF FaultStep
<1>3. CASE Lost(c)
    <2>1. cal' = Fault(c) /\ lane' = lane
        BY <1>3 DEF FaultStep, KeepLane, Lost, Pending
    <2> QED
        BY <1>1, <1>2, <2>1, CallFails
<1>4. CASE ~Lost(c) /\ Pending(c)
    <2>1. cal' = c /\ lane' = lane
        BY <1>4 DEF FaultStep, KeepLane
    <2> QED
        BY <1>1, <1>2, <2>1, CallGood
<1>5. CASE ~Lost(c) /\ ~Pending(c)
    <2>1. Good(d, axis, sdo, lane, u, misled) /\ SameBut(d, c) /\ ~d.group
        BY <1>1, <1>5, SettleGood
    <2>2. d.state = "fault" /\ ~Lost(d) /\ CalType(d)
        BY <1>1, <2>1 DEF SameBut, Lost
    <2>3. (Queued(accepts) /\ Queue(d, All("none"))) \/ KeepLane(d)
        BY <1>5 DEF FaultStep
    <2> HIDE DEF c, d, u
    <2>4. CASE Queued(accepts) /\ Queue(d, All("none"))
        <3>1. Good(cal', axis, sdo, lane', u, misled)
            BY <2>1, <2>2, <2>4, HaltQueued DEF Queued
        <3> QED
            BY <1>2, <3>1, CallGood DEF u
    <2>5. CASE KeepLane(d)
        BY <1>2, <2>1, <2>5, CallGood DEF KeepLane, u
    <2> QED
        BY <2>3, <2>4, <2>5
<1> QED
    BY <1>3, <1>4, <1>5

-----------------------------------------------------------------------------
(* The abort.  The answer of the download under way is noted.              *)
LEMMA AnsweredGood ==
    ASSUME NEW c, NEW u, NEW w, Good(c, axis, sdo, lane, u, w), c.state = "aborting",
           NEW d, d = Answered(c)
    PROVE  /\ Good(d, axis, sdo, lane, u, w) /\ d.state = "aborting" /\ ~d.waiting
           /\ d.group = c.group
<1>1. /\ CalType(d) /\ d.state = "aborting" /\ d.mid = c.mid /\ ~d.waiting
      /\ d.restore = c.restore /\ d.group = c.group /\ d.written = New(c, sdo)
    <2>1. CASE ~c.waiting
        BY <2>1 DEF Answered, New, Good, Types
    <2>2. CASE c.waiting /\ sdo.state # "done"
        BY <2>2 DEF Answered, New, Good, Types, CalType, CalFields
    <2>3. CASE c.waiting /\ sdo.state = "done"
        <3>1. New(c, sdo) = Rewritten(c)
            BY <2>3 DEF New, Rewritten
        <3>2. New(c, sdo) \in SUBSET Axes
            BY DEF New, Good, Types, CalType
        <3>3. d = [c EXCEPT !.waiting = FALSE, !.written = New(c, sdo)]
            BY <2>3, <3>1 DEF Answered
        <3> QED
            BY <3>2, <3>3 DEF Good, Types, CalType, CalFields
    <2> QED
        BY <2>1, <2>2, <2>3
<1>2. Types(d, axis, sdo, lane, u)
    BY <1>1 DEF Good, Types
<1>3. Downloads(d, sdo) /\ Lanes(d, axis, lane) /\ Measured(d, axis, w) /\ Zeroed(d, axis, sdo, lane, w)
    BY <1>1 DEF Downloads, Lanes, Measured, Zeroed, Preparing, Moving, Searching, Writing, Running
<1>4. Known(d, axis, sdo, lane, u, w)
    <2>1. New(d, sdo) = New(c, sdo) /\ (Touched(d, sdo) => Touched(c, sdo))
        BY <1>1 DEF New, Touched, Writing
    <2> QED
        BY <1>1, <2>1 DEF Good, Known
<1> QED
    BY <1>1, <1>2, <1>3, <1>4 DEF Good

(* The position of the abort in its list.                                   *)
LEMMA RestoreSet ==
    ASSUME NEW c, NEW u, NEW w, Good(c, axis, sdo, lane, u, w), c.state = "aborting", ~c.waiting,
           NEW n \in Nat \ {0}
    PROVE  LET d == [c EXCEPT !.restore = n]
           IN  /\ Good(d, axis, sdo, lane, u, w) /\ CalType(d) /\ d.state = "aborting"
               /\ d.mid = c.mid /\ d.written = c.written /\ ~d.waiting /\ d.restore = n
<1> DEFINE d == [c EXCEPT !.restore = n]
<1>1. /\ CalType(d) /\ d.state = "aborting" /\ d.mid = c.mid /\ d.written = c.written
      /\ ~d.waiting /\ d.restore = n
    BY DEF Good, Types, CalType, CalFields
<1> HIDE DEF d
<1>2. Types(d, axis, sdo, lane, u)
    BY <1>1 DEF Good, Types
<1>3. Downloads(d, sdo) /\ Lanes(d, axis, lane) /\ Measured(d, axis, w) /\ Zeroed(d, axis, sdo, lane, w)
    BY <1>1 DEF Downloads, Lanes, Measured, Zeroed, Preparing, Moving, Searching, Writing, Running
<1>4. Known(d, axis, sdo, lane, u, w)
    <2>1. New(d, sdo) = New(c, sdo) /\ (Touched(d, sdo) <=> Touched(c, sdo))
        BY <1>1 DEF New, Touched, Writing
    <2> QED
        BY <1>1, <2>1 DEF Good, Known
<1>5. Good(d, axis, sdo, lane, u, w)
    BY <1>2, <1>3, <1>4 DEF Good
<1> QED
    BY <1>1, <1>5 DEF d

(* An axis gets its old coordinates back, or the abort ends.                *)
LEMMA RestoreKeeps ==
    ASSUME IInv, Keep, NEW c, Good(c, axis, sdo, lane, unseen \/ Forgets, misled),
           c.state = "aborting", ~c.waiting, Restore(c), lane' = lane, misled' = misled
    PROVE  IInv'
<1> DEFINE u == unseen \/ Forgets
           due == {a \in c.written : a >= c.restore}
           a == Min(due)
<1>1. due # {} => a \in Axes /\ a \in c.written /\ a \in Nat \ {0}
    <2>1. c.written \in SUBSET Axes
        BY DEF Good, Types, CalType
    <2>2. due # {} => a \in due
        BY <2>1, LeastFacts
    <2> QED
        BY <2>1, <2>2, Constants
<1>2. \/ due # {} /\ Ask([c EXCEPT !.restore = a + 1], a, TRUE, c.mid[a])
      \/ due # {} /\ KeepSdo([c EXCEPT !.restore = a])
      \/ KeepSdo(Fault([c EXCEPT !.restore = Last + 1]))
      \/ c.written = {} /\ KeepSdo([Rest EXCEPT !.requested = c.requested])
    <2> HIDE DEF a
    <2> QED
        BY DEF Restore, a
<1> HIDE DEF due, a
<1>3. CASE due # {} /\ Ask([c EXCEPT !.restore = a + 1], a, TRUE, c.mid[a])
    <2> DEFINE d == [c EXCEPT !.restore = a + 1]
    <2>1. /\ Good(d, axis, sdo, lane, u, misled) /\ CalType(d) /\ d.state = "aborting"
          /\ d.mid = c.mid /\ d.written = c.written /\ ~d.waiting /\ d.restore = a + 1
        BY <1>1, <1>3, RestoreSet
    <2>2. cal' = [d EXCEPT !.waiting = TRUE]
          /\ sdo' = [state |-> "busy", axis |-> a, position |-> TRUE, value |-> c.mid[a]]
        BY <1>3 DEF Ask
    <2> HIDE DEF d, u
    <2>3. /\ CalType(cal') /\ cal'.state = "aborting" /\ cal'.mid = c.mid
          /\ cal'.written = c.written /\ cal'.waiting /\ cal'.restore = a + 1
        BY <2>1, <2>2 DEF CalType, CalFields
    <2>4. c.mid[a] \in Int /\ a \in Axes /\ a \in Int
        BY <1>1, <1>3 DEF Good, Types, CalType
    <2>5. Types(cal', axis, sdo', lane, u)
        BY <2>1, <2>2, <2>3, <2>4 DEF Good, Types
    <2>6. Downloads(cal', sdo')
        <3>1. a + 1 # 1
            BY <1>1, <1>3
        <3> QED
            BY <2>2, <2>3, <3>1 DEF Downloads, Preparing, Moving, Searching
    <2>7. /\ Lanes(cal', axis, lane) /\ Measured(cal', axis, misled)
          /\ Zeroed(cal', axis, sdo', lane, misled)
        BY <2>3 DEF Lanes, Measured, Zeroed, Preparing, Moving, Searching, Writing
    <2>8. Known(cal', axis, sdo', lane, u, misled)
        <3>1. New(cal', sdo') = c.written /\ New(d, sdo) = c.written
            BY <2>1, <2>2, <2>3 DEF New
        <3>2. Touched(d, sdo)
            BY <1>1, <1>3, <2>1, <3>1 DEF Touched
        <3> QED
            BY <2>1, <2>3, <3>1, <3>2 DEF Good, Known
    <2> QED
        BY <2>5, <2>6, <2>7, <2>8, CallGood DEF Good, u
<1>4. CASE due # {} /\ KeepSdo([c EXCEPT !.restore = a])
    BY <1>1, <1>4, RestoreSet, CallGood DEF KeepSdo
<1>5. CASE KeepSdo(Fault([c EXCEPT !.restore = Last + 1]))
    <2> DEFINE d == [c EXCEPT !.restore = Last + 1]
    <2>1. Last + 1 \in Nat \ {0}
        BY Constants
    <2>2. Good(d, axis, sdo, lane, u, misled) /\ d.state = "aborting" /\ ~d.waiting
        BY <2>1, RestoreSet
    <2>3. cal' = Fault(d) /\ sdo' = sdo
        BY <1>5 DEF KeepSdo
    <2> HIDE DEF d
    <2> QED
        BY <2>2, <2>3, CallFails DEF Running
<1>6. CASE c.written = {} /\ KeepSdo([Rest EXCEPT !.requested = c.requested])
    <2>1. cal' = [Rest EXCEPT !.requested = c.requested] /\ sdo' = sdo
        BY <1>6 DEF KeepSdo
    <2>2. /\ CalType(Rest) /\ Rest.state = "idle" /\ Rest.written = {}
          /\ ~Rest.waiting /\ ~Rest.prepared
        BY RestType DEF Rest
    <2>3. /\ CalType(cal') /\ cal'.state = "idle" /\ cal'.written = {} /\ ~cal'.waiting
        BY <2>1, <2>2 DEF Good, Types, CalType, CalFields
    <2> HIDE DEF u
    <2>4. Types(cal', axis, sdo, lane, u)
        BY <2>3 DEF Good, Types, u
    <2>5. Downloads(cal', sdo)
        BY <2>3 DEF Downloads, Preparing, Moving, Searching, Running
    <2>6. /\ Lanes(cal', axis, lane) /\ Measured(cal', axis, misled)
          /\ Zeroed(cal', axis, sdo, lane, misled)
        BY <2>3 DEF Lanes, Measured, Zeroed, Preparing, Moving, Searching, Writing
    <2>7. Known(cal', axis, sdo, lane, u, misled)
        <3>1. New(cal', sdo) = {} /\ New(c, sdo) = {} /\ ~Touched(cal', sdo)
            BY <1>6, <2>3 DEF New, Touched, Writing
        <3> QED
            BY <3>1 DEF Good, Known, u
    <2> QED
        BY <2>1, <2>4, <2>5, <2>6, <2>7, CallGood DEF Good, u
<1> QED
    BY <1>2, <1>3, <1>4, <1>5, <1>6

LEMMA AbortKeeps ==
    ASSUME IInv, NEW accepts \in BOOLEAN, NEW late \in BOOLEAN, AbortStep(accepts, late)
    PROVE  IInv'
<1> DEFINE c == Started(cal)
           u == unseen \/ Forgets
           d == Answered(c)
<1>1. Good(c, axis, sdo, lane, u, misled) /\ c.state = "aborting"
    BY StartedFacts DEF AbortStep
<1>2. Keep /\ misled' = misled
    BY DEF AbortStep
<1>3. CASE Late(c)
    <2>1. cal' = Fault(c) /\ sdo' = sdo /\ lane' = lane
        BY <1>3 DEF AbortStep
    <2> QED
        BY <1>1, <1>2, <2>1, CallFails DEF Running
<1>4. CASE ~Late(c) /\ c.waiting /\ sdo.state = "busy" /\ ~late
    <2>1. cal' = c /\ sdo' = sdo /\ lane' = lane
        BY <1>4 DEF AbortStep
    <2> QED
        BY <1>1, <1>2, <2>1, CallGood
<1>5. CASE ~Late(c) /\ ~(c.waiting /\ sdo.state = "busy" /\ ~late)
    <2>1. Good(d, axis, sdo, lane, u, misled) /\ d.state = "aborting" /\ ~d.waiting
        BY <1>1, AnsweredGood
    <2>2. \/ Pending(d) /\ cal' = d /\ sdo' = sdo /\ lane' = lane
          \/ /\ ~Pending(d) /\ sdo' = sdo
             /\ \/ Queued(accepts) /\ Queue([d EXCEPT !.stopped = TRUE], All("none"))
                \/ KeepLane(Settle(d))
          \/ ~Pending(d) /\ Restore(Settle(d)) /\ lane' = lane
        <3> HIDE DEF d
        <3> QED
            BY <1>5 DEF AbortStep, d
    <2> HIDE DEF c, d, u
    <2>3. CASE Pending(d) /\ cal' = d /\ sdo' = sdo /\ lane' = lane
        BY <1>2, <2>1, <2>3, CallGood DEF u
    <2>4. CASE /\ ~Pending(d) /\ sdo' = sdo
               /\ Queued(accepts) /\ Queue([d EXCEPT !.stopped = TRUE], All("none"))
        <3> DEFINE p == [d EXCEPT !.stopped = TRUE]
        <3>1. /\ CalType(p) /\ p.state = d.state /\ p.mid = d.mid /\ p.written = d.written
              /\ p.waiting = d.waiting /\ p.restore = d.restore
            BY <2>1 DEF Good, Types, CalType, CalFields
        <3> HIDE DEF p
        <3>2. Good(cal', axis, sdo, lane', u, misled)
            BY <2>1, <2>4, <3>1, HaltQueued DEF Queued, p
        <3> QED
            BY <1>2, <2>4, <3>2, CallGood DEF u
    <2>5. ~Pending(d) => /\ Good(Settle(d), axis, sdo, lane, u, misled)
                         /\ Settle(d).state = "aborting" /\ ~Settle(d).waiting
        BY <2>1, SettleGood DEF SameBut
    <2>6. CASE ~Pending(d) /\ sdo' = sdo /\ KeepLane(Settle(d))
        BY <1>2, <2>5, <2>6, CallGood DEF KeepLane, u
    <2>7. CASE ~Pending(d) /\ Restore(Settle(d)) /\ lane' = lane
        BY <1>2, <2>5, <2>7, RestoreKeeps DEF u
    <2> QED
        BY <2>2, <2>3, <2>4, <2>6, <2>7
<1> QED
    BY <1>3, <1>4, <1>5

-----------------------------------------------------------------------------
(* The calls that only end or forget a request, and the operator.          *)
LEMMA SameGood ==
    ASSUME IInv, CalType(cal'), cal'.state = cal.state, cal'.done = cal.done,
           cal'.node = cal.node, cal'.prepared = cal.prepared, cal'.left = cal.left,
           cal'.right = cal.right, cal'.mid = cal.mid, cal'.written = cal.written,
           cal'.write = cal.write, cal'.restore = cal.restore,
           cal'.waiting = cal.waiting, cal'.group = cal.group,
           UNCHANGED <<axis, sdo, lane, unseen, misled>>
    PROVE  IInv'
<1>1. Types(cal', axis, sdo, lane, unseen) /\ Downloads(cal', sdo) /\ Lanes(cal', axis, lane)
      /\ Measured(cal', axis, misled)
    BY DEF IInv, Good, Types, Downloads, Lanes, Measured
<1>2. Zeroed(cal', axis, sdo, lane, misled)
    <2>1. \A a : Asked(cal', sdo, a) <=> Asked(cal, sdo, a)
        BY DEF Asked
    <2> QED
        BY <2>1 DEF IInv, Good, Zeroed
<1>3. Known(cal', axis, sdo, lane, unseen, misled)
    <2>1. New(cal', sdo) = New(cal, sdo) /\ (Touched(cal', sdo) <=> Touched(cal, sdo))
        BY DEF New, Touched
    <2> QED
        BY <2>1 DEF IInv, Good, Known
<1> QED
    BY <1>1, <1>2, <1>3 DEF IInv, Good

LEMMA InitKeeps == Init => IInv
<1> SUFFICES ASSUME Init PROVE IInv
    OBVIOUS
<1>1. /\ CalType(cal) /\ cal.state = "idle" /\ cal.written = {}
      /\ ~cal.waiting /\ ~cal.prepared
    BY RestType DEF Init, Rest
<1>2. Types(cal, axis, sdo, lane, unseen)
    <2>1. OldOffset \in Int
        BY Constants
    <2>2. axis \in [Axes -> [pos : Int, off : Int, vel : Velocities]]
        BY <2>1 DEF Init, All, Velocities
    <2>3. /\ sdo \in [state : {"idle", "busy", "done", "aborted"}, axis : Int,
                     position : BOOLEAN, value : Int]
          /\ ~sdo.position
        BY DEF Init, NoDownload
    <2>4. lane \in [state : {"pending", "complete", "failed"}, vel : [Axes -> Velocities]]
        BY DEF Init, All, Velocities
    <2> QED
        BY <1>1, <2>2, <2>3, <2>4 DEF Init, Types
<1>3. Downloads(cal, sdo)
    BY <1>1 DEF Downloads, Preparing, Moving, Searching, Running
<1>4. Lanes(cal, axis, lane) /\ Measured(cal, axis, misled) /\ Zeroed(cal, axis, sdo, lane, misled)
    BY <1>1 DEF Lanes, Measured, Zeroed, Preparing, Moving, Searching, Writing
<1>5. Known(cal, axis, sdo, lane, unseen, misled)
    <2>1. New(cal, sdo) = {} /\ ~Touched(cal, sdo)
        BY <1>1 DEF New, Touched, Writing
    <2> QED
        BY <2>1 DEF Init, Known, All
<1> QED
    BY <1>2, <1>3, <1>4, <1>5 DEF IInv, Good

LEMMA DismissKeeps == IInv /\ Dismiss => IInv'
<1> SUFFICES ASSUME IInv, Dismiss PROVE IInv'
    OBVIOUS
<1>1. UNCHANGED <<axis, sdo, lane, unseen, misled>>
    BY DEF Dismiss
<1>2. CASE cal.state = "complete" /\ cal' = Rest
    <2>1. /\ CalType(cal') /\ cal'.state = "idle" /\ cal'.written = {}
          /\ ~cal'.waiting /\ ~cal'.prepared
        BY <1>2, RestType DEF Rest
    <2>2. Types(cal', axis, sdo, lane, unseen)
        BY <2>1 DEF IInv, Good, Types
    <2>3. Downloads(cal', sdo)
        BY <2>1 DEF Downloads, Preparing, Moving, Searching, Running
    <2>4. /\ Lanes(cal', axis, lane) /\ Measured(cal', axis, misled)
          /\ Zeroed(cal', axis, sdo, lane, misled)
        BY <2>1 DEF Lanes, Measured, Zeroed, Preparing, Moving, Searching, Writing
    <2>5. Known(cal', axis, sdo, lane, unseen, misled)
        <3>1. New(cal', sdo) = {} /\ ~Touched(cal', sdo)
            BY <2>1 DEF New, Touched, Writing
        <3>2. \A a \in Axes \ misled : axis[a].off = 0
            BY <1>2 DEF IInv, Good, Zeroed
        <3> QED
            BY <3>1, <3>2 DEF IInv, Good, Known
    <2> QED
        BY <1>1, <2>2, <2>3, <2>4, <2>5 DEF IInv, Good
<1>3. CASE cal' = [cal EXCEPT !.requested = FALSE]
    <2>1. /\ CalType(cal') /\ cal'.state = cal.state /\ cal'.done = cal.done
          /\ cal'.node = cal.node /\ cal'.prepared = cal.prepared /\ cal'.left = cal.left
          /\ cal'.right = cal.right /\ cal'.mid = cal.mid /\ cal'.written = cal.written
          /\ cal'.write = cal.write /\ cal'.restore = cal.restore
          /\ cal'.waiting = cal.waiting /\ cal'.group = cal.group
        BY <1>3 DEF IInv, Good, Types, CalType, CalFields
    <2> QED
        BY <1>1, <2>1, SameGood
<1>4. CASE cal' = cal
    BY <1>1, <1>4 DEF IInv
<1> QED
    BY <1>2, <1>3, <1>4 DEF Dismiss

LEMMA OperatorKeeps == IInv /\ (Gesture \/ Home \/ Age) => IInv'
<1>1. ASSUME IInv, Gesture PROVE IInv'
    <2>1. /\ CalType(cal') /\ cal'.state = cal.state /\ cal'.done = cal.done
          /\ cal'.node = cal.node /\ cal'.prepared = cal.prepared /\ cal'.left = cal.left
          /\ cal'.right = cal.right /\ cal'.mid = cal.mid /\ cal'.written = cal.written
          /\ cal'.write = cal.write /\ cal'.restore = cal.restore
          /\ cal'.waiting = cal.waiting /\ cal'.group = cal.group
        BY <1>1 DEF IInv, Good, Types, CalType, CalFields, Gesture
    <2> QED
        BY <1>1, <2>1, SameGood DEF Gesture
<1>2. ASSUME IInv, Home PROVE IInv'
    BY <1>2 DEF IInv, Home
<1>3. ASSUME IInv, Age PROVE IInv'
    <2>1. /\ CalType(cal') /\ cal'.state = cal.state /\ cal'.done = cal.done
          /\ cal'.node = cal.node /\ cal'.prepared = cal.prepared /\ cal'.left = cal.left
          /\ cal'.right = cal.right /\ cal'.mid = cal.mid /\ cal'.written = cal.written
          /\ cal'.write = cal.write /\ cal'.restore = cal.restore
          /\ cal'.waiting = cal.waiting /\ cal'.group = cal.group
        BY <1>3 DEF IInv, Good, Types, CalType, CalFields, Age
    <2> QED
        BY <1>3, <2>1, SameGood DEF Age
<1> QED
    BY <1>1, <1>2, <1>3

-----------------------------------------------------------------------------
(* The drives.  An axis that rests in the middle stays there.              *)
LEMMA TurnKeeps ==
    ASSUME IInv, NEW a \in Axes, Turn(a)
    PROVE  IInv'
<1>1. PICK way \in Ways(a) : /\ axis' = [axis EXCEPT ![a].pos = axis[a].pos + way]
                              /\ axis[a].pos + way \in (-Stop)..Stop
    BY DEF Turn
<1>2. /\ axis[a].vel # "none" /\ UNCHANGED <<cal, sdo, lane, unseen, misled>>
      /\ ~(axis[a].vel = "back" /\ Actual(a) = cal.mid[a] /\ lane.state = "pending")
    BY DEF Turn, Ways
<1>3. /\ axis' \in [Axes -> [pos : Int, off : Int, vel : Velocities]]
      /\ \A b \in Axes : axis'[b].off = axis[b].off /\ axis'[b].vel = axis[b].vel
      /\ \A b \in Axes : b # a => axis'[b].pos = axis[b].pos
    <2>1. axis \in [Axes -> [pos : Int, off : Int, vel : Velocities]]
        BY DEF IInv, Good, Types
    <2>2. axis[a].pos + way \in Int
        BY <1>1, Constants
    <2> QED
        BY <1>1, <2>1, <2>2
<1>4. Halted(axis) => FALSE
    BY <1>2 DEF Halted
<1>5. ~(/\ axis[a].pos = 0 /\ axis[a].vel = "back" /\ axis[a].off = cal.mid[a]
        /\ lane.state = "pending")
    <2>1. axis[a].off \in Int
        BY DEF IInv, Good, Types
    <2> QED
        BY <1>2, <2>1 DEF Actual
<1>6. Types(cal, axis', sdo, lane, unseen) /\ Downloads(cal, sdo)
    BY <1>3 DEF IInv, Good, Types
<1>7. Lanes(cal, axis', lane)
    BY <1>3, <1>4 DEF IInv, Good, Lanes, Halted
<1>8. Measured(cal, axis', misled)
    BY <1>3 DEF IInv, Good, Measured, Types, CalType
<1>9. Zeroed(cal, axis', sdo, lane, misled)
    <2>1. cal.state \in Writing =>
            \/ cal.group /\ lane.state = "failed"
            \/ a \in misled /\ \A b \in Axes \ misled : axis[b].pos = 0
        BY <1>2, <1>4, <1>5 DEF IInv, Good, Zeroed
    <2> QED
        BY <1>3, <1>4, <2>1 DEF IInv, Good, Zeroed
<1>10. Known(cal, axis', sdo, lane, unseen, misled)
    <2>1. New(cal, sdo) \in SUBSET Axes
        BY DEF IInv, Good, Types, CalType, New
    <2>2. ~unseen /\ Touched(cal, sdo) =>
            a \in misled /\ \A b \in Axes \ misled : axis[b].pos = 0
        BY <1>2, <1>4, <1>5 DEF IInv, Good, Known
    <2> QED
        BY <1>3, <1>4, <2>1, <2>2 DEF IInv, Good, Known
<1> QED
    BY <1>2, <1>6, <1>7, <1>8, <1>9, <1>10 DEF IInv, Good

(* The CANopen master decides a group.                                     *)
LEMMA LaneKeeps ==
    ASSUME IInv, NEW result \in {"complete", "failed"}, NEW carried \in BOOLEAN,
           LaneEnds(result, carried)
    PROVE  IInv'
<1>1. /\ lane.state = "pending" /\ cal' = cal /\ sdo' = sdo
      /\ misled' = misled
      /\ lane' = [state |-> result, vel |-> All("none")]
      /\ unseen' = (unseen \/ result = "failed")
      /\ result = "complete" => carried
    BY DEF LaneEnds
<1>2. /\ axis' \in [Axes -> [pos : Int, off : Int, vel : Velocities]]
      /\ \A a \in Axes : /\ axis'[a].pos = axis[a].pos /\ axis'[a].off = axis[a].off
                         /\ axis'[a].vel = IF carried THEN lane.vel[a] ELSE axis[a].vel
    <2>1. axis \in [Axes -> [pos : Int, off : Int, vel : Velocities]]
          /\ lane.vel \in [Axes -> Velocities]
        BY DEF IInv, Good, Types
    <2>2. CASE carried
        <3>1. axis' = [a \in Axes |-> [axis[a] EXCEPT !.vel = lane.vel[a]]]
            BY <2>2 DEF LaneEnds
        <3> QED
            BY <2>1, <2>2, <3>1
    <2>3. CASE ~carried
        BY <2>1, <2>3 DEF LaneEnds
    <2> QED
        BY <2>2, <2>3
<1>3. Types(cal, axis', sdo, lane', unseen')
    BY <1>1, <1>2 DEF IInv, Good, Types, All, Velocities
<1>4. result = "complete" /\ lane.vel = All("none") => Halted(axis')
    BY <1>1, <1>2 DEF Halted, All
<1>5. lane'.state = result /\ result # "pending"
    BY <1>1
<1>6. Lanes(cal, axis', lane')
    <2>1. cal.state \in Preparing /\ cal.prepared => cal.group /\ lane.vel = All("none")
        BY <1>1 DEF IInv, Good, Lanes
    <2>2. ASSUME cal.state \in Moving, NEW a \in Axes
          PROVE  axis'[a].vel \in {"none", Way[cal.state]}
        BY <1>1, <1>2, <2>2 DEF IInv, Good, Lanes
    <2> QED
        BY <1>4, <1>5, <2>1, <2>2 DEF Lanes
<1>7. Measured(cal, axis', misled)
    BY <1>2 DEF IInv, Good, Measured, Types, CalType
<1>8. Zeroed(cal, axis', sdo, lane', misled)
    <2>1. CASE cal.state \in Writing
        <3>1. /\ cal.group /\ lane.vel = All("none")
              /\ \A a \in Axes \ misled : axis[a].pos = 0
              /\ \A a \in Axes \ misled : cal.state = "write_zero" =>
                    a >= cal.write \/ Asked(cal, sdo, a) \/ axis[a].off = 0
              /\ \A a \in Axes \ misled : cal.state = "verify_zero" => axis[a].off = 0
            BY <1>1, <2>1 DEF IInv, Good, Zeroed
        <3> QED
            BY <1>2, <1>4, <1>5, <2>1, <3>1 DEF Zeroed, Writing
    <2>2. CASE cal.state \notin Writing
        BY <1>2, <2>2 DEF IInv, Good, Zeroed
    <2> QED
        BY <2>1, <2>2
<1>9. Known(cal, axis', sdo, lane', unseen', misled)
    <2>1. New(cal, sdo) \in SUBSET Axes
        BY DEF IInv, Good, Types, CalType, New
    <2>2. ~unseen' => ~unseen /\ result = "complete"
        BY <1>1
    <2>3. ~unseen /\ Touched(cal, sdo) => lane.vel = All("none")
        BY <1>1 DEF IInv, Good, Known
    <2> QED
        BY <1>2, <1>4, <1>5, <2>1, <2>2, <2>3 DEF IInv, Good, Known
<1> QED
    BY <1>1, <1>3, <1>6, <1>7, <1>8, <1>9 DEF IInv, Good

(* The CANopen master ends a download, which may have moved an offset.     *)
LEMMA DownloadKeeps ==
    ASSUME IInv, NEW result \in {"done", "aborted"}, NEW carried \in BOOLEAN,
           DownloadEnds(result, carried)
    PROVE  IInv'
<1> DEFINE z == sdo.axis
           moved == carried /\ sdo.position
<1>1. /\ sdo.state = "busy" /\ lane.state # "pending" /\ cal' = cal /\ lane' = lane
      /\ misled' = misled
      /\ result = "done" => carried
      /\ unseen' = (unseen \/ (carried /\ sdo.position /\ (result = "aborted" \/ ~cal.waiting)))
    BY DEF DownloadEnds
<1>2. /\ sdo.axis \in Int /\ sdo.position \in BOOLEAN /\ sdo.value \in Int
      /\ moved => z \in Axes
    BY DEF IInv, Good, Types
<1>3. /\ cal.waiting => /\ sdo'.state = result /\ sdo'.axis = z
                        /\ sdo'.position = sdo.position /\ sdo'.value = sdo.value
      /\ ~cal.waiting => sdo'.state = "idle" /\ ~sdo'.position
      /\ sdo' \in [state : {"idle", "busy", "done", "aborted"}, axis : Int,
                   position : BOOLEAN, value : Int]
    <2>1. sdo \in [state : {"idle", "busy", "done", "aborted"}, axis : Int,
                  position : BOOLEAN, value : Int]
          /\ cal.waiting \in BOOLEAN
        BY DEF IInv, Good, Types, CalType
    <2>2. CASE cal.waiting
        <3>1. sdo' = [sdo EXCEPT !.state = result]
            BY <2>2 DEF DownloadEnds
        <3> QED
            BY <2>1, <2>2, <3>1
    <2>3. CASE ~cal.waiting
        <3>1. sdo' = [state |-> "idle", axis |-> 0, position |-> FALSE, value |-> 0]
            BY <2>3 DEF DownloadEnds, NoDownload
        <3>2. sdo' \in [state : {"idle", "busy", "done", "aborted"}, axis : Int,
                        position : BOOLEAN, value : Int]
            BY <3>1
        <3>3. sdo'.state = "idle" /\ ~sdo'.position
            BY <3>1
        <3> QED
            BY <2>3, <3>2, <3>3
    <2> QED
        BY <2>2, <2>3
<1>4. /\ axis' \in [Axes -> [pos : Int, off : Int, vel : Velocities]]
      /\ \A a \in Axes : /\ axis'[a].pos = axis[a].pos /\ axis'[a].vel = axis[a].vel
                         /\ a # z \/ ~moved => axis'[a].off = axis[a].off
      /\ moved => axis'[z].off = sdo.value - axis[z].pos
    <2>1. axis \in [Axes -> [pos : Int, off : Int, vel : Velocities]]
        BY DEF IInv, Good, Types
    <2>2. CASE moved
        <3>1. axis' = [axis EXCEPT ![z].off = sdo.value - axis[z].pos]
            BY <2>2 DEF DownloadEnds
        <3>2. sdo.value - axis[z].pos \in Int
            BY <1>2, <2>1, <2>2
        <3> QED
            BY <1>2, <2>1, <2>2, <3>1, <3>2
    <2>3. CASE ~moved
        BY <2>1, <2>3 DEF DownloadEnds
    <2> QED
        BY <2>2, <2>3
<1>5. moved => Offset(sdo)
    BY <1>1 DEF Offset
<1> HIDE DEF moved, z
<1>6. Types(cal, axis', sdo', lane, unseen')
    BY <1>1, <1>2, <1>3, <1>4 DEF IInv, Good, Types, z
<1>7. Downloads(cal, sdo')
    BY <1>1, <1>3 DEF IInv, Good, Downloads, Offset, z
<1>8. Lanes(cal, axis', lane)
    BY <1>1, <1>4 DEF IInv, Good, Lanes, Halted
<1>9. Measured(cal, axis', misled)
    <2>1. cal.state \in Searching \cup {"retreat_left", "retreat_right", "return_mid"} => ~moved
        BY <1>5 DEF IInv, Good, Downloads, Preparing, Moving
    <2> QED
        BY <1>4, <2>1 DEF IInv, Good, Measured, Types, CalType, Searching
<1>10. Zeroed(cal, axis', sdo', lane, misled)
    <2>1. CASE cal.state \notin Writing
        <3>1. cal.state = "complete" => ~moved
            BY <1>5 DEF IInv, Good, Downloads
        <3> QED
            BY <1>4, <2>1, <3>1 DEF IInv, Good, Zeroed
    <2>2. CASE cal.state \in Writing /\ cal.group /\ lane.state = "failed"
        BY <2>2 DEF Zeroed, Writing
    <2>3. CASE cal.state \in Writing /\ ~(cal.group /\ lane.state = "failed")
        <3>1. /\ \A a \in Axes \ misled : axis[a].pos = 0
              /\ Halted(axis)
              /\ \A a \in Axes \ misled : cal.state = "write_zero" =>
                    a >= cal.write \/ Asked(cal, sdo, a) \/ axis[a].off = 0
              /\ \A a \in Axes \ misled : cal.state = "verify_zero" => axis[a].off = 0
            BY <1>1, <2>3 DEF IInv, Good, Zeroed
        <3>2. moved => cal.state = "write_zero" /\ cal.waiting /\ sdo.value = 0
            BY <1>5, <2>3 DEF IInv, Good, Downloads, Writing
        <3>3. moved /\ z \notin misled => axis'[z].off = 0
            BY <1>2, <1>4, <3>1, <3>2
        <3>4. ASSUME NEW a \in Axes \ misled, axis[a].off = 0
              PROVE  axis'[a].off = 0
            BY <1>4, <3>3, <3>4
        <3>5. ASSUME NEW a \in Axes \ misled, cal.state = "write_zero", Asked(cal, sdo, a)
              PROVE  Asked(cal, sdo', a) \/ axis'[a].off = 0
            <4>1. cal.waiting /\ a = z /\ sdo.position
                BY <3>5 DEF Asked, IInv, Good, Downloads, z
            <4>2. carried => moved
                BY <4>1 DEF moved
            <4> QED
                BY <1>1, <1>3, <3>3, <4>1, <4>2 DEF Asked
        <3>6. \A a \in Axes \ misled : axis'[a].pos = 0
            BY <1>4, <3>1
        <3>7. Halted(axis')
            BY <1>4, <3>1 DEF Halted
        <3> QED
            BY <1>1, <2>3, <3>1, <3>4, <3>5, <3>6, <3>7 DEF Zeroed, Writing
    <2> QED
        BY <2>1, <2>2, <2>3
<1>11. Known(cal, axis', sdo', lane, unseen', misled)
    <2> SUFFICES ASSUME ~unseen' PROVE Known(cal, axis', sdo', lane, unseen', misled)
        BY DEF Known
    <2>1. /\ ~unseen /\ Known(cal, axis, sdo, lane, unseen, misled)
          /\ moved => cal.waiting /\ result = "done"
        BY <1>1 DEF IInv, Good, moved
    <2>2. New(cal, sdo) = cal.written /\ cal.written \in SUBSET Axes
        BY <1>1 DEF New, IInv, Good, Types, CalType
    <2>3. CASE ~moved
        <3>1. New(cal, sdo') = cal.written
            BY <1>1, <1>3, <2>3 DEF New, moved
        <3>2. Touched(cal, sdo') => Touched(cal, sdo)
            BY <1>3, <2>2, <3>1 DEF Touched
        <3> QED
            BY <1>4, <2>1, <2>2, <2>3, <3>1, <3>2 DEF Known, Halted
    <2>4. CASE moved
        <3>1. cal.waiting /\ sdo.position /\ result = "done" /\ z \in Axes
            BY <1>2, <2>1, <2>4 DEF moved
        <3>2. cal.state \in {"write_zero", "aborting"}
            BY <3>1 DEF IInv, Good, Downloads, Types, CalType, States, Running, Moving, Searching
        <3>3. Touched(cal, sdo)
            BY <3>1, <3>2 DEF Touched, Writing
        <3>4. /\ \A a \in Axes \ misled : axis[a].pos = 0
              /\ \A a, b \in Axes \ misled : cal.mid[a] = cal.mid[b]
              /\ \A a \in Axes \ (cal.written \cup misled) : axis[a].off = cal.mid[a]
              /\ \A a \in cal.written \ misled : axis[a].off = 0
              /\ lane.state # "failed" /\ Halted(axis)
            BY <1>1, <2>1, <2>2, <3>3 DEF Known
        <3>5. z \notin misled => axis'[z].off = sdo.value
            BY <1>2, <1>4, <2>4, <3>1, <3>4
        <3>6. New(cal, sdo') = IF sdo.value = 0 /\ cal.restore = 1
                               THEN cal.written \cup {z} ELSE cal.written \ {z}
            BY <1>3, <3>1 DEF New
        <3>7. \/ sdo.value = 0 /\ cal.restore = 1
              \/ cal.restore # 1 /\ sdo.value = cal.mid[z]
            BY <3>1, <3>2 DEF IInv, Good, Downloads, Running, z
        <3>8. /\ \A a \in New(cal, sdo') \ misled : axis'[a].off = 0
              /\ \A a \in Axes \ (New(cal, sdo') \cup misled) : axis'[a].off = cal.mid[a]
            BY <1>4, <2>2, <3>1, <3>4, <3>5, <3>6, <3>7
        <3>9. Halted(axis') /\ \A a \in Axes \ misled : axis'[a].pos = 0
            BY <1>4, <3>4 DEF Halted
        <3> QED
            BY <1>1, <3>4, <3>8, <3>9 DEF Known
    <2> QED
        BY <2>3, <2>4
<1> QED
    BY <1>1, <1>6, <1>7, <1>8, <1>9, <1>10, <1>11 DEF IInv, Good

-----------------------------------------------------------------------------
LEMMA NextKeeps == IInv /\ [Next]_vars => IInv'
<1> SUFFICES ASSUME IInv, [Next]_vars PROVE IInv'
    OBVIOUS
<1>1. CASE Step
    <2>1. \A lost, latched \in SUBSET Axes, accepts, late, rested \in BOOLEAN :
              Prepare(lost, latched, accepts, late, rested) => IInv'
        BY PrepareKeeps
    <2>2. \A lost, latched \in SUBSET Axes, high \in SUBSET MayDraw :
              \A held \in SUBSET high, accepts, due \in BOOLEAN :
                  Search(lost, latched, high, held, accepts, due) => IInv'
        BY SearchKeeps
    <2>3. \A lost, latched \in SUBSET Axes, accepts, due \in BOOLEAN, error \in Errors(cal) :
              ReturnMid(lost, latched, accepts, due, error) => IInv'
        BY ReturnKeeps
    <2>4. \A lost, latched \in SUBSET Axes, accepts \in BOOLEAN :
              VerifyZero(lost, latched, accepts) => IInv'
        BY VerifyKeeps
    <2> QED
        BY <1>1, <2>1, <2>2, <2>3, <2>4, WriteKeeps, FaultKeeps, AbortKeeps, DismissKeeps
           DEF Step, AllOrNone
<1>2. CASE Environment
    BY <1>2, TurnKeeps, LaneKeeps, DownloadKeeps, OperatorKeeps DEF Environment
<1>3. CASE UNCHANGED vars
    BY <1>3 DEF vars, IInv
<1> QED
    BY <1>1, <1>2, <1>3 DEF Next

(* What is known of the drives, the download and the lane in every phase.   *)
THEOREM Invariance == Spec => []IInv
<1>1. Init => IInv
    BY InitKeeps
<1>2. IInv /\ [Next]_vars => IInv'
    BY NextKeeps
<1> QED
    BY <1>1, <1>2, PTL DEF Spec

(* An accepted zero is the centre on every axis whose stops were its stops  *)
(* and that was within the tolerance when it counted as back:               *)
(* steer_zero_write_zero_step writes only where these rest in the middle,   *)
(* and a lost halt is seen before the calibration is called complete.       *)
THEOREM ZeroIsCentreHolds == Spec => []ZeroIsCentre
<1>1. IInv => ZeroIsCentre
    BY DEF IInv, Good, Zeroed, ZeroIsCentre
<1> QED
    BY <1>1, Invariance, PTL

(* Ordinary steering finds all axes in the same coordinates: the abort      *)
(* knows which axes were given the new zero, and gives every one of them    *)
(* the old centre back before the calibration is idle, but for the axes     *)
(* that were misled.                                                        *)
THEOREM AbortRestoresHolds == Spec => []AbortRestores
<1>1. IInv => AbortRestores
    <2> SUFFICES ASSUME IInv, cal.state = "idle", ~unseen PROVE OneCoordinateSystem
        BY DEF AbortRestores
    <2>1. New(cal, sdo) = {}
        BY DEF IInv, Good, Downloads, New
    <2> QED
        BY <2>1 DEF IInv, Good, Known, OneCoordinateSystem
<1> QED
    BY <1>1, Invariance, PTL
=============================================================================
