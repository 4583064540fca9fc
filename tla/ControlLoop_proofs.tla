------------------------- MODULE ControlLoop_proofs -------------------------
(***************************************************************************)
(* Proofs about ControlLoop for every value of the stale times: however the *)
(* tasks are preempted or stall, a bus task acts only on an operator and a  *)
(* safety task that were there a bounded time ago, and it gives up nothing  *)
(* fresh.  The argument follows the chain of timestamps: a live result is   *)
(* never younger than what it was made from, plus one stale time a hop.     *)
(***************************************************************************)
EXTENDS ControlLoop, TLAPS

Step == [running : BOOLEAN, lag : 0..BusLag, crossed : BOOLEAN]

(* How long ago the operator demanded motion and the safety task spoke, for *)
(* each result on its way through the tasks.                                *)
Chain ==
    /\ remote.live => quiet <= remote.lag
    /\ request.live => quiet <= request.age
    /\ vehicle.live => /\ quiet <= vehicle.lag + RequestStale
                       /\ safety.age <= vehicle.lag + SafetyStale
    /\ command.live => /\ quiet <= command.age + RequestStale
                       /\ safety.age <= command.age + SafetyStale
    /\ demand => quiet = 0
    /\ remote.live => remote.step # "idle"
    /\ vehicle.live => vehicle.step # "idle"
    /\ request.live => request.published
    /\ command.live => command.published
    /\ safety.age > 0 => safety.published

(* What CAN2's drives hold came from sources this old when CAN2 last judged *)
(* it; while it does not judge, the sources grow older with unjudged.       *)
Kept ==
    applied["can2"] =>
        /\ quiet <= RequestStale + CommandStale + BusLag + unjudged
        /\ safety.age <= SafetyStale + CommandStale + BusLag + unjudged

(* The inductive invariant.                                                 *)
IInv == TypeOK /\ Chain /\ Kept

-----------------------------------------------------------------------------
(* The constants are ordered as the stale times of the code are.            *)
LEMMA Constants ==
    /\ Wrap \in Nat /\ RequestStale \in Nat /\ SafetyStale \in Nat
    /\ CommandStale \in Nat /\ FutureSkew \in Nat /\ BusLag \in Nat
    /\ MaxStall \in Nat /\ 2 * MaxStall < Wrap /\ BusLag <= FutureSkew
    /\ MaxStall > RequestStale + CommandStale + BusLag
BY DurationsAssumption, StallAssumption, SkewAssumption

(* The remainder of a small number is the number itself.                    *)
LEMMA SmallMod ==
    ASSUME NEW n \in Nat, NEW w \in Nat, n < w
    PROVE  /\ n % w = n
           /\ n > 0 => (-n) % w = w - n
OBVIOUS

(* The wrapping comparison of two timestamps compares their ages.           *)
LEMMA FreshIsAge ==
    ASSUME NEW box, NEW lag \in 0..MaxStall, NEW stale \in Nat,
           box.age \in 0..MaxStall
    PROVE  Fresh(box, lag, stale) <=>
             IF box.age >= lag THEN box.age - lag <= stale
                               ELSE lag - box.age <= FutureSkew
<1> DEFINE ahead == box.age - lag
           behind == lag - box.age
<1>1. CASE box.age >= lag
    <2>1. ahead \in Nat /\ ahead < Wrap /\ 2 * ahead < Wrap
        BY <1>1, Constants
    <2>2. Fresh(box, lag, stale) <=>
            IF 2 * (ahead % Wrap) < Wrap THEN ahead % Wrap <= stale
            ELSE behind % Wrap <= FutureSkew
        BY DEF Fresh
    <2> HIDE DEF ahead, behind
    <2>3. ahead % Wrap = ahead
        BY <2>1, Constants, SmallMod
    <2>4. Fresh(box, lag, stale) <=> ahead <= stale
        BY <2>1, <2>2, <2>3
    <2> QED
        BY <1>1, <2>4 DEF ahead
<1>2. CASE box.age < lag
    <2>1. /\ behind \in Nat /\ behind > 0 /\ behind < Wrap /\ 2 * behind < Wrap
          /\ ahead = -behind
        BY <1>2, Constants
    <2>2. Fresh(box, lag, stale) <=>
            IF 2 * (ahead % Wrap) < Wrap THEN ahead % Wrap <= stale
            ELSE behind % Wrap <= FutureSkew
        BY DEF Fresh
    <2> HIDE DEF ahead, behind
    <2>3. behind % Wrap = behind
        BY <2>1, Constants, SmallMod
    <2>4. (-behind) % Wrap = Wrap - behind
        BY <2>1, Constants, SmallMod
    <2>5. ~(2 * (Wrap - behind) < Wrap)
        BY <2>1, Constants
    <2>6. Fresh(box, lag, stale) <=> behind <= FutureSkew
        BY <2>1, <2>2, <2>3, <2>4, <2>5
    <2>7. ~(box.age >= lag)
        BY <1>2
    <2> QED
        BY <2>6, <2>7 DEF behind
<1> QED
    BY <1>1, <1>2

(* A live mailbox or task at rest keeps its distance from the source while  *)
(* time passes.                                                             *)
LEMMA OlderBounds ==
    ASSUME NEW n \in 0..MaxStall
    PROVE  /\ Older(n) \in 0..MaxStall /\ n <= Older(n) /\ Older(n) <= n + 1
           /\ n < MaxStall => Older(n) = n + 1
BY Constants DEF Older

(* Two ages that grow together stay as far apart.                           *)
LEMMA OlderTogether ==
    ASSUME NEW m \in 0..MaxStall, NEW n \in 0..MaxStall, NEW d \in Nat,
           m <= n + d
    PROVE  Older(m) <= Older(n) + d
<1>1. CASE n < MaxStall
    BY <1>1, OlderBounds
<1>2. CASE n = MaxStall
    <2>1. Older(n) = MaxStall
        BY <1>2, Constants DEF Older
    <2>2. Older(m) \in 0..MaxStall
        BY OlderBounds
    <2> QED
        BY <2>1, <2>2, Constants
<1> QED
    BY <1>1, <1>2, Constants

(* The invariant holds at boot.                                             *)
LEMMA InitInvariant == Init => IInv
<1> SUFFICES ASSUME Init
             PROVE  IInv
    OBVIOUS
<1>1. TypeOK
    <2>1. Unpublished \in Mailbox /\ Waiting \in Task
        BY Constants DEF Unpublished, Waiting, Mailbox, Task
    <2>2. /\ 0 \in 0..BusLag /\ MaxStall \in 0..MaxStall
          /\ FALSE \in BOOLEAN
        BY Constants
    <2>3. demand \in BOOLEAN /\ quiet \in 0..MaxStall
        BY <2>2 DEF Init
    <2>4. /\ request \in Mailbox /\ safety \in Mailbox /\ command \in Mailbox
          /\ remote \in Task /\ vehicle \in Task
        BY <2>1 DEF Init
    <2>5. bus \in [Lanes -> Step]
        BY <2>2 DEF Init, Resting, Step
    <2>6. applied \in [Lanes -> BOOLEAN] /\ unjudged \in 0..MaxStall
        BY <2>2, Constants DEF Init
    <2> QED
        BY <2>3, <2>4, <2>5, <2>6 DEF TypeOK, Step
<1>2. Chain
    BY DEF Init, Chain, Unpublished, Waiting
<1>3. Kept
    BY DEF Init, Kept, Lanes
<1> QED
    BY <1>1, <1>2, <1>3 DEF IInv

(* The freshness check answers yes or no.                                   *)
LEMMA AcceptsType ==
    ASSUME NEW box, NEW lag, NEW stale
    PROVE  Accepts(box, lag, stale) \in BOOLEAN
BY DEF Accepts

(* No task leaves its type.                                                 *)
LEMMA TypeStep == TypeOK /\ [Next]_vars => TypeOK'
<1> SUFFICES ASSUME TypeOK, [Next]_vars
             PROVE  TypeOK'
    OBVIOUS
<1> USE Constants
<1>1. CASE Operator
    BY <1>1 DEF Operator, TypeOK
<1>2. CASE Tick
    <2>1. quiet' \in 0..MaxStall
        BY <1>2, OlderBounds DEF Tick, TypeOK
    <2>2. request' \in Mailbox /\ safety' \in Mailbox /\ command' \in Mailbox
        BY <1>2, OlderBounds DEF Tick, TypeOK, Mailbox, Aged
    <2>3. remote' \in Task /\ vehicle' \in Task
        BY <1>2, OlderBounds DEF Tick, TypeOK, Task, Delayed
    <2>4. bus' \in [Lanes -> Step]
        BY <1>2 DEF Tick, TypeOK, Step
    <2>5. unjudged' \in 0..MaxStall
        BY <1>2, OlderBounds DEF Tick, TypeOK
    <2> QED
        BY <1>2, <2>1, <2>2, <2>3, <2>4, <2>5 DEF Tick, TypeOK, Step
<1>3. CASE SafetyStep
    BY <1>3 DEF SafetyStep, TypeOK, Mailbox, Accepts, Fresh
<1>0. /\ 0 \in 0..MaxStall /\ 0 \in 0..BusLag
      /\ TRUE \in BOOLEAN /\ FALSE \in BOOLEAN
    BY Constants
<1>4. CASE RemoteStart \/ RemoteRead \/ RemotePublish
    <2>1. CASE RemoteStart
        <3>1. remote' \in Task
            BY <1>0, <2>1 DEF RemoteStart, Task
        <3> QED
            BY <2>1, <3>1 DEF RemoteStart, TypeOK
    <2>2. CASE RemoteRead
        <3> DEFINE live == demand /\ Accepts(safety, remote.lag, SafetyStale)
        <3>1. live \in BOOLEAN
            OBVIOUS
        <3>2. remote' = [remote EXCEPT !.step = "publish", !.live = live]
            BY <2>2 DEF RemoteRead
        <3> HIDE DEF live
        <3>3. remote' \in Task
            BY <3>1, <3>2 DEF TypeOK, Task
        <3> QED
            BY <2>2, <3>3 DEF RemoteRead, TypeOK
    <2>3. CASE RemotePublish
        <3>1. request' \in Mailbox
            BY <1>0, <2>3 DEF RemotePublish, Stamped, TypeOK, Task, Mailbox
        <3>2. remote' \in Task
            BY <1>0, <2>3 DEF RemotePublish, Waiting, Task
        <3> QED
            BY <2>3, <3>1, <3>2 DEF RemotePublish, TypeOK
    <2> QED
        BY <1>4, <2>1, <2>2, <2>3
<1>5. CASE VehicleStart \/ VehicleRead \/ VehicleOpen \/ VehiclePublish
    <2>1. CASE VehicleStart
        <3>1. vehicle' \in Task
            BY <1>0, <2>1 DEF VehicleStart, Task
        <3> QED
            BY <2>1, <3>1 DEF VehicleStart, TypeOK
    <2>2. CASE VehicleRead
        <3>1. CommandLive \in BOOLEAN
            BY DEF CommandLive
        <3>2. vehicle' \in Task
            BY <2>2, <3>1 DEF VehicleRead, TypeOK, Task
        <3> QED
            BY <2>2, <3>2 DEF VehicleRead, TypeOK
    <2>3. CASE VehiclePublish
        <3>1. command' \in Mailbox
            BY <1>0, <2>3 DEF VehiclePublish, Stamped, TypeOK, Task, Mailbox
        <3>2. vehicle' \in Task
            BY <1>0, <2>3 DEF VehiclePublish, Waiting, Task
        <3>3. bus' \in [Lanes -> Step]
            BY <2>3 DEF VehiclePublish, TypeOK, Lanes, Step
        <3> QED
            BY <2>3, <3>1, <3>2, <3>3 DEF VehiclePublish, TypeOK, Step
    <2>4. CASE VehicleOpen
        <3>1. vehicle' \in Task
            BY <2>4 DEF VehicleOpen, TypeOK, Task
        <3> QED
            BY <2>4, <3>1 DEF VehicleOpen, TypeOK
    <2> QED
        BY <1>5, <2>1, <2>2, <2>3, <2>4
<1>6. ASSUME NEW l \in Lanes, BusStart(l) \/ Applies(l)
      PROVE  TypeOK'
    <2>1. CASE BusStart(l)
        <3>1. [Resting EXCEPT !.running = TRUE] \in Step
            BY <1>0 DEF Resting, Step
        <3>2. bus' \in [Lanes -> Step]
            BY <2>1, <3>1 DEF BusStart, TypeOK, Step
        <3> QED
            BY <2>1, <3>2 DEF BusStart, TypeOK, Step
    <2>2. CASE Applies(l)
        <3> PICK missed \in BOOLEAN : BusApply(l, missed)
            BY <2>2 DEF Applies
        <3>1. Resting \in Step
            BY <1>0 DEF Resting, Step
        <3>2. bus' \in [Lanes -> Step]
            BY <3>1 DEF BusApply, TypeOK, Step
        <3> DEFINE live == IF Held(l) THEN applied[l]
                           ELSE /\ ~missed
                                /\ Accepts(command, bus[l].lag, CommandStale)
                                /\ command.live
        <3>3. live \in BOOLEAN
            BY DEF TypeOK
        <3>4. applied' = [applied EXCEPT ![l] = live]
            BY DEF BusApply
        <3> HIDE DEF live
        <3>5. applied' \in [Lanes -> BOOLEAN]
            BY <3>3, <3>4 DEF TypeOK
        <3>6. unjudged' \in 0..MaxStall
            BY <1>0 DEF BusApply, TypeOK
        <3> QED
            BY <3>2, <3>5, <3>6 DEF BusApply, TypeOK, Step
    <2> QED
        BY <1>6, <2>1, <2>2
<1>7. CASE UNCHANGED vars
    BY <1>7 DEF vars, TypeOK
<1> QED
    BY <1>1, <1>2, <1>3, <1>4, <1>5, <1>6, <1>7 DEF Next

(* No step of any task breaks the chain.                                    *)
LEMMA ChainStep == IInv /\ [Next]_vars => Chain'
<1> SUFFICES ASSUME IInv, [Next]_vars
             PROVE  Chain'
    OBVIOUS
<1> USE Constants
<1>0. /\ quiet \in 0..MaxStall /\ safety.age \in 0..MaxStall
      /\ request.age \in 0..MaxStall /\ command.age \in 0..MaxStall
      /\ remote.lag \in 0..MaxStall /\ vehicle.lag \in 0..MaxStall
    BY DEF IInv, TypeOK, Mailbox, Task
<1>1. CASE Operator
    BY <1>0, <1>1 DEF Operator, IInv, Chain
<1>2. CASE Tick
    <2>1. /\ quiet' <= Older(quiet) /\ quiet' \in Nat
          /\ demand => quiet' = 0
          /\ safety'.age = IF safety.published THEN Older(safety.age) ELSE safety.age
        BY <1>0, <1>2, OlderBounds DEF Tick, Aged, IInv, TypeOK, Mailbox
    <2>2. remote.live => quiet' <= remote'.lag
        <3>1. remote.live => remote'.lag = Older(remote.lag)
            BY <1>2 DEF Tick, Delayed, IInv, Chain, TypeOK, Task
        <3>2. remote.live => Older(quiet) <= Older(remote.lag) + 0
            BY <1>0, OlderTogether DEF IInv, Chain
        <3> QED
            BY <1>0, <2>1, <3>1, <3>2, OlderBounds
    <2>3. request.live => quiet' <= request'.age
        <3>1. request.live => request'.age = Older(request.age)
            BY <1>2 DEF Tick, Aged, IInv, Chain, TypeOK, Mailbox
        <3>2. request.live => Older(quiet) <= Older(request.age) + 0
            BY <1>0, OlderTogether DEF IInv, Chain
        <3> QED
            BY <1>0, <2>1, <3>1, <3>2, OlderBounds
    <2>4. vehicle.live => /\ quiet' <= vehicle'.lag + RequestStale
                          /\ safety'.age <= vehicle'.lag + SafetyStale
        <3> SUFFICES ASSUME vehicle.live
                     PROVE  /\ quiet' <= vehicle'.lag + RequestStale
                            /\ safety'.age <= vehicle'.lag + SafetyStale
            OBVIOUS
        <3>1. vehicle'.lag = Older(vehicle.lag)
            BY <1>2 DEF Tick, Delayed, IInv, Chain, TypeOK, Task
        <3>2. /\ Older(quiet) <= Older(vehicle.lag) + RequestStale
              /\ Older(safety.age) <= Older(vehicle.lag) + SafetyStale
            BY <1>0, OlderTogether DEF IInv, Chain
        <3>3. safety'.age <= Older(safety.age)
            BY <1>0, <2>1, OlderBounds
        <3> QED
            BY <1>0, <2>1, <3>1, <3>2, <3>3, OlderBounds
    <2>5. command.live => /\ quiet' <= command'.age + RequestStale
                          /\ safety'.age <= command'.age + SafetyStale
        <3> SUFFICES ASSUME command.live
                     PROVE  /\ quiet' <= command'.age + RequestStale
                            /\ safety'.age <= command'.age + SafetyStale
            OBVIOUS
        <3>1. command'.age = Older(command.age)
            BY <1>2 DEF Tick, Aged, IInv, Chain, TypeOK, Mailbox
        <3>2. /\ Older(quiet) <= Older(command.age) + RequestStale
              /\ Older(safety.age) <= Older(command.age) + SafetyStale
            BY <1>0, OlderTogether DEF IInv, Chain
        <3>3. safety'.age <= Older(safety.age)
            BY <1>0, <2>1, OlderBounds
        <3> QED
            BY <1>0, <2>1, <3>1, <3>2, <3>3, OlderBounds
    <2>6. /\ remote'.live = remote.live /\ remote'.step = remote.step
          /\ vehicle'.live = vehicle.live /\ vehicle'.step = vehicle.step
          /\ request'.live = request.live /\ request'.published = request.published
          /\ command'.live = command.live /\ command'.published = command.published
          /\ safety'.published = safety.published
          /\ safety'.age > 0 => safety'.published
          /\ demand' = demand
        BY <1>2 DEF Tick, Aged, Delayed, IInv, Chain, TypeOK, Task, Mailbox
    <2> QED
        BY <2>1, <2>2, <2>3, <2>4, <2>5, <2>6 DEF IInv, Chain
<1>3. CASE SafetyStep
    BY <1>0, <1>3 DEF SafetyStep, IInv, Chain
<1>4. CASE RemoteStart \/ RemoteRead \/ RemotePublish
    <2>1. CASE RemoteStart
        BY <1>0, <2>1 DEF RemoteStart, IInv, Chain
    <2>2. CASE RemoteRead
        <3>1. /\ remote'.live => demand
              /\ remote'.lag = remote.lag /\ remote'.step = "publish"
              /\ UNCHANGED <<demand, quiet, request, safety, command, vehicle>>
            BY <2>2 DEF RemoteRead, IInv, TypeOK, Task
        <3> QED
            BY <1>0, <3>1 DEF IInv, Chain
    <2>3. CASE RemotePublish
        BY <1>0, <2>3 DEF RemotePublish, IInv, Chain, Stamped, Waiting
    <2> QED
        BY <1>4, <2>1, <2>2, <2>3
<1>5. CASE VehicleStart \/ VehicleOpen \/ VehiclePublish
    BY <1>0, <1>5 DEF VehicleStart, VehicleOpen, VehiclePublish, IInv, Chain, TypeOK,
                      Task, Stamped, Waiting
<1>6. CASE VehicleRead
    <2>1. /\ vehicle'.live = CommandLive /\ vehicle'.lag = vehicle.lag
          /\ vehicle'.step = "publish"
          /\ UNCHANGED <<demand, quiet, request, safety, command, remote>>
        BY <1>6 DEF VehicleRead, IInv, TypeOK, Task
    <2>2. CommandLive => /\ request.live /\ request.age <= vehicle.lag + RequestStale
                         /\ safety.age <= vehicle.lag + SafetyStale
        <3> SUFFICES ASSUME CommandLive
                     PROVE  /\ request.age <= vehicle.lag + RequestStale
                            /\ safety.age <= vehicle.lag + SafetyStale
            BY DEF CommandLive
        <3>1. /\ Fresh(request, vehicle.lag, RequestStale)
              /\ Fresh(safety, vehicle.lag, SafetyStale)
            BY DEF CommandLive, Accepts
        <3>2. IF request.age >= vehicle.lag
              THEN request.age - vehicle.lag <= RequestStale
              ELSE vehicle.lag - request.age <= FutureSkew
            BY <1>0, <3>1, FreshIsAge
        <3>3. IF safety.age >= vehicle.lag
              THEN safety.age - vehicle.lag <= SafetyStale
              ELSE vehicle.lag - safety.age <= FutureSkew
            BY <1>0, <3>1, FreshIsAge
        <3> QED
            BY <1>0, <3>2, <3>3
    <2>3. CommandLive => quiet <= vehicle.lag + RequestStale
        BY <1>0, <2>2 DEF IInv, Chain
    <2> QED
        BY <2>1, <2>2, <2>3 DEF IInv, Chain
<1>7. ASSUME NEW l \in Lanes, BusStart(l) \/ Applies(l)
      PROVE  Chain'
    <2>1. UNCHANGED <<demand, quiet, request, safety, command, remote, vehicle>>
        <3>1. CASE BusStart(l)
            BY <3>1 DEF BusStart
        <3>2. CASE Applies(l)
            <4> PICK missed \in BOOLEAN : BusApply(l, missed)
                BY <3>2 DEF Applies
            <4> QED
                BY DEF BusApply
        <3> QED
            BY <1>7, <3>1, <3>2
    <2> QED
        BY <2>1 DEF IInv, Chain
<1>8. CASE UNCHANGED vars
    BY <1>8 DEF vars, IInv, Chain
<1> QED
    BY <1>1, <1>2, <1>3, <1>4, <1>5, <1>6, <1>7, <1>8 DEF Next

(* What a bus task accepts is at most a stale time and its own delay old.   *)
LEMMA AcceptedAge ==
    ASSUME TypeOK, NEW l \in Lanes, Applies(l), ~Held(l), applied'[l]
    PROVE  command.live /\ command.age <= CommandStale + BusLag
<1>1. /\ bus[l].lag \in 0..BusLag /\ command.age \in 0..MaxStall
      /\ bus[l].lag \in 0..MaxStall
    BY Constants DEF TypeOK, Mailbox
<1>2. Accepts(command, bus[l].lag, CommandStale) /\ command.live
    BY DEF Applies, BusApply, TypeOK
<1>3. Fresh(command, bus[l].lag, CommandStale)
    BY <1>2 DEF Accepts
<1>4. IF command.age >= bus[l].lag THEN command.age - bus[l].lag <= CommandStale
      ELSE bus[l].lag - command.age <= FutureSkew
    BY <1>1, <1>3, Constants, FreshIsAge
<1> QED
    BY <1>1, <1>2, <1>4, Constants

(* So its sources are at most another stale time older.                     *)
LEMMA AcceptedSources ==
    ASSUME TypeOK, Chain, NEW l \in Lanes, Applies(l), ~Held(l), applied'[l]
    PROVE  /\ quiet <= RequestStale + CommandStale + BusLag
           /\ safety.age <= SafetyStale + CommandStale + BusLag
<1>1. command.live /\ command.age <= CommandStale + BusLag
    BY AcceptedAge
<1>2. /\ quiet \in Nat /\ command.age \in Nat /\ safety.age \in Nat
      /\ quiet <= command.age + RequestStale
      /\ safety.age <= command.age + SafetyStale
    BY <1>1, Constants DEF Chain, TypeOK, Mailbox
<1> QED
    BY <1>1, <1>2, Constants

(* While CAN2 does not judge, its sources grow no older than unjudged says. *)
LEMMA KeptStep == IInv /\ [Next]_vars => Kept'
<1> SUFFICES ASSUME IInv, [Next]_vars, applied'["can2"]
             PROVE  /\ quiet' <= RequestStale + CommandStale + BusLag + unjudged'
                    /\ safety'.age <= SafetyStale + CommandStale + BusLag + unjudged'
    BY DEF Kept
<1> USE Constants
<1>0. /\ quiet \in 0..MaxStall /\ safety.age \in 0..MaxStall
      /\ unjudged \in 0..MaxStall
    BY DEF IInv, TypeOK, Mailbox
<1>1. CASE Operator \/ SafetyStep
    BY <1>0, <1>1 DEF Operator, SafetyStep, IInv, Kept
<1>2. CASE Tick
    <2>1. applied["can2"] /\ unjudged' = Older(unjudged)
        BY <1>2 DEF Tick
    <2>2. /\ Older(quiet) <= Older(unjudged) + (RequestStale + CommandStale + BusLag)
          /\ Older(safety.age) <= Older(unjudged) + (SafetyStale + CommandStale + BusLag)
        BY <1>0, <2>1, OlderTogether DEF IInv, Kept
    <2>3. quiet' <= Older(quiet) /\ quiet' \in Nat
        BY <1>0, <1>2, OlderBounds DEF Tick
    <2>4. safety'.age <= Older(safety.age) /\ safety'.age \in Nat
        BY <1>0, <1>2, OlderBounds DEF Tick, Aged, IInv, TypeOK, Mailbox
    <2>5. /\ Older(unjudged) \in Nat /\ Older(quiet) \in Nat
          /\ Older(safety.age) \in Nat
        BY <1>0, OlderBounds
    <2> QED
        BY <2>1, <2>2, <2>3, <2>4, <2>5
<1>3. CASE RemoteStart \/ RemoteRead \/ RemotePublish
    BY <1>3 DEF RemoteStart, RemoteRead, RemotePublish, IInv, Kept
<1>4. CASE VehicleStart \/ VehicleRead \/ VehicleOpen \/ VehiclePublish
    BY <1>4 DEF VehicleStart, VehicleRead, VehicleOpen, VehiclePublish, IInv, Kept
<1>5. ASSUME NEW l \in Lanes, BusStart(l)
      PROVE  Kept'
    BY <1>5 DEF BusStart, IInv, Kept
<1>6. ASSUME NEW l \in Lanes, Applies(l)
      PROVE  Kept'
    <2>0. UNCHANGED <<quiet, safety>>
        BY <1>6 DEF Applies, BusApply
    <2>1. CASE l = "can3" \/ Held(l)
        <3>1. UNCHANGED unjudged
            BY <1>6, <2>1 DEF Applies, BusApply, Lanes
        <3>2. applied'["can2"] = applied["can2"]
            BY <1>6, <2>1 DEF Applies, BusApply, Lanes, IInv, TypeOK
        <3> QED
            BY <2>0, <3>1, <3>2 DEF IInv, Kept
    <2>2. CASE l = "can2" /\ ~Held(l)
        <3>1. unjudged' = 0
            BY <1>6, <2>2 DEF Applies, BusApply
        <3>2. /\ quiet <= RequestStale + CommandStale + BusLag
              /\ safety.age <= SafetyStale + CommandStale + BusLag
            BY <1>6, <2>2, AcceptedSources DEF IInv
        <3> QED
            BY <2>0, <3>1, <3>2 DEF Kept
    <2> QED
        BY <2>1, <2>2 DEF Lanes
<1>7. CASE UNCHANGED vars
    BY <1>7 DEF vars, IInv, Kept
<1> QED
    BY <1>1, <1>2, <1>3, <1>4, <1>5, <1>6, <1>7 DEF Next, Kept

(* The inductive invariant.                                                 *)
THEOREM Invariance == Spec => []IInv
<1>1. IInv /\ [Next]_vars => IInv'
    BY TypeStep, ChainStep, KeptStep DEF IInv
<1> QED
    BY InitInvariant, <1>1, PTL DEF Spec

(* Every timestamp, flag and step of the tasks keeps its type.              *)
THEOREM TypeCorrect == Spec => []TypeOK
BY InitInvariant, TypeStep, PTL DEF Spec, IInv

(* A lane that did not judge leaves what was there.                         *)
LEMMA HeldKeeps ==
    ASSUME TypeOK, NEW l \in Lanes, Applies(l), Held(l)
    PROVE  applied'[l] = applied[l]
BY DEF Applies, BusApply, TypeOK

(* The drives obey an operator who let go for two stale times and a delay   *)
(* of the bus task at most (the freshness checks of ecu_tasks_cpu0.c and    *)
(* vehicle_command_executor.c together), or for as long again as CAN2 has   *)
(* found its mailbox in the middle of a copy and has judged nothing.        *)
THEOREM BoundedAuthorityHolds == Spec => BoundedAuthority
<1>1. IInv /\ [Next]_vars =>
        [\A l \in Lanes : Applies(l) /\ applied'[l] =>
            quiet <= RequestStale + CommandStale + BusLag + Unjudged(l)]_vars
    <2> SUFFICES ASSUME IInv, NEW l \in Lanes, Applies(l), applied'[l]
                 PROVE  quiet <= RequestStale + CommandStale + BusLag + Unjudged(l)
        OBVIOUS
    <2>1. CASE Held(l)
        <3>1. l = "can2" /\ applied["can2"]
            BY <2>1, HeldKeeps DEF Held, IInv
        <3> QED
            BY <2>1, <3>1 DEF IInv, Kept, Unjudged
    <2>2. CASE ~Held(l)
        <3>1. quiet <= RequestStale + CommandStale + BusLag
            BY <2>2, AcceptedSources DEF IInv
        <3>2. Unjudged(l) = 0
            BY <2>2 DEF Unjudged
        <3> QED
            BY <3>1, <3>2, Constants
    <2> QED
        BY <2>1, <2>2
<1> QED
    BY <1>1, Invariance, PTL DEF Spec, BoundedAuthority

(* And a safety task that has died for no longer than that.                 *)
THEOREM NoDriveWithoutSafetyHolds == Spec => NoDriveWithoutSafety
<1>1. IInv /\ [Next]_vars =>
        [\A l \in Lanes : Applies(l) /\ applied'[l] =>
            safety.age <= SafetyStale + CommandStale + BusLag + Unjudged(l)]_vars
    <2> SUFFICES ASSUME IInv, NEW l \in Lanes, Applies(l), applied'[l]
                 PROVE  safety.age <= SafetyStale + CommandStale + BusLag + Unjudged(l)
        OBVIOUS
    <2>1. CASE Held(l)
        <3>1. l = "can2" /\ applied["can2"]
            BY <2>1, HeldKeeps DEF Held, IInv
        <3> QED
            BY <2>1, <3>1 DEF IInv, Kept, Unjudged
    <2>2. CASE ~Held(l)
        <3>1. safety.age <= SafetyStale + CommandStale + BusLag
            BY <2>2, AcceptedSources DEF IInv
        <3>2. Unjudged(l) = 0
            BY <2>2 DEF Unjudged
        <3> QED
            BY <3>1, <3>2, Constants
    <2> QED
        BY <2>1, <2>2
<1> QED
    BY <1>1, Invariance, PTL DEF Spec, NoDriveWithoutSafety

(* A command younger than the stale time, read whole, is carried out, also  *)
(* when it was stamped while the bus task was waiting                       *)
(* (command_snapshot_timestamp_is_fresh).                                   *)
THEOREM FreshIsKeptHolds == Spec => FreshIsKept
<1>1. TypeOK /\ [Next]_vars =>
        [\A l \in Lanes :
            /\ BusApply(l, FALSE) /\ ~Held(l)
            /\ command.published /\ command.age <= CommandStale
            => applied'[l] = command.live]_vars
    <2> SUFFICES ASSUME TypeOK, NEW l \in Lanes, BusApply(l, FALSE), ~Held(l),
                        command.published, command.age <= CommandStale
                 PROVE  applied'[l] = command.live
        OBVIOUS
    <2>1. /\ bus[l].lag \in 0..BusLag /\ command.age \in 0..MaxStall
          /\ bus[l].lag \in 0..MaxStall /\ command.live \in BOOLEAN
        BY Constants DEF TypeOK, Mailbox
    <2>2. Accepts(command, bus[l].lag, CommandStale)
        BY <2>1, Constants, FreshIsAge DEF Accepts
    <2>3. applied'[l] = (Accepts(command, bus[l].lag, CommandStale) /\ command.live)
        BY DEF BusApply, TypeOK
    <2> QED
        BY <2>1, <2>2, <2>3
<1> QED
    BY <1>1, TypeCorrect, PTL DEF Spec, FreshIsKept
=============================================================================
