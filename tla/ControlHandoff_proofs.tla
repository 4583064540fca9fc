----------------------- MODULE ControlHandoff_proofs -----------------------
(***************************************************************************)
(* Proofs about ControlHandoff for any number of words, requests and        *)
(* commands: no torn copy is ever used, CAN3 gives up a copy only for a     *)
(* newer command, and the tasks together implement ControlPipeline.         *)
(***************************************************************************)
EXTENDS ControlHandoff, TLAPS

(* The slot readers use holds the newest request, and the words the remote  *)
(* task has copied into the other one are those of the next request.        *)
SlotsInv ==
    /\ \A w \in Words : reqSlot[Slot(reqSeq)][w] = reqSeq
    /\ remote.copying => \A w \in Words \ remote.left :
                            reqSlot[Slot(reqSeq + 1)][w] = reqSeq + 1

(* What has been read is one request, not newer than the newest.            *)
ReadInv ==
    /\ Whole(seen) /\ Whole(inHand)
    /\ \A w \in Words : inHand[w] <= reqSeq

(* A sequence number is odd exactly while the vehicle task copies there.    *)
LockInv ==
    \A l \in Lanes : Writing(seq[l]) <=> vehicle.step = "copy" /\ vehicle.lane = l

(* A command not yet published in lane l is newer than what is there.       *)
Pending(l) ==
    \/ vehicle.step = "open" /\ vehicle.lane = l
    \/ vehicle.step # "idle" /\ vehicle.lane = "can2" /\ l = "can3"

BoxInv ==
    /\ vehicle.step # "idle" => commands >= 1
    /\ vehicle.step = "copy" => \A w \in Words \ vehicle.left :
          box[vehicle.lane][w] = [cmd |-> commands, from |-> inHand[w]]
    /\ \A l \in Lanes :
          /\ ~Writing(seq[l]) => Whole(box[l])
          /\ \A w \in Words : box[l][w].cmd <= commands /\ box[l][w].from <= inHand[w]
          /\ Pending(l) => \A w \in Words : box[l][w].cmd < commands
          /\ seq[l] > 0 /\ ~Writing(seq[l]) => \A w \in Words : box[l][w].cmd >= 1

(* As long as the sequence number stands still, the words CAN3 has copied   *)
(* are those of the mailbox.                                                *)
CopyInv ==
    can3.step = "copy" =>
        /\ can3.before > 0 /\ ~Writing(can3.before) /\ can3.before <= seq["can3"]
        /\ can3.before = seq["can3"] =>
              \A w \in Words \ can3.left : can3.copy[w] = box["can3"][w]

AppliedInv ==
    /\ \A l \in Lanes : Whole(applied[l])
    /\ seq["can3"] = 0 => applied["can3"] = [w \in Words |-> None]

(* The inductive invariant.                                                 *)
IInv == TypeOK /\ SlotsInv /\ ReadInv /\ LockInv /\ BoxInv /\ CopyInv /\ AppliedInv

-----------------------------------------------------------------------------
(* Consecutive numbers use different slots and have different parities.     *)
LEMMA Parity ==
    ASSUME NEW n \in Nat
    PROVE  /\ Slot(n) \in 0..1 /\ Slot(n + 1) \in 0..1 /\ Slot(n + 1) # Slot(n)
           /\ Writing(n + 1) <=> ~Writing(n)
BY DEF Slot, Writing

(* AnyWord is a word.                                                      *)
LEMMA SomeWord == AnyWord \in Words
BY WordsAssumption DEF AnyWord

(* A reader gets every word of the newest request.                          *)
LEMMA ReadIsNewest ==
    ASSUME TypeOK, SlotsInv
    PROVE  /\ ReadRequest \in [Words -> Nat]
           /\ \A w \in Words : ReadRequest[w] = reqSeq
<1>1. Slot(reqSeq) \in 0..1
    BY Parity DEF TypeOK
<1> QED
    BY <1>1 DEF ReadRequest, TypeOK, SlotsInv

(* The invariant holds at boot.                                             *)
LEMMA InitInvariant == Init => IInv
<1> SUFFICES ASSUME Init
             PROVE  IInv
    OBVIOUS
<1>1. TypeOK
    BY DEF Init, TypeOK, Idle, Lanes, Value, None
<1>2. SlotsInv
    BY DEF Init, SlotsInv, Slot
<1>3. ReadInv /\ LockInv /\ CopyInv
    BY DEF Init, ReadInv, LockInv, CopyInv, Idle, Whole, Writing
<1>4. BoxInv /\ AppliedInv
    BY DEF Init, BoxInv, AppliedInv, Idle, Whole, None, Pending, Lanes
<1> QED
    BY <1>1, <1>2, <1>3, <1>4 DEF IInv

(* The safe default is a command like any other.                            *)
LEMMA SafeType ==
    ASSUME TypeOK, Can3Safe
    PROVE  applied' \in [Lanes -> [Words -> Value]]
BY DEF TypeOK, Can3Safe, None, Value

(* The safe default is no mixture.                                          *)
LEMMA SafeApplied ==
    ASSUME TypeOK, AppliedInv, Can3Safe
    PROVE  /\ \A l \in Lanes : Whole(applied'[l])
           /\ applied'["can3"] = [w \in Words |-> None]
<1>1. ASSUME NEW l \in Lanes
      PROVE  applied'[l] = IF l = "can3" THEN [w \in Words |-> None] ELSE applied[l]
    BY DEF TypeOK, Can3Safe
<1>2. Whole([w \in Words |-> None])
    BY DEF Whole
<1> QED
    BY <1>1, <1>2 DEF AppliedInv, Lanes

(* Starting a request keeps the invariant.                                  *)
LEMMA RemoteBeginKeeps == IInv /\ RemoteBegin => IInv'
<1> SUFFICES ASSUME IInv, RemoteBegin
             PROVE  IInv'
    OBVIOUS
<1>1. ReadInv' /\ LockInv' /\ BoxInv' /\ CopyInv' /\ AppliedInv'
    BY DEF IInv, RemoteBegin, remoteVars, vehicleVars, boxVars, ReadInv,
       LockInv, BoxInv, CopyInv, AppliedInv, Pending, Whole
<1>2. TypeOK'
    BY DEF IInv, RemoteBegin, remoteVars, vehicleVars, boxVars, TypeOK, Value,
       Lanes
<1>3. SlotsInv'
    BY DEF IInv, RemoteBegin, remoteVars, vehicleVars, boxVars, SlotsInv, TypeOK
<1> QED
    BY <1>1, <1>2, <1>3 DEF IInv

(* Copying a word of a request keeps the invariant.                         *)
LEMMA RemoteCopyKeeps == IInv /\ (\E w \in Words : RemoteCopy(w)) => IInv'
<1> SUFFICES ASSUME IInv, NEW w \in Words, RemoteCopy(w)
             PROVE  IInv'
    OBVIOUS
<1>1. ReadInv' /\ LockInv' /\ BoxInv' /\ CopyInv' /\ AppliedInv'
    BY DEF IInv, RemoteCopy, remoteVars, vehicleVars, boxVars, ReadInv,
       LockInv, BoxInv, CopyInv, AppliedInv, Pending, Whole
<1>2. TypeOK'
    <2>1. Slot(reqSeq + 1) \in 0..1 /\ reqSeq + 1 \in Nat
        BY Parity DEF IInv, TypeOK
    <2>2. reqSlot' \in [0..1 -> [Words -> Nat]]
        BY <2>1 DEF IInv, TypeOK, RemoteCopy
    <2>3. remote' \in [copying : BOOLEAN, left : SUBSET Words]
        BY DEF IInv, TypeOK, RemoteCopy
    <2> QED
        BY <2>2, <2>3 DEF IInv, TypeOK, RemoteCopy, vehicleVars, boxVars
<1>3. SlotsInv'
    <2>1. /\ Slot(reqSeq) \in 0..1 /\ Slot(reqSeq + 1) \in 0..1
          /\ Slot(reqSeq + 1) # Slot(reqSeq)
        BY Parity DEF IInv, TypeOK
    <2>2. /\ reqSlot \in [0..1 -> [Words -> Nat]] /\ reqSeq' = reqSeq
          /\ reqSlot' = [reqSlot EXCEPT ![Slot(reqSeq + 1)][w] = reqSeq + 1]
          /\ remote.copying /\ remote'.left = remote.left \ {w}
        BY DEF IInv, TypeOK, RemoteCopy
    <2>3. ASSUME NEW v \in Words
          PROVE  /\ reqSlot'[Slot(reqSeq)][v] = reqSlot[Slot(reqSeq)][v]
                 /\ reqSlot'[Slot(reqSeq + 1)][v] =
                      IF v = w THEN reqSeq + 1 ELSE reqSlot[Slot(reqSeq + 1)][v]
        BY <2>1, <2>2
    <2> QED
        BY <2>2, <2>3 DEF IInv, SlotsInv
<1> QED
    BY <1>1, <1>2, <1>3 DEF IInv

(* Publishing a request keeps the invariant.                                *)
LEMMA RemoteEndKeeps == IInv /\ RemoteEnd => IInv'
<1> SUFFICES ASSUME IInv, RemoteEnd
             PROVE  IInv'
    OBVIOUS
<1>1. LockInv' /\ BoxInv' /\ CopyInv' /\ AppliedInv'
    BY DEF IInv, RemoteEnd, remoteVars, vehicleVars, boxVars, LockInv, BoxInv,
       CopyInv, AppliedInv, Pending, Whole
<1>2. TypeOK'
    <2>1. reqSeq' \in Nat
        BY DEF IInv, TypeOK, RemoteEnd
    <2>2. remote' \in [copying : BOOLEAN, left : SUBSET Words]
        BY DEF IInv, TypeOK, RemoteEnd
    <2> QED
        BY <2>1, <2>2 DEF IInv, TypeOK, RemoteEnd, vehicleVars, boxVars
<1>3. SlotsInv'
    BY DEF IInv, RemoteEnd, remoteVars, vehicleVars, boxVars, SlotsInv, TypeOK
<1>4. ReadInv'
    BY DEF IInv, RemoteEnd, remoteVars, vehicleVars, boxVars, ReadInv, TypeOK,
       Whole
<1> QED
    BY <1>1, <1>2, <1>3, <1>4 DEF IInv

(* The safety task's read keeps the invariant.                              *)
LEMMA SafetyReadKeeps == IInv /\ SafetyRead => IInv'
<1> SUFFICES ASSUME IInv, SafetyRead
             PROVE  IInv'
    OBVIOUS
<1>1. SlotsInv' /\ LockInv' /\ BoxInv' /\ CopyInv' /\ AppliedInv'
    BY DEF IInv, SafetyRead, remoteVars, vehicleVars, boxVars, SlotsInv,
       LockInv, BoxInv, CopyInv, AppliedInv, Pending, Whole
<1>2. TypeOK'
    BY ReadIsNewest DEF IInv, TypeOK, SafetyRead, remoteVars, vehicleVars,
       boxVars
<1>3. ReadInv'
    BY ReadIsNewest DEF IInv, SafetyRead, remoteVars, vehicleVars, ReadInv,
       Whole
<1> QED
    BY <1>1, <1>2, <1>3 DEF IInv

(* The vehicle task's read keeps the invariant.                             *)
LEMMA VehicleReadKeeps == IInv /\ VehicleRead => IInv'
<1> SUFFICES ASSUME IInv, VehicleRead
             PROVE  IInv'
    OBVIOUS
<1>1. SlotsInv' /\ CopyInv' /\ AppliedInv'
    BY DEF IInv, VehicleRead, remoteVars, vehicleVars, boxVars, SlotsInv,
       CopyInv, AppliedInv, Whole
<1>2. TypeOK'
    <2>1. inHand' \in [Words -> Nat] /\ commands' \in Nat
        BY ReadIsNewest DEF IInv, TypeOK, VehicleRead
    <2>2. vehicle' \in [step : {"idle", "open", "copy"}, lane : Lanes,
                        left : SUBSET Words]
        BY DEF VehicleRead, Lanes
    <2> QED
        BY <2>1, <2>2 DEF IInv, TypeOK, VehicleRead, remoteVars, boxVars
<1>3. ReadInv'
    <2>1. \A v \in Words : inHand'[v] = reqSeq
        BY ReadIsNewest DEF IInv, VehicleRead
    <2>2. reqSeq' = reqSeq /\ seen' = seen /\ reqSeq \in Nat
        BY DEF IInv, TypeOK, VehicleRead, remoteVars
    <2> QED
        BY <2>1, <2>2 DEF IInv, ReadInv, Whole
<1>4. LockInv'
    BY DEF IInv, VehicleRead, remoteVars, vehicleVars, boxVars, LockInv, TypeOK
<1>5. BoxInv'
    <2>1. /\ \A v \in Words : inHand'[v] = reqSeq
          /\ commands' = commands + 1 /\ commands \in Nat
          /\ vehicle'.step = "open" /\ vehicle'.lane = "can2"
          /\ box' = box /\ seq' = seq
        BY ReadIsNewest DEF IInv, TypeOK, VehicleRead, boxVars
    <2>2. ASSUME NEW l \in Lanes, NEW w \in Words
          PROVE  /\ box[l][w].cmd < commands + 1 /\ box[l][w].cmd <= commands + 1
                 /\ box[l][w].from <= reqSeq
        <3>1. box[l][w].cmd <= commands /\ box[l][w].from <= inHand[w] /\ inHand[w] <= reqSeq
            BY DEF IInv, BoxInv, ReadInv
        <3>2. /\ box[l][w] \in Value /\ inHand[w] \in Nat /\ reqSeq \in Nat
            BY DEF IInv, TypeOK
        <3>3. box[l][w].cmd \in Nat /\ box[l][w].from \in Nat
            BY <3>2 DEF Value
        <3> QED
            BY <2>1, <3>1, <3>2, <3>3
    <2>3. commands + 1 >= 1
        BY <2>1
    <2>4. \A l \in Lanes :
             /\ ~Writing(seq[l]) => Whole(box[l])
             /\ seq[l] > 0 /\ ~Writing(seq[l]) => \A w \in Words : box[l][w].cmd >= 1
        BY DEF IInv, BoxInv
    <2> QED
        BY <2>1, <2>2, <2>3, <2>4 DEF BoxInv, Whole
<1> QED
    BY <1>1, <1>2, <1>3, <1>4, <1>5 DEF IInv

(* Opening a sequence lock keeps the invariant.                             *)
LEMMA OpenMailboxKeeps == IInv /\ OpenMailbox => IInv'
<1> SUFFICES ASSUME IInv, OpenMailbox
             PROVE  IInv'
    OBVIOUS
<1>1. SlotsInv' /\ ReadInv'
    BY DEF IInv, OpenMailbox, remoteVars, vehicleVars, boxVars, SlotsInv,
       ReadInv, Whole
<1>2. TypeOK'
    <2>1. vehicle.lane \in Lanes /\ seq \in [Lanes -> Nat]
        BY DEF IInv, TypeOK
    <2>2. seq' \in [Lanes -> Nat]
        BY <2>1 DEF OpenMailbox
    <2>3. vehicle' \in [step : {"idle", "open", "copy"}, lane : Lanes,
                        left : SUBSET Words]
        BY DEF IInv, TypeOK, OpenMailbox, Lanes, Idle
    <2> QED
        BY <2>2, <2>3 DEF IInv, TypeOK, OpenMailbox, remoteVars
<1>3. LockInv'
    <2>1. /\ vehicle.lane \in Lanes /\ seq \in [Lanes -> Nat] /\ vehicle.step = "open"
          /\ seq' = [seq EXCEPT ![vehicle.lane] = @ + 1]
          /\ vehicle'.step = "copy" /\ vehicle'.lane = vehicle.lane
        BY DEF IInv, TypeOK, OpenMailbox
    <2>2. \A l \in Lanes : ~Writing(seq[l])
        BY <2>1 DEF IInv, LockInv
    <2>3. Writing(seq[vehicle.lane] + 1)
        BY <2>1, <2>2, Parity
    <2> QED
        BY <2>1, <2>2, <2>3 DEF LockInv
<1>4. BoxInv'
    <2>1. /\ vehicle.lane \in Lanes /\ seq \in [Lanes -> Nat] /\ vehicle.step = "open"
          /\ seq' = [seq EXCEPT ![vehicle.lane] = @ + 1]
          /\ vehicle'.step = "copy" /\ vehicle'.lane = vehicle.lane
          /\ vehicle'.left = Words
          /\ inHand' = inHand /\ commands' = commands /\ box' = box
        BY DEF IInv, TypeOK, OpenMailbox
    <2>2. \A l \in Lanes : Writing(seq'[l]) <=> l = vehicle.lane
        BY <2>1, <1>3 DEF LockInv
    <2>3. ASSUME NEW l \in Lanes
          PROVE  /\ ~Writing(seq'[l]) => l # vehicle.lane /\ seq'[l] = seq[l]
                 /\ Pending(l)' => Pending(l)
                 /\ ~Writing(seq[l])
        BY <2>1, <2>2 DEF Pending, IInv, LockInv
    <2> QED
        BY <2>1, <2>3 DEF IInv, BoxInv, Whole
<1>5. CopyInv'
    BY DEF IInv, OpenMailbox, remoteVars, vehicleVars, boxVars, CopyInv, TypeOK
<1>6. AppliedInv'
    BY DEF IInv, OpenMailbox, remoteVars, vehicleVars, boxVars, AppliedInv,
       TypeOK, Whole
<1> QED
    BY <1>1, <1>2, <1>3, <1>4, <1>5, <1>6 DEF IInv

(* Copying a word of a command keeps the invariant.                         *)
LEMMA CopyWordKeeps == IInv /\ (\E w \in Words : CopyWord(w)) => IInv'
<1> SUFFICES ASSUME IInv, NEW w \in Words, CopyWord(w)
             PROVE  IInv'
    OBVIOUS
<1>1. SlotsInv' /\ ReadInv' /\ AppliedInv'
    BY DEF IInv, CopyWord, remoteVars, vehicleVars, boxVars, SlotsInv,
       ReadInv, AppliedInv, Whole
<1>2. TypeOK'
    BY DEF IInv, CopyWord, remoteVars, vehicleVars, boxVars, TypeOK, Value,
       Lanes
<1>3. LockInv'
    BY DEF IInv, CopyWord, remoteVars, vehicleVars, boxVars, LockInv, TypeOK
<1>4. BoxInv'
    <2> DEFINE k == vehicle.lane
               new == [cmd |-> commands, from |-> inHand[w]]
    <2>1. /\ k \in Lanes /\ box \in [Lanes -> [Words -> Value]]
          /\ box' = [box EXCEPT ![k][w] = new]
          /\ vehicle.step = "copy" /\ vehicle'.step = "copy" /\ vehicle'.lane = k
          /\ vehicle'.left = vehicle.left \ {w}
          /\ inHand' = inHand /\ commands' = commands /\ seq' = seq
          /\ commands \in Nat /\ inHand \in [Words -> Nat]
        BY DEF IInv, TypeOK, CopyWord
    <2> HIDE DEF k
    <2>2. ASSUME NEW l \in Lanes, NEW v \in Words
          PROVE  box'[l][v] = IF l = k /\ v = w THEN new ELSE box[l][v]
        BY <2>1
    <2>3. \A l \in Lanes : Writing(seq[l]) <=> l = k
        BY <2>1 DEF IInv, LockInv, k
    <2>4. commands >= 1
        BY <2>1 DEF IInv, BoxInv
    <2>5. \A v \in Words \ vehicle'.left : box'[k][v] = [cmd |-> commands, from |-> inHand[v]]
        BY <2>1, <2>2 DEF IInv, BoxInv, k
    <2>6. ASSUME NEW l \in Lanes
          PROVE  /\ ~Writing(seq'[l]) => Whole(box'[l])
                 /\ \A v \in Words : box'[l][v].cmd <= commands /\ box'[l][v].from <= inHand[v]
                 /\ Pending(l)' => \A v \in Words : box'[l][v].cmd < commands
                 /\ seq'[l] > 0 /\ ~Writing(seq'[l]) => \A v \in Words : box'[l][v].cmd >= 1
        <3>1. CASE l = k
            <4>1. ~Pending(l)'
                BY <2>1, <3>1 DEF Pending
            <4>2. \A v \in Words : box[l][v].cmd <= commands /\ box[l][v].from <= inHand[v]
                BY DEF IInv, BoxInv
            <4>3. \A v \in Words : box'[l][v].cmd <= commands /\ box'[l][v].from <= inHand[v]
                BY <2>1, <2>2, <4>2
            <4> QED
                BY <2>1, <2>3, <3>1, <4>1, <4>3
        <3>2. CASE l # k
            <4>1. \A v \in Words : box'[l][v] = box[l][v]
                BY <2>2, <3>2
            <4>2. Pending(l)' => Pending(l)
                BY <2>1, <3>2 DEF Pending, k
            <4> QED
                BY <2>1, <4>1, <4>2 DEF IInv, BoxInv, Whole
        <3> QED
            BY <3>1, <3>2
    <2> QED
        BY <2>1, <2>4, <2>5, <2>6 DEF BoxInv
<1>5. CopyInv'
    <2>1. CASE can3.step # "copy"
        BY <2>1 DEF CopyWord, CopyInv
    <2>2. CASE can3.step = "copy"
        <3>1. can3' = can3 /\ seq' = seq
            BY DEF CopyWord
        <3>2. CASE vehicle.lane = "can3"
            <4>1. can3.before # seq["can3"]
                BY <2>2, <3>2 DEF IInv, CopyInv, LockInv, CopyWord, Lanes
            <4> QED
                BY <3>1, <4>1 DEF IInv, CopyInv
        <3>3. CASE vehicle.lane # "can3"
            <4>1. box'["can3"] = box["can3"]
                BY <3>3 DEF IInv, TypeOK, CopyWord, Lanes
            <4> QED
                BY <3>1, <4>1 DEF IInv, CopyInv
        <3> QED
            BY <3>2, <3>3
    <2> QED
        BY <2>1, <2>2
<1> QED
    BY <1>1, <1>2, <1>3, <1>4, <1>5 DEF IInv

(* Closing a sequence lock keeps the invariant.                             *)
LEMMA CloseMailboxKeeps == IInv /\ CloseMailbox => IInv'
<1> SUFFICES ASSUME IInv, CloseMailbox
             PROVE  IInv'
    OBVIOUS
<1>1. SlotsInv' /\ ReadInv'
    BY DEF IInv, CloseMailbox, remoteVars, vehicleVars, boxVars, SlotsInv,
       ReadInv, Whole
<1>2. TypeOK'
    <2>1. vehicle.lane \in Lanes /\ seq \in [Lanes -> Nat]
        BY DEF IInv, TypeOK
    <2>2. seq' \in [Lanes -> Nat]
        BY <2>1 DEF CloseMailbox
    <2>3. vehicle' \in [step : {"idle", "open", "copy"}, lane : Lanes,
                        left : SUBSET Words]
        BY DEF IInv, TypeOK, CloseMailbox, Lanes, Idle
    <2> QED
        BY <2>2, <2>3 DEF IInv, TypeOK, CloseMailbox, remoteVars
<1>3. LockInv'
    <2>1. /\ vehicle.lane \in Lanes /\ seq \in [Lanes -> Nat] /\ vehicle.step = "copy"
          /\ seq' = [seq EXCEPT ![vehicle.lane] = @ + 1]
          /\ vehicle'.step # "copy"
        BY DEF IInv, TypeOK, CloseMailbox, Idle
    <2>2. \A l \in Lanes : Writing(seq[l]) <=> l = vehicle.lane
        BY <2>1 DEF IInv, LockInv
    <2>3. ~Writing(seq[vehicle.lane] + 1)
        BY <2>1, <2>2, Parity
    <2> QED
        BY <2>1, <2>2, <2>3 DEF LockInv
<1>4. BoxInv'
    <2> DEFINE k == vehicle.lane
    <2>1. /\ k \in Lanes /\ seq \in [Lanes -> Nat] /\ vehicle.step = "copy"
          /\ vehicle.left = {} /\ seq' = [seq EXCEPT ![k] = @ + 1]
          /\ vehicle'.step # "copy"
          /\ vehicle'.step = "open" => k = "can2" /\ vehicle'.lane = "can3"
          /\ vehicle'.step \in {"open", "idle"}
          /\ inHand' = inHand /\ commands' = commands /\ box' = box
        BY DEF IInv, TypeOK, CloseMailbox, Idle
    <2>2. \A w \in Words : box[k][w] = [cmd |-> commands, from |-> inHand[w]]
        BY <2>1 DEF IInv, BoxInv
    <2>3. Whole(box[k]) /\ commands >= 1 /\ \A w \in Words : box[k][w].cmd >= 1
        <3>1. \A v, w \in Words : inHand[v] = inHand[w]
            BY DEF IInv, ReadInv, Whole
        <3>2. commands >= 1
            BY <2>1 DEF IInv, BoxInv
        <3> HIDE DEF k
        <3>3. ASSUME NEW v \in Words, NEW w \in Words
              PROVE  box[k][v] = box[k][w]
            <4>1. inHand[v] = inHand[w]
                BY <3>1
            <4> QED
                BY <2>2, <4>1
        <3>4. ASSUME NEW w \in Words
              PROVE  box[k][w].cmd = commands
            <4>1. box[k][w] = [cmd |-> commands, from |-> inHand[w]]
                BY <2>2
            <4> QED
                BY <4>1
        <3> QED
            BY <3>2, <3>3, <3>4 DEF Whole
    <2>4. ASSUME NEW l \in Lanes
          PROVE  /\ Pending(l)' => Pending(l)
                 /\ l # k => seq'[l] = seq[l] /\ ~Writing(seq[l])
        BY <2>1 DEF Pending, IInv, LockInv
    <2> HIDE DEF k
    <2>5. ASSUME NEW l \in Lanes
          PROVE  /\ Whole(box[l])
                 /\ \A w \in Words : box[l][w].cmd <= commands /\ box[l][w].from <= inHand[w]
                 /\ Pending(l)' => \A w \in Words : box[l][w].cmd < commands
                 /\ seq'[l] > 0 => \A w \in Words : box[l][w].cmd >= 1
        <3>1. CASE l = k
            BY <2>3, <2>4, <3>1 DEF IInv, BoxInv
        <3>2. CASE l # k
            BY <2>1, <2>4, <3>2 DEF IInv, BoxInv
        <3> QED
            BY <3>1, <3>2
    <2> QED
        BY <2>1, <2>3, <2>5 DEF BoxInv
<1>5. CopyInv'
    BY DEF IInv, CloseMailbox, remoteVars, vehicleVars, boxVars, CopyInv, TypeOK
<1>6. AppliedInv'
    BY DEF IInv, CloseMailbox, remoteVars, vehicleVars, boxVars, AppliedInv,
       TypeOK, Whole
<1> QED
    BY <1>1, <1>2, <1>3, <1>4, <1>5, <1>6 DEF IInv

(* What CAN2 applies keeps the invariant.                                   *)
LEMMA Can2ApplyKeeps == IInv /\ Can2Apply => IInv'
<1> SUFFICES ASSUME IInv, Can2Apply
             PROVE  IInv'
    OBVIOUS
<1>1. SlotsInv' /\ ReadInv' /\ LockInv' /\ BoxInv' /\ CopyInv'
    BY DEF IInv, Can2Apply, remoteVars, vehicleVars, boxVars, SlotsInv,
       ReadInv, LockInv, BoxInv, CopyInv, Pending, Whole
<1>2. TypeOK'
    BY DEF IInv, Can2Apply, remoteVars, vehicleVars, boxVars, TypeOK, Value,
       Lanes
<1>3. AppliedInv'
    <2>1. /\ applied' = [applied EXCEPT !["can2"] = box["can2"]] /\ seq' = seq
          /\ applied \in [Lanes -> [Words -> Value]]
        BY DEF IInv, TypeOK, Can2Apply, boxVars
    <2>2. Whole(box["can2"])
        BY DEF IInv, BoxInv, Can2Apply, Lanes
    <2>3. ASSUME NEW l \in Lanes
          PROVE  applied'[l] = IF l = "can2" THEN box["can2"] ELSE applied[l]
        BY <2>1
    <2>4. applied'["can3"] = applied["can3"]
        BY <2>3 DEF Lanes
    <2> QED
        BY <2>1, <2>2, <2>3, <2>4 DEF IInv, AppliedInv
<1> QED
    BY <1>1, <1>2, <1>3 DEF IInv

(* The first half of CAN3's read keeps the invariant.                       *)
LEMMA Can3BeginKeeps == IInv /\ Can3Begin => IInv'
<1> SUFFICES ASSUME IInv, Can3Begin
             PROVE  IInv'
    OBVIOUS
<1>1. SlotsInv' /\ ReadInv' /\ LockInv' /\ BoxInv'
    BY DEF IInv, Can3Begin, remoteVars, vehicleVars, boxVars, SlotsInv,
       ReadInv, LockInv, BoxInv, Pending, Whole
<1>2. TypeOK'
    <2>1. applied' \in [Lanes -> [Words -> Value]]
        BY SafeType DEF IInv, TypeOK, Can3Begin
    <2>2. seq["can3"] \in Nat
        BY DEF IInv, TypeOK, Lanes
    <2>3. can3' \in [step : {"idle", "copy"}, before : Nat, left : SUBSET Words,
                     copy : [Words -> Value]]
        <3>1. can3 \in [step : {"idle", "copy"}, before : Nat, left : SUBSET Words,
                        copy : [Words -> Value]]
            BY DEF IInv, TypeOK
        <3>2. \/ can3' = can3
              \/ can3' = [can3 EXCEPT !.step = "copy", !.before = seq["can3"],
                                      !.left = Words]
            BY DEF Can3Begin
        <3> QED
            BY <2>2, <3>1, <3>2
    <2> QED
        BY <2>1, <2>3 DEF IInv, TypeOK, Can3Begin, remoteVars, vehicleVars,
           boxVars
<1>3. CopyInv'
    <2>1. CASE seq["can3"] = 0 \/ Writing(seq["can3"])
        BY <2>1 DEF IInv, Can3Begin, boxVars, CopyInv
    <2>2. CASE ~(seq["can3"] = 0 \/ Writing(seq["can3"]))
        <3>1. /\ can3'.step = "copy" /\ can3'.before = seq["can3"]
              /\ can3'.left = Words /\ can3'.copy = can3.copy
              /\ seq' = seq /\ box' = box /\ seq["can3"] \in Nat
            BY <2>2 DEF IInv, TypeOK, Can3Begin, boxVars, Lanes
        <3> QED
            BY <2>2, <3>1 DEF CopyInv
    <2> QED
        BY <2>1, <2>2
<1>4. AppliedInv'
    BY SafeApplied DEF IInv, Can3Begin, boxVars, AppliedInv, TypeOK
<1> QED
    BY <1>1, <1>2, <1>3, <1>4 DEF IInv

(* CAN3's copy of a word keeps the invariant.                               *)
LEMMA Can3CopyKeeps == IInv /\ (\E w \in Words : Can3Copy(w)) => IInv'
<1> SUFFICES ASSUME IInv, NEW w \in Words, Can3Copy(w)
             PROVE  IInv'
    OBVIOUS
<1>1. SlotsInv' /\ ReadInv' /\ LockInv' /\ BoxInv' /\ AppliedInv'
    BY DEF IInv, Can3Copy, remoteVars, vehicleVars, boxVars, SlotsInv,
       ReadInv, LockInv, BoxInv, AppliedInv, Pending, Whole
<1>2. TypeOK'
    <2>1. can3' \in [step : {"idle", "copy"}, before : Nat, left : SUBSET Words,
                     copy : [Words -> Value]]
        <3>1. can3 \in [step : {"idle", "copy"}, before : Nat, left : SUBSET Words,
                        copy : [Words -> Value]]
              /\ box["can3"][w] \in Value
            BY DEF IInv, TypeOK, Lanes
        <3>2. can3' = [can3 EXCEPT !.copy[w] = box["can3"][w], !.left = @ \ {w}]
            BY DEF Can3Copy
        <3> QED
            BY <3>1, <3>2
    <2> QED
        BY <2>1 DEF IInv, Can3Copy, remoteVars, vehicleVars, boxVars, TypeOK
<1>3. CopyInv'
    BY DEF IInv, Can3Copy, remoteVars, vehicleVars, boxVars, CopyInv, TypeOK
<1> QED
    BY <1>1, <1>2, <1>3 DEF IInv

(* The end of CAN3's read keeps the invariant.                              *)
LEMMA Can3EndKeeps == IInv /\ Can3End => IInv'
<1> SUFFICES ASSUME IInv, Can3End
             PROVE  IInv'
    OBVIOUS
<1>1. SlotsInv' /\ ReadInv' /\ LockInv' /\ BoxInv'
    BY DEF IInv, Can3End, remoteVars, vehicleVars, boxVars, SlotsInv, ReadInv,
       LockInv, BoxInv, Pending, Whole
<1>2. TypeOK'
    <2>1. applied' \in [Lanes -> [Words -> Value]]
        BY SMTT(60) DEF IInv, TypeOK, Can3End, Can3Safe, None, Value
    <2>2. can3' \in [step : {"idle", "copy"}, before : Nat, left : SUBSET Words,
                     copy : [Words -> Value]]
        BY DEF IInv, TypeOK, Can3End
    <2> QED
        BY <2>1, <2>2 DEF IInv, TypeOK, Can3End, remoteVars, vehicleVars,
           boxVars
<1>3. CopyInv'
    BY DEF IInv, Can3End, remoteVars, vehicleVars, boxVars, CopyInv, TypeOK
<1>4. AppliedInv'
    <2>1. CASE SequenceUnchanged
        <3>1. /\ applied' = [applied EXCEPT !["can3"] = can3.copy] /\ seq' = seq
              /\ applied \in [Lanes -> [Words -> Value]]
            BY <2>1 DEF IInv, TypeOK, Can3End, boxVars
        <3>2. /\ seq["can3"] > 0 /\ ~Writing(seq["can3"]) /\ seq["can3"] \in Nat
              /\ \A w \in Words : can3.copy[w] = box["can3"][w]
            BY <2>1 DEF IInv, CopyInv, SequenceUnchanged, Can3End, TypeOK, Lanes
        <3>3. Whole(can3.copy)
            BY <3>2 DEF IInv, BoxInv, Whole, Lanes
        <3>4. ASSUME NEW l \in Lanes
              PROVE  applied'[l] = IF l = "can3" THEN can3.copy ELSE applied[l]
            BY <3>1
        <3> QED
            BY <3>1, <3>2, <3>3, <3>4 DEF IInv, AppliedInv
    <2>2. CASE ~SequenceUnchanged
        BY <2>2, SafeApplied DEF IInv, Can3End, boxVars, AppliedInv, TypeOK
    <2> QED
        BY <2>1, <2>2
<1> QED
    BY <1>1, <1>2, <1>3, <1>4 DEF IInv

-----------------------------------------------------------------------------
(* No step of any task breaks the invariant.                                *)
LEMMA StepInvariant == IInv /\ [Next]_vars => IInv'
<1> SUFFICES ASSUME IInv, [Next]_vars
             PROVE  IInv'
    OBVIOUS
<1>1. CASE Remote
    BY <1>1, RemoteBeginKeeps, RemoteCopyKeeps, RemoteEndKeeps DEF Remote
<1>2. CASE SafetyRead
    BY <1>2, SafetyReadKeeps
<1>3. CASE Vehicle
    BY <1>3, VehicleReadKeeps, OpenMailboxKeeps, CopyWordKeeps,
       CloseMailboxKeeps
       DEF Vehicle
<1>4. CASE Can2Apply
    BY <1>4, Can2ApplyKeeps
<1>5. CASE Can3
    BY <1>5, Can3BeginKeeps, Can3CopyKeeps, Can3EndKeeps DEF Can3
<1>6. CASE UNCHANGED vars
    BY <1>6 DEF vars, IInv, TypeOK, SlotsInv, ReadInv, LockInv, BoxInv, CopyInv,
                AppliedInv, Whole, Pending
<1> QED
    BY <1>1, <1>2, <1>3, <1>4, <1>5, <1>6 DEF Next

(* The inductive invariant of the shared memory.                            *)
THEOREM Invariance == Spec => []IInv
BY InitInvariant, StepInvariant, PTL DEF Spec

(* Every mailbox, slot and sequence number keeps its type.                  *)
THEOREM TypeCorrect == Spec => []TypeOK
<1>1. IInv => TypeOK
    BY DEF IInv
<1> QED
    BY <1>1, Invariance, PTL

(* No task works with a mixture of two requests or two commands, whoever    *)
(* interrupts whom while it copies (read_motion_command_snapshot and        *)
(* remote_request_mailbox_read).                                            *)
THEOREM CoherenceHolds == Spec => []Coherence
<1>1. IInv => Coherence
    BY DEF IInv, ReadInv, AppliedInv, Coherence
<1> QED
    BY <1>1, Invariance, PTL

(* CAN3 gives up a copy, and stops the hydraulics, only because a whole     *)
(* newer command was published (read_motion_command_snapshot).              *)
THEOREM Can3MissesOnlyForNewerHolds == Spec => Can3MissesOnlyForNewer
<1>1. IInv /\ [Next]_vars =>
        [applied["can3"] # applied'["can3"] /\ applied'["can3"] = [w \in Words |-> None]
           => /\ can3.step = "copy" /\ ~Writing(seq["can3"])
              /\ seq["can3"] >= can3.before + 2]_vars
    <2> SUFFICES ASSUME IInv, Next,
                        applied["can3"] # applied'["can3"],
                        applied'["can3"] = [w \in Words |-> None]
                 PROVE  /\ can3.step = "copy" /\ ~Writing(seq["can3"])
                        /\ seq["can3"] >= can3.before + 2
        OBVIOUS
    <2>1. Can3Begin \/ Can3End
        <3>1. ~Remote /\ ~SafetyRead /\ ~Vehicle
            BY DEF Remote, RemoteBegin, RemoteCopy, RemoteEnd, SafetyRead,
               Vehicle,
                   VehicleRead, OpenMailbox, CopyWord, CloseMailbox
        <3>2. ~Can2Apply
            BY DEF Can2Apply, IInv, TypeOK, Lanes
        <3>3. \A w \in Words : ~Can3Copy(w)
            BY DEF Can3Copy
        <3> QED
            BY <3>1, <3>2, <3>3 DEF Next, Can3
    <2>2. vehicle.step = "idle" /\ ~Writing(seq["can3"])
        BY <2>1 DEF Can3Begin, Can3End, Can3Runs, IInv, LockInv, Lanes
    <2>3. ~Can3Begin
        <3>1. Can3Begin => seq["can3"] = 0
            BY <2>2 DEF Can3Begin
        <3> QED
            BY <3>1 DEF IInv, AppliedInv
    <2>4. can3.step = "copy"
        BY <2>1, <2>3 DEF Can3End
    <2>5. seq["can3"] \in Nat /\ can3.before \in Nat /\ can3.before > 0
          /\ ~Writing(can3.before) /\ can3.before <= seq["can3"]
        BY <2>4 DEF IInv, TypeOK, CopyInv, Lanes
    <2>6. ~SequenceUnchanged
        <3> SUFFICES ASSUME SequenceUnchanged
                     PROVE  FALSE
            OBVIOUS
        <3>1. applied'["can3"] = can3.copy
            BY <2>1, <2>3 DEF Can3End, IInv, TypeOK, Lanes
        <3>2. can3.copy[AnyWord] = box["can3"][AnyWord]
            BY <2>1, <2>3, <2>4, SomeWord DEF Can3End, SequenceUnchanged,
               IInv, CopyInv
        <3>3. box["can3"][AnyWord].cmd >= 1
            BY <2>2, <2>5, SomeWord DEF SequenceUnchanged, IInv, BoxInv, Lanes
        <3>4. can3.copy[AnyWord] = None
            BY <3>1, SomeWord
        <3> QED
            BY <3>2, <3>3, <3>4 DEF None
    <2>7. seq["can3"] >= can3.before + 2
        BY <2>2, <2>5, <2>6 DEF SequenceUnchanged, Writing
    <2> QED
        BY <2>2, <2>4, <2>7
<1> QED
    BY <1>1, Invariance, PTL DEF Spec, Can3MissesOnlyForNewer

-----------------------------------------------------------------------------
(* What ControlPipeline sees of the mailboxes and of the bus tasks.         *)
offering == [l \in Lanes |-> Offered(l)]
effective == [l \in Lanes |-> applied[l][AnyWord]]

(* A step that leaves the mailboxes alone leaves what they offer alone.     *)
LEMMA OfferingKept ==
    ASSUME UNCHANGED <<seq, box, commands, inHand>>
    PROVE  offering' = offering
BY DEF offering, Offered

(* A step that applies nothing leaves what is in effect alone.              *)
LEMMA EffectiveKept ==
    ASSUME UNCHANGED applied
    PROVE  effective' = effective
BY DEF effective

(* Copying a word, closing a mailbox and reading a request change nothing   *)
(* in what is offered.                                                      *)
LEMMA QuietVehicleSteps ==
    ASSUME IInv, VehicleRead \/ CloseMailbox \/ (\E w \in Words : CopyWord(w))
    PROVE  offering' = offering
<1>1. CASE VehicleRead
    <2>1. \A l \in Lanes : ~Writing(seq[l]) /\ Offered(l)' = Offered(l)
        BY <1>1 DEF VehicleRead, IInv, LockInv, Offered, boxVars
    <2> QED
        BY <2>1 DEF offering
<1>2. CASE CloseMailbox
    <2>0. PICK k \in Lanes : k = vehicle.lane
        BY DEF IInv, TypeOK
    <2>1. /\ seq \in [Lanes -> Nat] /\ vehicle.step = "copy"
          /\ vehicle.left = {} /\ seq' = [seq EXCEPT ![k] = @ + 1] /\ box' = box
          /\ inHand' = inHand /\ commands' = commands
        BY <1>2, <2>0 DEF IInv, TypeOK, CloseMailbox
    <2>2. Writing(seq[k]) /\ ~Writing(seq[k] + 1) /\ seq[k] \in Nat
        BY <2>0, <2>1, Parity DEF IInv, LockInv
    <2>3. box[k][AnyWord] = [cmd |-> commands, from |-> inHand[AnyWord]]
        BY <2>0, <2>1, SomeWord DEF IInv, BoxInv
    <2>4. Offered(k)' = Offered(k)
        <3>1. seq'[k] = seq[k] + 1 /\ seq[k] # 0 /\ seq[k] + 1 # 0
            BY <2>1, <2>2 DEF Writing
        <3>2. Offered(k) = [cmd |-> commands, from |-> inHand[AnyWord]]
            BY <2>2, <3>1 DEF Offered
        <3>3. Offered(k)' = box[k][AnyWord]
            BY <2>1, <2>2, <3>1 DEF Offered
        <3> QED
            BY <2>3, <3>2, <3>3
    <2>5. \A l \in Lanes \ {k} : Offered(l)' = Offered(l)
        BY <2>1 DEF Offered
    <2> QED
        BY <2>4, <2>5 DEF offering
<1>3. ASSUME NEW w \in Words, CopyWord(w)
      PROVE  offering' = offering
    <2>0. PICK k \in Lanes : k = vehicle.lane
        BY DEF IInv, TypeOK
    <2>1. /\ seq' = seq /\ inHand' = inHand /\ commands' = commands
          /\ box \in [Lanes -> [Words -> Value]]
          /\ box' = [box EXCEPT ![k][w] = [cmd |-> commands, from |-> inHand[w]]]
        BY <1>3, <2>0 DEF IInv, TypeOK, CopyWord
    <2>2. Writing(seq[k]) /\ seq[k] # 0
        <3>1. Writing(seq[k])
            BY <1>3, <2>0 DEF IInv, LockInv, CopyWord
        <3> QED
            BY <3>1 DEF Writing
    <2>3. Offered(k)' = Offered(k)
        BY <2>1, <2>2 DEF Offered
    <2>4. ASSUME NEW l \in Lanes \ {k}
          PROVE  Offered(l)' = Offered(l)
        <3>1. box'[l] = box[l]
            BY <2>1
        <3> QED
            BY <2>1, <3>1 DEF Offered
    <2> QED
        BY <2>3, <2>4 DEF offering
<1> QED
    BY <1>1, <1>2, <1>3

(* Opening a mailbox offers the new command to that lane.                   *)
LEMMA OpenOffers ==
    ASSUME IInv, OpenMailbox
    PROVE  \E l \in Lanes : Pipeline!Offer(l)
<1> DEFINE k == vehicle.lane
           new == [cmd |-> commands, from |-> inHand[AnyWord]]
<1>1. /\ k \in Lanes /\ seq \in [Lanes -> Nat] /\ vehicle.step = "open"
      /\ seq' = [seq EXCEPT ![k] = @ + 1] /\ box' = box
      /\ inHand' = inHand /\ commands' = commands
      /\ reqSeq' = reqSeq /\ applied' = applied
      /\ commands \in Nat /\ reqSeq \in Nat /\ inHand[AnyWord] \in Nat
      /\ \A l \in Lanes : box[l][AnyWord] \in Value
    BY SomeWord DEF IInv, TypeOK, OpenMailbox, remoteVars
<1>2. /\ \A l \in Lanes : ~Writing(seq[l])
      /\ Writing(seq[k] + 1) /\ seq[k] + 1 # 0
    BY <1>1, Parity DEF IInv, LockInv
<1>3. /\ commands >= 1 /\ inHand[AnyWord] <= reqSeq
      /\ box[k][AnyWord].cmd < commands
      /\ box[k][AnyWord].from <= inHand[AnyWord]
    BY <1>1, SomeWord DEF IInv, BoxInv, ReadInv, Pending
<1> HIDE DEF k
<1>4. offering'[k] = new
    BY <1>1, <1>2 DEF offering, Offered
<1>5. ASSUME NEW l \in Lanes
      PROVE  /\ offering[l] \in Value
             /\ offering[l] = IF seq[l] = 0 THEN None ELSE box[l][AnyWord]
             /\ l # k => offering'[l] = offering[l]
    <2>1. offering[l] = IF seq[l] = 0 THEN None ELSE box[l][AnyWord]
        BY <1>2 DEF offering, Offered
    <2>2. l # k => seq'[l] = seq[l]
        BY <1>1
    <2>3. l # k => offering'[l] = offering[l]
        BY <1>1, <2>2 DEF offering, Offered
    <2> QED
        BY <1>1, <2>1, <2>3 DEF None, Value
<1>6. new.cmd > offering[k].cmd /\ new.from \in offering[k].from..reqSeq
    <2>1. CASE seq[k] = 0
        BY <1>1, <1>3, <1>5, <2>1 DEF None
    <2>2. CASE seq[k] # 0
        BY <1>1, <1>3, <1>5, <2>2 DEF Value
    <2> QED
        BY <2>1, <2>2
<1>7. offering' \in [Lanes -> Value]
    <2>1. new \in Value
        BY <1>1 DEF Value
    <2>2. \A l \in Lanes : offering'[l] \in Value
        BY <1>4, <1>5, <2>1
    <2> QED
        BY <2>2 DEF offering
<1>8. effective' = effective
    BY <1>1, EffectiveKept
<1> QED
    BY <1>1, <1>4, <1>5, <1>6, <1>7, <1>8
       DEF Pipeline!Offer, Pipeline!Command, offering, effective, Value

(* A bus task applies what it is offered or stops.                          *)
LEMMA BusStepsApply ==
    ASSUME IInv, Can2Apply \/ Can3
    PROVE  [Pipeline!Next]_(Pipeline!vars)
<1>1. /\ UNCHANGED <<reqSeq, seq, box, commands, inHand>>
    BY DEF Can2Apply, Can3, Can3Begin, Can3Copy, Can3End, remoteVars,
       vehicleVars,
           boxVars
<1>2. offering' = offering
    BY <1>1, OfferingKept
<1>3. ASSUME NEW l \in Lanes, NEW f, applied' = [applied EXCEPT ![l] = f]
      PROVE  effective' = [effective EXCEPT ![l] = f[AnyWord]]
    BY <1>3 DEF effective, IInv, TypeOK
<1>4. ASSUME Can3Safe
      PROVE  Pipeline!SafeStop("can3")
    <2> DEFINE f == [w \in Words |-> None]
    <2>1. effective' = [effective EXCEPT !["can3"] = f[AnyWord]]
        BY <1>3, <1>4 DEF Can3Safe, Lanes
    <2>2. f[AnyWord] = None
        BY SomeWord
    <2> QED
        BY <1>1, <1>2, <2>1, <2>2
           DEF Pipeline!SafeStop, Pipeline!None, None, offering, effective
<1>5. ASSUME NEW l \in Lanes, NEW f, applied' = [applied EXCEPT ![l] = f],
             seq[l] # 0, ~Writing(seq[l]), f[AnyWord] = box[l][AnyWord]
      PROVE  Pipeline!Apply(l)
    <2>1. offering[l] = f[AnyWord]
        BY <1>5 DEF offering, Offered
    <2>2. effective' = [effective EXCEPT ![l] = offering[l]]
        BY ZenonT(60), <1>3, <1>5, <2>1
    <2> QED
        BY <1>1, <1>2, <2>2 DEF Pipeline!Apply, offering, effective
<1>6. CASE Can2Apply
    <2>1. Pipeline!Apply("can2")
        <3>1. "can2" \in Lanes /\ seq["can2"] # 0 /\ ~Writing(seq["can2"])
            BY <1>6 DEF Can2Apply, Lanes
        <3>2. applied' = [applied EXCEPT !["can2"] = box["can2"]]
            BY <1>6 DEF Can2Apply
        <3> QED
            BY <1>5, <3>1, <3>2
    <2> QED
        BY <2>1 DEF Pipeline!Next, Lanes
<1>7. CASE Can3Begin
    <2>1. CASE Can3Safe
        BY <1>4, <2>1 DEF Pipeline!Next, Lanes
    <2>2. CASE UNCHANGED applied
        BY <1>1, <1>2, <2>2, EffectiveKept DEF Pipeline!vars, offering,
           effective
    <2> QED
        BY <1>7, <2>1, <2>2 DEF Can3Begin
<1>8. CASE \E w \in Words : Can3Copy(w)
    <2>1. UNCHANGED applied
        BY <1>8 DEF Can3Copy
    <2> QED
        BY <1>1, <1>2, <2>1, EffectiveKept DEF Pipeline!vars, offering,
           effective
<1>9. CASE Can3End
    <2>1. CASE SequenceUnchanged
        <3>1. /\ seq["can3"] # 0 /\ ~Writing(seq["can3"])
              /\ can3.copy[AnyWord] = box["can3"][AnyWord]
            BY <1>9, <2>1, SomeWord
               DEF Can3End, SequenceUnchanged, IInv, TypeOK, CopyInv, Lanes
        <3>2. Pipeline!Apply("can3")
            BY <1>5, <1>9, <2>1, <3>1 DEF Can3End, Lanes
        <3> QED
            BY <3>2 DEF Pipeline!Next, Lanes
    <2>2. CASE ~SequenceUnchanged
        BY <1>4, <1>9, <2>2 DEF Can3End, Pipeline!Next, Lanes
    <2> QED
        BY <2>1, <2>2
<1> QED
    BY <1>6, <1>7, <1>8, <1>9 DEF Can3

(* The tasks and their shared memory do what ControlPipeline promises: each *)
(* lane applies whole commands, in order, made from requests that never get *)
(* older, or stops.                                                         *)
THEOREM ImplementsPipeline == Spec => PipelineSpec
<1>1. Init => Pipeline!Init
    BY SomeWord DEF Init, Pipeline!Init, Pipeline!None, Offered, None, Lanes
<1>2. IInv /\ [Next]_vars => [Pipeline!Next]_(Pipeline!vars)
    <2> SUFFICES ASSUME IInv, [Next]_vars
                 PROVE  [Pipeline!Next]_(Pipeline!vars)
        OBVIOUS
    <2>1. ASSUME UNCHANGED <<reqSeq, seq, box, commands, inHand, applied>>
          PROVE  UNCHANGED (Pipeline!vars)
        BY <2>1, OfferingKept, EffectiveKept DEF Pipeline!vars, offering,
           effective
    <2>2. CASE RemoteEnd
        <3>1. /\ reqSeq' = reqSeq + 1
              /\ UNCHANGED <<seq, box, commands, inHand, applied>>
            BY <2>2 DEF RemoteEnd, vehicleVars, boxVars
        <3> QED
            BY <3>1, OfferingKept, EffectiveKept
               DEF Pipeline!Next, Pipeline!NewRequest, offering, effective
    <2>3. CASE RemoteBegin \/ \E w \in Words : RemoteCopy(w)
        BY <2>1, <2>3 DEF RemoteBegin, RemoteCopy, vehicleVars, boxVars
    <2>4. CASE SafetyRead
        BY <2>1, <2>4 DEF SafetyRead, remoteVars, vehicleVars, boxVars
    <2>5. CASE VehicleRead \/ CloseMailbox \/ \E w \in Words : CopyWord(w)
        <3>1. reqSeq' = reqSeq /\ applied' = applied
            BY <2>5 DEF VehicleRead, CloseMailbox, CopyWord, remoteVars
        <3> QED
            BY <2>5, <3>1, QuietVehicleSteps, EffectiveKept
               DEF Pipeline!vars, offering, effective
    <2>6. CASE OpenMailbox
        BY <2>6, OpenOffers DEF Pipeline!Next
    <2>7. CASE Can2Apply \/ Can3
        BY <2>7, BusStepsApply
    <2>8. CASE UNCHANGED vars
        BY <2>1, <2>8 DEF vars
    <2> QED
        BY <2>2, <2>3, <2>4, <2>5, <2>6, <2>7, <2>8 DEF Next, Remote, Vehicle
<1> QED
    BY <1>1, <1>2, Invariance, PTL DEF Spec, PipelineSpec, Pipeline!Spec
=============================================================================
