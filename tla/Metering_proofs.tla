--------------------------- MODULE Metering_proofs ---------------------------
(***************************************************************************)
(* No loss is invented: for every width, every number of readings, faults  *)
(* and restarts, and every policy.                                         *)
(***************************************************************************)
EXTENDS Metering, TLAPS

-----------------------------------------------------------------------------
(* The invariant.                                                          *)

(* All readings there are, wherever they are.                              *)
Readings == CounterReadings(inFlight \cup held)

DeviceType == [value : Nat, epoch : Nat, generation : Nat, readings : Nat, clock : Nat]

DeviceOK ==
    /\ device \in DeviceType
    /\ dropped \in Nat

ItemsOK == inFlight \cup held \subseteq CounterReading \cup Report

(* It was taken of this device, no later than now.                         *)
ReadingIsPast(r) ==
    /\ r.sequence <= device.readings
    /\ r.epoch <= device.epoch
    /\ r.generation <= device.generation
    /\ r.payload.total <= dropped

SameCounter(p, c) == p.epoch = c.epoch /\ p.generation = c.generation

(* A counter nobody restarted or rebound went no further than the device   *)
(* dropped; a reset only makes it fall behind.                             *)
CounterIsBehind(r) ==
    r.epoch = device.epoch /\ r.generation = device.generation =>
        device.value - r.payload.value <= dropped - r.payload.total

MovesAreReal(p, c) ==
    SameCounter(p, c) /\ p.sequence < c.sequence =>
        c.payload.value - p.payload.value <= c.payload.total - p.payload.total

ReadingsInv ==
    /\ \A r \in Readings : ReadingIsPast(r) /\ CounterIsBehind(r)
    /\ \A p, c \in Readings : MovesAreReal(p, c)

IInv == DeviceOK /\ ItemsOK /\ ReadingsInv

-----------------------------------------------------------------------------
(* A number modulo another is no greater than it was.                      *)
LEMMA ModuloIsNoGreater ==
    ASSUME NEW x \in Nat, NEW m \in Nat \ {0}
    PROVE  x % m \in Nat /\ x % m <= x
  <1>1. x % m \in 0..(m - 1)
    OBVIOUS
  <1>2. CASE x < m
    <2>1. x % m = x
      BY <1>2
    <2> QED BY <2>1
  <1>3. CASE x >= m
    BY <1>1, <1>3
  <1> QED BY <1>2, <1>3

(* What the steps make of a device.                                        *)
LEMMA DeviceChanges ==
    ASSUME NEW d \in DeviceType, NEW a \in Nat, NEW b \in Nat
    PROVE  /\ LET after == [d EXCEPT !.epoch = a, !.value = b]
              IN  /\ after \in DeviceType /\ after.epoch = a /\ after.value = b
                  /\ after.generation = d.generation /\ after.readings = d.readings
           /\ LET after == [d EXCEPT !.generation = a, !.value = b]
              IN  /\ after \in DeviceType /\ after.generation = a /\ after.value = b
                  /\ after.epoch = d.epoch /\ after.readings = d.readings
  BY DEF DeviceType

(* The reports of the endpoints are no readings, recovered or not.         *)
LEMMA ReportsAreNoReadings ==
    ASSUME MeteringAssumption, NEW r \in Report
    PROVE  "payload" \in DOMAIN r /\ r.payload.kind # "counter"
  <1>1. CASE r \in Reports
    BY <1>1 DEF MeteringAssumption
  <1>2. CASE r \notin Reports
    <2>1. PICK q \in Reports : r = [q EXCEPT !.recovered = TRUE]
      BY <1>2 DEF Report
    <2>2. {"recovered", "payload"} \subseteq DOMAIN q /\ q.payload.kind # "counter"
      BY DEF MeteringAssumption
    <2>3. DOMAIN r = DOMAIN q /\ r.payload = q.payload
      BY <2>1, <2>2
    <2> QED BY <2>2, <2>3
  <1> QED BY <1>1, <1>2

LEMMA ReadingsAreTyped ==
    ASSUME MeteringAssumption, ItemsOK
    PROVE  Readings \subseteq CounterReading
  BY ReportsAreNoReadings DEF ItemsOK, Readings, CounterReadings

(* The ladder of derive_counter_deltas believes a move only of a later     *)
(* reading of the same incarnation and generation, and only an advance.    *)
LEMMA BelievedMoves ==
    ASSUME NEW p \in CounterReading, NEW c \in CounterReading, DeltaState(p, c) = "Valid"
    PROVE  /\ SameCounter(p, c) /\ p.sequence < c.sequence
           /\ Delta(p, c) = c.payload.value - p.payload.value
  <1>1. ~(p.sequence >= c.sequence)
    BY DEF DeltaState
  <1>2. p.epoch = c.epoch /\ p.generation = c.generation
    BY DEF DeltaState
  <1>3. DecreaseState(p, c) # "Valid"
    BY DEF DecreaseState
  <1>4. ~(Moved(p, c) < 0)
    BY <1>3 DEF DeltaState
  <1>5. Delta(p, c) = c.payload.value - p.payload.value
    BY <1>4 DEF Delta, Moved
  <1> QED BY <1>1, <1>2, <1>5 DEF SameCounter, CounterReading

(* The invariant is enough.                                                *)
LEMMA InvariantSuffices ==
    ASSUME MeteringAssumption, IInv
    PROVE  LossIsReal
  <1> SUFFICES ASSUME NEW p \in CounterReadings(held), NEW c \in CounterReadings(held),
                      DeltaState(p, c) = "Valid"
               PROVE  Delta(p, c) <= c.payload.total - p.payload.total
    BY DEF LossIsReal
  <1>1. p \in Readings /\ c \in Readings
    BY DEF Readings, CounterReadings
  <1>2. p \in CounterReading /\ c \in CounterReading /\ MovesAreReal(p, c)
    BY <1>1, ReadingsAreTyped DEF IInv, ReadingsInv
  <1>3. /\ SameCounter(p, c) /\ p.sequence < c.sequence
        /\ Delta(p, c) = c.payload.value - p.payload.value
    BY <1>2, BelievedMoves
  <1> QED BY <1>2, <1>3 DEF MovesAreReal

-----------------------------------------------------------------------------
(* Its steps.                                                              *)

LEMMA InitHolds ==
    ASSUME MeteringAssumption, Init
    PROVE  IInv
  <1>1. DeviceOK
    BY DEF Init, DeviceOK, DeviceType
  <1>2. ItemsOK
    BY DEF Init, ItemsOK, Report
  <1>3. Readings = {}
    BY ReportsAreNoReadings DEF Init, Readings, CounterReadings, Report
  <1> QED BY <1>1, <1>2, <1>3 DEF IInv, ReadingsInv

(* Steps that touch no evidence keep what relates readings to each other;  *)
(* what they must keep is the relation of every reading to the device.     *)
LEMMA DeviceSteps ==
    ASSUME MeteringAssumption, IInv, UNCHANGED <<inFlight, held>>, DeviceOK',
           \A r \in Readings : ReadingIsPast(r)' /\ CounterIsBehind(r)'
    PROVE  IInv'
  <1>1. Readings' = Readings
    BY DEF Readings, CounterReadings
  <1>2. ItemsOK'
    BY DEF IInv, ItemsOK
  <1>3. \A p, c \in Readings : MovesAreReal(p, c)'
    BY DEF IInv, ReadingsInv, MovesAreReal, SameCounter
  <1> QED BY <1>1, <1>2, <1>3 DEF IInv, ReadingsInv

(* Packets are dropped: the counter may go over its top, which only sets   *)
(* it back.                                                                *)
LEMMA DropKeeps ==
    ASSUME MeteringAssumption, IInv, NEW n \in Increments, Drop(n)
    PROVE  IInv'
  <1>1. n \in Nat /\ device.value \in Nat /\ dropped \in Nat /\ Modulus \in Nat \ {0}
    BY DEF MeteringAssumption, IInv, DeviceOK, DeviceType
  <1>2. /\ (device.value + n) % Modulus \in Nat
        /\ (device.value + n) % Modulus <= device.value + n
    <2>1. device.value + n \in Nat
      BY <1>1
    <2> QED BY <2>1, <1>1, ModuloIsNoGreater, Zenon
  <1>3. /\ dropped' = dropped + n
        /\ device' = [device EXCEPT !.value = (device.value + n) % Modulus]
        /\ UNCHANGED <<inFlight, held>>
    BY DEF Drop
  <1> DEFINE after == (device.value + n) % Modulus
  <1>4. after \in Nat /\ after <= device.value + n
    BY <1>2
  <1>5. device' = [device EXCEPT !.value = after]
    BY <1>3
  <1> HIDE DEF after
  <1>6. /\ device'.value = after /\ device'.epoch = device.epoch
        /\ device'.generation = device.generation /\ device'.readings = device.readings
        /\ DeviceOK'
    BY <1>1, <1>3, <1>4, <1>5 DEF IInv, DeviceOK, DeviceType
  <1>7. ASSUME NEW r \in Readings
        PROVE  ReadingIsPast(r)' /\ CounterIsBehind(r)'
    <2>1. r \in CounterReading /\ ReadingIsPast(r) /\ CounterIsBehind(r)
      BY ReadingsAreTyped DEF IInv, ReadingsInv
    <2>2. r.payload.value \in Nat /\ r.payload.total \in Nat
      BY <2>1 DEF CounterReading
    <2>3. ReadingIsPast(r)'
      BY <1>1, <1>3, <1>6, <2>1, <2>2 DEF ReadingIsPast
    <2>4. CounterIsBehind(r)'
      BY <1>1, <1>3, <1>4, <1>6, <2>1, <2>2 DEF CounterIsBehind
    <2> QED BY <2>3, <2>4
  <1> QED BY <1>3, <1>6, <1>7, DeviceSteps

(* A fault moves neither the readings taken nor the packets dropped.  It   *)
(* sets the counter back, or begins an epoch or a generation of which      *)
(* there is no reading yet.                                                *)
LEMMA FaultKeeps ==
    ASSUME MeteringAssumption, IInv, NEW afterwards, Fault(afterwards),
           afterwards \in DeviceType,
           afterwards.readings = device.readings,
           afterwards.epoch >= device.epoch,
           afterwards.generation >= device.generation,
           \/ afterwards.epoch > device.epoch
           \/ afterwards.generation > device.generation
           \/ afterwards.value = 0
           \/ afterwards.value = device.value
    PROVE  IInv'
  <1>1. /\ device' = afterwards /\ dropped' = dropped
        /\ UNCHANGED <<inFlight, held>>
    BY DEF Fault
  <1>2. DeviceOK /\ DeviceOK'
    BY <1>1 DEF IInv, DeviceOK, DeviceType
  <1>3. ASSUME NEW r \in Readings
        PROVE  ReadingIsPast(r)' /\ CounterIsBehind(r)'
    <2>1. r \in CounterReading /\ ReadingIsPast(r) /\ CounterIsBehind(r)
      BY ReadingsAreTyped DEF IInv, ReadingsInv
    <2>2. /\ r.payload.value \in Nat /\ r.payload.total \in Nat
          /\ r.epoch \in Nat /\ r.generation \in Nat /\ r.sequence \in Nat
      BY <2>1 DEF CounterReading
    <2>3. ReadingIsPast(r)'
      BY <1>1, <1>2, <2>1, <2>2 DEF ReadingIsPast, DeviceOK, DeviceType
    <2>4. CounterIsBehind(r)'
      BY <1>1, <1>2, <2>1, <2>2 DEF ReadingIsPast, CounterIsBehind, DeviceOK, DeviceType
    <2> QED BY <2>3, <2>4
  <1> QED BY <1>1, <1>2, <1>3, DeviceSteps

(* A reading says what the counter says, of what has been dropped by now,  *)
(* and comes after all readings there are.                                 *)
LEMMA ReadKeeps ==
    ASSUME MeteringAssumption, IInv, Read
    PROVE  IInv'
  <1> DEFINE new == Reading(device.value, device.clock, dropped)
  <1>1. DeviceOK
    BY DEF IInv
  <1>2. /\ new.sequence = device.readings + 1 /\ new.epoch = device.epoch
        /\ new.generation = device.generation /\ new.payload.kind = "counter"
        /\ new.payload.value = device.value /\ new.payload.total = dropped
        /\ new \in CounterReading
    BY <1>1 DEF Reading, CounterReading, DeviceOK, DeviceType
  <1>3. /\ inFlight' = inFlight \cup {new} /\ held' = held
        /\ dropped' = dropped
        /\ device' = [device EXCEPT !.readings = @ + 1, !.clock = @ + 1]
    BY DEF Read
  <1> HIDE DEF new
  <1>4. /\ device'.value = device.value /\ device'.epoch = device.epoch
        /\ device'.generation = device.generation
        /\ device'.readings = device.readings + 1
        /\ DeviceOK'
    <2>1. /\ device \in DeviceType
          /\ device.readings + 1 \in Nat /\ device.clock + 1 \in Nat
      BY <1>1 DEF DeviceOK, DeviceType
    <2> DEFINE a == device.readings + 1
               b == device.clock + 1
               after == [device EXCEPT !.readings = a, !.clock = b]
    <2>2. device' = after /\ a = device.readings + 1
      BY <1>3
    <2>3. device \in DeviceType /\ a \in Nat /\ b \in Nat
      BY <2>1
    <2> HIDE DEF a, b
    <2>4. /\ after \in DeviceType /\ after.readings = a /\ after.value = device.value
          /\ after.epoch = device.epoch /\ after.generation = device.generation
      BY <2>3 DEF DeviceType
    <2> HIDE DEF after
    <2> QED BY <2>2, <2>4, <1>1, <1>3 DEF DeviceOK
  <1>5. Readings' = Readings \cup {new}
    BY <1>2, <1>3 DEF Readings, CounterReadings
  <1>6. ItemsOK'
    BY <1>2, <1>3 DEF IInv, ItemsOK
  <1>7. \A r \in Readings : /\ r \in CounterReading /\ ReadingIsPast(r)
                            /\ CounterIsBehind(r)
    BY ReadingsAreTyped DEF IInv, ReadingsInv
  <1>8. ASSUME NEW r \in Readings'
        PROVE  ReadingIsPast(r)' /\ CounterIsBehind(r)'
    <2>1. CASE r \in Readings
      <3>1. /\ r.payload.value \in Nat /\ r.payload.total \in Nat
            /\ r.epoch \in Nat /\ r.generation \in Nat /\ r.sequence \in Nat
        BY <2>1, <1>7 DEF CounterReading
      <3>2. ReadingIsPast(r)'
        BY <2>1, <3>1, <1>1, <1>3, <1>4, <1>7 DEF ReadingIsPast, DeviceOK, DeviceType
      <3>3. CounterIsBehind(r)'
        BY <2>1, <1>3, <1>4, <1>7 DEF CounterIsBehind
      <3> QED BY <3>2, <3>3
    <2>2. CASE r = new
      BY <2>2, <1>1, <1>2, <1>3, <1>4 DEF ReadingIsPast, CounterIsBehind, DeviceOK, DeviceType
    <2> QED BY <2>1, <2>2, <1>5
  <1>9. ASSUME NEW p \in Readings', NEW c \in Readings'
        PROVE  MovesAreReal(p, c)
    <2>1. CASE p \in Readings /\ c \in Readings
      BY <2>1 DEF IInv, ReadingsInv
    <2>2. CASE p \in Readings /\ c = new
      BY <2>2, <1>2, <1>7 DEF MovesAreReal, SameCounter, CounterIsBehind
    <2>3. CASE p = new
      <3>1. c.sequence \in Nat /\ c.sequence <= device.readings + 1
        BY <1>1, <1>2, <1>5, <1>7 DEF CounterReading, ReadingIsPast, DeviceOK, DeviceType
      <3> QED BY <2>3, <3>1, <1>1, <1>2 DEF MovesAreReal, DeviceOK, DeviceType
    <2> QED BY <2>1, <2>2, <2>3, <1>5
  <1> QED BY <1>4, <1>6, <1>8, <1>9 DEF IInv, ReadingsInv, MovesAreReal, SameCounter

(* Evidence on its way, delivered, marked as recovered or left out: as     *)
(* long as every reading there is then is one that was there before but    *)
(* for its mark, nothing the invariant says of readings changes.           *)
LEMMA EvidenceSteps ==
    ASSUME MeteringAssumption, IInv, UNCHANGED <<device, dropped>>, ItemsOK',
           \A r \in Readings' : \E q \in Readings :
                /\ r.sequence = q.sequence /\ r.epoch = q.epoch
                /\ r.generation = q.generation /\ r.payload = q.payload
    PROVE  IInv'
  <1>1. DeviceOK'
    BY DEF IInv, DeviceOK, DeviceType
  <1>2. ASSUME NEW r \in Readings'
        PROVE  ReadingIsPast(r)' /\ CounterIsBehind(r)'
    <2>1. PICK q \in Readings :
                /\ r.sequence = q.sequence /\ r.epoch = q.epoch
                /\ r.generation = q.generation /\ r.payload = q.payload
      OBVIOUS
    <2>2. ReadingIsPast(q) /\ CounterIsBehind(q)
      BY DEF IInv, ReadingsInv
    <2> QED BY <2>1, <2>2 DEF ReadingIsPast, CounterIsBehind
  <1>3. ASSUME NEW p \in Readings', NEW c \in Readings'
        PROVE  MovesAreReal(p, c)
    <2>1. PICK q \in Readings :
                /\ p.sequence = q.sequence /\ p.epoch = q.epoch
                /\ p.generation = q.generation /\ p.payload = q.payload
      OBVIOUS
    <2>2. PICK d \in Readings :
                /\ c.sequence = d.sequence /\ c.epoch = d.epoch
                /\ c.generation = d.generation /\ c.payload = d.payload
      OBVIOUS
    <2>3. MovesAreReal(q, d)
      BY DEF IInv, ReadingsInv
    <2> QED BY <2>1, <2>2, <2>3 DEF MovesAreReal, SameCounter
  <1> QED BY <1>1, <1>2, <1>3 DEF IInv, ReadingsInv, MovesAreReal, SameCounter

LEMMA DeliverKeeps ==
    ASSUME MeteringAssumption, IInv, NEW item \in inFlight, Deliver(item)
    PROVE  IInv'
  <1>1. /\ inFlight' \cup held' = inFlight \cup held
        /\ UNCHANGED <<device, dropped>>
    BY DEF Deliver
  <1>2. ItemsOK' /\ Readings' = Readings
    BY <1>1 DEF IInv, ItemsOK, Readings, CounterReadings
  <1> QED BY <1>1, <1>2, EvidenceSteps

LEMMA ProcessRestartKeeps ==
    ASSUME MeteringAssumption, IInv, ProcessRestart
    PROVE  IInv'
  <1>1. /\ held' = {[item EXCEPT !.recovered = TRUE] : item \in held}
        /\ UNCHANGED <<device, dropped, inFlight>>
    BY DEF ProcessRestart
  <1>2. ASSUME NEW item \in held
        PROVE  \/ /\ item \in CounterReading
                  /\ [item EXCEPT !.recovered = TRUE] \in CounterReading
                  /\ item \in Readings
               \/ /\ [item EXCEPT !.recovered = TRUE] \in Report
                  /\ [item EXCEPT !.recovered = TRUE].payload.kind # "counter"
    <2>1. CASE item \in CounterReading
      BY <2>1 DEF CounterReading, Readings, CounterReadings
    <2>2. CASE item \in Reports
      <3>1. [item EXCEPT !.recovered = TRUE] \in Report
        BY <2>2 DEF Report
      <3> QED BY <3>1, ReportsAreNoReadings
    <2>3. CASE item \in Report \ Reports
      <3>1. PICK q \in Reports : item = [q EXCEPT !.recovered = TRUE]
        BY <2>3 DEF Report
      <3>2. [item EXCEPT !.recovered = TRUE] = item
        BY <3>1
      <3> QED BY <3>2, <2>3, ReportsAreNoReadings
    <2> QED BY <2>1, <2>2, <2>3 DEF IInv, ItemsOK
  <1>3. ItemsOK'
    BY <1>1, <1>2 DEF IInv, ItemsOK
  <1>4. ASSUME NEW r \in Readings'
        PROVE  \E q \in Readings :
                    /\ r.sequence = q.sequence /\ r.epoch = q.epoch
                    /\ r.generation = q.generation /\ r.payload = q.payload
    <2>1. CASE r \in inFlight
      <3>1. r \in Readings
        BY <2>1 DEF Readings, CounterReadings
      <3> QED BY <3>1
    <2>2. CASE r \notin inFlight
      <3>1. PICK item \in held : r = [item EXCEPT !.recovered = TRUE]
        BY <2>2, <1>1 DEF Readings, CounterReadings
      <3>2. r.payload.kind = "counter"
        BY DEF Readings, CounterReadings
      <3>3. item \in CounterReading /\ item \in Readings
        BY <3>1, <3>2, <1>2
      <3>4. /\ r.sequence = item.sequence /\ r.epoch = item.epoch
            /\ r.generation = item.generation /\ r.payload = item.payload
        BY <3>1, <3>3 DEF CounterReading
      <3> QED BY <3>3, <3>4
    <2> QED BY <2>1, <2>2
  <1> QED BY <1>1, <1>3, <1>4, EvidenceSteps

-----------------------------------------------------------------------------
(* Every step keeps the invariant.                                         *)
LEMMA NextKeeps ==
    ASSUME MeteringAssumption, IInv, [Next]_vars
    PROVE  IInv'
  <1>1. CASE \E n \in Increments : Drop(n)
    BY <1>1, DropKeeps
  <1>2. device \in DeviceType
    BY DEF IInv, DeviceOK, DeviceType
  <1>3. CASE Reset
    <2> DEFINE after == [device EXCEPT !.value = 0]
    <2>1. /\ after \in DeviceType /\ after.readings = device.readings /\ after.value = 0
          /\ after.epoch = device.epoch /\ after.generation = device.generation
          /\ device.epoch \in Nat /\ device.generation \in Nat
      BY <1>2 DEF DeviceType
    <2>2. Fault(after)
      BY <1>3 DEF Reset
    <2> HIDE DEF after
    <2> QED BY <2>1, <2>2, FaultKeeps
  <1>4. ASSUME NEW value \in Restarted, Restart(value)
        PROVE  IInv'
    <2> DEFINE after == [device EXCEPT !.epoch = @ + 1, !.value = value]
    <2>1. value \in Nat
      BY DEF MeteringAssumption
    <2>2. /\ after \in DeviceType /\ after.readings = device.readings
          /\ after.epoch = device.epoch + 1 /\ after.generation = device.generation
          /\ device.epoch \in Nat /\ device.generation \in Nat
      <3>1. device.epoch + 1 \in Nat /\ device.generation + 1 \in Nat
        BY <1>2 DEF DeviceType
      <3> QED BY <3>1, <1>2, <2>1, DeviceChanges DEF DeviceType
    <2>3. Fault(after)
      BY <1>4 DEF Restart
    <2> HIDE DEF after
    <2> QED BY <2>2, <2>3, FaultKeeps
  <1>5. ASSUME NEW value \in Restarted, Rebind(value)
        PROVE  IInv'
    <2> DEFINE after == [device EXCEPT !.generation = @ + 1, !.value = value]
    <2>1. value \in Nat
      BY DEF MeteringAssumption
    <2>2. /\ after \in DeviceType /\ after.readings = device.readings
          /\ after.epoch = device.epoch /\ after.generation = device.generation + 1
          /\ device.epoch \in Nat /\ device.generation \in Nat
      <3>1. device.epoch + 1 \in Nat /\ device.generation + 1 \in Nat
        BY <1>2 DEF DeviceType
      <3> QED BY <3>1, <1>2, <2>1, DeviceChanges DEF DeviceType
    <2>3. Fault(after)
      BY <1>5 DEF Rebind
    <2> HIDE DEF after
    <2> QED BY <2>2, <2>3, FaultKeeps
  <1>6. CASE SetClockBack
    <2> DEFINE after == [device EXCEPT !.clock = @ - 1]
    <2>1. /\ after \in DeviceType /\ after.readings = device.readings
          /\ after.value = device.value
          /\ after.epoch = device.epoch /\ after.generation = device.generation
          /\ device.epoch \in Nat /\ device.generation \in Nat
      BY <1>2, <1>6 DEF SetClockBack, DeviceType
    <2>2. Fault(after)
      BY <1>6 DEF SetClockBack
    <2> HIDE DEF after
    <2> QED BY <2>1, <2>2, FaultKeeps
  <1>7. CASE Read
    BY <1>7, ReadKeeps
  <1>8. CASE \E item \in inFlight : Deliver(item)
    BY <1>8, DeliverKeeps
  <1>9. CASE Query \/ UNCHANGED vars
    <2>1. UNCHANGED <<device, dropped, inFlight, held>>
      BY <1>9 DEF Query, vars
    <2>2. ItemsOK' /\ Readings' = Readings
      BY <2>1 DEF IInv, ItemsOK, Readings, CounterReadings
    <2> QED BY <2>1, <2>2, EvidenceSteps
  <1>10. CASE ProcessRestart
    BY <1>10, ProcessRestartKeeps
  <1> QED BY <1>1, <1>3, <1>4, <1>5, <1>6, <1>7, <1>8, <1>9, <1>10 DEF Next

(* derive_counter_deltas never believes more loss than there was between   *)
(* two readings, whatever resets, restarts, rebindings and clocks do and   *)
(* however often the counter goes over its top.                            *)
THEOREM LossNeverInvented == Spec => []LossIsReal
  <1>1. Init => IInv
    BY InitHolds, MeteringAssumption
  <1>2. IInv /\ [Next]_vars => IInv'
    BY NextKeeps, MeteringAssumption
  <1>3. IInv => LossIsReal
    BY InvariantSuffices, MeteringAssumption
  <1> QED BY <1>1, <1>2, <1>3, PTL DEF Spec

==============================================================================
