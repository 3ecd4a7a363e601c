----------------------- MODULE TurretController_proofs -----------------------
(* The serial driver's latch theorem, for every set of poses and every queue *)
(* bound: TLC checks it for two poses and four queued orders.                *)
EXTENDS TurretController, SequenceTheorems, TLAPS

-----------------------------------------------------------------------------
(* Two lemmas on the orders in flight.                                       *)

\* A command names its kind, and carries a value of that kind.
LEMMA CommandKinds ==
    ASSUME NEW c \in Commands
    PROVE  \/ c.kind = "M" /\ c.val \in Poses
           \/ c.kind = "F" /\ c.val \in BOOLEAN
  BY DEF Commands

\* Queueing an order makes it the newest of its kind, and of no other.
LEMMA QueueingLeads ==
    ASSUME NEW q \in Seq(Commands), NEW c \in Commands, NEW kind, NEW now, NEW newest,
           LeadsTo(kind, q, now, newest)
    PROVE  LeadsTo(kind, q \o <<c>>, now, IF c.kind = kind THEN c.val ELSE newest)
<1> DEFINE r == q \o <<c>>
<1>1. /\ Len(q) \in Nat /\ Len(r) = Len(q) + 1
      /\ \A i \in 1..Len(q) : r[i] = q[i]
      /\ r[Len(q) + 1] = c
  <2>1. <<c>> \in Seq(Commands) /\ Len(<<c>>) = 1 /\ <<c>>[1] = c
    OBVIOUS
  <2> QED
    BY <2>1, ConcatProperties, LenProperties
<1> HIDE DEF r
<1>2. CASE c.kind = kind
  BY <1>1, <1>2 DEF LeadsTo, NoneOf, LastOf
<1>3. CASE c.kind # kind
  BY <1>1, <1>3 DEF LeadsTo, NoneOf, LastOf
<1> QED
  BY <1>2, <1>3 DEF r

\* Obeying the front order leaves the rest leading to the same newest order.
LEMMA ObeyingLeads ==
    ASSUME NEW q \in Seq(Commands), q # <<>>, NEW kind, NEW now, NEW newest,
           LeadsTo(kind, q, now, newest)
    PROVE  LeadsTo(kind, Tail(q), IF Head(q).kind = kind THEN Head(q).val ELSE now, newest)
<1> DEFINE r == Tail(q)
<1>1. /\ Len(q) \in Nat /\ Len(q) # 0 /\ Len(r) = Len(q) - 1
      /\ \A i \in 1..Len(r) : r[i] = q[i + 1]
      /\ Head(q) = q[1]
  BY HeadTailProperties, LenProperties, EmptySeq
<1> HIDE DEF r
<1>2. \A i \in 1..Len(r) : LastOf(kind, i, r) => LastOf(kind, i + 1, q)
  <2> SUFFICES ASSUME NEW i \in 1..Len(r), LastOf(kind, i, r),
                      NEW j \in (i + 2)..Len(q)
               PROVE  q[j].kind # kind
    BY <1>1 DEF LastOf
  <2> j - 1 \in (i + 1)..Len(r) /\ r[j - 1] = q[j]
    BY <1>1
  <2> QED
    BY DEF LastOf
<1>3. NoneOf(kind, r) => \/ NoneOf(kind, q)
                         \/ LastOf(kind, 1, q)
  <2> SUFFICES ASSUME NoneOf(kind, r)
               PROVE  \A j \in 2..Len(q) : q[j].kind # kind
    BY <1>1 DEF NoneOf, LastOf
  <2> \A j \in 2..Len(q) : j - 1 \in 1..Len(r) /\ r[j - 1] = q[j]
    BY <1>1
  <2> QED
    BY DEF NoneOf
<1>4. ASSUME NoneOf(kind, r)
      PROVE  (IF Head(q).kind = kind THEN Head(q).val ELSE now) = newest
  <2>1. CASE Head(q).kind = kind
    BY <1>1, <1>3, <1>4, <2>1 DEF LeadsTo, NoneOf
  <2>2. CASE Head(q).kind # kind
    BY <1>1, <1>3, <1>4, <2>2 DEF LeadsTo, LastOf
  <2> QED
    BY <2>1, <2>2
<1>5. ASSUME NEW i \in 1..Len(r), LastOf(kind, i, r)
      PROVE  r[i].val = newest
  BY <1>1, <1>2, <1>5 DEF LeadsTo
<1> QED
  BY <1>4, <1>5 DEF LeadsTo, r

-----------------------------------------------------------------------------
(* The driver's invariant: its types, that the worker keeps its port for a   *)
(* whole round, and that m_last* is what the board will believe in the end.  *)

LEMMA TurretInitially == TurretInit => TurretInv
<1> SUFFICES ASSUME TurretInit PROVE TurretInv
  OBVIOUS
<1>1. TurretTypeOK /\ PortHeld
  <2>1. queue = <<>> /\ queue \in Seq(Commands)
    BY EmptySeq DEF TurretInit
  <2>2. board \in Boards
    BY TurretAssumption DEF TurretInit, Boards
  <2> QED
    BY <2>1, <2>2, TurretAssumption DEF TurretInit, TurretTypeOK, PortHeld, Open
<1>2. LatchesAreNewest
  <2>1. /\ Len(queue) = 0
        /\ board.M = lastPose /\ board.F = lastFire
    BY EmptySeq DEF TurretInit
  <2> QED
    BY <2>1 DEF LatchesAreNewest, LeadsTo, NoneOf, LastOf
<1> QED
  BY <1>1, <1>2 DEF TurretInv

\* Steps that leave the orders alone, and no dead port comes back to life.
LEMMA QuietStep ==
    ASSUME LatchesAreNewest, UNCHANGED <<queue, lastPose, lastFire, board>>,
           PortIntact' => PortIntact
    PROVE  LatchesAreNewest'
  BY DEF LatchesAreNewest, LeadsTo, NoneOf, LastOf

LEMMA sendCommandKeeps ==
    ASSUME TurretInv, NEW pose \in Poses, NEW on \in BOOLEAN, sendCommand(pose, on)
    PROVE  TurretInv'
<1> USE DEF TurretInv
<1> DEFINE q1 == queue \o PoseOrder(pose)
           q2 == q1 \o FireOrder(on)
<1>1. /\ Move(pose) \in Commands /\ Move(pose).kind = "M" /\ Move(pose).val = pose
      /\ Fire(on) \in Commands /\ Fire(on).kind = "F" /\ Fire(on).val = on
  BY DEF Commands, Move, Fire
<1>2. \A q \in Seq(Commands) : q \o <<>> = q
  BY ConcatEmptySeq
<1>3. queue \in Seq(Commands) /\ q1 \in Seq(Commands) /\ q2 \in Seq(Commands)
  BY <1>1 DEF TurretTypeOK, PoseOrder, FireOrder
<1>4. PortIntact' = PortIntact /\ board' = board
      /\ lastPose' = pose /\ lastFire' = on /\ queue' = q2
  BY DEF sendCommand, PortIntact, driver_vars
<1>5. TurretTypeOK' /\ PortHeld'
  BY <1>3, <1>4 DEF sendCommand, TurretTypeOK, PortHeld, Open, device_vars
<1>6. ASSUME PortIntact
      PROVE  LeadsTo("M", q1, board.M, pose) /\ LeadsTo("F", q1, board.F, lastFire)
  <2>1. LeadsTo("M", queue, board.M, lastPose) /\ LeadsTo("F", queue, board.F, lastFire)
    BY <1>6 DEF LatchesAreNewest
  <2>2. CASE pose = lastPose
    BY <2>1, <2>2, <1>2, <1>3 DEF PoseOrder
  <2>3. CASE pose # lastPose
    <3> q1 = queue \o <<Move(pose)>>
      BY <2>3 DEF PoseOrder
    <3> QED
      BY <2>1, <1>1, <1>3, QueueingLeads, Zenon
  <2> QED
    BY <2>2, <2>3
<1>7. ASSUME PortIntact
      PROVE  LeadsTo("M", q2, board.M, pose) /\ LeadsTo("F", q2, board.F, on)
  <2>1. CASE on = lastFire
    BY <1>6, <1>7, <2>1, <1>2, <1>3 DEF FireOrder
  <2>2. CASE on # lastFire
    <3> q2 = q1 \o <<Fire(on)>>
      BY <2>2 DEF FireOrder
    <3> HIDE DEF q1
    <3> QED
      BY <1>6, <1>7, <1>1, <1>3, QueueingLeads, Zenon
  <2> QED
    BY <2>1, <2>2
<1>8. LatchesAreNewest'
  <2> HIDE DEF q1, q2
  <2> SUFFICES ASSUME PortIntact'
               PROVE  LeadsTo("M", q2, board.M, pose) /\ LeadsTo("F", q2, board.F, on)
    BY <1>4 DEF LatchesAreNewest, LeadsTo, NoneOf, LastOf
  <2> QED
    BY <1>4, <1>7
<1> QED
  BY <1>5, <1>8

LEMMA DrainOneKeeps ==
    ASSUME TurretInv, DrainOne
    PROVE  TurretInv'
<1> USE DEF TurretInv
<1> DEFINE c == Head(queue)
<1>1. queue \in Seq(Commands) /\ queue # <<>> /\ queue' = Tail(queue)
  BY DEF TurretTypeOK, DrainOne
<1>2. c \in Commands /\ queue' \in Seq(Commands)
  BY <1>1, HeadTailProperties
<1>3. board' \in Boards
  <2>1. \/ board' = board
        \/ board' = Obeyed(c)
    BY DEF DrainOne, Write
  <2>2. Obeyed(c) \in Boards
    BY <1>2, CommandKinds DEF Obeyed, Boards, TurretTypeOK
  <2> QED
    BY <2>1, <2>2 DEF TurretTypeOK
<1>4. TurretTypeOK' /\ PortHeld'
  BY <1>2, <1>3 DEF DrainOne, Write, TurretTypeOK, PortHeld, Open, device_vars
<1>5. ASSUME PortIntact'
      PROVE  /\ PortIntact
             /\ board'.M = IF c.kind = "M" THEN c.val ELSE board.M
             /\ board'.F = IF c.kind = "F" THEN c.val ELSE board.F
  <2>1. PortIntact /\ fd # "none"
    BY <1>5 DEF DrainOne, PortIntact, PortHeld, Open
  <2>2. board' = Obeyed(c)
    BY <2>1 DEF DrainOne, Write, PortIntact, TurretTypeOK
  <2> QED
    BY <2>1, <2>2, <1>2, CommandKinds DEF Obeyed, Boards, TurretTypeOK
<1>6. LatchesAreNewest'
  <2> SUFFICES ASSUME PortIntact'
               PROVE  /\ LeadsTo("M", queue', board'.M, lastPose)
                      /\ LeadsTo("F", queue', board'.F, lastFire)
    BY DEF LatchesAreNewest, DrainOne, LeadsTo, NoneOf, LastOf
  <2>1. /\ LeadsTo("M", queue, board.M, lastPose)
        /\ LeadsTo("F", queue, board.F, lastFire)
    BY <1>5 DEF LatchesAreNewest
  <2>2. LeadsTo("M", Tail(queue), IF c.kind = "M" THEN c.val ELSE board.M, lastPose)
    BY <1>1, <2>1, ObeyingLeads, Zenon
  <2>3. LeadsTo("F", Tail(queue), IF c.kind = "F" THEN c.val ELSE board.F, lastFire)
    BY <1>1, <2>1, ObeyingLeads, Zenon
  <2> QED
    BY <1>1, <1>5, <2>2, <2>3
<1> QED
  BY <1>4, <1>6

LEMMA TurretStep == TurretInv /\ [TurretNext]_turret_vars => TurretInv'
<1> SUFFICES ASSUME TurretInv, [TurretNext]_turret_vars PROVE TurretInv'
  OBVIOUS
<1> USE DEF TurretInv
<1>1. ASSUME NEW pose \in Poses, NEW on \in BOOLEAN, sendCommand(pose, on)
      PROVE  TurretInv'
  BY <1>1, sendCommandKeeps
<1>2. CASE DrainOne
  BY <1>2, DrainOneKeeps
<1> USE DEF TurretTypeOK, PortHeld, Open, driver_vars, device_vars, PortIntact
<1>3. CASE sendSafeLock
  BY <1>3, QuietStep DEF sendSafeLock
<1>4. CASE Destroy
  BY <1>4, QuietStep DEF Destroy
<1>5. CASE Join
  BY <1>5, QuietStep DEF Join
<1>6. CASE Check
  BY <1>6, QuietStep DEF Check, OpenPort
<1>7. CASE Exchange
  BY <1>7, QuietStep DEF Exchange
<1>8. CASE WriteSafe
  BY <1>8, QuietStep DEF WriteSafe, Write
<1>9. CASE LockQueue
  BY <1>9, QuietStep DEF LockQueue
<1>10. CASE Drained
  BY <1>10, QuietStep DEF Drained
<1>11. CASE Unplug
  BY <1>11, QuietStep DEF Unplug
<1>12. CASE Replug
  BY <1>12, QuietStep DEF Replug
<1>13. CASE Stall
  BY <1>13, QuietStep DEF Stall
<1>14. CASE UNCHANGED turret_vars
  BY <1>14, QuietStep DEF turret_vars
<1> QED
  BY <1>1, <1>2, <1>3, <1>4, <1>5, <1>6, <1>7, <1>8, <1>9, <1>10, <1>11, <1>12,
     <1>13, <1>14 DEF TurretNext, Owner, Worker, Device

(* Whatever the frame loop, the worker and the device do, and in whatever    *)
(* order, m_lastPan/m_lastTilt/m_lastFire are what the board will believe    *)
(* once the queued orders are written, as long as the port lives.            *)
THEOREM TurretInvariant == TurretSpec => []TurretInv
<1>1. TurretInit => TurretInv
  BY TurretInitially
<1>2. TurretInv /\ [TurretNext]_turret_vars => TurretInv'
  BY TurretStep
<1> QED
  BY <1>1, <1>2, PTL DEF TurretSpec

-----------------------------------------------------------------------------
LEMMA SafeLockStep ==
    TurretInv /\ SafeLockRemembered /\ [TurretNext]_turret_vars => SafeLockRemembered'
<1> SUFFICES ASSUME TurretInv, SafeLockRemembered, [TurretNext]_turret_vars
             PROVE  SafeLockRemembered'
  OBVIOUS
<1> USE DEF TurretInv, TurretTypeOK, PortHeld, Open, PortIntact, SafeLockRemembered,
            driver_vars, device_vars
<1>1. ASSUME NEW pose \in Poses, NEW on \in BOOLEAN, sendCommand(pose, on)
      PROVE  SafeLockRemembered'
  BY <1>1 DEF sendCommand
<1>2. CASE sendSafeLock \/ Destroy \/ Join
  BY <1>2 DEF sendSafeLock, Destroy, Join
<1>3. CASE Check \/ Exchange \/ LockQueue \/ Drained
  BY <1>3 DEF Check, OpenPort, Exchange, LockQueue, Drained
<1>4. CASE WriteSafe
  BY <1>4 DEF WriteSafe, Write
<1>5. CASE DrainOne
  BY <1>5 DEF DrainOne, Write
<1>6. CASE Unplug \/ Replug \/ Stall
  BY <1>6 DEF Unplug, Replug, Stall
<1>7. CASE UNCHANGED turret_vars
  BY <1>7 DEF turret_vars
<1> QED
  BY <1>1, <1>2, <1>3, <1>4, <1>5, <1>6, <1>7 DEF TurretNext, Owner, Worker, Device

(* A safe lock the frame loop asked for is not lost between the two threads. *)
THEOREM SafeLockIsRemembered == TurretSpec => []SafeLockRemembered
<1>1. TurretInit => SafeLockRemembered
  BY DEF TurretInit, SafeLockRemembered
<1> QED
  BY <1>1, TurretInvariant, SafeLockStep, PTL DEF TurretSpec
=============================================================================
