--------------------------- MODULE TurretController ---------------------------
(***************************************************************************)
(* The serial driver of raspi/src/turret_controller.cpp: the frame loop    *)
(* queues movement and fire commands and raises a safe-lock flag, a worker *)
(* thread opens the port and writes them to the turret.  The ASCII and the *)
(* binary protocol differ in framing only; a command here is what either   *)
(* frame says.                                                             *)
(*                                                                         *)
(* The port and the turret board are not part of the repository.  They are *)
(* modelled from what the driver can observe of them: a descriptor whose   *)
(* device has been unplugged fails every write for good, a device that     *)
(* stops reading makes write() answer EAGAIN, and the board remembers the  *)
(* last order it received.                                                 *)
(***************************************************************************)
EXTENDS Naturals, Sequences

CONSTANTS Poses,     \* pan/tilt pairs a caller may ask for
          Origin,    \* <<0, 0>>, the pose the driver assumes at start
          QueueMax   \* bound on the (unbounded) command queue

ASSUME TurretAssumption == Origin \in Poses /\ QueueMax \in Nat

VARIABLES
    queue,      \* m_cmdQueue / m_binQueue
    lastPose,   \* m_lastPan, m_lastTilt
    lastFire,   \* m_lastFire
    safeLock,   \* m_safeLock
    running,    \* m_running
    fd,         \* m_fd: "none", a "live" descriptor, or a "dead" one
    worker,     \* where the worker thread is in workerLoop
    owner,      \* the thread that owns the driver: in use, in the destructor, after it
    plugged,    \* the turret's serial device is present
    stalled,    \* the device does not drain its input
    board,      \* the last orders the turret board received
    owed        \* a safe lock was requested and no <S> has been delivered since

driver_vars == <<queue, lastPose, lastFire, safeLock, running>>
device_vars == <<plugged, stalled>>
turret_vars == <<driver_vars, device_vars, fd, worker, owner, board, owed>>

\* <M:pan,tilt> and <F:0/1>, or the Aim and Trigger frames.
Move(pose) == [kind |-> "M", val |-> pose]
Fire(on)   == [kind |-> "F", val |-> on]
Commands   == [kind : {"M"}, val : Poses] \union [kind : {"F"}, val : BOOLEAN]
Boards     == [M : Poses, F : BOOLEAN]

Open == fd # "none"

TurretTypeOK ==
    /\ queue \in Seq(Commands)
    /\ lastPose \in Poses /\ lastFire \in BOOLEAN
    /\ safeLock \in BOOLEAN /\ running \in BOOLEAN
    /\ fd \in {"none", "live", "dead"}
    /\ worker \in {"check", "exchange", "writeSafe", "lock", "drain", "done"}
    /\ owner \in {"up", "joining", "gone"}
    /\ plugged \in BOOLEAN /\ stalled \in BOOLEAN
    /\ board \in Boards
    /\ owed \in BOOLEAN

-----------------------------------------------------------------------------
\* The constructor starts the worker.
TurretInit ==
    /\ queue = <<>>
    /\ lastPose = Origin /\ lastFire = FALSE
    /\ safeLock = FALSE /\ running = TRUE
    /\ fd = "none" /\ worker = "check" /\ owner = "up"
    /\ plugged \in BOOLEAN /\ stalled = FALSE
    /\ board = [M |-> Origin, F |-> FALSE]
    /\ owed = FALSE

\* The worker holds m_queueMutex from "lock" until the queue is empty.
QueueFree == worker # "drain"

\* Only what differs from the last queued order is queued again.
PoseOrder(pose) == IF pose # lastPose THEN <<Move(pose)>> ELSE <<>>
FireOrder(on)   == IF on # lastFire THEN <<Fire(on)>> ELSE <<>>

\* Faulty variant: any change of the pose also marks the fire order as sent.
sendCommandOneOrder(pose, on) ==
    /\ owner = "up" /\ QueueFree
    /\ Len(queue) + 2 <= QueueMax
    /\ queue' = queue \o (IF pose # lastPose THEN PoseOrder(pose) ELSE FireOrder(on))
    /\ lastPose' = pose /\ lastFire' = on
    /\ UNCHANGED <<safeLock, running, device_vars, fd, worker, owner, board, owed>>

sendCommand(pose, on) ==
    /\ owner = "up" /\ QueueFree
    /\ Len(queue) + 2 <= QueueMax
    /\ queue' = (queue \o PoseOrder(pose)) \o FireOrder(on)
    /\ lastPose' = pose /\ lastFire' = on
    /\ UNCHANGED <<safeLock, running, device_vars, fd, worker, owner, board, owed>>

sendSafeLock ==
    /\ owner = "up"
    /\ safeLock' = TRUE /\ owed' = TRUE
    /\ UNCHANGED <<queue, lastPose, lastFire, running, device_vars, fd, worker,
                   owner, board>>

\* ~TurretController: stop the worker, then join it, then close the port.
Destroy ==
    /\ owner = "up"
    /\ running' = FALSE /\ owner' = "joining"
    /\ UNCHANGED <<queue, lastPose, lastFire, safeLock, device_vars, fd, worker,
                   board, owed>>

Join ==
    /\ owner = "joining" /\ worker = "done"
    /\ owner' = "gone" /\ fd' = "none"
    /\ UNCHANGED <<driver_vars, device_vars, worker, board, owed>>

-----------------------------------------------------------------------------
\* openPort() succeeds only on a present device, and may fail even then.
OpenPort == fd' \in (IF plugged THEN {"none", "live"} ELSE {"none"})

\* The loop head of workerLoop, with the sleeps of its two branches.
Check ==
    /\ worker = "check"
    /\ IF ~running THEN worker' = "done" /\ UNCHANGED fd
       ELSE IF ~Open THEN OpenPort /\ UNCHANGED worker
       ELSE worker' = "exchange" /\ UNCHANGED fd
    /\ UNCHANGED <<driver_vars, device_vars, owner, board, owed>>

\* Faulty variant: the flag is taken, but waiting commands go first.
ExchangeQueueFirst ==
    /\ worker = "exchange"
    /\ safeLock' = FALSE
    /\ worker' = IF safeLock /\ queue = <<>> THEN "writeSafe" ELSE "lock"
    /\ UNCHANGED <<queue, lastPose, lastFire, running, device_vars, fd, owner,
                   board, owed>>

Exchange ==
    /\ worker = "exchange"
    /\ safeLock' = FALSE
    /\ worker' = IF safeLock THEN "writeSafe" ELSE "lock"
    /\ UNCHANGED <<queue, lastPose, lastFire, running, device_vars, fd, owner,
                   board, owed>>

\* Faulty variant: the EAGAIN loop does not look at m_running.
WriteStubborn(Received) ==
    \/ /\ fd = "live" /\ ~stalled
       /\ Received
    \/ /\ fd # "live"
       /\ UNCHANGED <<board, owed>>

(***************************************************************************)
(* writeBytes: the bytes reach the board, or the device is gone, or the    *)
(* driver is being destroyed and the loop gives up.  While the device      *)
(* stalls it retries (EAGAIN, 1 ms) and no branch is enabled.              *)
(***************************************************************************)
Write(Received) ==
    \/ /\ fd = "live" /\ ~stalled /\ running
       /\ Received
    \/ /\ fd # "live" \/ ~running
       /\ UNCHANGED <<board, owed>>

\* Faulty variant: a new round starts after <S> without looking at the queue.
WriteSafeOnly ==
    /\ worker = "writeSafe"
    /\ Write(owed' = FALSE /\ UNCHANGED board)
    /\ worker' = "check"
    /\ UNCHANGED <<driver_vars, device_vars, fd, owner>>

\* A delivered <S> serves every request made before it.
WriteSafe ==
    /\ worker = "writeSafe"
    /\ Write(owed' = FALSE /\ UNCHANGED board)
    /\ worker' = "lock"
    /\ UNCHANGED <<driver_vars, device_vars, fd, owner>>

LockQueue ==
    /\ worker = "lock"
    /\ worker' = "drain"
    /\ UNCHANGED <<driver_vars, device_vars, fd, owner, board, owed>>

Obeyed(cmd) == [board EXCEPT ![cmd.kind] = cmd.val]

\* One round of the loop over the queue: write the front, then pop it.
DrainOne ==
    /\ worker = "drain" /\ queue # <<>>
    /\ Write(board' = Obeyed(Head(queue)) /\ UNCHANGED owed)
    /\ queue' = Tail(queue)
    /\ UNCHANGED <<lastPose, lastFire, safeLock, running, device_vars, fd, worker, owner>>

Drained ==
    /\ worker = "drain" /\ queue = <<>>
    /\ worker' = "check"
    /\ UNCHANGED <<driver_vars, device_vars, fd, owner, board, owed>>

Worker == Check \/ Exchange \/ WriteSafe \/ LockQueue \/ DrainOne \/ Drained

-----------------------------------------------------------------------------
\* Unplugging kills the open descriptor; plugging back in does not revive it.
Unplug ==
    /\ plugged
    /\ plugged' = FALSE
    /\ fd' = IF fd = "live" THEN "dead" ELSE fd
    /\ UNCHANGED <<driver_vars, stalled, worker, owner, board, owed>>

Replug ==
    /\ ~plugged
    /\ plugged' = TRUE
    /\ UNCHANGED <<driver_vars, stalled, fd, worker, owner, board, owed>>

Stall ==
    /\ stalled' = ~stalled
    /\ UNCHANGED <<driver_vars, plugged, fd, worker, owner, board, owed>>

Device == Unplug \/ Replug \/ Stall

Owner == \/ \E pose \in Poses, on \in BOOLEAN : sendCommand(pose, on)
         \/ sendSafeLock \/ Destroy \/ Join

TurretNext == Owner \/ Worker \/ Device

TurretSpec == TurretInit /\ [][TurretNext]_turret_vars

\* The worker thread is scheduled, and a destructor that can return does.
FairTurretSpec == TurretSpec /\ WF_turret_vars(Worker) /\ WF_turret_vars(Join)

-----------------------------------------------------------------------------
(***************************************************************************)
(* sendCommand queues only what differs from m_last*.  That is right only  *)
(* if m_last* is what the board will believe once the queue is written,    *)
(* however the worker and the frame loop interleave: then leaving out an   *)
(* unchanged order leaves out nothing.  It holds while no write can fail   *)
(* (workerLoop pops a command whatever writeBytes returned).               *)
(***************************************************************************)
NoneOf(kind, q)    == \A j \in 1..Len(q) : q[j].kind # kind
LastOf(kind, i, q) == q[i].kind = kind /\ \A j \in (i + 1)..Len(q) : q[j].kind # kind

\* Once q is obeyed, a board that believes "now" of this kind believes "newest".
LeadsTo(kind, q, now, newest) ==
    /\ NoneOf(kind, q) => now = newest
    /\ \A i \in 1..Len(q) : LastOf(kind, i, q) => q[i].val = newest

PortIntact == fd # "dead" /\ running

LatchesAreNewest ==
    PortIntact => /\ LeadsTo("M", queue, board.M, lastPose)
                  /\ LeadsTo("F", queue, board.F, lastFire)

\* The worker keeps the port open for the whole round, and a destructor that
\* has begun has already told it to stop.
PortHeld ==
    /\ worker \in {"exchange", "writeSafe", "lock", "drain"} => Open
    /\ owner # "up" => ~running

\* The inductive invariant behind the theorems of TurretController_proofs.
TurretInv == TurretTypeOK /\ PortHeld /\ LatchesAreNewest

(***************************************************************************)
(* A safe-lock request is never lost between the two threads: until <S> is *)
(* delivered the flag is up or the worker is about to write it             *)
(* (m_safeLock is cleared before the write), while no write can fail.      *)
(***************************************************************************)
SafeLockRemembered == PortIntact /\ owed => safeLock \/ worker = "writeSafe"

(***************************************************************************)
(* An order to cease fire reaches the board, unless fire is ordered again, *)
(* the port dies, the device keeps stalling or the driver is destroyed.    *)
(***************************************************************************)
Excused == stalled \/ ~PortIntact

CeaseFireArrives == []<>Excused \/ (Open /\ ~lastFire ~> ~board.F \/ lastFire)

(***************************************************************************)
(* A requested safe lock is delivered, with the same excuses.              *)
(***************************************************************************)
SafeLockArrives == []<>Excused \/ (Open /\ owed ~> ~owed)

(***************************************************************************)
(* The destructor's join returns, even if the device stalls for ever while *)
(* the worker holds the queue mutex in the middle of a write.              *)
(***************************************************************************)
DestructorReturns == owner = "joining" ~> owner = "gone"

(***************************************************************************)
(* What _extra/TEKNIK_DOKUMAN.md and the comment at combat_pipeline.cpp:217*)
(* say of the driver: when the port breaks, the worker opens it again.     *)
(***************************************************************************)
PortIsReopened == running /\ fd = "dead" ~> ~(running /\ fd = "dead")
=============================================================================
