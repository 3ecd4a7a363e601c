# Sancak air defence: TLA+ models, model checking and proofs

This directory specifies the Sancak air-defence turret: the Raspberry Pi program
that finds balloons carried by aerial targets, decides which may be engaged,
aims a pan/tilt turret and gives it fire orders; the PC program that commands
it and shows its pictures; the links between them; and the firmware at the far
end of the serial lines. All paths below are relative to the repository root
(`src/raspi/...` in `PROJECT.json` is `raspi/...` here).

Contents

1. The system and its components (inventory)
2. The modules, and how they compose
3. Correspondence with the code, and the abstractions made
4. The runs: what each checks, its bounds, its fairness
5. What is proved, and how
6. Disagreements between code and documents
7. What is only model-checked, what is not modelled
8. Plan
9. Reproducing

## 1. The system and its components

```
  PC: App (UI) -> TelemetryClient --TCP lines--> TcpTelemetryServer --> command queue
                        ^---binary aim frames--------'                     |
      VideoReceiver <--UDP fragments-- UdpVideoStreamer <--frames--+       v
                                                                   |  CombatPipeline
  Pi: CameraController -> YoloDetector/IFF -> TargetTracker ->     +-- (frame loop)
      BalloonSegmentor/AimSolver -> CombatStateMachine -> TriggerController
                                                                           |
      TurretController (queue + worker thread) --serial--> turret board <--+

  Also on the Pi: TelemetrySender (aim results pushed to the PC), SerialComm with
  Receiver.ino (framed packets), arduino.cpp (text-driven servo board),
  InferenceWorker, AsyncUartSender (example), TrackingPipeline (predecessor).
```

| Component (source) | State it keeps | Operations | What is hard | What makes it correct |
|---|---|---|---|---|
| **TriggerController** `raspi/src/sancak/trigger_controller.cpp` | state, lock start, state start | update, reset | two timers shared by four states; polled at frame rate | a burst needs an uninterrupted lock, ends, and is followed by a cooldown |
| **TurretController** `raspi/src/turret_controller.cpp` | command queue, last pose / fire, safe-lock flag, port | sendCommand, sendSafeLock, destructor; worker loop | two threads, deduplication against latches, mutex held over writes, failing port | the board ends up with the newest orders; a safe lock is never lost; shutdown returns |
| **CombatStateMachine** `raspi/include/core/combat_state_machine.hpp` | rules, geofence | update, setRules, setGeofence | hand-written minimum; rules rewritten at run time | best eligible foe or nobody; never outside the fence |
| **CombatPipeline** `raspi/src/sancak/combat_pipeline.cpp` | mode, detection switch, pose, fence, HSV range, everything above | network commands, processFrame, keys, stop | six early returns, each with its own resets and orders; commands between any two frames; state of earlier frames reused | fire only with a reason; turret inside the fence; camera loss ends safe |
| **TargetTracker** `raspi/src/sancak/target_tracker.cpp` | tracks with id, IFF history, age, lost count | update, reset | two greedy passes, vote, ageing only on frames with detections | an object within reach keeps its id; ids unique; one misread frame decides nothing |
| **AimSolver, BallisticsManager, DistanceEstimator** | offsets, tables | solve, getPitchOffset | divisions by measured and configured quantities | every result is a number |
| **YoloDetector, IFF colours, BalloonSegmentor** | model, its lock, HSV ranges | initialize, detect, segment | reload during detection; rounding on the way to the model and back | a detection uses the model it believes in; boxes come back where they were |
| **CameraController** | capture handle | open, read, release | read may fail or block | - |
| **TcpTelemetryServer** `raspi/src/network/tcp_telemetry_server.cpp` | command queue (64, drop oldest), newest outgoing frame, one client | tryPopCommand, publishAimResult, serverLoop | single client, timeouts, dropped commands, signals | commands in order, newest kept; outlives its client |
| **TelemetrySender** `raspi/src/network/telemetry_sender.cpp` | queue (32, drop oldest), socket | start, stop, sendTelemetry, worker | lost items on failure, shutdown while connecting | order kept; stop returns |
| **UdpVideoStreamer / VideoReceiver** | newest frame / reassembly table | start, stop, submit, worker / fragment handling | lost, late, doubled fragments; frame ids that begin again | no picture has a hole; between two restarts of the Pi it is one picture |
| **TelemetryClient, App (PC)** | send queue, receive buffer, UI mode flags | sendCommand, clientLoop, switches | reconnection, resynchronisation, UI state that is a guess | commands reach the Pi in order; the last word counts |
| **SerialComm, PacketBuilder, Receiver.ino** | parser state, read thread | feedByte, loop, start / stop | byte loss, timeouts, length limits | exactly the frames that arrive whole are delivered |
| **InferenceWorker, AsyncUartSender** | one slot / queue, condition variable | push, worker, stop | lost wake-ups | the newest frame is used; stop returns |
| **arduino.cpp** | line buffer, servo positions, fire pulse | serialEvent, loop | commands glued, cut off or read in pieces; timer polled | lines carried out in order, none twice, a cut one never further than it says; servos in range; every pulse ends |
| **TrackingPipeline** and its motion detector (predecessor) | state, ROI, last target, previous frame | process | states left by timeouts, losses, mode changes | a report is fresh |
| **ConfigManager, main** | settings | loadFromFile, saveToFile, setters, command line | old and new names of one key in two sections; missing keys | what is saved is restored |
| **logger, MockLidar, earlier balloon detectors** | - | - | image statistics, a sine wave | - |

Interactions: the frame loop is one thread and calls tracker, solver, rule
engine, trigger and the turret driver directly; it shares a mutex-protected
queue with the server thread (commands), a mutex-protected queue and an atomic
flag with the turret worker (orders), one-slot buffers with the video and
telemetry threads, the detector's shared lock with whoever else detects, and a
cached distance with the lidar thread. The PC shares nothing with the Pi but a
TCP connection and datagrams; nothing tells the UI the Pi's modes.

`PROJECT.json` lists the hazards this code has, each at its line, with the
properties that cover it or the reason why none does.

## 2. The modules, and how they compose

| Module | Stands for |
|---|---|
| `TriggerController` | the trigger, with ages in place of time stamps |
| `FireDiscipline` | **abstract**: what the trigger promises to someone who sees the fire line only. `KeepsDiscipline` says `TriggerController` implements it |
| `TurretController` | frame loop against worker thread, with the mutex, the port, the device and the board |
| `CombatStateMachine` | rules, geofence, target selection, ORDER's rewriting of the rules |
| `TargetSelection` | drives the rule engine over vectors of targets and ORDERs, compares the one-pass loop with its definition |
| `CombatPipeline` | the frame loop: **composes** `TriggerController` and `CombatStateMachine` (their actions are parts of its actions) with tracks, pose, fence, mode, camera |
| `MCCombatCooldown` | `CombatPipeline` with a history variable for the time since the last fire order |
| `TargetTracker` | update with both passes, the vote, ids, reset |
| `BalloonRange` | the path of a slider: UI, SET command, HSV bounds, segmentor |
| `YoloDetector` | model, shared lock, FP16 command with its fallback |
| `DetectionGeometry` | letterbox, output layout, boxes back to the frame, the cut for the segmentor |
| `AimSolver` | distance, lidar, flight time, lead, correction table |
| `TrackingPipeline` | the earlier tracker with its motion detector |
| `ConfigManager` | load, save, set, command line, in the order `main` does them |
| `Components` | the parts above that the pipeline only uses, **side by side** |
| `OperatorConsole`, `TelemetryClient`, `TelemetryServer` | the UI's switches; the PC's thread and parser; the Pi's server thread and the head of the frame loop |
| `CommandLink` | **composes** these three over connections that break and a Pi that dies and is started again |
| `Subsequences` | what is left of a sequence when elements are dropped from it: the vocabulary of the paths |
| `LossyChannel` | **abstract**: a path may lose messages but doubles, reorders and invents none. Implemented by the command path and the aim path of `CommandLink`, by `TelemetrySender`, `AsyncUartSender` and `ServoBoard` |
| `PacketFrame` | the packet frame and its CRC; the CRC's table and the exclusive or of two bytes are parameters, which `MCSerialLink` gives the code's values |
| `FrameReceiver`, `SerialComm` | the board's parser; the Pi's port, read thread and parser |
| `SerialLink` | **composes** either with a line that loses, adds and delays bytes |
| `VideoStreamer`, `VideoReceiver` | sender and receiver of pictures |
| `TelemetrySender`, `InferenceWorker`, `AsyncUartSender`, `ServoBoard` | the threads and the board of these names |
| `Services` | the last four **side by side**, and with them the two ends of the video link **composed** over a network that loses, delays, doubles and reorders datagrams |
| `MC*` | values of the constants for TLC |
| `Subsequences_proofs` | lemmas on sequences and on paths, induction included |
| `CombatStateMachine_proofs` | the rule engine's loop and the rewriting of the rules, as operators |
| `CombatPipeline_proofs`, `TurretController_proofs`, `Components_proofs`, `Services_proofs`, `SerialLink_proofs`, `CommandLink_proofs` | the theorems about the specifications of these names (the trigger's are with the pipeline's, those of the other parts of `Components` with `Components`) |

`Components` and `Services` are sums, not products: a behaviour follows one of
their parts, chosen at the start, while the others keep their initial state.
The parts share nothing in the code either; what they do together is
`CombatPipeline`'s business. One run then explores every part completely, and
its state count is the sum of theirs.

## 3. Correspondence with the code, and the abstractions made

**Time.** The code compares `now - t0 >= duration`. The models keep the age
`now - t0`, advanced by a tick; `Unset` is the default `time_point{}`. Every
test is of that form, so an age may stop growing at the largest duration, which
makes the state finite without changing any answer. The same holds for the
watchdog, the servo board's pulse (`fire_age`), the ROI's timeout and, with one
bit each, the parsers' timeouts (`quiet`) and the 500 ms of a reassembly (`old`).

**Threads.** A thread's program counter has one value per point at which another
thread can observe or change something; what happens under one mutex is one
action. A condition variable is "asleep" plus a wake-up at each notification;
where the code notifies without the mutex (`Sender.cpp:104`) the place between
the test and the sleep is a state of its own (`drowsy`). stop() is three steps:
flag, notification, join.

**Trigger.** One action per way through `update`: `KeepFiring`, `EndBurst`,
`CoolDown`, `EndCooldown`, `TakeAim`, `OpenFire`. The pixel distance test is
the parameter `within`. `fire_flag` is the value last returned.

**Turret driver.** `writeBytes` succeeds, fails because the descriptor is dead,
or spins on EAGAIN while the device stalls (no action enabled) until
`m_running` is cleared. `owner` is the thread that uses the driver: `up`, in the
destructor, gone. ASCII and binary framing are the same commands. The device
(plugged, stalling) and the board (last orders received) are external: the
repository has no firmware for this protocol, so the model says no more than
that received orders are remembered. The constructor opens no port: the worker
does, on its first round.

**Pipeline.** A pass of the loop is: consume commands, then the body. Since one
thread does both, commands and bodies are interleaved as separate actions; a
body action contains everything from the early return's guard to the last
turret call. `lastPose`, `lastFire` and `safe` are the driver's latches; that
the board will come to believe them is `TurretInv` of `TurretController`, so
the two models compose by that interface.

| Code (`combat_pipeline.cpp`) | Action |
|---|---|
| 383-396 watchdog | `WatchdogFrame` |
| 398-406 empty frame | `EmptyFrame` |
| 409-419 detection off | `DetectionOffFrame` |
| 473-481 no detections | `NothingSeenFrame` |
| 485-626 tracker, aim loop, decision, fence, trigger, turret | `SeenFrame` |
| 746-781, 851-913, 959-1009 commands | `DETECT_*`, `MODE_*`, `MOVE`, `GEOFENCE`, `ORDER` |
| 669 the `a` key | `ToggleAutonomous` |
| 797-849 FP16 | `FP16Command` ... `FallsBack` (`YoloDetector`), `FP16` (`TelemetryServer`) |
| 915-957 SET | `SET` (`BalloonRange`) |

- What an image shows is chosen freely: which track is matched, with which class
  and affiliation, which detections start tracks, where a balloon is found and
  what the solver returns. What is *kept* from frame to frame (tracks, lost
  counts, old aims) follows the code. `TargetTracker` has the matching itself.
- `solve()` returns a valid aim exactly when the balloon was found
  (`aim_solver.cpp:47,96`); otherwise the loop continues before calling it
  (line 492) and the old aim stays.
- Angles are whole degrees; a correction below the 0.5 degree deadzone is 0.
- Jet and plane map to the same rule class (line 28-39), so one class stands for
  both. A target's position in the vector stands for its id.
- The fallback to the tracker's priority target (551-556) feeds telemetry only.
  `CombatState::Tracking` never comes from the state machine, so the trigger
  runs in Engaging only.
- `autonomous` starts with either value (a setting). The configured geofence is
  taken to be ordered, as in `raspi/config/sancak_config.yml`.
- `combat_pipeline.cpp:497-505` passes eight arguments where
  `aim_solver.hpp:50-58` declares nine (the projectile velocity is missing); the
  models follow the evident intent, a solution for the balloon found.

**Tracker.** A matching is any result the greedy loop can have after its sort:
equal candidates may be in any order (`Greedy`). Overlap is compared by
cross-multiplication instead of a quotient. Velocity, which nothing but drawing
and the aim use, is left out. Ages stop at `MaxAge`, beyond every threshold.

**Detector.** `detect` reads `ready_` without the lock, waits for the shared
lock, checks the session again; `initialize` takes the lock alone. The build
with ONNX Runtime is modelled (`SANCAK_USE_ONNXRUNTIME` is ON by default,
`raspi/CMakeLists.txt:35`). In `DetectionGeometry` the model network returns any
box that it could see; both axes are treated alike, fractions are exact and
rounded where the code rounds.

**Aim solver.** Centimetres and hundredths instead of floats, quotients rounded
down; `NaN` is a constant that is no number, produced by every division by zero
and kept by every operation. `std::sort` may leave entries of equal distance in
either order, so `addTableEntry` sorts by any permutation that does. Of gravity drop and parallax only whether they are defined
is kept.

**Configuration.** A file is a set of keys with small numbers; keys carry their
section. Which keys are required (read unconditionally, 0 when missing),
guarded, renamed or in two sections follows each `>>` and `empty()` of the
loader. Keys outside of a section are given the section "root". `program` is where `main` is. The program itself calls neither
`saveToFile` nor `setManualOffset` of the manager, but they are its interface.
`saveToFile` does not write the target rules, so `SavedIsRestored` is about the
rest.

**Command link.** Commands are numbered by the console; a line is two pieces, an
aim frame three (header, payload up to a possible newline byte, rest), so both
can be cut anywhere that matters. A connection is `up`, `down`, or `told` (a
`recv` has reported its reset, so that the next `send` raises SIGPIPE). On Linux
the Pi ignores nothing and passes no MSG_NOSIGNAL; the PC program is taken as
one where a failed `send` returns an error. The Pi runs headless as a service,
so the `a` key does not change the mode here. Text telemetry from the Pi is not
modelled since nothing sends it.

**Serial link.** The frame bytes, CRC included, are real; both parsers are
modelled state by state, the Pi's with its chunks of `read`. The line loses any
byte or shows a stray first header byte, and may pause anywhere. The CRC's
table and the exclusive or of two bytes are constants of `PacketFrame`:
`MCSerialLink` gives them the code's values, the proofs need no more than that
they stay within their widths (`CrcAssumption`). `read` returning 0 or an error
(a hung-up descriptor, `raspi/src/sancak/serial_comm.cpp:315-328`) is not modelled:
`select` then reports the descriptor ready for ever, so that the loop goes round with
a short sleep, the timeout branch is not reached and nothing is received any more. `NeverStuck` is
about a line that is silent or noisy, not one that is gone.

**Video.** `air` holds every datagram ever sent and never shrinks: the network
may deliver any of them at any time, again, or never. A JPEG is a size and the
number of the picture each chunk belongs to. The receiver knows a frame by its id
and starts anew when the announced sizes differ. A Pi that has restarted counts
from 1 again: when a picture of the same id and the same size follows one that was
left incomplete, both the code and the model put chunks of the two together.
`ShownWhole` therefore says where each chunk was sent for, and promises one picture
only while the Pi has not restarted. The header checks (lines 178-189) and the
branch for a whole JPEG in one datagram (228) are left out: `sendJpeg` produces
nothing that reaches them.

**Servo board.** A line is three pieces, two of its text and its end, so that it
can arrive, be read and be glued in parts, as `serialEvent` does with its missing
end-of-line test. Where the text is cut is decided when the first piece is parsed
alone, which takes an earlier end of line read together with it. Of a TARGET cut
after its comma, `parseCommand` reads the digits it has: the second number is one
of `Shortened`, the beginnings of the number sent (0 when there is no digit yet);
cut before the comma it is not understood, like a cut FIRE or MOVE. The rest of a
cut line starts with no command and is ignored. Text glued behind does not change a
number, since `toInt()` stops at the first character that is no digit. Bytes between
the Pi and the board are not lost here; `obeyed` keeps, with each line carried out,
the second number as it was read.

Definitions named "faulty variant" (for example `EngageAlways`) are bugs one
could plausibly write. No specification uses them; each shows that a property
would notice, when it replaces the definition that follows it.

## 4. The runs

Counts are distinct states; times are for two cores.

| Run | Questions | Bounds and why they suffice |
|---|---|---|
| `components` (209 k, 2 min) | see below | see below |
| `combat` (53 k, 1 min) | `SteeringInv`, `TurnsInsideFence`, `TurretReturns`: GEOFENCE changes the pose without telling the turret; aim, MOVE and GEOFENCE check the fence separately. `FireIsAuthorised`: modes change in mid-engagement. `CameraLossIsSafe`, `FireEnds`: commands may arrive for ever between frames | one track; burst 2, cooldown 2, watchdog 2 ticks, so each can expire inside another; three fences: wide, given the wrong way round, without the start pose |
| `priority` (39 k, 1 min) | `FireHasReason`, `FireOpensOnBest`: old aims and lost tracks compete, ORDER changes ranks; `StopLeavesNothing`: six branches reset different things | two classes with different ranges, two tracks (one engaged, one competing or lost), `max_lost` 1: matched, lost, erased all occur; no MOVE (in `combat`) |
| `serial` (372 k, 1.5 min) | `LinkInv`: buffers and the thread's life. `DeliversFrames`: which bytes end in a delivery. `NeverStuck`: resynchronisation, stop in the middle of a chunk | two frames and two faults: a frame cut off inside the other, with a stray byte; a payload that looks like a header |
| `services` (61 k, 1 min) | `PathsKeepOrder`, `NewestFrameIsUsed`, `StopsReturn`, `PulseEnds`, `ShownWhole`, `ServicesOK` | a queue of 2 with 4 items (dropped, being sent, reconnected); 3 pushes (old, newest, empty); 3 lines for the servo board (one whose end is read with the beginning of the next, one cut off, one glued); 2 pictures of 2 chunks before and after a restart, sizes that share a number of chunks, a cap of 1 |
| `command` (673 k, 3 min) | `LastWordCounts`, `ModelChoiceArrives`: is the UI's idea of the Pi true after losses; `BothWaysKeepOrder`, `CommandLinkOK` | two clicks (FULL_AUTO sends two commands), or two aim frames (one with a newline byte, one without), or one of each (`MaxWork`: the two paths meet only in a connection); a queue of 2 so that it overflows, one broken connection and one death of the Pi |
| `turret_reopen`, `balloon`, `cooldown`, `link_loss`, `config_defaults`, `sliders` | one sentence of a document each, violated: section 6 | as the runs above |

The parts of `components`:

| Part | Questions | Bounds |
|---|---|---|
| trigger | `TriggerInv`, `KeepsDiscipline`: two timers shared by four states, reset on different paths | the real durations at 50 ms a tick: 3, 10, 20 |
| rule engine | `RangesKept`, `ScanFindsBest`, `OrderIsObeyed`: one pass with two running minima; ORDERs that add, repeat or skip classes | up to 3 targets (a best, a challenger, a later one), three classes of which one has no configured rule |
| turret driver | `TurretInv`, `SafeLockRemembered`, `CeaseFireArrives`, `SafeLockArrives`, `DestructorReturns`: the flag is cleared before `<S>` is written, orders equal to the latches are dropped, the worker sleeps holding the mutex | two poses, a queue of 4: a stale and a newer order of both kinds at once |
| tracker | `TracksOK`, `NothingLeftToPair`, `OneFrameNeverFlips`: two greedy passes with separate bookkeeping; a vote over five frames with ties | three ids, boxes that overlap, are only near, or neither; ages past confirmation |
| configuration | `SavedIsRestored`: old and new names, two sections for one setting | files that are full, lack a key or a section, or use the old names |
| detector | `DetectsWithItsModel`: reload, failed reload and fallback during detection | two detecting threads, both models present; every load may fail |
| geometry | `BoxesComeBack`: rounding on the way in, truncation and clamping on the way back, the cut for the colours | nine frame sizes around an 8-pixel input, boxes that leave the frame by 3 pixels |
| aim solver | `AimIsANumber`: echoes that are missing, zero or smaller than the offset; equal table entries | three radii and speeds, tables up to 3 entries |
| earlier tracker | `ReportIsFresh`: loss, timeout and mode change around the reconfirmation counter | four places, interval 3, timeout 1 |

`components`, `serial`, `services` and `command` do not check for deadlock:
their bounds (on ids, submissions, clicks, frames) end a behaviour. The others
do.

**Fairness.** Safety needs none.

- Turret driver: the worker thread is scheduled and a join that can return does;
  the device may stall or stay unplugged for ever, which the liveness
  properties excuse explicitly (`Excused`).
- `FairCombatSpec`: time passes and frames are processed. `run()` justifies the
  second: it calls `processFrame` also when no frame could be read, and a frame
  consumes at most 64 commands (line 724). It does not hold while `camera_.read`
  or a model reload blocks the thread; both are listed as hazards. The camera
  itself has no fairness.
- `FairLinkSpec`: loop() is called for ever, the read thread is scheduled, time
  passes (`Pause`), a join that can return does. Nobody has to send or start.
- `FairServicesSpec`: threads are scheduled, a stop() goes on, loop() is called
  and millis() runs. Peers, devices and the network have none: every wait in
  these threads has a timeout, which is why stop() returns nevertheless.
- `FairCommandSpec`: the UI is drawn, both threads are scheduled and notice a
  connection that is gone, the frame loop takes commands. The UI draws at least
  once within the client's two seconds of backoff, so it sees every
  disconnection. The operator, the network and a dead Pi have no fairness:
  `ModelChoiceArrives` is about a Pi that is alive.

`StopsReturn` excuses one thing in `AsyncUartSender`: a stop() whose notification
falls between the worker's test and its sleep (`missed`), see the hazard at
`Sender.cpp:104`. For that sender the property therefore says nothing about the gap
itself, only that there is no other one.

## 5. What is proved

All for every value of the constants that the named ASSUMEs allow.

- **`TriggerInvariant`**, **`TriggerKeepsDiscipline`** (assumption
  `DurationAssumption`: durations are integers, negative ones included, since
  `initialize` clamps them). The invariant is `TriggerInv`: type, flag if and
  only if FIRING, and "the timer that will be read is running". The last part
  is what makes the rest inductive: without it `state_age >= burst_duration`
  could be asked of an unset timer. For the refinement each action maps to one
  action of `FireDiscipline` or to a stutter; the mapping of the waiting time,
  `WaitLeft`, is where cooldown and lock add up.
- **`TurretInvariant`**, **`SafeLockIsRemembered`** (`TurretAssumption`).
  `LatchesAreNewest` says: of each kind of order, the last one in the queue, or
  the board's if none is queued, equals the latch. Lemmas about appending to a
  queue and about removing its head carry it through `sendCommand` and
  `DrainOne`. It needs `PortHeld`: the worker never writes without a port.
- **`StopIsComplete`**: by the invariant itself, one step per action.
- **`SteeringInvariant`**, **`TurnsStayInside`** (`CombatAssumption`,
  `RulesAssumption`): the pose is inside the fence, or nothing has moved the
  turret from its start. The types of pose, fence and tracks are needed for
  the aims in the tracks to be integers; that `Updated` and `AimPass` keep
  tracks well typed is a lemma each.
- **`FireIsJustified`**: a fire order in force has a foe in sight with an aim.
  Uses `SteeringInv` and the lemma that the rule engine only engages a target
  of the vector that is a foe and not lost.
- **`FireIsOpenedWithReason`**: an action property; needs no invariant. Only a
  frame with detections raises the fire order (`OpeningStep`), and `update`
  reports fire only in a burst or after the lock (`FireNeedsLock`, which uses
  that durations are clamped).
- **`DetectorUsesItsModel`** (`DetectorAssumption`). Inductive with two more
  parts: flag, path and fallback name one model (`ModesAgree`), and the session
  is that of the detector's own configuration except while the lock is held
  alone (`SessionIsKnown`).
- **`ReportsAreFresh`** (`TrackingAssumption`). `FollowsClosely`: while a target
  is followed, the frames since it was seen are no more than those since the
  last confirmation.
- **`FireOpensOnTheBest`**: fire opens on a foe in sight that no target with a
  better rank competes with, whatever ORDERs have rearranged the rules. Needs
  `SteeringInv` for the types, and `ScanIsForemost` (`CombatStateMachine_proofs`):
  the loop with its two running minima selects a least eligible target, by
  induction over the vector; then that ranks compare as a total preorder.
- **`RangesAreKept`**, **`ScanIsCorrect`**, **`OrdersAreObeyed`**
  (`SelectionAssumption`): the rule engine on its own, for vectors and ORDERs of
  any length. An ORDER is a fold over its classes; what it does to the rules is
  shown for every prefix of it (`CombatStateMachine_proofs`).
- **`ServicesInvariant`**, **`PicturesAreWhole`**, **`PathsAreLossyChannels`**.
  One invariant for each service. Those of the threads say where each of them can
  be while the flag is up, stopping or down (`WorkerControl`, `SenderControl`,
  `StreamerControl`). The receiver's (`FramesOK`) says that a reassembly counts
  exactly the chunks it has, so that as many as announced are all of them
  (`AllChunks`), and that each was `Sent` for its place of a frame of this id and
  these sizes. That chunks of one id are of one picture (`NumbersAreFresh`) holds
  until the Pi restarts, and so does the second half of `ShownWhole`. The servo
  board's says that a number read is never more than the number sent
  (`ShortenedIsLess`); its refinement maps the lines carried out, whatever was read
  of them, to the messages delivered. For the refinement, each step of a path appends what is sent,
  delivers the first, or only loses (`Sends`, `Delivers`, `LeftOf` in
  `Subsequences_proofs`).
- **`LinkInvariant`** (`CrcAssumption`, `LinkAssumption`): `LinkInv` with the
  types of the line and the port, and `HalvesOK`: a checksum received by halves.
- **`DeliveryIsExact`**. Both parsers are mapped to one abstract parser (`View`):
  its state, what it holds and the CRC so far. `DeliveryInv` says that the running
  CRC is that of the bytes held (`Coherent`; the CRC is a run of a register over a
  sequence, so a byte more is a step more), that these are the last bytes received
  (`EndsIn`), and that a frame which has begun to arrive at a waiting parser is a
  beginning of what it holds (`Follows`). From this, a frame that arrives whole
  is delivered with its last byte, and what is delivered was the last bytes
  received *as `PacketBuilder` frames it*. It cannot say that only packets that
  were sent are delivered: with a 16 bit checksum other bytes may look like a
  frame, and a payload may contain one.
- **`CommandLinkInvariant`**: `CommandLinkOK` with the types; inductive as it
  stands, from the two halves (what the Pi's thread and the client's each know of
  their connection).
- **`BothPathsAreLossyChannels`**. The way of a command has four stretches (the
  Pi's queue, two connections, the console's queue); a step changes one or
  carries elements from one to the next, and `Lines` of a stream cut anywhere are
  the lines of its parts. For aim frames `StreamInv` is needed: in the bytes
  buffered and on the way, a header is followed by the rest of its frame as far
  as there is a rest, and the stream is complete while the connection is up. That
  is why the parser, which takes as many bytes as a header announces, never makes
  one frame of two, even after `CutLine` went through the middle of one. It also
  needs the client to clear its buffer when it connects.
- **`LastWordIsObeyed`**. Three parts: commands on the way are in the order of
  their numbers and later than all that have been obeyed (`InOrder`); the
  switches are what the last commands of each kind say, and a FULL_AUTO issued
  after the last DETECT command found detection on (`Says`); and what has been
  obeyed was done (`Follows`). The second conjunct of `Says` is the one that
  carries the weight: FULL_AUTO switches detection on, so without it the last
  DETECT:STOP could have been obeyed and yet detection be on.

- **`SavedConfigIsRestored`** needs one fact about states: a configuration in the
  program has every key and its flags are flags (`IsConfig`, kept by loading, by
  the setters and the command line). The rest is about `Loaded` and `Saved`, group
  by group: the required keys are written, the guarded ones are written unless
  they are restored otherwise, and a network setting that is looked for in two
  sections is found in the one it was written to (`NetworkIsSaved`).
- **`TracksStayOK`**, **`NothingIsLeftToPair`**, **`FlipsNeedTwoFrames`**
  (`TrackerAssumption`) share the invariant `TrackerOK`: `TracksOK` with the types,
  over any result the two greedy passes can have (`PassesGive`). A pair that was
  left over would have been a candidate of one of the passes, and a greedy pass
  ends only when each candidate clashes with a pair taken. For the vote
  (`MajorityOfLatest`): a followed track's history has at least two votes, so that
  whoever is strictly ahead has two; where nobody is, the affiliation shown stays,
  and has a vote still: none was dropped, or there are five votes, and five among
  three with nobody ahead are two, two and one.
- **`BoxesAlwaysComeBack`** (`GeometryAssumption`). With everything over the common
  denominator `Over`, the resized side differs from the exact one by at most half
  a pixel of the input (`ScaleIsNearOver`), the pasting place by another half
  (`UnmapSeen`), and both together are `Loss` pixels of the frame at most; two
  truncations make it `Slack` (`BackIsNear`). The arithmetic is not linear: each
  step is a lemma on quotients and products of integers.
- **`AimIsAlwaysANumber`** (`AimAssumption`: the configured diameter, focal length,
  least distance and muzzle velocity are positive, as in the shipped settings, and
  a balloon found has the segmentor's least radius at least; the other measures are
  any integers). The estimators return distances that are positive or
  absent, and their mean by weights that add up to at least one is positive; a
  lidar reading is used only when positive. The table is sorted in every state
  (`IsTable`), and the entry before the first one that is as far as the distance is
  nearer: what is divided by is positive, equal entries or not, and what is
  interpolated lies between two offsets (`BetweenIsBetween`).

**Induction.** The library's induction theorems take an operator, which the
installed provers cannot instantiate. `Subsequences_proofs` has its own, over
*sets*: a set of numbers with 0 and every successor holds all of them
(`Induction`, from the well-foundedness of `<` stated with sets), and a
recursive function on 0..n exists and is the only solution of its equations
(`Recursion`). What `Only`, the CRC, the scan of the rule engine, an ORDER and
the places of a subsequence compute follows from these two. The modules write
recursion as recursive functions for that reason.

## 6. Disagreements between code and documents

- **A broken port is not reopened** (`turret_reopen`). `_extra/TEKNIK_DOKUMAN.md:548`:
  "Port koparsa worker yeniden açmayı dener." `workerLoop` opens only while
  `m_fd` is closed; a failing write leaves it open. The run shows a behaviour in
  which the device is unplugged, and plugged in again, and the descriptor stays dead.
- **Fire outlives the balloon** (`balloon`). `_extra/TEKNIK_DOKUMAN.md:794-796`: take the
  balloon out of the picture, "Engaging devam etmemeli; ateş komutu kesilmeli."
  If the carrier is still detected, line 492 skips the track and its old aim
  stays valid: Engaging and the burst go on with it.
- **The cooldown can be skipped** (`cooldown`). `trigger_controller.hpp:30`: the
  waiting time between two shots; `_extra/TEKNIK_DOKUMAN.md:495`: after a burst
  fire is false for `cooldown_ms`. One frame without detections resets the
  trigger (line 476), after which only the lock time is waited for.
- **The loss of the PC can end the Pi's program** (`link_loss`).
  `_extra/TEKNIK_DOKUMAN.md:690`: the safety layers go on working when the PC is
  gone. `recv` reporting a reset is taken for a timeout
  (`tcp_telemetry_server.cpp`), the next aim frame is sent without MSG_NOSIGNAL,
  and nothing handles SIGPIPE.
- **A missing key is 0, not its default** (`config_defaults`).
  `config_manager.hpp:208`: the file is merged with the defaults. Required keys
  are read without asking whether they are there, and OpenCV stores 0.
- **Sliders that pass each other lose a bound** (`sliders`).
  `combat_pipeline.cpp:931`: the sliders are mapped to the range. Bounds in the
  wrong order are swapped after each SET (944), so the slider moved next
  overwrites the value the other one gave.

Seen, but without a run of its own:

- A cut aim line is carried out. `arduino.cpp:3` has the board carry out the
  commands that come from the Pi, `arduino.cpp:121` gives their form,
  "TARGET:hataX,hataY (Örn: TARGET:-50,20)". `serialEvent` takes in everything that
  has arrived, so the end of an earlier line can be read together with the
  beginning of an aim line; `parseCommand` (123) asks for the comma only and turns
  the turret by what is there: `TARGET:-50,2` for `TARGET:-50,20`. It turns less far
  than it was told, never further (`NeverFurther`, a part of `PathsKeepOrder`).
- `_extra/TEKNIK_DOKUMAN.md:213` has old video fragments cleaned up after 500 ms;
  `VideoReceiver.cpp:225` cleans only when a further fragment has arrived, so
  without traffic they stay (which no picture shows).

## 7. Only model-checked, and not modelled

**Only model-checked.** Liveness (`CeaseFireArrives`, `SafeLockArrives`,
`DestructorReturns`, `CameraLossIsSafe`, `FireEnds`, `TurretReturns`,
`NeverStuck`, `StopsReturn`, `NewestFrameIsUsed`, `PulseEnds`,
`ModelChoiceArrives`) is out of reach of the proof system used, which knows
neither fairness nor ENABLED, and stays with TLC. Every safety property that a
passing run checks, invariant or property of steps, is a theorem as well. The
sentences of section 6 are violated, so there is nothing to prove about them.

What the theorems do not say, the assumptions name: the parameters they allow are
those for which the code is meant (positive measures, durations that are
integers, a threshold between 1 and 100 percent).

**Bounded away.** Between two resets, `MaxTrackIds` ids; the queue of the turret
driver with `QueueMax` entries (the code has no limit); histories of commands,
frames and pictures with the numbers in section 4.

**Not modelled.**

- Earlier balloon detectors (`detect_balloons.cpp` and its variants): image
  processing without state between frames, apart from a search over HSV ranges
  that depends on pixel statistics. Nothing there for a model to explore that a
  picture would not decide.
- What is found in an image: the network's answer, contours, IFF colour counts.
- OVERLAY and drawing, textures, CSV files, the manual-offset keys: they change
  what is shown, or add a constant to an aim that is chosen freely.
- `CombatPipeline::stop()`, the lidar thread (a reading may be missing or of any
  size), opening and flipping of the camera, the log, the sensor's sine wave.
- start() and stop() of `TcpTelemetryServer` and `TelemetryClient` (they live as
  long as their programs), the client's parser for text telemetry that nothing
  on the Pi sends, SerialComm's text commands that no firmware here understands.
- Reads that fail on the Pi's serial port (section 3). What happens between a
  telemetry sender's test of its flag (`telemetry_sender.cpp:134`, and the server's
  likewise) and its push into the queue: the models test and push in one action, so
  an item queued just after a stop() does not occur. It would be an item like any
  other, in its place.
- The widgets for MOVE, SET, ORDER, GEOFENCE compose text only; the effect of the
  commands is in `CombatPipeline` and `BalloonRange`.

`PROJECT.json` names, for each component, what is left out.

## 8. Plan

Done: every component of section 1 is modelled as far as `PROJECT.json` says,
every safety property checked is proved, and so are the refinements of
`FireDiscipline` and `LossyChannel`.

Next, in this order:

1. The pipeline and the turret driver in one theorem: `CombatPipeline` uses the
   driver's latches (`lastPose`, `lastFire`, `safe`) by the interface that
   `TurretInv` states. An abstract specification of that interface, implemented by
   `TurretController` and used by `CombatPipeline`, would make the step from "the
   frame loop orders a cease-fire" to "the board has the newest order" a proof.
2. The safety half of the liveness properties (what a stop() in progress never
   undoes, what a pending cease-fire never loses) as action properties, where it
   says more than the invariants do.
3. The telemetry of a frame and the trigger's target (a hazard without a property,
   `combat_pipeline.cpp:612`): what the lock time on one target says of another.

## 9. Reproducing

    tlc -workers 2 -config Combat.cfg MCCombatPipeline.tla   # runs: see PROJECT.json
    tlapm CombatPipeline_proofs.tla                           # likewise the other *_proofs

The longest runs (`components`, `command`) take two to three minutes on two
cores. Of the proofs, `CommandLink_proofs` takes about eight minutes,
`Services_proofs`, `SerialLink_proofs` and `Components_proofs` about three each,
the others less than one.
