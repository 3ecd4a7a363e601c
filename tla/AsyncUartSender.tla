--------------------------- MODULE AsyncUartSender ---------------------------
(***************************************************************************)
(* The example sender of raspi/src/protocol/Sender.cpp: frames are queued  *)
(* and written by a thread that sleeps on a condition variable.  stop()    *)
(* clears the flag and notifies WITHOUT the mutex, so that the place       *)
(* between the thread's test and its sleep is a state of its own.          *)
(***************************************************************************)
EXTENDS Naturals, Sequences

CONSTANT MaxFramesQueued   \* bound on the frames handed over

ASSUME UartAssumption == MaxFramesQueued \in Nat

VARIABLES
    u_running,
    u_worker,   \* "none", at the loop "head", "drowsy" (mutex held), "asleep",
                \* "writing", "done"
    u_owner,    \* "idle", or in stop(): before the "notify" or the "join"
    q_,         \* queued frames, numbered
    u_frame,    \* the frame being written
    enqueued,   \* frames queued so far
    written,    \* history: frames written whole
    missed      \* history: the notification of stop() found nobody asleep

u_control == <<u_running, u_owner>>
u_data    == <<q_, u_frame, enqueued, written>>
u_vars    == <<u_control, u_worker, u_data, missed>>

UartInit ==
    /\ u_running = FALSE /\ u_worker = "none" /\ u_owner = "idle"
    /\ q_ = <<>> /\ u_frame = 0 /\ enqueued = 0 /\ written = <<>>
    /\ missed = FALSE

\* start() stops first; a port that does not open changes nothing.
u_start ==
    /\ u_owner = "idle" /\ ~u_running
    /\ u_running' = TRUE /\ u_worker' = "head"
    /\ UNCHANGED <<u_owner, u_data, missed>>

\* Allowed at any time, also before start().
enqueue ==
    /\ enqueued < MaxFramesQueued /\ u_worker # "drowsy"
    /\ enqueued' = enqueued + 1 /\ q_' = Append(q_, enqueued')
    /\ u_worker' = IF u_worker = "asleep" THEN "head" ELSE u_worker
    /\ UNCHANGED <<u_control, u_frame, written, missed>>

u_stop ==
    /\ u_owner = "idle" /\ u_running
    /\ u_running' = FALSE /\ u_owner' = "notify"
    /\ UNCHANGED <<u_worker, u_data, missed>>

u_notify ==
    /\ u_owner = "notify" /\ u_owner' = "join"
    /\ u_worker' = IF u_worker = "asleep" THEN "head" ELSE u_worker
    /\ missed' = (u_worker = "drowsy")
    /\ UNCHANGED <<u_running, u_data>>

\* Joined; the port is closed and the queue emptied.
u_joined ==
    /\ u_owner = "join" /\ u_worker = "done"
    /\ u_owner' = "idle" /\ u_worker' = "none" /\ q_' = <<>> /\ u_frame' = 0
    /\ UNCHANGED <<u_running, enqueued, written, missed>>

LoopHead ==
    /\ u_worker = "head"
    /\ IF ~u_running THEN u_worker' = "done" /\ UNCHANGED <<q_, u_frame>>
       ELSE IF q_ = <<>> THEN u_worker' = "drowsy" /\ UNCHANGED <<q_, u_frame>>
       ELSE u_worker' = "writing" /\ u_frame' = Head(q_) /\ q_' = Tail(q_)
    /\ UNCHANGED <<u_control, enqueued, written, missed>>

FallAsleep ==
    /\ u_worker = "drowsy" /\ u_worker' = "asleep"
    /\ UNCHANGED <<u_control, u_data, missed>>

\* Faulty variant: a device that does not drain is waited for, stopped or not.
WriteFrameStubborn ==
    /\ u_worker = "writing"
    /\ u_running
    /\ u_worker' = "head"
    /\ written' \in {written, Append(written, u_frame)}
    /\ UNCHANGED <<u_control, q_, u_frame, enqueued, missed>>

\* All bytes written, or an error or stop() in between cuts the frame short.
WriteFrame ==
    /\ u_worker = "writing"
    /\ u_worker' = "head"
    /\ written' \in {written, Append(written, u_frame)}
    /\ UNCHANGED <<u_control, q_, u_frame, enqueued, missed>>

UartThread == LoopHead \/ FallAsleep \/ WriteFrame
UartStop   == u_notify \/ u_joined
UartNext   == u_start \/ enqueue \/ u_stop \/ UartStop \/ UartThread

-----------------------------------------------------------------------------
UartOK ==
    /\ u_worker = "none" => ~u_running /\ u_owner = "idle"
    /\ u_running => u_owner = "idle"
    /\ q_ \in Seq(1..enqueued)

UartPath == IF u_worker = "writing" THEN <<u_frame>> \o q_ ELSE q_

UartChannel == INSTANCE LossyChannel
    WITH sent <- [i \in 1..enqueued |-> i], inTransit <- UartPath, delivered <- written

UartKeepsOrder == UartChannel!ChannelSpec

\* stop() returns, unless its notification fell into the gap; that it may then
\* never return is the hazard at Sender.cpp:104.
StopOfSenderReturns == u_owner # "idle" ~> u_owner = "idle" \/ missed
=============================================================================
