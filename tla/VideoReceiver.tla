---------------------------- MODULE VideoReceiver ----------------------------
(***************************************************************************)
(* PC/src/VideoReceiver.cpp: fragments are put together by frame id, each  *)
(* copied to its place in a buffer of the announced size, and a frame with *)
(* all its chunks is decoded and offered to the UI.                        *)
(***************************************************************************)
EXTENDS Integers, FiniteSets

CONSTANT FrameCap   \* 32 frames under construction

ASSUME ReceiverCapAssumption == FrameCap \in Nat

VARIABLES
    m_running, m_state,
    r_thread,  \* "none", "open", "recv", "exited"
    frames,    \* frame id -> [bytes, count, gotCount, got, jpeg, old]
    shown      \* the picture last decoded: [id, bytes, of],
               \* of: chunk index -> picture, 0 a hole

r_control == <<m_running, m_state, r_thread>>
r_vars    == <<r_control, frames, shown>>

NothingShown == [id |-> -1, bytes |-> 0, of |-> <<>>]

VideoReceiverInit ==
    /\ m_running = FALSE /\ m_state = "Idle" /\ r_thread = "none"
    /\ frames = <<>> /\ shown = NothingShown

r_start ==
    /\ ~m_running /\ r_thread = "none"
    /\ m_running' = TRUE /\ r_thread' = "open"
    /\ UNCHANGED <<m_state, frames, shown>>

\* A port in use ends the thread; m_running stays set, so start() does nothing.
OpenSocket ==
    /\ r_thread = "open"
    /\ \/ m_state' = "Listening" /\ r_thread' = "recv"
       \/ m_state' = "Error" /\ r_thread' = "exited"
    /\ UNCHANGED <<m_running, frames, shown>>

r_stop ==
    /\ m_running
    /\ m_running' = FALSE
    /\ UNCHANGED <<m_state, r_thread, frames, shown>>

\* The loop test between two datagrams or timeouts.
LoopEnds ==
    /\ r_thread = "recv" /\ ~m_running
    /\ r_thread' = "exited" /\ m_state' = "Stopped" /\ frames' = <<>>
    /\ UNCHANGED <<m_running, shown>>

r_joined ==
    /\ ~m_running /\ r_thread = "exited"
    /\ r_thread' = "none" /\ m_state' = "Stopped"
    /\ UNCHANGED <<m_running, frames, shown>>

Fresh(d) ==
    [bytes |-> d.bytes, count |-> d.count, gotCount |-> 0, got |-> {},
     jpeg |-> [i \in 0..(d.count - 1) |-> 0], old |-> FALSE]

\* Faulty variant: only the number of a frame is looked at.
EntryForAnySize(d) == IF d.id \in DOMAIN frames THEN frames[d.id] ELSE Fresh(d)

\* frames[hdr.frame_id], started anew when the announced sizes differ.
EntryFor(d) ==
    IF d.id \in DOMAIN frames /\ frames[d.id].bytes = d.bytes /\ frames[d.id].count = d.count
    THEN frames[d.id] ELSE Fresh(d)

\* The datagram copied to its place.
Stored(d) ==
    [EntryFor(d) EXCEPT !.gotCount = IF d.idx \in EntryFor(d).got THEN @ ELSE @ + 1,
                        !.got = @ \cup {d.idx},
                        !.jpeg[d.idx] = d.pic, !.old = FALSE]

\* cleanupOld: 500 ms without a chunk, then the cap.
cleanupOld(fs) ==
    LET kept == {id \in DOMAIN fs : ~fs[id].old}
    IN  IF Cardinality(kept) > FrameCap THEN <<>> ELSE [id \in kept |-> fs[id]]

\* One fragment received.  The cleanup comes last.
HandleFragment(d) ==
    /\ r_thread = "recv" /\ m_running
    /\ m_state' = "Receiving"
    /\ LET st == Stored(d)
           others == DOMAIN frames \ {d.id}
       IN  IF st.gotCount = st.count
           THEN /\ shown' = [id |-> d.id, bytes |-> st.bytes, of |-> st.jpeg]
                /\ frames' = cleanupOld([id \in others |-> frames[id]])
           ELSE /\ frames' = cleanupOld([id \in others \cup {d.id} |->
                                            IF id = d.id THEN st ELSE frames[id]])
                /\ UNCHANGED shown
    /\ UNCHANGED <<m_running, r_thread>>

\* 500 ms pass without a datagram.
HalfASecond ==
    /\ r_thread = "recv" /\ DOMAIN frames # {}
    /\ frames' = [id \in DOMAIN frames |-> [frames[id] EXCEPT !.old = TRUE]]
    /\ UNCHANGED <<r_control, shown>>

ReceiverThread == OpenSocket \/ LoopEnds

-----------------------------------------------------------------------------
(***************************************************************************)
(* Frames under construction: no more than the cap, none with all its      *)
(* chunks, each counting its chunks once; nothing outlives the thread.     *)
(***************************************************************************)
ReassemblyOK ==
    /\ Cardinality(DOMAIN frames) <= FrameCap
    /\ \A id \in DOMAIN frames :
          /\ frames[id].gotCount = Cardinality(frames[id].got)
          /\ frames[id].got # 0..(frames[id].count - 1)
    /\ r_thread # "recv" => frames = <<>>

StopOfReceiverReturns == ~m_running ~> (r_thread = "none" \/ m_running)
=============================================================================
