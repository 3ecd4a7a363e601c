---------------------------- MODULE VideoStreamer ----------------------------
(***************************************************************************)
(* raspi/src/network/udp_video_streamer.cpp: the newest camera frame is    *)
(* encoded by a thread and sent as UDP fragments.  Frames are numbered as  *)
(* they are submitted; the fragments of a JPEG carry its size in units of  *)
(* the payload's half, so that different sizes share a number of chunks.   *)
(*                                                                         *)
(* `air` holds every datagram ever sent: the network may deliver one late, *)
(* out of order, several times or never.                                   *)
(***************************************************************************)
EXTENDS Integers, FiniteSets

CONSTANTS MaxSubmits,  \* bound on the frames submitted
          MaxRestarts, \* bound on the restarts of the program
          JpegSizes,   \* sizes of encoded frames, >= 1
          maxPayload   \* room for data in a datagram

ASSUME StreamerAssumption ==
    /\ MaxSubmits \in Nat /\ MaxRestarts \in Nat /\ maxPayload \in Nat \ {0}
    /\ JpegSizes \subseteq Nat \ {0}

VARIABLES
    v_running,
    v_worker,       \* "none", "waiting", about to "take", in "send", "done"
    v_owner,        \* "idle" or waiting in "join"
    v_slot,         \* latest_frame_, 0 while has_frame_ is false
    frame_id_,
    v_jpeg,         \* the JPEG being sent: [pic, id, bytes, next]
    v_submits, v_restarts,
    v_taken,        \* history: the frame taken up last
    air

v_control == <<v_running, v_owner>>
v_counts  == <<v_submits, v_restarts>>
v_out     == <<frame_id_, v_jpeg, v_taken, air>>
v_vars    == <<v_control, v_worker, v_slot, v_counts, v_out>>

NoJpeg == [pic |-> 0, id |-> 0, bytes |-> 0, next |-> 0]

StreamerInit ==
    /\ v_running = FALSE /\ v_worker = "none" /\ v_owner = "idle" /\ v_slot = 0
    /\ frame_id_ = 1 /\ v_jpeg = NoJpeg
    /\ v_submits = 0 /\ v_restarts = 0 /\ v_taken = 0 /\ air = {}

\* A socket that cannot be opened leaves everything as it was.
v_start ==
    /\ v_owner = "idle" /\ ~v_running
    /\ v_running' = TRUE /\ v_worker' = "waiting"
    /\ UNCHANGED <<v_owner, v_slot, v_counts, v_out>>

v_stop ==
    /\ v_owner = "idle" /\ v_running
    /\ v_running' = FALSE /\ v_owner' = "join"
    /\ UNCHANGED <<v_worker, v_slot, v_counts, v_out>>

v_joined ==
    /\ v_owner = "join" /\ v_worker = "done"
    /\ v_owner' = "idle" /\ v_worker' = "none" /\ v_slot' = 0
    /\ UNCHANGED <<v_running, v_counts, v_out>>

submit ==
    /\ v_running /\ v_submits < MaxSubmits
    /\ v_submits' = v_submits + 1 /\ v_slot' = v_submits'
    /\ UNCHANGED <<v_control, v_worker, v_restarts, v_out>>

\* The wait ends on a submit, a stop() or after 16 ms.
WaitEnds ==
    /\ v_worker = "waiting"
    /\ v_worker' = IF v_running THEN "take" ELSE "done"
    /\ UNCHANGED <<v_control, v_slot, v_counts, v_out>>

chunkCount(bytes) == (bytes + maxPayload - 1) \div maxPayload

\* The slot is emptied; encoding may fail.
TakeFrame ==
    /\ v_worker = "take"
    /\ v_slot' = 0 /\ v_taken' = IF v_slot = 0 THEN v_taken ELSE v_slot
    /\ \/ v_worker' = "waiting" /\ UNCHANGED <<frame_id_, v_jpeg>>
       \/ /\ v_slot # 0 /\ v_worker' = "send"
          /\ \E b \in JpegSizes :
                v_jpeg' = [pic |-> v_slot, id |-> frame_id_, bytes |-> b, next |-> 0]
          /\ frame_id_' = frame_id_ + 1
    /\ UNCHANGED <<v_control, v_counts, air>>

\* One turn of sendJpeg's loop; sendto's result is ignored.
sendJpeg ==
    /\ v_worker = "send"
    /\ air' = air \cup {[id |-> v_jpeg.id, bytes |-> v_jpeg.bytes, idx |-> v_jpeg.next,
                         count |-> chunkCount(v_jpeg.bytes), pic |-> v_jpeg.pic]}
    /\ IF v_jpeg.next + 1 < chunkCount(v_jpeg.bytes)
       THEN v_jpeg' = [v_jpeg EXCEPT !.next = @ + 1] /\ UNCHANGED v_worker
       ELSE v_worker' = "waiting" /\ v_jpeg' = NoJpeg
    /\ UNCHANGED <<v_control, v_slot, v_counts, frame_id_, v_taken>>

\* The Pi's program dies and starts again; datagrams under way stay under way.
PiRestarts ==
    /\ v_restarts < MaxRestarts
    /\ v_restarts' = v_restarts + 1
    /\ v_running' = FALSE /\ v_worker' = "none" /\ v_owner' = "idle" /\ v_slot' = 0
    /\ frame_id_' = 1 /\ v_jpeg' = NoJpeg
    /\ UNCHANGED <<v_submits, v_taken, air>>

StreamerThread == WaitEnds \/ TakeFrame \/ sendJpeg
StreamerNext   == v_start \/ v_stop \/ v_joined \/ submit \/ StreamerThread \/ PiRestarts

-----------------------------------------------------------------------------
StreamerOK ==
    /\ v_worker = "none" => ~v_running /\ v_owner = "idle"
    /\ v_running => v_owner = "idle"
    /\ v_slot <= v_submits

(***************************************************************************)
(* The newest frame goes out: however many are submitted while one is      *)
(* being sent, the last is taken up next.                                  *)
(***************************************************************************)
NewestIsTaken ==
    \A n \in 1..MaxSubmits :
        (v_running /\ v_slot = n) ~> (v_submits > n \/ ~v_running \/ v_taken = n)

StopOfStreamerReturns == v_owner = "join" ~> v_owner = "idle"
=============================================================================
