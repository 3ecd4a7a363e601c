--------------------------- MODULE InferenceWorker ---------------------------
(***************************************************************************)
(* raspi/src/sancak/inference_worker.cpp: a one-slot hand-over of camera   *)
(* frames to a detector thread.  Frames are numbered as they are pushed; 0 *)
(* is an empty one.  A frame's result carries its number.                  *)
(***************************************************************************)
EXTENDS Naturals

CONSTANT MaxPushes   \* bound on the frames pushed

ASSUME WorkerAssumption == MaxPushes \in Nat

VARIABLES
    iw_running, stop_flag_,
    iw_worker,      \* "none", at the "test" of its wait, "asleep", "detect", "done"
    iw_owner,       \* "idle", or in stop(): before the "notify" or the "join"
    latest_frame_, new_frame_, latest_result_,
    iw_frame,       \* the thread's copy
    pushes          \* frames pushed so far

iw_flags == <<iw_running, stop_flag_, iw_owner>>
iw_slots == <<latest_frame_, new_frame_>>
iw_vars  == <<iw_flags, iw_slots, iw_worker, latest_result_, iw_frame, pushes>>

WorkerInit ==
    /\ iw_running = FALSE /\ stop_flag_ = FALSE
    /\ iw_worker = "none" /\ iw_owner = "idle"
    /\ latest_frame_ = 0 /\ new_frame_ = FALSE /\ latest_result_ = 0
    /\ iw_frame = 0 /\ pushes = 0

Woken == IF iw_worker = "asleep" THEN "test" ELSE iw_worker

iw_start ==
    /\ iw_owner = "idle" /\ ~iw_running
    /\ iw_running' = TRUE /\ stop_flag_' = FALSE /\ iw_worker' = "test"
    /\ UNCHANGED <<iw_owner, iw_slots, latest_result_, iw_frame, pushes>>

iw_stop ==
    /\ iw_owner = "idle" /\ iw_running
    /\ iw_running' = FALSE /\ iw_owner' = "notify"
    /\ UNCHANGED <<stop_flag_, iw_slots, iw_worker, latest_result_, iw_frame, pushes>>

\* Under the mutex, so never between the worker's test and its sleep.
iw_notify ==
    /\ iw_owner = "notify"
    /\ stop_flag_' = TRUE /\ iw_worker' = Woken /\ iw_owner' = "join"
    /\ UNCHANGED <<iw_running, iw_slots, latest_result_, iw_frame, pushes>>

iw_joined ==
    /\ iw_owner = "join" /\ iw_worker = "done"
    /\ iw_owner' = "idle" /\ iw_worker' = "none"
    /\ UNCHANGED <<iw_running, stop_flag_, iw_slots, latest_result_, iw_frame, pushes>>

\* Faulty variant: a frame is dropped while the detector is busy.
pushFrameIfFree ==
    /\ pushes < MaxPushes /\ pushes' = pushes + 1
    /\ IF iw_worker = "detect" THEN UNCHANGED iw_slots
       ELSE latest_frame_' = pushes' /\ new_frame_' = TRUE
    /\ iw_worker' = Woken
    /\ UNCHANGED <<iw_flags, latest_result_, iw_frame>>

\* Any thread may push, running or not; a grab that failed pushes an empty frame.
pushFrame ==
    /\ pushes < MaxPushes /\ pushes' = pushes + 1
    /\ latest_frame_' \in {0, pushes'} /\ new_frame_' = TRUE
    /\ iw_worker' = Woken
    /\ UNCHANGED <<iw_flags, latest_result_, iw_frame>>

\* One evaluation of the wait's condition and what follows it under the mutex.
\* An empty frame leaves new_frame_ set: the thread spins (a stuttering step).
TestFrame ==
    /\ iw_worker = "test"
    /\ IF stop_flag_ THEN iw_worker' = "done" /\ UNCHANGED <<new_frame_, iw_frame>>
       ELSE IF ~new_frame_ THEN iw_worker' = "asleep" /\ UNCHANGED <<new_frame_, iw_frame>>
       ELSE /\ latest_frame_ # 0
            /\ iw_frame' = latest_frame_ /\ new_frame_' = FALSE /\ iw_worker' = "detect"
    /\ UNCHANGED <<iw_flags, latest_frame_, latest_result_, pushes>>

Detect ==
    /\ iw_worker = "detect"
    /\ latest_result_' = iw_frame /\ iw_worker' = "test"
    /\ UNCHANGED <<iw_flags, iw_slots, iw_frame, pushes>>

WorkerThread == TestFrame \/ Detect
WorkerStop   == iw_notify \/ iw_joined
WorkerNext   == iw_start \/ iw_stop \/ WorkerStop \/ pushFrame \/ WorkerThread

-----------------------------------------------------------------------------
\* No thread without an owner who knows of it; no result from the future.
WorkerOK ==
    /\ iw_worker = "none" => ~iw_running /\ iw_owner = "idle"
    /\ iw_running => iw_owner = "idle" /\ ~stop_flag_
    /\ latest_frame_ <= pushes /\ latest_result_ <= pushes

(***************************************************************************)
(* inference_worker.hpp promises that the newest frame is always the one   *)
(* processed: while the worker runs, the last frame pushed gets a result,  *)
(* however busy the detector was when it came.                             *)
(***************************************************************************)
NewestIsProcessed ==
    \A n \in 1..MaxPushes :
        (iw_running /\ pushes = n /\ latest_frame_ # 0) ~>
            (latest_result_ = n \/ pushes > n \/ ~iw_running)

StopOfWorkerReturns == iw_owner # "idle" ~> iw_owner = "idle"
=============================================================================
