------------------------------- MODULE Services -------------------------------
(***************************************************************************)
(* The system's small services side by side: the text-driven servo board,  *)
(* the inference worker, the example UART sender, the telemetry sender and *)
(* the video path.  They share nothing; a behaviour follows one of them.   *)
(***************************************************************************)
EXTENDS ServoBoard, InferenceWorker, AsyncUartSender, TelemetrySender,
        VideoStreamer, VideoReceiver

-----------------------------------------------------------------------------
(* The Pi's video streamer and the PC's receiver, the network between them.  *)

video_vars == <<v_vars, r_vars>>

VideoInit == StreamerInit /\ VideoReceiverInit

\* Any datagram ever sent arrives, for the first time or again.
FragmentArrives == (\E d \in air : HandleFragment(d)) /\ UNCHANGED v_vars

Receiver(A) == A /\ UNCHANGED v_vars
Streamer(A) == A /\ UNCHANGED r_vars

VideoNext ==
    \/ Streamer(StreamerNext) \/ FragmentArrives
    \/ Receiver(r_start \/ r_stop \/ r_joined \/ ReceiverThread \/ HalfASecond)

-----------------------------------------------------------------------------
VARIABLE service

services_vars == <<board_vars, iw_vars, u_vars, t_vars, video_vars, service>>

ServicesInit ==
    /\ service \in {"servo", "inference", "uart", "telemetry", "video"}
    /\ BoardInit /\ WorkerInit /\ UartInit /\ SenderInit /\ VideoInit

\* A step of the service followed; the others rest.
Servo(A) ==
    /\ service = "servo" /\ A
    /\ UNCHANGED <<iw_vars, u_vars, t_vars, video_vars, service>>
Inference(A) ==
    /\ service = "inference" /\ A
    /\ UNCHANGED <<board_vars, u_vars, t_vars, video_vars, service>>
Uart(A) ==
    /\ service = "uart" /\ A
    /\ UNCHANGED <<board_vars, iw_vars, t_vars, video_vars, service>>
Telemetry(A) ==
    /\ service = "telemetry" /\ A
    /\ UNCHANGED <<board_vars, iw_vars, u_vars, video_vars, service>>
Video(A) ==
    /\ service = "video" /\ A
    /\ UNCHANGED <<board_vars, iw_vars, u_vars, t_vars, service>>

ServicesNext ==
    \/ Servo(BoardNext) \/ Inference(WorkerNext)
    \/ Uart(UartNext) \/ Telemetry(SenderNext) \/ Video(VideoNext)

ServicesSpec == ServicesInit /\ [][ServicesNext]_services_vars

\* Threads are scheduled, a stop() goes on, loop() is called and millis() runs.
FairServicesSpec ==
    /\ ServicesSpec
    /\ WF_services_vars(Servo(PulseOver)) /\ WF_services_vars(Servo(Millis))
    /\ WF_services_vars(Inference(WorkerThread)) /\ WF_services_vars(Inference(WorkerStop))
    /\ WF_services_vars(Uart(UartThread)) /\ WF_services_vars(Uart(UartStop))
    /\ WF_services_vars(Telemetry(SenderThread)) /\ WF_services_vars(Telemetry(t_joined))
    /\ WF_services_vars(Video(Streamer(StreamerThread)))
    /\ WF_services_vars(Video(Streamer(v_joined)))
    /\ WF_services_vars(Video(Receiver(ReceiverThread)))
    /\ WF_services_vars(Video(Receiver(r_joined)))

-----------------------------------------------------------------------------
(***************************************************************************)
(* Servos within their limits, queues and buffers within theirs, and no    *)
(* service is ever left with a thread nobody joins or a socket two threads *)
(* use.                                                                    *)
(***************************************************************************)
ServicesOK == BoardOK /\ WorkerOK /\ UartOK /\ SenderOK /\ StreamerOK /\ ReassemblyOK

(***************************************************************************)
(* Whatever is lost, late, doubled or left from before a restart: each     *)
(* chunk of a picture on the screen was sent for that place of a frame of  *)
(* that number and size.  As long as the Pi has not restarted, which makes *)
(* it count its frames from 1 again, they all are of one picture.          *)
(***************************************************************************)
ShownWhole ==
    /\ \A i \in DOMAIN shown.of : \E d \in air :
          /\ d.id = shown.id /\ d.bytes = shown.bytes /\ d.idx = i
          /\ d.count = Cardinality(DOMAIN shown.of) /\ d.pic = shown.of[i]
    /\ v_restarts = 0 => \A i, j \in DOMAIN shown.of : shown.of[i] = shown.of[j]

(***************************************************************************)
(* The servo board, the UART sender and the telemetry sender each          *)
(* implement the lossy channel: through glued lines, queues that drop      *)
(* their oldest entry, broken connections and restarts nothing is doubled, *)
(* reordered or made up.  An aim line cut off on its way into the board    *)
(* may turn the turret less far than it says, never further.               *)
(***************************************************************************)
PathsKeepOrder == BoardObeysInOrder /\ UartKeepsOrder /\ TelemetryKeepsOrder

(***************************************************************************)
(* stop() returns, whatever the worker is doing: sleeping, connecting,     *)
(* writing to a stalled device, waiting for a datagram.                    *)
(***************************************************************************)
StopsReturn ==
    /\ StopOfWorkerReturns /\ StopOfSenderReturns /\ StopOfTelemetryReturns
    /\ StopOfStreamerReturns /\ StopOfReceiverReturns

(***************************************************************************)
(* Detector and video show the newest frame: while they run, the last one  *)
(* handed to them is taken up, however busy they were when it came         *)
(* (inference_worker.hpp: the newest frame is always processed).           *)
(***************************************************************************)
NewestFrameIsUsed == NewestIsProcessed /\ NewestIsTaken

(***************************************************************************)
(* Every pulse of the fire relay ends, FIRE commands arriving or not.      *)
(***************************************************************************)
PulseEnds == isFiring ~> ~isFiring
=============================================================================
