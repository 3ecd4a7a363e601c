--------------------------- MODULE TelemetrySender ---------------------------
(***************************************************************************)
(* raspi/src/network/telemetry_sender.cpp: aim results are queued, the     *)
(* oldest dropped when the queue is full, and pushed by a thread over a    *)
(* connection it opens again when it breaks.  Every wait has a timeout.    *)
(***************************************************************************)
EXTENDS Naturals, Sequences

CONSTANTS max_queue_,   \* 32
          MaxItems      \* bound on the items submitted

ASSUME SenderAssumption == max_queue_ \in Nat \ {0} /\ MaxItems \in Nat

VARIABLES
    t_running,
    t_worker,    \* "none", loop "head", "pop", "send", "done"
    t_owner,     \* "idle" or waiting in "join"
    t_queue, t_item, submitted,
    sock_,       \* "none", "live", or "dead": the peer is gone, unnoticed
    peer,        \* the PC accepts connections
    received     \* history: the items the PC received

t_control == <<t_running, t_owner>>
t_net     == <<sock_, peer>>
t_vars    == <<t_control, t_net, t_worker, t_queue, t_item, submitted, received>>

SenderInit ==
    /\ t_running = FALSE /\ t_worker = "none" /\ t_owner = "idle"
    /\ t_queue = <<>> /\ t_item = 0 /\ submitted = 0
    /\ sock_ = "none" /\ peer \in BOOLEAN /\ received = <<>>

t_start ==
    /\ t_owner = "idle" /\ ~t_running
    /\ t_running' = TRUE /\ t_worker' = "head"
    /\ UNCHANGED <<t_owner, t_net, t_queue, t_item, submitted, received>>

t_stop ==
    /\ t_owner = "idle" /\ t_running
    /\ t_running' = FALSE /\ t_owner' = "join"
    /\ UNCHANGED <<t_net, t_worker, t_queue, t_item, submitted, received>>

t_joined ==
    /\ t_owner = "join" /\ t_worker = "done"
    /\ t_owner' = "idle" /\ t_worker' = "none" /\ t_queue' = <<>> /\ sock_' = "none"
    /\ UNCHANGED <<t_running, t_item, submitted, received, peer>>

\* Faulty variant: a full queue is not relieved of its oldest item.
sendTelemetryUnbounded ==
    /\ t_running /\ submitted < MaxItems
    /\ submitted' = submitted + 1
    /\ t_queue' = Append(t_queue, submitted')
    /\ UNCHANGED <<t_control, t_net, t_worker, t_item, received>>

sendTelemetry ==
    /\ t_running /\ submitted < MaxItems
    /\ submitted' = submitted + 1
    /\ t_queue' = Append(IF Len(t_queue) >= max_queue_ THEN Tail(t_queue) ELSE t_queue,
                         submitted')
    /\ UNCHANGED <<t_control, t_net, t_worker, t_item, received>>

\* The loop test and ensureConnected; a failed attempt waits and comes back.
SenderHead ==
    /\ t_worker = "head"
    /\ \/ ~t_running /\ t_worker' = "done" /\ sock_' = "none"
       \/ t_running /\ sock_ # "none" /\ t_worker' = "pop" /\ UNCHANGED sock_
       \/ t_running /\ sock_ = "none" /\ peer /\ t_worker' = "pop" /\ sock_' = "live"
    /\ UNCHANGED <<t_control, t_queue, t_item, submitted, received, peer>>

SenderPop ==
    /\ t_worker = "pop"
    /\ \/ ~t_running /\ t_worker' = "done" /\ sock_' = "none" /\ UNCHANGED <<t_queue, t_item>>
       \/ /\ t_running /\ t_queue = <<>> /\ t_worker' = "head"
          /\ UNCHANGED <<t_queue, t_item, sock_>>
       \/ /\ t_running /\ t_queue # <<>> /\ t_worker' = "send"
          /\ t_item' = Head(t_queue) /\ t_queue' = Tail(t_queue) /\ UNCHANGED sock_
    /\ UNCHANGED <<t_control, submitted, received, peer>>

\* sendAll: the item arrives; or the kernel takes it for a peer that is gone;
\* or it fails, halfway through perhaps, and the connection is closed.
SenderSend ==
    /\ t_worker = "send" /\ t_worker' = "head"
    /\ \/ sock_ = "live" /\ received' = Append(received, t_item) /\ UNCHANGED sock_
       \/ sock_ = "dead" /\ UNCHANGED <<received, sock_>>
       \/ sock_' = "none" /\ UNCHANGED received
    /\ UNCHANGED <<t_control, t_queue, t_item, submitted, peer>>

PeerChanges ==
    /\ peer' = ~peer
    /\ sock_' = IF peer /\ sock_ = "live" THEN "dead" ELSE sock_
    /\ UNCHANGED <<t_control, t_worker, t_queue, t_item, submitted, received>>

SenderThread == SenderHead \/ SenderPop \/ SenderSend
SenderNext   == t_start \/ t_stop \/ t_joined \/ sendTelemetry \/ SenderThread \/ PeerChanges

-----------------------------------------------------------------------------
\* The queue is bounded; nobody else touches the socket of a running thread.
SenderOK ==
    /\ Len(t_queue) <= max_queue_
    /\ t_worker = "none" => ~t_running /\ t_owner = "idle" /\ sock_ = "none"
    /\ t_worker = "send" => sock_ # "none"

SenderPath == IF t_worker = "send" THEN <<t_item>> \o t_queue ELSE t_queue

TelemetryChannel == INSTANCE LossyChannel
    WITH sent <- [i \in 1..submitted |-> i], inTransit <- SenderPath, delivered <- received

TelemetryKeepsOrder == TelemetryChannel!ChannelSpec

StopOfTelemetryReturns == t_owner = "join" ~> t_owner = "idle"
=============================================================================
