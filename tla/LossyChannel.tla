---------------------------- MODULE LossyChannel ----------------------------
(***************************************************************************)
(* What a one-way path of this system promises, whichever threads, queues, *)
(* sockets or serial lines it is made of: messages may get lost, anywhere  *)
(* and at any time, but those that get through are the ones that were      *)
(* sent, in the order they were sent, each at most once.                   *)
(***************************************************************************)
EXTENDS Subsequences, SequencesExt

VARIABLES sent,       \* everything sent so far
          inTransit,  \* sent, and neither delivered nor lost
          delivered   \* everything delivered so far

channel_vars == <<sent, inTransit, delivered>>

ChannelInit == sent = <<>> /\ inTransit = <<>> /\ delivered = <<>>

\* A step may also lose messages on the way.
Send ==
    /\ IsStrictPrefix(sent, sent')
    /\ LeftOf(inTransit', inTransit \o SubSeq(sent', Len(sent) + 1, Len(sent')))
    /\ UNCHANGED delivered

Lose == UNCHANGED <<sent, delivered>> /\ LeftOf(inTransit', inTransit)

Deliver ==
    \E i \in DOMAIN inTransit :
        /\ delivered' = Append(delivered, inTransit[i])
        /\ LeftOf(inTransit', SubSeq(inTransit, i + 1, Len(inTransit)))
        /\ UNCHANGED sent

ChannelSpec == ChannelInit /\ [][Send \/ Lose \/ Deliver]_channel_vars
=============================================================================
