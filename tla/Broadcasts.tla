----------------------------- MODULE Broadcasts -----------------------------
(***************************************************************************)
(* The streaming service as the program sees it (plugin-youtube): the      *)
(* broadcasts on the channel, what prepare and reconcile find there, and   *)
(* what discard leaves. A broadcast is known by its slot, the title and    *)
(* the exact scheduled start, because the API has no room for an           *)
(* idempotency key.                                                        *)
(*                                                                         *)
(* The channel starts and ends a broadcast itself when video arrives and   *)
(* stops (enableAutoStart and enableAutoStop, the default).                *)
(***************************************************************************)
EXTENDS Integers

CONSTANTS
  Slots,          \* the (title, start) pairs
  MaxBroadcasts   \* how many broadcasts may ever be created (bound)

Broadcast == 1..MaxBroadcasts

\* 0 is no broadcast: a null external id.
BroadcastId == 0..MaxBroadcasts

\* "erased": discarded although people had watched it.
BroadcastState == {"absent", "upcoming", "live", "ended", "gone", "erased"}

Aired == {"live", "ended", "erased"}
OnChannel == {"upcoming", "live", "ended"}

ChannelType == [Broadcast -> [slot : Slots, state : BroadcastState]]

EmptyChannel == [b \in Broadcast |-> [slot |-> CHOOSE s \in Slots : TRUE, state |-> "absent"]]

\* Mutant: the broadcasts that are live are listed.
MatchingLive(channel, slot) ==
  {b \in Broadcast : channel[b].slot = slot /\ channel[b].state = "live"}

\* listUpcomingBroadcasts, filtered by title and start.
Matching(channel, slot) ==
  {b \in Broadcast : channel[b].slot = slot /\ channel[b].state = "upcoming"}

\* insertBroadcast: the next unused id.
FreshIds(channel) ==
  {b \in Broadcast : /\ channel[b].state = "absent"
                     /\ \A c \in Broadcast : channel[c].state = "absent" => b <= c}

Inserted(channel, b, slot) == [channel EXCEPT ![b] = [slot |-> slot, state |-> "upcoming"]]

\* Moves broadcast b (if it is one) from one state to another.
Moved(channel, b, from, to) ==
  [c \in Broadcast |-> IF c = b /\ channel[c].state = from
                         THEN [channel[c] EXCEPT !.state = to] ELSE channel[c]]

VideoArrives(channel, b) == Moved(channel, b, "upcoming", "live")
VideoStops(channel, b) == Moved(channel, b, "live", "ended")

\* discard: deleted, or made private.
Discarded(channel, b) ==
  [c \in Broadcast |->
     IF c # b THEN channel[c]
     ELSE [channel[c] EXCEPT !.state =
             IF channel[c].state \in Aired THEN "erased" ELSE "gone"]]
=============================================================================
