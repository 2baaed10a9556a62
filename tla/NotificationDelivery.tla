------------------------ MODULE NotificationDelivery ------------------------
(***************************************************************************)
(* What the durable inboxes promise to whoever posts to them, with no word *)
(* of files, processes or crashes: a notification that was accepted stays  *)
(* open until somebody settles it, goes away only once it was handled or   *)
(* its RSVP confirmed, and at most one notification per external key is in *)
(* flight.  InboxLifecycle implements this.                                *)
(***************************************************************************)
CONSTANTS Items, KeyOf, RsvpItems

VARIABLE phase

Phases == {"unposted", "open", "handled", "errored", "confirmed", "gone"}

InFlight(n) == phase[n] \notin {"unposted", "gone"}

Init == phase = [n \in Items |-> "unposted"]

Becomes(n, from, to) == phase[n] \in from /\ phase' = [phase EXCEPT ![n] = to]

Accept(n) ==
    /\ \A m \in Items : InFlight(m) => KeyOf[m] # KeyOf[n]
    /\ Becomes(n, {"unposted"}, "open")

Settle(n) ==
    \/ Becomes(n, {"open"}, "handled")
    \/ Becomes(n, {"open"}, "errored")

Reopen(n) == Becomes(n, {"errored"}, "open")

Confirm(n) == n \in RsvpItems /\ Becomes(n, {"handled", "errored"}, "confirmed")

Vanish(n) ==
    \/ Becomes(n, {"confirmed"}, "gone")
    \/ n \notin RsvpItems /\ Becomes(n, {"handled"}, "gone")

Next ==
    \E n \in Items : Accept(n) \/ Settle(n) \/ Reopen(n) \/ Confirm(n) \/ Vanish(n)

Spec == Init /\ [][Next]_phase
=============================================================================
