---------------------------- MODULE GitHubSource ----------------------------
(***************************************************************************)
(* GitHubNotificationsSource (gateway/sources/_github.py) between GitHub   *)
(* and the gateway's event callback.                                       *)
(*                                                                         *)
(* GitHub keeps one unread bit per thread and stamps the thread with the   *)
(* time of its last activity; `now` counts activities, so a stamp names    *)
(* one.  A list of unread threads is answered 304 when there was no        *)
(* activity since the time in If-Modified-Since.  An event is a thread and *)
(* the stamp it was fetched with: that pair is its external_key.           *)
(*                                                                         *)
(* The source awaits between a fetch, a handoff and a PATCH, and activity, *)
(* the agent's work and a crash of the gateway come in between.            *)
(***************************************************************************)
EXTENDS Naturals, FiniteSets

CONSTANTS
    Threads,
    PageSize,       \* per_page: only the first page is ever asked for
    Never,          \* _last_modified is None
    MaxActivity,    \* bound: activities
    MaxFailures,    \* bound: handoffs, PATCHes, lists and conversions that fail
    MaxCrashes      \* bound: ends of the gateway

ASSUME SourceAssumption ==
    /\ IsFiniteSet(Threads)
    /\ PageSize \in Nat \ {0}
    /\ MaxActivity \in Nat
    /\ MaxFailures \in Nat
    /\ MaxCrashes \in Nat
    /\ Never \notin 0 .. MaxActivity

VARIABLES
    now,            \* activities so far
    updated,        \* updated_at of each thread; 0 when it has none
    unread,         \* GitHub's unread bits
    pc,             \* where the source's task is
    lastModified,   \* _last_modified
    batch,          \* events or threads it still has to go through
    unmarked,       \* history: events taken whose PATCH failed
    inFlight,       \* the gateway's InFlightIndex, and the items behind it
    accepted,       \* every event the callback ever returned for
    excused,        \* unread threads that a failure of their own, a list lost
                    \* on the way, or the page left behind (history)
    failures,       \* for MaxFailures
    crashes         \* for MaxCrashes

vars == <<now, updated, unread, pc, lastModified, batch, unmarked, inFlight,
          accepted, excused, failures, crashes>>
forge == <<now, updated, unread>>
gatewayVars == <<inFlight, accepted, unmarked>>

Stamps == 1 .. MaxActivity
Events == [thread : Threads, stamp : Stamps]

TypeOK ==
    /\ now \in 0 .. MaxActivity
    /\ updated \in [Threads -> 0 .. now]
    /\ unread \subseteq Threads
    /\ pc \in {"off", "starting", "draining", "idle", "offer", "checkout", "ack"}
    /\ lastModified \in (0 .. now) \union {Never}
    /\ batch \subseteq Events
    /\ pc \in {"offer", "checkout", "ack"} => batch # {}
    /\ unmarked \subseteq accepted
    /\ inFlight \subseteq accepted
    /\ accepted \subseteq Events
    /\ excused \subseteq unread
    /\ failures \in 0 .. MaxFailures
    /\ crashes \in 0 .. MaxCrashes

Init ==
    /\ now = 0
    /\ updated = [t \in Threads |-> 0]
    /\ unread = {}
    /\ pc = "off"
    /\ lastModified = Never
    /\ batch = {}
    /\ unmarked = {}
    /\ inFlight = {}
    /\ accepted = {}
    /\ excused = {}
    /\ failures = 0
    /\ crashes = 0

-----------------------------------------------------------------------------
\* Somebody mentions the bot, comments, asks for a review ...
Activity(t) ==
    /\ now < MaxActivity
    /\ now' = now + 1
    /\ updated' = [updated EXCEPT ![t] = now']
    /\ unread' = unread \union {t}
    /\ excused' = excused \ {t}
    /\ UNCHANGED <<pc, lastModified, batch, gatewayVars, failures, crashes>>

Fails ==
    /\ failures < MaxFailures
    /\ failures' = failures + 1

\* The first page of the unread list, the latest activity first.
Page == {t \in unread :
            Cardinality({u \in unread : updated[u] > updated[t]}) < PageSize}

Fetched == {[thread |-> t, stamp |-> updated[t]] : t \in Page}

\* The source goes through a page from the oldest activity to the latest.
Event == CHOOSE e \in batch : \A f \in batch : e.stamp <= f.stamp

\* 200 or 304.
Modified == lastModified # now

-----------------------------------------------------------------------------
\* start: the threads that are unread already are marked read unseen.
Start ==
    /\ pc = "off"
    /\ pc' = "starting"
    /\ lastModified' = Never
    /\ UNCHANGED <<forge, batch, gatewayVars, excused, failures, crashes>>

\* _drain_existing_unread; the list may also raise, and end the source.
DrainList ==
    /\ pc = "starting"
    /\ \/ /\ pc' = "draining"
          /\ batch' = Fetched
          /\ lastModified' = now
          /\ excused' = excused \union (unread \ Page)
          /\ UNCHANGED failures
       \/ /\ Fails
          /\ pc' = "off"
          /\ UNCHANGED <<batch, lastModified, excused>>
    /\ UNCHANGED <<forge, gatewayVars, crashes>>

\* _mark_thread_read, thread by thread in the order of the list, on which
\* nothing depends; a PATCH that fails is logged and forgotten.
DrainMark ==
    /\ pc = "draining"
    /\ \E e \in batch :
          /\ \/ /\ unread' = unread \ {e.thread}
                /\ excused' = excused \ {e.thread}
                /\ UNCHANGED failures
             \/ Fails /\ UNCHANGED <<unread, excused>>
          /\ batch' = batch \ {e}
    /\ UNCHANGED <<now, updated, pc, lastModified, gatewayVars, crashes>>

\* A drain that keeps the Last-Modified of its own list.
DrainEndsModified ==
    /\ pc = "draining"
    /\ batch = {}
    /\ pc' = "idle"
    /\ UNCHANGED <<forge, lastModified, batch, gatewayVars, excused, failures,
                   crashes>>

\* _last_modified = None, and polling begins.
DrainEnds ==
    /\ pc = "draining"
    /\ batch = {}
    /\ pc' = "idle"
    /\ lastModified' = Never
    /\ UNCHANGED <<forge, batch, gatewayVars, excused, failures, crashes>>

-----------------------------------------------------------------------------
\* _fetch_new_notifications, when the list is not a 304 and does not raise.
Poll ==
    /\ pc = "idle"
    /\ Modified
    /\ lastModified' = now
    /\ batch' = Fetched
    /\ pc' = IF Fetched = {} THEN "idle" ELSE "offer"
    /\ excused' = excused \union (unread \ Page)
    /\ UNCHANGED <<forge, gatewayVars, failures, crashes>>

\* The list's Last-Modified is stored, and then its body does not parse or one
\* of its threads does not convert: the exception ends the poll, and nothing
\* of the list is handed over.
PollFails ==
    /\ pc = "idle"
    /\ Modified
    /\ Fails
    /\ lastModified' = now
    /\ excused' = excused \union unread
    /\ UNCHANGED <<forge, pc, batch, gatewayVars, crashes>>

\* A loop that does not notice the end of the batch.
NextEventUnchecked == batch' = batch \ {Event} /\ pc' = "offer"

NextEvent ==
    /\ batch' = batch \ {Event}
    /\ pc' = IF batch' = {} THEN "idle" ELSE "offer"

\* A gateway that posts whatever it is given.
OfferBlindly ==
    /\ pc = "offer"
    /\ \/ /\ accepted' = accepted \union {Event}
          /\ pc' = "ack"
       \/ /\ pc' = "checkout"
          /\ UNCHANGED accepted
    /\ UNCHANGED <<forge, lastModified, batch, inFlight, unmarked, excused,
                   failures, crashes>>

\* A poll loop that acknowledges only what it posted.
OfferKeepingDropsUnread ==
    /\ pc = "offer"
    /\ \/ /\ accepted' = accepted \union {Event}
          /\ NextEvent
       \/ /\ Event \notin inFlight
          /\ pc' = "checkout"
          /\ UNCHANGED <<accepted, batch>>
    /\ UNCHANGED <<forge, lastModified, inFlight, unmarked, excused,
                   failures, crashes>>

\* The callback is awaited: the formatter drops the event, it is a duplicate
\* of one in flight, or the checkout of its workspace is awaited.
Offer ==
    /\ pc = "offer"
    /\ \/ /\ accepted' = accepted \union {Event}
          /\ pc' = "ack"
       \/ /\ Event \notin inFlight
          /\ pc' = "checkout"
          /\ UNCHANGED accepted
    /\ UNCHANGED <<forge, lastModified, batch, inFlight, unmarked, excused,
                   failures, crashes>>

\* The checkout is there, and the event is posted.
Deliver ==
    /\ pc = "checkout"
    /\ inFlight' = inFlight \union {Event}
    /\ accepted' = accepted \union {Event}
    /\ pc' = "ack"
    /\ UNCHANGED <<forge, lastModified, batch, unmarked, excused, failures, crashes>>

\* A poll loop that marks the thread read all the same.
HandoffFailsUnnoticed ==
    /\ pc \in {"offer", "checkout"}
    /\ Fails
    /\ pc' = "ack"
    /\ UNCHANGED <<forge, lastModified, batch, gatewayVars, excused, crashes>>

\* The callback raised: the thread is left unread.
HandoffFails ==
    /\ pc \in {"offer", "checkout"}
    /\ Fails
    /\ NextEvent
    /\ excused' = excused \union (unread \intersect {Event.thread})
    /\ UNCHANGED <<forge, lastModified, gatewayVars, crashes>>

Ack ==
    /\ pc = "ack"
    /\ \/ /\ unread' = unread \ {Event.thread}
          /\ excused' = excused \ {Event.thread}
          /\ UNCHANGED <<failures, unmarked>>
       \/ /\ Fails
          /\ excused' = excused \union (unread \intersect {Event.thread})
          /\ unmarked' = unmarked \union {Event}
          /\ UNCHANGED unread
    /\ NextEvent
    /\ UNCHANGED <<now, updated, lastModified, inFlight, accepted, crashes>>

-----------------------------------------------------------------------------
\* The agent finishes with an event: its file, and its key, go.
Handled(e) ==
    /\ e \in inFlight
    /\ inFlight' = inFlight \ {e}
    /\ UNCHANGED <<forge, pc, lastModified, batch, accepted, unmarked, excused,
                   failures, crashes>>

\* The gateway ends.  What was posted is on disk, and indexed at its next start.
Crash ==
    /\ pc # "off"
    /\ crashes < MaxCrashes
    /\ crashes' = crashes + 1
    /\ pc' = "off"
    /\ lastModified' = Never
    /\ batch' = {}
    /\ UNCHANGED <<forge, gatewayVars, excused, failures>>

SourceStep ==
    \/ Start \/ DrainList \/ DrainMark \/ DrainEnds
    \/ Poll \/ PollFails \/ Offer \/ Deliver \/ HandoffFails \/ Ack

Next ==
    \/ SourceStep
    \/ Crash
    \/ \E t \in Threads : Activity(t)
    \/ \E e \in Events : Handled(e)

Spec == Init /\ [][Next]_vars

\* A stopped gateway is started again, and the source polls for ever.
FairSpec == Spec /\ WF_vars(SourceStep)

-----------------------------------------------------------------------------
\* While it polls, the source has a thread marked read only when the gateway
\* took the event it fetched for the thread: delivered, duplicate or dropped
\* (_poll_once, lines 713-724).  A PATCH has no version: what it hides beyond
\* that event is activity the list was too early for.
ReadOnlyOnHandoff ==
    [][\A t \in unread \ unread' :
          pc # "draining" =>
             /\ Event.thread = t /\ Event \in accepted
             /\ Event.stamp = updated[t] \/ updated[t] > lastModified]_vars

\* An unread thread stands behind a 304 only because its own handoff or PATCH
\* failed, because it did not fit on the page, or because a list it was unread
\* at was lost between its stamp and its threads: the drain's list leaves no
\* stamp behind that would hide what it did not mark, and a batch that was
\* handed over in part is not forgotten.
HiddenOnlyByFailure ==
    pc = "idle" /\ ~Modified => unread \subseteq excused

\* An event that is posted has no copy in flight; and one that the gateway had
\* taken before is posted again only if its PATCH failed, or the gateway ended
\* before it (the edge case of _mark_thread_read, lines 840-843).
PostedOnce ==
    [][pc = "checkout" /\ pc' = "ack" =>
          /\ Event \notin inFlight
          /\ Event \in accepted => Event \in unmarked \/ crashes > 0]_vars

\* Every activity comes to an end: its thread is marked read, or its handoff or
\* PATCH failed, or a full page or a lost list left it behind.
ActivityIsTaken ==
    \A t \in Threads : t \in unread ~> t \notin unread \/ t \in excused

\* "If gateway handoff raises, the thread is left unread for a later poll"
\* (module docstring, lines 12-13): an event that was once offered to the gateway
\* is taken in the end, unless its thread is read.
FailedHandoffIsRetried ==
    \A t \in Threads :
        LET Offered == /\ pc \in {"offer", "checkout"}
                       /\ Event = [thread |-> t, stamp |-> updated[t]]
            Taken == t \notin unread \/ [thread |-> t, stamp |-> updated[t]] \in accepted
        IN  Offered ~> Taken
=============================================================================
