------------------------- MODULE GitHubSource_proofs -------------------------
(***************************************************************************)
(* The GitHub source for any threads, page size, and number of activities, *)
(* failures and restarts: what a 304 hides, what is marked read and what   *)
(* is posted again.                                                        *)
(***************************************************************************)
EXTENDS GitHubSource, TLAPS, WellFoundedInduction, FiniteSetTheorems

USE SourceAssumption DEF SourceAssumption

-----------------------------------------------------------------------------
\* A taken event comes again only by its PATCH: while it is the one that is
\* acknowledged, or will not be fetched any more, it need not have failed.
Settled(e) ==
    \/ e \in unmarked
    \/ pc = "ack" /\ e = Event
    \/ e \notin batch /\ (e.thread \in unread => updated[e.thread] # e.stamp)

\* What an event was stamped with is in the past of its thread.
Dated ==
    /\ \A t \in unread : updated[t] # 0
    /\ \A e \in batch \union accepted : e.stamp <= updated[e.thread]

\* A thread that no failure, lost list or full page left behind is in the batch
\* as long as the stamp of the list would hide it.
Covered ==
    pc \in {"idle", "offer", "checkout", "ack"} /\ lastModified = now =>
       \A t \in unread \ excused : \E e \in batch : e.thread = t

\* What is in a batch is still the last of its thread, or the thread has moved
\* on since the list.
Fresh ==
    pc \in {"offer", "checkout", "ack"} =>
       /\ lastModified # Never
       /\ \A e \in batch : e.stamp = updated[e.thread] \/ updated[e.thread] > lastModified

\* What the source knows of the event it is at.
Current ==
    /\ pc = "idle" => batch = {}
    /\ pc = "checkout" => Event \notin inFlight
    /\ pc = "ack" => Event \in accepted

SourceInv ==
    /\ TypeOK /\ Dated /\ Covered /\ Current /\ Fresh
    /\ crashes = 0 => \A e \in accepted : Settled(e)

\* There is an oldest event in a batch.
LEMMA EventInBatch ==
    ASSUME batch \subseteq Events, batch # {}
    PROVE  Event \in batch
<1>. DEFINE stamps == {e.stamp : e \in batch}
<1>1. stamps \subseteq Nat /\ stamps # {}
  BY DEF Events, Stamps
<1>2. PICK x \in stamps : \A y \in stamps : ~(<<y, x>> \in OpToRel(<, Nat))
  <2>. HIDE DEF stamps
  <2>. QED  BY <1>1, WFMin, NatLessThanWellFounded
<1>3. \A y \in stamps : ~(y < x)
  <2>. HIDE DEF stamps
  <2>. QED  BY <1>1, <1>2, Zenon DEF OpToRel
<1>4. PICK e \in batch : e.stamp = x
  OBVIOUS
<1>5. \A f \in batch : e.stamp <= f.stamp
  <2>1. ASSUME NEW f \in batch PROVE e.stamp <= f.stamp
    <3>1. f.stamp \in stamps /\ e.stamp \in Nat /\ f.stamp \in Nat
      BY <1>1
    <3>. QED  BY <3>1, <1>3, <1>4
  <2>. QED  BY <2>1
<1>. QED  BY <1>5 DEF Event

LEMMA SourceInit == Init => SourceInv
BY DEF Init, SourceInv, TypeOK, Dated, Covered, Current, Fresh

LEMMA FetchedIs ==
    ASSUME TypeOK, Dated
    PROVE  /\ Fetched \subseteq Events
           /\ \A e \in Fetched : e.thread \in unread /\ e.stamp = updated[e.thread]
           /\ \A t \in Page : \E e \in Fetched : e.thread = t
           /\ Page \subseteq unread
<1>1. Page \subseteq unread /\ unread \subseteq Threads
  BY DEF Page, TypeOK
<1>2. \A t \in unread : updated[t] \in Stamps
  BY <1>1 DEF TypeOK, Dated, Stamps
<1>. HIDE DEF Page
<1>3. \A t \in Page : /\ [thread |-> t, stamp |-> updated[t]] \in Events
                      /\ [thread |-> t, stamp |-> updated[t]] \in Fetched
  BY <1>1, <1>2 DEF Events, Fetched
<1>4. \A e \in Fetched : \E t \in Page : e = [thread |-> t, stamp |-> updated[t]]
  BY DEF Fetched
<1>. HIDE DEF Fetched
<1>5. ASSUME NEW e \in Fetched
      PROVE  e \in Events /\ e.thread \in unread /\ e.stamp = updated[e.thread]
  <2>1. PICK t \in Page : e = [thread |-> t, stamp |-> updated[t]]
    BY <1>4
  <2>2. e.thread = t /\ e.stamp = updated[t]
    BY <2>1
  <2>3. e \in Events
    BY <1>3, <2>1
  <2>. QED  BY <1>1, <2>2, <2>3
<1>6. ASSUME NEW t \in Page
      PROVE  \E e \in Fetched : e.thread = t
  <2>1. [thread |-> t, stamp |-> updated[t]].thread = t
    OBVIOUS
  <2>. QED  BY <1>3, <2>1
<1>. QED  BY <1>1, <1>5, <1>6

LEMMA ActivityKeeps ==
    ASSUME SourceInv, NEW t \in Threads, Activity(t)
    PROVE  SourceInv'
<1>. USE DEF forge, gatewayVars
<1>1. /\ TypeOK /\ now \in Nat /\ updated \in [Threads -> 0 .. now]
      /\ \A e \in batch \union accepted : e \in Events /\ e.stamp <= updated[e.thread]
  BY DEF SourceInv, TypeOK, Dated
<1>2. /\ now' = now + 1 /\ now' # lastModified'
      /\ updated' = [updated EXCEPT ![t] = now']
      /\ Event' = Event
  BY <1>1 DEF Activity, TypeOK, Event
<1>3. TypeOK'
  BY <1>1 DEF Activity, TypeOK
<1>4. Dated'
  <2>1. \A e \in batch \union accepted : e.stamp <= updated'[e.thread]
    BY <1>1, <1>2 DEF Events, Stamps
  <2>2. \A u \in unread' : updated'[u] # 0
    BY <1>1, <1>2 DEF SourceInv, Dated, Activity, TypeOK
  <2>. QED  BY <2>1, <2>2 DEF Dated, Activity
<1>5. ASSUME NEW e \in accepted, Settled(e) PROVE Settled(e)'
  <2>1. e.thread = t => updated'[e.thread] # e.stamp
    BY <1>1, <1>2 DEF Events, Stamps
  <2>2. e.thread # t => /\ updated'[e.thread] = updated[e.thread]
                        /\ e.thread \in unread' => e.thread \in unread
    BY <1>1, <1>2 DEF Events, Activity
  <2>. QED  BY <1>2, <1>5, <2>1, <2>2 DEF Settled, Activity
<1>6. Covered' /\ Current'
  BY <1>2 DEF SourceInv, Covered, Current, Activity
<1>7. Fresh'
  <2>1. ASSUME pc \in {"offer", "checkout", "ack"}
        PROVE  lastModified \in 0 .. now
    BY <2>1 DEF SourceInv, TypeOK, Fresh
  <2>2. \A u \in Threads : updated'[u] = updated[u] \/ updated'[u] = now + 1
    BY <1>1, <1>2
  <2>. QED  BY <1>1, <2>1, <2>2 DEF SourceInv, Fresh, Activity, Events
<1>. QED  BY <1>3, <1>4, <1>5, <1>6, <1>7 DEF SourceInv, Activity

\* A page is fetched, by the drain or by a poll.
LEMMA FetchKeeps ==
    ASSUME SourceInv, batch' = Fetched, pc' \in {"draining", "idle", "offer"},
           pc \in {"starting", "idle"},
           pc' = "idle" <=> pc = "idle" /\ Fetched = {},
           pc' = "offer" <=> pc = "idle" /\ Fetched # {},
           lastModified' = now, excused' = excused \union (unread \ Page),
           UNCHANGED <<forge, gatewayVars, failures, crashes>>
    PROVE  SourceInv'
<1>. USE DEF forge, gatewayVars
<1>1. /\ TypeOK /\ Dated
      /\ Fetched \subseteq Events
      /\ \A e \in Fetched : e.thread \in unread /\ e.stamp = updated[e.thread]
      /\ \A t \in Page : \E e \in Fetched : e.thread = t
      /\ Page \subseteq unread
  BY FetchedIs DEF SourceInv
<1>. HIDE DEF Fetched, Page
<1>2. TypeOK'
  BY <1>1 DEF TypeOK
<1>3. Dated'
  <2>1. \A e \in Fetched : updated[e.thread] \in Nat
    BY <1>1 DEF TypeOK
  <2>. QED  BY <1>1, <2>1 DEF Dated
<1>4. Covered'
  BY <1>1 DEF Covered
<1>5. Current' /\ Fresh'
  BY <1>1, SourceAssumption DEF Current, Fresh, TypeOK
<1>6. ASSUME crashes = 0, NEW e \in accepted
      PROVE  Settled(e)'
  <2>1. Settled(e) /\ pc # "ack"
    BY <1>6 DEF SourceInv
  <2>. QED  BY <1>1, <2>1 DEF Settled
<1>. QED  BY <1>2, <1>3, <1>4, <1>5, <1>6 DEF SourceInv

\* The source is through with the event it is at.
LEMMA NextKeeps ==
    ASSUME SourceInv, batch # {}, NextEvent,
           unread' \subseteq unread, excused' \subseteq unread',
           \A t \in unread' \ excused' : t \in unread \ excused /\ t # Event.thread,
           accepted' = accepted, inFlight' = inFlight,
           unmarked \subseteq unmarked', unmarked' \subseteq accepted,
           pc = "ack" => Event \in unmarked' \/ Event.thread \notin unread',
           pc \in {"offer", "checkout", "ack"},
           failures' \in 0 .. MaxFailures,
           UNCHANGED <<now, updated, lastModified, crashes>>
    PROVE  SourceInv'
<1>1. /\ TypeOK /\ Dated /\ Covered
      /\ Event \in batch
      /\ batch' = batch \ {Event}
      /\ pc' = IF batch' = {} THEN "idle" ELSE "offer"
  BY EventInBatch DEF SourceInv, TypeOK, NextEvent
<1>2. TypeOK'
  BY <1>1 DEF TypeOK
<1>3. Dated'
  BY <1>1 DEF Dated
<1>4. Covered'
  BY <1>1 DEF Covered
<1>5. Current' /\ Fresh'
  BY <1>1 DEF SourceInv, Current, Fresh
<1>6. ASSUME crashes = 0, NEW e \in accepted
      PROVE  Settled(e)'
  <2>1. Settled(e)
    BY <1>6 DEF SourceInv
  <2>2. CASE e = Event
    BY <1>1, <2>1, <2>2 DEF Settled
  <2>3. CASE e # Event
    BY <1>1, <2>1, <2>3 DEF Settled
  <2>. QED  BY <2>2, <2>3
<1>. QED  BY <1>2, <1>3, <1>4, <1>5, <1>6 DEF SourceInv

\* The gateway takes the event, or its checkout begins.
LEMMA TakeKeeps ==
    ASSUME SourceInv, Offer \/ Deliver
    PROVE  SourceInv'
<1>. USE DEF forge
<1>1. TypeOK /\ Dated /\ Covered /\ Event \in batch /\ Event \in Events /\ Event' = Event
  BY EventInBatch DEF SourceInv, TypeOK, Offer, Deliver, Event
<1>2. TypeOK'
  BY <1>1 DEF TypeOK, Offer, Deliver
<1>3. Dated' /\ Covered'
  BY <1>1 DEF Dated, Covered, Offer, Deliver
<1>4. Current' /\ Fresh'
  BY <1>1 DEF SourceInv, Current, Fresh, Offer, Deliver
<1>5. ASSUME crashes = 0, NEW e \in accepted'
      PROVE  Settled(e)'
  <2>1. CASE pc' = "ack" /\ e = Event
    BY <1>1, <2>1 DEF Settled
  <2>2. CASE ~(pc' = "ack" /\ e = Event)
    <3>1. e \in accepted /\ pc # "ack"
      BY <1>5, <2>2 DEF Offer, Deliver
    <3>2. Settled(e)
      BY <1>5, <3>1 DEF SourceInv
    <3>. QED  BY <3>1, <3>2 DEF Settled, Offer, Deliver
  <2>. QED  BY <2>1, <2>2
<1>. QED  BY <1>2, <1>3, <1>4, <1>5 DEF SourceInv, Offer, Deliver

\* The drain marks a thread, or fails to.
LEMMA DrainMarkKeeps ==
    ASSUME SourceInv, DrainMark
    PROVE  SourceInv'
<1>1. /\ TypeOK /\ Dated /\ pc = "draining" /\ pc' = "draining"
      /\ batch' \subseteq batch
      /\ unread' \subseteq unread /\ excused' \subseteq unread'
      /\ failures' \in 0 .. MaxFailures
      /\ UNCHANGED <<now, updated, lastModified, inFlight, accepted, unmarked, crashes>>
  BY DEF SourceInv, TypeOK, DrainMark, Fails, gatewayVars
<1>2. TypeOK'
  BY <1>1 DEF TypeOK
<1>3. Dated' /\ Covered' /\ Current' /\ Fresh'
  BY <1>1 DEF Dated, Covered, Current, Fresh
<1>4. ASSUME crashes = 0, NEW e \in accepted PROVE Settled(e)'
  <2>1. Settled(e)
    BY <1>4 DEF SourceInv
  <2>. QED  BY <1>1, <2>1 DEF Settled
<1>. QED  BY <1>1, <1>2, <1>3, <1>4 DEF SourceInv

\* The stamp of a list that is lost covers nothing that is not excused.
LEMMA PollFailsKeeps ==
    ASSUME SourceInv, PollFails
    PROVE  SourceInv'
<1>. USE DEF forge, gatewayVars
<1>1. /\ TypeOK /\ Dated /\ pc = "idle" /\ batch = {} /\ pc' = "idle"
      /\ lastModified' = now /\ excused' = excused \union unread
      /\ failures' \in 0 .. MaxFailures
      /\ UNCHANGED <<now, updated, unread, batch, inFlight, accepted, unmarked, crashes>>
  BY DEF SourceInv, TypeOK, Current, PollFails, Fails
<1>2. TypeOK'
  BY <1>1 DEF TypeOK
<1>3. Dated' /\ Covered' /\ Current' /\ Fresh'
  BY <1>1 DEF Dated, Covered, Current, Fresh
<1>4. ASSUME crashes = 0, NEW e \in accepted PROVE Settled(e)'
  <2>1. Settled(e)
    BY <1>4 DEF SourceInv
  <2>. QED  BY <1>1, <2>1 DEF Settled
<1>. QED  BY <1>1, <1>2, <1>3, <1>4 DEF SourceInv

\* The source starts or stops, or the agent is done with an event.
LEMMA QuietKeeps ==
    ASSUME SourceInv,
           \/ Start \/ DrainEnds \/ Crash
           \/ pc = "starting" /\ DrainList /\ pc' = "off"
           \/ \E e \in Events : Handled(e)
           \/ UNCHANGED vars
    PROVE  SourceInv'
<1>. USE DEF forge, gatewayVars
<1>1. TypeOK /\ Dated /\ Covered /\ Current /\ Fresh
  BY DEF SourceInv
<1>2. CASE Start
  <2>1. TypeOK' /\ Dated' /\ Covered' /\ Current' /\ Fresh' /\ Event' = Event
    BY <1>1, <1>2 DEF Start, TypeOK, Dated, Covered, Current, Fresh, Event
  <2>. QED  BY <1>2, <2>1 DEF SourceInv, Start, Settled
<1>3. CASE DrainEnds
  <2>1. TypeOK' /\ Dated' /\ Covered' /\ Current' /\ Fresh'
    BY <1>1, <1>3 DEF DrainEnds, TypeOK, Dated, Covered, Current, Fresh
  <2>. QED  BY <1>3, <2>1 DEF SourceInv, DrainEnds, Settled
<1>4. CASE Crash
  <2>1. TypeOK' /\ Dated' /\ Covered' /\ Current' /\ Fresh' /\ crashes' # 0
    BY <1>1, <1>4 DEF Crash, TypeOK, Dated, Covered, Current, Fresh
  <2>. QED  BY <2>1 DEF SourceInv
<1>5. CASE pc = "starting" /\ DrainList /\ pc' = "off"
  <2>1. UNCHANGED <<now, updated, unread, batch, lastModified, excused, gatewayVars, crashes>>
        /\ failures' \in 0 .. MaxFailures
    BY <1>1, <1>5 DEF DrainList, Fails, TypeOK
  <2>2. TypeOK' /\ Dated' /\ Covered' /\ Current' /\ Fresh'
    BY <1>1, <1>5, <2>1 DEF TypeOK, Dated, Covered, Current, Fresh
  <2>. QED  BY <1>5, <2>1, <2>2 DEF SourceInv, Settled
<1>6. ASSUME NEW e \in Events, Handled(e) PROVE SourceInv'
  <2>1. TypeOK' /\ Dated' /\ Covered' /\ Fresh' /\ Event' = Event
    BY <1>1, <1>6 DEF Handled, TypeOK, Dated, Covered, Fresh, Event
  <2>2. Current'
    BY <1>1, <1>6, <2>1 DEF Handled, Current
  <2>. QED  BY <1>6, <2>1, <2>2 DEF SourceInv, Handled, Settled
<1>7. CASE UNCHANGED vars
  <2>1. TypeOK' /\ Event' = Event
    BY <1>1, <1>7 DEF vars, TypeOK, Event
  <2>2. Dated' /\ Covered' /\ Current' /\ Fresh'
    BY <1>1, <1>7, <2>1 DEF vars, Dated, Covered, Current, Fresh
  <2>. QED  BY <1>7, <2>1, <2>2 DEF SourceInv, vars, Settled
<1>. QED  BY <1>2, <1>3, <1>4, <1>5, <1>6, <1>7

LEMMA SourceStepKeeps ==
    ASSUME SourceInv, [Next]_vars
    PROVE  SourceInv'
<1>. USE DEF forge, gatewayVars
<1>1. TypeOK
  BY DEF SourceInv
<1>2. CASE DrainList
  <2>1. CASE pc' = "off"
    BY <1>2, <2>1, QuietKeeps DEF DrainList
  <2>2. CASE pc' # "off"
    BY <1>2, <2>2, FetchKeeps DEF DrainList
  <2>. QED  BY <2>1, <2>2
<1>3. CASE Poll
  BY <1>3, FetchKeeps DEF Poll
<1>4. CASE HandoffFails
  <2>1. /\ batch # {} /\ NextEvent /\ pc \in {"offer", "checkout"}
        /\ excused' = excused \union (unread \intersect {Event.thread})
        /\ failures' \in 0 .. MaxFailures
        /\ UNCHANGED <<forge, lastModified, gatewayVars, crashes>>
    BY <1>1, <1>4 DEF HandoffFails, Fails, TypeOK
  <2>. QED  BY <1>1, <2>1, NextKeeps DEF TypeOK
<1>5. CASE Ack
  <2>1. /\ batch # {} /\ NextEvent /\ pc = "ack"
        /\ failures' \in 0 .. MaxFailures
        /\ UNCHANGED <<now, updated, lastModified, inFlight, accepted, crashes>>
    BY <1>1, <1>5 DEF Ack, Fails, TypeOK
  <2>2. /\ unread' \subseteq unread /\ excused' \subseteq unread'
        /\ \A t \in unread' \ excused' : t \in unread \ excused /\ t # Event.thread
        /\ unmarked \subseteq unmarked'
        /\ Event \in unmarked' \/ Event.thread \notin unread'
    BY <1>1, <1>5 DEF Ack, TypeOK
  <2>3. unmarked' \subseteq accepted
    BY <1>1, <1>5 DEF Ack, TypeOK, SourceInv, Current
  <2>. QED  BY <2>1, <2>2, <2>3, NextKeeps
<1>. QED
  BY <1>2, <1>3, <1>4, <1>5, ActivityKeeps, DrainMarkKeeps, TakeKeeps, PollFailsKeeps,
     QuietKeeps
     DEF Next, SourceStep

\* The state is well typed, with any number of threads and any page size.
THEOREM Typed == Spec => []TypeOK
<1>1. SourceInv => TypeOK
  BY DEF SourceInv
<1>. QED  BY <1>1, SourceInit, SourceStepKeeps, PTL DEF Spec

\* What stands behind a 304 unread is there by a failure of its own, for want of
\* room on the page, or because a list with its stamp stored was lost
\* (_fetch_unread_thread_list, _fetch_new_notifications, _drain_existing_unread).
THEOREM NothingElseIsHidden == Spec => []HiddenOnlyByFailure
<1>1. SourceInv => HiddenOnlyByFailure
  BY DEF SourceInv, Covered, Current, HiddenOnlyByFailure, Modified
<1>. QED  BY <1>1, SourceInit, SourceStepKeeps, PTL DEF Spec

\* A list shows every unread thread when there are no more than fit on a page.
LEMMA PageIsAll ==
    ASSUME TypeOK, Cardinality(Threads) <= PageSize
    PROVE  Page = unread
<1>1. ASSUME NEW t \in unread
      PROVE  Cardinality({u \in unread : updated[u] > updated[t]}) < PageSize
  <2>. DEFINE later == {u \in unread : updated[u] > updated[t]}
  <2>1. t \in Threads /\ updated[t] \in Nat
    BY DEF TypeOK
  <2>2. later \subseteq Threads /\ t \notin later
    BY <2>1 DEF TypeOK
  <2>. HIDE DEF later
  <2>3. /\ Cardinality(later) <= Cardinality(Threads)
        /\ Cardinality(later) # Cardinality(Threads)
    BY <2>1, <2>2, FS_Subset
  <2>4. Cardinality(later) \in Nat /\ Cardinality(Threads) \in Nat
    BY <2>2, FS_Subset, FS_CardinalityType
  <2>5. Cardinality(later) < PageSize
    BY ONLY <2>3, <2>4, Cardinality(Threads) <= PageSize, PageSize \in Nat
  <2>. QED  BY <2>5 DEF later
<1>. QED  BY <1>1 DEF Page

\* As long as nothing fails, no thread is left behind.
NobodyExcused == failures = 0 => excused = {}

LEMMA ExcuseNeedsFailure ==
    ASSUME TypeOK, Cardinality(Threads) <= PageSize, NobodyExcused, [Next]_vars
    PROVE  NobodyExcused'
<1>. USE DEF NobodyExcused, TypeOK, forge, gatewayVars
<1>1. ASSUME Fails
      PROVE  failures' # 0
  BY <1>1 DEF Fails
<1>2. CASE DrainList \/ Poll
  BY <1>1, <1>2, PageIsAll DEF DrainList, Poll
<1>3. CASE DrainMark \/ Ack \/ HandoffFails \/ PollFails
  BY <1>1, <1>3 DEF DrainMark, Ack, HandoffFails, PollFails
<1>4. CASE \/ Start \/ DrainEnds \/ Offer \/ Deliver \/ Crash \/ UNCHANGED vars
           \/ \E t \in Threads : Activity(t)
           \/ \E e \in Events : Handled(e)
  BY <1>4 DEF Start, DrainEnds, Offer, Deliver, Crash, Activity, Handled, vars
<1>. QED  BY <1>2, <1>3, <1>4 DEF Next, SourceStep

\* Where the threads fit on a page and nothing has failed (no handoff, PATCH,
\* list or conversion), a source that is answered 304 has missed nothing, however often the gateway ended and started
\* over, and whatever came in while it handed its last batch over.
NothingUnread == pc = "idle" /\ ~Modified /\ failures = 0 => unread = {}

THEOREM QuietMeansRead ==
    ASSUME Cardinality(Threads) <= PageSize
    PROVE  Spec => []NothingUnread
<1>1. Init => NobodyExcused
  BY DEF Init, NobodyExcused
<1>2. SourceInv /\ NobodyExcused /\ [Next]_vars => NobodyExcused'
  BY ExcuseNeedsFailure DEF SourceInv
<1>3. SourceInv /\ NobodyExcused => NothingUnread
  BY DEF SourceInv, Covered, Current, NobodyExcused, NothingUnread, Modified
<1>. QED  BY <1>1, <1>2, <1>3, SourceInit, SourceStepKeeps, PTL DEF Spec

\* Every unread thread that no failure of its own, lost list or full page left
\* behind is in the batch or on the next list, whenever the source polls: what is left of ActivityIsTaken for
\* fairness is that the source goes on.
THEOREM UnreadIsInReach == Spec => []Covered
<1>1. SourceInv => Covered
  BY DEF SourceInv
<1>. QED  BY <1>1, SourceInit, SourceStepKeeps, PTL DEF Spec

\* The polling source has nothing marked read that the gateway did not take,
\* unless it is younger than the list that was polled (_poll_once).
THEOREM ReadMeansTaken == Spec => ReadOnlyOnHandoff
<1>1. SourceInv /\ [Next]_vars =>
         [\A t \in unread \ unread' :
             pc # "draining" =>
                /\ Event.thread = t /\ Event \in accepted
                /\ Event.stamp = updated[t] \/ updated[t] > lastModified]_vars
  <2>1. ASSUME SourceInv, Next, NEW t \in unread \ unread', pc # "draining"
        PROVE  /\ Event.thread = t /\ Event \in accepted
               /\ Event.stamp = updated[t] \/ updated[t] > lastModified
    <3>1. Ack
      BY <2>1 DEF Next, SourceStep, Start, DrainList, DrainMark, DrainEnds, Poll, PollFails,
                  Offer, Deliver,
                  HandoffFails, Crash, Activity, Handled, forge
    <3>2. Event \in batch
      BY <2>1, <3>1, EventInBatch DEF Ack, SourceInv, TypeOK
    <3>. QED  BY <2>1, <3>1, <3>2 DEF Ack, SourceInv, Current, Fresh
  <2>. QED  BY <2>1
<1>. QED  BY <1>1, SourceInit, SourceStepKeeps, PTL DEF Spec, ReadOnlyOnHandoff

\* Nothing is posted beside its copy in flight, nor a second time unless its
\* PATCH failed or the gateway ended, however often it is fetched
\* (_dispatch_formatted, _mark_thread_read).
THEOREM PostedTwiceForCause == Spec => PostedOnce
<1>1. SourceInv /\ [Next]_vars =>
         [pc = "checkout" /\ pc' = "ack" =>
             /\ Event \notin inFlight
             /\ Event \in accepted => Event \in unmarked \/ crashes > 0]_vars
  <2>1. ASSUME SourceInv, pc = "checkout", pc' = "ack"
        PROVE  /\ Event \notin inFlight
               /\ Event \in accepted => Event \in unmarked \/ crashes > 0
    <3>1. Event \in batch /\ crashes \in Nat
      BY <2>1, EventInBatch DEF SourceInv, TypeOK
    <3>. QED  BY <2>1, <3>1 DEF SourceInv, Current, Settled
  <2>. QED  BY <2>1
<1>. QED  BY <1>1, SourceInit, SourceStepKeeps, PTL DEF Spec, PostedOnce
=============================================================================
