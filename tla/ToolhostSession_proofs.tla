------------------------ MODULE ToolhostSession_proofs ------------------------
(***************************************************************************)
(* The safety of one executor, for any number of callers and daemons: its  *)
(* types, and what it knows of its daemon between and during teardowns.    *)
(***************************************************************************)
EXTENDS ToolhostSession, SequenceTheorems, TLAPS

USE ToolhostAssumption DEF ToolhostAssumption

\* The executor is open and no setup was given up half way.
Undisturbed == ~closed /\ ~abandoned

\* A connection that is watched is whole, and nobody sets up or tears down.
WatchedIsWhole ==
    watched => /\ writer # 0 /\ writer = spawned /\ ~shut
               /\ lock = Nobody /\ td[Watcher] = "none" /\ daemon # "none"

\* A call that sets up is alone with the writer: there is none until it has
\* connected, and then it is its own until its teardown has closed it.
SetupIsAlone ==
    \A c \in Calls :
        /\ pc[c] \in {"start", "connect"} => writer = 0 /\ td[c] \in {"none", "stopping"}
        /\ pc[c] \in {"connect", "hello"} => td[Watcher] = "none" /\ daemon # "none"
        /\ pc[c] = "hello" =>
             \/ td[c] = "none" /\ writer # 0 /\ writer = spawned /\ conn[c] = spawned /\ ~shut
             \/ td[c] = "closing" /\ writer # 0 /\ conn[c] = spawned /\ shut
             \/ td[c] = "stopping" /\ writer = 0

\* A call in a teardown is one that sets up, and its teardown is about the
\* daemon there is; so is the Watcher's, which lets nobody past `start`.
CallTeardowns ==
    \A c \in Calls : td[c] # "none" => /\ pc[c] \in Setup /\ target[c] = spawned
                                       /\ td[c] = "stopping" => Running
WatcherTeardown ==
    td[Watcher] # "none" =>
        /\ target[Watcher] = spawned /\ ~watched
        /\ td[Watcher] = "tasks" =>
             writer # 0 /\ ~shut /\ lock = Nobody /\ daemon # "none"
        /\ td[Watcher] = "closing" => writer # 0 /\ lock = Nobody /\ daemon # "none"
        /\ td[Watcher] = "stopping" =>
             writer = 0 /\ Running /\ \A c \in Calls : pc[c] \notin {"connect", "hello"}

\* Nothing is left without somebody to look after it.
NothingLeft ==
    /\ writer # 0 => \/ watched \/ td[Watcher] \in {"tasks", "closing"}
                     \/ \E c \in Calls : pc[c] = "hello"
    /\ (writer = 0 /\ td[Watcher] = "none" /\ \A c \in Calls : pc[c] \notin {"connect", "hello"})
           => daemon = "none"
    /\ shut => \E t \in Tasks : td[t] = "closing"

SessionInv ==
    /\ td[Closer] = "none"
    /\ hostStarted = (daemon # "none") /\ (hostStarted => spawned # 0)
    /\ WatchedIsWhole
    /\ SetupIsAlone
    /\ CallTeardowns
    /\ WatcherTeardown
    /\ NothingLeft

-----------------------------------------------------------------------------
(* The line for _send_lock.                                                *)

Senders == Calls \cup {Watcher}

\* A sequence in which nobody stands twice.
Queue(s) ==
    /\ s \in Seq(Senders)
    /\ IsInjective(s)

LEMMA AppendQueue ==
    ASSUME NEW s, Queue(s), NEW t \in Senders, t \notin Range(s)
    PROVE  /\ Queue(Append(s, t)) /\ Append(s, t) # <<>>
           /\ Range(Append(s, t)) = Range(s) \cup {t}
<1>1. /\ Append(s, t) \in Seq(Senders) /\ Append(s, t) # <<>>
      /\ Len(Append(s, t)) = Len(s) + 1
      /\ \A i \in 1..Len(s) : Append(s, t)[i] = s[i]
      /\ Append(s, t)[Len(s) + 1] = t
  BY AppendProperties DEF Queue, IsInjective
<1>2. /\ DOMAIN s = 1..Len(s) /\ Len(s) \in Nat
      /\ DOMAIN Append(s, t) = 1..(Len(s) + 1)
  BY <1>1 DEF Queue, IsInjective
<1>3. \A i \in DOMAIN s : s[i] # t
  BY DEF Range
<1>4. \A i, j \in DOMAIN Append(s, t) : Append(s, t)[i] = Append(s, t)[j] => i = j
  <2> DEFINE a == Append(s, t)
  <2>1. \A i \in DOMAIN a : i = Len(s) + 1 \/ i \in DOMAIN s
    BY <1>2
  <2> SUFFICES ASSUME NEW i \in DOMAIN a, NEW j \in DOMAIN a, a[i] = a[j] PROVE i = j
    OBVIOUS
  <2>2. CASE i \in DOMAIN s /\ j \in DOMAIN s
    BY <2>2, <1>1, <1>2 DEF Queue, IsInjective
  <2>3. CASE ~(i \in DOMAIN s /\ j \in DOMAIN s)
    BY <2>1, <2>3, <1>1, <1>2, <1>3
  <2> QED
    BY <2>2, <2>3
<1>5. Range(Append(s, t)) = Range(s) \cup {t}
  <2>1. \A i \in DOMAIN Append(s, t) : i = Len(s) + 1 \/ i \in DOMAIN s
    BY <1>2
  <2>2. Len(s) + 1 \in DOMAIN Append(s, t) /\ \A i \in DOMAIN s : i \in DOMAIN Append(s, t)
    BY <1>2
  <2> QED
    BY <1>1, <1>2, <2>1, <2>2 DEF Range
<1> QED
  BY <1>1, <1>4, <1>5 DEF Queue, IsInjective

LEMMA RemoveQueue ==
    ASSUME NEW s, Queue(s), NEW i \in DOMAIN s
    PROVE  /\ Queue(RemoveAt(s, i)) /\ (i # 1 => RemoveAt(s, i) # <<>>)
           /\ Range(RemoveAt(s, i)) \subseteq Range(s) \ {s[i]}
<1> DEFINE r == RemoveAt(s, i)
           a == SubSeq(s, 1, i - 1)
           b == SubSeq(s, i + 1, Len(s))
<1>1. DOMAIN s = 1..Len(s) /\ Len(s) \in Nat /\ i \in 1..Len(s) /\ \A j \in 1..Len(s) : s[j] \in Senders
  BY DEF Queue, IsInjective
<1>2. a \in Seq(Senders) /\ Len(a) = i - 1 /\ \A j \in 1..(i - 1) : a[j] = s[j]
  <2>1. \A j \in 1..(i - 1) : s[j] \in Senders
    BY <1>1
  <2> QED
    BY <1>1, <2>1, SubSeqProperties
<1>3. b \in Seq(Senders) /\ Len(b) = Len(s) - i /\ \A j \in 1..(Len(s) - i) : b[j] = s[i + j]
  <2>1. \A j \in (i + 1)..Len(s) : s[j] \in Senders
    BY <1>1
  <2>2. /\ b \in Seq(Senders) /\ Len(b) = IF i + 1 <= Len(s) THEN Len(s) - (i + 1) + 1 ELSE 0
        /\ \A j \in 1..(Len(s) - (i + 1) + 1) : b[j] = s[(i + 1) + j - 1]
    BY <1>1, <2>1, SubSeqProperties
  <2>3. Len(s) - (i + 1) + 1 = Len(s) - i /\ \A j \in 1..(Len(s) - i) : (i + 1) + j - 1 = i + j
    BY <1>1
  <2> QED
    BY <1>1, <2>2, <2>3
<1>4. /\ r \in Seq(Senders) /\ Len(r) = Len(s) - 1
      /\ \A j \in 1..(Len(s) - 1) : r[j] = IF j < i THEN s[j] ELSE s[j + 1]
  <2>1. /\ r \in Seq(Senders) /\ Len(r) = Len(a) + Len(b)
        /\ \A j \in 1..(Len(a) + Len(b)) : r[j] = IF j <= Len(a) THEN a[j] ELSE b[j - Len(a)]
    BY <1>2, <1>3, ConcatProperties DEF RemoveAt
  <2> HIDE DEF r, a, b
  <2>2. Len(a) + Len(b) = Len(s) - 1
    BY <1>1, <1>2, <1>3
  <2>3. ASSUME NEW j \in 1..(Len(s) - 1)
        PROVE  r[j] = IF j < i THEN s[j] ELSE s[j + 1]
    <3>1. CASE j < i
      BY <1>1, <1>2, <2>1, <2>2, <3>1
    <3>2. CASE ~(j < i)
      <4>1. j - Len(a) \in 1..(Len(s) - i) /\ i + (j - Len(a)) = j + 1
        BY <1>1, <1>2, <3>2
      <4>2. r[j] = b[j - Len(a)]
        BY <1>1, <1>2, <2>1, <2>2, <3>2
      <4> QED
        BY <1>3, <3>2, <4>1, <4>2
    <3> QED
      BY <3>1, <3>2
  <2> QED
    BY <2>1, <2>2, <2>3
<1> HIDE DEF r
<1>5. DOMAIN r = 1..(Len(s) - 1)
  BY <1>4
<1>6. ASSUME NEW j \in DOMAIN r
      PROVE  \E k \in DOMAIN s : k # i /\ r[j] = s[k] /\ k = IF j < i THEN j ELSE j + 1
  BY <1>1, <1>4, <1>5
<1>7. \A j, k \in DOMAIN r : r[j] = r[k] => j = k
  <2> SUFFICES ASSUME NEW j \in DOMAIN r, NEW k \in DOMAIN r, r[j] = r[k] PROVE j = k
    OBVIOUS
  <2>1. PICK m \in DOMAIN s : m # i /\ r[j] = s[m] /\ m = IF j < i THEN j ELSE j + 1
    BY <1>6
  <2>2. PICK n \in DOMAIN s : n # i /\ r[k] = s[n] /\ n = IF k < i THEN k ELSE k + 1
    BY <1>6
  <2>3. m = n
    BY <2>1, <2>2 DEF Queue, IsInjective
  <2> QED
    BY <1>1, <1>5, <2>1, <2>2, <2>3
<1>8. Range(r) \subseteq Range(s) \ {s[i]}
  <2>1. \A k \in DOMAIN s : k # i => s[k] # s[i]
    BY DEF Queue, IsInjective
  <2> QED
    BY <1>6, <2>1 DEF Range
<1>9. i # 1 => r # <<>>
  BY <1>1, <1>4
<1> QED
  BY <1>4, <1>7, <1>8, <1>9 DEF Queue, IsInjective, r

LEMMA TailQueue ==
    ASSUME NEW s, Queue(s), s # <<>>
    PROVE  /\ Queue(Tail(s)) /\ Head(s) \in Range(s)
           /\ Range(Tail(s)) \subseteq Range(s) \ {Head(s)}
<1>1. /\ Tail(s) \in Seq(Senders) /\ Len(Tail(s)) = Len(s) - 1
      /\ \A i \in 1..Len(Tail(s)) : Tail(s)[i] = s[i + 1]
  BY HeadTailProperties DEF Queue, IsInjective
<1>2. Len(s) \in Nat /\ Len(s) # 0 /\ DOMAIN s = 1..Len(s) /\ DOMAIN Tail(s) = 1..(Len(s) - 1)
  BY <1>1 DEF Queue, IsInjective
<1>3. Head(s) = s[1] /\ 1 \in DOMAIN s
  BY <1>2 DEF Queue, IsInjective
<1>4. \A i \in DOMAIN Tail(s) : i + 1 \in DOMAIN s /\ i + 1 # 1 /\ Tail(s)[i] = s[i + 1]
  BY <1>1, <1>2
<1>5. \A i, j \in DOMAIN Tail(s) : Tail(s)[i] = Tail(s)[j] => i = j
  BY <1>2, <1>4 DEF Queue, IsInjective
<1>6. Head(s) \in Range(s) /\ Range(Tail(s)) \subseteq Range(s) \ {Head(s)}
  BY <1>3, <1>4 DEF Queue, IsInjective, Range
<1> QED
  BY <1>1, <1>5, <1>6 DEF Queue, IsInjective
-----------------------------------------------------------------------------
(* Types.                                                                  *)

DataTyped ==
    /\ pc \in [Calls -> InInvoke \cup {"idle", "cancelled"}]
    /\ lock \in Calls \cup {Nobody}
    /\ \A c \in Calls : pc[c] \in Setup <=> lock = c
    /\ writer \in 0..MaxDaemons /\ spawned \in 0..MaxDaemons
    /\ conn \in [Calls -> 0..MaxDaemons]
    /\ daemon \in {"none", "up"} \cup Failures
    /\ job \in [Calls -> {"none", "written", "sent", "running", "replied"}]
    /\ td \in [Tasks -> {"none", "tasks", "closing", "stopping"}]
    /\ target \in [Tasks -> 0..MaxDaemons]
    /\ \A c \in Calls : td[c] # "none" => pc[c] \in Setup

\* Whoever is in line, for the lock or with it, is in _send.
LineTyped ==
    /\ full \in BOOLEAN /\ draining \in BOOLEAN
    /\ Queue(line)
    /\ \A c \in Calls \cap Range(line) : pc[c] \in Sending
    /\ draining => full /\ line # <<>>

\* What _send does for a caller that enters it: it stands in line, or is through.
LEMMA SendMoves ==
    ASSUME DataTyped, LineTyped, NEW c \in Calls, NEW p \in {"send", "cancelling"},
           pc[c] \notin Sending, Send(c, p)
    PROVE  /\ LineTyped'
           /\ \E s \in Sending \cup {"await", "idle", "cancelled"} : pc' = [pc EXCEPT ![c] = s]
           /\ job' \in [Calls -> {"none", "written", "sent", "running", "replied"}]
           /\ conn' \in [Calls -> 0..MaxDaemons]
           /\ \A d \in Calls \ {c} : conn'[d] = conn[d]
           /\ pc'[c] \in {"send", "await"} => p = "send" /\ conn'[c] = writer
<1> USE DEF DataTyped, Requesting, Sending
<1>1. /\ \E s \in {p, "await", "idle", "cancelled"} : pc' = [pc EXCEPT ![c] = s]
      /\ job' \in [Calls -> {"none", "written", "sent", "running", "replied"}]
      /\ full' \in BOOLEAN /\ draining' \in BOOLEAN
      /\ draining' => full' /\ (line = <<>> => pc'[c] = p)
      /\ pc'[c] = "await" => p = "send"
  <2>1. CASE line = <<>>
    <3>1. WriteFrame(c, p, writer) /\ draining' = (pc'[c] = p)
      BY <2>1 DEF Send
    <3>2. /\ \E s \in {p, "await", "idle", "cancelled"} : pc' = [pc EXCEPT ![c] = s]
          /\ job' \in [Calls -> {"none", "written", "sent", "running", "replied"}]
          /\ full' \in BOOLEAN /\ (pc'[c] = p => full')
          /\ pc'[c] = "await" => p = "send"
      BY <3>1 DEF WriteFrame, Broken, Drained, LineTyped
    <3> QED
      BY <2>1, <3>1, <3>2
  <2>2. CASE line # <<>>
    BY <2>2 DEF Send, LineTyped
  <2> QED
    BY <2>1, <2>2
<1>2. c \notin Range(line) /\ c \in Senders /\ pc'[c] \in {p, "await", "idle", "cancelled"}
  BY <1>1 DEF LineTyped, Senders
<1>3. line' = IF pc'[c] = p THEN Append(line, c) ELSE line
  BY DEF Send
<1>4. /\ Queue(line') /\ (draining' => line' # <<>>)
      /\ Range(line') = IF pc'[c] = p THEN Range(line) \cup {c} ELSE Range(line)
  BY <1>1, <1>2, <1>3, AppendQueue DEF LineTyped
<1>5. LineTyped'
  BY <1>1, <1>2, <1>4 DEF LineTyped
<1>6. /\ conn' \in [Calls -> 0..MaxDaemons]
      /\ \A d \in Calls \ {c} : conn'[d] = conn[d]
      /\ pc'[c] \in {p, "await"} => conn'[c] = writer
  BY DEF Send
<1> QED
  BY <1>1, <1>5, <1>6

\* A task that is cancelled in _send stands in the line no more.
LEMMA LeaveLineMoves ==
    ASSUME LineTyped, NEW t \in Senders, LeaveLine(t)
    PROVE  /\ Queue(line') /\ Range(line') \subseteq Range(line) \ {t}
           /\ draining' \in BOOLEAN /\ (draining' => full /\ line' # <<>>)
<1>1. CASE t \notin Range(line)
  BY <1>1 DEF LineTyped, LeaveLine
<1>2. CASE t \in Range(line)
  <2>1. PICK i \in DOMAIN line : line[i] = t /\ line' = RemoveAt(line, i)
    BY <1>2 DEF LeaveLine
  <2>2. draining' => draining /\ Head(line) # t
    BY DEF LeaveLine
  <2>3. line # <<>> => Head(line) = line[1]
    BY DEF LineTyped, Queue
  <2>4. draining' => i # 1 /\ full
    BY <2>1, <2>2, <2>3 DEF LineTyped
  <2> QED
    BY <2>1, <2>4, RemoveQueue DEF LineTyped, LeaveLine
<1> QED
  BY <1>1, <1>2

\* A step in the line and the buffer, and a cancelled _send.
LineStep == TakeSendLock \/ Beat \/ Flush \/ SendBreaks \/ \E c \in Calls : CancelSend(c)

\* Such a step lets callers out of _send, and changes nothing else.
LEMMA LineMoves ==
    ASSUME DataTyped, LineTyped, LineStep
    PROVE  /\ DataTyped' /\ LineTyped'
           /\ UNCHANGED <<lock, link, closed, host, conn, td, history>>
           /\ \A c \in Calls : \/ pc'[c] = pc[c]
                              \/ /\ pc[c] \in Sending
                                 /\ pc'[c] \in {"await", "idle", "cancelled"}
<1> USE DEF Requesting, Sending
<1>1. UNCHANGED <<lock, link, closed, host, conn, td, history>>
  BY DEF LineStep, TakeSendLock, Beat, Flush, SendBreaks, CancelSend
<1>2. line # <<>> => /\ Queue(Tail(line)) /\ Head(line) \in Range(line)
                     /\ Head(line) \in Senders
                     /\ Range(Tail(line)) \subseteq Range(line) \ {Head(line)}
  BY TailQueue DEF LineTyped, Queue
<1> DEFINE Moved == /\ pc' \in [Calls -> InInvoke \cup {"idle", "cancelled"}]
                    /\ job' \in [Calls -> {"none", "written", "sent", "running", "replied"}]
                    /\ \A c \in Calls :
                         \/ pc'[c] = pc[c]
                         \/ /\ pc[c] \in Sending
                            /\ pc'[c] \in {"await", "idle", "cancelled"}
<1>3. ASSUME Moved PROVE DataTyped'
  BY <1>1, <1>3 DEF DataTyped, Setup, link, host, history
<1>4. ASSUME TakeSendLock
      PROVE  Moved /\ LineTyped'
  <2>0. line # <<>> /\ ~draining
    BY <1>4 DEF TakeSendLock
  <2>1. CASE Head(line) = Watcher
    <3>1. UNCHANGED <<pc, job, full>> /\ draining' = full
      BY <1>4, <2>1 DEF TakeSendLock
    <3>2. line' = IF full THEN line ELSE Tail(line)
      BY <1>4, <3>1 DEF TakeSendLock, LineTyped
    <3>3. Moved
      BY <3>1 DEF DataTyped
    <3> QED
      BY <1>2, <2>0, <3>1, <3>2, <3>3 DEF LineTyped
  <2>2. CASE Head(line) # Watcher
    <3> DEFINE c == Head(line)
    <3>1. c \in Calls /\ pc[c] \in Sending /\ c \in Range(line)
      BY <1>2, <2>0, <2>2 DEF LineTyped, Senders
    <3>2. WriteFrame(c, pc[c], conn[c]) /\ draining' = (pc'[c] = pc[c])
      BY <1>4, <2>2 DEF TakeSendLock
    <3> HIDE DEF c
    <3>3. /\ \E s \in {pc[c], "await", "idle", "cancelled"} : pc' = [pc EXCEPT ![c] = s]
          /\ job' \in [Calls -> {"none", "written", "sent", "running", "replied"}]
          /\ full' \in BOOLEAN /\ (pc'[c] = pc[c] => full')
      BY <3>1, <3>2 DEF WriteFrame, Broken, Drained, LineTyped, DataTyped
    <3>4. Moved
      <4>1. PICK s \in {pc[c], "await", "idle", "cancelled"} : pc' = [pc EXCEPT ![c] = s]
        BY <3>3
      <4>2. s \in InInvoke \cup {"idle", "cancelled"}
        BY <3>1, <4>1 DEF InInvoke
      <4> QED
        BY <3>1, <3>3, <4>1, <4>2 DEF DataTyped
    <3>5. line' = IF draining' THEN line ELSE Tail(line)
      BY <1>4 DEF TakeSendLock
    <3>6. LineTyped'
      <4>1. CASE draining'
        BY <2>0, <3>1, <3>2, <3>3, <3>5, <4>1 DEF LineTyped, DataTyped
      <4>2. CASE ~draining'
        BY <1>2, <2>0, <3>1, <3>2, <3>3, <3>5, <4>2 DEF LineTyped, DataTyped, c
      <4> QED
        BY <4>1, <4>2
    <3> QED
      BY <3>4, <3>6
  <2> QED
    BY <2>1, <2>2
<1>5. ASSUME Beat
      PROVE  Moved /\ LineTyped'
  <2>1. /\ UNCHANGED <<pc, job, full>> /\ full /\ Watcher \notin Range(line)
        /\ line' = Append(line, Watcher) /\ draining' = (draining \/ line = <<>>)
    BY <1>5 DEF Beat, Beating
  <2>2. Moved
    BY <2>1 DEF DataTyped
  <2>3. /\ Queue(line') /\ line' # <<>> /\ Range(line') = Range(line) \cup {Watcher}
    BY <2>1, AppendQueue DEF LineTyped, Senders
  <2> QED
    BY <2>1, <2>2, <2>3 DEF LineTyped
<1>6. ASSUME Flush
      PROVE  Moved /\ LineTyped'
  <2>1. /\ full' = FALSE /\ draining' = FALSE
        /\ pc' = [c \in Calls |->
                    IF draining /\ c = Head(line) THEN Drained(pc[c]) ELSE pc[c]]
        /\ line' = IF draining THEN Tail(line) ELSE line
        /\ job' = [c \in Calls |-> IF job[c] = "written" THEN "sent" ELSE job[c]]
    BY <1>6 DEF Flush, DrainReturns
  <2>2. Moved
    BY <1>2, <2>1 DEF Drained, Broken, LineTyped, DataTyped, InInvoke
  <2>3. LineTyped'
    BY <1>2, <2>1 DEF LineTyped
  <2> QED
    BY <2>2, <2>3
<1>7. ASSUME SendBreaks
      PROVE  Moved /\ LineTyped'
  <2>1. /\ full' = FALSE /\ draining' = FALSE
        /\ pc' = [c \in Calls |->
                    IF draining /\ c = Head(line) THEN Broken(pc[c]) ELSE pc[c]]
        /\ line' = IF draining THEN Tail(line) ELSE line
        /\ job' = [c \in Calls |-> IF job[c] = "written" THEN "none" ELSE job[c]]
    BY <1>7 DEF SendBreaks, DrainReturns
  <2>2. Moved
    BY <1>2, <2>1 DEF Broken, LineTyped, DataTyped, InInvoke
  <2>3. LineTyped'
    BY <1>2, <2>1 DEF LineTyped
  <2> QED
    BY <2>2, <2>3
<1>8. ASSUME NEW c \in Calls, CancelSend(c)
      PROVE  Moved /\ LineTyped'
  <2>1. /\ pc[c] \in Sending /\ UNCHANGED <<job, full>> /\ LeaveLine(c)
        /\ \E s \in {"idle", "cancelled"} : pc' = [pc EXCEPT ![c] = s]
    BY <1>8 DEF CancelSend, Broken
  <2>2. Moved
    BY <2>1 DEF DataTyped
  <2>3. /\ Queue(line') /\ Range(line') \subseteq Range(line) \ {c}
        /\ draining' \in BOOLEAN /\ (draining' => full /\ line' # <<>>)
    BY <2>1, LeaveLineMoves DEF Senders
  <2>4. LineTyped'
    BY <2>1, <2>3 DEF LineTyped, DataTyped
  <2> QED
    BY <2>2, <2>4
<1>9. Moved /\ LineTyped'
  BY <1>4, <1>5, <1>6, <1>7, <1>8 DEF LineStep
<1> QED
  BY <1>1, <1>3, <1>9


LEMMA DataStep ==
    ASSUME DataTyped, LineTyped, [Next]_vars
    PROVE  DataTyped'
<1> USE DEF DataTyped, Tasks, InInvoke, Setup, Requesting, Sending, link, host, history
<1>1. ASSUME NEW c \in Calls, Invoke(c)
      PROVE  DataTyped'
  BY <1>1, SendMoves DEF Invoke, Ship
<1>2. ASSUME NEW c \in Calls, TakeLock(c)
      PROVE  DataTyped'
  BY <1>2, SendMoves DEF TakeLock, Ship
<1>3. ASSUME NEW c \in Calls, StartHost(c)
      PROVE  DataTyped'
  BY <1>3 DEF StartHost, StopHost, Ends
<1>4. ASSUME NEW c \in Calls, Connect(c)
      PROVE  DataTyped'
  BY <1>4 DEF Connect, StopHost, Ends
<1>5. ASSUME NEW c \in Calls, HelloArrives(c)
      PROVE  DataTyped'
  BY <1>5, SendMoves DEF HelloArrives, Ship, OwnsWriter
<1>6. ASSUME NEW c \in Calls, HelloFails(c)
      PROVE  DataTyped'
  BY <1>6 DEF HelloFails, LoseSetup
<1>7. ASSUME NEW c \in Calls, HelloRejected(c)
      PROVE  DataTyped'
  BY <1>7 DEF HelloRejected, LoseSetup
<1>8. ASSUME NEW c \in Calls, Respond(c)
      PROVE  DataTyped'
  BY <1>8 DEF Respond
<1>9. ASSUME NEW c \in Calls, Cancel(c)
      PROVE  DataTyped'
  BY <1>9, SendMoves DEF Cancel
<1>10. ASSUME NEW c \in Calls, JobStarts(c)
      PROVE  DataTyped'
  BY <1>10 DEF JobStarts
<1>11. ASSUME NEW c \in Calls, JobReplies(c)
      PROVE  DataTyped'
  BY <1>11 DEF JobReplies
<1>12. ASSUME NEW c \in Calls, JobCancelled(c)
      PROVE  DataTyped'
  BY <1>12 DEF JobCancelled
<1>13. ASSUME NEW f \in Failures, DaemonFails(f)
      PROVE  DataTyped'
  BY <1>13 DEF DaemonFails
<1>14. CASE DetectFailure
  BY <1>14 DEF DetectFailure, FailAll
<1>15. CASE DetectGarbage
  BY <1>15 DEF DetectGarbage, FailAll
<1>16. CASE Close
  BY <1>16 DEF Close
<1>17. ASSUME NEW t \in Tasks, CloseWriter(t)
      PROVE  DataTyped'
  BY <1>17 DEF CloseWriter
<1>18. ASSUME NEW t \in Tasks, ForgetWriter(t)
      PROVE  DataTyped'
  BY <1>18 DEF ForgetWriter, StopHost, Ends
<1>19. CASE HostStopped
  BY <1>19 DEF HostStopped, Ends
<1>20. CASE UNCHANGED vars
  BY <1>20 DEF vars
<1>21. CASE LineStep
  BY <1>21, LineMoves
<1> QED
  BY <1>1, <1>2, <1>3, <1>4, <1>5, <1>6, <1>7, <1>8, <1>9, <1>10, <1>11, <1>12, <1>13,
     <1>14, <1>15, <1>16, <1>17, <1>18, <1>19, <1>20, <1>21
    DEF Next, CallStep, SetupStep, DaemonStep, TeardownStep, LineStep

\* Who keeps to the buffer and the line, and lets nobody out of _send, keeps them
\* as they are.
LEMMA LineKeeps ==
    ASSUME LineTyped, UNCHANGED wire, \A c \in Calls : pc[c] \in Sending => pc'[c] \in Sending
    PROVE  LineTyped'
BY DEF LineTyped, wire

\* Who cancels the heartbeat takes it out of the line too.
LEMMA LineLoses ==
    ASSUME LineTyped, LeaveLine(Watcher), UNCHANGED full,
           \A c \in Calls : pc[c] \in Sending => pc'[c] \in Sending
    PROVE  LineTyped'
<1>1. /\ Queue(line') /\ Range(line') \subseteq Range(line) \ {Watcher}
      /\ draining' \in BOOLEAN /\ (draining' => full /\ line' # <<>>)
  BY LeaveLineMoves DEF Senders
<1> QED
  BY <1>1 DEF LineTyped

LEMMA LineTypedStep ==
    ASSUME DataTyped, LineTyped, [Next]_vars
    PROVE  LineTyped'
<1> USE DEF DataTyped, Setup, Requesting, Sending, Tasks
<1>1. ASSUME NEW c \in Calls, Invoke(c)
      PROVE  LineTyped'
  <2>1. CASE Ship(c)
    BY <1>1, <2>1, SendMoves DEF Invoke, Ship
  <2> QED
    BY <1>1, <2>1, LineKeeps DEF Invoke
<1>2. ASSUME NEW c \in Calls, TakeLock(c)
      PROVE  LineTyped'
  <2>1. CASE Ship(c)
    BY <1>2, <2>1, SendMoves DEF TakeLock, Ship
  <2> QED
    BY <1>2, <2>1, LineKeeps DEF TakeLock
<1>3. ASSUME NEW c \in Calls, StartHost(c)
      PROVE  LineTyped'
  BY <1>3, LineKeeps DEF StartHost, StopHost, Ends
<1>4. ASSUME NEW c \in Calls, Connect(c)
      PROVE  LineTyped'
  BY <1>4, LineKeeps DEF Connect, StopHost, Ends
<1>5. ASSUME NEW c \in Calls, HelloArrives(c)
      PROVE  LineTyped'
  BY <1>5, SendMoves DEF HelloArrives, Ship
<1>6. ASSUME NEW c \in Calls, LoseSetup(c)
      PROVE  LineTyped'
  BY <1>6, LineKeeps DEF LoseSetup
<1>7. ASSUME NEW c \in Calls, Respond(c)
      PROVE  LineTyped'
  BY <1>7, LineKeeps DEF Respond
<1>8. ASSUME NEW c \in Calls, Cancel(c)
      PROVE  LineTyped'
  <2>1. CASE Send(c, "cancelling")
    BY <1>8, <2>1, SendMoves DEF Cancel
  <2> QED
    BY <1>8, <2>1, LineKeeps DEF Cancel
<1>9. ASSUME NEW c \in Calls, DaemonStep(c)
      PROVE  LineTyped'
  BY <1>9, LineKeeps DEF DaemonStep, JobStarts, JobReplies, JobCancelled
<1>10. ASSUME NEW f \in Failures, DaemonFails(f)
      PROVE  LineTyped'
  BY <1>10, LineKeeps DEF DaemonFails
<1>11. CASE FailAll
  BY <1>11, LineLoses DEF FailAll
<1>12. CASE Close
  BY <1>12, LineKeeps DEF Close
<1>13. ASSUME NEW t \in Tasks, CloseWriter(t)
      PROVE  LineTyped'
  BY <1>13, LineLoses DEF CloseWriter
<1>14. ASSUME NEW t \in Tasks, ForgetWriter(t)
      PROVE  LineTyped'
  BY <1>14, LineKeeps DEF ForgetWriter, StopHost, Ends
<1>15. CASE HostStopped
  BY <1>15, LineKeeps DEF HostStopped, Ends
<1>16. CASE LineStep
  BY <1>16, LineMoves
<1>17. CASE UNCHANGED vars
  BY <1>17, LineKeeps DEF vars, wire
<1> QED
  BY <1>1, <1>2, <1>3, <1>4, <1>5, <1>6, <1>7, <1>8, <1>9, <1>10, <1>11, <1>12, <1>13,
     <1>14, <1>15, <1>16, <1>17
    DEF Next, CallStep, SetupStep, HelloFails, HelloRejected, DetectFailure, DetectGarbage,
        TeardownStep, LineStep

Flags ==
    /\ shut \in BOOLEAN /\ watched \in BOOLEAN /\ closed \in BOOLEAN
    /\ hostStarted \in BOOLEAN /\ abandoned \in BOOLEAN /\ busyAtClose \in BOOLEAN

LEMMA FlagsStep ==
    ASSUME Flags, [Next]_vars
    PROVE  Flags'
<1> USE DEF Flags, link, host, history
<1>1. ASSUME NEW c \in Calls, Invoke(c)
      PROVE  Flags'
  BY <1>1 DEF Invoke
<1>2. ASSUME NEW c \in Calls, TakeLock(c)
      PROVE  Flags'
  BY <1>2 DEF TakeLock
<1>3. ASSUME NEW c \in Calls, StartHost(c)
      PROVE  Flags'
  BY <1>3 DEF StartHost, StopHost, Ends
<1>4. ASSUME NEW c \in Calls, Connect(c)
      PROVE  Flags'
  BY <1>4 DEF Connect, StopHost, Ends
<1>5. ASSUME NEW c \in Calls, HelloArrives(c)
      PROVE  Flags'
  BY <1>5 DEF HelloArrives
<1>6. ASSUME NEW c \in Calls, HelloFails(c)
      PROVE  Flags'
  BY <1>6 DEF HelloFails, LoseSetup
<1>7. ASSUME NEW c \in Calls, HelloRejected(c)
      PROVE  Flags'
  BY <1>7 DEF HelloRejected, LoseSetup
<1>8. ASSUME NEW c \in Calls, Respond(c)
      PROVE  Flags'
  BY <1>8 DEF Respond
<1>9. ASSUME NEW c \in Calls, Cancel(c)
      PROVE  Flags'
  BY <1>9 DEF Cancel
<1>10. ASSUME NEW c \in Calls, JobStarts(c)
      PROVE  Flags'
  BY <1>10 DEF JobStarts
<1>11. ASSUME NEW c \in Calls, JobReplies(c)
      PROVE  Flags'
  BY <1>11 DEF JobReplies
<1>12. ASSUME NEW c \in Calls, JobCancelled(c)
      PROVE  Flags'
  BY <1>12 DEF JobCancelled
<1>13. ASSUME NEW f \in Failures, DaemonFails(f)
      PROVE  Flags'
  BY <1>13 DEF DaemonFails
<1>14. CASE DetectFailure
  BY <1>14 DEF DetectFailure, FailAll
<1>15. CASE DetectGarbage
  BY <1>15 DEF DetectGarbage, FailAll
<1>16. CASE Close
  BY <1>16 DEF Close
<1>17. ASSUME NEW t \in Tasks, CloseWriter(t)
      PROVE  Flags'
  BY <1>17 DEF CloseWriter
<1>18. ASSUME NEW t \in Tasks, ForgetWriter(t)
      PROVE  Flags'
  BY <1>18 DEF ForgetWriter, StopHost, Ends
<1>19. CASE HostStopped
  BY <1>19 DEF HostStopped, Ends
<1>20. CASE UNCHANGED vars
  BY <1>20 DEF vars
<1>21. CASE LineStep
  BY <1>21 DEF LineStep, TakeSendLock, Beat, Flush, SendBreaks, CancelSend
<1> QED
  BY <1>1, <1>2, <1>3, <1>4, <1>5, <1>6, <1>7, <1>8, <1>9, <1>10, <1>11, <1>12, <1>13,
     <1>14, <1>15, <1>16, <1>17, <1>18, <1>19, <1>20, <1>21
    DEF Next, CallStep, SetupStep, DaemonStep, TeardownStep, LineStep

-----------------------------------------------------------------------------
(* What an undisturbed executor knows of its daemon.                       *)

\* The step of a handshake that is lost, whatever lost it: the call is alone with
\* a writer that is its own, and closes it.
LEMMA LoseSetupStep ==
    ASSUME DataTyped, Undisturbed, SessionInv, NEW c \in Calls, LoseSetup(c)
    PROVE  SessionInv'
<1>1. /\ pc[c] = "hello" /\ td[c] = "none" /\ lock = c /\ c # Nobody
      /\ \A d \in Calls : d # c => pc[d] \notin Setup
  BY DEF LoseSetup, DataTyped, Setup
<1>2. /\ writer # 0 /\ writer = spawned /\ conn[c] = spawned
      /\ td[Watcher] = "none" /\ daemon # "none"
  BY <1>1 DEF SessionInv, SetupIsAlone
<1>3. /\ ~watched /\ hostStarted = (daemon # "none") /\ (hostStarted => spawned # 0)
      /\ td[Closer] = "none" /\ CallTeardowns
  BY <1>1 DEF SessionInv, WatchedIsWhole
<1>4. /\ td' = [td EXCEPT ![c] = "closing"] /\ shut' = TRUE
      /\ target' = [target EXCEPT ![c] = spawned]
      /\ UNCHANGED <<pc, lock, writer, spawned, daemon, hostStarted, watched, conn>>
  BY <1>2 DEF LoseSetup, host
<1>5. td \in [Tasks -> {"none", "tasks", "closing", "stopping"}] /\ target \in [Tasks -> 0..MaxDaemons]
  BY DEF DataTyped
<1>6. c \in Tasks /\ Watcher # c /\ Closer # c
  BY DEF Tasks
<1>7. /\ td'[c] = "closing" /\ target'[c] = spawned
      /\ \A t \in Tasks : t # c => td'[t] = td[t] /\ target'[t] = target[t]
  BY <1>4, <1>5, <1>6
<1>8. Calls \subseteq Tasks /\ Watcher \in Tasks /\ Closer \in Tasks
  BY DEF Tasks
<1>9. td'[Closer] = "none" /\ td'[Watcher] = "none" /\ WatchedIsWhole'
  BY <1>2, <1>3, <1>4, <1>6, <1>7, <1>8 DEF WatchedIsWhole
<1>10. SetupIsAlone'
  BY <1>1, <1>2, <1>4, <1>7, <1>9 DEF SetupIsAlone, Setup
<1>11. CallTeardowns'
  BY <1>1, <1>3, <1>4, <1>7, <1>8 DEF CallTeardowns, Setup
<1>12. WatcherTeardown'
  BY <1>9 DEF WatcherTeardown
<1>13. NothingLeft'
  BY <1>1, <1>2, <1>4, <1>6, <1>7 DEF NothingLeft
<1> QED
  BY <1>3, <1>4, <1>9, <1>10, <1>11, <1>12, <1>13 DEF SessionInv

\* Outside the setup a cancelled call leaves everything else as it is.
LEMMA CancelStep ==
    ASSUME DataTyped, LineTyped, SessionInv, NEW c \in Calls, Cancel(c), Undisturbed'
    PROVE  SessionInv'
<1>1. /\ pc[c] \in {"lock", "await"}
      /\ \E s \in Sending \cup {"idle", "cancelled"} : pc' = [pc EXCEPT ![c] = s]
      /\ \A d \in Calls \ {c} : conn'[d] = conn[d]
  <2>1. pc[c] \in {"lock", "await"}
    BY DEF Cancel, Undisturbed
  <2>2. CASE Send(c, "cancelling")
    BY <2>1, <2>2, SendMoves DEF DataTyped, Requesting, Sending
  <2> QED
    BY <2>1, <2>2 DEF Cancel
<1>2. td[c] = "none" /\ lock # c
  BY <1>1 DEF SessionInv, CallTeardowns, DataTyped, Setup
<1>3. td' = td /\ lock' = lock /\ target' = [target EXCEPT ![c] = 0]
  BY <1>2 DEF Cancel, DataTyped, Tasks
<1>4. UNCHANGED <<writer, shut, watched, hostStarted, daemon, spawned>>
  BY DEF Cancel, link, host
<1>5. /\ \A d \in Calls : d # c => pc'[d] = pc[d] /\ conn'[d] = conn[d]
      /\ pc[c] \notin {"start", "connect", "hello"}
      /\ pc'[c] \in Sending \cup {"idle", "cancelled"}
      /\ pc'[c] \notin {"start", "connect", "hello"}
  BY <1>1 DEF DataTyped, Requesting, Sending
<1>6. /\ \A t \in Tasks : t # c => target'[t] = target[t]
      /\ Watcher \in Tasks /\ Watcher # c /\ Calls \subseteq Tasks
  BY <1>3 DEF DataTyped, Tasks
<1>7. WatchedIsWhole'
  BY <1>3, <1>4 DEF SessionInv, WatchedIsWhole
<1>8. SetupIsAlone'
  BY <1>3, <1>4, <1>5 DEF SessionInv, SetupIsAlone
<1>9. CallTeardowns'
  BY <1>2, <1>3, <1>4, <1>5, <1>6 DEF SessionInv, CallTeardowns, Running
<1>10. WatcherTeardown'
  BY <1>3, <1>4, <1>5, <1>6 DEF SessionInv, WatcherTeardown, Running
<1>11. NothingLeft'
  <2>1. \A d \in Calls : pc'[d] = "hello" <=> pc[d] = "hello"
    BY <1>5
  <2>2. \A d \in Calls : pc'[d] \notin {"connect", "hello"} <=> pc[d] \notin {"connect", "hello"}
    BY <1>5
  <2> QED
    BY <1>3, <1>4, <2>1, <2>2 DEF SessionInv, NothingLeft
<1> QED
  BY <1>3, <1>4, <1>7, <1>8, <1>9, <1>10, <1>11 DEF SessionInv

LEMMA SessionStep ==
    ASSUME DataTyped, LineTyped, Undisturbed, SessionInv, [Next]_vars, Undisturbed'
    PROVE  SessionInv'
<1> USE DEF DataTyped, Undisturbed, SessionInv, WatchedIsWhole, SetupIsAlone,
            CallTeardowns, WatcherTeardown, NothingLeft, Running, Reachable,
            Tasks, InInvoke, Setup, Requesting, Sending, Failures, link, host, history
<1>1. ASSUME NEW c \in Calls, Invoke(c)
      PROVE  SessionInv'
  BY <1>1, SendMoves DEF Invoke, Ship
<1>2. ASSUME NEW c \in Calls, TakeLock(c)
      PROVE  SessionInv'
  BY <1>2, SendMoves DEF TakeLock, Ship
<1>3. ASSUME NEW c \in Calls, StartHost(c)
      PROVE  SessionInv'
  <2>1. td'[Closer] = "none"
    BY <1>3 DEF StartHost, StopHost, Ends
  <2>2. hostStarted' = (daemon' # "none") /\ (hostStarted' => spawned' # 0)
    <3>1. spawned \in Nat /\ spawned + 1 # 0
      OBVIOUS
    <3>2. CASE spawned' = spawned + 1
      BY <1>3, <3>1, <3>2 DEF StartHost, StopHost, Ends
    <3>3. CASE spawned' = spawned
      BY <1>3, <3>1, <3>3 DEF StartHost, StopHost, Ends
    <3> QED
      BY <1>3, <3>2, <3>3 DEF StartHost
  <2>3. WatchedIsWhole'
    BY <1>3 DEF StartHost, StopHost, Ends
  <2>4. SetupIsAlone'
    BY <1>3 DEF StartHost, StopHost, Ends
  <2>5. CallTeardowns'
    BY <1>3 DEF StartHost, StopHost, Ends
  <2>6. WatcherTeardown'
    BY <1>3 DEF StartHost, StopHost, Ends
  <2>7. NothingLeft'
    BY <1>3 DEF StartHost, StopHost, Ends
  <2> QED
    BY <2>1, <2>2, <2>3, <2>4, <2>5, <2>6, <2>7
<1>4. ASSUME NEW c \in Calls, Connect(c)
      PROVE  SessionInv'
  <2>1. td'[Closer] = "none"
    BY <1>4 DEF Connect, StopHost, Ends
  <2>2. hostStarted' = (daemon' # "none") /\ (hostStarted' => spawned' # 0)
    BY <1>4 DEF Connect, StopHost, Ends
  <2>3. WatchedIsWhole'
    BY <1>4 DEF Connect, StopHost, Ends
  <2>4. SetupIsAlone'
    <3>1. \A d \in Calls : d # c => pc[d] \notin Setup
      BY <1>4 DEF Connect
    <3>2. td[Watcher] = "none" /\ daemon # "none" /\ writer = 0
      BY <1>4 DEF Connect
    <3>3. CASE pc' = [pc EXCEPT ![c] = "hello"]
      <4>1. writer' = spawned /\ conn' = [conn EXCEPT ![c] = spawned] /\ ~shut'
        BY <1>4, <3>3 DEF Connect, StopHost, Ends
      <4> QED
        BY <1>4, <3>1, <3>2, <3>3, <4>1 DEF Connect, StopHost, Ends
    <3>4. CASE ~(pc' = [pc EXCEPT ![c] = "hello"])
      BY <1>4, <3>1, <3>2, <3>4 DEF Connect, StopHost, Ends
    <3> QED
      BY <3>3, <3>4
  <2>5. CallTeardowns'
    BY <1>4 DEF Connect, StopHost, Ends
  <2>6. WatcherTeardown'
    BY <1>4 DEF Connect, StopHost, Ends
  <2>7. NothingLeft'
    BY <1>4 DEF Connect, StopHost, Ends
  <2> QED
    BY <2>1, <2>2, <2>3, <2>4, <2>5, <2>6, <2>7
<1>5. ASSUME NEW c \in Calls, HelloArrives(c)
      PROVE  SessionInv'
  BY <1>5, SendMoves DEF HelloArrives, Ship, OwnsWriter
<1>6. ASSUME NEW c \in Calls, HelloFails(c)
      PROVE  SessionInv'
  BY <1>6, LoseSetupStep DEF HelloFails
<1>7. ASSUME NEW c \in Calls, HelloRejected(c)
      PROVE  SessionInv'
  BY <1>7, LoseSetupStep DEF HelloRejected
<1>8. ASSUME NEW c \in Calls, Respond(c)
      PROVE  SessionInv'
  BY <1>8 DEF Respond
<1>9. ASSUME NEW c \in Calls, Cancel(c)
      PROVE  SessionInv'
  BY <1>9, CancelStep
<1>10. ASSUME NEW c \in Calls, JobStarts(c)
      PROVE  SessionInv'
  BY <1>10 DEF JobStarts
<1>11. ASSUME NEW c \in Calls, JobReplies(c)
      PROVE  SessionInv'
  BY <1>11 DEF JobReplies
<1>12. ASSUME NEW c \in Calls, JobCancelled(c)
      PROVE  SessionInv'
  BY <1>12 DEF JobCancelled
<1>13. ASSUME NEW f \in Failures, DaemonFails(f)
      PROVE  SessionInv'
  BY <1>13 DEF DaemonFails
<1>14. CASE DetectFailure
  BY <1>14 DEF DetectFailure, FailAll
<1>15. CASE DetectGarbage
  BY <1>15 DEF DetectGarbage, FailAll
<1>16. CASE Close
  BY <1>16 DEF Close
<1>17. ASSUME NEW t \in Tasks, CloseWriter(t)
      PROVE  SessionInv'
  BY <1>17 DEF CloseWriter
<1>18. ASSUME NEW t \in Tasks, ForgetWriter(t)
      PROVE  SessionInv'
  <2>1. td'[Closer] = "none"
    BY <1>18 DEF ForgetWriter, StopHost, Ends
  <2>2. hostStarted' = (daemon' # "none") /\ (hostStarted' => spawned' # 0)
    BY <1>18 DEF ForgetWriter, StopHost, Ends
  <2>3. WatchedIsWhole'
    BY <1>18 DEF ForgetWriter, StopHost, Ends
  <2>4. SetupIsAlone'
    BY <1>18 DEF ForgetWriter, StopHost, Ends
  <2>5. CallTeardowns'
    BY <1>18 DEF ForgetWriter, StopHost, Ends
  <2>6. WatcherTeardown'
    <3>1. CASE t = Watcher
      BY <1>18, <3>1 DEF ForgetWriter, StopHost, Ends
    <3>2. CASE t # Watcher
      <4>1. td[Watcher] = "none"
        BY <1>18, <3>2 DEF ForgetWriter
      <4> QED
        BY <1>18, <3>2, <4>1 DEF ForgetWriter, StopHost, Ends
    <3> QED
      BY <3>1, <3>2
  <2>7. NothingLeft'
    BY <1>18 DEF ForgetWriter, StopHost, Ends
  <2> QED
    BY <2>1, <2>2, <2>3, <2>4, <2>5, <2>6, <2>7
<1>19. CASE HostStopped
  <2> DEFINE S == {t \in Tasks : td[t] = "stopping"}
  <2>1. PICK u \in Tasks : td[u] = "stopping"
    BY <1>19 DEF HostStopped
  <2>2. writer = 0 /\ ~watched /\ ~shut
    BY <2>1
  <2>3. \A d \in Calls : pc[d] \in {"connect", "hello"} => d \in S
    BY <2>1
  <2>4. /\ td' = [t \in Tasks |-> IF t \in S THEN "none" ELSE td[t]]
        /\ pc' = [d \in Calls |-> IF d \in S THEN "idle" ELSE pc[d]]
        /\ target' = [t \in Tasks |-> IF t \in S THEN 0 ELSE target[t]]
        /\ lock' = IF lock \in S THEN Nobody ELSE lock
    BY <1>19 DEF HostStopped, Ends
  <2>5. /\ daemon' = "none" /\ hostStarted' = FALSE
        /\ UNCHANGED <<writer, shut, watched, spawned, conn>>
    BY <1>19 DEF HostStopped
  <2>6. \A d \in Calls : pc'[d] \notin {"connect", "hello"}
    BY <2>3, <2>4
  <2>7. \A t \in Tasks : td'[t] # "stopping" /\ (td'[t] # "none" => t \notin S /\ td'[t] = td[t])
    BY <2>4
  <2>8. td'[Closer] = "none" /\ hostStarted' = (daemon' # "none") /\ (hostStarted' => spawned' # 0)
    BY <2>5, <2>7
  <2>9. WatchedIsWhole'
    BY <2>2, <2>5
  <2>10. SetupIsAlone'
    BY <2>2, <2>4, <2>5, <2>6
  <2>11. CallTeardowns'
    BY <2>4, <2>5, <2>7
  <2>12. WatcherTeardown'
    BY <2>2, <2>4, <2>5, <2>7
  <2>13. NothingLeft'
    BY <2>2, <2>5
  <2> QED
    BY <2>8, <2>9, <2>10, <2>11, <2>12, <2>13
<1>20. CASE UNCHANGED vars
  BY <1>20 DEF vars
<1>21. CASE LineStep
  BY <1>21, LineMoves
<1> QED
  BY <1>1, <1>2, <1>3, <1>4, <1>5, <1>6, <1>7, <1>8, <1>9, <1>10, <1>11, <1>12, <1>13,
     <1>14, <1>15, <1>16, <1>17, <1>18, <1>19, <1>20, <1>21
    DEF Next, CallStep, SetupStep, DaemonStep, TeardownStep, LineStep

-----------------------------------------------------------------------------
(* What aclose leaves behind, also after setups that were given up.        *)

\* Disturbed or not: _host_started is set while the host has a process to answer
\* for, who waits in host.stop() waits for one that runs, and a call in a
\* teardown has not left its setup.
HostInv ==
    /\ hostStarted = (daemon # "none")
    /\ \A t \in Tasks : td[t] = "stopping" => Running

\* A quiet aclose is alone with the Watcher, and each of its stages is for good.
QuietClose ==
    closed /\ ~busyAtClose =>
        /\ \A c \in Calls : pc[c] \notin InInvoke
        /\ td[Closer] # "tasks" => ~watched
        /\ td[Closer] \in {"stopping", "none"} => writer = 0
        /\ td[Closer] = "none" => ~hostStarted

\* _stop_host_quietly by a call that sets up.
LEMMA StopHostStep ==
    ASSUME DataTyped, Flags, HostInv, NEW c \in Calls, StopHost(c), pc[c] \in Setup
    PROVE  HostInv'
<1> USE DEF HostInv, Running, DataTyped, Tasks
<1>1. CASE Running
  <2>1. td' = [td EXCEPT ![c] = "stopping"] /\ UNCHANGED <<daemon, hostStarted, pc>>
    BY <1>1 DEF StopHost
  <2> QED
    BY <1>1, <2>1
<1>2. CASE ~Running
  <2>1. /\ daemon' = "none" /\ hostStarted' = FALSE
        /\ td' = [t \in Tasks |-> IF t \in {c} THEN "none" ELSE td[t]]
        /\ pc' = [d \in Calls |-> IF d \in {c} THEN "idle" ELSE pc[d]]
    BY <1>2 DEF StopHost, Ends
  <2>2. \A t \in Tasks : td[t] # "stopping"
    BY <1>2
  <2>3. \A t \in Tasks : td'[t] # "stopping"
    BY <2>1, <2>2
  <2> QED
    BY <2>1, <2>3
<1> QED
  BY <1>1, <1>2

LEMMA HostStep ==
    ASSUME DataTyped, LineTyped, Flags, HostInv, [Next]_vars
    PROVE  HostInv'
<1> USE DEF DataTyped, Flags, HostInv, Running, Reachable, Tasks, InInvoke, Setup,
            Requesting, Sending, Failures, link, host, history
<1>1. ASSUME NEW c \in Calls, Invoke(c)
      PROVE  HostInv'
  BY <1>1, SendMoves DEF Invoke, Ship
<1>2. ASSUME NEW c \in Calls, TakeLock(c)
      PROVE  HostInv'
  BY <1>2, SendMoves DEF TakeLock, Ship
<1>3. ASSUME NEW c \in Calls, StartHost(c)
      PROVE  HostInv'
  <2>1. CASE /\ daemon' = "up" /\ hostStarted' = TRUE
             /\ pc' = [pc EXCEPT ![c] = "connect"]
             /\ UNCHANGED <<td, lock, target>>
    BY <2>1
  <2>2. CASE StopHost(c)
    BY <1>3, <2>2, StopHostStep DEF StartHost
  <2> QED
    BY <1>3, <2>1, <2>2 DEF StartHost
<1>4. ASSUME NEW c \in Calls, Connect(c)
      PROVE  HostInv'
  <2>1. CASE UNCHANGED <<host, td, lock, target>> /\ pc' = [pc EXCEPT ![c] = "hello"]
    BY <2>1
  <2>2. CASE StopHost(c)
    BY <1>4, <2>2, StopHostStep DEF Connect
  <2> QED
    BY <1>4, <2>1, <2>2 DEF Connect
<1>5. ASSUME NEW c \in Calls, HelloArrives(c)
      PROVE  HostInv'
  BY <1>5, SendMoves DEF HelloArrives, Ship, OwnsWriter
<1>6. ASSUME NEW c \in Calls, HelloFails(c)
      PROVE  HostInv'
  BY <1>6 DEF HelloFails, LoseSetup
<1>7. ASSUME NEW c \in Calls, HelloRejected(c)
      PROVE  HostInv'
  BY <1>7 DEF HelloRejected, LoseSetup
<1>8. ASSUME NEW c \in Calls, Respond(c)
      PROVE  HostInv'
  BY <1>8 DEF Respond
<1>9. ASSUME NEW c \in Calls, Cancel(c)
      PROVE  HostInv'
  BY <1>9, SendMoves DEF Cancel
<1>10. ASSUME NEW c \in Calls, JobStarts(c)
      PROVE  HostInv'
  BY <1>10 DEF JobStarts
<1>11. ASSUME NEW c \in Calls, JobReplies(c)
      PROVE  HostInv'
  BY <1>11 DEF JobReplies
<1>12. ASSUME NEW c \in Calls, JobCancelled(c)
      PROVE  HostInv'
  BY <1>12 DEF JobCancelled
<1>13. ASSUME NEW f \in Failures, DaemonFails(f)
      PROVE  HostInv'
  BY <1>13 DEF DaemonFails
<1>14. CASE DetectFailure
  BY <1>14 DEF DetectFailure, FailAll
<1>15. CASE DetectGarbage
  BY <1>15 DEF DetectGarbage, FailAll
<1>16. CASE Close
  BY <1>16 DEF Close
<1>17. ASSUME NEW t \in Tasks, CloseWriter(t)
      PROVE  HostInv'
  BY <1>17 DEF CloseWriter
<1>18. ASSUME NEW t \in Tasks, ForgetWriter(t)
      PROVE  HostInv'
  <2>1. hostStarted' = (daemon' # "none")
    BY <1>18 DEF ForgetWriter, StopHost, Ends
  <2>2. \A u \in Tasks : td'[u] = "stopping" => Running'
    BY <1>18 DEF ForgetWriter, StopHost, Ends
  <2> QED
    BY <2>1, <2>2
<1>19. CASE HostStopped
  BY <1>19 DEF HostStopped, Ends
<1>20. CASE UNCHANGED vars
  BY <1>20 DEF vars
<1>21. CASE LineStep
  BY <1>21, LineMoves
<1> QED
  BY <1>1, <1>2, <1>3, <1>4, <1>5, <1>6, <1>7, <1>8, <1>9, <1>10, <1>11, <1>12, <1>13,
     <1>14, <1>15, <1>16, <1>17, <1>18, <1>19, <1>20, <1>21
    DEF Next, CallStep, SetupStep, DaemonStep, TeardownStep, LineStep

LEMMA QuietStep ==
    ASSUME DataTyped, LineTyped, Flags, HostInv, QuietClose, [Next]_vars
    PROVE  QuietClose'
<1> USE DEF DataTyped, Flags, HostInv, QuietClose, Running, Reachable, Tasks, InInvoke,
            Setup, Requesting, Sending, Failures, link, host, history
<1>1. ASSUME NEW c \in Calls, Invoke(c)
      PROVE  QuietClose'
  BY <1>1, SendMoves DEF Invoke, Ship
<1>2. ASSUME NEW c \in Calls, TakeLock(c)
      PROVE  QuietClose'
  BY <1>2, SendMoves DEF TakeLock, Ship
<1>3. ASSUME NEW c \in Calls, StartHost(c)
      PROVE  QuietClose'
  BY <1>3 DEF StartHost, StopHost, Ends
<1>4. ASSUME NEW c \in Calls, Connect(c)
      PROVE  QuietClose'
  BY <1>4 DEF Connect, StopHost, Ends
<1>5. ASSUME NEW c \in Calls, HelloArrives(c)
      PROVE  QuietClose'
  BY <1>5, SendMoves DEF HelloArrives, Ship, OwnsWriter
<1>6. ASSUME NEW c \in Calls, HelloFails(c)
      PROVE  QuietClose'
  BY <1>6 DEF HelloFails, LoseSetup
<1>7. ASSUME NEW c \in Calls, HelloRejected(c)
      PROVE  QuietClose'
  BY <1>7 DEF HelloRejected, LoseSetup
<1>8. ASSUME NEW c \in Calls, Respond(c)
      PROVE  QuietClose'
  BY <1>8 DEF Respond
<1>9. ASSUME NEW c \in Calls, Cancel(c)
      PROVE  QuietClose'
  BY <1>9, SendMoves DEF Cancel
<1>10. ASSUME NEW c \in Calls, JobStarts(c)
      PROVE  QuietClose'
  BY <1>10 DEF JobStarts
<1>11. ASSUME NEW c \in Calls, JobReplies(c)
      PROVE  QuietClose'
  BY <1>11 DEF JobReplies
<1>12. ASSUME NEW c \in Calls, JobCancelled(c)
      PROVE  QuietClose'
  BY <1>12 DEF JobCancelled
<1>13. ASSUME NEW f \in Failures, DaemonFails(f)
      PROVE  QuietClose'
  BY <1>13 DEF DaemonFails
<1>14. CASE DetectFailure
  BY <1>14 DEF DetectFailure, FailAll
<1>15. CASE DetectGarbage
  BY <1>15 DEF DetectGarbage, FailAll
<1>16. CASE Close
  BY <1>16 DEF Close
<1>17. ASSUME NEW t \in Tasks, CloseWriter(t)
      PROVE  QuietClose'
  BY <1>17 DEF CloseWriter
<1>18. ASSUME NEW t \in Tasks, ForgetWriter(t)
      PROVE  QuietClose'
  BY <1>18 DEF ForgetWriter, StopHost, Ends
<1>19. CASE HostStopped
  BY <1>19 DEF HostStopped, Ends
<1>20. CASE UNCHANGED vars
  BY <1>20 DEF vars
<1>21. CASE LineStep
  BY <1>21, LineMoves
<1> QED
  BY <1>1, <1>2, <1>3, <1>4, <1>5, <1>6, <1>7, <1>8, <1>9, <1>10, <1>11, <1>12, <1>13,
     <1>14, <1>15, <1>16, <1>17, <1>18, <1>19, <1>20, <1>21
    DEF Next, CallStep, SetupStep, DaemonStep, TeardownStep, LineStep

-----------------------------------------------------------------------------
(* The theorems.                                                           *)

LEMMA Initially == Init => DataTyped /\ LineTyped /\ Flags /\ SessionInv
<1> SUFFICES ASSUME Init PROVE DataTyped /\ LineTyped /\ Flags /\ SessionInv
  OBVIOUS
<1>1. DataTyped
  BY DEF Init, DataTyped, InInvoke, Setup, Tasks
<1>2. LineTyped
  <2>1. line = <<>> /\ line \in Seq(Senders) /\ DOMAIN line = {}
    BY DEF Init
  <2> QED
    BY <2>1 DEF Init, LineTyped, Queue, IsInjective, Range
<1>3. Flags
  BY DEF Init, Flags
<1>4. SessionInv
  BY DEF Init, SessionInv, WatchedIsWhole, SetupIsAlone, CallTeardowns,
         WatcherTeardown, NothingLeft, Tasks, Setup
<1> QED
  BY <1>1, <1>2, <1>3, <1>4

\* An executor that was closed, or lost a setup, is never undisturbed again.
LEMMA DisturbedStays ==
    ASSUME DataTyped, Flags, [Next]_vars, ~Undisturbed
    PROVE  ~Undisturbed'
<1> USE DEF Flags, Undisturbed, link, host, history
<1>1. ASSUME NEW c \in Calls, Invoke(c)
      PROVE  ~Undisturbed'
  BY <1>1 DEF Invoke
<1>2. ASSUME NEW c \in Calls, TakeLock(c)
      PROVE  ~Undisturbed'
  BY <1>2 DEF TakeLock
<1>3. ASSUME NEW c \in Calls, StartHost(c)
      PROVE  ~Undisturbed'
  BY <1>3 DEF StartHost, StopHost, Ends
<1>4. ASSUME NEW c \in Calls, Connect(c)
      PROVE  ~Undisturbed'
  BY <1>4 DEF Connect, StopHost, Ends
<1>5. ASSUME NEW c \in Calls, HelloArrives(c)
      PROVE  ~Undisturbed'
  BY <1>5 DEF HelloArrives
<1>6. ASSUME NEW c \in Calls, HelloFails(c)
      PROVE  ~Undisturbed'
  BY <1>6 DEF HelloFails, LoseSetup
<1>7. ASSUME NEW c \in Calls, HelloRejected(c)
      PROVE  ~Undisturbed'
  BY <1>7 DEF HelloRejected, LoseSetup
<1>8. ASSUME NEW c \in Calls, Respond(c)
      PROVE  ~Undisturbed'
  BY <1>8 DEF Respond
<1>9. ASSUME NEW c \in Calls, Cancel(c)
      PROVE  ~Undisturbed'
  BY <1>9 DEF Cancel
<1>10. ASSUME NEW c \in Calls, JobStarts(c)
      PROVE  ~Undisturbed'
  BY <1>10 DEF JobStarts
<1>11. ASSUME NEW c \in Calls, JobReplies(c)
      PROVE  ~Undisturbed'
  BY <1>11 DEF JobReplies
<1>12. ASSUME NEW c \in Calls, JobCancelled(c)
      PROVE  ~Undisturbed'
  BY <1>12 DEF JobCancelled
<1>13. ASSUME NEW f \in Failures, DaemonFails(f)
      PROVE  ~Undisturbed'
  BY <1>13 DEF DaemonFails
<1>14. CASE DetectFailure
  BY <1>14 DEF DetectFailure, FailAll
<1>15. CASE DetectGarbage
  BY <1>15 DEF DetectGarbage, FailAll
<1>16. CASE Close
  BY <1>16 DEF Close
<1>17. ASSUME NEW t \in Tasks, CloseWriter(t)
      PROVE  ~Undisturbed'
  BY <1>17 DEF CloseWriter
<1>18. ASSUME NEW t \in Tasks, ForgetWriter(t)
      PROVE  ~Undisturbed'
  BY <1>18 DEF ForgetWriter, StopHost, Ends
<1>19. CASE HostStopped
  BY <1>19 DEF HostStopped, Ends
<1>20. CASE UNCHANGED vars
  BY <1>20 DEF vars
<1>21. CASE LineStep
  BY <1>21 DEF LineStep, TakeSendLock, Beat, Flush, SendBreaks, CancelSend
<1> QED
  BY <1>1, <1>2, <1>3, <1>4, <1>5, <1>6, <1>7, <1>8, <1>9, <1>10, <1>11, <1>12, <1>13,
     <1>14, <1>15, <1>16, <1>17, <1>18, <1>19, <1>20, <1>21
    DEF Next, CallStep, SetupStep, DaemonStep, TeardownStep, LineStep

LEMMA InvHolds ==
    Spec => [](DataTyped /\ LineTyped /\ Flags /\ (Undisturbed => SessionInv))
<1> DEFINE Inv == DataTyped /\ LineTyped /\ Flags /\ (Undisturbed => SessionInv)
<1>1. Init => Inv
  BY Initially
<1>2. Inv /\ [Next]_vars => Inv'
  BY DataStep, LineTypedStep, FlagsStep, SessionStep, DisturbedStays
<1> QED
  BY <1>1, <1>2, PTL DEF Spec

\* Types, and with them the mutual exclusion of setups: whoever starts, connects
\* or shakes hands holds _lock, and nobody else does, whoever was cancelled,
\* failed or closed the executor before.
THEOREM TypesHold == Spec => []TypeOK
<1>1. DataTyped /\ LineTyped /\ Flags => TypeOK
  BY DEF DataTyped, LineTyped, Flags, TypeOK, Queue, Senders
<1> QED
  BY <1>1, InvHolds, PTL

\* No teardown stops a daemon that was spawned after the one it is about.
THEOREM TeardownsSpareNewDaemons == Spec => []TeardownSparesNewDaemon
<1>1. DataTyped /\ (Undisturbed => SessionInv) => TeardownSparesNewDaemon
  BY DEF Undisturbed, SessionInv, CallTeardowns, WatcherTeardown, TeardownSparesNewDaemon,
     Tasks
<1> QED
  BY <1>1, InvHolds, PTL

\* Between setups and teardowns the executor's three accounts of the daemon
\* agree: there is a writer iff its reader and heartbeat run, iff _host_started,
\* iff the host has a process to answer for.  Whatever failed before, the next
\* invoke starts from a clean slate or finds a connection that is looked after.
\* A setup given up half way, or aclose, is excepted.
SettledAgrees ==
    (lock = Nobody /\ (\A t \in Tasks : td[t] = "none") /\ ~abandoned /\ ~closed)
        => /\ (writer # 0) = watched
           /\ watched = hostStarted
           /\ hostStarted = (daemon # "none")
           /\ ~shut /\ (watched => writer = spawned)

\* Whenever nobody sets up or tears down, writer, watching tasks, _host_started
\* and the process agree.
THEOREM SettledExecutorsAgree == Spec => []SettledAgrees
<1>1. DataTyped /\ Flags /\ (Undisturbed => SessionInv) => SettledAgrees
  BY DEF DataTyped, Flags, Undisturbed, SessionInv, WatchedIsWhole, NothingLeft,
     SettledAgrees, Setup, Tasks
<1> QED
  BY <1>1, InvHolds, PTL

\* A call whose request is on a connection that is watched.
Attended(c) == pc[c] \in {"send", "await"} /\ watched /\ conn[c] = writer

\* A step that leaves the executor undisturbed takes the watchers from no call
\* that has them: the call ends first.
KeepsAttendance ==
    \A c \in Calls :
        Attended(c) /\ Undisturbed' => Attended(c)' \/ pc'[c] \notin {"send", "await"}
AttendedTillTheEnd == [][KeepsAttendance]_vars

\* While a connection is watched nobody sets up and no teardown is under way.
LEMMA WatchedIsQuiet ==
    ASSUME DataTyped, SessionInv, watched
    PROVE  /\ lock = Nobody /\ \A c \in Calls : pc[c] \notin Setup
           /\ writer # 0 /\ \A t \in Tasks : td[t] = "none"
BY DEF DataTyped, SessionInv, WatchedIsWhole, CallTeardowns, Tasks

LEMMA AttendedStep ==
    ASSUME DataTyped, LineTyped, SessionInv, Next, Undisturbed',
           NEW c \in Calls, Attended(c)
    PROVE  Attended(c)' \/ pc'[c] \notin {"send", "await"}
<1> USE DEF Attended, Tasks, link, host, history
<1>0. /\ lock = Nobody /\ \A d \in Calls : pc[d] \notin Setup
      /\ writer # 0 /\ \A t \in Tasks : td[t] = "none"
  BY WatchedIsQuiet
<1>1. ASSUME NEW d \in Calls, Invoke(d) \/ TakeLock(d)
      PROVE  Attended(c)'
  <2>1. d # c /\ writer' = writer /\ watched' = watched
    BY <1>1 DEF Invoke, TakeLock
  <2>2. pc'[c] = pc[c] /\ conn'[c] = conn[c]
    BY <1>1, <2>1, SendMoves DEF Invoke, TakeLock, Ship, DataTyped, Requesting, Sending
  <2> QED
    BY <2>1, <2>2
<1>2. ~\E d \in Calls : SetupStep(d) \/ HelloRejected(d)
  BY <1>0 DEF SetupStep, StartHost, Connect, HelloArrives, HelloFails, HelloRejected,
              LoseSetup, Setup
<1>3. ~\E t \in Tasks : TeardownStep(t)
  BY <1>0 DEF TeardownStep, CloseWriter, ForgetWriter
<1>4. ~HostStopped
  BY <1>0 DEF HostStopped
<1>5. ASSUME NEW d \in Calls, Respond(d) \/ Cancel(d)
      PROVE  Attended(c)' \/ pc'[c] \notin {"send", "await"}
  <2>1. CASE Respond(d)
    <3>1. UNCHANGED <<link, conn>> /\ pc'[c] \in {pc[c], "idle"}
      BY <2>1 DEF Respond, DataTyped
    <3> QED
      BY <3>1
  <2>2. CASE Cancel(d)
    <3>1. UNCHANGED link /\ pc[d] \notin Sending
      BY <2>2 DEF Cancel, Setup, Requesting, Sending
    <3>2. CASE Send(d, "cancelling")
      <4>1. /\ \E s \in Sending \cup {"await", "idle", "cancelled"} : pc' = [pc EXCEPT ![d] = s]
            /\ \A e \in Calls \ {d} : conn'[e] = conn[e]
            /\ pc'[d] \notin {"send", "await"}
        BY <3>1, <3>2, SendMoves
      <4>2. d # c => pc'[c] = pc[c] /\ conn'[c] = conn[c]
        BY <4>1 DEF DataTyped
      <4> QED
        BY <3>1, <4>1, <4>2
    <3>3. CASE pc' = [pc EXCEPT ![d] = "cancelled"] /\ UNCHANGED conn
      BY <3>1, <3>3 DEF DataTyped
    <3> QED
      BY <2>2, <3>2, <3>3 DEF Cancel
  <2> QED
    BY <1>5, <2>1, <2>2
<1>6. ASSUME NEW d \in Calls, DaemonStep(d)
      PROVE  Attended(c)'
  BY <1>6 DEF DaemonStep, JobStarts, JobReplies, JobCancelled
<1>7. ASSUME NEW f \in Failures, DaemonFails(f)
      PROVE  Attended(c)'
  BY <1>7 DEF DaemonFails
<1>8. ASSUME FailAll
      PROVE  pc'[c] \notin {"send", "await"}
  BY <1>8 DEF FailAll
<1>9. ~Close
  BY DEF Close, Undisturbed
<1>10. ASSUME LineStep
       PROVE  Attended(c)' \/ pc'[c] \notin {"send", "await"}
  BY <1>10, LineMoves
<1> QED
  BY <1>1, <1>2, <1>3, <1>4, <1>5, <1>6, <1>7, <1>8, <1>9, <1>10
     DEF Next, CallStep, DetectFailure, DetectGarbage, LineStep

\* A call that sends its request, or waits for its answer, over a connection
\* with a reader and a heartbeat keeps both until it ends: no setup or teardown
\* by another call takes its connection from under it.  (While the connection is
\* congested they are there and see nothing.)  Who waits without them sent its
\* request when there were none: into a handshake that failed, or a teardown
\* that had flushed its calls already (the run ToolhostRider).
THEOREM CallsStayAttended == Spec => AttendedTillTheEnd
<1>1. DataTyped /\ LineTyped /\ Flags /\ (Undisturbed => SessionInv) /\ [Next]_vars
         => [KeepsAttendance]_vars
  BY AttendedStep, DisturbedStays DEF KeepsAttendance
<1> QED
  BY <1>1, InvHolds, PTL DEF Spec, AttendedTillTheEnd

\* aclose, once nobody is in `invoke`, leaves no connection and no process,
\* whatever was cancelled or failed before.
THEOREM QuietClosesStop == Spec => []QuietCloseStops
<1> DEFINE Inv == DataTyped /\ LineTyped /\ Flags /\ HostInv /\ QuietClose
<1>1. Init => Inv
  <2>1. Init => HostInv /\ QuietClose
    BY DEF Init, HostInv, QuietClose, Tasks, Setup, InInvoke
  <2> QED
    BY Initially, <2>1
<1>2. Inv /\ [Next]_vars => Inv'
  BY DataStep, LineTypedStep, FlagsStep, HostStep, QuietStep
<1>3. Inv => QuietCloseStops
  BY DEF DataTyped, Flags, HostInv, QuietClose, QuietCloseStops, Tasks, Running
<1> QED
  BY <1>1, <1>2, <1>3, PTL DEF Spec

-----------------------------------------------------------------------------
(* The lifecycle of the daemons.                                           *)

Starting == \E c \in Calls : pc[c] \in {"connect", "hello"} /\ td[c] = "none"
Stopping == \E t \in Tasks : td[t] # "none"

LifecycleVars == <<spawned, daemon # "none", writer, Starting, watched, Stopping>>

LifecycleStep ==
    \/ Lifecycle!Spawn \/ Lifecycle!Connect \/ Lifecycle!Serve
    \/ Lifecycle!Break \/ Lifecycle!Disconnect \/ Lifecycle!Stop
    \/ UNCHANGED LifecycleVars

\* One call at a time sets up, or takes its setup down.
LEMMA OneSetup ==
    ASSUME DataTyped, SessionInv, NEW c \in Calls, NEW d \in Calls, pc[c] \in Setup, d # c
    PROVE  pc[d] \notin Setup /\ td[d] = "none"
BY DEF DataTyped, SessionInv, CallTeardowns

\* A setup past its start has a daemon, and nobody watches or takes it down but
\* the call itself.
LEMMA SetupStands ==
    ASSUME DataTyped, SessionInv, NEW c \in Calls, pc[c] \in {"connect", "hello"}
    PROVE  /\ daemon # "none" /\ ~watched
           /\ \A t \in Tasks \ {c} : td[t] = "none"
<1>1. c # Nobody /\ lock = c /\ pc[c] \in Setup
  BY DEF DataTyped, Setup
<1> QED
  BY <1>1, OneSetup DEF SessionInv, WatchedIsWhole, SetupIsAlone, Tasks

\* The daemon is not watched while it is taken down.
LEMMA StoppingIsAlone ==
    ASSUME DataTyped, SessionInv, Stopping
    PROVE  ~watched /\ ~Starting
BY SetupStands DEF DataTyped, SessionInv, WatchedIsWhole, CallTeardowns,
                   WatcherTeardown, Stopping, Starting, Tasks, Setup

\* A step of the executor is one of the abstract lifecycle or leaves it alone.
LEMMA LifecycleSteps ==
    ASSUME DataTyped, LineTyped, Flags, SessionInv, [Next]_vars, Undisturbed'
    PROVE  LifecycleStep
<1> USE DEF LifecycleStep, LifecycleVars, link, host, history
<1>1. ASSUME NEW c \in Calls, Invoke(c) \/ TakeLock(c)
      PROVE  UNCHANGED LifecycleVars
  <2>1. /\ UNCHANGED <<spawned, daemon, writer, watched, td>>
        /\ pc[c] \notin {"connect", "hello"} /\ pc'[c] \notin {"connect", "hello"}
        /\ \A d \in Calls \ {c} : pc'[d] = pc[d]
    BY <1>1, SendMoves DEF Invoke, TakeLock, Ship, DataTyped, Requesting, Sending
  <2> QED
    BY <2>1 DEF Starting, Stopping
<1>2. ASSUME NEW c \in Calls, StartHost(c)
      PROVE  LifecycleStep
  <2>0. /\ pc[c] = "start" /\ td[c] = "none" /\ writer = 0 /\ lock = c /\ lock # Nobody
        /\ \A d \in Calls \ {c} : pc[d] \notin Setup /\ td[d] = "none"
        /\ UNCHANGED <<writer, watched>>
    BY <1>2, OneSetup DEF StartHost, DataTyped, SessionInv, SetupIsAlone, Setup
  <2>1. ~Running => daemon = "none" /\ ~Stopping
    BY <2>0
      DEF SessionInv, WatcherTeardown, NothingLeft, DataTyped, Failures, Running, Setup,
          Stopping, Tasks
  <2>2. Running => Stopping /\ daemon # "none"
    BY <2>0 DEF SessionInv, NothingLeft, DataTyped, Running, Setup, Stopping, Tasks
  <2>3. CASE /\ pc' = [pc EXCEPT ![c] = "connect"] /\ ~Running /\ UNCHANGED td
             /\ spawned' = spawned + 1 /\ daemon' = "up"
    <3>1. Starting' /\ ~Stopping'
      BY <2>0, <2>1, <2>3 DEF Starting, Stopping, DataTyped
    <3> QED
      BY <2>0, <2>1, <2>3, <3>1 DEF Lifecycle!Spawn, Stopping, Starting, Flags
  <2>4. CASE StopHost(c) /\ spawned' = spawned
    <3>1. CASE Running
      <4>1. UNCHANGED <<daemon, pc>> /\ td' = [td EXCEPT ![c] = "stopping"]
        BY <2>4, <3>1 DEF StopHost
      <4>2. Stopping' /\ ~Starting /\ ~Starting'
        BY <2>0, <4>1 DEF Stopping, Starting, DataTyped, Tasks, Setup
      <4> QED
        BY <2>0, <2>2, <2>4, <3>1, <4>1, <4>2 DEF Starting, Stopping, Flags
    <3>2. CASE ~Running
      <4>1. daemon' = "none" /\ Ends({c})
        BY <2>4, <3>2 DEF StopHost
      <4>2. ~Stopping' /\ ~Starting /\ ~Starting'
        BY <2>0, <2>1, <3>2, <4>1 DEF Ends, Stopping, Starting, Setup, Tasks
      <4> QED
        BY <2>0, <2>1, <2>4, <3>2, <4>1, <4>2 DEF Starting, Stopping, Flags
    <3> QED
      BY <3>1, <3>2
  <2> QED
    BY <1>2, <2>3, <2>4 DEF StartHost
<1>3. ASSUME NEW c \in Calls, Connect(c)
      PROVE  LifecycleStep
  <2>0. /\ pc[c] = "connect" /\ td[c] = "none" /\ writer = 0 /\ daemon # "none"
        /\ ~watched /\ Starting /\ ~Stopping /\ spawned' = spawned /\ watched' = watched
        /\ \A d \in Calls \ {c} : pc[d] \notin Setup
        /\ \A t \in Tasks \ {c} : td[t] = "none"
    BY <1>3, OneSetup, SetupStands
      DEF Connect, StopHost, DataTyped, SessionInv, SetupIsAlone, Setup,
          Starting, Stopping
  <2>1. CASE /\ writer' = spawned /\ pc' = [pc EXCEPT ![c] = "hello"]
             /\ UNCHANGED <<host, td>>
    <3>1. Starting' /\ ~Stopping'
      BY <2>0, <2>1 DEF Starting, Stopping, DataTyped
    <3> QED
      BY <2>0, <2>1, <3>1 DEF Lifecycle!Connect
  <2>2. CASE StopHost(c) /\ writer' = writer
    <3>1. CASE Running
      <4>1. UNCHANGED <<daemon, pc>> /\ td' = [td EXCEPT ![c] = "stopping"]
        BY <2>2, <3>1 DEF StopHost
      <4>2. Stopping' /\ ~Starting'
        BY <2>0, <4>1 DEF Stopping, Starting, DataTyped, Tasks, Setup
      <4> QED
        BY <2>0, <2>2, <3>1, <4>1, <4>2 DEF Lifecycle!Break, Starting, Stopping, Flags
    <3>2. CASE ~Running
      <4>1. daemon' = "none" /\ Ends({c})
        BY <2>2, <3>2 DEF StopHost
      <4>2. ~Stopping' /\ ~Starting'
        BY <2>0, <3>2, <4>1 DEF Ends, Stopping, Starting, Setup, Tasks
      <4> QED
        BY <2>0, <2>2, <3>2, <4>1, <4>2 DEF Lifecycle!Stop, Starting, Stopping, Flags
    <3> QED
      BY <3>1, <3>2
  <2> QED
    BY <1>3, <2>1, <2>2 DEF Connect
<1>4. ASSUME NEW c \in Calls, HelloArrives(c)
      PROVE  Lifecycle!Serve
  <2>1. /\ Starting /\ ~Stopping /\ writer = spawned
        /\ \A d \in Calls \ {c} : pc[d] \notin Setup
        /\ watched' = TRUE /\ UNCHANGED <<spawned, daemon, writer, td>>
    BY <1>4, OneSetup, SetupStands
      DEF HelloArrives, DataTyped, SessionInv, SetupIsAlone, Setup,
          Starting, Stopping
  <2>2. /\ \A d \in Calls \ {c} : pc'[d] = pc[d]
        /\ pc'[c] \notin {"connect", "hello"}
    BY <1>4, SendMoves DEF HelloArrives, Ship, DataTyped, Requesting, Sending
  <2>3. ~Starting' /\ ~Stopping'
    BY <2>1, <2>2 DEF Starting, Stopping, Setup
  <2> QED
    BY <2>1, <2>3 DEF Lifecycle!Serve, Starting, Stopping, Flags
<1>5. ASSUME NEW c \in Calls, LoseSetup(c)
      PROVE  Lifecycle!Break
  <2>1. /\ Starting /\ ~watched /\ UNCHANGED <<spawned, daemon, writer, watched, pc>>
        /\ \A d \in Calls \ {c} : pc[d] \notin Setup
        /\ td'[c] # "none"
    BY <1>5, OneSetup, SetupStands DEF LoseSetup, DataTyped, Setup, Starting, Tasks
  <2>2. ~Starting' /\ Stopping'
    BY <2>1 DEF Starting, Stopping, Setup, Tasks
  <2> QED
    BY <2>1, <2>2 DEF Lifecycle!Break, Starting, Stopping, Flags
<1>6. ASSUME NEW c \in Calls, Respond(c) \/ DaemonStep(c)
      PROVE  UNCHANGED LifecycleVars
  <2>1. /\ UNCHANGED <<spawned, daemon, writer, watched, td>>
        /\ \A d \in Calls : pc'[d] = pc[d] \/ (pc[d] = "await" /\ pc'[d] = "idle")
    BY <1>6 DEF Respond, DaemonStep, JobStarts, JobReplies, JobCancelled, DataTyped
  <2> QED
    BY <2>1 DEF Starting, Stopping
<1>7. ASSUME NEW c \in Calls, Cancel(c)
      PROVE  UNCHANGED LifecycleVars
  <2>1. pc[c] \notin Setup /\ td[c] = "none"
    BY <1>7 DEF Cancel, Undisturbed, Flags, SessionInv, CallTeardowns
  <2>2. /\ UNCHANGED <<spawned, daemon, writer, watched, td>>
        /\ pc'[c] \notin Setup /\ \A d \in Calls \ {c} : pc'[d] = pc[d]
    BY <1>7, <2>1, SendMoves DEF Cancel, DataTyped, Setup, Requesting, Sending
  <2>3. UNCHANGED Starting
    BY <2>1, <2>2 DEF Starting, Setup, DataTyped
  <2> QED
    BY <2>2, <2>3 DEF Stopping
<1>8. ASSUME NEW f \in Failures, DaemonFails(f)
      PROVE  UNCHANGED LifecycleVars
  BY <1>8 DEF DaemonFails, Starting, Stopping, Failures
<1>9. ASSUME FailAll
      PROVE  Lifecycle!Break
  <2>1. /\ watched /\ ~watched' /\ UNCHANGED <<spawned, daemon, writer>>
        /\ \A c \in Calls : pc[c] \notin Setup /\ pc'[c] \notin {"connect", "hello"}
        /\ td'[Watcher] # "none"
    BY <1>9, WatchedIsQuiet DEF FailAll, DataTyped, Tasks, Setup
  <2>2. ~Starting' /\ Stopping'
    BY <2>1 DEF Starting, Stopping, Tasks
  <2> QED
    BY <2>1, <2>2 DEF Lifecycle!Break, Starting, Stopping, Flags
<1>10. ~Close
  BY DEF Close, Undisturbed
<1>11. ASSUME NEW t \in Tasks, CloseWriter(t)
      PROVE  UNCHANGED LifecycleVars
  <2>1. t \notin Calls
    BY <1>11 DEF CloseWriter, SessionInv, SetupIsAlone, CallTeardowns, Setup
  <2>2. /\ UNCHANGED <<spawned, daemon, writer, pc, watched>> /\ Stopping
        /\ td' = [td EXCEPT ![t] = "closing"]
    BY <1>11, StoppingIsAlone DEF CloseWriter, Stopping, Flags
  <2>3. Stopping' /\ UNCHANGED Starting
    BY <2>1, <2>2 DEF Stopping, Starting, DataTyped, Tasks
  <2> QED
    BY <2>2, <2>3 DEF Starting, Stopping, Flags
<1>12. ASSUME NEW t \in Tasks, ForgetWriter(t)
      PROVE  LifecycleStep
  <2>1. /\ td[t] = "closing" /\ writer # 0 /\ daemon # "none" /\ hostStarted
        /\ \A u \in Tasks \ {t} : td[u] = "none"
        /\ \A c \in Calls \ {t} : pc[c] \notin Setup
    <3>1. td[t] \in {"tasks", "closing"} /\ (td[t] = "tasks" => writer = 0)
      BY <1>12 DEF ForgetWriter
    <3>2. CASE t \in Calls
      <4>1. pc[t] = "hello" /\ td[t] = "closing" /\ writer # 0
        BY <3>1, <3>2 DEF SessionInv, SetupIsAlone, CallTeardowns, Setup
      <4> QED
        BY <3>2, <4>1, OneSetup, SetupStands DEF SessionInv, Setup
    <3>3. CASE t = Watcher
      <4>1. lock = Nobody /\ td[t] = "closing" /\ writer # 0 /\ daemon # "none"
        BY <3>1, <3>3 DEF SessionInv, WatcherTeardown
      <4>2. \A c \in Calls : pc[c] \notin Setup /\ td[c] = "none"
        BY <4>1 DEF DataTyped, SessionInv, CallTeardowns
      <4> QED
        BY <3>3, <4>1, <4>2 DEF SessionInv, Tasks
    <3>4. t # Closer
      BY <3>1 DEF SessionInv
    <3> QED
      BY <3>2, <3>3, <3>4 DEF Tasks
  <2>2. /\ Stopping /\ ~Starting /\ UNCHANGED <<watched, spawned>> /\ writer' = 0 /\ StopHost(t)
    BY <1>12, <2>1, StoppingIsAlone DEF ForgetWriter, Stopping, Flags
  <2>3. CASE Running
    <3>1. UNCHANGED <<daemon, pc>> /\ td' = [td EXCEPT ![t] = "stopping"]
      BY <2>2, <2>3 DEF StopHost
    <3>2. Stopping' /\ ~Starting'
      BY <2>1, <2>2, <3>1 DEF Stopping, Starting, DataTyped, Tasks
    <3> QED
      BY <2>1, <2>2, <3>1, <3>2 DEF Lifecycle!Disconnect, Starting, Stopping, Flags
  <2>4. CASE ~Running
    <3>1. daemon' = "none" /\ Ends({t})
      BY <2>2, <2>4 DEF StopHost
    <3>2. ~Stopping' /\ ~Starting'
      BY <2>1, <3>1 DEF Ends, Stopping, Starting, Setup, Tasks
    <3> QED
      BY <2>1, <2>2, <3>1, <3>2 DEF Lifecycle!Stop, Starting, Stopping, Flags
  <2> QED
    BY <2>3, <2>4
<1>13. CASE HostStopped
  <2>1. Stopping /\ ~Starting /\ ~watched
    BY <1>13, StoppingIsAlone DEF HostStopped, Stopping
  <2>2. PICK t \in Tasks : td[t] = "stopping"
    BY <1>13 DEF HostStopped
  <2>3. /\ daemon' = "none" /\ UNCHANGED <<writer, watched, spawned>>
        /\ \A u \in Tasks : td'[u] = IF td[u] = "stopping" THEN "none" ELSE td[u]
        /\ \A c \in Calls : pc'[c] = IF td[c] = "stopping" THEN "idle" ELSE pc[c]
    BY <1>13 DEF HostStopped, Ends, Tasks
  <2>4. writer = 0 /\ \A u \in Tasks : td[u] \in {"none", "stopping"}
    <3>1. CASE t \in Calls
      <4>1. pc[t] \in Setup /\ writer = 0 /\ lock = t /\ t # Nobody
        BY <2>2, <3>1 DEF DataTyped, SessionInv, CallTeardowns, SetupIsAlone, Setup
      <4> QED
        BY <2>2, <3>1, <4>1, OneSetup DEF SessionInv, WatcherTeardown, DataTyped, Tasks
    <3>2. CASE t = Watcher
      <4>1. writer = 0 /\ \A c \in Calls : pc[c] \notin {"connect", "hello"}
        BY <2>2, <3>2 DEF SessionInv, WatcherTeardown
      <4>2. \A c \in Calls : td[c] \in {"none", "stopping"}
        BY <4>1 DEF SessionInv, CallTeardowns, SetupIsAlone, Setup
      <4> QED
        BY <2>2, <3>2, <4>1, <4>2 DEF SessionInv, Tasks
    <3> QED
      BY <2>2, <3>1, <3>2 DEF SessionInv, Tasks
  <2>5. ~Stopping' /\ ~Starting'
    <3>1. \A c \in Calls : pc'[c] \in {"connect", "hello"} => td[c] # "none" \/ Starting
      BY <2>3 DEF Starting
    <3>2. \A c \in Calls : pc'[c] \in {"connect", "hello"} => td[c] = "none"
      BY <2>3, <2>4 DEF Tasks
    <3> QED
      BY <2>1, <2>3, <2>4, <3>1, <3>2 DEF Starting, Stopping
  <2> QED
    BY <2>1, <2>3, <2>4, <2>5 DEF Lifecycle!Stop, Starting, Stopping, Flags
<1>14. ASSUME LineStep
       PROVE  UNCHANGED LifecycleVars
  <2>1. UNCHANGED <<spawned, daemon, writer, watched, td>>
    BY <1>14, LineMoves
  <2>2. \A c \in Calls : pc'[c] \in {"connect", "hello"} <=> pc[c] \in {"connect", "hello"}
    BY <1>14, LineMoves DEF Requesting, Sending
  <2> QED
    BY <2>1, <2>2 DEF Starting, Stopping
<1>15. CASE UNCHANGED vars
  BY <1>15 DEF vars, Starting, Stopping
<1> QED
  BY <1>1, <1>2, <1>3, <1>4, <1>5, <1>6, <1>7, <1>8, <1>9, <1>10, <1>11, <1>12, <1>13, <1>14,
     <1>15
     DEF Next, CallStep, SetupStep, TeardownStep, HelloFails, HelloRejected, DetectFailure,
         DetectGarbage, LineStep

\* Refinement: whatever fails, one daemon at a time is started, served and taken
\* down, and no step leaves one without a task that sees to its end.
THEOREM DaemonsComeOneAtATime == Spec => OneDaemonAtATime
<1> DEFINE Inv == DataTyped /\ LineTyped /\ Flags /\ (Undisturbed => SessionInv)
<1>1. Init => Lifecycle!Init
  BY DEF Init, Lifecycle!Init, Tasks
<1>2. Inv /\ [Next]_vars =>
        [Lifecycle!Next]_<<spawned, daemon # "none", writer, Starting, watched, Stopping,
                           closed \/ abandoned>>
  <2> SUFFICES ASSUME DataTyped, LineTyped, Flags, Undisturbed => SessionInv, [Next]_vars
               PROVE  Lifecycle!Next \/ UNCHANGED <<LifecycleVars, closed \/ abandoned>>
    BY DEF LifecycleVars
  <2>1. CASE ~Undisturbed'
    BY <2>1 DEF Lifecycle!Next, Undisturbed
  <2>2. CASE Undisturbed'
    <3>1. Undisturbed
      BY <2>2, DisturbedStays
    <3> QED
      BY <2>2, <3>1, LifecycleSteps DEF LifecycleStep, Lifecycle!Next, Undisturbed
  <2> QED
    BY <2>1, <2>2
<1> QED
  BY <1>1, <1>2, InvHolds, PTL
    DEF Spec, OneDaemonAtATime, Lifecycle!Spec, Starting, Stopping
=============================================================================
