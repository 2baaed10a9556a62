------------------------ MODULE InboxLifecycle_proofs ------------------------
(***************************************************************************)
(* The files of the inboxes for any number of notifications, keys and      *)
(* crashes.  First, for every interleaving of the gateway and the          *)
(* operator's command: types, the answers to those who asked for one, and  *)
(* no key in the index without its file.  Then, when the command is used   *)
(* only while the gateway is down: one home for each notification, an      *)
(* index that matches the disk, and with them the promise of               *)
(* NotificationDelivery; and that a crash leaves nothing settled behind    *)
(* that no one is about to dispatch.                                       *)
(***************************************************************************)
EXTENDS InboxLifecycle, TLAPS

USE InboxAssumption, NoOpAssumption DEF InboxAssumption, NoOpAssumption

-----------------------------------------------------------------------------
FileType == file \in [Dirs -> [Items -> Statuses \union {"absent"}]]
Untouched(n) == \A d \in Dirs : file'[d][n] = file[d][n]

\* What a write and a move do to the files.
LEMMA Written ==
    ASSUME FileType, NEW d \in Dirs, NEW n \in Items, NEW s \in Statuses \union {"absent"},
           Write(d, n, s)
    PROVE  /\ FileType'
           /\ file'[d][n] = s
           /\ \A e \in Dirs : e # d => file'[e][n] = file[e][n]
           /\ \A m \in Items : m # n => Untouched(m)
BY DEF FileType, Write, Untouched

LEMMA Moved ==
    ASSUME FileType, NEW d \in Dirs, NEW e \in Dirs, d # e, NEW n \in Items,
           Has(d, n), MoveTo(d, n, e)
    PROVE  /\ FileType'
           /\ file'[d][n] = "absent" /\ file'[e][n] = file[d][n]
           /\ \A g \in Dirs : g # d /\ g # e => file'[g][n] = file[g][n]
           /\ \A m \in Items : m # n => Untouched(m)
BY DEF FileType, MoveTo, Untouched, Has

-----------------------------------------------------------------------------
(* What holds however the two processes interleave.                        *)

\* An item is marked confirmed after its handler returned, and one with an
\* RSVP stays on disk until then.
Answers(n) ==
    /\ \A d \in Dirs : file[d][n] = "confirmed" => n \in answered
    /\ n \in RsvpItems /\ n \in posted /\ ~OnDisk(n) => n \in answered

AnswersInv ==
    /\ TypeOK
    /\ \A n \in Items : Answers(n)
    /\ agentOp \in AgentOps /\ agentOp.to = "confirmed" =>
          agentOp.item \in answered /\ agentOp.stage = "written"

\* The items whose files a step does not touch.
LEMMA OthersAnswer ==
    ASSUME NEW m \in Items, Answers(m), Untouched(m), answered \subseteq answered',
           m \in posted' => m \in posted
    PROVE  Answers(m)'
BY DEF Answers, Untouched, OnDisk, Has

\* A write, whoever makes it and whatever it replaces.
LEMMA WritesAnswer ==
    ASSUME FileType, \A m \in Items : Answers(m),
           NEW d \in Dirs, NEW n \in Items, NEW s \in Statuses, Write(d, n, s),
           s = "confirmed" => n \in answered',
           answered \subseteq answered', posted' \subseteq posted \union {n}
    PROVE  FileType' /\ \A m \in Items : Answers(m)'
<1>1. /\ FileType' /\ file'[d][n] = s /\ s # "absent"
      /\ \A e \in Dirs : e # d => file'[e][n] = file[e][n]
      /\ \A m \in Items : m # n => Untouched(m)
  BY Written DEF Statuses, Terminal, PromptPending
<1>2. Answers(n)'
  BY <1>1 DEF Answers, OnDisk, Has
<1>. QED  BY <1>1, <1>2, OthersAnswer

\* A file goes only when nobody waits for an answer.
LEMMA DeletesAnswer ==
    ASSUME FileType, \A m \in Items : Answers(m),
           NEW d \in Dirs, NEW n \in Items, Delete(d, n),
           n \notin RsvpItems \/ n \in answered,
           answered' = answered, posted' = posted
    PROVE  /\ FileType' /\ \A m \in Items : Answers(m)'
           /\ index' \subseteq index
<1>1. CASE ~Has(d, n)
  BY <1>1, OthersAnswer DEF Delete, FileType, Untouched
<1>2. CASE Has(d, n)
  <2>1. /\ FileType' /\ file'[d][n] = "absent"
        /\ \A e \in Dirs : e # d => file'[e][n] = file[e][n]
        /\ \A m \in Items : m # n => Untouched(m)
    BY <1>2, Written DEF Delete
  <2>2. Answers(n)'
    BY <2>1 DEF Answers
  <2>. QED  BY <1>2, <2>1, <2>2, OthersAnswer DEF Delete
<1>. QED  BY <1>1, <1>2

\* A move keeps the file, even one that lands on another.
LEMMA MovesAnswer ==
    ASSUME FileType, \A m \in Items : Answers(m),
           NEW d \in Dirs, NEW e \in Dirs, d # e, NEW n \in Items, MoveTo(d, n, e),
           answered' = answered, posted' = posted
    PROVE  FileType' /\ \A m \in Items : Answers(m)'
<1>1. CASE ~Has(d, n)
  BY <1>1, OthersAnswer DEF MoveTo, FileType, Untouched
<1>2. CASE Has(d, n)
  <2>1. /\ FileType'
        /\ file'[d][n] = "absent" /\ file'[e][n] = file[d][n]
        /\ \A g \in Dirs : g # d /\ g # e => file'[g][n] = file[g][n]
        /\ \A m \in Items : m # n => Untouched(m)
    BY <1>2, Moved
  <2>2. OnDisk(n)'
    BY <1>2, <2>1 DEF OnDisk, Has
  <2>3. Answers(n)'
    BY <2>1, <2>2 DEF Answers
  <2>. QED  BY <2>1, <2>3, OthersAnswer
<1>. QED  BY <1>1, <1>2

LEMMA StepTwoAnswers ==
    ASSUME FileType, \A m \in Items : Answers(m),
           NEW n \in Items, NEW status, StepTwo(n, status),
           answered' = answered, posted' = posted
    PROVE  /\ FileType' /\ \A m \in Items : Answers(m)'
           /\ index' \subseteq index
<1>1. \/ UNCHANGED <<file, index>>
      \/ MoveTo("inbox", n, "service") /\ index' = index
      \/ MoveTo("inbox", n, "errored") /\ index' = index
      \/ n \notin RsvpItems /\ Delete("inbox", n)
  BY DEF StepTwo
<1>2. CASE UNCHANGED <<file, index>>
  BY <1>2, OthersAnswer DEF FileType, Untouched
<1>. QED  BY <1>1, <1>2, MovesAnswer, DeletesAnswer DEF Dirs

\* The steps that write, move or delete.
LEMMA AnswersFileStep ==
    ASSUME AnswersInv,
           \/ WriteTransition \/ DispatchTransition \/ HandlerReturns
           \/ OperatorWrites \/ OperatorMoves
           \/ \E n \in Items : Post(n) \/ SweepItem(n)
    PROVE  AnswersInv'
<1>. USE DEF drain
<1>1. FileType /\ TypeOK /\ \A m \in Items : Answers(m)
  BY DEF AnswersInv, TypeOK, FileType
<1>2. ASSUME FileType', \A m \in Items : Answers(m)', TypeOK,
             index' \subseteq Keys, posted' \subseteq Items,
             unswept' \subseteq Items, gateway' = gateway,
             agentOp' \in AgentOps \union {NoOp},
             handling' \in Items \union {NoOp}, answered' \subseteq Items,
             operatorOp' \in OperatorOps \union {NoOp}, crashes' = crashes,
             agentOp' \in AgentOps /\ agentOp'.to = "confirmed" =>
                agentOp'.item \in answered' /\ agentOp'.stage = "written"
      PROVE  AnswersInv'
  BY <1>2 DEF AnswersInv, TypeOK, FileType
<1>3. CASE WriteTransition
  <2>1. PICK n \in Items, to \in Statuses : agentOp = [item |-> n, to |-> to, stage |-> "read"]
    BY <1>3 DEF WriteTransition, AgentOps
  <2>2. to # "confirmed" /\ Write("inbox", n, to)
    BY <1>3, <2>1 DEF WriteTransition, AnswersInv
  <2>3. FileType' /\ \A m \in Items : Answers(m)'
    BY <1>1, <1>3, <2>2, WritesAnswer DEF WriteTransition, Dirs
  <2>4. agentOp' = NoOp \/ agentOp' = [item |-> n, to |-> to, stage |-> "written"]
    BY <1>3, <2>1 DEF WriteTransition
  <2>. QED  BY <1>1, <1>2, <1>3, <2>2, <2>3, <2>4 DEF WriteTransition, TypeOK, AgentOps
<1>4. CASE DispatchTransition
  <2>1. PICK n \in Items, to \in Statuses : agentOp = [item |-> n, to |-> to, stage |-> "written"]
    BY <1>4 DEF DispatchTransition, AgentOps
  <2>2. \/ n \in answered /\ Delete("service", n)
        \/ StepTwo(n, to)
    BY <1>4, <2>1 DEF DispatchTransition, AnswersInv
  <2>3. FileType' /\ (\A m \in Items : Answers(m)') /\ index' \subseteq index
    BY <1>1, <1>4, <2>2, DeletesAnswer, StepTwoAnswers DEF DispatchTransition, Dirs
  <2>. QED  BY <1>1, <1>2, <1>4, <2>3 DEF DispatchTransition, TypeOK
<1>5. CASE HandlerReturns
  <2>1. PICK n \in Items : n = handling
    BY <1>5 DEF HandlerReturns
  <2>2. FileType' /\ \A m \in Items : Answers(m)'
    BY <1>1, <1>5, <2>1, WritesAnswer DEF HandlerReturns, Dirs, Statuses
  <2>3. /\ agentOp' = [item |-> n, to |-> "confirmed", stage |-> "written"]
        /\ agentOp' \in AgentOps
        /\ answered' = answered \union {n} /\ handling' = NoOp
    BY <1>5, <2>1 DEF HandlerReturns, AgentOps, Statuses
  <2>. QED  BY <1>1, <1>2, <1>5, <2>2, <2>3 DEF HandlerReturns, TypeOK
<1>6. CASE OperatorWrites
  <2>1. PICK n \in Items, does \in {"park", "requeue"} :
            operatorOp = [item |-> n, does |-> does, stage |-> "read"]
    BY <1>6 DEF OperatorWrites, OperatorOps
  <2>2. \/ Write("inbox", n, "errored")
        \/ Write("errored", n, "pending")
    BY <1>6, <2>1 DEF OperatorWrites
  <2>3. FileType' /\ \A m \in Items : Answers(m)'
    BY <1>1, <1>6, <2>2, WritesAnswer DEF OperatorWrites, Dirs, Statuses, Terminal, PromptPending
  <2>4. operatorOp' = [item |-> n, does |-> does, stage |-> "written"]
    BY <1>6, <2>1 DEF OperatorWrites
  <2>. QED  BY <1>1, <1>2, <1>6, <2>3, <2>4 DEF OperatorWrites, TypeOK, OperatorOps, AnswersInv
<1>7. CASE OperatorMoves
  <2>1. PICK n \in Items : n = operatorOp.item
    BY <1>7 DEF OperatorMoves, OperatorOps
  <2>2. MoveTo("inbox", n, "errored") \/ MoveTo("errored", n, "inbox")
    BY <1>7, <2>1 DEF OperatorMoves
  <2>3. FileType' /\ \A m \in Items : Answers(m)'
    BY <1>1, <1>7, <2>2, MovesAnswer DEF OperatorMoves, Dirs
  <2>. QED  BY <1>1, <1>2, <1>7, <2>3 DEF OperatorMoves, TypeOK, AnswersInv
<1>8. ASSUME NEW n \in Items, Post(n)
      PROVE  AnswersInv'
  <2>1. FileType' /\ \A m \in Items : Answers(m)'
    BY <1>1, <1>8, WritesAnswer DEF Post, Dirs, Statuses, PromptPending
  <2>. QED  BY <1>1, <1>2, <1>8, <2>1 DEF Post, TypeOK, AnswersInv
<1>9. ASSUME NEW n \in Items, SweepItem(n)
      PROVE  AnswersInv'
  <2>1. \/ StepTwo(n, file["inbox"][n])
        \/ n \in answered /\ Delete("service", n)
        \/ UNCHANGED <<file, index>>
    BY <1>1, <1>9 DEF SweepItem, Answers, Dirs
  <2>2. CASE UNCHANGED <<file, index>>
    BY <1>1, <1>9, <2>2, OthersAnswer DEF SweepItem, FileType, Untouched, AnswersInv, TypeOK
  <2>3. CASE ~UNCHANGED <<file, index>>
    <3>1. FileType' /\ (\A m \in Items : Answers(m)') /\ index' \subseteq index
      BY <1>1, <1>9, <2>1, <2>3, DeletesAnswer, StepTwoAnswers DEF SweepItem, Dirs
    <3>. QED  BY <1>1, <1>2, <1>9, <3>1 DEF SweepItem, TypeOK, AnswersInv
  <2>. QED  BY <2>2, <2>3
<1>. QED  BY <1>3, <1>4, <1>5, <1>6, <1>7, <1>8, <1>9

LEMMA AnswersStep ==
    ASSUME AnswersInv, [Next]_vars
    PROVE  AnswersInv'
<1>1. ASSUME file' = file, posted' = posted, answered' = answered
      PROVE  \A m \in Items : Answers(m)'
  BY <1>1, OthersAnswer DEF AnswersInv, Untouched
<1>2. CASE \/ Start \/ FinishStartup \/ OperatorDies \/ Crash \/ HandlerRaises
           \/ UNCHANGED vars
           \/ \E n \in Items : CallHandler(n)
  <2>1. /\ file' = file /\ posted' = posted /\ answered' = answered
        /\ agentOp' \in {agentOp, NoOp}
    BY <1>2 DEF Start, FinishStartup, OperatorDies, Crash, HandlerRaises, vars,
                CallHandler, drain
  <2>2. TypeOK'
    BY <1>2 DEF AnswersInv, TypeOK, Start, FinishStartup, OperatorDies, Crash,
                HandlerRaises, vars, CallHandler, drain, Rebuilt, KeysOnDisk
  <2>. QED  BY <1>1, <2>1, <2>2 DEF AnswersInv
<1>3. ASSUME NEW n \in Items, BeginPark(n) \/ BeginRequeue(n)
      PROVE  AnswersInv'
  <2>1. \E does \in {"park", "requeue"} :
            operatorOp' = [item |-> n, does |-> does, stage |-> "read"]
    BY <1>3 DEF BeginPark, BeginRequeue
  <2>. QED  BY <1>1, <1>3, <2>1 DEF BeginPark, BeginRequeue, AnswersInv, TypeOK, OperatorOps, drain
<1>4. ASSUME NEW n \in Items, NEW to \in {"in_progress", "handled", "errored"},
             BeginTransition(n, to)
      PROVE  AnswersInv'
  <2>1. agentOp' = [item |-> n, to |-> to, stage |-> "read"] /\ to \in Statuses
    BY <1>4 DEF BeginTransition, Statuses, PromptPending, Terminal
  <2>. QED  BY <1>1, <1>4, <2>1 DEF BeginTransition, AnswersInv, TypeOK, AgentOps, drain
<1>. QED
  BY <1>2, <1>3, <1>4, AnswersFileStep DEF Next, GatewayStep, OperatorStep

LEMMA AnswersInvariant == Spec => []AnswersInv
<1>1. Init => AnswersInv
  BY DEF Init, AnswersInv, TypeOK, Answers, Dirs, AgentOps
<1>. QED  BY <1>1, AnswersStep, PTL DEF Spec

\* The state is well typed, whatever the operator and the gateway do at once,
\* with as many crashes and commands as come.
THEOREM Typed == Spec => []TypeOK
<1>1. AnswersInv => TypeOK
  BY DEF AnswersInv
<1>. QED  BY <1>1, AnswersInvariant, PTL

\* Nobody who asked for an RSVP is forgotten: the notification is confirmed or
\* gone only when a handler has returned (NotificationQueue.drain).  This
\* survives even a command that is used while the gateway runs, which may
\* leave the file in two directories, or settle what the agent works on.
THEOREM RsvpsAreAnswered == Spec => []RsvpAnswered
<1>1. ASSUME AnswersInv, NEW n \in RsvpItems, DeliveryPhase(n) \in {"confirmed", "gone"}
      PROVE  n \in answered
  <2>1. /\ n \in Items /\ Answers(n)
        /\ file["inbox"][n] # "gone" /\ file["service"][n] # "gone"
    BY <1>1 DEF AnswersInv, TypeOK, Dirs, Statuses, Terminal, PromptPending
  <2>2. \/ file["inbox"][n] = "confirmed" \/ file["service"][n] = "confirmed"
        \/ n \in posted /\ ~OnDisk(n)
    BY <1>1, <2>1 DEF DeliveryPhase, OnDisk, Dirs
  <2>. QED  BY <2>1, <2>2 DEF Answers, Dirs
<1>2. AnswersInv => RsvpAnswered
  BY <1>1 DEF RsvpAnswered
<1>. QED  BY <1>2, AnswersInvariant, PTL

-----------------------------------------------------------------------------
\* No key is remembered without a file: a new event of it would be refused
\* though nothing is there to be handled.
NoPhantomKeys == gateway # "down" => index \subseteq KeysOnDisk

\* A step that removes no item from the disk, and brings the key of what it
\* posts.
LEMMA KeptOnDisk ==
    ASSUME NoPhantomKeys, gateway' # "down" => gateway # "down",
           \A m \in Items : OnDisk(m) => OnDisk(m)',
           NEW K, K \subseteq KeysOnDisk', index' \subseteq index \union K
    PROVE  NoPhantomKeys'
BY DEF NoPhantomKeys, KeysOnDisk

LEMMA WritesKeep ==
    ASSUME FileType, NEW d \in Dirs, NEW n \in Items, NEW s \in Statuses, Write(d, n, s)
    PROVE  OnDisk(n)' /\ \A m \in Items : OnDisk(m) => OnDisk(m)'
<1>1. s # "absent"
  BY DEF Statuses, Terminal, PromptPending
<1>. QED  BY <1>1, Written DEF OnDisk, Has, Untouched

LEMMA MovesKeep ==
    ASSUME FileType, NEW d \in Dirs, NEW e \in Dirs, d # e, NEW n \in Items,
           MoveTo(d, n, e)
    PROVE  \A m \in Items : OnDisk(m) => OnDisk(m)'
<1>1. CASE ~Has(d, n)
  BY <1>1 DEF MoveTo, OnDisk, Has
<1>2. CASE Has(d, n)
  BY <1>2, Moved DEF OnDisk, Has, Untouched
<1>. QED  BY <1>1, <1>2

\* A deletion tells the index, even if another file of the item is left.
LEMMA DeletesTell ==
    ASSUME FileType, NoPhantomKeys, NEW d \in Dirs, NEW n \in Items, Delete(d, n),
           gateway' # "down" => gateway # "down"
    PROVE  NoPhantomKeys'
<1>1. CASE ~Has(d, n)
  BY <1>1 DEF Delete, NoPhantomKeys, KeysOnDisk, OnDisk, Has
<1>2. CASE Has(d, n)
  <2>1. /\ \A m \in Items : m # n => Untouched(m)
        /\ index' = index \ {KeyOf[n]}
    BY <1>2, Written DEF Delete
  <2>2. ASSUME NEW k \in index', gateway # "down"
        PROVE  k \in KeysOnDisk'
    <3>1. PICK m \in Items : OnDisk(m) /\ k = KeyOf[m]
      BY <2>1, <2>2 DEF NoPhantomKeys, KeysOnDisk
    <3>2. m # n /\ OnDisk(m)'
      BY <2>1, <2>2, <3>1 DEF OnDisk, Has, Untouched
    <3>. QED  BY <3>1, <3>2 DEF KeysOnDisk
  <2>. QED  BY <2>2 DEF NoPhantomKeys
<1>. QED  BY <1>1, <1>2

LEMMA StepTwoTells ==
    ASSUME FileType, NoPhantomKeys, NEW n \in Items, NEW status, StepTwo(n, status),
           gateway' # "down" => gateway # "down"
    PROVE  NoPhantomKeys'
<1>1. \/ UNCHANGED <<file, index>>
      \/ MoveTo("inbox", n, "service") /\ index' = index
      \/ MoveTo("inbox", n, "errored") /\ index' = index
      \/ Delete("inbox", n)
  BY DEF StepTwo
<1>2. CASE UNCHANGED <<file, index>>
  BY <1>2 DEF NoPhantomKeys, KeysOnDisk, OnDisk, Has
<1>3. CASE MoveTo("inbox", n, "service") \/ MoveTo("inbox", n, "errored")
  <2>1. \A m \in Items : OnDisk(m) => OnDisk(m)'
    BY <1>3, MovesKeep DEF Dirs
  <2>2. index' = index \/ Delete("inbox", n)
    BY <1>1
  <2>3. CASE index' = index
    BY <2>1, <2>3, KeptOnDisk
  <2>. QED  BY <2>2, <2>3, DeletesTell DEF Dirs
<1>. QED  BY <1>1, <1>2, <1>3, DeletesTell DEF Dirs

LEMMA PhantomStep ==
    ASSUME AnswersInv, NoPhantomKeys, [Next]_vars
    PROVE  NoPhantomKeys'
<1>. USE DEF drain
<1>1. FileType
  BY DEF AnswersInv, TypeOK, FileType
<1>2. CASE WriteTransition
  <2>1. PICK n \in Items, to \in Statuses : Write("inbox", n, to)
    BY <1>2 DEF WriteTransition, AgentOps
  <2>2. (\A m \in Items : OnDisk(m) => OnDisk(m)') /\ index' = index
    BY <1>1, <1>2, <2>1, WritesKeep DEF WriteTransition, Dirs
  <2>. QED  BY <1>2, <2>2, KeptOnDisk DEF WriteTransition
<1>3. CASE DispatchTransition
  <2>1. PICK n \in Items, to \in Statuses : Delete("service", n) \/ StepTwo(n, to)
    BY <1>3 DEF DispatchTransition, AgentOps
  <2>. QED  BY <1>1, <1>3, <2>1, DeletesTell, StepTwoTells DEF DispatchTransition, Dirs
<1>4. CASE HandlerReturns
  <2>1. (\A m \in Items : OnDisk(m) => OnDisk(m)') /\ index' = index
    BY <1>1, <1>4, WritesKeep DEF HandlerReturns, Dirs, Statuses
  <2>. QED  BY <1>4, <2>1, KeptOnDisk DEF HandlerReturns
<1>5. CASE OperatorWrites
  <2>1. PICK n \in Items : Write("inbox", n, "errored") \/ Write("errored", n, "pending")
    BY <1>5 DEF OperatorWrites, OperatorOps
  <2>2. (\A m \in Items : OnDisk(m) => OnDisk(m)') /\ index' = index
    BY <1>1, <1>5, <2>1, WritesKeep DEF OperatorWrites, Dirs, Statuses, Terminal, PromptPending
  <2>. QED  BY <1>5, <2>2, KeptOnDisk DEF OperatorWrites
<1>6. CASE OperatorMoves
  <2>1. PICK n \in Items : MoveTo("inbox", n, "errored") \/ MoveTo("errored", n, "inbox")
    BY <1>6 DEF OperatorMoves, OperatorOps
  <2>2. (\A m \in Items : OnDisk(m) => OnDisk(m)') /\ index' = index
    BY <1>1, <1>6, <2>1, MovesKeep DEF OperatorMoves, Dirs
  <2>. QED  BY <1>6, <2>2, KeptOnDisk DEF OperatorMoves
<1>7. ASSUME NEW n \in Items, Post(n)
      PROVE  NoPhantomKeys'
  <2>1. OnDisk(n)' /\ \A m \in Items : OnDisk(m) => OnDisk(m)'
    BY <1>1, <1>7, WritesKeep DEF Post, Dirs, Statuses, PromptPending
  <2>2. {KeyOf[n]} \subseteq KeysOnDisk'
    BY <2>1 DEF KeysOnDisk
  <2>. QED  BY <1>7, <2>1, <2>2, KeptOnDisk DEF Post
<1>8. ASSUME NEW n \in Items, SweepItem(n)
      PROVE  NoPhantomKeys'
  <2>1. \/ StepTwo(n, file["inbox"][n])
        \/ Delete("service", n)
        \/ UNCHANGED <<file, index>>
    BY <1>8 DEF SweepItem
  <2>2. gateway # "down" /\ gateway' = gateway
    BY <1>8 DEF SweepItem
  <2>3. CASE UNCHANGED <<file, index>>
    BY <2>2, <2>3 DEF NoPhantomKeys, KeysOnDisk, OnDisk, Has
  <2>. QED  BY <1>1, <2>1, <2>2, <2>3, DeletesTell, StepTwoTells DEF Dirs
<1>9. CASE Start
  BY <1>9 DEF Start, Rebuilt, NoPhantomKeys, KeysOnDisk, OnDisk, Has
<1>10. CASE Crash
  BY <1>10 DEF Crash, NoPhantomKeys
<1>11. CASE \/ FinishStartup \/ OperatorDies \/ HandlerRaises \/ UNCHANGED vars
            \/ \E n \in Items :
                  \/ CallHandler(n) \/ BeginPark(n) \/ BeginRequeue(n)
                  \/ \E to \in {"in_progress", "handled", "errored"} : BeginTransition(n, to)
  <2>1. file' = file /\ index' = index /\ (gateway' # "down" => gateway # "down")
    BY <1>11 DEF FinishStartup, OperatorDies, HandlerRaises, vars, CallHandler,
                 BeginPark, BeginRequeue, BeginTransition
  <2>. QED  BY <2>1 DEF NoPhantomKeys, KeysOnDisk, OnDisk, Has
<1>. QED
  BY <1>2, <1>3, <1>4, <1>5, <1>6, <1>7, <1>8, <1>9, <1>10, <1>11
     DEF Next, GatewayStep, OperatorStep

\* Half of what DurableQueue says of its index (lines 97-99) survives a command
\* used while the gateway runs: the index never holds the key of a file that
\* is gone.  The other half does not (the run InboxOperatorRace).
THEOREM NoKeyIsPhantom == Spec => []NoPhantomKeys
<1>1. Init => NoPhantomKeys
  BY DEF Init, NoPhantomKeys
<1>. QED  BY <1>1, AnswersInvariant, PhantomStep, PTL DEF Spec

-----------------------------------------------------------------------------
(* What holds when the command is used only while the gateway is down.     *)

\* What holds of each notification's file, wherever it is.
Sound(n) ==
    /\ \A d, e \in Dirs : Has(d, n) /\ Has(e, n) => d = e
    /\ OnDisk(n) => n \in posted
    /\ file["inbox"][n] # "confirmed"
    /\ Has("service", n) => n \in RsvpItems /\ file["service"][n] \in Terminal \union {"confirmed"}

\* A key is not in two files, so that the index may drop it with either.
UniqueKeys ==
    \A m, n \in Items : OnDisk(m) /\ OnDisk(n) /\ KeyOf[m] = KeyOf[n] => m = n

\* Only one of the two processes is at work,
Alone ==
    /\ gateway # "down" => operatorOp = NoOp
    /\ gateway # "up" => agentOp = NoOp /\ handling = NoOp

\* and what it read is still what is on disk.
AgentPlaced ==
    agentOp \in AgentOps =>
       \/ /\ agentOp.stage = "read" /\ agentOp.to # "confirmed"
          /\ file["inbox"][agentOp.item] \in PromptPending
       \/ /\ agentOp.stage = "written" /\ agentOp.to \in Terminal
          /\ file["inbox"][agentOp.item] = agentOp.to
       \/ /\ agentOp.stage = "written" /\ agentOp.to = "confirmed"
          /\ file["service"][agentOp.item] = "confirmed"

HandlerPlaced == handling \in Items => file["service"][handling] \in Terminal

OperatorPlaced ==
    operatorOp \in OperatorOps =>
       \/ /\ operatorOp.does = "park"
          /\ Has("inbox", operatorOp.item)
          /\ IF operatorOp.stage = "read"
             THEN file["inbox"][operatorOp.item] \in PromptPending
             ELSE file["inbox"][operatorOp.item] = "errored"
       \/ /\ operatorOp.does = "requeue"
          /\ Has("errored", operatorOp.item)
          /\ operatorOp.stage = "written" => file["errored"][operatorOp.item] = "pending"

InboxInv ==
    /\ TypeOK /\ ~OperatorOverlaps
    /\ \A n \in Items : Sound(n)
    /\ UniqueKeys /\ IndexMatchesDisk
    /\ Alone /\ AgentPlaced /\ HandlerPlaced /\ OperatorPlaced

-----------------------------------------------------------------------------
\* An item whose file is not touched.
LEMMA Kept ==
    ASSUME NEW n \in Items, Untouched(n)
    PROVE  /\ OnDisk(n)' = OnDisk(n)
           /\ \A d \in Dirs : Has(d, n)' = Has(d, n)
           /\ (n \in posted' <=> n \in posted) => DeliveryPhase(n)' = DeliveryPhase(n)
           /\ Sound(n) /\ (n \in posted' <=> n \in posted) => Sound(n)'
<1>1. /\ file'["inbox"][n] = file["inbox"][n] /\ file'["errored"][n] = file["errored"][n]
      /\ file'["service"][n] = file["service"][n]
  BY DEF Untouched, Dirs
<1>2. \A d \in Dirs : Has(d, n)' = Has(d, n)
  BY DEF Untouched, Has
<1>3. OnDisk(n)' = OnDisk(n)
  BY <1>2 DEF OnDisk
<1>. QED  BY <1>1, <1>2, <1>3 DEF DeliveryPhase, Sound, Has, Dirs

\* The keys on disk stay, lose one or gain one.
LEMMA KeysKept ==
    ASSUME UniqueKeys, \A m \in Items : OnDisk(m)' = OnDisk(m)
    PROVE  UniqueKeys' /\ KeysOnDisk' = KeysOnDisk
BY DEF UniqueKeys, KeysOnDisk

LEMMA KeysDropped ==
    ASSUME UniqueKeys, NEW n \in Items, OnDisk(n),
           \A m \in Items : OnDisk(m)' <=> OnDisk(m) /\ m # n
    PROVE  UniqueKeys' /\ KeysOnDisk' = KeysOnDisk \ {KeyOf[n]}
BY DEF UniqueKeys, KeysOnDisk

LEMMA KeysAdded ==
    ASSUME UniqueKeys, NEW n \in Items, KeyOf[n] \notin KeysOnDisk,
           \A m \in Items : OnDisk(m)' <=> OnDisk(m) \/ m = n
    PROVE  UniqueKeys' /\ KeysOnDisk' = KeysOnDisk \union {KeyOf[n]}
BY DEF UniqueKeys, KeysOnDisk

\* A step that leaves the files.
LEMMA FilesKept ==
    ASSUME InboxInv, file' = file, posted' = posted
    PROVE  /\ FileType' /\ \A n \in Items : Sound(n)'
           /\ UniqueKeys' /\ KeysOnDisk' = KeysOnDisk
<1>1. \A n \in Items : Untouched(n)
  BY DEF Untouched
<1>2. \A n \in Items : Sound(n)' /\ OnDisk(n)' = OnDisk(n)
  BY <1>1, Kept DEF InboxInv
<1>. QED  BY <1>2, KeysKept DEF InboxInv, TypeOK, FileType

-----------------------------------------------------------------------------
\* What NotificationDelivery lets happen to a notification, but for Accept.
Promised(n) ==
    LET was == DeliveryPhase(n)
        is == DeliveryPhase(n)'
    IN  \/ is = was
        \/ was = "open" /\ is \in {"handled", "errored"}
        \/ was = "errored" /\ is = "open"
        \/ n \in RsvpItems /\ was \in {"handled", "errored"} /\ is = "confirmed"
        \/ was = "confirmed" /\ is = "gone"
        \/ n \notin RsvpItems /\ was = "handled" /\ is = "gone"

\* A step that changes the file of n and no other, as far as it goes.
Touches(n) ==
    /\ FileType'
    /\ \A m \in Items : m # n => Untouched(m)
    /\ Sound(n)'
    /\ Promised(n)
    /\ OnDisk(n)
    /\ \/ OnDisk(n)' /\ index' = index
       \/ ~OnDisk(n)' /\ index' = index \ {KeyOf[n]}

Phases == [n \in Items |-> DeliveryPhase(n)]

LEMMA Promise ==
    ASSUME NEW n \in Items, Promised(n),
           \A m \in Items : m # n => DeliveryPhase(m)' = DeliveryPhase(m)
    PROVE  [Delivery!Next]_Phases
<1>. DEFINE is == DeliveryPhase(n)'
<1>1. Phases' = [Phases EXCEPT ![n] = is] /\ Phases[n] = DeliveryPhase(n)
  BY DEF Phases
<1>2. CASE is = DeliveryPhase(n)
  BY <1>2 DEF Phases
<1>3. CASE is # DeliveryPhase(n)
  <2>1. \/ Delivery!Settle(n) \/ Delivery!Reopen(n)
        \/ Delivery!Confirm(n) \/ Delivery!Vanish(n)
    BY <1>1, <1>3 DEF Promised, Phases, Delivery!Settle, Delivery!Reopen, Delivery!Confirm,
                      Delivery!Vanish, Delivery!Becomes
  <2>. QED  BY <2>1 DEF Delivery!Next
<1>. QED  BY <1>2, <1>3

LEMMA Touched ==
    ASSUME InboxInv, NEW n \in Items, Touches(n), posted' = posted
    PROVE  /\ FileType' /\ \A m \in Items : Sound(m)'
           /\ UniqueKeys'
           /\ gateway # "down" => index' = KeysOnDisk'
           /\ [Delivery!Next]_Phases
<1>1. \A m \in Items : m # n => Untouched(m)
  BY DEF Touches
<1>2. \A m \in Items : m # n => /\ Sound(m)' /\ OnDisk(m)' = OnDisk(m)
                                /\ DeliveryPhase(m)' = DeliveryPhase(m)
  BY <1>1, Kept DEF InboxInv
<1>3. \A m \in Items : Sound(m)'
  BY <1>2 DEF Touches
<1>4. UniqueKeys' /\ (gateway # "down" => index' = KeysOnDisk')
  <2>1. UniqueKeys /\ (gateway # "down" => index = KeysOnDisk)
    BY DEF InboxInv, IndexMatchesDisk
  <2>2. CASE OnDisk(n)'
    <3>1. \A m \in Items : OnDisk(m)' = OnDisk(m)
      BY <1>2, <2>2 DEF Touches, OnDisk
    <3>. QED  BY <3>1, <2>1, <2>2, KeysKept DEF Touches
  <2>3. CASE ~OnDisk(n)'
    <3>1. OnDisk(n) /\ \A m \in Items : OnDisk(m)' <=> OnDisk(m) /\ m # n
      BY <1>2, <2>3 DEF Touches
    <3>. QED  BY <3>1, <2>1, <2>3, KeysDropped DEF Touches
  <2>. QED  BY <2>2, <2>3
<1>5. [Delivery!Next]_Phases
  BY <1>2, Promise DEF Touches
<1>. QED  BY <1>3, <1>4, <1>5 DEF Touches

\* The places a file may be: a status in the directory, and in no other.
In(d, n, status) == \A e \in Dirs : file[e][n] = IF e = d THEN status ELSE "absent"

LEMMA Home ==
    ASSUME InboxInv, NEW n \in Items, NEW d \in Dirs, Has(d, n)
    PROVE  In(d, n, file[d][n]) /\ n \in posted /\ OnDisk(n) /\ FileType
<1>1. Sound(n) /\ FileType
  BY DEF InboxInv, TypeOK, FileType
<1>. QED  BY <1>1 DEF Sound, In, OnDisk, Has

LEMMA StepTwoTouches ==
    ASSUME InboxInv, NEW n \in Items, NEW status \in Terminal, file["inbox"][n] = status,
           StepTwo(n, status), posted' = posted
    PROVE  \/ file' = file /\ index' = index
           \/ Touches(n)
<1>1. In("inbox", n, status) /\ n \in posted /\ OnDisk(n) /\ FileType /\ Has("inbox", n)
  BY Home DEF Has, Dirs, Terminal
<1>2. CASE n \in RsvpItems /\ ServiceRegistered
  <2>1. MoveTo("inbox", n, "service") /\ index' = index
    BY <1>2 DEF StepTwo
  <2>2. /\ FileType' /\ In("service", n, status)'
        /\ \A m \in Items : m # n => Untouched(m)
    BY <2>1, <1>1, Moved DEF In, Dirs
  <2>3. OnDisk(n)' /\ Sound(n)' /\ Promised(n)
    BY <1>1, <1>2, <2>2 DEF In, Dirs, OnDisk, Has, Sound, Promised, DeliveryPhase, Terminal, PromptPending
  <2>. QED  BY <2>1, <2>2, <2>3, <1>1 DEF Touches
<1>3. CASE n \in RsvpItems /\ ~ServiceRegistered
  BY <1>3 DEF StepTwo
<1>4. CASE n \notin RsvpItems /\ status = "handled"
  <2>1. Write("inbox", n, "absent") /\ index' = index \ {KeyOf[n]}
    BY <1>1, <1>4 DEF StepTwo, Delete
  <2>2. /\ FileType' /\ In("inbox", n, "absent")'
        /\ \A m \in Items : m # n => Untouched(m)
    BY <2>1, <1>1, Written DEF In, Dirs
  <2>3. ~OnDisk(n)' /\ Sound(n)' /\ Promised(n)
    BY <1>1, <1>4, <2>2 DEF In, Dirs, OnDisk, Has, Sound, Promised, DeliveryPhase, Terminal, PromptPending
  <2>. QED  BY <2>1, <2>2, <2>3, <1>1 DEF Touches
<1>5. CASE n \notin RsvpItems /\ status = "errored"
  <2>1. MoveTo("inbox", n, "errored") /\ index' = index
    BY <1>5 DEF StepTwo
  <2>2. /\ FileType' /\ In("errored", n, status)'
        /\ \A m \in Items : m # n => Untouched(m)
    BY <2>1, <1>1, Moved DEF In, Dirs
  <2>3. OnDisk(n)' /\ Sound(n)' /\ Promised(n)
    BY <1>1, <1>5, <2>2 DEF In, Dirs, OnDisk, Has, Sound, Promised, DeliveryPhase, Terminal, PromptPending
  <2>. QED  BY <2>1, <2>2, <2>3, <1>1 DEF Touches
<1>. QED  BY <1>2, <1>3, <1>4, <1>5 DEF Terminal

LEMMA ConfirmedTouches ==
    ASSUME InboxInv, NEW n \in Items, file["service"][n] = "confirmed",
           Delete("service", n), posted' = posted
    PROVE  Touches(n)
<1>1. In("service", n, "confirmed") /\ n \in posted /\ OnDisk(n) /\ FileType /\ Has("service", n)
  BY Home DEF Has, Dirs
<1>2. Write("service", n, "absent") /\ index' = index \ {KeyOf[n]}
  BY <1>1 DEF Delete
<1>3. /\ FileType' /\ In("service", n, "absent")'
      /\ \A m \in Items : m # n => Untouched(m)
  BY <1>1, <1>2, Written DEF In, Dirs
<1>4. ~OnDisk(n)' /\ Sound(n)' /\ Promised(n)
  BY <1>1, <1>3 DEF In, Dirs, OnDisk, Has, Sound, Promised, DeliveryPhase, PromptPending
<1>. QED  BY <1>1, <1>2, <1>3, <1>4 DEF Touches

\* A new status where the file is.
LEMMA RewriteTouches ==
    ASSUME InboxInv, NEW n \in Items, NEW d \in Dirs, Has(d, n),
           NEW status \in Statuses, Write(d, n, status),
           \/ d = "inbox" /\ file[d][n] \in PromptPending /\ status \in PromptPending \union Terminal
           \/ d = "errored" /\ status = "pending"
           \/ d = "service" /\ file[d][n] \in Terminal /\ status = "confirmed",
           index' = index, posted' = posted
    PROVE  Touches(n)
<1>1. In(d, n, file[d][n]) /\ n \in posted /\ OnDisk(n) /\ FileType /\ Sound(n)
  BY Home DEF InboxInv
<1>2. /\ FileType' /\ In(d, n, status)'
      /\ \A m \in Items : m # n => Untouched(m)
  BY <1>1, Written DEF In
<1>3. status # "absent"
  BY DEF Statuses, PromptPending, Terminal
<1>4. OnDisk(n)' /\ Sound(n)'
  BY <1>1, <1>2, <1>3 DEF In, Dirs, OnDisk, Has, Sound, Terminal, PromptPending
<1>5. Promised(n)
  BY <1>1, <1>2, <1>3 DEF In, Dirs, Has, Sound, Promised, DeliveryPhase, Terminal, PromptPending
<1>. QED  BY <1>1, <1>2, <1>4, <1>5 DEF Touches

\* park and requeue move what they have rewritten.
LEMMA OperatorTouches ==
    ASSUME InboxInv, NEW n \in Items, NEW d \in Dirs, NEW e \in Dirs,
           \/ d = "inbox" /\ e = "errored" /\ file[d][n] = "errored"
           \/ d = "errored" /\ e = "inbox" /\ file[d][n] = "pending",
           MoveTo(d, n, e), index' = index, posted' = posted
    PROVE  Touches(n)
<1>1. In(d, n, file[d][n]) /\ n \in posted /\ OnDisk(n) /\ FileType /\ Has(d, n)
  BY Home DEF Has
<1>2. PICK status : status = file[d][n]
  OBVIOUS
<1>3. /\ FileType' /\ In(e, n, status)'
      /\ \A m \in Items : m # n => Untouched(m)
  <2>1. d # e
    OBVIOUS
  <2>. QED  BY <2>1, <1>1, <1>2, Moved DEF In
<1>4. CASE d = "inbox"
  BY <1>1, <1>2, <1>3, <1>4
     DEF In, Dirs, OnDisk, Has, Sound, Promised, DeliveryPhase, Terminal, PromptPending, Touches
<1>5. CASE d = "errored"
  BY <1>1, <1>2, <1>3, <1>5
     DEF In, Dirs, OnDisk, Has, Sound, Promised, DeliveryPhase, Terminal, PromptPending, Touches
<1>. QED  BY <1>4, <1>5

-----------------------------------------------------------------------------
LEMMA InboxInit == Init /\ ~OperatorOverlaps => InboxInv
BY DEF Init, InboxInv, TypeOK, Sound, UniqueKeys, IndexMatchesDisk, Alone, AgentPlaced,
       HandlerPlaced, OperatorPlaced, Has, OnDisk, KeysOnDisk, Dirs, AgentOps, OperatorOps

\* The invariant, and the promise, after a step.
Goes == InboxInv' /\ [Delivery!Next]_Phases

\* What the processes are at.
Placed == Alone /\ AgentPlaced /\ HandlerPlaced /\ OperatorPlaced

LEMMA QuietStep ==
    ASSUME InboxInv, file' = file, posted' = posted,
           TypeOK', Placed',
           gateway' # "down" => index' = KeysOnDisk
    PROVE  Goes
<1>1. Phases' = Phases
  BY DEF Phases, DeliveryPhase, Has
<1>. QED  BY <1>1, FilesKept DEF Goes, InboxInv, IndexMatchesDisk, Placed

LEMMA TouchingStep ==
    ASSUME InboxInv, NEW n \in Items, Touches(n), posted' = posted,
           gateway' = gateway, TypeOK', Placed'
    PROVE  Goes
BY Touched DEF Goes, InboxInv, IndexMatchesDisk, Placed

LEMMA PostStep ==
    ASSUME InboxInv, NEW n \in Items, Post(n)
    PROVE  Goes
<1>1. FileType /\ gateway = "up" /\ operatorOp = NoOp /\ index = KeysOnDisk /\ n \notin posted
  BY DEF InboxInv, TypeOK, FileType, Alone, IndexMatchesDisk, Post
<1>2. In("inbox", n, "absent") /\ ~OnDisk(n)
  BY <1>1 DEF InboxInv, Sound, OnDisk, In, Has, Dirs
<1>3. /\ FileType' /\ In("inbox", n, "pending")'
      /\ \A m \in Items : m # n => Untouched(m)
  <2>1. Write("inbox", n, "pending") /\ "pending" \in Statuses
    BY DEF Post, Statuses, PromptPending
  <2>. QED  BY <2>1, <1>1, <1>2, Written DEF In, Dirs
<1>4. \A m \in Items : m # n => /\ Sound(m)' /\ OnDisk(m)' = OnDisk(m)
                                /\ DeliveryPhase(m)' = DeliveryPhase(m)
  BY <1>3, Kept DEF InboxInv, Post, drain
<1>5. Sound(n)' /\ OnDisk(n)' /\ DeliveryPhase(n) = "unposted" /\ DeliveryPhase(n)' = "open"
  BY <1>1, <1>2, <1>3
     DEF In, Dirs, OnDisk, Has, Sound, DeliveryPhase, Terminal, PromptPending, Post
<1>6. UniqueKeys' /\ index' = KeysOnDisk'
  BY <1>1, <1>4, <1>5, KeysAdded DEF InboxInv, Post
<1>7. [Delivery!Next]_Phases
  <2>1. Phases' = [Phases EXCEPT ![n] = "open"] /\ Phases[n] = "unposted"
    BY <1>4, <1>5 DEF Phases
  <2>2. \A m \in Items : Delivery!InFlight(m) => KeyOf[m] # KeyOf[n]
    <3>1. ASSUME NEW m \in Items, Delivery!InFlight(m) PROVE KeyOf[m] # KeyOf[n]
      <4>1. OnDisk(m)
        BY <3>1 DEF Delivery!InFlight, DeliveryPhase, OnDisk, Has, Dirs, PromptPending
      <4>. QED  BY <4>1, <1>1 DEF KeysOnDisk, Post
    <3>. QED  BY <3>1
  <2>3. Delivery!Accept(n)
    BY <2>1, <2>2 DEF Delivery!Accept, Delivery!Becomes, Phases
  <2>. QED  BY <2>3 DEF Delivery!Next
<1>8. TypeOK'
  BY <1>3 DEF InboxInv, TypeOK, FileType, Post, drain
<1>9. Placed'
  <2>1. \A m \in Items : file'["service"][m] = file["service"][m]
    BY <1>2, <1>3 DEF In, Untouched, Dirs
  <2>2. agentOp' = NoOp /\ operatorOp' = NoOp /\ handling' = handling /\ gateway' = "up"
    BY <1>1 DEF Post, drain
  <2>3. HandlerPlaced'
    BY <2>1, <2>2 DEF InboxInv, HandlerPlaced
  <2>. QED  BY <2>2, <2>3 DEF Placed, Alone, AgentPlaced, OperatorPlaced
<1>. QED  BY <1>4, <1>5, <1>6, <1>7, <1>8, <1>9 DEF Goes, InboxInv, IndexMatchesDisk, Placed

LEMMA TransitionStep ==
    ASSUME InboxInv, WriteTransition \/ DispatchTransition
    PROVE  Goes
<1>1. PICK n \in Items, to \in Statuses, stage \in {"read", "written"} :
        agentOp = [item |-> n, to |-> to, stage |-> stage]
  BY DEF WriteTransition, DispatchTransition, AgentOps
<1>2. /\ agentOp.item = n /\ agentOp.to = to /\ agentOp.stage = stage
      /\ agentOp \in AgentOps
  BY <1>1 DEF AgentOps
<1>3. gateway = "up" /\ operatorOp = NoOp /\ FileType /\ TypeOK
  BY <1>2 DEF InboxInv, TypeOK, FileType, Alone
<1>4. CASE WriteTransition
  <2>1. /\ file["inbox"][n] \in PromptPending /\ to # "confirmed" /\ stage = "read"
        /\ Write("inbox", n, to)
    BY <1>2, <1>4 DEF InboxInv, AgentPlaced, WriteTransition, Terminal
  <2>2. UNCHANGED <<index, posted, gateway, unswept, operatorOp, drain, crashes>>
    BY <1>4 DEF WriteTransition
  <2>3. Touches(n)
    BY <2>1, <2>2, RewriteTouches DEF Has, Dirs, Statuses, PromptPending, drain
  <2>4. /\ FileType' /\ file'["inbox"][n] = to
        /\ \A m \in Items : file'["service"][m] = file["service"][m]
    BY <1>3, <2>1, Written DEF Untouched, Dirs, Statuses
  <2>5. \/ agentOp' = NoOp
        \/ agentOp' = [item |-> n, to |-> to, stage |-> "written"] /\ to \in Terminal
    BY <1>1, <1>2, <1>4 DEF WriteTransition
  <2>6. TypeOK'
    BY <1>3, <2>2, <2>4, <2>5 DEF TypeOK, FileType, AgentOps, drain
  <2>7. Placed'
    <3>1. Alone' /\ OperatorPlaced'
      BY <1>3, <2>2 DEF Alone, OperatorPlaced, drain
    <3>2. HandlerPlaced'
      BY <2>2, <2>4 DEF InboxInv, HandlerPlaced, drain
    <3>3. AgentPlaced'
      BY <2>4, <2>5 DEF AgentPlaced
    <3>. QED  BY <3>1, <3>2, <3>3 DEF Placed
  <2>. QED  BY <2>2, <2>3, <2>6, <2>7, TouchingStep DEF drain
<1>5. CASE DispatchTransition
  <2>1. /\ agentOp' = NoOp
        /\ UNCHANGED <<posted, gateway, unswept, operatorOp, drain, crashes>>
    BY <1>5 DEF DispatchTransition
  <2>2. \/ to = "confirmed" /\ file["service"][n] = "confirmed" /\ Delete("service", n)
        \/ to \in Terminal /\ file["inbox"][n] = to /\ StepTwo(n, to)
    BY <1>2, <1>5 DEF InboxInv, AgentPlaced, DispatchTransition, Terminal
  <2>3. \/ Touches(n)
        \/ file' = file /\ index' = index
    BY <2>1, <2>2, StepTwoTouches, ConfirmedTouches DEF drain
  <2>4. FileType' /\ handling' = handling /\ index' \subseteq Keys
    BY <1>3, <2>1, <2>3 DEF Touches, FileType, TypeOK, drain
  <2>5. TypeOK'
    BY <1>3, <2>1, <2>4 DEF TypeOK, FileType, drain
  <2>6. Placed'
    <3>1. Alone' /\ OperatorPlaced' /\ AgentPlaced'
      BY <1>3, <2>1 DEF Alone, OperatorPlaced, AgentPlaced, drain
    <3>2. handling \in Items => handling # n
      <4>1. file["inbox"][n] = to /\ to \in Terminal => file["service"][n] = "absent"
        BY DEF InboxInv, Sound, Has, Dirs, Terminal
      <4>. QED  BY <2>2, <4>1 DEF InboxInv, HandlerPlaced, Terminal
    <3>3. HandlerPlaced'
      BY <2>3, <2>4, <3>2 DEF InboxInv, HandlerPlaced, Touches, Untouched, Dirs
    <3>. QED  BY <3>1, <3>3 DEF Placed
  <2>7. index' = KeysOnDisk \/ Touches(n)
    BY <1>3, <2>3 DEF InboxInv, IndexMatchesDisk
  <2>. QED  BY <2>1, <2>3, <2>5, <2>6, <2>7, QuietStep, TouchingStep DEF drain
<1>. QED  BY <1>4, <1>5

LEMMA DrainStep ==
    ASSUME InboxInv, HandlerReturns
    PROVE  Goes
<1>1. /\ handling \in Items /\ file["service"][handling] \in Terminal
      /\ gateway = "up" /\ operatorOp = NoOp /\ FileType /\ TypeOK
  BY DEF HandlerReturns, InboxInv, HandlerPlaced, Alone, TypeOK, FileType
<1>2. PICK n \in Items : n = handling
  BY <1>1
<1>3. /\ Write("service", n, "confirmed") /\ answered' = answered \union {n}
      /\ agentOp' = [item |-> n, to |-> "confirmed", stage |-> "written"]
      /\ handling' = NoOp
      /\ UNCHANGED <<index, posted, gateway, unswept, operatorOp, crashes>>
  BY <1>2 DEF HandlerReturns
<1>4. Touches(n)
  BY <1>1, <1>2, <1>3, RewriteTouches DEF Has, Dirs, Statuses, Terminal
<1>5. FileType' /\ file'["service"][n] = "confirmed"
  BY <1>1, <1>3, Written DEF Dirs, Statuses
<1>6. TypeOK'
  BY <1>1, <1>3, <1>5 DEF TypeOK, FileType, AgentOps, Statuses
<1>7. Placed'
  BY <1>1, <1>3, <1>5 DEF Placed, Alone, OperatorPlaced, HandlerPlaced, AgentPlaced
<1>. QED  BY <1>3, <1>4, <1>6, <1>7, TouchingStep

LEMMA SweepStep ==
    ASSUME InboxInv, NEW n \in Items, SweepItem(n)
    PROVE  Goes
<1>1. /\ gateway = "starting" /\ operatorOp = NoOp /\ agentOp = NoOp /\ handling = NoOp
      /\ FileType /\ TypeOK /\ index = KeysOnDisk
      /\ unswept' = unswept \ {n}
      /\ UNCHANGED <<posted, gateway, agentOp, operatorOp, drain, crashes>>
  BY DEF SweepItem, InboxInv, Alone, TypeOK, FileType, IndexMatchesDisk
<1>2. \/ Touches(n)
      \/ file' = file /\ index' = index
  <2>1. CASE file["inbox"][n] \in Terminal
    BY <1>1, <2>1, StepTwoTouches DEF SweepItem, drain
  <2>2. CASE file["inbox"][n] \notin Terminal /\ file["service"][n] = "confirmed"
    BY <1>1, <2>2, ConfirmedTouches DEF SweepItem, drain
  <2>3. CASE file["inbox"][n] \notin Terminal /\ file["service"][n] # "confirmed"
    BY <2>3 DEF SweepItem
  <2>. QED  BY <2>1, <2>2, <2>3
<1>3. FileType' /\ index' \subseteq Keys
  BY <1>1, <1>2 DEF Touches, FileType, TypeOK
<1>4. TypeOK'
  BY <1>1, <1>3 DEF TypeOK, FileType, drain
<1>5. Placed'
  BY <1>1 DEF Placed, Alone, OperatorPlaced, HandlerPlaced, AgentPlaced, drain
<1>. QED  BY <1>1, <1>2, <1>4, <1>5, QuietStep, TouchingStep DEF drain

LEMMA CommandStep ==
    ASSUME InboxInv, OperatorWrites \/ OperatorMoves
    PROVE  Goes
<1>1. PICK n \in Items, does \in {"park", "requeue"}, stage \in {"read", "written"} :
        operatorOp = [item |-> n, does |-> does, stage |-> stage]
  BY DEF OperatorWrites, OperatorMoves, OperatorOps
<1>2. /\ operatorOp.item = n /\ operatorOp.does = does /\ operatorOp.stage = stage
      /\ operatorOp \in OperatorOps /\ operatorOp # NoOp
  BY <1>1 DEF OperatorOps
<1>3. gateway = "down" /\ agentOp = NoOp /\ handling = NoOp /\ FileType /\ TypeOK
  BY <1>2 DEF InboxInv, TypeOK, FileType, Alone
<1>4. UNCHANGED <<index, posted, gateway, unswept, agentOp, drain, crashes>>
  BY DEF OperatorWrites, OperatorMoves
<1>5. CASE OperatorWrites
  <2>1. stage = "read" /\ operatorOp' = [item |-> n, does |-> does, stage |-> "written"]
    BY <1>1, <1>2, <1>5 DEF OperatorWrites
  <2>2. PICK d \in Dirs, status \in Statuses :
          /\ Write(d, n, status) /\ Has(d, n)
          /\ \/ does = "park" /\ d = "inbox" /\ status = "errored" /\ file[d][n] \in PromptPending
             \/ does = "requeue" /\ d = "errored" /\ status = "pending"
    BY <1>2, <1>5, <2>1
       DEF OperatorWrites, InboxInv, OperatorPlaced, Dirs, Statuses, Terminal, PromptPending
  <2>3. Touches(n)
    BY <1>4, <2>2, RewriteTouches DEF drain, Terminal
  <2>4. FileType' /\ file'[d][n] = status
    BY <1>3, <2>2, Written
  <2>5. TypeOK'
    BY <1>3, <1>4, <2>1, <2>4 DEF TypeOK, FileType, OperatorOps, drain
  <2>6. OperatorPlaced'
    BY <2>1, <2>2, <2>4 DEF OperatorPlaced, Has
  <2>7. Placed'
    BY <1>3, <1>4, <2>6 DEF Placed, Alone, HandlerPlaced, AgentPlaced, drain
  <2>. QED  BY <1>4, <2>3, <2>5, <2>7, TouchingStep DEF drain
<1>6. CASE OperatorMoves
  <2>1. stage = "written" /\ operatorOp' = NoOp
    BY <1>2, <1>6 DEF OperatorMoves
  <2>2. PICK d \in Dirs, e \in Dirs :
          /\ MoveTo(d, n, e)
          /\ \/ d = "inbox" /\ e = "errored" /\ file[d][n] = "errored"
             \/ d = "errored" /\ e = "inbox" /\ file[d][n] = "pending"
    BY <1>2, <1>6, <2>1 DEF OperatorMoves, InboxInv, OperatorPlaced, Dirs
  <2>3. Touches(n)
    BY <1>4, <2>2, OperatorTouches DEF drain
  <2>4. TypeOK'
    BY <1>3, <1>4, <2>1, <2>3 DEF TypeOK, FileType, Touches, drain
  <2>5. Placed'
    BY <1>3, <1>4, <2>1 DEF Placed, Alone, HandlerPlaced, AgentPlaced, OperatorPlaced, drain
  <2>. QED  BY <1>4, <2>3, <2>4, <2>5, TouchingStep DEF drain
<1>. QED  BY <1>5, <1>6

\* The steps that leave the files.
LEMMA OtherStep ==
    ASSUME InboxInv,
           \/ Start \/ FinishStartup \/ OperatorDies \/ Crash \/ HandlerRaises
           \/ \E n \in Items : \/ CallHandler(n) \/ BeginPark(n) \/ BeginRequeue(n)
                               \/ \E to \in {"in_progress", "handled", "errored"} :
                                     BeginTransition(n, to)
           \/ UNCHANGED vars
    PROVE  Goes
<1>. USE DEF drain
<1>1. /\ TypeOK /\ ~OperatorOverlaps /\ Alone
      /\ AgentPlaced /\ HandlerPlaced /\ OperatorPlaced
      /\ gateway # "down" => index = KeysOnDisk
      /\ KeysOnDisk \subseteq Keys
  BY DEF InboxInv, IndexMatchesDisk, KeysOnDisk
<1>2. CASE Start
  <2>1. TypeOK' /\ Placed'
    BY <1>1, <1>2 DEF Start, Rebuilt, TypeOK, Placed, Alone, AgentPlaced, HandlerPlaced, OperatorPlaced
  <2>. QED  BY <1>2, <2>1, QuietStep DEF Start, Rebuilt
<1>3. CASE FinishStartup
  <2>1. TypeOK' /\ Placed'
    BY <1>1, <1>3 DEF FinishStartup, TypeOK, Placed, Alone, AgentPlaced, HandlerPlaced, OperatorPlaced
  <2>. QED  BY <1>1, <1>3, <2>1, QuietStep DEF FinishStartup
<1>4. CASE OperatorDies
  <2>1. TypeOK' /\ Placed'
    BY <1>1, <1>4 DEF OperatorDies, TypeOK, Placed, Alone, AgentPlaced, HandlerPlaced, OperatorPlaced
  <2>. QED  BY <1>1, <1>4, <2>1, QuietStep DEF OperatorDies
<1>5. CASE Crash
  <2>1. TypeOK' /\ Placed'
    BY <1>1, <1>5 DEF Crash, TypeOK, Placed, Alone, AgentPlaced, HandlerPlaced, OperatorPlaced
  <2>. QED  BY <1>1, <1>5, <2>1, QuietStep DEF Crash
<1>6. CASE HandlerRaises
  <2>1. TypeOK' /\ Placed'
    BY <1>1, <1>6 DEF HandlerRaises, TypeOK, Placed, Alone, AgentPlaced, HandlerPlaced, OperatorPlaced
  <2>. QED  BY <1>1, <1>6, <2>1, QuietStep DEF HandlerRaises
<1>7. ASSUME NEW n \in Items, CallHandler(n)
      PROVE  Goes
  <2>1. TypeOK' /\ Placed'
    BY <1>1, <1>7 DEF CallHandler, TypeOK, Placed, Alone, AgentPlaced, HandlerPlaced, OperatorPlaced
  <2>. QED  BY <1>1, <1>7, <2>1, QuietStep DEF CallHandler
<1>8. ASSUME NEW n \in Items, NEW does \in {"park", "requeue"},
             operatorOp' = [item |-> n, does |-> does, stage |-> "read"],
             does = "park" => file["inbox"][n] \in PromptPending,
             does = "requeue" => Has("errored", n),
             OperatorMay,
             UNCHANGED <<file, index, posted, gateway, unswept, agentOp, drain, crashes>>
      PROVE  Goes
  <2>1. gateway = "down" /\ TypeOK'
    BY <1>1, <1>8 DEF OperatorMay, TypeOK, OperatorOps
  <2>2. OperatorPlaced'
    BY <1>8 DEF OperatorPlaced, Has, PromptPending
  <2>3. Placed'
    BY <1>1, <1>8, <2>1, <2>2 DEF Placed, Alone, AgentPlaced, HandlerPlaced
  <2>. QED  BY <1>1, <1>8, <2>1, <2>3, QuietStep
<1>9. ASSUME NEW n \in Items, NEW to \in {"in_progress", "handled", "errored"},
             BeginTransition(n, to)
      PROVE  Goes
  <2>1. to \in Statuses /\ to # "confirmed"
    BY DEF Statuses, Terminal, PromptPending
  <2>2. TypeOK' /\ AgentPlaced'
    BY <1>1, <1>9, <2>1 DEF BeginTransition, TypeOK, AgentOps, AgentPlaced
  <2>3. Placed'
    BY <1>1, <1>9, <2>2 DEF BeginTransition, Placed, Alone, HandlerPlaced, OperatorPlaced
  <2>. QED  BY <1>1, <1>9, <2>2, <2>3, QuietStep DEF BeginTransition
<1>10. CASE UNCHANGED vars
  <2>1. TypeOK'
    BY <1>1, <1>10 DEF vars, TypeOK
  <2>2. Alone' /\ HandlerPlaced'
    BY <1>1, <1>10 DEF vars, Alone, HandlerPlaced
  <2>3. AgentPlaced'
    BY <1>1, <1>10 DEF vars, AgentPlaced
  <2>4. OperatorPlaced'
    BY <1>1, <1>10 DEF vars, OperatorPlaced, Has
  <2>. QED  BY <1>1, <1>10, <2>1, <2>2, <2>3, <2>4, QuietStep DEF vars, Placed
<1>11. ASSUME NEW n \in Items, BeginPark(n) \/ BeginRequeue(n)
       PROVE  Goes
  BY <1>8, <1>11 DEF BeginPark, BeginRequeue
<1>. QED
  BY <1>2, <1>3, <1>4, <1>5, <1>6, <1>7, <1>9, <1>10, <1>11

LEMMA InboxStep ==
    ASSUME InboxInv, [Next]_vars
    PROVE  Goes
BY PostStep, TransitionStep, DrainStep, SweepStep, CommandStep, OtherStep
   DEF Next, GatewayStep, OperatorStep

LEMMA InboxInvariant == Spec /\ ~OperatorOverlaps => []InboxInv /\ [][Delivery!Next]_Phases
<1>1. InboxInv /\ [Next]_vars => InboxInv' /\ [Delivery!Next]_Phases
  BY InboxStep DEF Goes
<1>. QED  BY <1>1, InboxInit, PTL DEF Spec

\* No notification is in two directories, wherever either process died
\* (DurableQueue.move_to, park_live, requeue_errored).
THEOREM OneHomeEach == Spec /\ ~OperatorOverlaps => []OneHome
<1>1. InboxInv => OneHome
  BY DEF InboxInv, Sound, OneHome
<1>. QED  BY <1>1, InboxInvariant, PTL

\* A gateway that is up, or sweeping, knows exactly the keys on disk: no event
\* is dropped for a file that is gone, and none is accepted twice
\* (InFlightIndex, rebuild_in_flight_index).
THEOREM IndexIsTheDisk == Spec /\ ~OperatorOverlaps => []IndexMatchesDisk
<1>1. InboxInv => IndexMatchesDisk
  BY DEF InboxInv
<1>. QED  BY <1>1, InboxInvariant, PTL

\* The files, the two processes and their crashes implement the promise of
\* NotificationDelivery.
THEOREM FilesDeliver == Spec /\ ~OperatorOverlaps => Delivered
<1>1. Init => Phases = [n \in Items |-> "unposted"]
  BY DEF Init, Phases, DeliveryPhase, Has, Dirs, PromptPending
<1>2. Init => Delivery!Init
  BY <1>1 DEF Delivery!Init, Phases
<1>3. [Delivery!Next]_Phases => [Delivery!Next]_[n \in Items |-> DeliveryPhase(n)]
  BY DEF Phases
<1>. QED  BY <1>2, <1>3, InboxInvariant, PTL DEF Spec, Delivered, Delivery!Spec
-----------------------------------------------------------------------------
(* What is settled is in somebody's hands.                                 *)

\* An item whose RSVP target is unknown stays where it is.
Unresolved(n) == n \in RsvpItems /\ ~ServiceRegistered

\* A settled item is in an inbox only until the gateway is through with it: it
\* is down, has not come to it in its sweep, or is dispatching it.
InHand(n) ==
    file["inbox"][n] \in Terminal =>
        \/ Unresolved(n)
        \/ gateway = "down"
        \/ gateway = "starting" /\ n \in unswept
        \/ agentOp = [item |-> n, to |-> file["inbox"][n], stage |-> "written"]

SettledInHand == \A n \in Items : InHand(n)

\* Step two takes what is settled out of the inbox.
LEMMA StepTwoEmpties ==
    ASSUME FileType, NEW n \in Items, NEW status, StepTwo(n, status)
    PROVE  /\ file'["inbox"][n] \in Terminal => Unresolved(n)'
           /\ \A m \in Items : m # n => file'["inbox"][m] = file["inbox"][m]
<1>1. CASE n \in RsvpItems /\ ~ServiceRegistered
  BY <1>1 DEF StepTwo, Unresolved
<1>2. CASE ~(n \in RsvpItems /\ ~ServiceRegistered)
  <2>1. PICK e \in {"errored", "service"} : MoveTo("inbox", n, e) \/ Delete("inbox", n)
    BY <1>2 DEF StepTwo
  <2>2. CASE ~Has("inbox", n)
    BY <2>1, <2>2 DEF MoveTo, Delete, Has, Terminal
  <2>3. CASE Has("inbox", n)
    <3>1. /\ file'["inbox"][n] = "absent"
          /\ \A m \in Items : m # n => Untouched(m)
      BY <2>1, <2>3, Moved, Written DEF Delete, Dirs
    <3>. QED  BY <3>1 DEF Untouched, Dirs, Terminal
  <2>. QED  BY <2>2, <2>3
<1>. QED  BY <1>1, <1>2

LEMMA SettledStep ==
    ASSUME InboxInv, SettledInHand, [Next]_vars
    PROVE  SettledInHand'
<1>. USE DEF drain
<1>1. FileType /\ ~OperatorOverlaps /\ Alone /\ NoOp \notin AgentOps
      /\ \A m \in Items : InHand(m)
  BY DEF InboxInv, TypeOK, FileType, SettledInHand
<1>2. SUFFICES ASSUME NEW m \in Items PROVE InHand(m)'
  BY DEF SettledInHand
<1>3. CASE WriteTransition
  <2>1. PICK n \in Items, to \in Statuses : agentOp = [item |-> n, to |-> to, stage |-> "read"]
    BY <1>3 DEF WriteTransition, AgentOps
  <2>2. /\ file'["inbox"][n] = to
        /\ m # n => file'["inbox"][m] = file["inbox"][m]
    BY <1>1, <1>3, <2>1, Written DEF WriteTransition, Dirs, Untouched
  <2>3. to \in Terminal => agentOp' = [item |-> n, to |-> to, stage |-> "written"]
    BY <1>3, <2>1 DEF WriteTransition
  <2>. QED  BY <1>1, <1>3, <2>1, <2>2, <2>3 DEF WriteTransition, InHand, Unresolved
<1>4. CASE DispatchTransition
  <2>1. PICK n \in Items, to \in Statuses : agentOp = [item |-> n, to |-> to, stage |-> "written"]
    BY <1>4 DEF DispatchTransition, AgentOps
  <2>2. CASE to = "confirmed"
    <3>1. Delete("service", n) /\ UNCHANGED <<gateway, unswept>>
      BY <1>4, <2>1, <2>2 DEF DispatchTransition
    <3>2. file'["inbox"][m] = file["inbox"][m]
      BY <1>1, <3>1, Written DEF Delete, Dirs, Untouched
    <3>3. file["inbox"][m] \in Terminal => to # file["inbox"][m]
      BY <2>2 DEF Terminal
    <3>. QED  BY <1>1, <2>1, <3>1, <3>2, <3>3 DEF InHand, Unresolved
  <2>3. CASE to # "confirmed"
    <3>1. StepTwo(n, to) /\ UNCHANGED <<gateway, unswept>>
      BY <1>4, <2>1, <2>3 DEF DispatchTransition
    <3>2. CASE m = n
      BY <1>1, <3>1, <3>2, StepTwoEmpties DEF InHand, Unresolved
    <3>3. CASE m # n
      BY <1>1, <2>1, <3>1, <3>3, StepTwoEmpties DEF InHand, Unresolved
    <3>. QED  BY <3>2, <3>3
  <2>. QED  BY <2>2, <2>3
<1>5. CASE HandlerReturns
  <2>1. file'["inbox"][m] = file["inbox"][m] /\ agentOp = NoOp /\ UNCHANGED <<gateway, unswept>>
    BY <1>1, <1>5, Written DEF HandlerReturns, Dirs, Statuses, Untouched
  <2>. QED  BY <1>1, <2>1 DEF InHand, Unresolved, AgentOps, Statuses
<1>6. CASE OperatorWrites \/ OperatorMoves
  <2>1. operatorOp # NoOp /\ gateway' = gateway
    BY <1>6 DEF OperatorWrites, OperatorMoves
  <2>. QED  BY <1>1, <2>1 DEF Alone, InHand
<1>7. ASSUME NEW n \in Items, Post(n)
      PROVE  InHand(m)'
  <2>1. /\ file'["inbox"][n] = "pending"
        /\ m # n => file'["inbox"][m] = file["inbox"][m]
    BY <1>1, <1>7, Written DEF Post, Dirs, Statuses, PromptPending, Untouched
  <2>. QED  BY <1>1, <1>7, <2>1 DEF Post, InHand, Unresolved, Terminal
<1>8. ASSUME NEW n \in Items, SweepItem(n)
      PROVE  InHand(m)'
  <2>1. /\ gateway = "starting" /\ unswept' = unswept \ {n}
        /\ UNCHANGED <<gateway, agentOp>>
    BY <1>8 DEF SweepItem
  <2>2. CASE file["inbox"][n] \in Terminal
    <3>1. StepTwo(n, file["inbox"][n])
      BY <1>8, <2>2 DEF SweepItem
    <3>2. CASE m = n
      BY <1>1, <3>1, <3>2, StepTwoEmpties DEF InHand, Unresolved
    <3>3. CASE m # n
      BY <1>1, <2>1, <3>1, <3>3, StepTwoEmpties DEF InHand, Unresolved
    <3>. QED  BY <3>2, <3>3
  <2>3. CASE file["inbox"][n] \notin Terminal
    <3>1. Delete("service", n) \/ UNCHANGED file
      BY <1>8, <2>3 DEF SweepItem
    <3>2. file'["inbox"][m] = file["inbox"][m]
      BY <1>1, <3>1, Written DEF Delete, Dirs, Untouched
    <3>. QED  BY <1>1, <2>1, <2>3, <3>2 DEF InHand, Unresolved
  <2>. QED  BY <2>2, <2>3
<1>9. CASE Start \/ Crash \/ FinishStartup
  BY <1>1, <1>9 DEF Start, Crash, FinishStartup, InHand, Unresolved
<1>10. ASSUME NEW n \in Items, NEW to \in {"in_progress", "handled", "errored"},
              BeginTransition(n, to)
       PROVE  InHand(m)'
  BY <1>1, <1>10 DEF BeginTransition, InHand, Unresolved, AgentOps, Statuses
<1>11. CASE \/ OperatorDies \/ HandlerRaises \/ UNCHANGED vars
            \/ \E n \in Items : CallHandler(n) \/ BeginPark(n) \/ BeginRequeue(n)
  <2>1. UNCHANGED <<file, gateway, unswept, agentOp>>
    BY <1>11 DEF OperatorDies, HandlerRaises, vars, CallHandler, BeginPark, BeginRequeue
  <2>. QED  BY <1>1, <2>1 DEF InHand, Unresolved
<1>. QED
  BY <1>3, <1>4, <1>5, <1>6, <1>7, <1>8, <1>9, <1>10, <1>11
     DEF Next, GatewayStep, OperatorStep

\* What a crash left half done is found: a settled notification is in an inbox
\* only while the gateway is down, has its sweep before it, or is about to
\* dispatch it, unless its RSVP target is unknown (run_startup_sweep,
\* apply_handling_transition).  SettledLeavesInbox adds that this comes to an
\* end.
THEOREM SettledIsInHand == Spec /\ ~OperatorOverlaps => []SettledInHand
<1>1. Init => SettledInHand
  BY DEF Init, SettledInHand, InHand
<1>2. InboxInv /\ SettledInHand /\ [Next]_vars => SettledInHand'
  BY SettledStep
<1>. QED  BY <1>1, <1>2, InboxInvariant, PTL DEF Spec
=============================================================================
