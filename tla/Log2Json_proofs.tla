--------------------------- MODULE Log2Json_proofs ---------------------------
(***************************************************************************)
(* Proofs about the pipeline as a whole, for every number of hosts,        *)
(* connections, distribution threads and outputs.  It implements both of   *)
(* its parts, so what is proved of each of them holds in it; and across    *)
(* the two, the texts that outputs get are whole, and hosts receive the    *)
(* lines of an audit event in order.                                       *)
(***************************************************************************)
EXTENDS Log2Json, AuditReassembly_proofs, FiniteSetTheorems

\* The outputs again, with what is proved of them.
OutP == INSTANCE OutputFanout_proofs WITH
  worker <- round, dropped <- refused, processed <- sent,
  MaxValues <- MaxLines + MaxMarkers

USE DEF NoEvent, Threads, Objects, Pointers
-----------------------------------------------------------------------------
(* The pipeline implements its parts.                                        *)

\* The constants of the pipeline suit the outputs.
LEMMA OutputsFit == OutP!FanoutAssumption
BY PipelineAssumption, ReassemblyAssumption DEF OutP!FanoutAssumption

\* The two instances have the same variables.
LEMMA SameVars ==
  /\ Out!vars = OutP!vars /\ Out!dispatchVars = OutP!dispatchVars
  /\ Out!queueVars = OutP!queueVars /\ Out!senderVars = OutP!senderVars
  /\ Out!netVars = OutP!netVars
BY DEF Out!vars, OutP!vars, Out!dispatchVars, OutP!dispatchVars, Out!queueVars, OutP!queueVars,
       Out!senderVars, OutP!senderVars, Out!netVars, OutP!netVars

\* The steps of the distribution threads are the same.
LEMMA SameWorkerSteps ==
  ASSUME NEW w \in Workers
  PROVE  /\ Out!Pop(w) <=> OutP!Pop(w)
         /\ Out!LockOutputs(w) <=> OutP!LockOutputs(w)
         /\ Out!PushValue(w) <=> OutP!PushValue(w)
         /\ Out!DropValue(w) <=> OutP!DropValue(w)
         /\ Out!UnlockOutputs(w) <=> OutP!UnlockOutputs(w)
         /\ Out!Account(w) <=> OutP!Account(w)
<1>. USE DEF Out!dispatchVars, OutP!dispatchVars, Out!queueVars, OutP!queueVars,
             Out!senderVars, OutP!senderVars, Out!netVars, OutP!netVars
<1>1. Out!Pop(w) <=> OutP!Pop(w)
  BY DEF Out!Pop, OutP!Pop
<1>2. Out!LockOutputs(w) <=> OutP!LockOutputs(w)
  BY DEF Out!LockOutputs, OutP!LockOutputs, Out!MutexFree, OutP!MutexFree
<1>3. Out!PushValue(w) <=> OutP!PushValue(w)
  BY DEF Out!PushValue, OutP!PushValue, Out!HasRoom, OutP!HasRoom, Out!Outputs, OutP!Outputs
<1>4. Out!DropValue(w) <=> OutP!DropValue(w)
  BY DEF Out!DropValue, OutP!DropValue, Out!GivesUp, OutP!GivesUp, Out!HasRoom, OutP!HasRoom,
         Out!NextOutput, OutP!NextOutput, Out!Outputs, OutP!Outputs
<1>5. Out!UnlockOutputs(w) <=> OutP!UnlockOutputs(w)
  BY DEF Out!UnlockOutputs, OutP!UnlockOutputs, Out!Outputs, OutP!Outputs
<1>6. Out!Account(w) <=> OutP!Account(w)
  BY DEF Out!Account, OutP!Account, Out!IdleWorker, OutP!IdleWorker, Out!NoValue, OutP!NoValue
<1>. QED BY <1>1, <1>2, <1>3, <1>4, <1>5, <1>6

\* And so are those of the senders and of the network.
LEMMA SameSenderSteps ==
  ASSUME NEW o \in Outputs
  PROVE  /\ Out!SenderStep(o) <=> OutP!SenderStep(o)
         /\ Out!Receive(o) <=> OutP!Receive(o)
         /\ Out!Break(o) <=> OutP!Break(o)
<1>. USE DEF Out!dispatchVars, OutP!dispatchVars, Out!queueVars, OutP!queueVars,
             Out!senderVars, OutP!senderVars, Out!netVars, OutP!netVars
<1>1. Out!Reconnect(o) <=> OutP!Reconnect(o)
  BY DEF Out!Reconnect, OutP!Reconnect, Out!NoValue, OutP!NoValue
<1>2. Out!ReconnectFails(o) <=> OutP!ReconnectFails(o)
  BY DEF Out!ReconnectFails, OutP!ReconnectFails
<1>3. Out!PopValue(o) <=> OutP!PopValue(o)
  BY DEF Out!PopValue, OutP!PopValue
<1>4. Out!Write(o) <=> OutP!Write(o)
  BY DEF Out!Write, OutP!Write, Out!SenderAfterWrite, OutP!SenderAfterWrite,
         Out!NoValue, OutP!NoValue
<1>5. Out!WriteFails(o) <=> OutP!WriteFails(o)
  BY DEF Out!WriteFails, OutP!WriteFails, Out!SenderAfterFailure, OutP!SenderAfterFailure
<1>6. Out!Receive(o) <=> OutP!Receive(o)
  BY DEF Out!Receive, OutP!Receive
<1>7. Out!Break(o) <=> OutP!Break(o)
  BY DEF Out!Break, OutP!Break
<1>. QED BY <1>1, <1>2, <1>3, <1>4, <1>5, <1>6, <1>7 DEF Out!SenderStep, OutP!SenderStep

\* Insertion, the GC and the pushes leave the outputs alone.
LEMMA CollectSteps ==
  ASSUME Collect, Reassembling
  PROVE  Next /\ UNCHANGED OutP!vars
<1>1. Next
  BY DEF Collect, Next
<1>2. eventsProcessed' = eventsProcessed
  BY DEF Collect, Tick, Insert, GCLock, GCCollect, GCTake, GCUnlock, PushDone, PushTimeout,
         CountProcessed, DeleteDropped, countVars
<1>. QED BY <1>1, <1>2 DEF Reassembling, outVars, OutP!vars, OutP!dispatchVars, OutP!queueVars,
                         OutP!senderVars, OutP!netVars

\* Every step of the pipeline is a step of each part or leaves it alone.
LEMMA BothParts ==
  ASSUME [PipeNext]_pipeVars
  PROVE  [Next]_vars /\ [OutP!Next]_OutP!vars
<1>1. CASE Collect /\ Reassembling
  BY <1>1, CollectSteps
<1>2. ASSUME NEW w \in Workers,
             \/ PopEvent(w) \/ PopMarker(w) \/ MakeText(w) \/ Lock(w) \/ Push(w) \/ Drop(w)
             \/ Unlock(w) \/ FinishEvent(w) \/ FinishMarker(w)
      PROVE  [Next]_vars /\ [OutP!Next]_OutP!vars
  <2>1. \/ Pop(w) \/ Distribute(w) \/ UNCHANGED vars
    BY <1>2 DEF PopEvent, PopMarker, MakeText, Lock, Push, Drop, Unlock, FinishEvent, FinishMarker
  <2>2. \/ Out!Pop(w) \/ Out!LockOutputs(w) \/ Out!PushValue(w) \/ Out!DropValue(w)
        \/ Out!UnlockOutputs(w) \/ Out!Account(w) \/ UNCHANGED <<vars, outVars>>
    BY <1>2 DEF PopEvent, PopMarker, MakeText, Lock, Push, Drop, Unlock, FinishEvent, FinishMarker
  <2>3. UNCHANGED <<vars, outVars>> => UNCHANGED OutP!vars
    BY DEF vars, countVars, outVars, OutP!vars, OutP!dispatchVars, OutP!queueVars,
           OutP!senderVars, OutP!netVars
  <2>4. OutP!WorkerStep(w) \/ UNCHANGED OutP!vars
    BY <2>2, <2>3, SameWorkerSteps DEF OutP!WorkerStep
  <2>5. [Next]_vars
    BY <2>1 DEF Next
  <2>6. [OutP!Next]_OutP!vars
    BY <2>4 DEF OutP!Next
  <2>. QED BY <2>5, <2>6
<1>3. ASSUME NEW o \in Outputs, Send(o) \/ Network(o)
      PROVE  [Next]_vars /\ [OutP!Next]_OutP!vars
  <2>1. UNCHANGED vars /\ (OutP!SenderStep(o) \/ OutP!Receive(o) \/ OutP!Break(o))
    BY <1>3, SameSenderSteps DEF Send, Network
  <2>2. OutP!Next
    BY <2>1 DEF OutP!Next, Outputs, OutP!Outputs
  <2>. QED BY <2>1, <2>2
<1>4. CASE UNCHANGED pipeVars
  BY <1>4 DEF pipeVars, vars, countVars, outVars, OutP!vars, OutP!dispatchVars, OutP!queueVars,
              OutP!senderVars, OutP!netVars
<1>. QED BY <1>1, <1>2, <1>3, <1>4 DEF PipeNext

\* The initial states of the pipeline are those of its parts.
LEMMA BothInits == PipeInit => Init /\ OutP!Init
BY DEF PipeInit, Out!Init, OutP!Init, Out!IdleWorker, OutP!IdleWorker, Out!NoValue, OutP!NoValue,
       Out!Outputs, OutP!Outputs

\* Of the outputs, in the pipeline, what is proved of them holds.
LEMMA ImplementsOutputs == PipeSpec => OutP!Spec
BY BothInits, BothParts, PTL DEF PipeSpec, OutP!Spec

\* The two instances have the same behaviours.
LEMMA SameSpec == OutP!Spec => Out!Spec
<1>1. OutP!Init => Out!Init
  BY DEF Out!Init, OutP!Init, Out!IdleWorker, OutP!IdleWorker, Out!NoValue, OutP!NoValue,
         Out!Outputs, OutP!Outputs
<1>2. UNCHANGED OutP!vars => UNCHANGED Out!vars
  BY DEF Out!vars, OutP!vars, Out!dispatchVars, OutP!dispatchVars, Out!queueVars, OutP!queueVars,
         Out!senderVars, OutP!senderVars, Out!netVars, OutP!netVars
<1>3. ASSUME [OutP!Next]_OutP!vars PROVE [Out!Next]_Out!vars
  <2>1. \A w \in Workers : OutP!WorkerStep(w) => Out!WorkerStep(w)
    BY SameWorkerSteps DEF OutP!WorkerStep, Out!WorkerStep
  <2>2. OutP!AllQuiet => UNCHANGED Out!vars
    BY <1>2 DEF OutP!AllQuiet
  <2>. QED BY <1>2, <1>3, <2>1, <2>2, SameSenderSteps
         DEF OutP!Next, Out!Next, Outputs, OutP!Outputs, Out!Outputs
<1>. QED BY <1>1, <1>3, PTL DEF OutP!Spec, Out!Spec

\* The pipeline implements reassembly and outputs: sharing the distribution
\* threads adds no behaviour to either.
THEOREM PipelineImplementsParts == PipeSpec => Spec /\ Out!Spec
BY BothInits, BothParts, ImplementsOutputs, SameSpec, PTL DEF PipeSpec, Spec
-----------------------------------------------------------------------------
(* Rounds, events and texts.                                                 *)

\* What the rounds of the outputs are: each has a value of its own.
RoundInv ==
  /\ popped \in Nat /\ markers \subseteq 1..popped
  /\ round \in [Workers -> [pc : {"idle", "lock", "push", "account"}, value : Nat, out : Nat]]
  /\ \A w \in Workers : round[w].pc = "idle" => round[w].value = 0
  /\ \A w \in Workers : round[w].pc # "idle" => round[w].value \in 1..popped
  /\ \A v, w \in Workers : round[v].value = round[w].value /\ v # w => round[w].value = 0

\* It is part of the outputs' invariant.
LEMMA Rounds == OutP!FanoutInv => RoundInv
<1> SUFFICES ASSUME OutP!DispatchOK, OutP!WorkerInv PROVE RoundInv
  BY DEF OutP!FanoutInv, OutP!IInv, OutP!StateInv, OutP!DispatchInv
<1> USE DEF OutP!DispatchOK, OutP!WorkerInv, OutP!NoValue, OutP!Values
<1>1. popped \in Nat /\ markers \subseteq 1..popped
  BY OutputsFit DEF OutP!FanoutAssumption
<1>2. round \in [Workers -> [pc : {"idle", "lock", "push", "account"}, value : Nat, out : Nat]]
  BY OutputsFit DEF OutP!FanoutAssumption
<1>3. \A w \in Workers : /\ round[w].pc = "idle" => round[w].value = 0
                         /\ round[w].pc # "idle" => round[w].value \in 1..popped
  BY <1>1, <1>2
<1>4. \A v, w \in Workers : round[v].value = round[w].value /\ v # w => round[w].value = 0
  OBVIOUS
<1>. QED BY <1>1, <1>2, <1>3, <1>4 DEF RoundInv

Texts == Events \cup {NoText, MarkerText}

\* A text for every value, and an event in hand exactly for a value that is no
\* marker.
LinkInv ==
  /\ text \in Seq(Texts) /\ Len(text) = popped
  /\ \A w \in Workers :
       (worker[w] # NoEvent) <=> (round[w].pc # "idle" /\ round[w].value \notin markers)

\* The values whose event is distributed and deleted.
Done == {v \in (1..popped) \ markers : \A w \in Workers : round[w].value # v}

\* A text is made before the thread waits for Outputs::mt; it is the marker's,
\* or what the event holds, and the texts of deleted events are what was delivered.
TextInv ==
  /\ \A w \in Workers : round[w].pc \in {"push", "account"} => text[round[w].value] # NoText
  /\ \A v \in markers : text[v] = MarkerText
  /\ \A w \in Workers : worker[w] # NoEvent => text[round[w].value] \in {NoText, heap[worker[w]]}
  /\ delivered = {text[v] : v \in Done}

PipeInv == LinkInv /\ TextInv

\* A text that is missing is no event and no marker.
LEMMA MissingText == NoText \notin Events /\ NoText # MarkerText
<1>1. NoText.host \notin Hosts
  BY ReassemblyAssumption DEF NoText
<1>2. NoText \notin Events
  BY <1>1 DEF Events
<1>3. Len(NoText.frags) # Len(MarkerText.frags)
  BY DEF NoText, MarkerText
<1>. QED BY <1>2, <1>3

\* The initial states satisfy the invariant.
LEMMA PipeInvInit == PipeInit => PipeInv
<1> SUFFICES ASSUME PipeInit PROVE PipeInv
  OBVIOUS
<1>1. LinkInv
  BY DEF PipeInit, Init, Out!Init, Out!IdleWorker, LinkInv
<1>2. Done = {}
  BY DEF PipeInit, Out!Init, Done
<1>3. TextInv
  BY <1>2 DEF PipeInit, Init, Out!Init, Out!IdleWorker, TextInv
<1>. QED BY <1>1, <1>3 DEF PipeInv

\* A new value has its text, and the others keep theirs.
LEMMA TextAppended ==
  ASSUME LinkInv, popped \in Nat, NEW x \in Texts, text' = Append(text, x)
  PROVE  /\ text' \in Seq(Texts) /\ Len(text') = popped + 1 /\ text'[popped + 1] = x
         /\ \A v \in 1..popped : text'[v] = text[v]
BY DEF LinkInv

\* The head of a sequence is one of its elements.
LEMMA HeadIsElement ==
  ASSUME NEW S, NEW s \in Seq(S), s # <<>>
  PROVE  Head(s) \in S /\ Head(s) = s[1] /\ 1 \in DOMAIN s /\ DOMAIN s \subseteq Nat \ {0}
OBVIOUS

\* What distribution threads have in hand left its map.
LEMMA HeldEvents ==
  ASSUME IInv, NEW w \in Workers, worker[w] # NoEvent
  PROVE  /\ worker[w] \in DOMAIN heap \ PendingObjects /\ worker[w] \in WorkedObjects
         /\ heap[worker[w]] \in Events
BY DEF IInv, SingleOwner, PlacesDisjoint, WorkedObjects, TypeOK

\* It is not written as long as the thread has it.
LEMMA HeldFrozen ==
  ASSUME IInv, IInv', [Next]_vars, NEW w \in Workers, worker[w] # NoEvent, worker'[w] = worker[w]
  PROVE  heap'[worker[w]] = heap[worker[w]]
<1>1. worker[w] \in DOMAIN heap \ PendingObjects
  BY HeldEvents
<1>2. worker'[w] \in DOMAIN heap'
  BY DEF IInv, SingleOwner, WorkedObjects
<1>. QED BY <1>1, <1>2, FrozenStep

\* What every step of the pipeline is to rounds and texts.
QuietRound ==
  /\ UNCHANGED <<popped, markers, text, worker, delivered>>
  /\ \A w \in Workers :
       /\ round'[w].value = round[w].value
       /\ round'[w].pc = "idle" <=> round[w].pc = "idle"
       /\ round'[w].pc \in {"push", "account"} =>
            round[w].pc \in {"push", "account"} \/ text[round[w].value] # NoText

NewRound(w, x) ==
  /\ round[w].pc = "idle"
  /\ popped' = popped + 1
  /\ round' = [round EXCEPT ![w] = [pc |-> "lock", value |-> popped + 1, out |-> 1]]
  /\ text' = Append(text, x)
  /\ delivered' = delivered

RoundEnds(w) ==
  /\ round[w].pc = "account"
  /\ round' = [round EXCEPT ![w] = [pc |-> "idle", value |-> 0, out |-> 1]]
  /\ UNCHANGED <<popped, markers, text>>

PipeStepKind ==
  \/ QuietRound
  \/ \E w \in Workers : PopEvent(w) /\ NewRound(w, NoText) /\ markers' = markers
  \/ \E w \in Workers : /\ PopMarker(w) /\ NewRound(w, MarkerText)
                        /\ markers' = markers \cup {popped + 1}
  \/ \E w \in Workers : MakeText(w)
  \/ \E w \in Workers : FinishEvent(w) /\ RoundEnds(w)
  \/ \E w \in Workers : FinishMarker(w) /\ RoundEnds(w)

\* Every step is one of these.
LEMMA PipeStepKinds ==
  ASSUME RoundInv, [PipeNext]_pipeVars
  PROVE  PipeStepKind
<1> USE DEF Out!dispatchVars, Out!queueVars, Out!senderVars, Out!netVars
<1>1. CASE Collect /\ Reassembling
  <2>1. UNCHANGED <<worker, delivered>>
    BY <1>1 DEF Collect, Tick, Insert, GCLock, GCCollect, GCTake, GCUnlock, PushDone, PushTimeout,
         CountProcessed, DeleteDropped, queueVars
  <2>. QED BY <1>1, <2>1 DEF Reassembling, outVars, QuietRound, PipeStepKind
<1>2. ASSUME NEW w \in Workers, PopEvent(w) PROVE PipeStepKind
  BY <1>2 DEF PopEvent, Pop, Out!Pop, NewRound, PipeStepKind
<1>3. ASSUME NEW w \in Workers, PopMarker(w) PROVE PipeStepKind
  <2>1. delivered' = delivered
    BY <1>3 DEF PopMarker, vars, queueVars
  <2>. QED BY <1>3, <2>1 DEF PopMarker, Out!Pop, NewRound, PipeStepKind
<1>4. ASSUME NEW w \in Workers, Lock(w) \/ Push(w) \/ Drop(w) \/ Unlock(w) PROVE PipeStepKind
  <2>1. UNCHANGED <<vars, text, popped, markers>>
    BY <1>4 DEF Lock, Push, Drop, Unlock, Out!LockOutputs, Out!PushValue, Out!DropValue,
         Out!UnlockOutputs
  <2>2. /\ \A v \in Workers \ {w} : round'[v] = round[v]
        /\ round'[w].value = round[w].value
        /\ round[w].pc # "idle" /\ round'[w].pc # "idle"
        /\ round[w].pc \in {"push", "account"} \/ text[round[w].value] # NoText
    BY <1>4 DEF RoundInv, Lock, Push, Drop, Unlock, Out!LockOutputs, Out!PushValue, Out!DropValue,
         Out!UnlockOutputs
  <2>3. UNCHANGED <<worker, delivered>>
    BY <2>1 DEF vars, queueVars
  <2>. QED BY <2>1, <2>2, <2>3 DEF QuietRound, PipeStepKind
<1>5. ASSUME NEW w \in Workers, FinishEvent(w) \/ FinishMarker(w) PROVE PipeStepKind
  BY <1>5 DEF FinishEvent, FinishMarker, Out!Account, Out!IdleWorker, Out!NoValue, RoundEnds,
       PipeStepKind
<1>6. ASSUME NEW o \in Outputs, Send(o) \/ Network(o) PROVE PipeStepKind
  <2>1. UNCHANGED <<vars, text, popped, markers, round>>
    BY <1>6 DEF Send, Network, Out!SenderStep, Out!Reconnect, Out!ReconnectFails, Out!PopValue,
         Out!Write, Out!WriteFails, Out!Receive, Out!Break
  <2>2. UNCHANGED <<worker, delivered>>
    BY <2>1 DEF vars, queueVars
  <2>. QED BY <2>1, <2>2 DEF QuietRound, PipeStepKind
<1>7. CASE UNCHANGED pipeVars
  BY <1>7 DEF pipeVars, vars, queueVars, outVars, QuietRound, PipeStepKind
<1>8. ASSUME NEW w \in Workers, MakeText(w) PROVE PipeStepKind
  BY <1>8 DEF PipeStepKind
<1>. QED BY <1>1, <1>2, <1>3, <1>4, <1>5, <1>6, <1>7, <1>8 DEF PipeNext

\* A step of the collecting threads, of the senders, or within a round.
LEMMA TextQuiet ==
  ASSUME IInv, IInv', RoundInv, PipeInv, [Next]_vars, QuietRound
  PROVE  PipeInv'
<1> USE DEF PipeInv, QuietRound
<1>1. LinkInv'
  BY DEF LinkInv, Texts
<1>2. Done' = Done
  BY DEF Done
<1>3. \A w \in Workers : round'[w].pc \in {"push", "account"} => text'[round'[w].value] # NoText
  BY DEF TextInv
<1>4. ASSUME NEW w \in Workers, worker'[w] # NoEvent
      PROVE  text'[round'[w].value] \in {NoText, heap'[worker'[w]]}
  <2>1. heap'[worker[w]] = heap[worker[w]]
    BY <1>4, HeldFrozen
  <2>. QED BY <1>4, <2>1 DEF TextInv
<1>. QED BY <1>1, <1>2, <1>3, <1>4 DEF TextInv

\* A thread starts a round, with an event or with a marker.
LEMMA TextStarts ==
  ASSUME IInv, RoundInv, PipeInv, NEW w \in Workers, NEW x \in {NoText, MarkerText}, NewRound(w, x),
         heap' = heap, \A v \in Workers \ {w} : worker'[v] = worker[v],
         \/ x = NoText /\ worker'[w] # NoEvent /\ markers' = markers
         \/ x = MarkerText /\ worker'[w] = NoEvent /\ markers' = markers \cup {popped + 1}
  PROVE  PipeInv'
<1> DEFINE n == popped + 1
<1> USE DEF PipeInv
<1>1. /\ popped \in Nat /\ popped' = n /\ markers \subseteq 1..popped
      /\ \A v \in 1..popped : v # n
      /\ 1..popped' = (1..popped) \cup {n}
  BY DEF RoundInv, NewRound
<1>2. /\ text' \in Seq(Texts) /\ Len(text') = n /\ text'[n] = x
      /\ \A v \in 1..popped : text'[v] = text[v]
  BY <1>1, TextAppended DEF NewRound, Texts
<1>3. /\ round'[w].pc = "lock" /\ round'[w].value = n
      /\ \A v \in Workers \ {w} : round'[v] = round[v]
      /\ round[w].pc = "idle" /\ round[w].value = 0
      /\ \A v \in Workers : round[v].pc # "idle" => round[v].value \in 1..popped
      /\ \A v \in Workers : round[v].value \in {0} \cup 1..popped
  BY DEF RoundInv, NewRound
<1>4. \A v \in 1..popped : v \in markers' <=> v \in markers
  BY <1>1
<1>5. LinkInv'
  <2>1. \A v \in Workers \ {w} :
          (worker'[v] # NoEvent) <=> (round'[v].pc # "idle" /\ round'[v].value \notin markers')
    BY <1>3, <1>4 DEF LinkInv
  <2>2. (worker'[w] # NoEvent) <=> (round'[w].pc # "idle" /\ round'[w].value \notin markers')
    <3>1. NoText # MarkerText /\ n \notin markers
      BY <1>1, MissingText
    <3>. QED BY <1>3, <3>1
  <2>. QED BY <1>1, <1>2, <2>1, <2>2 DEF LinkInv, Texts
<1>6. Done' = Done
  <2>1. ASSUME NEW v \in Done' PROVE v \in Done
    <3>1. v # n /\ v \in 1..popped
      BY <1>1, <1>3 DEF Done
    <3>. QED BY <1>1, <1>3, <1>4, <3>1 DEF Done
  <2>2. ASSUME NEW v \in Done PROVE v \in Done'
    <3>1. v \in 1..popped /\ v # n
      BY <1>1 DEF Done
    <3>. QED BY <1>1, <1>3, <1>4, <3>1 DEF Done
  <2>. QED BY <2>1, <2>2
<1>7. \A v \in Workers : round'[v].pc \in {"push", "account"} => text'[round'[v].value] # NoText
  BY <1>2, <1>3 DEF TextInv
<1>8. \A v \in markers' : text'[v] = MarkerText
  BY <1>1, <1>2, MissingText DEF TextInv
<1>9. ASSUME NEW v \in Workers, worker'[v] # NoEvent
      PROVE  text'[round'[v].value] \in {NoText, heap'[worker'[v]]}
  <2>1. CASE v = w
    BY <1>2, <1>3, <1>9, <2>1
  <2>2. CASE v # w
    <3>1. round[v].value \in 1..popped
      BY <1>3, <1>9, <2>2 DEF LinkInv
    <3>. QED BY <1>2, <1>3, <1>9, <2>2, <3>1 DEF TextInv
  <2>. QED BY <2>1, <2>2
<1>10. delivered' = {text'[v] : v \in Done'}
  <2>1. \A v \in Done : text'[v] = text[v]
    BY <1>2 DEF Done
  <2>2. {text'[v] : v \in Done'} = {text[v] : v \in Done}
    BY ONLY <1>6, <2>1
  <2>3. delivered' = delivered /\ delivered = {text[v] : v \in Done}
    BY DEF TextInv, NewRound
  <2>. QED BY ONLY <2>2, <2>3
<1>. QED BY <1>5, <1>7, <1>8, <1>9, <1>10 DEF TextInv

\* The text of a value that waits is made from the event in hand.
LEMMA TextMade ==
  ASSUME IInv, RoundInv, PipeInv, NEW w \in Workers, MakeText(w)
  PROVE  /\ PipeInv'
         /\ Done' = Done /\ UNCHANGED <<vars, popped, markers, round>>
         /\ \A v \in 1..popped : v # round[w].value => text'[v] = text[v]
<1> DEFINE n == round[w].value
<1> USE DEF PipeInv
<1>1. /\ n \in 1..popped /\ text[n] = NoText /\ round[w].pc = "lock"
      /\ text' = [text EXCEPT ![n] = JSONOf(w)]
      /\ UNCHANGED <<vars, popped, markers, round>>
  BY DEF MakeText, outVars, RoundInv
<1>2. UNCHANGED <<heap, worker, delivered>>
  BY <1>1 DEF vars, storeVars, queueVars
<1>3. worker[w] # NoEvent /\ JSONOf(w) = heap[worker[w]] /\ heap[worker[w]] \in Events
  <2>1. n \notin markers
    BY <1>1, MissingText DEF TextInv
  <2>2. worker[w] # NoEvent
    BY <1>1, <2>1 DEF LinkInv
  <2>. QED BY <2>2, HeldEvents DEF JSONOf
<1>4. /\ text' \in Seq(Texts) /\ Len(text') = popped /\ text'[n] = heap[worker[w]]
      /\ \A v \in 1..popped : v # n => text'[v] = text[v]
  <2>1. PICK s \in Seq(Texts) : s = text
    BY DEF LinkInv
  <2>2. PICK x \in Texts : x = JSONOf(w)
    BY <1>3 DEF Texts
  <2>3. n \in 1..Len(s) /\ Len(s) = popped
    BY <1>1, <2>1 DEF LinkInv
  <2>4. LET u == [s EXCEPT ![n] = x]
        IN  /\ u \in Seq(Texts) /\ Len(u) = Len(s) /\ u[n] = x
            /\ \A v \in 1..Len(s) : v # n => u[v] = s[v]
    BY ONLY <2>3
  <2>. QED BY <1>1, <1>3, <2>1, <2>2, <2>3, <2>4
<1>5. Done' = Done /\ n \notin Done /\ Done \subseteq 1..popped
  BY <1>1 DEF Done
<1>6. LinkInv'
  BY <1>1, <1>2, <1>4 DEF LinkInv, Texts
<1>7. \A v \in Workers : round'[v].pc \in {"push", "account"} => text'[round'[v].value] # NoText
  BY <1>1, <1>3, <1>4, MissingText DEF TextInv, RoundInv
<1>8. \A v \in markers' : text'[v] = MarkerText
  BY <1>1, <1>4, MissingText DEF TextInv, RoundInv
<1>9. ASSUME NEW v \in Workers, worker'[v] # NoEvent
      PROVE  text'[round'[v].value] \in {NoText, heap'[worker'[v]]}
  <2>1. CASE v = w
    BY <1>1, <1>2, <1>4, <2>1
  <2>2. CASE v # w
    <3>1. round[v].value \in 1..popped /\ round[v].value # n
      BY <1>1, <1>2, <1>9, <2>2 DEF RoundInv, LinkInv
    <3>. QED BY <1>1, <1>2, <1>4, <1>9, <3>1 DEF TextInv
  <2>. QED BY <2>1, <2>2
<1>10. delivered' = {text'[v] : v \in Done'}
  <2>1. \A v \in Done : text'[v] = text[v]
    BY <1>4, <1>5
  <2>. QED BY <1>2, <1>5, <2>1 DEF TextInv
<1>11. TextInv'
  BY <1>7, <1>8, <1>9, <1>10 DEF TextInv
<1>. QED BY <1>1, <1>4, <1>5, <1>6, <1>11

\* What the end of a round does to the values that are done.
LEMMA DoneGrows ==
  ASSUME RoundInv, NEW w \in Workers, RoundEnds(w)
  PROVE  /\ round[w].value \in 1..popped
         /\ round[w].value \in markers => Done' = Done
         /\ round[w].value \notin markers => Done' = Done \cup {round[w].value}
<1> DEFINE n == round[w].value
<1>1. /\ n \in 1..popped /\ \A v \in Workers \ {w} : round[v].value # n /\ round'[v] = round[v]
      /\ round'[w].value = 0 /\ 0 \notin 1..popped
      /\ UNCHANGED <<popped, markers>>
  BY DEF RoundInv, RoundEnds
<1>2. ASSUME NEW v PROVE v \in Done' <=> v \in Done \/ (v = n /\ n \notin markers)
  <2>1. CASE v = n
    BY <1>1, <2>1 DEF Done
  <2>2. CASE v # n
    BY <1>1, <2>2 DEF Done
  <2>. QED BY <2>1, <2>2
<1>. QED BY <1>1, <1>2

\* The thread that ends a round with an event delivers what the text shows.
LEMMA TextEnds ==
  ASSUME IInv, IInv', RoundInv, PipeInv, [Next]_vars, NEW w \in Workers, RoundEnds(w),
         FinishEvent(w) \/ FinishMarker(w)
  PROVE  /\ PipeInv'
         /\ FinishEvent(w) => text[round[w].value] = heap[worker[w]] /\ round[w].value \notin markers
         /\ FinishMarker(w) => round[w].value \in markers
<1> DEFINE n == round[w].value
<1> USE DEF PipeInv
<1>1. /\ n \in 1..popped /\ \A v \in Workers \ {w} : round'[v] = round[v]
      /\ round'[w].pc = "idle" /\ round'[w].value = 0
      /\ round[w].pc = "account" /\ text' = text /\ UNCHANGED <<popped, markers>>
  BY DEF RoundInv, RoundEnds
<1>2. /\ worker'[w] = NoEvent /\ \A v \in Workers \ {w} : worker'[v] = worker[v]
      /\ FinishEvent(w) => worker[w] # NoEvent /\ delivered' = delivered \cup {heap[worker[w]]}
      /\ FinishMarker(w) => worker[w] = NoEvent /\ delivered' = delivered
  BY DEF FinishEvent, FinishMarker, Distribute, vars, queueVars, IInv, TypeOK
<1>3. FinishEvent(w) => text[n] = heap[worker[w]] /\ n \notin markers
  BY <1>1, <1>2 DEF TextInv, LinkInv
<1>4. FinishMarker(w) => n \in markers
  BY <1>1, <1>2 DEF LinkInv
<1>5. LinkInv'
  BY <1>1, <1>2 DEF LinkInv, Texts
<1>6. \A v \in Workers : round'[v].pc \in {"push", "account"} => text'[round'[v].value] # NoText
  BY <1>1 DEF TextInv
<1>7. ASSUME NEW v \in Workers, worker'[v] # NoEvent
      PROVE  text'[round'[v].value] \in {NoText, heap'[worker'[v]]}
  <2>1. v # w /\ worker'[v] = worker[v] /\ round'[v] = round[v]
    BY <1>1, <1>2, <1>7
  <2>2. heap'[worker[v]] = heap[worker[v]]
    BY <1>7, <2>1, HeldFrozen
  <2>. QED BY <1>1, <1>7, <2>1, <2>2 DEF TextInv
<1>8. delivered' = {text'[v] : v \in Done'}
  <2>1. CASE FinishEvent(w)
    <3>1. Done' = Done \cup {n} /\ delivered' = delivered \cup {text[n]}
      BY <1>2, <1>3, <2>1, DoneGrows
    <3>. QED BY <1>1, <3>1 DEF TextInv
  <2>2. CASE FinishMarker(w)
    BY <1>1, <1>2, <1>4, <2>2, DoneGrows DEF TextInv
  <2>. QED BY <2>1, <2>2
<1>9. TextInv'
  BY <1>1, <1>6, <1>7, <1>8 DEF TextInv
<1>. QED BY <1>3, <1>4, <1>5, <1>9

\* Every step keeps the invariant.
LEMMA PipeInvStep ==
  ASSUME IInv, IInv', RoundInv, PipeInv, [PipeNext]_pipeVars
  PROVE  PipeInv'
<1>1. [Next]_vars
  BY BothParts
<1>2. CASE QuietRound
  BY <1>1, <1>2, TextQuiet
<1>3. ASSUME NEW w \in Workers, PopEvent(w), NewRound(w, NoText), markers' = markers PROVE PipeInv'
  <2>1. heap' = heap /\ \A v \in Workers \ {w} : worker'[v] = worker[v]
    BY <1>3 DEF PopEvent, Pop, storeVars, IInv, TypeOK
  <2>2. worker'[w] # NoEvent
    <3>1. PICK q \in Seq(Objects) : q = eventsQueue
      BY DEF IInv, TypeOK
    <3>2. q # <<>> /\ worker'[w] = Head(q)
      BY <1>3, <3>1 DEF PopEvent, Pop, IInv, TypeOK
    <3>3. Head(q) \in Objects
      BY ONLY <3>2, HeadIsElement
    <3>. QED BY <3>2, <3>3
  <2>. QED BY <1>3, <2>1, <2>2, TextStarts
<1>4. ASSUME NEW w \in Workers, PopMarker(w), NewRound(w, MarkerText), markers' = markers \cup {popped + 1}
      PROVE  PipeInv'
  <2>1. heap' = heap /\ worker' = worker /\ worker[w] = NoEvent
    BY <1>4 DEF PopMarker, vars, storeVars, queueVars
  <2>. QED BY <1>4, <2>1, TextStarts
<1>5. ASSUME NEW w \in Workers, MakeText(w) PROVE PipeInv'
  BY <1>5, TextMade
<1>6. ASSUME NEW w \in Workers, FinishEvent(w) \/ FinishMarker(w), RoundEnds(w) PROVE PipeInv'
  BY <1>1, <1>6, TextEnds
<1>. QED BY <1>2, <1>3, <1>4, <1>5, <1>6, PipeStepKinds DEF PipeStepKind

\* It always holds, with those of the parts.
LEMMA PipeInvariant == PipeSpec => [](IInv /\ ContentInv /\ LineOrder /\ OutP!FanoutInv /\ PipeInv)
<1>1. PipeSpec => Spec /\ OutP!Spec
  BY PipelineImplementsParts, ImplementsOutputs, PTL
<1>2. OutP!Spec => []OutP!FanoutInv
  BY OutP!FanoutInvariant, OutputsFit
<1>3. IInv /\ IInv' /\ OutP!FanoutInv /\ PipeInv /\ [PipeNext]_pipeVars => PipeInv'
  BY Rounds, PipeInvStep
<1>. QED BY <1>1, <1>2, <1>3, PipeInvInit, InductiveInvariant, ContentInvariant, LinesLeaveInOrder, PTL
         DEF PipeSpec

\* The types, and where the two parts meet: a thread has an event in hand
\* exactly while it is busy with a value that is no marker.
THEOREM PipeTypeCorrect == PipeSpec => []PipeTypeOK
<1>1. OutP!FanoutInv => Out!TypeOK
  <2>1. OutP!FanoutInv => OutP!TypeOK
    BY OutP!TypeParts, OutputsFit
       DEF OutP!FanoutInv, OutP!IInv, OutP!StateInv, OutP!DispatchInv
  <2>2. OutP!TypeOK => Out!TypeOK
    BY DEF OutP!TypeOK, Out!TypeOK, OutP!Values, Out!Values, OutP!NoValue, Out!NoValue,
           OutP!Outputs, Out!Outputs
  <2>. QED BY <2>1, <2>2
<1>2. ASSUME LinkInv
      PROVE  /\ Len(text) = popped
             /\ \A v \in 1..popped : text[v] \in Events \cup {NoText, MarkerText}
  <2>1. text \in Seq(Texts) /\ Len(text) = popped
    BY <1>2 DEF LinkInv
  <2>. QED BY <2>1 DEF Texts
<1>3. IInv /\ OutP!FanoutInv /\ PipeInv => PipeTypeOK
  BY <1>1, <1>2 DEF IInv, PipeInv, LinkInv, PipeTypeOK
<1>. QED BY <1>3, PipeInvariant, PTL

\* The text that outputs get of an event is the event with all its lines, and
\* what is deleted after distribution is what the texts show: receivers that go
\* on inserting meanwhile, without a lock in common, do not change it.
THEOREM WholeTexts == PipeSpec => []TextsAreWhole
<1>1. ASSUME RoundInv, PipeInv PROVE TextsAreWhole
  <2>1. ASSUME NEW v \in (1..popped) \ markers, NEW w \in BusyWith(v)
        PROVE  text[v] \in {NoText, heap[worker[w]]}
    BY <1>1, <2>1 DEF BusyWith, PipeInv, LinkInv, TextInv
  <2>2. Done = {u \in (1..popped) \ markers : BusyWith(u) = {}}
    BY <1>1 DEF Done, BusyWith, RoundInv
  <2>. QED BY <1>1, <2>1, <2>2 DEF TextsAreWhole, PipeInv, TextInv
<1>2. OutP!FanoutInv /\ PipeInv => TextsAreWhole
  BY <1>1, Rounds
<1>. QED BY <1>2, PipeInvariant, PTL
-----------------------------------------------------------------------------
(* In which order hosts read the lines of an audit event.                    *)

\* The values that stand for an event, and that event: in the hand of its
\* thread, or what its text shows once the thread is done with it.
EventValues == (1..popped) \ markers
EventOf(v) ==
  IF v \in Done THEN text[v]
  ELSE heap[worker[CHOOSE w \in Workers : round[w].value = v]]

\* Events of one key are popped in the order of their lines, and those that are
\* not popped yet come later.
ValueOrder ==
  /\ \A u, v \in EventValues : u < v => InTurn(EventOf(u), EventOf(v))
  /\ \A u \in EventValues : \A o \in DOMAIN heap \ WorkedObjects : InTurn(EventOf(u), heap[o])

\* The event of the value in the hand of a thread.
LEMMA EventInHand ==
  ASSUME RoundInv, LinkInv, NEW w \in Workers, worker[w] # NoEvent
  PROVE  /\ round[w].value \in EventValues /\ round[w].value \notin Done
         /\ EventOf(round[w].value) = heap[worker[w]]
<1>1. round[w].value \in EventValues /\ round[w].value # 0
  BY DEF RoundInv, LinkInv, EventValues
<1>2. round[w].value \notin Done
  BY DEF Done
<1>3. (CHOOSE v \in Workers : round[v].value = round[w].value) = w
  BY <1>1 DEF RoundInv
<1>. QED BY <1>1, <1>2, <1>3 DEF EventOf

\* A value is done, or in the hand of a thread.
LEMMA EventCases ==
  ASSUME RoundInv, LinkInv, NEW u \in EventValues, u \notin Done
  PROVE  \E w \in Workers : worker[w] # NoEvent /\ round[w].value = u
<1>1. PICK w \in Workers : round[w].value = u
  BY DEF Done, EventValues
<1>2. round[w].pc # "idle"
  BY <1>1 DEF RoundInv, EventValues
<1>. QED BY <1>1, <1>2 DEF LinkInv, EventValues

\* Whatever the value, its event is one of those that reassembly made.
LEMMA EventIsEvent ==
  ASSUME IInv, RoundInv, PipeInv, NEW u \in EventValues
  PROVE  EventOf(u) \in AllEvents
<1>1. CASE u \in Done
  BY <1>1 DEF EventOf, PipeInv, TextInv, AllEvents
<1>2. CASE u \notin Done
  <2>1. PICK w \in Workers : worker[w] # NoEvent /\ round[w].value = u
    BY <1>2, EventCases DEF PipeInv
  <2>2. EventOf(u) = heap[worker[w]]
    BY <2>1, EventInHand DEF PipeInv
  <2>. QED BY <2>1, <2>2, HeldEvents DEF AllEvents, LiveEvents
<1>. QED BY <1>1, <1>2

\* A text that is made shows the event of its value.
LEMMA TextShowsEvent ==
  ASSUME RoundInv, PipeInv, NEW u \in EventValues, text[u] # NoText
  PROVE  text[u] = EventOf(u)
<1>1. CASE u \in Done
  BY <1>1 DEF EventOf
<1>2. CASE u \notin Done
  <2>1. PICK w \in Workers : worker[w] # NoEvent /\ round[w].value = u
    BY <1>2, EventCases DEF PipeInv
  <2>. QED BY <2>1, EventInHand DEF PipeInv, TextInv
<1>. QED BY <1>1, <1>2

\* The event of a value after a step.
LEMMA EventAfter ==
  ASSUME RoundInv', LinkInv', NEW u \in EventValues'
  PROVE  /\ u \in Done' => EventOf(u)' = text'[u]
         /\ \A w \in Workers : worker'[w] # NoEvent /\ round'[w].value = u
              => EventOf(u)' = heap'[worker'[w]]
<1>1. u \in Done' => EventOf(u)' = text'[u]
  BY DEF EventOf
<1>2. ASSUME NEW w \in Workers, worker'[w] # NoEvent, round'[w].value = u
      PROVE  EventOf(u)' = heap'[worker'[w]]
  <2>1. u # 0 /\ u \notin Done'
    BY <1>2 DEF EventValues, RoundInv, Done
  <2>2. (CHOOSE v \in Workers : round'[v].value = u) = w
    BY <1>2, <2>1 DEF RoundInv
  <2>. QED BY <2>1, <2>2 DEF EventOf
<1>. QED BY <1>1, <1>2

\* What a step does to a value: the thread goes on with it, or is done with it
\* and leaves its text; the text of what is done stays.
LEMMA ValueSteps ==
  ASSUME IInv, IInv', RoundInv, PipeInv, [PipeNext]_pipeVars, NEW u \in EventValues
  PROVE  /\ u \in EventValues'
         /\ u \in Done => u \in Done' /\ text'[u] = text[u]
         /\ \A w \in Workers : worker[w] # NoEvent /\ round[w].value = u =>
              \/ worker'[w] = worker[w] /\ round'[w].value = u
              \/ u \in Done' /\ text'[u] = heap[worker[w]]
<1> DEFINE Goal == /\ u \in EventValues'
                   /\ u \in Done => u \in Done' /\ text'[u] = text[u]
                   /\ \A w \in Workers : worker[w] # NoEvent /\ round[w].value = u =>
                        \/ worker'[w] = worker[w] /\ round'[w].value = u
                        \/ u \in Done' /\ text'[u] = heap[worker[w]]
<1> HIDE DEF Goal
<1>0. u \in 1..popped /\ popped \in Nat /\ u # 0 /\ u # popped + 1 /\ [Next]_vars
  BY BothParts DEF EventValues, RoundInv
<1>1. ASSUME QuietRound PROVE Goal
  BY <1>1 DEF QuietRound, EventValues, Done, Goal
<1>2. ASSUME NEW w \in Workers, NEW x \in {NoText, MarkerText}, NewRound(w, x),
             \A v \in Workers \ {w} : worker'[v] = worker[v], worker[w] = NoEvent,
             markers' \subseteq markers \cup {popped + 1}
      PROVE  Goal
  <2>1. u \in EventValues'
    BY <1>0, <1>2 DEF EventValues, NewRound
  <2>2. text'[u] = text[u]
    BY <1>0, <1>2, TextAppended DEF NewRound, Texts, PipeInv
  <2>3. round'[w].value # u /\ \A v \in Workers \ {w} : round'[v] = round[v]
    BY <1>0, <1>2 DEF NewRound, RoundInv
  <2>4. u \in Done => u \in Done'
    BY <2>1, <2>3 DEF Done, EventValues
  <2>. QED BY <1>2, <2>1, <2>2, <2>3, <2>4 DEF Goal
<1>3. ASSUME NEW w \in Workers, MakeText(w) PROVE Goal
  <2>1. /\ Done' = Done /\ UNCHANGED <<worker, popped, markers, round>>
        /\ \A v \in 1..popped : v # round[w].value => text'[v] = text[v]
    BY <1>3, TextMade DEF vars, queueVars
  <2>2. u \in Done => u # round[w].value
    BY DEF Done
  <2>. QED BY <1>0, <2>1, <2>2 DEF EventValues, Goal
<1>4. ASSUME NEW w \in Workers, RoundEnds(w), FinishEvent(w) \/ FinishMarker(w) PROVE Goal
  <2>1. /\ FinishEvent(w) => text[round[w].value] = heap[worker[w]] /\ round[w].value \notin markers
        /\ FinishMarker(w) => round[w].value \in markers
    BY <1>0, <1>4, TextEnds
  <2>2. text' = text /\ u \in EventValues' /\ \A v \in Workers \ {w} : round'[v] = round[v]
    BY <1>4 DEF RoundEnds, EventValues, RoundInv
  <2>3. Done \subseteq Done' /\ (round[w].value \notin markers => round[w].value \in Done')
    BY <1>4, DoneGrows
  <2>4. \A v \in Workers \ {w} : worker'[v] = worker[v]
    BY <1>4 DEF FinishEvent, FinishMarker, Distribute, vars, queueVars, IInv, TypeOK
  <2>5. round[w].value = u => FinishEvent(w)
    BY <1>4, <2>1 DEF EventValues
  <2>. QED BY <2>1, <2>2, <2>3, <2>4, <2>5 DEF Goal
<1>5. ASSUME NEW w \in Workers, PopEvent(w) \/ PopMarker(w)
      PROVE  worker[w] = NoEvent /\ \A v \in Workers \ {w} : worker'[v] = worker[v]
  BY <1>5 DEF PopEvent, PopMarker, Pop, vars, queueVars, IInv, TypeOK
<1>6. Goal
  BY <1>1, <1>2, <1>3, <1>4, <1>5, PipeStepKinds DEF PipeStepKind
<1>. QED BY <1>6 DEF Goal

\* The event of a value stays what it is.
LEMMA EventStays ==
  ASSUME IInv, IInv', RoundInv, RoundInv', PipeInv, PipeInv', [PipeNext]_pipeVars,
         NEW u \in EventValues
  PROVE  u \in EventValues' /\ EventOf(u)' = EventOf(u)
<1>1. u \in EventValues'
  BY ValueSteps
<1>2. CASE u \in Done
  <2>1. u \in Done' /\ text'[u] = text[u]
    BY <1>2, ValueSteps
  <2>2. EventOf(u) = text[u]
    BY <1>2 DEF EventOf
  <2>. QED BY <1>1, <2>1, <2>2, EventAfter DEF PipeInv
<1>3. CASE u \notin Done
  <2>1. PICK w \in Workers : worker[w] # NoEvent /\ round[w].value = u
    BY <1>3, EventCases DEF PipeInv
  <2>2. EventOf(u) = heap[worker[w]]
    BY <2>1, EventInHand DEF PipeInv
  <2>3. CASE worker'[w] = worker[w] /\ round'[w].value = u
    <3>1. heap'[worker[w]] = heap[worker[w]]
      BY <2>1, <2>3, BothParts, HeldFrozen
    <3>2. EventOf(u)' = heap'[worker'[w]]
      BY <1>1, <2>1, <2>3, EventAfter DEF PipeInv
    <3>. QED BY <1>1, <2>2, <2>3, <3>1, <3>2
  <2>4. CASE u \in Done' /\ text'[u] = heap[worker[w]]
    BY <1>1, <2>2, <2>4, EventAfter DEF PipeInv
  <2>. QED BY <2>1, <2>3, <2>4, ValueSteps
<1>. QED BY <1>2, <1>3

\* A thread keeps an event in hand until it is deleted.
LEMMA HeldTillDeleted ==
  ASSUME IInv, [Next]_vars, NEW o \in WorkedObjects, o \in DOMAIN heap'
  PROVE  o \in WorkedObjects'
<1>1. PICK w \in Workers : o = worker[w] /\ o # NoEvent
  BY DEF WorkedObjects
<1>2. worker \in [Workers -> Pointers]
  BY DEF IInv, TypeOK
<1>3. CASE \E v \in Workers : Pop(v)
  BY <1>1, <1>2, <1>3 DEF Pop, WorkedObjects
<1>4. CASE \E v \in Workers : Distribute(v)
  BY <1>1, <1>2, <1>4 DEF Distribute, Without, WorkedObjects
<1>5. CASE ~\E v \in Workers : Pop(v) \/ Distribute(v)
  <2>1. worker' = worker
    BY <1>5 DEF Next, Tick, Insert, GCLock, GCCollect, GCTake, GCUnlock, PushDone, PushTimeout,
         CountProcessed, DeleteDropped, vars, queueVars
  <2>. QED BY <1>1, <2>1 DEF WorkedObjects
<1>. QED BY <1>3, <1>4, <1>5

\* What was not popped before a step, and is not after it, was made of lines
\* that follow those of the values.
LEMMA LaterEvents ==
  ASSUME IInv, ContentInv, RoundInv, PipeInv, ValueOrder, [Next]_vars, NEW u \in EventValues,
         NEW o \in DOMAIN heap' \ WorkedObjects'
  PROVE  InTurn(EventOf(u), heap'[o])
<1>1. ASSUME o \in DOMAIN heap, heap'[o] = heap[o] PROVE InTurn(EventOf(u), heap'[o])
  BY <1>1, HeldTillDeleted DEF ValueOrder
<1>2. CASE NothingMoves \/ \E p \in DOMAIN heap : OneLeaves(p)
  BY <1>1, <1>2 DEF NothingMoves, OneLeaves, Without
<1>3. ASSUME NEW r \in Receivers, NEW h \in Hosts, NEW e \in EventIds, NEW ty \in Types,
             Insert(r, h, e, ty)
      PROVE  InTurn(EventOf(u), heap'[o])
  <2> DEFINE q == Target(h, e)
             n == Len(lines) + 1
             base == IF q \in DOMAIN heap THEN heap[q] ELSE NewEvent(h, e)
  <2>1. LineEnters(h, e, ty, q)
    BY <1>3, InsertEffect
  <2>2. CASE o # q
    BY <1>1, <2>1, <2>2 DEF LineEnters
  <2>3. CASE o = q
    <3>1. /\ heap'[o] = Extended(base) /\ base \in Events
          /\ o \in DOMAIN heap => base = heap[o]
          /\ o \notin DOMAIN heap => base.frags = <<>>
      BY <2>1, <2>3 DEF LineEnters, NewEvent, Events, IInv, TypeOK
    <3>2. /\ Members(heap'[o].frags) = Members(base.frags) \cup {n}
          /\ heap'[o].host = base.host /\ heap'[o].id = base.id
      BY <3>1, ExtendedFrags DEF IInv
    <3>3. \A a \in Members(EventOf(u).frags) : a < n
      <4>1. Belong(EventOf(u))
        BY EventIsEvent DEF ContentInv, FragmentsBelongTogether
      <4>2. Len(lines) \in Nat /\ DOMAIN lines = 1..Len(lines)
        BY <2>1, LinesAfterEnter DEF IInv
      <4>. QED BY <4>1, <4>2 DEF Belong, Members
    <3>4. ASSUME EventOf(u).host = base.host, EventOf(u).id = base.id,
                 NEW a \in Members(EventOf(u).frags), NEW b \in Members(base.frags)
          PROVE  a < b
      <4>1. o \in DOMAIN heap /\ base = heap[o]
        BY <3>1, <3>4 DEF Members
      <4>2. o \notin WorkedObjects
        BY <1>3, <4>1, HeldTillDeleted
      <4>. QED BY <3>4, <4>1, <4>2 DEF ValueOrder, InTurn
    <3> HIDE DEF base, n
    <3>. QED BY <3>2, <3>3, <3>4 DEF InTurn
  <2>. QED BY <2>2, <2>3
<1>. QED BY <1>2, <1>3, StepKinds DEF StepKind

\* A step makes at most one event a value: the first of the queue, which comes
\* before all the others of its key that are not popped yet.
LEMMA NewValue ==
  ASSUME IInv, IInv', RoundInv, RoundInv', PipeInv, PipeInv', LineOrder, [PipeNext]_pipeVars,
         NEW n \in EventValues', n \notin EventValues
  PROVE  /\ n = popped + 1
         /\ \E o \in QueuedObjects : EventOf(n)' = heap[o]
         /\ \A o \in DOMAIN heap' \ WorkedObjects' : InTurn(EventOf(n)', heap'[o])
<1>1. PICK w \in Workers : PopEvent(w) /\ NewRound(w, NoText) /\ n = popped + 1
  <2>1. QuietRound => EventValues' = EventValues
    BY DEF QuietRound, EventValues
  <2>2. \A v \in Workers : MakeText(v) \/ RoundEnds(v) => EventValues' = EventValues
    BY DEF MakeText, outVars, RoundEnds, EventValues
  <2>3. ASSUME NEW v \in Workers, NEW x, NewRound(v, x), markers \subseteq markers'
        PROVE  n = popped + 1 /\ markers' # markers \cup {popped + 1}
    BY <2>3 DEF NewRound, EventValues, RoundInv
  <2>. QED BY <2>1, <2>2, <2>3, PipeStepKinds DEF PipeStepKind
<1>2. PICK q \in Seq(Objects) : q = eventsQueue
  BY DEF IInv, TypeOK
<1>3. /\ q # <<>> /\ heap' = heap /\ auditEvents' = auditEvents /\ worker'[w] = Head(q)
      /\ thread' = thread /\ gcBatch' = gcBatch /\ round'[w].value = n
  BY <1>1, <1>2 DEF PopEvent, Pop, storeVars, lockVars, NewRound, RoundInv, IInv, TypeOK
<1>4. /\ Head(q) \in Objects /\ Head(q) = q[1] /\ 1 \in DOMAIN q
      /\ DOMAIN q \subseteq Nat \ {0}
  BY ONLY <1>3, HeadIsElement, Zenon
<1>5. Head(q) \in QueuedObjects /\ Head(q) # NoEvent /\ Head(q) \in WorkedObjects'
  BY <1>2, <1>3, <1>4 DEF QueuedObjects, WorkedObjects
<1>6. EventOf(n)' = heap[Head(q)]
  BY <1>3, <1>5, EventAfter DEF PipeInv
<1>7. ASSUME NEW o \in DOMAIN heap' \ WorkedObjects' PROVE InTurn(heap[Head(q)], heap[o])
  <2>1. o \in DOMAIN heap /\ o \notin WorkedObjects /\ o # Head(q)
    BY <1>3, <1>5, <1>7, HeldTillDeleted, BothParts
  <2>2. o \in PendingObjects \cup Leaving \cup QueuedObjects
    BY <2>1 DEF IInv, SingleOwner, Leaving
  <2>3. CASE o \in PendingObjects
    BY <1>5, <2>3 DEF LineOrder, IInv, SingleOwner, PlacesDisjoint
  <2>4. CASE o \in Leaving
    BY <1>5, <2>4 DEF LineOrder
  <2>5. CASE o \in QueuedObjects
    <3>1. PICK k \in DOMAIN q : o = q[k]
      BY <1>2, <2>5 DEF QueuedObjects
    <3>2. k \in Nat /\ 1 < k
      BY <1>4, <2>1, <3>1
    <3>. QED BY <1>2, <1>4, <3>1, <3>2 DEF LineOrder
  <2>. QED BY <2>2, <2>3, <2>4, <2>5
<1>. QED BY <1>1, <1>3, <1>5, <1>6, <1>7

\* Every step keeps the order of the values.
LEMMA ValueOrderStep ==
  ASSUME IInv, IInv', ContentInv, LineOrder, RoundInv, RoundInv', PipeInv, PipeInv', ValueOrder,
         [PipeNext]_pipeVars
  PROVE  ValueOrder'
<1>1. \A u \in EventValues : u \in EventValues' /\ EventOf(u)' = EventOf(u)
  BY EventStays
<1>2. \A u \in EventValues : u \in 1..popped
  BY DEF EventValues
<1>3. popped \in Nat /\ [Next]_vars
  BY BothParts DEF RoundInv
<1>4. ASSUME NEW u \in EventValues', NEW v \in EventValues', u < v
      PROVE  InTurn(EventOf(u)', EventOf(v)')
  <2>1. CASE v \in EventValues
    <3>1. u \in EventValues
      BY <1>2, <1>3, <1>4, <2>1, NewValue
    <3>. QED BY <1>1, <1>4, <2>1, <3>1 DEF ValueOrder
  <2>2. CASE v \notin EventValues
    <3>1. v = popped + 1 /\ \E o \in QueuedObjects : EventOf(v)' = heap[o]
      BY <2>2, NewValue
    <3>2. u \in EventValues
      BY <1>3, <1>4, <3>1, NewValue
    <3>3. QueuedObjects \subseteq DOMAIN heap \ WorkedObjects
      BY DEF IInv, SingleOwner, PlacesDisjoint
    <3>. QED BY <1>1, <3>1, <3>2, <3>3 DEF ValueOrder
  <2>. QED BY <2>1, <2>2
<1>5. ASSUME NEW u \in EventValues', NEW o \in DOMAIN heap' \ WorkedObjects'
      PROVE  InTurn(EventOf(u)', heap'[o])
  <2>1. CASE u \in EventValues
    BY <1>1, <1>3, <2>1, LaterEvents
  <2>2. CASE u \notin EventValues
    BY <2>2, NewValue
  <2>. QED BY <2>1, <2>2
<1>. QED BY <1>4, <1>5 DEF ValueOrder, InTurn

\* No event is popped yet.
LEMMA ValueOrderInit == PipeInit => ValueOrder
BY DEF PipeInit, Out!Init, ValueOrder, EventValues

\* What a queue accepted has its text.
LEMMA AcceptedHasText ==
  ASSUME IInv, RoundInv, OutP!FanoutInv, PipeInv, NEW o \in Outputs,
         NEW u \in OutP!Elements(accepted[o])
  PROVE  u \in 1..popped /\ text[u] # NoText
<1>1. /\ u \in 1..popped
      /\ \A w \in Workers : round[w].pc = "lock" => round[w].value # u
  BY DEF OutP!FanoutInv, OutP!IInv, OutP!AcceptInv, OutP!Outputs, Outputs
<1>2. CASE u \in markers
  BY <1>1, <1>2, MissingText DEF PipeInv, TextInv
<1>3. CASE u \in Done
  BY <1>1, <1>3, MissingText DEF PipeInv, TextInv, IInv, TypeOK
<1>4. CASE u \notin markers /\ u \notin Done
  <2>1. PICK w \in Workers : round[w].value = u
    BY <1>1, <1>4 DEF Done
  <2>2. round[w].pc \in {"push", "account"}
    BY <1>1, <2>1 DEF RoundInv
  <2>. QED BY <1>1, <2>1, <2>2 DEF PipeInv, TextInv
<1>. QED BY <1>2, <1>3, <1>4

\* The text of a marker has no line, and that of an event is the event.
LEMMA LinesOfText ==
  ASSUME IInv, ContentInv, RoundInv, OutP!FanoutInv, PipeInv, NEW o \in Outputs,
         NEW u \in OutP!Elements(accepted[o]), NEW a \in Members(text[u].frags)
  PROVE  u \in EventValues /\ text[u] = EventOf(u) /\ a \in Int
<1>1. u \in 1..popped /\ text[u] # NoText
  BY AcceptedHasText
<1>2. u \notin markers
  BY DEF PipeInv, TextInv, MarkerText, Members
<1>3. u \in EventValues /\ text[u] = EventOf(u)
  BY <1>1, <1>2, TextShowsEvent DEF EventValues
<1>4. Belong(EventOf(u))
  BY <1>3, EventIsEvent DEF ContentInv, FragmentsBelongTogether
<1>5. DOMAIN lines \subseteq Int
  <2>1. PICK S : lines \in Seq(S)
    BY DEF IInv, TypeOK
  <2>. QED BY <2>1
<1>. QED BY <1>3, <1>4, <1>5 DEF Belong, Members

\* With one distribution thread queues take the values in the order of the pops.
LEMMA OneThreadOrder == PipeSpec => [](Cardinality(Workers) = 1 => OutP!PopOrder)
<1>1. CASE Cardinality(Workers) = 1
  <2>1. PICK w : Workers = {w}
    BY <1>1, PipelineAssumption, FS_Singleton
  <2>2. OutP!OneThread
    BY <2>1 DEF OutP!OneThread
  <2>3. OutP!Spec => []OutP!PopOrder
    BY <2>2, OutP!OneThreadInOrder, OutputsFit
  <2>4. OutP!PopOrder => (Cardinality(Workers) = 1 => OutP!PopOrder)
    OBVIOUS
  <2>. QED BY <2>3, <2>4, ImplementsOutputs, PTL
<1>2. CASE Cardinality(Workers) # 1
  <2>1. Cardinality(Workers) = 1 => OutP!PopOrder
    BY <1>2
  <2>. QED BY <2>1, PTL
<1>. QED BY <1>1, <1>2

\* Hosts get the lines of an audit event once and, from one distribution
\* thread, in order, from what the values are and how they are received.
LEMMA HostOrder ==
  ASSUME IInv, ContentInv, RoundInv, OutP!FanoutInv, PipeInv, ValueOrder,
         Cardinality(Workers) = 1 => OutP!PopOrder
  PROVE  LinesInOrderAtHosts
<1>1. SUFFICES ASSUME NEW o \in Outputs, NEW j \in DOMAIN received[o], NEW k \in DOMAIN received[o],
                      j < k, Shown(o, j).host = Shown(o, k).host, Shown(o, j).id = Shown(o, k).id,
                      NEW a \in Members(Shown(o, j).frags), NEW b \in Members(Shown(o, k).frags)
               PROVE  a # b /\ (Cardinality(Workers) = 1 => a < b)
  BY DEF LinesInOrderAtHosts
<1> DEFINE u == received[o][j]
           v == received[o][k]
<1>2. /\ u \in OutP!Elements(accepted[o]) /\ v \in OutP!Elements(accepted[o]) /\ u # v
      /\ OutP!PopOrder => u < v
  BY <1>1, OutP!ReceivedOnce, OutputsFit DEF OutP!Outputs, Outputs
<1> HIDE DEF u, v
<1>3. /\ u \in EventValues /\ text[u] = EventOf(u) /\ a \in Int
      /\ v \in EventValues /\ text[v] = EventOf(v) /\ b \in Int
  BY <1>2, LinesOfText DEF Shown, u, v
<1>4. /\ EventOf(u).host = EventOf(v).host /\ EventOf(u).id = EventOf(v).id
      /\ a \in Members(EventOf(u).frags) /\ b \in Members(EventOf(v).frags)
  BY <1>1, <1>3 DEF Shown, u, v
<1>5. u < v => a < b
  BY <1>3, <1>4 DEF ValueOrder, InTurn
<1>6. v < u => b < a
  BY <1>3, <1>4 DEF ValueOrder, InTurn
<1>7. u < v \/ v < u
  BY <1>2, <1>3 DEF EventValues, RoundInv
<1>. QED BY <1>2, <1>3, <1>5, <1>6, <1>7

\* A host never gets a line twice and, with one distribution thread, never a
\* line of an audit event before one of that event that was inserted earlier.
THEOREM HostsReadInOrder == PipeSpec => []LinesInOrderAtHosts
<1>1. ASSUME IInv, IInv', ContentInv, LineOrder, OutP!FanoutInv, OutP!FanoutInv', PipeInv, PipeInv',
             ValueOrder, [PipeNext]_pipeVars
      PROVE  ValueOrder'
  <2>1. RoundInv /\ RoundInv'
    BY <1>1, Rounds, PTL
  <2>. QED BY <1>1, <2>1, ValueOrderStep
<1>2. IInv /\ ContentInv /\ OutP!FanoutInv /\ PipeInv /\ ValueOrder
        /\ (Cardinality(Workers) = 1 => OutP!PopOrder) => LinesInOrderAtHosts
  BY Rounds, HostOrder
<1>. QED BY <1>1, <1>2, ValueOrderInit, PipeInvariant, OneThreadOrder, PTL DEF PipeSpec
=============================================================================
