------------------------------ MODULE Log2Json ------------------------------
(***************************************************************************)
(* The pipeline of uanlz_log2json, from a parsed line to the bytes a       *)
(* remote host gets: AuditReassembly and OutputFanout put together.  They  *)
(* share the distribution threads: what a thread pops from the events      *)
(* queue is what it pushes to every output, and it deletes the event when  *)
(* the round is over.  A full output holds the thread, the thread holds    *)
(* the events queue, and a full events queue holds the garbage collector   *)
(* with mutex_insert and so every receiver.                                *)
(*                                                                         *)
(* text is the JSON each value of OutputFanout stands for, made by the     *)
(* thread between its pop and its push; it is kept as history, so that     *)
(* what a host received can be looked up.  MaxMarkers bounds the           *)
(* noEventsAlert markers of a behaviour.                                   *)
(***************************************************************************)
EXTENDS AuditReassembly

CONSTANTS NumOutputs, MaxItems, MaxMarkers, MaxBreaks

ASSUME PipelineAssumption ==
  /\ NumOutputs \in Nat /\ MaxItems \in Nat \ {0}
  /\ MaxMarkers \in Nat /\ MaxBreaks \in Nat
  /\ Free \notin Workers /\ IsFiniteSet(Workers)

VARIABLES
  popped, markers, round, mt,                         \* dispatch
  queueValues, accepted, refused,                     \* the outputs' queues
  sender, connection, connected, sent,                \* their threads
  wire, received, lost, breaks,                       \* network and hosts
  text                                                \* value -> its JSON

Out == INSTANCE OutputFanout WITH
  worker <- round, dropped <- refused, processed <- sent,
  MaxValues <- MaxLines + MaxMarkers

outVars == <<popped, markers, round, mt, queueValues, accepted, refused, sender,
             connection, connected, sent, wire, received, lost, breaks>>
pipeVars == <<vars, outVars, text>>

Outputs == 1..NumOutputs

\* A value whose JSON is not made yet; what a noEventsAlert marker shows.
NoText == [host |-> NoHost, id |-> NoHost, created |-> 0, frags |-> <<NoEvent>>]
MarkerText == [host |-> NoHost, id |-> NoHost, created |-> 0, frags |-> <<>>]

PipeInit ==
  /\ Init /\ Out!Init
  /\ text = <<>>
-----------------------------------------------------------------------------
(* A step of reassembly, a step of the outputs, and the steps both take.     *)

Reassembling == UNCHANGED <<outVars, text>>

\* The event the thread has popped becomes the next value.
PopEvent(w) ==
  /\ Pop(w) /\ Out!Pop(w) /\ markers' = markers
  /\ text' = Append(text, NoText)

\* Audit_Event::process and getJSON read the event as it is now, without a lock.
JSONOf(w) == IF worker[w] = NoEvent THEN MarkerText ELSE heap[worker[w]]

MakeText(w) ==
  /\ round[w].pc = "lock" /\ text[round[w].value] = NoText
  /\ text' = [text EXCEPT ![round[w].value] = JSONOf(w)]
  /\ UNCHANGED <<vars, outVars>>

\* The pop timed out: the thread makes a marker of its own.
PopMarker(w) ==
  /\ worker[w] = NoEvent /\ eventsQueue = <<>>
  /\ Cardinality(markers) < MaxMarkers
  /\ Out!Pop(w) /\ markers' # markers
  /\ text' = Append(text, MarkerText)
  /\ UNCHANGED vars

Lock(w) ==
  /\ Out!LockOutputs(w) /\ text[round[w].value] # NoText
  /\ UNCHANGED <<vars, text>>

Push(w) == Out!PushValue(w) /\ UNCHANGED <<vars, text>>
Drop(w) == Out!DropValue(w) /\ UNCHANGED <<vars, text>>
Unlock(w) == Out!UnlockOutputs(w) /\ UNCHANGED <<vars, text>>

\* The thread deletes its event, or its marker, and starts over.
FinishEvent(w) ==
  Distribute(w) /\ Out!Account(w) /\ UNCHANGED text

FinishMarker(w) ==
  /\ worker[w] = NoEvent
  /\ Out!Account(w)
  /\ UNCHANGED <<vars, text>>

Send(o) == Out!SenderStep(o) /\ UNCHANGED <<vars, text>>
Network(o) == (Out!Receive(o) \/ Out!Break(o)) /\ UNCHANGED <<vars, text>>

Collect ==
  \/ Tick
  \/ \E r \in Receivers, h \in Hosts, e \in EventIds, t \in Types : Insert(r, h, e, t)
  \/ GCLock
  \/ \E h \in Hosts : GCCollect(h)
  \/ \E o \in gcBatch : GCTake(o)
  \/ GCUnlock
  \/ \E t \in Threads : PushDone(t) \/ PushTimeout(t) \/ CountProcessed(t) \/ DeleteDropped(t)

PipeNext ==
  \/ Collect /\ Reassembling
  \/ \E w \in Workers :
       \/ PopEvent(w) \/ PopMarker(w) \/ MakeText(w) \/ Lock(w) \/ Push(w) \/ Drop(w) \/ Unlock(w)
       \/ FinishEvent(w) \/ FinishMarker(w)
  \/ \E o \in Outputs : Send(o) \/ Network(o)

PipeSpec == PipeInit /\ [][PipeNext]_pipeVars

\* As in the parts: the threads of the pipeline are scheduled, time passes and
\* a push ends.  No line need arrive, no remote host need accept a connection
\* and no sender need write.
PipeFairness ==
  /\ WF_pipeVars(Tick /\ Reassembling)
  /\ WF_pipeVars(GCLock /\ Reassembling) /\ WF_pipeVars(GCUnlock /\ Reassembling)
  /\ WF_pipeVars((\E h \in Hosts : GCCollect(h)) /\ Reassembling)
  /\ WF_pipeVars((\E o \in gcBatch : GCTake(o)) /\ Reassembling)
  /\ \A t \in Threads :
       /\ WF_pipeVars((PushDone(t) \/ PushTimeout(t)) /\ Reassembling)
       /\ WF_pipeVars((CountProcessed(t) \/ DeleteDropped(t)) /\ Reassembling)
  /\ WF_pipeVars(\E w \in Workers : Lock(w))
  /\ \A w \in Workers :
       /\ WF_pipeVars(PopEvent(w)) /\ WF_pipeVars(MakeText(w))
       /\ WF_pipeVars(Push(w) \/ Drop(w)) /\ WF_pipeVars(Unlock(w))
       /\ WF_pipeVars(FinishEvent(w) \/ FinishMarker(w))

PipeFairSpec == PipeSpec /\ PipeFairness
-----------------------------------------------------------------------------
\* The shape of the state, and where the two parts meet: a thread has an event
\* in hand exactly while it is busy with a value that is no marker.
PipeTypeOK ==
  /\ TypeOK /\ Out!TypeOK
  /\ Len(text) = popped
  /\ \A v \in 1..popped : text[v] \in Events \cup {NoText, MarkerText}
  /\ \A w \in Workers :
       (worker[w] # NoEvent) <=> (round[w].pc # "idle" /\ round[w].value \notin markers)

BusyWith(v) == {w \in Workers : round[w].pc # "idle" /\ round[w].value = v}

\* The JSON the outputs get is the event with all its lines, although it is
\* made without a lock, well before the event is deleted, and receivers go on
\* inserting lines: as long as the thread has the event, the text is what the
\* event holds, and the events deleted after distribution are the texts shown.
TextsAreWhole ==
  /\ \A v \in (1..popped) \ markers : \A w \in BusyWith(v) :
       text[v] \in {NoText, heap[worker[w]]}
  /\ delivered = {text[v] : v \in {u \in (1..popped) \ markers : BusyWith(u) = {}}}

\* What the host of output o read of the event in the j-th text it received.
Shown(o, j) == text[received[o][j]]

\* A host never gets a line twice and, with one distribution thread, never a
\* line of an audit event before a line of that event that was inserted
\* earlier, in whichever texts the two are: neither the splitting of an event
\* nor full queues turn them round.
LinesInOrderAtHosts ==
  \A o \in Outputs : \A j, k \in DOMAIN received[o] :
    j < k /\ Shown(o, j).host = Shown(o, k).host /\ Shown(o, j).id = Shown(o, k).id =>
      \A a \in Members(Shown(o, j).frags), b \in Members(Shown(o, k).frags) :
        a # b /\ (Cardinality(Workers) = 1 => a < b)
=============================================================================
