---------------------------- MODULE OutputFanout ----------------------------
(***************************************************************************)
(* uanlz_log2json, from an event popped by a distribution thread to the    *)
(* bytes a remote host receives: outputDistributionThread, Outputs and     *)
(* Output_JSONTCP.                                                         *)
(*                                                                         *)
(* A distribution thread pops an event (or, when the pop times out, makes  *)
(* a "noEventsAlert" marker), takes Outputs::mt and pushes a copy to the   *)
(* bounded queue of every output, each push waiting at most its timeout.   *)
(* Every output has a thread that connects, pops, writes and, when a write *)
(* fails, reconnects and writes the same value again.                      *)
(*                                                                         *)
(* A value is numbered by the order in which it was popped.  accepted and  *)
(* lost are history.  The socket keeps what was written and not received   *)
(* in wire; a break loses a tail of it.  MaxValues and MaxBreaks bound the *)
(* model.                                                                  *)
(***************************************************************************)
EXTENDS Integers, Sequences, FiniteSets

CONSTANTS
  Workers,      \* distribution threads
  NumOutputs,   \* length of Outputs::outputBases
  MaxItems,     \* MaxQueuedItems of an output
  Free,         \* Outputs::mt when nobody holds it
  MaxValues,    \* bound: events and markers popped in a behaviour
  MaxBreaks     \* bound: connections broken in a behaviour

ASSUME FanoutAssumption ==
  /\ Free \notin Workers
  /\ NumOutputs \in Nat /\ MaxItems \in Nat \ {0}
  /\ MaxValues \in Nat /\ MaxBreaks \in Nat

VARIABLES
  popped,           \* values made so far
  markers,          \* those of them that are noEventsAlert markers
  worker,           \* distribution threads: where they are, value, next output
  mt,               \* who holds Outputs::mt
  queueValues,      \* per output: the queue of JSON values
  sender,           \* per output: tcpOutputProcessorThread and the value it has
  connection,       \* per output: "none", "up", or "broken" and not noticed yet
  connected,        \* per output: the atomic flag of the statistics
  wire,             \* per output: written, not yet received
  received,         \* per output: what the remote host got
  accepted,         \* history, per output: values pushed, in order
  lost,             \* history, per output: values a broken connection lost
  dropped,          \* per output
  processed,        \* per output
  eventsProcessed,  \* Events_DistributionThreads::eventsProcessed
  breaks            \* connections broken so far

dispatchVars == <<popped, markers, worker, mt, eventsProcessed>>
queueVars == <<queueValues, accepted, dropped>>
senderVars == <<sender, connection, connected, processed>>
netVars == <<wire, received, lost, breaks>>
vars == <<dispatchVars, queueVars, senderVars, netVars>>

Outputs == 1..NumOutputs
Values == 1..MaxValues
NoValue == 0
IdleWorker == [pc |-> "idle", value |-> NoValue, out |-> 1]

Init ==
  /\ popped = 0 /\ markers = {}
  /\ worker = [w \in Workers |-> IdleWorker]
  /\ mt = Free
  /\ queueValues = [o \in Outputs |-> <<>>]
  /\ sender = [o \in Outputs |-> [pc |-> "connect", value |-> NoValue]]
  /\ connection = [o \in Outputs |-> "none"]
  /\ connected = [o \in Outputs |-> FALSE]
  /\ wire = [o \in Outputs |-> <<>>]
  /\ received = [o \in Outputs |-> <<>>]
  /\ accepted = [o \in Outputs |-> <<>>]
  /\ lost = [o \in Outputs |-> {}]
  /\ dropped = [o \in Outputs |-> 0]
  /\ processed = [o \in Outputs |-> 0]
  /\ eventsProcessed = 0
  /\ breaks = 0
-----------------------------------------------------------------------------
(* outputDistributionThread and Outputs::pushToOutputBases.                  *)

\* The pop returns an event, or times out and a marker is made instead.
Pop(w) ==
  /\ popped < MaxValues
  /\ worker[w].pc = "idle"
  /\ popped' = popped + 1
  /\ markers' \in {markers, markers \cup {popped + 1}}
  /\ worker' = [worker EXCEPT ![w] = [pc |-> "lock", value |-> popped + 1, out |-> 1]]
  /\ UNCHANGED <<mt, eventsProcessed, queueVars, senderVars, netVars>>

\* Mutant.  Nobody waits for the mutex.
MutexNotTaken == TRUE

MutexFree == mt = Free

LockOutputs(w) ==
  /\ worker[w].pc = "lock"
  /\ MutexFree
  /\ mt' = w
  /\ worker' = [worker EXCEPT ![w].pc = "push"]
  /\ UNCHANGED <<popped, markers, eventsProcessed, queueVars, senderVars, netVars>>

\* Mutant.  One value more than the limit.
RoomForOneMore(o) == Len(queueValues[o]) <= MaxItems

HasRoom(o) == Len(queueValues[o]) < MaxItems

\* Output_JSONTCP::logAuditEvent: the push succeeds.
PushValue(w) ==
  LET o == worker[w].out
  IN  /\ worker[w].pc = "push" /\ o \in Outputs
      /\ HasRoom(o)
      /\ queueValues' = [queueValues EXCEPT ![o] = Append(@, worker[w].value)]
      /\ accepted' = [accepted EXCEPT ![o] = Append(@, worker[w].value)]
      /\ worker' = [worker EXCEPT ![w].out = o + 1]
      /\ UNCHANGED <<popped, markers, mt, eventsProcessed, dropped, senderVars, netVars>>

\* Mutants.  A push without timeout; a drop that ends the round.
NeverGivesUp(o) == FALSE
SkipsTheRest(o) == NumOutputs + 1

\* The queue stayed full for QueuePushTimeoutInMS: the copy is deleted.
GivesUp(o) == ~HasRoom(o)

\* The output pushed to after a drop at o.
NextOutput(o) == o + 1

DropValue(w) ==
  LET o == worker[w].out
  IN  /\ worker[w].pc = "push" /\ o \in Outputs
      /\ GivesUp(o)
      /\ dropped' = [dropped EXCEPT ![o] = @ + 1]
      /\ worker' = [worker EXCEPT ![w].out = NextOutput(o)]
      /\ UNCHANGED <<popped, markers, mt, eventsProcessed, queueValues, accepted,
                     senderVars, netVars>>

UnlockOutputs(w) ==
  /\ worker[w].pc = "push" /\ worker[w].out \notin Outputs
  /\ mt' = Free
  /\ worker' = [worker EXCEPT ![w].pc = "account"]
  /\ UNCHANGED <<popped, markers, eventsProcessed, queueVars, senderVars, netVars>>

\* The event is deleted and counted; a marker is neither.
Account(w) ==
  /\ worker[w].pc = "account"
  /\ eventsProcessed' = eventsProcessed + (IF worker[w].value \in markers THEN 0 ELSE 1)
  /\ worker' = [worker EXCEPT ![w] = IdleWorker]
  /\ UNCHANGED <<popped, markers, mt, queueVars, senderVars, netVars>>
-----------------------------------------------------------------------------
(* Output_JSONTCP::process and reconnect.                                    *)

\* reconnect deletes the old socket first; a new one has nothing in flight.
Reconnect(o) ==
  /\ sender[o].pc = "connect"
  /\ connection' = [connection EXCEPT ![o] = "up"]
  /\ connected' = [connected EXCEPT ![o] = TRUE]
  /\ sender' = [sender EXCEPT ![o].pc = IF sender[o].value = NoValue THEN "pop" ELSE "write"]
  /\ UNCHANGED <<dispatchVars, queueVars, processed, netVars>>

ReconnectFails(o) ==
  /\ sender[o].pc = "connect"
  /\ connection' = [connection EXCEPT ![o] = "none"]
  /\ connected' = [connected EXCEPT ![o] = FALSE]
  /\ UNCHANGED <<dispatchVars, queueVars, sender, processed, netVars>>

PopValue(o) ==
  /\ sender[o].pc = "pop"
  /\ queueValues[o] # <<>>
  /\ sender' = [sender EXCEPT ![o] = [pc |-> "write", value |-> Head(queueValues[o])]]
  /\ queueValues' = [queueValues EXCEPT ![o] = Tail(@)]
  /\ UNCHANGED <<dispatchVars, accepted, dropped, connection, connected, processed, netVars>>

\* Mutant.  The value is not given up once written.
KeepsValue(o) == sender[o]

\* The sender once a write succeeded.
SenderAfterWrite(o) == [pc |-> "pop", value |-> NoValue]

\* The write succeeds when the kernel takes the bytes, which it also does on a
\* connection that is broken and not known to be: those bytes are lost.
Write(o) ==
  /\ sender[o].pc = "write"
  /\ \/ /\ connection[o] = "up"
        /\ wire' = [wire EXCEPT ![o] = Append(@, sender[o].value)]
        /\ UNCHANGED lost
     \/ /\ connection[o] = "broken"
        /\ lost' = [lost EXCEPT ![o] = @ \cup {sender[o].value}]
        /\ UNCHANGED wire
  /\ sender' = [sender EXCEPT ![o] = SenderAfterWrite(o)]
  /\ processed' = [processed EXCEPT ![o] = @ + 1]
  /\ UNCHANGED <<dispatchVars, queueVars, connection, connected, received, breaks>>

\* Mutant.  The value of the failed write is forgotten.
ForgetsValue(o) == [pc |-> "connect", value |-> NoValue]

\* The sender once a write failed: it reconnects and keeps the value.
SenderAfterFailure(o) == [sender[o] EXCEPT !.pc = "connect"]

WriteFails(o) ==
  /\ sender[o].pc = "write"
  /\ connection[o] = "broken"
  /\ sender' = [sender EXCEPT ![o] = SenderAfterFailure(o)]
  /\ UNCHANGED <<dispatchVars, queueVars, connection, connected, processed, netVars>>
-----------------------------------------------------------------------------
(* The network and the remote host.                                          *)

Receive(o) ==
  /\ wire[o] # <<>>
  /\ received' = [received EXCEPT ![o] = Append(@, Head(wire[o]))]
  /\ wire' = [wire EXCEPT ![o] = Tail(@)]
  /\ UNCHANGED <<dispatchVars, queueVars, senderVars, lost, breaks>>

Break(o) ==
  /\ breaks < MaxBreaks
  /\ connection[o] = "up"
  /\ connection' = [connection EXCEPT ![o] = "broken"]
  /\ lost' = [lost EXCEPT ![o] = @ \cup {wire[o][k] : k \in DOMAIN wire[o]}]
  /\ wire' = [wire EXCEPT ![o] = <<>>]
  /\ breaks' = breaks + 1
  /\ UNCHANGED <<dispatchVars, queueVars, sender, connected, processed, received>>

WorkerStep(w) ==
  \/ Pop(w) \/ LockOutputs(w) \/ PushValue(w) \/ DropValue(w)
  \/ UnlockOutputs(w) \/ Account(w)

SenderStep(o) ==
  \/ Reconnect(o) \/ ReconnectFails(o) \/ PopValue(o) \/ Write(o) \/ WriteFails(o)

\* The bound on values is reached and all threads wait: no deadlock.
AllQuiet ==
  /\ popped = MaxValues
  /\ \A w \in Workers : worker[w].pc = "idle"
  /\ \A o \in Outputs : sender[o].pc = "pop" /\ queueValues[o] = <<>>
  /\ UNCHANGED vars

Next ==
  \/ \E w \in Workers : WorkerStep(w)
  \/ \E o \in Outputs : SenderStep(o)
  \/ \E o \in Outputs : Receive(o) \/ Break(o)
  \/ AllQuiet

Spec == Init /\ [][Next]_vars

\* A distribution thread is scheduled, its push returns, and a mutex that is
\* free is given to one of those that wait for it.  Nothing is assumed of the
\* remote hosts or of the threads that send to them.
Fairness ==
  /\ WF_vars(\E w \in Workers : LockOutputs(w))
  /\ \A w \in Workers :
       /\ WF_vars(PushValue(w) \/ DropValue(w))
       /\ WF_vars(UnlockOutputs(w)) /\ WF_vars(Account(w))

FairSpec == Spec /\ Fairness
-----------------------------------------------------------------------------
\* The shape of every variable.
TypeOK ==
  /\ popped \in 0..MaxValues /\ markers \subseteq 1..popped
  /\ worker \in [Workers -> [pc : {"idle", "lock", "push", "account"},
                             value : Values \cup {NoValue}, out : 1..NumOutputs + 1]]
  /\ mt \in Workers \cup {Free}
  /\ queueValues \in [Outputs -> Seq(Values)]
  /\ \A o \in Outputs : Len(queueValues[o]) <= MaxItems
  /\ sender \in [Outputs -> [pc : {"connect", "pop", "write"}, value : Values \cup {NoValue}]]
  /\ connection \in [Outputs -> {"none", "up", "broken"}]
  /\ connected \in [Outputs -> BOOLEAN]
  /\ wire \in [Outputs -> Seq(Values)]
  /\ received \in [Outputs -> Seq(Values)]
  /\ accepted \in [Outputs -> Seq(Values)]
  /\ lost \in [Outputs -> SUBSET Values]
  /\ dropped \in [Outputs -> Nat]
  /\ processed \in [Outputs -> Nat]
  /\ eventsProcessed \in Nat
  /\ breaks \in 0..MaxBreaks

Before(s, x, y) == \E j, k \in DOMAIN s : j < k /\ s[j] = x /\ s[k] = y

\* All outputs see the events in one order: when one queue took x before y, no
\* other took y before x.  The distribution threads race for Outputs::mt, which
\* is held over the pushes to all outputs.
OneOrder ==
  \A o, p \in Outputs, x, y \in Values :
    x # y /\ Before(accepted[o], x, y) => ~Before(accepted[p], y, x)

InHand(o) == IF sender[o].value = NoValue THEN <<>> ELSE <<sender[o].value>>
InFlight(o) == received[o] \o wire[o] \o InHand(o) \o queueValues[o]

Elements(s) == {s[k] : k \in DOMAIN s}

\* s is what is left of all, each value once and in that order, without gone.
IsRest(s, all, gone) ==
  /\ \A j, k \in DOMAIN all : j # k => all[j] # all[k]
  /\ Elements(s) = Elements(all) \ gone
  /\ \A j, k \in DOMAIN s : j < k => Before(all, s[j], s[k])

\* What a remote host got, followed by what is on its way, is what its queue
\* accepted, in that order and each value once, less what went into a
\* connection that broke: retries and reconnections neither repeat, reorder
\* nor lose a value that was not yet written.
InOrderOnceOrLost ==
  \A o \in Outputs : IsRest(InFlight(o), accepted[o], lost[o])

\* The values output o was offered: their thread is past it, or has gone on.
Offered(o) ==
  {x \in 1..popped : \A w \in Workers :
     worker[w].value = x => worker[w].pc \in {"push", "account"} /\ worker[w].out > o}

\* The counters of an output: every value offered to it was accepted or
\* dropped, and what was accepted is queued, at the sender or processed.
OutputStatsAddUp ==
  \A o \in Outputs :
    /\ dropped[o] + Len(accepted[o]) = Cardinality(Offered(o))
    /\ Len(accepted[o]) = processed[o] + Len(InHand(o) \o queueValues[o])

\* The outputs implement Broadcast.  A value is being offered while its thread
\* holds Outputs::mt; it is in transit in the queue, at the sender and on the
\* wire.  The two threads' pushes never mix, no value has a second round, and
\* queue, retries and reconnections of an output are invisible to its host.
Broadcasting == \E w \in Workers : mt = w
Promise == INSTANCE Broadcast WITH
  current <- IF Broadcasting THEN worker[mt].value ELSE NoValue,
  next    <- IF Broadcasting THEN worker[mt].out ELSE 1,
  past    <- {v \in 1..popped : \A w \in Workers :
                worker[w].value = v => worker[w].pc = "account"},
  transit <- [o \in Outputs |-> wire[o] \o InHand(o) \o queueValues[o]],
  got     <- received,
  gone    <- lost
ImplementsBroadcast == Promise!Spec

\* A distribution thread that took an event is done with it some day, even
\* when an output never connects and its queue stays full.
EveryPopEnds == \A w \in Workers : worker[w].pc = "lock" ~> worker[w].pc = "idle"
=============================================================================
