------------------------ MODULE OutputFanout_proofs ------------------------
(***************************************************************************)
(* Proofs about OutputFanout, for every number of distribution threads,    *)
(* outputs and broken connections and every queue size: what the threads   *)
(* that race for Outputs::mt and the threads that write to the remote      *)
(* hosts keep true, and that together they implement Broadcast.            *)
(***************************************************************************)
EXTENDS OutputFanout, FiniteSetTheorems, TLAPS

\* NoValue is none.
LEMMA ValuesNotNo == NoValue \notin Values
BY DEF Values, NoValue

\* The shape of the variables, by who writes them.
DispatchOK ==
  /\ popped \in 0..MaxValues /\ markers \subseteq 1..popped
  /\ worker \in [Workers -> [pc : {"idle", "lock", "push", "account"},
                             value : Values \cup {NoValue}, out : 1..NumOutputs + 1]]
  /\ mt \in Workers \cup {Free}
  /\ eventsProcessed \in Nat
QueueOK ==
  /\ queueValues \in [Outputs -> Seq(Values)]
  /\ \A o \in Outputs : Len(queueValues[o]) <= MaxItems
  /\ accepted \in [Outputs -> Seq(Values)]
  /\ dropped \in [Outputs -> Nat]
SenderOK ==
  /\ sender \in [Outputs -> [pc : {"connect", "pop", "write"}, value : Values \cup {NoValue}]]
  /\ connection \in [Outputs -> {"none", "up", "broken"}]
  /\ connected \in [Outputs -> BOOLEAN]
  /\ processed \in [Outputs -> Nat]
NetOK ==
  /\ wire \in [Outputs -> Seq(Values)]
  /\ received \in [Outputs -> Seq(Values)]
  /\ lost \in [Outputs -> SUBSET Values]
  /\ breaks \in 0..MaxBreaks

\* A distribution thread pushes exactly while it holds Outputs::mt, and works
\* on a value that no other thread has.
WorkerInv ==
  /\ \A w \in Workers : worker[w].pc = "push" <=> mt = w
  /\ \A w \in Workers : worker[w].pc = "idle" <=> worker[w].value = NoValue
  /\ \A w \in Workers : worker[w].value <= popped
  /\ \A v, w \in Workers : worker[v].value = worker[w].value /\ v # w => worker[w].value = NoValue
  /\ \A w \in Workers : worker[w].pc = "lock" => worker[w].out = 1
  /\ \A w \in Workers : worker[w].pc = "account" => worker[w].out = NumOutputs + 1

\* A sender has a value unless it waits for one; it connects only when its
\* connection is down; and nothing is on the wire of a connection that is down.
SenderInv ==
  \A o \in Outputs :
    /\ sender[o].pc = "pop" => sender[o].value = NoValue
    /\ sender[o].pc = "write" => sender[o].value # NoValue
    /\ sender[o].pc = "connect" => connection[o] # "up"
    /\ connection[o] # "up" => wire[o] = <<>>

\* What the queues took so far, against what the threads have in hand: a value
\* that waits for the mutex is in no queue; one that is being pushed is in none
\* of the queues to come, and the newest in those it was pushed to.
AcceptInv ==
  \A o \in Outputs :
    /\ Elements(accepted[o]) \subseteq 1..popped
    /\ lost[o] \subseteq Elements(accepted[o])
    /\ \A w \in Workers :
         worker[w].pc = "lock" => worker[w].value \notin Elements(accepted[o])
    /\ \A w \in Workers :
         worker[w].pc = "push" =>
           IF o < worker[w].out
             THEN \A k \in DOMAIN accepted[o] :
                    accepted[o][k] = worker[w].value => k = Len(accepted[o])
             ELSE worker[w].value \notin Elements(accepted[o])

DispatchInv == DispatchOK /\ WorkerInv
StateInv == DispatchInv /\ QueueOK /\ SenderOK /\ NetOK /\ SenderInv
IInv == StateInv /\ AcceptInv
-----------------------------------------------------------------------------
(* Types, the mutex and the senders.                                        *)

\* The type invariant, taken apart by who writes what.
LEMMA TypeParts == TypeOK <=> DispatchOK /\ QueueOK /\ SenderOK /\ NetOK
BY DEF TypeOK, DispatchOK, QueueOK, SenderOK, NetOK

\* Every disjunct of Next, and stuttering: the cases of a proof about a step.
LEMMA StepCases ==
  ASSUME [Next]_vars
  PROVE  \/ \E w \in Workers : WorkerStep(w)
         \/ \E o \in Outputs : Reconnect(o) \/ ReconnectFails(o) \/ PopValue(o) \/ Write(o)
                                 \/ WriteFails(o) \/ Receive(o) \/ Break(o)
         \/ UNCHANGED vars
BY DEF Next, SenderStep, AllQuiet

\* Only the distribution threads touch the variables of the dispatch, and they
\* touch nothing of the senders and of the network.
LEMMA NotTheWorkers ==
  ASSUME \/ \E o \in Outputs : Reconnect(o) \/ ReconnectFails(o) \/ PopValue(o) \/ Write(o)
                                 \/ WriteFails(o) \/ Receive(o) \/ Break(o)
         \/ UNCHANGED vars
  PROVE  UNCHANGED <<popped, markers, worker, mt, eventsProcessed, accepted, dropped>>
BY DEF vars, dispatchVars, queueVars, Reconnect, ReconnectFails, PopValue, Write, WriteFails,
       Receive, Break

\* A distribution thread leaves senders and connections alone.
LEMMA WorkersOnly ==
  ASSUME NEW w \in Workers, WorkerStep(w)
  PROVE  UNCHANGED <<sender, connection, connected, processed, wire, received, lost, breaks>>
BY DEF WorkerStep, Pop, LockOutputs, PushValue, DropValue, UnlockOutputs, Account, senderVars, netVars

\* The initial states satisfy the invariant.
LEMMA IInvInit == Init => IInv
<1> SUFFICES ASSUME Init PROVE IInv
  OBVIOUS
<1>1. DispatchInv
  BY FanoutAssumption DEF Values, NoValue, Init, DispatchInv, DispatchOK, WorkerInv, IdleWorker
<1>2. QueueOK /\ SenderOK /\ NetOK
  BY FanoutAssumption DEF Values, NoValue, Init, QueueOK, SenderOK, NetOK
<1>3. SenderInv /\ AcceptInv
  BY DEF NoValue, Init, SenderInv, AcceptInv, Elements, IdleWorker
<1>. QED BY <1>1, <1>2, <1>3 DEF IInv, StateInv

\* Outputs::mt is held by one thread at a time, and threads have different
\* values: this part holds by itself.
LEMMA DispatchStep ==
  ASSUME DispatchInv, [Next]_vars
  PROVE  DispatchInv'
<1> USE FanoutAssumption DEF DispatchInv, DispatchOK, WorkerInv, Values, NoValue, Outputs
<1>1. ASSUME NEW w \in Workers, Pop(w) PROVE DispatchInv'
  <2>1. /\ popped' = popped + 1 /\ popped' \in Values
        /\ worker' = [worker EXCEPT ![w] = [pc |-> "lock", value |-> popped', out |-> 1]]
        /\ worker[w].pc = "idle" /\ UNCHANGED <<mt, eventsProcessed>>
    BY <1>1 DEF Pop
  <2>2. markers' \subseteq 1..popped'
    BY <1>1 DEF Pop
  <2>3. DispatchOK'
    BY <2>1, <2>2
  <2>4. WorkerInv'
    BY <2>1
  <2>. QED BY <2>3, <2>4
<1>2. ASSUME NEW w \in Workers, LockOutputs(w) PROVE DispatchInv'
  BY <1>2 DEF LockOutputs, MutexFree
<1>3. ASSUME NEW w \in Workers, PushValue(w) PROVE DispatchInv'
  BY <1>3 DEF PushValue
<1>4. ASSUME NEW w \in Workers, DropValue(w) PROVE DispatchInv'
  BY <1>4 DEF DropValue, NextOutput
<1>5. ASSUME NEW w \in Workers, UnlockOutputs(w) PROVE DispatchInv'
  BY <1>5 DEF UnlockOutputs
<1>6. ASSUME NEW w \in Workers, Account(w) PROVE DispatchInv'
  BY <1>6 DEF Account, IdleWorker
<1>7. ASSUME UNCHANGED <<popped, markers, worker, mt, eventsProcessed>> PROVE DispatchInv'
  BY <1>7
<1>. QED
  <2> HIDE DEF DispatchInv
  <2>. QED BY <1>1, <1>2, <1>3, <1>4, <1>5, <1>6, <1>7, StepCases, NotTheWorkers DEF WorkerStep

\* What a thread pushes is a value.
LEMMA PushedIsValue ==
  ASSUME DispatchInv, NEW w \in Workers, worker[w].pc = "push"
  PROVE  worker[w].value \in Values /\ worker[w].value \in 1..popped
BY DEF DispatchInv, DispatchOK, WorkerInv, Values, NoValue

\* The senders and the network keep their part, whatever the threads do.
LEMMA SenderStepInv ==
  ASSUME StateInv, [Next]_vars
  PROVE  SenderOK' /\ NetOK' /\ SenderInv'
<1> USE FanoutAssumption, ValuesNotNo DEF StateInv, SenderOK, NetOK, dispatchVars, queueVars,
                             senderVars, netVars
<1>1. ASSUME NEW w \in Workers, WorkerStep(w) PROVE SenderOK' /\ NetOK' /\ SenderInv'
  <2>1. UNCHANGED <<sender, connection, connected, processed, wire, received, lost, breaks>>
    BY <1>1, WorkersOnly
  <2>2. SenderOK' /\ NetOK'
    BY <2>1
  <2>3. SenderInv'
    BY <2>1 DEF SenderInv
  <2>. QED BY <2>2, <2>3
<1>2. ASSUME NEW o \in Outputs, Reconnect(o) PROVE SenderOK' /\ NetOK' /\ SenderInv'
  <2>1. SenderOK'
    BY <1>2 DEF Reconnect
  <2>a. NetOK'
    BY <1>2 DEF Reconnect
  <2>2. SenderInv'
    <3>1. \A p \in Outputs \ {o} : sender'[p] = sender[p] /\ connection'[p] = connection[p]
      BY <1>2 DEF Reconnect
    <3>2. /\ sender'[o].value = sender[o].value /\ connection'[o] = "up"
          /\ sender'[o].pc = IF sender[o].value = NoValue THEN "pop" ELSE "write"
          /\ wire' = wire
      BY <1>2 DEF Reconnect
    <3>. QED BY <3>1, <3>2 DEF SenderInv
  <2>. QED BY <2>1, <2>a, <2>2
<1>3. ASSUME NEW o \in Outputs, ReconnectFails(o) PROVE SenderOK' /\ NetOK' /\ SenderInv'
  <2>1. SenderOK' /\ NetOK'
    BY <1>3 DEF ReconnectFails
  <2>2. SenderInv'
    BY <1>3 DEF ReconnectFails, SenderInv
  <2>. QED BY <2>1, <2>2
<1>4. ASSUME NEW o \in Outputs, PopValue(o) PROVE SenderOK' /\ NetOK' /\ SenderInv'
  <2>1. Head(queueValues[o]) \in Values
    BY <1>4 DEF PopValue, QueueOK
  <2>2. SenderOK'
    BY <1>4, <2>1 DEF PopValue
  <2>3. NetOK'
    BY <1>4 DEF PopValue
  <2>4. SenderInv'
    <3>1. \A p \in Outputs \ {o} : sender'[p] = sender[p]
      BY <1>4 DEF PopValue
    <3>2. /\ sender'[o].pc = "write" /\ sender'[o].value \in Values
          /\ UNCHANGED <<connection, wire>>
      BY <1>4, <2>1 DEF PopValue
    <3>. QED BY <3>1, <3>2 DEF SenderInv
  <2>. QED BY <2>2, <2>3, <2>4
<1>5. ASSUME NEW o \in Outputs, Write(o) PROVE SenderOK' /\ NetOK' /\ SenderInv'
  <2>1. sender[o].value \in Values /\ sender[o].pc = "write"
    BY <1>5 DEF Write, SenderInv
  <2>2. SenderOK'
    BY <1>5 DEF Write, SenderAfterWrite
  <2>3. CASE connection[o] = "up" /\ wire' = [wire EXCEPT ![o] = Append(@, sender[o].value)] /\ UNCHANGED lost
    <3>1. NetOK'
      BY <1>5, <2>1, <2>3 DEF Write
    <3>2. SenderInv'
      BY <1>5, <2>1, <2>3 DEF Write, SenderAfterWrite, SenderInv
    <3>. QED BY <2>2, <3>1, <3>2
  <2>4. CASE connection[o] = "broken" /\ lost' = [lost EXCEPT ![o] = @ \cup {sender[o].value}] /\ UNCHANGED wire
    <3>1. NetOK'
      BY <1>5, <2>1, <2>4 DEF Write
    <3>2. SenderInv'
      BY <1>5, <2>1, <2>4 DEF Write, SenderAfterWrite, SenderInv
    <3>. QED BY <2>2, <3>1, <3>2
  <2>. QED
    BY <1>5, <2>3, <2>4 DEF Write
<1>6. ASSUME NEW o \in Outputs, WriteFails(o) PROVE SenderOK' /\ NetOK' /\ SenderInv'
  <2>1. SenderOK' /\ NetOK'
    BY <1>6 DEF WriteFails, SenderAfterFailure
  <2>2. SenderInv'
    BY <1>6 DEF WriteFails, SenderAfterFailure, SenderInv
  <2>. QED BY <2>1, <2>2
<1>7. ASSUME NEW o \in Outputs, Receive(o) PROVE SenderOK' /\ NetOK' /\ SenderInv'
  <2>1. Head(wire[o]) \in Values /\ Tail(wire[o]) \in Seq(Values)
    BY <1>7 DEF Receive
  <2>2. Append(received[o], Head(wire[o])) \in Seq(Values)
    BY <2>1
  <2>3. SenderOK' /\ NetOK'
    BY <1>7, <2>1, <2>2 DEF Receive
  <2>4. SenderInv'
    BY <1>7 DEF Receive, SenderInv
  <2>. QED BY <2>3, <2>4
<1>8. ASSUME NEW o \in Outputs, Break(o) PROVE SenderOK' /\ NetOK' /\ SenderInv'
  <2>1. {wire[o][k] : k \in DOMAIN wire[o]} \subseteq Values
    OBVIOUS
  <2>2. SenderOK' /\ NetOK'
    BY <1>8, <2>1 DEF Break
  <2>3. SenderInv'
    BY <1>8 DEF Break, SenderInv
  <2>. QED BY <2>2, <2>3
<1>9. CASE UNCHANGED vars
  BY <1>9 DEF vars, SenderInv
<1>. QED
  BY <1>1, <1>2, <1>3, <1>4, <1>5, <1>6, <1>7, <1>8, <1>9, StepCases

\* The queues stay bounded and hold values.
LEMMA QueueStep ==
  ASSUME StateInv, [Next]_vars
  PROVE  QueueOK'
<1> USE FanoutAssumption DEF StateInv, QueueOK, queueVars
<1>1. ASSUME NEW w \in Workers, PushValue(w) PROVE QueueOK'
  <2> DEFINE o == worker[w].out
  <2>1. worker[w].value \in Values /\ o \in Outputs
    BY <1>1, PushedIsValue DEF PushValue
  <2>2. Append(queueValues[o], worker[w].value) \in Seq(Values)
        /\ Append(accepted[o], worker[w].value) \in Seq(Values)
        /\ Len(Append(queueValues[o], worker[w].value)) <= MaxItems
    BY <1>1, <2>1 DEF PushValue, HasRoom
  <2>. QED BY <1>1, <2>1, <2>2 DEF PushValue
<1>2. ASSUME NEW w \in Workers, DropValue(w) PROVE QueueOK'
  BY <1>2 DEF DropValue, NextOutput
<1>3. ASSUME NEW o \in Outputs, PopValue(o) PROVE QueueOK'
  <2>1. Tail(queueValues[o]) \in Seq(Values) /\ Len(Tail(queueValues[o])) <= MaxItems
    BY <1>3 DEF PopValue
  <2>. QED BY <1>3, <2>1 DEF PopValue
<1>4. ASSUME UNCHANGED queueVars PROVE QueueOK'
  BY <1>4
<1>. QED
  BY <1>1, <1>2, <1>3, <1>4, StepCases
     DEF WorkerStep, Pop, LockOutputs, UnlockOutputs, Account,
         Reconnect, ReconnectFails, Write, WriteFails, Receive, Break, vars
-----------------------------------------------------------------------------
(* Sequences.                                                               *)

\* What a longer sequence holds.
LEMMA ElementsAppend ==
  ASSUME NEW V, NEW s \in Seq(V), NEW x \in V
  PROVE  Elements(Append(s, x)) = Elements(s) \cup {x}
<1> DEFINE t == Append(s, x)
<1>1. /\ DOMAIN t = 1..(Len(s) + 1) /\ DOMAIN s = 1..Len(s) /\ Len(s) \in Nat
      /\ t[Len(s) + 1] = x /\ \A k \in 1..Len(s) : t[k] = s[k]
  OBVIOUS
<1>2. \A k \in DOMAIN t : t[k] \in Elements(s) \cup {x}
  BY <1>1 DEF Elements
<1>3. Elements(s) \cup {x} \subseteq Elements(t)
  BY <1>1 DEF Elements
<1>. QED BY <1>2, <1>3 DEF Elements

\* What two sequences in a row hold.
LEMMA ElementsConcat ==
  ASSUME NEW V, NEW a \in Seq(V), NEW b \in Seq(V)
  PROVE  Elements(a \o b) = Elements(a) \cup Elements(b)
<1> DEFINE t == a \o b
<1>1. /\ DOMAIN t = 1..(Len(a) + Len(b)) /\ DOMAIN a = 1..Len(a) /\ DOMAIN b = 1..Len(b)
      /\ Len(a) \in Nat /\ Len(b) \in Nat
      /\ \A k \in 1..Len(a) : t[k] = a[k]
      /\ \A k \in 1..(Len(a) + Len(b)) : k > Len(a) => t[k] = b[k - Len(a)]
  OBVIOUS
<1>2. \A k \in DOMAIN t : t[k] \in Elements(a) \cup Elements(b)
  BY <1>1 DEF Elements
<1>3. \A k \in DOMAIN a : a[k] \in Elements(t)
  BY <1>1 DEF Elements
<1>4. ASSUME NEW k \in DOMAIN b PROVE b[k] \in Elements(t)
  <2>1. k + Len(a) \in DOMAIN t /\ t[k + Len(a)] = b[k]
    BY <1>1
  <2>. QED BY <2>1 DEF Elements
<1>. QED BY <1>2, <1>3, <1>4 DEF Elements

\* What four sequences in a row hold: received, wire, in hand, queue.
LEMMA ElementsOfFour ==
  ASSUME NEW V, NEW a \in Seq(V), NEW b \in Seq(V), NEW c \in Seq(V), NEW d \in Seq(V)
  PROVE  Elements(((a \o b) \o c) \o d)
           = ((Elements(a) \cup Elements(b)) \cup Elements(c)) \cup Elements(d)
<1>1. a \o b \in Seq(V)
  OBVIOUS
<1>2. (a \o b) \o c \in Seq(V)
  BY <1>1
<1>3. Elements(a \o b) = Elements(a) \cup Elements(b)
  BY ElementsConcat
<1>4. Elements((a \o b) \o c) = Elements(a \o b) \cup Elements(c)
  <2>1. PICK ab \in Seq(V) : ab = a \o b
    BY <1>1
  <2>2. Elements(ab \o c) = Elements(ab) \cup Elements(c)
    BY ElementsConcat
  <2>. QED BY <2>1, <2>2, Zenon
<1>5. Elements(((a \o b) \o c) \o d) = Elements((a \o b) \o c) \cup Elements(d)
  <2>1. PICK abc \in Seq(V) : abc = (a \o b) \o c
    BY <1>2
  <2>2. Elements(abc \o d) = Elements(abc) \cup Elements(d)
    BY ElementsConcat
  <2>. QED BY <2>1, <2>2, Zenon
<1>. QED BY <1>3, <1>4, <1>5

\* Moving the boundary between two parts of a sequence.
LEMMA AppendToLast ==
  ASSUME NEW V, NEW a \in Seq(V), NEW b \in Seq(V), NEW x \in V
  PROVE  a \o Append(b, x) = Append(a \o b, x)
OBVIOUS

\* The first value of one part becomes the last of the part before.
LEMMA HeadMovesOver ==
  ASSUME NEW V, NEW a \in Seq(V), NEW b \in Seq(V), b # <<>>
  PROVE  Append(a, Head(b)) \o Tail(b) = a \o b
OBVIOUS

\* A sequence of one value behind another sequence, and one of none.
LEMMA OneMore ==
  ASSUME NEW V, NEW a \in Seq(V), NEW x \in V
  PROVE  a \o <<x>> = Append(a, x) /\ a \o <<>> = a /\ <<x>> \in Seq(V) /\ <<>> \in Seq(V)
OBVIOUS

\* Parts of a flow may be read together.
LEMMA Regroup ==
  ASSUME NEW V, NEW a \in Seq(V), NEW b \in Seq(V), NEW c \in Seq(V)
  PROVE  (a \o b) \o c = a \o (b \o c)
OBVIOUS

\* A new value joins both.
LEMMA RestAppend ==
  ASSUME NEW V, NEW s \in Seq(V), NEW all \in Seq(V), NEW gone, NEW x \in V,
         IsRest(s, all, gone), x \notin Elements(all), gone \subseteq Elements(all)
  PROVE  IsRest(Append(s, x), Append(all, x), gone)
<1> DEFINE t == Append(s, x)  more == Append(all, x)
<1>1. /\ DOMAIN t = 1..(Len(s) + 1) /\ DOMAIN s = 1..Len(s) /\ Len(s) \in Nat
      /\ t[Len(s) + 1] = x /\ \A k \in 1..Len(s) : t[k] = s[k]
  OBVIOUS
<1>2. /\ DOMAIN more = 1..(Len(all) + 1) /\ DOMAIN all = 1..Len(all) /\ Len(all) \in Nat
      /\ more[Len(all) + 1] = x /\ \A k \in 1..Len(all) : more[k] = all[k]
  OBVIOUS
<1>3. ASSUME NEW j \in DOMAIN more, NEW k \in DOMAIN more, j # k PROVE more[j] # more[k]
  BY <1>2, <1>3 DEF IsRest, Elements
<1>4. Elements(t) = Elements(more) \ gone
  BY ElementsAppend DEF IsRest
<1>5. ASSUME NEW j \in DOMAIN t, NEW k \in DOMAIN t, j < k PROVE Before(more, t[j], t[k])
  <2>1. j \in DOMAIN s /\ t[j] = s[j]
    BY <1>1, <1>5
  <2>2. CASE k \in DOMAIN s
    <3>1. Before(all, s[j], s[k]) /\ t[k] = s[k]
      BY <1>1, <1>5, <2>1, <2>2 DEF IsRest
    <3>. QED BY <1>2, <2>1, <3>1 DEF Before
  <2>3. CASE k = Len(s) + 1
    <3>1. s[j] \in Elements(all)
      BY <2>1 DEF IsRest, Elements
    <3>2. PICK i \in DOMAIN all : all[i] = s[j]
      BY <3>1 DEF Elements
    <3>3. i < Len(all) + 1 /\ more[i] = t[j] /\ more[Len(all) + 1] = t[k]
      BY <1>1, <1>2, <2>1, <2>3, <3>2
    <3>. QED BY <1>2, <3>3 DEF Before
  <2>. QED BY <1>1, <2>2, <2>3
<1>. QED BY <1>3, <1>4, <1>5 DEF IsRest

\* What is cut out of the middle is gone.
LEMMA RestCut ==
  ASSUME NEW V, NEW a \in Seq(V), NEW m \in Seq(V), NEW c \in Seq(V), NEW all \in Seq(V), NEW gone,
         IsRest((a \o m) \o c, all, gone)
  PROVE  IsRest(a \o c, all, gone \cup Elements(m))
<1> DEFINE s == (a \o m) \o c  t == a \o c
           at(k) == IF k <= Len(a) THEN k ELSE k + Len(m)
<1>1. /\ DOMAIN s = 1..(Len(a) + Len(m) + Len(c)) /\ DOMAIN t = 1..(Len(a) + Len(c))
      /\ DOMAIN a = 1..Len(a) /\ DOMAIN m = 1..Len(m) /\ DOMAIN c = 1..Len(c)
      /\ Len(a) \in Nat /\ Len(m) \in Nat /\ Len(c) \in Nat
  OBVIOUS
<1>2. \A k \in DOMAIN t : at(k) \in DOMAIN s /\ s[at(k)] = t[k]
  OBVIOUS
<1>3. \A k \in DOMAIN m : k + Len(a) \in DOMAIN s /\ s[k + Len(a)] = m[k]
  OBVIOUS
<1>4. \A j, k \in DOMAIN s : j # k => s[j] # s[k]
  <2>1. ASSUME NEW j \in DOMAIN s, NEW k \in DOMAIN s, j < k PROVE s[j] # s[k]
    <3>1. Before(all, s[j], s[k])
      BY <2>1 DEF IsRest
    <3>2. PICK i, n \in DOMAIN all : i < n /\ all[i] = s[j] /\ all[n] = s[k]
      BY <3>1 DEF Before
    <3>3. i # n
      BY <3>2
    <3>. QED BY <3>2, <3>3 DEF IsRest
  <2>2. \A j, k \in DOMAIN s : j # k => j < k \/ k < j
    BY <1>1
  <2> HIDE DEF s
  <2>. QED BY <2>1, <2>2
<1>5. ASSUME NEW k \in DOMAIN t, NEW i \in DOMAIN m PROVE t[k] # m[i]
  <2>1. at(k) # i + Len(a)
    BY <1>1
  <2>. QED BY <1>2, <1>3, <1>4, <2>1
<1>6. Elements(t) \cap Elements(m) = {}
  BY <1>5 DEF Elements
<1>7. Elements(s) = Elements(t) \cup Elements(m)
  <2>1. a \o m \in Seq(V)
    OBVIOUS
  <2>2. PICK am \in Seq(V) : am = a \o m
    BY <2>1
  <2>3. Elements(am \o c) = Elements(am) \cup Elements(c)
    BY ElementsConcat
  <2>4. Elements(a \o m) = Elements(a) \cup Elements(m)
    BY ElementsConcat
  <2>5. Elements(a \o c) = Elements(a) \cup Elements(c)
    BY ElementsConcat
  <2>6. s = am \o c /\ t = a \o c
    BY <2>2, Zenon
  <2> HIDE DEF s, t
  <2>. QED BY <2>2, <2>3, <2>4, <2>5, <2>6
<1>8. Elements(t) = Elements(all) \ (gone \cup Elements(m))
  BY <1>6, <1>7 DEF IsRest
<1>9. ASSUME NEW j \in DOMAIN t, NEW k \in DOMAIN t, j < k PROVE Before(all, t[j], t[k])
  <2>1. at(j) < at(k)
    BY <1>1, <1>9
  <2>2. Before(all, s[at(j)], s[at(k)])
    BY <1>2, <2>1 DEF IsRest
  <2>. QED BY <1>2, <2>2
<1>. QED BY <1>8, <1>9 DEF IsRest
-----------------------------------------------------------------------------
(* From the queues to the hosts.                                            *)

\* What is in flight only changes for the output of the step.
LEMMA SameFlow ==
  ASSUME NEW o \in Outputs, InOrderOnceOrLost,
         UNCHANGED <<received[o], wire[o], sender[o].value, queueValues[o], accepted[o], lost[o]>>
  PROVE  IsRest(InFlight(o), accepted[o], lost[o])'
<1>1. InFlight(o)' = InFlight(o)
  BY DEF InFlight, InHand
<1>. QED BY <1>1 DEF InOrderOnceOrLost, IsRest, Elements, Before

\* The parts of what is in flight are sequences of values.
LEMMA FlightType ==
  ASSUME StateInv, NEW o \in Outputs
  PROVE  /\ received[o] \in Seq(Values) /\ wire[o] \in Seq(Values) /\ InHand(o) \in Seq(Values)
         /\ queueValues[o] \in Seq(Values) /\ accepted[o] \in Seq(Values)
         /\ received[o] \o wire[o] \in Seq(Values)
         /\ (received[o] \o wire[o]) \o InHand(o) \in Seq(Values)
         /\ InFlight(o) \in Seq(Values)
<1>1. /\ received[o] \in Seq(Values) /\ wire[o] \in Seq(Values)
      /\ queueValues[o] \in Seq(Values) /\ accepted[o] \in Seq(Values)
      /\ sender[o].value \in Values \cup {NoValue}
  BY DEF StateInv, NetOK, QueueOK, SenderOK
<1>2. InHand(o) \in Seq(Values)
  BY <1>1, OneMore DEF InHand
<1>. QED BY <1>1, <1>2 DEF InFlight

\* A push appends to the queue, so to what is in flight, and to what was accepted.
LEMMA PushFlow ==
  ASSUME IInv, InOrderOnceOrLost, NEW w \in Workers, PushValue(w)
  PROVE  InOrderOnceOrLost'
<1>1. PICK o \in Outputs, v \in Values : o = worker[w].out /\ v = worker[w].value
  BY PushedIsValue DEF PushValue, IInv, StateInv
<1>2. /\ queueValues'[o] = Append(queueValues[o], v) /\ accepted'[o] = Append(accepted[o], v)
      /\ \A p \in Outputs \ {o} : queueValues'[p] = queueValues[p] /\ accepted'[p] = accepted[p]
      /\ UNCHANGED <<received, wire, sender, lost>>
  BY <1>1 DEF PushValue, IInv, StateInv, QueueOK, senderVars, netVars
<1>3. v \notin Elements(accepted[o]) /\ lost[o] \subseteq Elements(accepted[o])
  BY <1>1 DEF IInv, StateInv, AcceptInv, DispatchInv, DispatchOK, PushValue, Outputs
<1>4. InFlight(o)' = Append(InFlight(o), v)
  <2> DEFINE before == (received[o] \o wire[o]) \o InHand(o)
  <2>1. before \in Seq(Values) /\ queueValues[o] \in Seq(Values)
    BY FlightType DEF IInv
  <2>2. before \o Append(queueValues[o], v) = Append(before \o queueValues[o], v)
    <3>1. PICK b \in Seq(Values), q \in Seq(Values) : b = before /\ q = queueValues[o]
      BY <2>1
    <3>2. b \o Append(q, v) = Append(b \o q, v)
      BY AppendToLast
    <3>. QED BY <3>1, <3>2, Zenon
  <2>. QED BY <1>2, <2>2 DEF InFlight, InHand
<1>5. IsRest(InFlight(o), accepted[o], lost[o])'
  <2>1. IsRest(Append(InFlight(o), v), Append(accepted[o], v), lost[o])
    <3>1. InFlight(o) \in Seq(Values) /\ accepted[o] \in Seq(Values)
      BY <1>1, FlightType DEF IInv
    <3>2. IsRest(InFlight(o), accepted[o], lost[o])
      BY <1>1 DEF InOrderOnceOrLost
    <3>. QED BY <1>1, <1>3, <3>1, <3>2, RestAppend
  <2>. QED BY <1>2, <1>4, <2>1
<1>6. \A p \in Outputs \ {o} : IsRest(InFlight(p), accepted[p], lost[p])'
  BY <1>2, SameFlow
<1>. QED BY <1>1, <1>5, <1>6 DEF InOrderOnceOrLost

\* A step that moves the boundary between two places of an output, or cuts one
\* of them out, keeps what is in flight in order.
LEMMA MoveFlow ==
  ASSUME InOrderOnceOrLost, NEW o \in Outputs, InFlight(o)' = InFlight(o),
         UNCHANGED <<accepted, lost>>,
         \A p \in Outputs \ {o} :
           UNCHANGED <<received[p], wire[p], sender[p].value, queueValues[p]>>
  PROVE  InOrderOnceOrLost'
<1>1. IsRest(InFlight(o), accepted[o], lost[o])'
  BY DEF InOrderOnceOrLost
<1>2. \A p \in Outputs \ {o} : IsRest(InFlight(p), accepted[p], lost[p])'
  BY SameFlow
<1>. QED BY <1>1, <1>2 DEF InOrderOnceOrLost

\* A step that loses a middle part of the flow to o and records it as lost
\* keeps the order of the rest: what a broken connection does to its wire.
LEMMA CutFlow ==
  ASSUME InOrderOnceOrLost, NEW o \in Outputs, UNCHANGED accepted,
         NEW a \in Seq(Values), NEW m \in Seq(Values), NEW c \in Seq(Values),
         accepted[o] \in Seq(Values),
         InFlight(o) = (a \o m) \o c, InFlight(o)' = a \o c,
         lost'[o] = lost[o] \cup Elements(m),
         \A p \in Outputs \ {o} :
           UNCHANGED <<received[p], wire[p], sender[p].value, queueValues[p], lost[p]>>
  PROVE  InOrderOnceOrLost'
<1>1. IsRest(InFlight(o), accepted[o], lost[o])'
  <2>1. IsRest((a \o m) \o c, accepted[o], lost[o])
    BY DEF InOrderOnceOrLost
  <2>2. IsRest(a \o c, accepted[o], lost[o] \cup Elements(m))
    BY <2>1, RestCut
  <2>. QED BY <2>2
<1>2. \A p \in Outputs \ {o} : IsRest(InFlight(p), accepted[p], lost[p])'
  BY SameFlow
<1>. QED BY <1>1, <1>2 DEF InOrderOnceOrLost

\* The sender takes the head of the queue in hand.
LEMMA PopFlow ==
  ASSUME IInv, InOrderOnceOrLost, NEW o \in Outputs, PopValue(o)
  PROVE  InOrderOnceOrLost'
<1> DEFINE before == received[o] \o wire[o]  q == queueValues[o]
<1>1. before \in Seq(Values) /\ q \in Seq(Values) /\ q # <<>>
  BY FlightType DEF IInv, PopValue
<1>2. InFlight(o) = (before \o <<>>) \o q
  BY DEF InFlight, InHand, PopValue, IInv, StateInv, SenderInv
<1>3. InFlight(o)' = (before \o <<Head(q)>>) \o Tail(q)
  <2>1. Head(q) # NoValue
    BY <1>1, ValuesNotNo
  <2>. QED BY <2>1 DEF InFlight, InHand, PopValue, IInv, StateInv, QueueOK, SenderOK, netVars
<1>4. (before \o <<Head(q)>>) \o Tail(q) = (before \o <<>>) \o q
  <2> HIDE DEF before, q
  <2>1. Head(q) \in Values
    BY <1>1
  <2>. QED BY <1>1, <2>1, OneMore, HeadMovesOver
<1>. QED BY <1>2, <1>3, <1>4, MoveFlow
         DEF PopValue, IInv, StateInv, QueueOK, SenderOK, netVars

\* A write puts the value on the wire, or loses it when the connection is broken.
LEMMA WriteFlow ==
  ASSUME IInv, InOrderOnceOrLost, NEW o \in Outputs, Write(o)
  PROVE  InOrderOnceOrLost'
<1> DEFINE r == received[o]  x == wire[o]  q == queueValues[o]  v == sender[o].value
<1>1. /\ r \in Seq(Values) /\ x \in Seq(Values) /\ q \in Seq(Values) /\ r \o x \in Seq(Values)
      /\ v \in Values /\ v # NoValue
  BY FlightType DEF IInv, StateInv, SenderOK, SenderInv, Write
<1>2. InFlight(o) = ((r \o x) \o <<v>>) \o q
  BY <1>1 DEF InFlight, InHand
<1>3. /\ UNCHANGED <<received, queueValues, accepted>> /\ sender'[o].value = NoValue
      /\ \A p \in Outputs \ {o} : sender'[p] = sender[p]
  BY DEF Write, SenderAfterWrite, IInv, StateInv, SenderOK, queueVars
<1>4. CASE connection[o] = "up" /\ wire' = [wire EXCEPT ![o] = Append(@, v)] /\ UNCHANGED lost
  <2>1. wire'[o] = Append(x, v) /\ \A p \in Outputs \ {o} : wire'[p] = wire[p]
    BY <1>4 DEF IInv, StateInv, NetOK
  <2>2. InFlight(o)' = ((r \o Append(x, v)) \o <<>>) \o q
    BY <1>3, <2>1 DEF InFlight, InHand
  <2>3. ((r \o Append(x, v)) \o <<>>) \o q = ((r \o x) \o <<v>>) \o q
    <3> HIDE DEF r, x, q, v
    <3>1. Append(x, v) \in Seq(Values) /\ r \o Append(x, v) = Append(r \o x, v)
      BY <1>1, AppendToLast
    <3>. QED BY <1>1, <3>1, OneMore
  <2>. QED BY <1>2, <1>3, <1>4, <2>1, <2>2, <2>3, MoveFlow
<1>5. CASE connection[o] = "broken" /\ lost' = [lost EXCEPT ![o] = @ \cup {v}] /\ UNCHANGED wire
  <2>1. lost'[o] = lost[o] \cup {v} /\ \A p \in Outputs \ {o} : lost'[p] = lost[p]
    BY <1>5 DEF IInv, StateInv, NetOK
  <2>2. InFlight(o)' = (r \o x) \o q
    <3>1. InFlight(o)' = ((r \o x) \o <<>>) \o q
      BY <1>3, <1>5 DEF InFlight, InHand
    <3> HIDE DEF r, x, q
    <3>. QED BY <1>1, <3>1
  <2>3. <<v>> \in Seq(Values) /\ Elements(<<v>>) = {v}
    <3> HIDE DEF v
    <3>. QED BY <1>1 DEF Elements
  <2>4. accepted[o] \in Seq(Values)
    BY FlightType DEF IInv
  <2>5. \A p \in Outputs \ {o} :
          UNCHANGED <<received[p], wire[p], sender[p].value, queueValues[p], lost[p]>>
    BY <1>3, <1>5, <2>1
  <2>6. PICK a \in Seq(Values), m \in Seq(Values), c \in Seq(Values) :
          InFlight(o) = (a \o m) \o c /\ InFlight(o)' = a \o c /\ Elements(m) = {v}
    BY <1>1, <1>2, <2>2, <2>3
  <2>7. lost'[o] = lost[o] \cup Elements(m) /\ accepted' = accepted
    BY <1>3, <2>1, <2>6
  <2> HIDE DEF v, r, x, q
  <2>. QED BY <2>4, <2>5, <2>6, <2>7, CutFlow, ZenonT(60)
<1>. QED BY <1>4, <1>5 DEF Write

\* A write that fails leaves the value in hand.
LEMMA WriteFailsFlow ==
  ASSUME IInv, InOrderOnceOrLost, NEW o \in Outputs,
         WriteFails(o) \/ Reconnect(o) \/ ReconnectFails(o)
  PROVE  InOrderOnceOrLost'
<1>1. UNCHANGED <<received, wire, queueValues, accepted, lost>>
  BY DEF WriteFails, Reconnect, ReconnectFails, queueVars, netVars
<1>2. \A p \in Outputs : sender'[p].value = sender[p].value
  BY DEF WriteFails, SenderAfterFailure, Reconnect, ReconnectFails, IInv, StateInv, SenderOK
<1>. QED BY <1>1, <1>2, SameFlow DEF InOrderOnceOrLost

\* The remote host gets the head of the wire.
LEMMA ReceiveFlow ==
  ASSUME IInv, InOrderOnceOrLost, NEW o \in Outputs, Receive(o)
  PROVE  InOrderOnceOrLost'
<1> DEFINE r == received[o]  x == wire[o]
<1>1. r \in Seq(Values) /\ x \in Seq(Values) /\ x # <<>>
  BY FlightType DEF IInv, Receive
<1>2. /\ received'[o] = Append(r, Head(x)) /\ wire'[o] = Tail(x)
      /\ \A p \in Outputs \ {o} : received'[p] = received[p] /\ wire'[p] = wire[p]
      /\ UNCHANGED <<sender, queueValues, accepted, lost>>
  BY DEF Receive, IInv, StateInv, NetOK, queueVars, senderVars
<1>3. Append(r, Head(x)) \o Tail(x) = r \o x
  <2> HIDE DEF r, x
  <2>. QED BY <1>1, HeadMovesOver
<1>4. InFlight(o)' = InFlight(o)
  BY <1>2, <1>3 DEF InFlight, InHand
<1>. QED BY <1>2, <1>4, MoveFlow

\* A break loses what is on the wire.
LEMMA BreakFlow ==
  ASSUME IInv, InOrderOnceOrLost, NEW o \in Outputs, Break(o)
  PROVE  InOrderOnceOrLost'
<1> DEFINE r == received[o]  x == wire[o]  h == InHand(o)  q == queueValues[o]
<1>1. /\ r \in Seq(Values) /\ x \in Seq(Values) /\ h \in Seq(Values) /\ q \in Seq(Values)
      /\ accepted[o] \in Seq(Values)
  BY FlightType DEF IInv
<1>2. /\ wire'[o] = <<>> /\ lost'[o] = lost[o] \cup Elements(x)
      /\ \A p \in Outputs \ {o} : lost'[p] = lost[p] /\ wire'[p] = wire[p]
      /\ UNCHANGED <<received, sender, queueValues, accepted>>
  BY DEF Break, IInv, StateInv, NetOK, queueVars, Elements
<1>3. InFlight(o) = ((r \o x) \o h) \o q /\ InFlight(o)' = ((r \o <<>>) \o h) \o q
  BY <1>2 DEF InFlight, InHand
<1>4. /\ h \o q \in Seq(Values) /\ r \o x \in Seq(Values)
      /\ ((r \o x) \o h) \o q = (r \o x) \o (h \o q)
      /\ ((r \o <<>>) \o h) \o q = r \o (h \o q)
  <2> HIDE DEF r, x, h, q
  <2>1. r \o <<>> = r /\ r \o x \in Seq(Values) /\ h \o q \in Seq(Values)
    BY <1>1
  <2>2. ((r \o x) \o h) \o q = (r \o x) \o (h \o q)
    <3>1. PICK b \in Seq(Values), c \in Seq(Values), d \in Seq(Values) : b = r \o x /\ c = h /\ d = q
      BY <1>1, <2>1
    <3>2. (b \o c) \o d = b \o (c \o d)
      BY Regroup
    <3>. QED BY <3>1, <3>2
  <2>3. (r \o h) \o q = r \o (h \o q)
    BY <1>1, Regroup
  <2>. QED BY <2>1, <2>2, <2>3
<1>5. PICK a \in Seq(Values), m \in Seq(Values), c \in Seq(Values) :
        InFlight(o) = (a \o m) \o c /\ InFlight(o)' = a \o c /\ Elements(m) = Elements(x)
  BY <1>1, <1>3, <1>4
<1>6. lost'[o] = lost[o] \cup Elements(m) /\ accepted' = accepted
  BY <1>2, <1>5
<1>7. \A p \in Outputs \ {o} :
        UNCHANGED <<received[p], wire[p], sender[p].value, queueValues[p], lost[p]>>
  BY <1>2
<1>8. accepted[o] \in Seq(Values)
  BY <1>1
<1> HIDE DEF r, x, h, q
<1>. QED BY <1>5, <1>6, <1>7, <1>8, CutFlow

\* All steps together.
LEMMA FlowStep ==
  ASSUME IInv, InOrderOnceOrLost, [Next]_vars
  PROVE  InOrderOnceOrLost'
<1>1. ASSUME NEW w \in Workers, Pop(w) \/ LockOutputs(w) \/ DropValue(w) \/ UnlockOutputs(w) \/ Account(w)
      PROVE  UNCHANGED <<received, wire, sender, queueValues, accepted, lost>>
  BY <1>1 DEF Pop, LockOutputs, DropValue, UnlockOutputs, Account, queueVars, senderVars, netVars
<1>2. ASSUME UNCHANGED <<received, wire, sender, queueValues, accepted, lost>>
      PROVE  InOrderOnceOrLost'
  BY <1>2, SameFlow DEF InOrderOnceOrLost
<1>3. CASE UNCHANGED vars
  BY <1>2, <1>3 DEF vars, queueVars, senderVars, netVars
<1>4. CASE \E w \in Workers : WorkerStep(w)
  BY <1>1, <1>2, <1>4, PushFlow DEF WorkerStep
<1>5. ASSUME NEW o \in Outputs, \/ Reconnect(o) \/ ReconnectFails(o) \/ PopValue(o) \/ Write(o)
                                 \/ WriteFails(o) \/ Receive(o) \/ Break(o)
      PROVE  InOrderOnceOrLost'
  BY <1>5, PopFlow, WriteFlow, WriteFailsFlow, ReceiveFlow, BreakFlow
<1>. QED BY <1>3, <1>4, <1>5, StepCases

\* What a sender writes, and what is on the wire, was accepted.
LEMMA FlightAccepted ==
  ASSUME IInv, InOrderOnceOrLost, NEW o \in Outputs
  PROVE  /\ Elements(wire[o]) \subseteq Elements(accepted[o])
         /\ Elements(InHand(o)) \subseteq Elements(accepted[o])
<1>1. Elements(InFlight(o)) \subseteq Elements(accepted[o])
  BY DEF InOrderOnceOrLost, IsRest
<1>2. Elements(InFlight(o))
        = ((Elements(received[o]) \cup Elements(wire[o])) \cup Elements(InHand(o)))
            \cup Elements(queueValues[o])
  <2>1. /\ received[o] \in Seq(Values) /\ wire[o] \in Seq(Values) /\ InHand(o) \in Seq(Values)
        /\ queueValues[o] \in Seq(Values)
    BY FlightType DEF IInv
  <2>2. InFlight(o) = ((received[o] \o wire[o]) \o InHand(o)) \o queueValues[o]
    BY DEF InFlight
  <2> HIDE DEF InHand, InFlight
  <2>3. PICK a \in Seq(Values), b \in Seq(Values), c \in Seq(Values), d \in Seq(Values) :
          a = received[o] /\ b = wire[o] /\ c = InHand(o) /\ d = queueValues[o]
    BY <2>1
  <2>4. Elements(((a \o b) \o c) \o d)
          = ((Elements(a) \cup Elements(b)) \cup Elements(c)) \cup Elements(d)
    BY ElementsOfFour
  <2>. QED BY <2>2, <2>3, <2>4
<1>. QED BY <1>1, <1>2

\* What was accepted, and who pushes it: one case per action.
LEMMA AcceptStep ==
  ASSUME IInv, InOrderOnceOrLost, [Next]_vars
  PROVE  AcceptInv'
<1> USE DEF IInv, StateInv, DispatchInv, DispatchOK, WorkerInv, AcceptInv
<1>1. ASSUME NEW w \in Workers, Pop(w) PROVE AcceptInv'
  <2>1. /\ popped' = popped + 1 /\ popped' \notin 1..popped /\ UNCHANGED <<accepted, lost>>
        /\ worker'[w].pc = "lock" /\ worker'[w].value = popped'
        /\ \A u \in Workers \ {w} : worker'[u] = worker[u]
    BY <1>1 DEF Pop, queueVars, netVars
  <2>. QED BY <2>1, SMTT(40)
<1>2. ASSUME NEW w \in Workers, LockOutputs(w) PROVE AcceptInv'
  <2>1. /\ worker'[w].pc = "push" /\ worker'[w].value = worker[w].value /\ worker'[w].out = 1
        /\ \A u \in Workers \ {w} : worker'[u] = worker[u]
        /\ worker[w].pc = "lock" /\ UNCHANGED <<popped, accepted, lost>>
    BY <1>2 DEF LockOutputs, queueVars, netVars
  <2>2. \A o \in Outputs : ~(o < 1)
    BY DEF Outputs
  <2>. QED BY <2>1, <2>2
<1>3. ASSUME NEW w \in Workers, PushValue(w) PROVE AcceptInv'
  <2>1. PICK o \in Outputs, v \in Values : o = worker[w].out /\ v = worker[w].value /\ v \in 1..popped
    BY <1>3, PushedIsValue DEF PushValue
  <2>2. /\ accepted'[o] = Append(accepted[o], v)
        /\ \A p \in Outputs \ {o} : accepted'[p] = accepted[p]
        /\ UNCHANGED <<popped, lost>>
        /\ worker[w].pc = "push" /\ worker'[w].pc = "push" /\ worker'[w].value = v
        /\ worker'[w].out = o + 1
        /\ \A u \in Workers \ {w} : worker'[u] = worker[u]
    BY <1>3, <2>1 DEF PushValue, QueueOK, netVars
  <2>3. Elements(accepted'[o]) = Elements(accepted[o]) \cup {v} /\ v \notin Elements(accepted[o])
    BY <2>1, <2>2, ElementsAppend DEF QueueOK, Outputs
  <2>4. \A u \in Workers \ {w} : worker'[u].pc # "push" /\ (worker'[u].pc = "lock" => worker'[u].value # v)
    BY <1>3, <2>1, <2>2, ValuesNotNo
  <2>5. \A k \in DOMAIN accepted'[o] : accepted'[o][k] = v => k = Len(accepted'[o])
    <3>1. accepted[o] \in Seq(Values)
      BY DEF QueueOK
    <3>2. \A k \in DOMAIN accepted[o] : accepted[o][k] # v
      BY <2>3 DEF Elements
    <3>. QED BY <2>1, <2>2, <3>1, <3>2
  <2>6. ASSUME NEW p \in Outputs, p # o PROVE p < o + 1 <=> p < o
    BY <2>6 DEF Outputs
  <2>7. o < o + 1
    BY DEF Outputs
  <2>8. \A p \in Outputs : Elements(accepted'[p]) =
                            IF p = o THEN Elements(accepted[p]) \cup {v} ELSE Elements(accepted[p])
    BY <2>2, <2>3
  <2>9. \A p \in Outputs : /\ Elements(accepted[p]) \subseteq 1..popped
                           /\ lost[p] \subseteq Elements(accepted[p])
    OBVIOUS
  <2>10. \A p \in Outputs : /\ Elements(accepted'[p]) \subseteq 1..popped'
                            /\ lost'[p] \subseteq Elements(accepted'[p])
    <3>1. \A p \in Outputs : Elements(accepted'[p]) = Elements(accepted[p])
                               \/ Elements(accepted'[p]) = Elements(accepted[p]) \cup {v}
      BY <2>8
    <3>2. popped' = popped /\ lost' = lost /\ v \in 1..popped
      BY <2>1, <2>2
    <3> HIDE DEF IInv, AcceptInv, StateInv, DispatchInv, DispatchOK, WorkerInv, Elements
    <3>. QED BY <2>9, <3>1, <3>2
  <2>11. ASSUME NEW p \in Outputs, NEW u \in Workers, worker'[u].pc = "lock"
         PROVE worker'[u].value \notin Elements(accepted'[p])
    <3>1. u # w /\ worker'[u] = worker[u] /\ worker[u].value # v
      BY <2>2, <2>4, <2>11
    <3>2. worker[u].value \notin Elements(accepted[p])
      BY <2>11, <3>1
    <3> HIDE DEF IInv, AcceptInv
    <3>. QED BY <2>8, <3>1, <3>2
  <2>12. ASSUME NEW p \in Outputs, NEW u \in Workers, worker'[u].pc = "push"
         PROVE IF p < worker'[u].out
                 THEN \A k \in DOMAIN accepted'[p] :
                        accepted'[p][k] = worker'[u].value => k = Len(accepted'[p])
                 ELSE worker'[u].value \notin Elements(accepted'[p])
    <3>1. u = w
      BY <2>4, <2>12
    <3>2. CASE p = o
      BY <2>2, <2>5, <2>7, <3>1, <3>2
    <3>3. CASE p # o
      BY <2>1, <2>2, <2>6, <3>1, <3>3
    <3>. QED BY <3>2, <3>3
  <2> HIDE DEF IInv
  <2>. QED BY <2>10, <2>11, <2>12
<1>4. ASSUME NEW w \in Workers, DropValue(w) PROVE AcceptInv'
  <2>1. PICK o \in Outputs : o = worker[w].out
    BY <1>4 DEF DropValue
  <2>2. /\ UNCHANGED <<popped, lost, accepted>>
        /\ worker[w].pc = "push" /\ worker'[w].pc = "push" /\ worker'[w].value = worker[w].value
        /\ worker'[w].out = o + 1
        /\ \A u \in Workers \ {w} : worker'[u] = worker[u]
    BY <1>4, <2>1 DEF DropValue, NextOutput, netVars
  <2>3. worker[w].value \notin Elements(accepted[o])
    BY <2>1, <2>2 DEF Outputs
  <2>6. ASSUME NEW p \in Outputs, p # o PROVE p < o + 1 <=> p < o
    BY <2>6 DEF Outputs
  <2>7. \A k \in DOMAIN accepted[o] : accepted[o][k] # worker[w].value
    BY <2>3 DEF Elements
  <2>. QED BY <2>1, <2>2, <2>3, <2>6, <2>7
<1>5. ASSUME NEW w \in Workers, UnlockOutputs(w) PROVE AcceptInv'
  <2>1. /\ UNCHANGED <<popped, lost, accepted>> /\ worker'[w].pc = "account"
        /\ \A u \in Workers \ {w} : worker'[u] = worker[u]
    BY <1>5 DEF UnlockOutputs, queueVars, netVars
  <2>. QED BY <2>1
<1>6. ASSUME NEW w \in Workers, Account(w) PROVE AcceptInv'
  <2>1. /\ UNCHANGED <<popped, lost, accepted>> /\ worker'[w].pc = "idle"
        /\ \A u \in Workers \ {w} : worker'[u] = worker[u]
    BY <1>6 DEF Account, IdleWorker, queueVars, netVars
  <2>. QED BY <2>1
<1>7. ASSUME UNCHANGED <<popped, worker, accepted>>,
             \A o \in Outputs : lost'[o] \subseteq Elements(accepted[o])
      PROVE  AcceptInv'
  BY <1>7
<1>8. ASSUME NEW o \in Outputs, Write(o) \/ Break(o)
      PROVE  \A p \in Outputs : lost'[p] \subseteq Elements(accepted[p])
  <2>1. \/ lost' = lost
        \/ lost' = [lost EXCEPT ![o] = @ \cup Elements(InHand(o))]
        \/ lost' = [lost EXCEPT ![o] = @ \cup Elements(wire[o])]
    <3>1. CASE Write(o)
      <4>1. sender[o].value # NoValue /\ Elements(<<sender[o].value>>) = {sender[o].value}
        BY <3>1 DEF Write, SenderInv, Elements
      <4>. QED BY <3>1, <4>1 DEF Write, InHand
    <3>2. CASE Break(o)
      BY <3>2 DEF Break, Elements
    <3>. QED BY <1>8, <3>1, <3>2
  <2>2. lost \in [Outputs -> SUBSET Values]
    BY DEF NetOK
  <2>3. /\ Elements(InHand(o)) \subseteq Elements(accepted[o])
        /\ Elements(wire[o]) \subseteq Elements(accepted[o])
    BY FlightAccepted
  <2>4. \A p \in Outputs : lost[p] \subseteq Elements(accepted[p])
    OBVIOUS
  <2>. QED BY <2>1, <2>2, <2>3, <2>4
<1>9. ASSUME \/ \E o \in Outputs : Reconnect(o) \/ ReconnectFails(o) \/ PopValue(o)
                                     \/ WriteFails(o) \/ Receive(o)
             \/ UNCHANGED vars
      PROVE  UNCHANGED lost
  BY <1>9 DEF vars, netVars, Reconnect, ReconnectFails, PopValue, WriteFails, Receive
<1>. QED
  <2>1. CASE \E w \in Workers : WorkerStep(w)
    BY <2>1, <1>1, <1>2, <1>3, <1>4, <1>5, <1>6 DEF WorkerStep
  <2>2. CASE \/ \E o \in Outputs : Reconnect(o) \/ ReconnectFails(o) \/ PopValue(o) \/ Write(o)
                                     \/ WriteFails(o) \/ Receive(o) \/ Break(o)
             \/ UNCHANGED vars
    <3>1. UNCHANGED <<popped, worker, accepted>>
      BY <2>2, NotTheWorkers
    <3>2. \A o \in Outputs : lost'[o] \subseteq Elements(accepted[o])
      BY <2>2, <1>8, <1>9
    <3>. QED BY <3>1, <3>2, <1>7
  <2>. QED BY <2>1, <2>2, StepCases
-----------------------------------------------------------------------------
(* The outputs see the events in one order.                                 *)

\* What a push adds to the order of a queue is behind everything in it.
LEMMA BeforeAppend ==
  ASSUME NEW V, NEW s \in Seq(V), NEW v \in V, NEW x, NEW y, y # v,
         Before(Append(s, v), x, y)
  PROVE  Before(s, x, y)
<1>1. /\ DOMAIN Append(s, v) = 1..(Len(s) + 1) /\ DOMAIN s = 1..Len(s) /\ Len(s) \in Nat
      /\ Append(s, v)[Len(s) + 1] = v
      /\ \A k \in 1..Len(s) : Append(s, v)[k] = s[k]
  OBVIOUS
<1>2. PICK j, k \in 1..(Len(s) + 1) : j < k /\ Append(s, v)[j] = x /\ Append(s, v)[k] = y
  BY <1>1 DEF Before
<1>3. k # Len(s) + 1
  BY <1>1, <1>2
<1>4. j \in 1..Len(s) /\ k \in 1..Len(s)
  BY <1>1, <1>2, <1>3
<1>. QED BY <1>1, <1>2, <1>4 DEF Before

\* A value that is last, or absent, is before no other.
LEMMA LastBeforeNone ==
  ASSUME NEW V, NEW s \in Seq(V), NEW v, NEW y,
         (\A k \in DOMAIN s : s[k] = v => k = Len(s)) \/ v \notin Elements(s)
  PROVE  ~Before(s, v, y)
<1> SUFFICES ASSUME Before(s, v, y) PROVE FALSE
  OBVIOUS
<1>1. PICK j, k \in DOMAIN s : j < k /\ s[j] = v
  BY DEF Before
<1>2. v \in Elements(s)
  BY <1>1 DEF Elements
<1>3. DOMAIN s = 1..Len(s) /\ Len(s) \in Nat
  OBVIOUS
<1>. QED BY <1>1, <1>2, <1>3

\* Only a push can disturb the order, and the thread that pushes is in all the
\* queues it was at behind everything else.
LEMMA OneOrderStep ==
  ASSUME IInv, InOrderOnceOrLost, OneOrder, [Next]_vars
  PROVE  OneOrder'
<1>1. ASSUME UNCHANGED accepted PROVE OneOrder'
  BY <1>1 DEF OneOrder, Before
<1>2. ASSUME NEW w \in Workers, PushValue(w) PROVE OneOrder'
  <2>1. PICK o \in Outputs, v \in Values : o = worker[w].out /\ v = worker[w].value
    BY <1>2, PushedIsValue DEF PushValue, IInv, StateInv
  <2>2. \A p \in Outputs : /\ accepted[p] \in Seq(Values)
                           /\ accepted'[p] = accepted[p] \/ accepted'[p] = Append(accepted[p], v)
    BY <1>2, <2>1 DEF PushValue, IInv, StateInv, QueueOK
  <2>3. worker'[w].pc = "push" /\ worker'[w].value = v
    BY <1>2, <2>1 DEF PushValue, IInv, StateInv, DispatchInv, DispatchOK
  <2>4. AcceptInv'
    BY AcceptStep
  <2>5. ASSUME NEW p \in Outputs, NEW y \in Values PROVE ~Before(accepted'[p], v, y)
    <3>1. accepted'[p] \in Seq(Values)
      BY QueueStep DEF IInv, QueueOK
    <3>2. (\A k \in DOMAIN accepted'[p] : accepted'[p][k] = v => k = Len(accepted'[p]))
            \/ v \notin Elements(accepted'[p])
      <4>1. IF p < worker'[w].out
              THEN \A k \in DOMAIN accepted'[p] :
                     accepted'[p][k] = worker'[w].value => k = Len(accepted'[p])
              ELSE worker'[w].value \notin Elements(accepted'[p])
        BY <2>3, <2>4 DEF AcceptInv
      <4>. QED BY <2>3, <4>1
    <3>. QED BY <3>1, <3>2, LastBeforeNone
  <2>6. ASSUME NEW p \in Outputs, NEW x \in Values, NEW y \in Values, y # v,
               Before(accepted'[p], x, y)
        PROVE  Before(accepted[p], x, y)
    <3>1. CASE accepted'[p] = Append(accepted[p], v)
      BY <2>1, <2>2, <2>6, <3>1, BeforeAppend
    <3>. QED BY <2>2, <2>6, <3>1
  <2>7. ASSUME NEW p \in Outputs, NEW q \in Outputs, NEW x \in Values, NEW y \in Values,
               x # y, Before(accepted'[p], x, y), Before(accepted'[q], y, x)
        PROVE  FALSE
    <3>1. x # v /\ y # v
      BY <2>5, <2>7
    <3>2. Before(accepted[p], x, y) /\ Before(accepted[q], y, x)
      BY <2>6, <2>7, <3>1
    <3>. QED BY <2>7, <3>2 DEF OneOrder
  <2>8. OneOrder' <=> \A p, q \in Outputs, x, y \in Values :
                        x # y /\ Before(accepted'[p], x, y) => ~Before(accepted'[q], y, x)
    BY DEF OneOrder, Before
  <2>. QED BY <2>7, <2>8
<1>3. ASSUME NEW w \in Workers, WorkerStep(w), ~PushValue(w) PROVE UNCHANGED accepted
  BY <1>3 DEF WorkerStep, Pop, LockOutputs, DropValue, UnlockOutputs, Account, queueVars
<1>4. CASE \E w \in Workers : WorkerStep(w)
  BY <1>1, <1>2, <1>3, <1>4
<1>. QED BY <1>1, <1>4, StepCases, NotTheWorkers
-----------------------------------------------------------------------------
(* The counters.                                                            *)

\* Values offered: a push or a drop offers the value to one more output, and
\* nothing else does.
LEMMA OfferedSame ==
  ASSUME DispatchInv, NEW o \in Outputs, NEW w \in Workers,
         Pop(w) \/ LockOutputs(w) \/ UnlockOutputs(w) \/ Account(w)
  PROVE  Offered(o)' = Offered(o)
<1> USE DEF DispatchInv, DispatchOK, WorkerInv
<1>1. \A u \in Workers \ {w} : worker'[u] = worker[u]
  BY DEF Pop, LockOutputs, UnlockOutputs, Account
<1>2. o \in Nat /\ o >= 1 /\ o <= NumOutputs /\ NumOutputs \in Nat
  BY FanoutAssumption DEF Outputs
<1>3. CASE Pop(w)
  <2>1. /\ popped' = popped + 1 /\ worker'[w].pc = "lock" /\ worker'[w].value = popped + 1
        /\ worker[w].value = 0
    BY <1>3 DEF Pop, NoValue
  <2>2. \A x \in 1..popped : worker'[w].value # x /\ worker[w].value # x
    BY <2>1
  <2>3. \A x \in 1..popped' : x \in 1..popped \/ x = popped + 1
    BY <2>1
  <2>. QED BY <1>1, <2>1, <2>2, <2>3 DEF Offered
<1>4. CASE LockOutputs(w)
  <2>1. /\ popped' = popped /\ worker'[w].value = worker[w].value /\ worker[w].pc = "lock"
        /\ worker'[w].out = 1
    BY <1>4 DEF LockOutputs
  <2>. QED BY <1>1, <1>2, <2>1 DEF Offered
<1>5. CASE UnlockOutputs(w)
  <2>1. /\ popped' = popped /\ worker'[w].value = worker[w].value /\ worker[w].pc = "push"
        /\ worker'[w].out = worker[w].out /\ worker'[w].pc = "account"
    BY <1>5 DEF UnlockOutputs
  <2>. QED BY <1>1, <2>1 DEF Offered
<1>6. CASE Account(w)
  <2>1. /\ popped' = popped /\ worker'[w].value = 0 /\ worker[w].pc = "account"
        /\ worker[w].out > o
    BY <1>2, <1>6 DEF Account, IdleWorker, NoValue
  <2>. QED BY <1>1, <2>1 DEF Offered
<1>. QED BY <1>3, <1>4, <1>5, <1>6

\* A value that is taken or refused by its output is offered to it from then
\* on, was not before, and for no other output does anything change.
LEMMA OfferedMore ==
  ASSUME DispatchInv, NEW w \in Workers, PushValue(w) \/ DropValue(w)
  PROVE  /\ worker[w].out \in Outputs /\ worker[w].value \notin Offered(worker[w].out)
         /\ \A o \in Outputs :
              Offered(o)' = IF o = worker[w].out THEN Offered(o) \cup {worker[w].value}
                                                 ELSE Offered(o)
<1> USE DEF DispatchInv, DispatchOK, WorkerInv
<1>1. PICK p \in Outputs : p = worker[w].out /\ worker[w].pc = "push"
  BY DEF PushValue, DropValue
<1>2. /\ popped' = popped /\ worker'[w].value = worker[w].value /\ worker'[w].pc = "push"
      /\ worker'[w].out = p + 1 /\ \A u \in Workers \ {w} : worker'[u] = worker[u]
  BY <1>1 DEF PushValue, DropValue, NextOutput
<1>3. p \in Nat
  BY DEF Outputs
<1>4. worker[w].value \notin Offered(p)
  BY <1>1, <1>3 DEF Offered
<1>5. worker[w].value \in 1..popped
  BY <1>1, PushedIsValue
<1>6. \A u \in Workers \ {w} : worker[u].value # worker[w].value
  BY <1>5 DEF NoValue
<1>7. ASSUME NEW o \in Outputs, o # p PROVE Offered(o)' = Offered(o)
  <2>1. o > p <=> o + 0 > p
    BY <1>3 DEF Outputs
  <2>2. p > o <=> p + 1 > o
    BY <1>3, <1>7 DEF Outputs
  <2>. QED BY <1>1, <1>2, <2>2 DEF Offered
<1>8. Offered(p)' = Offered(p) \cup {worker[w].value}
  <2>1. \A x \in 1..popped : x \in Offered(p)' <=> x \in Offered(p) \/ x = worker[w].value
    BY <1>1, <1>2, <1>3, <1>6 DEF Offered
  <2>. QED BY <1>2, <1>5, <2>1 DEF Offered
<1>. QED BY <1>1, <1>4, <1>7, <1>8

\* Only finitely many were, so that they can be counted.
LEMMA OfferedFinite ==
  ASSUME DispatchInv, NEW o \in Outputs
  PROVE  IsFiniteSet(Offered(o)) /\ Cardinality(Offered(o)) \in Nat
<1>1. popped \in Int
  BY DEF DispatchInv, DispatchOK
<1>2. IsFiniteSet(1..popped)
  BY <1>1, FS_Interval
<1>. QED BY <1>2, FS_Subset, FS_CardinalityType DEF Offered

\* How much an output has of what it has not processed: v in hand and q queued.
LEMMA HandLength ==
  ASSUME NEW v \in Values \cup {NoValue}, NEW q \in Seq(Values)
  PROVE  Len((IF v = NoValue THEN <<>> ELSE <<v>>) \o q)
           = (IF v = NoValue THEN 0 ELSE 1) + Len(q)
OBVIOUS

\* Dropped and accepted values are the offered ones.
LEMMA OfferedStep ==
  ASSUME IInv, OutputStatsAddUp, [Next]_vars, NEW o \in Outputs
  PROVE  (dropped[o] + Len(accepted[o]) = Cardinality(Offered(o)))'
<1>1. /\ dropped[o] + Len(accepted[o]) = Cardinality(Offered(o))
      /\ dropped[o] \in Nat /\ accepted[o] \in Seq(Values) /\ DispatchInv
  BY DEF OutputStatsAddUp, IInv, StateInv, QueueOK
<1>2. ASSUME Offered(o)' = Offered(o), UNCHANGED <<dropped, accepted>>
      PROVE  (dropped[o] + Len(accepted[o]) = Cardinality(Offered(o)))'
  BY <1>1, <1>2
<1>3. ASSUME NEW w \in Workers, Pop(w) \/ LockOutputs(w) \/ UnlockOutputs(w) \/ Account(w)
      PROVE  Offered(o)' = Offered(o) /\ UNCHANGED <<dropped, accepted>>
  BY <1>1, <1>3, OfferedSame DEF Pop, LockOutputs, UnlockOutputs, Account, queueVars
<1>4. ASSUME NEW w \in Workers, PushValue(w) \/ DropValue(w)
      PROVE  (dropped[o] + Len(accepted[o]) = Cardinality(Offered(o)))'
  <2>1. /\ worker[w].out \in Outputs /\ worker[w].value \notin Offered(worker[w].out)
        /\ Offered(o)' = IF o = worker[w].out THEN Offered(o) \cup {worker[w].value}
                                              ELSE Offered(o)
    BY <1>1, <1>4, OfferedMore
  <2>2. CASE o # worker[w].out
    <3>1. dropped'[o] = dropped[o] /\ accepted'[o] = accepted[o]
      BY <1>4, <2>2 DEF PushValue, DropValue, IInv, StateInv, QueueOK
    <3>. QED BY <1>1, <2>1, <2>2, <3>1
  <2>3. CASE o = worker[w].out
    <3>1. Cardinality(Offered(o)') = Cardinality(Offered(o)) + 1
      <4>1. PICK S, x : S = Offered(o) /\ x = worker[w].value /\ x \notin S /\ IsFiniteSet(S)
        BY <1>1, <2>1, <2>3, OfferedFinite
      <4>2. Cardinality(S \cup {x}) = Cardinality(S) + 1
        BY <4>1, FS_AddElement
      <4>. QED BY <2>1, <2>3, <4>1, <4>2
    <3>2. worker[w].value \in Values
      BY <1>1, <1>4, PushedIsValue DEF PushValue, DropValue
    <3>3. \/ dropped'[o] = dropped[o] + 1 /\ accepted'[o] = accepted[o]
          \/ dropped'[o] = dropped[o] /\ accepted'[o] = Append(accepted[o], worker[w].value)
      BY <1>4, <2>3 DEF PushValue, DropValue, IInv, StateInv, QueueOK
    <3>4. dropped'[o] + Len(accepted'[o]) = dropped[o] + Len(accepted[o]) + 1
      <4>1. Len(Append(accepted[o], worker[w].value)) = Len(accepted[o]) + 1 /\ Len(accepted[o]) \in Nat
        BY <1>1, <3>2
      <4>2. CASE dropped'[o] = dropped[o] + 1 /\ accepted'[o] = accepted[o]
        BY <1>1, <4>1, <4>2
      <4>3. CASE dropped'[o] = dropped[o] /\ accepted'[o] = Append(accepted[o], worker[w].value)
        <5>1. Len(accepted'[o]) = Len(accepted[o]) + 1
          BY <4>1, <4>3, Zenon
        <5>2. dropped'[o] = dropped[o]
          BY <4>3, Zenon
        <5>3. PICK n \in Nat, d \in Nat : n = Len(accepted[o]) /\ d = dropped[o]
          BY <1>1, <4>1
        <5>. QED BY <5>1, <5>2, <5>3
      <4>. QED BY <3>3, <4>2, <4>3
    <3>. QED BY <1>1, <3>1, <3>4
  <2>. QED BY <2>2, <2>3
<1>5. CASE \E w \in Workers : WorkerStep(w)
  BY <1>2, <1>3, <1>4, <1>5 DEF WorkerStep
<1>6. ASSUME UNCHANGED <<popped, worker, accepted, dropped>>
      PROVE  Offered(o)' = Offered(o) /\ UNCHANGED <<dropped, accepted>>
  BY <1>6 DEF Offered
<1>. QED BY <1>2, <1>5, <1>6, StepCases, NotTheWorkers

\* What was accepted is queued, at the sender or processed.
LEMMA ProcessedStep ==
  ASSUME IInv, OutputStatsAddUp, [Next]_vars, NEW o \in Outputs
  PROVE  (Len(accepted[o]) = processed[o] + Len(InHand(o) \o queueValues[o]))'
<1> DEFINE hand == IF sender[o].value = NoValue THEN 0 ELSE 1
<1>1. Len(accepted[o]) = processed[o] + (hand + Len(queueValues[o]))
  BY HandLength DEF OutputStatsAddUp, IInv, StateInv, SenderOK, QueueOK, InHand
<1>2. sender'[o].value \in Values \cup {NoValue} /\ queueValues'[o] \in Seq(Values)
  BY QueueStep, SenderStepInv DEF IInv, SenderOK, QueueOK
<1>3. (Len(InHand(o) \o queueValues[o]))' = hand' + Len(queueValues'[o])
  BY <1>2, HandLength DEF InHand
<1> SUFFICES Len(accepted'[o]) = processed'[o] + (hand' + Len(queueValues'[o]))
  BY <1>3
<1> USE DEF IInv, StateInv, QueueOK, SenderOK
<1>4. CASE UNCHANGED <<accepted, processed, sender, queueValues>>
  BY <1>1, <1>4
<1>5. ASSUME NEW w \in Workers, PushValue(w)
      PROVE  Len(accepted'[o]) = processed'[o] + (hand' + Len(queueValues'[o]))
  <2>1. worker[w].value \in Values
    BY <1>5, PushedIsValue DEF PushValue
  <2>2. CASE o = worker[w].out
    <3>1. /\ accepted'[o] = Append(accepted[o], worker[w].value)
          /\ queueValues'[o] = Append(queueValues[o], worker[w].value)
          /\ UNCHANGED <<sender, processed>>
      BY <1>5, <2>2 DEF PushValue, senderVars
    <3>2. /\ Len(accepted'[o]) = Len(accepted[o]) + 1 /\ Len(queueValues'[o]) = Len(queueValues[o]) + 1
          /\ Len(queueValues[o]) \in Nat /\ processed[o] \in Nat /\ processed' = processed
      BY <2>1, <3>1
    <3>3. hand' = hand /\ hand \in Nat
      BY <3>1
    <3> DEFINE n == Len(queueValues[o])  m == Len(queueValues'[o])
    <3>4. Len(accepted[o]) = processed[o] + (hand + n)
      BY <1>1
    <3>5. n \in Nat /\ m = n + 1 /\ processed'[o] = processed[o] /\ processed[o] \in Nat
      BY <3>2
    <3> HIDE DEF n, m, hand, IInv
    <3>. QED BY <3>2, <3>3, <3>4, <3>5 DEF m
  <2>3. CASE o # worker[w].out
    <3>1. accepted'[o] = accepted[o] /\ queueValues'[o] = queueValues[o] /\ UNCHANGED <<sender, processed>>
      BY <1>5, <2>3 DEF PushValue, senderVars
    <3>. QED BY <1>1, <3>1
  <2>. QED BY <2>2, <2>3
<1>6. ASSUME NEW p \in Outputs, PopValue(p)
      PROVE  Len(accepted'[o]) = processed'[o] + (hand' + Len(queueValues'[o]))
  <2>1. UNCHANGED <<accepted, processed>>
    BY <1>6 DEF PopValue
  <2>2. CASE o = p
    <3>1. /\ sender[o].value = NoValue /\ sender'[o].value = Head(queueValues[o])
          /\ queueValues'[o] = Tail(queueValues[o]) /\ queueValues[o] # <<>>
      BY <1>6, <2>2 DEF PopValue, SenderInv
    <3>2. sender'[o].value # NoValue /\ Len(queueValues'[o]) = Len(queueValues[o]) - 1
      BY <3>1, ValuesNotNo
    <3>. QED BY <1>1, <2>1, <3>1, <3>2
  <2>3. CASE o # p
    <3>1. sender'[o] = sender[o] /\ queueValues'[o] = queueValues[o]
      BY <1>6, <2>3 DEF PopValue
    <3>. QED BY <1>1, <2>1, <3>1
  <2>. QED BY <2>2, <2>3
<1>7. ASSUME NEW p \in Outputs, Write(p)
      PROVE  Len(accepted'[o]) = processed'[o] + (hand' + Len(queueValues'[o]))
  <2>1. UNCHANGED <<accepted, queueValues>>
    BY <1>7 DEF Write, queueVars
  <2>2. CASE o = p
    <3>1. /\ sender[o].value # NoValue /\ sender'[o].value = NoValue
          /\ processed'[o] = processed[o] + 1
      BY <1>7, <2>2 DEF Write, SenderAfterWrite, SenderInv
    <3>. QED BY <1>1, <2>1, <3>1
  <2>3. CASE o # p
    <3>1. sender'[o] = sender[o] /\ processed'[o] = processed[o]
      BY <1>7, <2>3 DEF Write
    <3>. QED BY <1>1, <2>1, <3>1
  <2>. QED BY <2>2, <2>3
<1>8. ASSUME NEW p \in Outputs, Reconnect(p) \/ WriteFails(p)
      PROVE  Len(accepted'[o]) = processed'[o] + (hand' + Len(queueValues'[o]))
  <2>1. UNCHANGED <<accepted, processed, queueValues>> /\ sender'[o].value = sender[o].value
    <3>1. CASE Reconnect(p)
      BY <3>1 DEF Reconnect, queueVars
    <3>2. CASE WriteFails(p)
      BY <3>2 DEF WriteFails, SenderAfterFailure, queueVars
    <3>. QED BY <1>8, <3>1, <3>2
  <2>. QED BY <1>1, <2>1
<1>9. ASSUME NEW w \in Workers, Pop(w) \/ LockOutputs(w) \/ DropValue(w) \/ UnlockOutputs(w) \/ Account(w)
      PROVE  UNCHANGED <<accepted, processed, sender, queueValues>>
  BY <1>9 DEF Pop, LockOutputs, DropValue, UnlockOutputs, Account, queueVars, senderVars
<1>10. ASSUME NEW p \in Outputs, ReconnectFails(p) \/ Receive(p) \/ Break(p)
       PROVE  UNCHANGED <<accepted, processed, sender, queueValues>>
  BY <1>10 DEF ReconnectFails, Receive, Break, queueVars, senderVars
<1>11. CASE UNCHANGED vars
  BY <1>4, <1>11 DEF vars, queueVars, senderVars
<1>12. CASE \E w \in Workers : WorkerStep(w)
  BY <1>4, <1>5, <1>9, <1>12 DEF WorkerStep
<1>13. ASSUME NEW p \in Outputs, \/ Reconnect(p) \/ ReconnectFails(p) \/ PopValue(p) \/ Write(p)
                                  \/ WriteFails(p) \/ Receive(p) \/ Break(p)
       PROVE  Len(accepted'[o]) = processed'[o] + (hand' + Len(queueValues'[o]))
  BY <1>4, <1>6, <1>7, <1>8, <1>10, <1>13
<1>. QED BY <1>11, <1>12, <1>13, StepCases

\* The invariant that carries all of them.
FanoutInv == IInv /\ InOrderOnceOrLost /\ OneOrder /\ OutputStatsAddUp

\* The initial states satisfy the invariant.
LEMMA FanoutInvInit == Init => FanoutInv
<1> SUFFICES ASSUME Init PROVE FanoutInv
  OBVIOUS
<1>1. IInv
  BY IInvInit
<1>2. \A o \in Outputs : /\ accepted[o] = <<>> /\ InFlight(o) = <<>> /\ lost[o] = {}
                         /\ InHand(o) = <<>> /\ queueValues[o] = <<>>
                         /\ dropped[o] = 0 /\ processed[o] = 0
  BY DEF Init, InFlight, InHand, NoValue
<1>3. InOrderOnceOrLost
  BY <1>2 DEF InOrderOnceOrLost, IsRest, Elements
<1>4. OneOrder
  BY <1>2 DEF OneOrder, Before
<1>5. \A o \in Outputs : Offered(o) = {} /\ Cardinality(Offered(o)) = 0
  <2>1. \A o \in Outputs : Offered(o) = {}
    BY DEF Init, Offered
  <2>. QED BY <2>1, FS_EmptySet
<1>6. OutputStatsAddUp
  BY <1>2, <1>5 DEF OutputStatsAddUp
<1>. QED BY <1>1, <1>3, <1>4, <1>6 DEF FanoutInv

\* Every step keeps it.
LEMMA FanoutInvStep == FanoutInv /\ [Next]_vars => FanoutInv'
<1> SUFFICES ASSUME FanoutInv, [Next]_vars PROVE FanoutInv'
  OBVIOUS
<1>1. IInv /\ StateInv /\ InOrderOnceOrLost /\ OneOrder /\ OutputStatsAddUp
  BY DEF FanoutInv, IInv
<1>2. StateInv'
  BY <1>1, DispatchStep, QueueStep, SenderStepInv DEF StateInv
<1>3. AcceptInv' /\ InOrderOnceOrLost' /\ OneOrder'
  BY <1>1, AcceptStep, FlowStep, OneOrderStep
<1>4. OutputStatsAddUp'
  <2>1. ASSUME NEW o \in Outputs
        PROVE  /\ (dropped[o] + Len(accepted[o]) = Cardinality(Offered(o)))'
               /\ (Len(accepted[o]) = processed[o] + Len(InHand(o) \o queueValues[o]))'
    BY <1>1, OfferedStep, ProcessedStep
  <2>. QED BY <2>1 DEF OutputStatsAddUp
<1>. QED BY <1>2, <1>3, <1>4 DEF FanoutInv, IInv

\* It always holds.
LEMMA FanoutInvariant == Spec => []FanoutInv
BY FanoutInvInit, FanoutInvStep, PTL DEF Spec

\* The variables have their types: in particular no queue exceeds its limit
\* however many distribution threads push to it.
THEOREM TypeCorrect == Spec => []TypeOK
<1>1. FanoutInv => TypeOK
  BY TypeParts DEF FanoutInv, IInv, StateInv, DispatchInv
<1>. QED BY <1>1, FanoutInvariant, PTL

\* All outputs see the events in one order, whoever wins Outputs::mt.
THEOREM QueuesAgree == Spec => []OneOrder
<1>1. FanoutInv => OneOrder
  BY DEF FanoutInv
<1>. QED BY <1>1, FanoutInvariant, PTL

\* What a remote host got, and what is on its way to it, is what its queue
\* accepted in that order, each value once, less what broken connections lost.
THEOREM InOrder == Spec => []InOrderOnceOrLost
<1>1. FanoutInv => InOrderOnceOrLost
  BY DEF FanoutInv
<1>. QED BY <1>1, FanoutInvariant, PTL

\* The counters of an output account for every value it was offered.
THEOREM CountersAddUp == Spec => []OutputStatsAddUp
<1>1. FanoutInv => OutputStatsAddUp
  BY DEF FanoutInv
<1>. QED BY <1>1, FanoutInvariant, PTL
-----------------------------------------------------------------------------
(* With one distribution thread the order of the outputs is that of the pops. *)

OneThread == \A v, w \in Workers : v = w

PopOrder ==
  \A o \in Outputs : \A j, k \in DOMAIN accepted[o] : j < k => accepted[o][j] < accepted[o][k]

\* A thread that is alone has the newest value in hand, or none.
PopInv == PopOrder /\ \A w \in Workers : worker[w].value \in {NoValue, popped}

\* A push by the only thread keeps the order.
LEMMA PushInPopOrder ==
  ASSUME IInv, PopInv, NEW w \in Workers, PushValue(w)
  PROVE  PopOrder'
<1>. DEFINE p == worker[w].out
            x == worker[w].value
<1>1. /\ p \in Outputs /\ x \in Values /\ accepted \in [Outputs -> Seq(Values)]
      /\ accepted' = [accepted EXCEPT ![p] = Append(@, x)]
  BY PushedIsValue DEF PushValue, IInv, StateInv, QueueOK
<1>2. x = popped /\ \A k \in DOMAIN accepted[p] : accepted[p][k] < x
  <2>1. x = popped /\ x \notin Elements(accepted[p]) /\ Elements(accepted[p]) \subseteq 1..popped
    BY <1>1, FanoutAssumption DEF PopInv, Values, NoValue, IInv, AcceptInv, PushValue, Outputs
  <2>2. \A k \in DOMAIN accepted[p] : accepted[p][k] \in 1..popped /\ accepted[p][k] # x
    BY <2>1 DEF Elements
  <2>. QED BY <1>1, <2>1, <2>2 DEF Values
<1>3. PICK s \in Seq(Values) : s = accepted[p]
  BY <1>1
<1>4. /\ DOMAIN Append(s, x) = 1..(Len(s) + 1) /\ DOMAIN s = 1..Len(s) /\ Len(s) \in Nat
      /\ Append(s, x)[Len(s) + 1] = x /\ \A k \in 1..Len(s) : Append(s, x)[k] = s[k]
  BY <1>1, <1>3
<1>5. \A j, k \in DOMAIN Append(s, x) : j < k => Append(s, x)[j] < Append(s, x)[k]
  <2>1. \A k \in 1..Len(s) : s[k] < x
    BY <1>2, <1>3, <1>4
  <2>2. \A j, k \in 1..Len(s) : j < k => s[j] < s[k]
    BY <1>1, <1>3, <1>4 DEF PopInv, PopOrder
  <2>3. ASSUME NEW j \in 1..(Len(s) + 1), NEW k \in 1..(Len(s) + 1), j < k
        PROVE  Append(s, x)[j] < Append(s, x)[k]
    <3>1. j \in 1..Len(s) /\ Append(s, x)[j] = s[j]
      BY <1>4, <2>3
    <3>2. CASE k = Len(s) + 1
      BY <1>4, <2>1, <3>1, <3>2
    <3>3. CASE k # Len(s) + 1
      <4>1. k \in 1..Len(s) /\ Append(s, x)[k] = s[k]
        BY <1>4, <3>3
      <4>. QED BY <2>2, <2>3, <3>1, <4>1
    <3>. QED BY <3>2, <3>3
  <2>. QED BY <1>4, <2>3
<1>6. accepted'[p] = Append(s, x) /\ \A o \in Outputs : o # p => accepted'[o] = accepted[o]
  BY <1>1, <1>3
<1>7. \A o \in Outputs : \A j, k \in DOMAIN accepted'[o] :
        j < k => accepted'[o][j] < accepted'[o][k]
  BY <1>5, <1>6 DEF PopInv, PopOrder
<1>. QED BY <1>7 DEF PopOrder, Outputs

\* Every step of the only thread, and of the senders, keeps both.
LEMMA PopInvStep ==
  ASSUME OneThread, IInv, PopInv, [Next]_vars
  PROVE  PopInv'
<1>. USE DEF PopInv, IInv, StateInv, DispatchInv, DispatchOK
<1>1. ASSUME NEW w \in Workers, WorkerStep(w) PROVE \A v \in Workers : worker'[v].value \in {NoValue, popped'}
  <2>1. \A v \in Workers : v = w
    BY DEF OneThread
  <2>2. worker'[w].value \in {NoValue, popped'}
    BY <1>1 DEF WorkerStep, Pop, LockOutputs, PushValue, DropValue, UnlockOutputs, Account, IdleWorker
  <2>. QED BY <2>1, <2>2
<1>2. ASSUME NEW w \in Workers, WorkerStep(w), ~PushValue(w) PROVE PopOrder'
  <2>1. accepted' = accepted
    BY <1>2 DEF WorkerStep, Pop, LockOutputs, DropValue, UnlockOutputs, Account, queueVars
  <2>. QED BY <2>1 DEF PopOrder, Outputs
<1>3. ASSUME UNCHANGED <<popped, worker, accepted>> PROVE PopInv'
  BY <1>3 DEF PopOrder, Outputs
<1>. QED BY <1>1, <1>2, <1>3, PushInPopOrder, StepCases, NotTheWorkers

\* One distribution thread gives every output its values in the order in which
\* it popped them.
THEOREM OneThreadInOrder ==
  ASSUME OneThread
  PROVE  Spec => []PopOrder
<1>1. Init => PopInv
  BY DEF Init, PopInv, PopOrder, IdleWorker
<1>2. FanoutInv /\ PopInv /\ [Next]_vars => PopInv'
  BY PopInvStep DEF FanoutInv
<1>3. PopInv => PopOrder
  BY DEF PopInv
<1>. QED BY <1>1, <1>2, <1>3, FanoutInvariant, PTL DEF Spec
\* The first of two sequences in a row.
LEMMA FirstOfTwo ==
  ASSUME NEW V, NEW a \in Seq(V), NEW b \in Seq(V), NEW i \in DOMAIN a
  PROVE  i \in DOMAIN (a \o b) /\ (a \o b)[i] = a[i]
OBVIOUS

\* What a host received was accepted, each value once, and in the order of the
\* pops if the queue has them in it.
LEMMA ReceivedOnce ==
  ASSUME FanoutInv, NEW o \in Outputs, NEW j \in DOMAIN received[o], NEW k \in DOMAIN received[o],
         j < k
  PROVE  /\ received[o][j] \in Elements(accepted[o]) /\ received[o][k] \in Elements(accepted[o])
         /\ received[o][j] # received[o][k]
         /\ PopOrder => received[o][j] < received[o][k]
<1> DEFINE x == received[o][j]
           y == received[o][k]
<1>1. /\ j \in DOMAIN InFlight(o) /\ InFlight(o)[j] = x
      /\ k \in DOMAIN InFlight(o) /\ InFlight(o)[k] = y
  <2>1. PICK a \in Seq(Values), b \in Seq(Values), c \in Seq(Values), d \in Seq(Values) :
          a = received[o] /\ b = wire[o] /\ c = InHand(o) /\ d = queueValues[o]
    BY FlightType DEF FanoutInv, IInv
  <2> DEFINE ab == a \o b
             abc == ab \o c
  <2>2. InFlight(o) = abc \o d
    BY <2>1 DEF InFlight
  <2>3. ab \in Seq(Values) /\ abc \in Seq(Values)
    OBVIOUS
  <2> HIDE DEF InHand, InFlight
  <2>4. ASSUME NEW i \in DOMAIN a PROVE i \in DOMAIN InFlight(o) /\ InFlight(o)[i] = a[i]
    <3>1. i \in DOMAIN ab /\ ab[i] = a[i]
      BY FirstOfTwo
    <3> HIDE DEF ab
    <3>2. i \in DOMAIN abc /\ abc[i] = a[i]
      BY <2>3, <3>1, FirstOfTwo
    <3> HIDE DEF abc
    <3>. QED BY <2>2, <2>3, <3>2, FirstOfTwo
  <2>. QED BY <2>1, <2>4
<1>2. Before(accepted[o], x, y)
  BY <1>1 DEF FanoutInv, InOrderOnceOrLost, IsRest
<1>3. PICK l, m \in DOMAIN accepted[o] : l < m /\ accepted[o][l] = x /\ accepted[o][m] = y
  BY <1>2 DEF Before
<1>4. l # m
  <2>1. accepted[o] \in Seq(Values)
    BY FlightType DEF FanoutInv, IInv
  <2>. QED BY <1>3, <2>1
<1>5. x # y
  BY <1>3, <1>4 DEF FanoutInv, InOrderOnceOrLost, IsRest
<1>. QED BY <1>3, <1>5 DEF Elements, PopOrder
-----------------------------------------------------------------------------
(* The outputs implement Broadcast.                                         *)

\* The values of the variables of Broadcast, by name.
Way(o) == wire[o] \o InHand(o) \o queueValues[o]
Current == IF Broadcasting THEN worker[mt].value ELSE NoValue
NextOut == IF Broadcasting THEN worker[mt].out ELSE 1
Past == {v \in 1..popped : \A w \in Workers : worker[w].value = v => worker[w].pc = "account"}
Transit == [o \in Outputs |-> Way(o)]

\* What a value is being offered, read off the thread that holds Outputs::mt.
LEMMA WhatIsOffered ==
  /\ \A w \in Workers : mt = w => Current = worker[w].value /\ NextOut = worker[w].out
  /\ mt = Free => Current = NoValue /\ NextOut = 1
BY FanoutAssumption DEF Current, NextOut, Broadcasting

\* A change at one output, as an EXCEPT.
LEMMA TransitChange ==
  ASSUME NEW o \in Outputs, NEW s, Way(o)' = s, \A p \in Outputs \ {o} : Way(p)' = Way(p)
  PROVE  Transit' = [Transit EXCEPT ![o] = s]
BY DEF Transit

\* The front of a sequence, cut off.
LEMMA CutFront ==
  ASSUME NEW V, NEW a \in Seq(V), NEW b \in Seq(V)
  PROVE  /\ SubSeq(a \o b, Len(a) + 1, Len(a \o b)) = b
         /\ {(a \o b)[k] : k \in 1..Len(a)} = Elements(a)
<1>1. SubSeq(a \o b, Len(a) + 1, Len(a \o b)) = b
  OBVIOUS
<1>2. {(a \o b)[k] : k \in 1..Len(a)} = Elements(a)
  <2>1. DOMAIN a = 1..Len(a) /\ \A k \in 1..Len(a) : (a \o b)[k] = a[k]
    OBVIOUS
  <2>. QED BY <2>1 DEF Elements
<1>. QED BY <1>1, <1>2

\* The head of a flow is that of its first part that is not empty.
LEMMA HeadOfConcat ==
  ASSUME NEW V, NEW a \in Seq(V), NEW b \in Seq(V), a # <<>>
  PROVE  a \o b # <<>> /\ Head(a \o b) = Head(a) /\ Tail(a \o b) = Tail(a) \o b
OBVIOUS

\* The rounds of values: where no transit changes.
LEMMA RoundSteps ==
  ASSUME UNCHANGED <<Transit, received, lost>>,
         \/ /\ Current' \in Values /\ Current = NoValue /\ Current' \notin Past
            /\ UNCHANGED <<NextOut, Past>>
         \/ /\ Current # NoValue /\ NextOut \in Outputs /\ NextOut' = NextOut + 1
            /\ UNCHANGED <<Current, Past>>
         \/ /\ Current # NoValue /\ NextOut \notin Outputs /\ Past' = Past \cup {Current}
            /\ Current' = NoValue /\ NextOut' = 1
         \/ UNCHANGED <<Current, NextOut, Past>>
  PROVE  [Promise!Next]_(Promise!vars)
<1>1. CASE /\ Current' \in Values /\ Current = NoValue /\ Current' \notin Past
           /\ UNCHANGED <<NextOut, Past>>
  <2>1. Promise!Begin(Current')
    BY <1>1 DEF Promise!Begin, Current, NextOut, Past, Transit, Way
  <2>. QED BY <1>1, <2>1 DEF Promise!Next
<1>2. CASE /\ Current # NoValue /\ NextOut \in Outputs /\ NextOut' = NextOut + 1
           /\ UNCHANGED <<Current, Past>>
  <2>1. Promise!Refuse(NextOut)
    BY <1>2 DEF Promise!Refuse, Current, NextOut, Past, Transit, Way
  <2>. QED BY <1>2, <2>1 DEF Promise!Next, Promise!Outputs, Outputs
<1>3. CASE /\ Current # NoValue /\ NextOut \notin Outputs /\ Past' = Past \cup {Current}
           /\ Current' = NoValue /\ NextOut' = 1
  <2>1. Promise!End
    BY <1>3 DEF Promise!End, Promise!Outputs, Outputs, Current, NextOut, Past, Transit, Way
  <2>. QED BY <2>1 DEF Promise!Next
<1>4. CASE UNCHANGED <<Current, NextOut, Past>>
  <2>1. UNCHANGED Promise!vars
    BY <1>4 DEF Promise!vars, Current, NextOut, Past, Transit, Way
  <2>. QED BY <2>1
<1>. QED BY <1>1, <1>2, <1>3, <1>4

\* A value enters the way to a host, arrives, or is lost.
LEMMA WaySteps ==
  ASSUME NEW o \in Outputs, \A p \in Outputs \ {o} : Way(p)' = Way(p), UNCHANGED Past,
         \/ /\ Current # NoValue /\ NextOut = o /\ NextOut' = o + 1
            /\ Way(o)' = Append(Way(o), Current)
            /\ UNCHANGED <<Current, received, lost>>
         \/ /\ Way(o) # <<>> /\ Way(o)' = Tail(Way(o))
            /\ received' = [received EXCEPT ![o] = Append(@, Head(Way(o)))]
            /\ UNCHANGED <<Current, NextOut, lost>>
         \/ /\ \E n \in 1..Len(Way(o)) :
                 /\ lost' = [lost EXCEPT ![o] = @ \cup {Way(o)[k] : k \in 1..n}]
                 /\ Way(o)' = SubSeq(Way(o), n + 1, Len(Way(o)))
            /\ UNCHANGED <<Current, NextOut, received>>
         \/ Way(o)' = Way(o) /\ UNCHANGED <<Current, NextOut, received, lost>>
  PROVE  [Promise!Next]_(Promise!vars)
<1> USE DEF Promise!Outputs, Outputs
<1>1. Transit[o] = Way(o) /\ Transit' = [Transit EXCEPT ![o] = Way(o)']
  BY TransitChange DEF Transit
<1>2. CASE /\ Current # NoValue /\ NextOut = o /\ NextOut' = o + 1
           /\ Way(o)' = Append(Way(o), Current)
           /\ UNCHANGED <<Current, received, lost>>
  <2>1. Transit' = [Transit EXCEPT ![o] = Append(@, Current)]
    BY <1>1, <1>2
  <2>2. Promise!Take(o)
    BY <1>2, <2>1 DEF Promise!Take, Current, NextOut, Past, Transit, Way
  <2>. QED BY <2>2 DEF Promise!Next
<1>3. CASE /\ Way(o) # <<>> /\ Way(o)' = Tail(Way(o))
           /\ received' = [received EXCEPT ![o] = Append(@, Head(Way(o)))]
           /\ UNCHANGED <<Current, NextOut, lost>>
  <2>1. /\ Transit' = [Transit EXCEPT ![o] = Tail(@)] /\ Transit[o] # <<>>
        /\ received' = [received EXCEPT ![o] = Append(@, Head(Transit[o]))]
    BY <1>1, <1>3
  <2>2. Promise!Deliver(o)
    BY <1>3, <2>1 DEF Promise!Deliver, Current, NextOut, Past, Transit, Way
  <2>. QED BY <2>2, ZenonT(60) DEF Promise!Next
<1>4. CASE /\ \E n \in 1..Len(Way(o)) :
                /\ lost' = [lost EXCEPT ![o] = @ \cup {Way(o)[k] : k \in 1..n}]
                /\ Way(o)' = SubSeq(Way(o), n + 1, Len(Way(o)))
           /\ UNCHANGED <<Current, NextOut, received>>
  <2> PICK n \in 1..Len(Way(o)) :
             /\ lost' = [lost EXCEPT ![o] = @ \cup {Way(o)[k] : k \in 1..n}]
             /\ Way(o)' = SubSeq(Way(o), n + 1, Len(Way(o)))
    BY <1>4
  <2>4. {Way(o)[k] : k \in 1..n} = {Transit[o][k] : k \in 1..n}
    BY <1>1
  <2>1. /\ n \in 1..Len(Transit[o])
        /\ lost' = [lost EXCEPT ![o] = @ \cup {Transit[o][k] : k \in 1..n}]
        /\ Transit' = [Transit EXCEPT ![o] = SubSeq(@, n + 1, Len(@))]
    BY <1>1, <2>4
  <2>2. Promise!Lose(o, n)
    BY <1>4, <2>1, ZenonT(60) DEF Promise!Lose, Current, NextOut, Past, Transit, Way
  <2>3. n \in 1..Len(wire[o] \o InHand(o) \o queueValues[o])
    BY <1>1, <2>1 DEF Way
  <2>. QED BY <2>1, <2>2 DEF Promise!Next, Transit, Way
<1>5. CASE Way(o)' = Way(o) /\ UNCHANGED <<Current, NextOut, received, lost>>
  <2>1. Transit' = Transit
    BY <1>1, <1>5, SMTT(40) DEF Transit
  <2>2. UNCHANGED Promise!vars
    BY <1>5, <2>1 DEF Promise!vars, Current, NextOut, Past, Transit, Way
  <2>. QED BY <2>2
<1>. QED BY <1>2, <1>3, <1>4, <1>5

\* The value on offer after a step is that of the thread that then holds the
\* mutex.
LEMMA WhatIsOfferedNext ==
  /\ \A w \in Workers : mt' = w => Current' = worker'[w].value /\ NextOut' = worker'[w].out
  /\ mt' = Free => Current' = NoValue /\ NextOut' = 1
BY FanoutAssumption DEF Current, NextOut, Broadcasting

\* Steps of the distribution threads.
LEMMA WorkerImplements ==
  ASSUME IInv, NEW w \in Workers, WorkerStep(w)
  PROVE  [Promise!Next]_(Promise!vars)
<1> USE DEF IInv, StateInv, DispatchInv, DispatchOK, WorkerInv
<1>1. UNCHANGED <<received, lost, wire, sender>>
  BY WorkersOnly
<1>2. ASSUME UNCHANGED queueValues PROVE UNCHANGED <<Transit, received, lost>>
  BY <1>1, <1>2 DEF Transit, Way, InHand
<1>3. CASE Pop(w)
  <2>1. UNCHANGED queueValues
    BY <1>3 DEF Pop, queueVars
  <2>2. UNCHANGED <<Current, NextOut>>
    <3>1. mt' = mt /\ \A u \in Workers : mt = u => worker'[u] = worker[u]
      BY <1>3 DEF Pop
    <3>. QED BY <3>1, WhatIsOffered, WhatIsOfferedNext
  <2>3. Past' = Past
    <3>1. /\ popped' = popped + 1 /\ worker'[w].pc = "lock" /\ worker'[w].value = popped + 1
          /\ worker[w].value = 0 /\ \A u \in Workers \ {w} : worker'[u] = worker[u]
      BY <1>3 DEF Pop, NoValue
    <3>2. \A x \in 1..popped : worker'[w].value # x /\ worker[w].value # x
      BY <3>1
    <3>3. \A x \in 1..popped' : x \in 1..popped \/ x = popped + 1
      BY <3>1
    <3>. QED BY <3>1, <3>2, <3>3 DEF Past
  <2>. QED BY <1>2, <2>1, <2>2, <2>3, RoundSteps
<1>4. CASE LockOutputs(w)
  <2>1. /\ UNCHANGED queueValues /\ mt = Free /\ mt' = w /\ popped' = popped
        /\ worker[w].pc = "lock" /\ worker'[w].pc = "push" /\ worker'[w].value = worker[w].value
        /\ worker'[w].out = 1 /\ \A u \in Workers \ {w} : worker'[u] = worker[u]
    BY <1>4 DEF LockOutputs, MutexFree, queueVars
  <2>2. /\ Current = NoValue /\ NextOut = 1 /\ Current' = worker[w].value /\ NextOut' = 1
    BY <2>1, WhatIsOffered, WhatIsOfferedNext
  <2>3. Current' \in Values /\ Current' \notin Past
    BY <2>1, <2>2 DEF Past
  <2>4. Past' = Past
    BY <2>1 DEF Past
  <2>. QED BY <1>2, <2>1, <2>2, <2>3, <2>4, RoundSteps
<1>5. CASE PushValue(w) \/ DropValue(w)
  <2>1. PICK o \in Outputs, v \in Values : o = worker[w].out /\ v = worker[w].value
    BY <1>5, PushedIsValue DEF PushValue, DropValue
  <2>2. /\ worker[w].pc = "push" /\ worker'[w].pc = "push" /\ worker'[w].value = v
        /\ worker'[w].out = o + 1 /\ UNCHANGED <<popped, mt>>
        /\ \A u \in Workers \ {w} : worker'[u] = worker[u]
    BY <1>5, <2>1 DEF PushValue, DropValue, NextOutput
  <2>3. Past' = Past
    BY <2>1, <2>2 DEF Past
  <2>4. mt = w /\ Current = v /\ NextOut = o /\ Current' = v /\ NextOut' = o + 1
    BY <2>1, <2>2, WhatIsOffered, WhatIsOfferedNext
  <2>5. v # NoValue
    BY ValuesNotNo
  <2>6. CASE DropValue(w)
    BY <1>2, <2>3, <2>4, <2>5, <2>6, RoundSteps DEF DropValue
  <2>7. CASE PushValue(w)
    <3>1. /\ queueValues'[o] = Append(queueValues[o], v)
          /\ \A p \in Outputs \ {o} : queueValues'[p] = queueValues[p]
      BY <2>1, <2>7 DEF PushValue, QueueOK
    <3>2. \A p \in Outputs \ {o} : Way(p)' = Way(p)
      BY <1>1, <3>1 DEF Way, InHand
    <3>3. Way(o)' = Append(Way(o), v)
      <4> HIDE DEF IInv
      <4>5. PICK x \in Seq(Values), h \in Seq(Values) : x = wire[o] /\ h = InHand(o)
        BY FlightType DEF IInv
      <4>6. x \o h \in Seq(Values) /\ queueValues[o] \in Seq(Values)
        BY FlightType DEF IInv
      <4>1. PICK a \in Seq(Values), q \in Seq(Values) : a = wire[o] \o InHand(o) /\ q = queueValues[o]
        BY <4>5, <4>6
      <4>2. a \o Append(q, v) = Append(a \o q, v)
        BY AppendToLast
      <4>3. InHand(o)' = InHand(o)
        BY <1>1 DEF InHand
      <4>4. Way(o) = a \o q /\ Way(o)' = a \o Append(q, v)
        BY <1>1, <3>1, <4>1, <4>3 DEF Way
      <4>. QED BY <4>2, <4>4
    <3> HIDE DEF IInv
    <3>. QED BY <1>1, <2>3, <2>4, <2>5, <3>2, <3>3, WaySteps
  <2>. QED BY <1>5, <2>6, <2>7
<1>6. CASE UnlockOutputs(w)
  <2>1. /\ UNCHANGED queueValues /\ mt' = Free /\ popped' = popped
        /\ worker[w].pc = "push" /\ worker'[w].pc = "account" /\ worker'[w].value = worker[w].value
        /\ worker[w].out \notin Outputs /\ \A u \in Workers \ {w} : worker'[u] = worker[u]
    BY <1>6 DEF UnlockOutputs, queueVars
  <2>2. /\ Current = worker[w].value /\ NextOut = worker[w].out /\ Current' = NoValue /\ NextOut' = 1
    BY <2>1, WhatIsOffered, WhatIsOfferedNext
  <2>3. worker[w].value \in 1..popped /\ worker[w].value # NoValue
    BY <2>1, PushedIsValue, ValuesNotNo
  <2>4. Past' = Past \cup {worker[w].value}
    <3>1. \A u \in Workers \ {w} : worker[u].value # worker[w].value
      BY <2>3
    <3>2. \A x \in 1..popped : x \in Past' <=> x \in Past \/ x = worker[w].value
      BY <2>1, <3>1 DEF Past
    <3>. QED BY <2>1, <2>3, <3>2 DEF Past
  <2>. QED BY <1>2, <2>1, <2>2, <2>3, <2>4, RoundSteps
<1>7. CASE Account(w)
  <2>1. /\ UNCHANGED <<queueValues, mt, popped>> /\ worker[w].pc = "account"
        /\ worker'[w].value = 0 /\ \A u \in Workers \ {w} : worker'[u] = worker[u]
    BY <1>7 DEF Account, IdleWorker, NoValue, queueVars
  <2>2. UNCHANGED <<Current, NextOut>>
    <3>1. \A u \in Workers : mt = u => worker'[u] = worker[u]
      BY <2>1
    <3>. QED BY <2>1, <3>1, WhatIsOffered, WhatIsOfferedNext
  <2>3. Past' = Past
    BY <2>1 DEF Past
  <2>. QED BY <1>2, <2>1, <2>2, <2>3, RoundSteps
<1>. QED BY <1>3, <1>4, <1>5, <1>6, <1>7 DEF WorkerStep

\* Steps of the senders and of the network.
LEMMA SenderImplements ==
  ASSUME IInv, NEW o \in Outputs,
         \/ Reconnect(o) \/ ReconnectFails(o) \/ PopValue(o) \/ Write(o) \/ WriteFails(o)
         \/ Receive(o) \/ Break(o)
  PROVE  [Promise!Next]_(Promise!vars)
<1>1. UNCHANGED <<Current, NextOut, Past>>
  BY NotTheWorkers DEF Current, NextOut, Past, Broadcasting
<1>2. ASSUME Way(o)' = Way(o), \A p \in Outputs \ {o} : Way(p)' = Way(p), UNCHANGED <<received, lost>>
      PROVE  [Promise!Next]_(Promise!vars)
  BY <1>1, <1>2, WaySteps
<1>3. PICK x \in Seq(Values), h \in Seq(Values), q \in Seq(Values), v \in Values \cup {NoValue} :
        /\ x = wire[o] /\ h = InHand(o) /\ q = queueValues[o] /\ v = sender[o].value
        /\ h = IF v = NoValue THEN <<>> ELSE <<v>>
  BY FlightType DEF IInv, StateInv, SenderOK, InHand
<1>4. h \o q \in Seq(Values) /\ (x \o h) \o q = x \o (h \o q) /\ Way(o) = (x \o h) \o q
  <2>1. Way(o) = (x \o h) \o q
    BY <1>3 DEF Way
  <2>2. (x \o h) \o q = x \o (h \o q)
    BY Regroup
  <2>3. h \o q \in Seq(Values)
    OBVIOUS
  <2>. QED BY <2>1, <2>2, <2>3
<1> USE DEF IInv, StateInv
<1>5. CASE Reconnect(o) \/ ReconnectFails(o) \/ WriteFails(o)
  <2>1. UNCHANGED <<received, lost, wire, queueValues>>
    BY <1>5 DEF Reconnect, ReconnectFails, WriteFails, queueVars, netVars
  <2>2. \A p \in Outputs : sender'[p].value = sender[p].value
    BY <1>5 DEF WriteFails, SenderAfterFailure, Reconnect, ReconnectFails, SenderOK
  <2>3. \A p \in Outputs : Way(p)' = Way(p)
    BY <2>1, <2>2 DEF Way, InHand
  <2>. QED BY <1>2, <2>1, <2>3
<1>6. CASE PopValue(o)
  <2>1. /\ q # <<>> /\ v = NoValue /\ wire' = wire /\ UNCHANGED <<received, lost>>
        /\ sender'[o].value = Head(q) /\ queueValues'[o] = Tail(q)
        /\ \A p \in Outputs \ {o} : sender'[p] = sender[p] /\ queueValues'[p] = queueValues[p]
    BY <1>3, <1>6 DEF PopValue, SenderInv, SenderOK, QueueOK, netVars
  <2>2. Head(q) \in Values /\ Head(q) # NoValue
    BY <2>1, ValuesNotNo
  <2>3. Way(o)' = (x \o <<Head(q)>>) \o Tail(q)
    BY <1>3, <2>1, <2>2 DEF Way, InHand
  <2>4. (x \o <<Head(q)>>) \o Tail(q) = (x \o <<>>) \o q
    BY <2>1, <2>2, OneMore, HeadMovesOver
  <2>5. Way(o) = (x \o <<>>) \o q
    BY <1>3, <1>4, <2>1
  <2>6. \A p \in Outputs \ {o} : Way(p)' = Way(p)
    BY <2>1 DEF Way, InHand
  <2>. QED BY <1>2, <2>1, <2>3, <2>4, <2>5, <2>6
<1>7. CASE Write(o)
  <2>1. /\ v \in Values /\ v # NoValue /\ h = <<v>> /\ sender'[o].value = NoValue
        /\ UNCHANGED <<received, queueValues>> /\ \A p \in Outputs \ {o} : sender'[p] = sender[p]
    BY <1>3, <1>7 DEF Write, SenderAfterWrite, SenderInv, SenderOK, queueVars
  <2>2. CASE connection[o] = "up" /\ wire' = [wire EXCEPT ![o] = Append(@, sender[o].value)] /\ UNCHANGED lost
    <3>1. wire'[o] = Append(x, v) /\ \A p \in Outputs \ {o} : wire'[p] = wire[p]
      BY <1>3, <2>2 DEF NetOK
    <3>2. Way(o)' = (Append(x, v) \o <<>>) \o q
      BY <1>3, <2>1, <3>1 DEF Way, InHand
    <3>3. (Append(x, v) \o <<>>) \o q = (x \o h) \o q
      BY <2>1, OneMore
    <3>4. \A p \in Outputs \ {o} : Way(p)' = Way(p)
      BY <2>1, <3>1 DEF Way, InHand
    <3>. QED BY <1>2, <1>4, <2>1, <2>2, <3>2, <3>3, <3>4
  <2>3. CASE connection[o] = "broken" /\ lost' = [lost EXCEPT ![o] = @ \cup {sender[o].value}] /\ UNCHANGED wire
    <3>1. x = <<>>
      BY <1>3, <2>3 DEF SenderInv
    <3>2. Way(o) = h \o q
      BY <1>4, <3>1
    <3>3. Way(o)' = q
      <4>1. Way(o)' = (<<>> \o <<>>) \o q
        BY <1>3, <2>1, <2>3, <3>1 DEF Way, InHand
      <4>. QED BY <4>1
    <3>4. Len(h) = 1 /\ Elements(h) = {v}
      BY <2>1 DEF Elements
    <3>5. SubSeq(h \o q, 1 + 1, Len(h \o q)) = q /\ {(h \o q)[k] : k \in 1..1} = {v}
      <4>1. /\ SubSeq(h \o q, Len(h) + 1, Len(h \o q)) = q
            /\ {(h \o q)[k] : k \in 1..Len(h)} = Elements(h)
        BY CutFront
      <4>. QED BY <3>4, <4>1
    <3>6. Len(h \o q) \in Nat /\ Len(h \o q) >= 1
      <4>1. Len(h \o q) = Len(h) + Len(q) /\ Len(q) \in Nat
        OBVIOUS
      <4>. QED BY <3>4, <4>1
    <3>7. \E n \in 1..Len(Way(o)) :
            /\ lost' = [lost EXCEPT ![o] = @ \cup {Way(o)[k] : k \in 1..n}]
            /\ Way(o)' = SubSeq(Way(o), n + 1, Len(Way(o)))
      <4>1. 1 \in 1..Len(Way(o))
        BY <3>2, <3>6
      <4>2. {Way(o)[k] : k \in 1..1} = {v} /\ SubSeq(Way(o), 1 + 1, Len(Way(o))) = q
        BY <3>2, <3>5
      <4>. QED BY <1>3, <2>3, <3>3, <4>1, <4>2
    <3>8. \A p \in Outputs \ {o} : Way(p)' = Way(p)
      BY <2>1, <2>3 DEF Way, InHand
    <3>. QED BY <1>1, <2>1, <3>7, <3>8, WaySteps
  <2>. QED BY <1>7, <2>2, <2>3 DEF Write
<1>8. CASE Receive(o)
  <2>1. /\ x # <<>> /\ received' = [received EXCEPT ![o] = Append(@, Head(x))] /\ wire'[o] = Tail(x)
        /\ UNCHANGED <<lost, sender, queueValues>> /\ \A p \in Outputs \ {o} : wire'[p] = wire[p]
    BY <1>3, <1>8 DEF Receive, queueVars, senderVars, NetOK
  <2>2. Way(o)' = (Tail(x) \o h) \o q
    <3>1. InHand(o)' = InHand(o)
      BY <2>1 DEF InHand
    <3>. QED BY <1>3, <2>1, <3>1 DEF Way
  <2>3. /\ x \o (h \o q) # <<>> /\ Head(x \o (h \o q)) = Head(x)
        /\ Tail(x \o (h \o q)) = Tail(x) \o (h \o q)
    BY <1>4, <2>1, HeadOfConcat
  <2>4. (Tail(x) \o h) \o q = Tail(x) \o (h \o q)
    <3>1. Tail(x) \in Seq(Values)
      BY <2>1
    <3>. QED BY <3>1, Regroup
  <2>5. \A p \in Outputs \ {o} : Way(p)' = Way(p)
    BY <2>1 DEF Way, InHand
  <2>6. /\ Way(o) # <<>> /\ Way(o)' = Tail(Way(o))
        /\ received' = [received EXCEPT ![o] = Append(@, Head(Way(o)))]
    BY <1>4, <2>1, <2>2, <2>3, <2>4
  <2>. QED BY <1>1, <2>1, <2>5, <2>6, WaySteps
<1>9. CASE Break(o)
  <2>1. /\ lost' = [lost EXCEPT ![o] = @ \cup Elements(x)] /\ wire'[o] = <<>>
        /\ UNCHANGED <<received, sender, queueValues>> /\ \A p \in Outputs \ {o} : wire'[p] = wire[p]
    BY <1>3, <1>9 DEF Break, queueVars, NetOK, Elements
  <2>2. Way(o)' = h \o q
    <3>1. InHand(o)' = InHand(o)
      BY <2>1 DEF InHand
    <3>2. Way(o)' = (<<>> \o h) \o q
      BY <1>3, <2>1, <3>1 DEF Way
    <3>. QED BY <3>2
  <2>3. Way(o) = x \o (h \o q)
    BY <1>4
  <2>4. \A p \in Outputs \ {o} : Way(p)' = Way(p)
    BY <2>1 DEF Way, InHand
  <2>5. CASE x = <<>>
    <3>1. Elements(x) = {} /\ lost' = lost
      <4>1. Elements(x) = {}
        BY <2>5 DEF Elements
      <4>. QED BY <2>1, <4>1 DEF NetOK
    <3>2. Way(o) = h \o q
      BY <1>4, <2>3, <2>5
    <3>. QED BY <1>2, <2>1, <2>2, <2>4, <3>1, <3>2
  <2>6. CASE x # <<>>
    <3>1. Len(x) \in 1..Len(x \o (h \o q))
      BY <1>4, <2>6
    <3>2. /\ SubSeq(x \o (h \o q), Len(x) + 1, Len(x \o (h \o q))) = h \o q
          /\ {(x \o (h \o q))[k] : k \in 1..Len(x)} = Elements(x)
      BY <1>4, CutFront
    <3>3. \E n \in 1..Len(Way(o)) :
            /\ lost' = [lost EXCEPT ![o] = @ \cup {Way(o)[k] : k \in 1..n}]
            /\ Way(o)' = SubSeq(Way(o), n + 1, Len(Way(o)))
      BY <2>1, <2>2, <2>3, <3>1, <3>2
    <3>. QED BY <1>1, <2>1, <2>4, <3>3, WaySteps
  <2>. QED BY <2>5, <2>6
<1>. QED BY <1>5, <1>6, <1>7, <1>8, <1>9

\* The distribution threads, the senders and the network together behave as
\* Broadcast says: no queue, retry or reconnection shows at a remote host.
THEOREM FanoutBroadcasts == Spec => ImplementsBroadcast
<1>1. Init => Promise!Init
  <2> SUFFICES ASSUME Init PROVE Promise!Init
    OBVIOUS
  <2>1. Current = NoValue /\ NextOut = 1
    BY WhatIsOffered DEF Init
  <2>2. Past = {}
    BY DEF Init, Past
  <2>3. Transit = [o \in Outputs |-> <<>>]
    <3>1. \A o \in Outputs : Way(o) = <<>>
      BY DEF Init, Way, InHand
    <3>. QED BY <3>1 DEF Transit
  <2>. QED BY <2>1, <2>2, <2>3 DEF Init, Promise!Init, Promise!Outputs, Outputs, Current, NextOut,
                                   Past, Transit, Way
<1>2. FanoutInv /\ [Next]_vars => [Promise!Next]_(Promise!vars)
  <2> SUFFICES ASSUME FanoutInv, [Next]_vars PROVE [Promise!Next]_(Promise!vars)
    OBVIOUS
  <2>1. IInv
    BY DEF FanoutInv
  <2>2. CASE UNCHANGED vars
    <3>1. UNCHANGED Promise!vars
      BY <2>2 DEF vars, dispatchVars, queueVars, senderVars, netVars, Promise!vars, Broadcasting, InHand
    <3>. QED BY <3>1
  <2>. QED BY <2>1, <2>2, StepCases, WorkerImplements, SenderImplements
<1>. QED BY <1>1, <1>2, FanoutInvariant, PTL DEF Spec, ImplementsBroadcast, Promise!Spec
=============================================================================
