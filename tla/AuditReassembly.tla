--------------------------- MODULE AuditReassembly ---------------------------
(***************************************************************************)
(* uanlz_log2json, from a parsed auditd line to a whole event handed to    *)
(* the outputs: Events_Manager, Audit_Host, Audit_Event and the events     *)
(* queue with its distribution threads.                                    *)
(*                                                                         *)
(* One receiver thread per log connection inserts lines.  Lines of one     *)
(* host that carry the same audit id are collected in one Audit_Event; the *)
(* garbage collector (or, without EnforceMaxAge, the receiver of an        *)
(* end-of-event line) takes the event out of its host's map and pushes it  *)
(* to the bounded events queue, whose push waits and then gives up.        *)
(*                                                                         *)
(* An Audit_Event* is a number; heap is the set of the objects that are    *)
(* allocated and not deleted yet, so a pointer outside DOMAIN heap         *)
(* dangles.  lines, delivered and discarded are history: what came in,     *)
(* what reached the outputs, and what was deleted because the queue was    *)
(* full.  MaxLines, MaxClock and LastArrival bound the model.              *)
(***************************************************************************)
EXTENDS Integers, Sequences, FiniteSets

CONSTANTS
  Hosts,        \* auditHostID values
  EventIds,     \* audit ids: (seconds, milliseconds, serial)
  Types,        \* auditd line types
  EndTypes,     \* the types NameDefs registers as end of event
  Receivers,    \* log connection threads
  Workers,      \* distribution threads
  GC,           \* the garbage collector thread
  NoHost,       \* the host at hand of a thread that has none
  Free,         \* mutex_insert when nobody holds it
  QueueSize,    \* Processor.QueueSize
  MaxAge,       \* GC.AuditMaxAgeInSecs
  AgeModulus,   \* 2^64: ages are unsigned
  ConfigTexts,  \* what config.ini may say for GC.EnforceMaxAge
  ClockSteps,   \* how time() may move: {1}, or also backwards
  MaxLines,     \* bound: lines accepted in a behaviour
  MaxClock,     \* bound: last second of a behaviour
  LastArrival   \* bound: last second at which a line arrives

ASSUME ReassemblyAssumption ==
  /\ NoHost \notin Hosts
  /\ GC \notin Receivers /\ Free \notin Receivers \cup {GC}
  /\ EndTypes \subseteq Types
  /\ QueueSize \in Nat \ {0}
  /\ MaxAge \in Nat /\ AgeModulus \in Nat \ {0}
  /\ ClockSteps \subseteq Int
  /\ MaxLines \in Nat /\ MaxClock \in Nat /\ LastArrival \in Nat

VARIABLES
  configText,       \* the text of GC.EnforceMaxAge
  clock,            \* time(nullptr)
  lines,            \* history: the lines inserted, in order
  heap,             \* live Audit_Event objects
  auditEvents,      \* per host: audit id -> Audit_Event*
  mutexInsert,      \* who holds Events_Manager::mutex_insert
  thread,           \* receivers and GC: where they are, host and event at hand
  gcHosts,          \* hosts the GC pass has still to visit
  gcBatch,          \* uncompleted_phase2 of the host being visited
  eventsQueue,      \* Events_DistributionThreads::eventsQueue
  worker,           \* the event each distribution thread works on
  delivered,        \* history: events handed to the outputs
  discarded,        \* history: events deleted because the queue was full
  processed,        \* per host countEventsProcessed
  dropped,          \* per host countEventsDropped
  eventsProcessed,  \* Events_DistributionThreads::eventsProcessed
  eventsDropped     \* Events_DistributionThreads::eventsDropped

inputVars == <<configText, clock, lines>>
storeVars == <<heap, auditEvents>>
lockVars  == <<mutexInsert, thread, gcHosts, gcBatch>>
queueVars == <<eventsQueue, worker, delivered, discarded>>
countVars == <<processed, dropped, eventsProcessed, eventsDropped>>
vars == <<inputVars, storeVars, lockVars, queueVars, countVars>>

Threads == Receivers \cup {GC}
NoEvent == 0                      \* nullptr
Objects == 1..MaxLines
Pointers == {NoEvent} \cup Objects

\* get<uint64_t>("GC.EnforceMaxAge", true): a text that is no number gives the
\* default, so of the texts used only "0" turns the enforcement off.
EnforceMaxAge == configText # "0"

IsEndEventType(t) == t \in EndTypes

\* Audit_Event::timeSinceCreation returns an unsigned difference.
TimeSinceCreation(o) == (clock - heap[o].created) % AgeModulus

IdleThread == [pc |-> "idle", host |-> NoHost, event |-> NoEvent]

Without(f, o) == [x \in DOMAIN f \ {o} |-> f[x]]
-----------------------------------------------------------------------------
Init ==
  /\ configText \in ConfigTexts
  /\ clock = 0
  /\ lines = <<>>
  /\ heap = [o \in {} |-> 0]
  /\ auditEvents = [h \in Hosts |-> [e \in EventIds |-> NoEvent]]
  /\ mutexInsert = Free
  /\ thread = [t \in Threads |-> IdleThread]
  /\ gcHosts = {}
  /\ gcBatch = {}
  /\ eventsQueue = <<>>
  /\ worker = [w \in Workers |-> NoEvent]
  /\ delivered = {}
  /\ discarded = {}
  /\ processed = [h \in Hosts |-> 0]
  /\ dropped = [h \in Hosts |-> 0]
  /\ eventsProcessed = 0
  /\ eventsDropped = 0

Tick ==
  /\ \E d \in ClockSteps :
       /\ clock + d \in 0..MaxClock
       /\ clock' = clock + d
  /\ UNCHANGED <<configText, lines, storeVars, lockVars, queueVars, countVars>>

\* Mutants.  The map is looked up by audit id alone; the lookup is forgotten;
\* the last event of the id is remembered after it left the map.
TargetOfAnyHost(h, e) ==
  IF \E g \in Hosts : auditEvents[g][e] # NoEvent
    THEN auditEvents[CHOOSE g \in Hosts : auditEvents[g][e] # NoEvent][e]
    ELSE Len(lines) + 1
TargetAlwaysNew(h, e) == Len(lines) + 1
TargetRemembered(h, e) ==
  IF \E o \in DOMAIN heap : heap[o].host = h /\ heap[o].id = e
    THEN CHOOSE o \in DOMAIN heap : heap[o].host = h /\ heap[o].id = e
    ELSE Len(lines) + 1

\* The object a line of (h, e) goes to: the pending one, or a new one.
Target(h, e) ==
  IF auditEvents[h][e] # NoEvent THEN auditEvents[h][e] ELSE Len(lines) + 1

NewEvent(h, e) == [host |-> h, id |-> e, created |-> clock, frags |-> <<>>]

\* Mutant.  A line replaces what the event held instead of joining it.
Overwritten(x) == [x EXCEPT !.frags = <<Len(lines) + 1>>]

\* The event after Audit_Event::insertClassContents took the new line.
Extended(x) == [x EXCEPT !.frags = Append(@, Len(lines) + 1)]

\* Mutant.  The event stays in the map though it is pushed.
SlotKept(o, ends) == o

\* The map entry of the line's event once the line is in.
SlotAfter(o, ends) == IF ends THEN NoEvent ELSE o

\* A receiver takes mutex_insert and stores one parsed line.  When that ends
\* the event (heuristic mode) it erases the event from the map and goes on to
\* push it, the mutex still held; otherwise it unlocks.
Insert(r, h, e, t) ==
  LET o == Target(h, e)
      ends == IsEndEventType(t) /\ ~EnforceMaxAge
  IN  /\ Len(lines) < MaxLines /\ clock <= LastArrival
      /\ thread[r].pc = "idle"
      /\ mutexInsert = Free
      /\ lines' = Append(lines, [host |-> h, id |-> e, type |-> t, at |-> clock])
      /\ heap' = [x \in DOMAIN heap \cup {o} |->
                    IF x # o THEN heap[x]
                    ELSE Extended(IF o \in DOMAIN heap THEN heap[o] ELSE NewEvent(h, e))]
      /\ auditEvents' = [auditEvents EXCEPT ![h][e] = SlotAfter(o, ends)]
      /\ IF ends
           THEN /\ mutexInsert' = r
                /\ thread' = [thread EXCEPT ![r] = [pc |-> "push", host |-> h, event |-> o]]
           ELSE UNCHANGED <<mutexInsert, thread>>
      /\ UNCHANGED <<configText, clock, gcHosts, gcBatch, queueVars, countVars>>
-----------------------------------------------------------------------------
(* Events_Manager::gc: one pass over every host under mutex_insert.  A host  *)
(* that was never heard of has no entry in the map; visiting it here finds   *)
(* nothing.                                                                  *)

GCLock ==
  /\ thread[GC].pc = "idle"
  /\ mutexInsert = Free
  /\ mutexInsert' = GC
  /\ thread' = [thread EXCEPT ![GC].pc = "scan"]
  /\ gcHosts' = Hosts
  /\ UNCHANGED <<inputVars, storeVars, gcBatch, queueVars, countVars>>

PendingOf(h) == {auditEvents[h][e] : e \in EventIds} \ {NoEvent}

\* Mutant.  Off by one.
ExpiredAtMaxAge(h) == {o \in PendingOf(h) : TimeSinceCreation(o) >= MaxAge}

\* The events of host h that dropOldUncompletedEvents takes out.
Expired(h) == {o \in PendingOf(h) : TimeSinceCreation(o) > MaxAge}

\* Mutant.  The batch is copied but not erased from the map.
MapKeepsExpired(h) == auditEvents[h]

\* The map of host h without them.
MapWithoutExpired(h) ==
  [e \in EventIds |-> IF auditEvents[h][e] \in Expired(h) THEN NoEvent ELSE auditEvents[h][e]]

GCCollect(h) ==
  /\ thread[GC].pc = "scan" /\ gcBatch = {}
  /\ h \in gcHosts
  /\ gcHosts' = gcHosts \ {h}
  /\ gcBatch' = Expired(h)
  /\ auditEvents' = [auditEvents EXCEPT ![h] = MapWithoutExpired(h)]
  /\ thread' = [thread EXCEPT ![GC].host = h]
  /\ UNCHANGED <<inputVars, heap, mutexInsert, queueVars, countVars>>

\* The batch is a set of pointers: the order is that of the addresses.
GCTake(o) ==
  /\ thread[GC].pc = "scan"
  /\ o \in gcBatch
  /\ gcBatch' = gcBatch \ {o}
  /\ thread' = [thread EXCEPT ![GC].pc = "push", ![GC].event = o]
  /\ UNCHANGED <<inputVars, storeVars, mutexInsert, gcHosts, queueVars, countVars>>

GCUnlock ==
  /\ thread[GC].pc = "scan" /\ gcHosts = {} /\ gcBatch = {}
  /\ mutexInsert' = Free
  /\ thread' = [thread EXCEPT ![GC] = IdleThread]
  /\ UNCHANGED <<inputVars, storeVars, gcHosts, gcBatch, queueVars, countVars>>
-----------------------------------------------------------------------------
(* pushAuditEvent and what its two callers, Audit_Host::insertClassContents  *)
(* and Audit_Host::dropOldUncompletedEvents, do with its answer.             *)

\* Mutant.  One event more than the limit.
RoomForOneMore == Len(eventsQueue) <= QueueSize

QueueHasRoom == Len(eventsQueue) < QueueSize

PushDone(t) ==
  /\ thread[t].pc = "push"
  /\ QueueHasRoom
  /\ eventsQueue' = Append(eventsQueue, thread[t].event)
  /\ thread' = [thread EXCEPT ![t].pc = "pushed", ![t].event = NoEvent]
  /\ UNCHANGED <<inputVars, storeVars, mutexInsert, gcHosts, gcBatch, worker,
                 delivered, discarded, countVars>>

\* The queue stayed full for QueuePushTimeoutInMS.
PushTimeout(t) ==
  /\ thread[t].pc = "push"
  /\ ~QueueHasRoom
  /\ eventsDropped' = eventsDropped + 1
  /\ thread' = [thread EXCEPT ![t].pc = "failed"]
  /\ UNCHANGED <<inputVars, storeVars, mutexInsert, gcHosts, gcBatch, queueVars,
                 processed, dropped, eventsProcessed>>

\* The GC goes on with its batch; a receiver returns and releases the mutex.
AfterPush(t) ==
  \/ /\ t = GC
     /\ thread' = [thread EXCEPT ![GC].pc = "scan", ![GC].event = NoEvent]
     /\ UNCHANGED mutexInsert
  \/ /\ t \in Receivers
     /\ thread' = [thread EXCEPT ![t] = IdleThread]
     /\ mutexInsert' = Free

CountProcessed(t) ==
  /\ thread[t].pc = "pushed"
  /\ processed' = [processed EXCEPT ![thread[t].host] = @ + 1]
  /\ AfterPush(t)
  /\ UNCHANGED <<inputVars, storeVars, gcHosts, gcBatch, queueVars, dropped,
                 eventsProcessed, eventsDropped>>

\* Mutant.  Only the GC's drops are counted for the host.
DroppedOfGCOnly(t) ==
  IF t = GC THEN [dropped EXCEPT ![thread[t].host] = @ + 1] ELSE dropped

DroppedAfter(t) == [dropped EXCEPT ![thread[t].host] = @ + 1]

DeleteDropped(t) ==
  /\ thread[t].pc = "failed"
  /\ discarded' = discarded \cup {heap[thread[t].event]}
  /\ heap' = Without(heap, thread[t].event)
  /\ dropped' = DroppedAfter(t)
  /\ AfterPush(t)
  /\ UNCHANGED <<inputVars, auditEvents, gcHosts, gcBatch, eventsQueue, worker,
                 delivered, processed, eventsProcessed, eventsDropped>>
-----------------------------------------------------------------------------
(* outputDistributionThread.  The pop that times out hands a marker of its   *)
(* own to the outputs and touches none of this state.                        *)

Pop(w) ==
  /\ worker[w] = NoEvent
  /\ eventsQueue # <<>>
  /\ worker' = [worker EXCEPT ![w] = Head(eventsQueue)]
  /\ eventsQueue' = Tail(eventsQueue)
  /\ UNCHANGED <<inputVars, storeVars, lockVars, delivered, discarded, countVars>>

Distribute(w) ==
  /\ worker[w] # NoEvent
  /\ delivered' = delivered \cup {heap[worker[w]]}
  /\ heap' = Without(heap, worker[w])
  /\ worker' = [worker EXCEPT ![w] = NoEvent]
  /\ eventsProcessed' = eventsProcessed + 1
  /\ UNCHANGED <<inputVars, auditEvents, lockVars, eventsQueue, discarded,
                 processed, dropped, eventsDropped>>

Next ==
  \/ Tick
  \/ \E r \in Receivers, h \in Hosts, e \in EventIds, t \in Types : Insert(r, h, e, t)
  \/ GCLock
  \/ \E h \in Hosts : GCCollect(h)
  \/ \E o \in gcBatch : GCTake(o)
  \/ GCUnlock
  \/ \E t \in Threads : PushDone(t) \/ PushTimeout(t) \/ CountProcessed(t) \/ DeleteDropped(t)
  \/ \E w \in Workers : Pop(w) \/ Distribute(w)

Spec == Init /\ [][Next]_vars

\* Every thread of the pipeline keeps being scheduled and time passes; the
\* arrival of lines is not assumed.  A push always ends, in the queue or by
\* its timeout, which is why one weak fairness covers both outcomes.
Fairness ==
  /\ WF_vars(Tick)
  /\ WF_vars(GCLock) /\ WF_vars(GCUnlock)
  /\ WF_vars(\E h \in Hosts : GCCollect(h))
  /\ WF_vars(\E o \in gcBatch : GCTake(o))
  /\ \A t \in Threads :
       /\ WF_vars(PushDone(t) \/ PushTimeout(t))
       /\ WF_vars(CountProcessed(t) \/ DeleteDropped(t))
  /\ \A w \in Workers : WF_vars(Pop(w) \/ Distribute(w))

FairSpec == Spec /\ Fairness
-----------------------------------------------------------------------------
Events == [host : Hosts, id : EventIds, created : Nat, frags : Seq(Nat \ {0})]

\* The shape of every variable of the pipeline.
TypeOK ==
  /\ configText \in ConfigTexts
  /\ clock \in Nat
  /\ lines \in Seq([host : Hosts, id : EventIds, type : Types, at : Nat])
  /\ Len(lines) <= MaxLines
  /\ DOMAIN heap \subseteq Objects /\ heap \in [DOMAIN heap -> Events]
  /\ auditEvents \in [Hosts -> [EventIds -> Pointers]]
  /\ mutexInsert \in Threads \cup {Free}
  /\ thread \in [Threads -> [pc : {"idle", "scan", "push", "pushed", "failed"},
                             host : Hosts \cup {NoHost}, event : Pointers]]
  /\ gcHosts \subseteq Hosts
  /\ gcBatch \subseteq Objects
  /\ eventsQueue \in Seq(Objects)
  /\ Len(eventsQueue) <= QueueSize
  /\ worker \in [Workers -> Pointers]
  /\ delivered \subseteq Events
  /\ discarded \subseteq Events
  /\ processed \in [Hosts -> Nat]
  /\ dropped \in [Hosts -> Nat]
  /\ eventsProcessed \in Nat
  /\ eventsDropped \in Nat

\* The objects that each kind of place holds: the hosts' maps, the threads that
\* push, the queue, the distribution threads.  The fifth place is gcBatch.
PendingObjects == {auditEvents[h][e] : h \in Hosts, e \in EventIds} \ {NoEvent}
PushedObjects == {thread[t].event : t \in Threads} \ {NoEvent}
QueuedObjects == {eventsQueue[k] : k \in DOMAIN eventsQueue}
WorkedObjects == {worker[w] : w \in Workers} \ {NoEvent}

\* No object in two places of different kinds.
PlacesDisjoint ==
  /\ PendingObjects \cap (PushedObjects \cup gcBatch \cup QueuedObjects \cup WorkedObjects) = {}
  /\ PushedObjects \cap (gcBatch \cup QueuedObjects \cup WorkedObjects) = {}
  /\ gcBatch \cap (QueuedObjects \cup WorkedObjects) = {}
  /\ QueuedObjects \cap WorkedObjects = {}

\* No object twice in places of one kind.
MapInjective ==
  \A h, g \in Hosts, e, f \in EventIds :
    auditEvents[h][e] = auditEvents[g][f] /\ auditEvents[h][e] # NoEvent => h = g /\ e = f
ThreadsInjective ==
  \A s, t \in Threads : thread[s].event = thread[t].event /\ thread[s].event # NoEvent => s = t
QueueInjective == \A j, k \in DOMAIN eventsQueue : eventsQueue[j] = eventsQueue[k] => j = k
WorkersInjective == \A v, w \in Workers : worker[v] = worker[w] /\ worker[v] # NoEvent => v = w

\* The objects that are alive are the ones some place holds, and no two places
\* hold the same one: the raw Audit_Event* that travels from its host's map
\* through the GC's batch and the queue to a distribution thread is never
\* leaked, never used after its deletion and never deleted twice.
SingleOwner ==
  /\ DOMAIN heap = PendingObjects \cup PushedObjects \cup gcBatch
                     \cup QueuedObjects \cup WorkedObjects
  /\ PlacesDisjoint
  /\ MapInjective /\ ThreadsInjective /\ QueueInjective /\ WorkersInjective

LiveEvents == {heap[o] : o \in DOMAIN heap}
AllEvents == LiveEvents \cup delivered \cup discarded
Members(s) == {s[k] : k \in DOMAIN s}

Gone == delivered \cup discarded
ShareNoLine(x, y) == Members(x.frags) \cap Members(y.frags) = {}

\* A line that was inserted is in exactly one event: insertion, the GC, the
\* queue, its overflow and the distribution threads neither lose a line nor
\* show it twice.
EveryLineOnce ==
  /\ \A i \in DOMAIN lines : \E x \in AllEvents : i \in Members(x.frags)
  /\ \A o, p \in DOMAIN heap : o # p => ShareNoLine(heap[o], heap[p])
  /\ \A x, y \in Gone : x # y => ShareNoLine(x, y)
  /\ \A o \in DOMAIN heap, x \in Gone : ShareNoLine(heap[o], x)
  /\ delivered \cap discarded = {}

\* The fragments of x are lines of its host and audit id, in insertion order.
Belong(x) ==
  /\ x.frags # <<>>
  /\ \A k \in DOMAIN x.frags :
       /\ x.frags[k] \in DOMAIN lines
       /\ lines[x.frags[k]].host = x.host
       /\ lines[x.frags[k]].id = x.id
  /\ \A j, k \in DOMAIN x.frags : j < k => x.frags[j] < x.frags[k]

\* An event holds lines of its own host and audit id only, in the order in
\* which they were inserted, whichever connections they came over.
FragmentsBelongTogether == \A x \in AllEvents : Belong(x)

SameKey(x, j) == x.host = lines[j].host /\ x.id = lines[j].id

\* Two lines of one host and audit id end in different events only if the
\* later one came when the event of the earlier one was older than MaxAge, or,
\* in the heuristic mode, after a line that ends an event.
SplitOnlyWhenDone ==
  \A x \in AllEvents, j \in DOMAIN lines :
    SameKey(x, j) /\ x.frags[1] < j /\ j \notin Members(x.frags)
    => \/ lines[j].at - x.created > MaxAge
       \/ /\ ~EnforceMaxAge
          /\ \E i \in Members(x.frags) : i < j /\ IsEndEventType(lines[i].type)

EventsOf(S, h) == {x \in S : x.host = h}

\* What the statistics calls report adds up whenever mutex_insert is free, as
\* it is for getJSONStats: every event ever created on a host is pending,
\* processed or dropped, the queue's own drop counter agrees with the hosts',
\* and what was pushed is in the queue, at a worker or counted as processed.
StatsAddUp ==
  /\ mutexInsert = Free =>
       /\ \A h \in Hosts :
            Cardinality({o \in DOMAIN heap : heap[o].host = h})
              + Cardinality(EventsOf(delivered, h)) + Cardinality(EventsOf(discarded, h))
            = Cardinality({e \in EventIds : auditEvents[h][e] # NoEvent})
              + processed[h] + dropped[h]
       /\ \A h \in Hosts : dropped[h] = Cardinality(EventsOf(discarded, h))
       /\ eventsDropped = Cardinality(discarded)
  /\ eventsProcessed = Cardinality(delivered)

\* An event that left its host's map is never written again: a distribution
\* thread reads it without any lock while receivers go on inserting.
QueuedEventsAreFrozen ==
  [][\A o \in DOMAIN heap \ PendingObjects :
       o \in DOMAIN heap' => heap'[o] = heap[o]]_vars

\* The pipeline implements LineCustody: a group is what one Audit_Event holds,
\* open while the event is in its host's map.  This is the promise of
\* reassembly: nothing joins an event after it left the map, and every event
\* leaves once, whole.
LinesOf(x) == Members(x.frags)
Custody == INSTANCE LineCustody WITH
  Keys    <- Hosts \X EventIds,
  key     <- [i \in DOMAIN lines |-> <<lines[i].host, lines[i].id>>],
  open    <- [k \in Hosts \X EventIds |->
                IF auditEvents[k[1]][k[2]] = NoEvent
                  THEN {} ELSE LinesOf(heap[auditEvents[k[1]][k[2]]])],
  leaving <- {LinesOf(heap[o]) : o \in DOMAIN heap \ PendingObjects},
  shown   <- {LinesOf(x) : x \in delivered},
  lost    <- {LinesOf(x) : x \in discarded}
ImplementsCustody == Custody!Spec

Settled(i) == \E x \in Gone : i \in Members(x.frags)

\* Every line inserted reaches the outputs in some event or is dropped with
\* it because the queue was full; none waits for ever in the map.
EveryLineSettles ==
  \A i \in 1..MaxLines : (i \in DOMAIN lines) ~> Settled(i)

\* config.ini: "EnforceMaxAge ... or pass when considered done by the
\* heuristic".  With the text "false" an event whose end line came is not kept.
FalseMeansHeuristic ==
  configText = "false" =>
    \A o \in PendingObjects :
      ~\E i \in Members(heap[o].frags) : IsEndEventType(lines[i].type)
=============================================================================
