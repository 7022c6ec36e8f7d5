----------------------- MODULE AuditReassembly_proofs -----------------------
(***************************************************************************)
(* Proofs about AuditReassembly, for every number of hosts, receivers and  *)
(* distribution threads, every queue size and age limit.                   *)
(*                                                                         *)
(* First who holds which object.  Then, on that, what the events hold:     *)
(* every line once, in an event of its own host and audit id, in order,    *)
(* and when two lines of one audit id may part: an event that left its     *)
(* host's map is not written any more.  Last what the outside sees: it     *)
(* implements LineCustody, and its counters account for every event.       *)
(***************************************************************************)
EXTENDS AuditReassembly, FiniteSetTheorems, TLAPS

\* Whoever is in the middle of something holds mutex_insert, and only a thread
\* about to push, or whose push failed, has an event at hand.
LockInv ==
  /\ \A t \in Threads : thread[t].pc # "idle" => mutexInsert = t
  /\ \A t \in Threads : thread[t].event # NoEvent <=> thread[t].pc \in {"push", "failed"}
  /\ thread[GC].pc = "idle" => gcBatch = {}

\* Objects get fresh numbers, and a map entry leads to an event of its own key.
HeapInv ==
  /\ \A o \in DOMAIN heap : o <= Len(lines)
  /\ \A h \in Hosts, e \in EventIds :
       auditEvents[h][e] # NoEvent =>
         heap[auditEvents[h][e]].host = h /\ heap[auditEvents[h][e]].id = e

IInv == TypeOK /\ LockInv /\ HeapInv /\ SingleOwner

USE DEF NoEvent, Threads, Objects, Pointers
-----------------------------------------------------------------------------
(* Sequences seen as the set of their elements.                             *)

\* Append adds its element to the elements of a sequence.
LEMMA AppendElements ==
  ASSUME NEW S, NEW s \in Seq(S), NEW x \in S
  PROVE  LET t == Append(s, x)
         IN  {t[k] : k \in DOMAIN t} = {s[k] : k \in DOMAIN s} \cup {x}
<1> DEFINE t == Append(s, x)
<1>1. /\ DOMAIN t = 1..(Len(s) + 1) /\ DOMAIN s = 1..Len(s) /\ Len(s) \in Nat
      /\ t[Len(s) + 1] = x
      /\ \A k \in 1..Len(s) : t[k] = s[k]
  OBVIOUS
<1>2. ASSUME NEW y \in {t[k] : k \in DOMAIN t}
      PROVE  y \in {s[k] : k \in DOMAIN s} \cup {x}
  BY <1>1
<1>3. ASSUME NEW y \in {s[k] : k \in DOMAIN s} \cup {x}
      PROVE  y \in {t[k] : k \in DOMAIN t}
  <2>1. CASE y = x
    BY <1>1, <2>1
  <2>2. CASE y # x
    <3>1. PICK k \in DOMAIN s : y = s[k]
      BY <1>3, <2>2
    <3>. QED
      BY <1>1, <3>1
  <2>. QED BY <2>1, <2>2
<1>. QED BY <1>2, <1>3

\* Appending a new element keeps a sequence free of repetitions.
LEMMA AppendInjective ==
  ASSUME NEW S, NEW s \in Seq(S), NEW x \in S,
         \A j, k \in DOMAIN s : s[j] = s[k] => j = k,
         x \notin {s[k] : k \in DOMAIN s}
  PROVE  LET t == Append(s, x)
         IN  \A j, k \in DOMAIN t : t[j] = t[k] => j = k
<1> DEFINE t == Append(s, x)
<1>1. /\ DOMAIN t = 1..(Len(s) + 1) /\ DOMAIN s = 1..Len(s) /\ Len(s) \in Nat
      /\ t[Len(s) + 1] = x
      /\ \A k \in 1..Len(s) : t[k] = s[k]
  OBVIOUS
<1>. QED BY <1>1

\* Tail takes exactly the head out of a sequence without repetitions.
LEMMA TailElements ==
  ASSUME NEW S, NEW s \in Seq(S), s # <<>>,
         \A j, k \in DOMAIN s : s[j] = s[k] => j = k
  PROVE  LET t == Tail(s)
         IN  /\ t \in Seq(S) /\ Len(t) = Len(s) - 1 /\ Head(s) \in S
             /\ {s[k] : k \in DOMAIN s} = {t[k] : k \in DOMAIN t} \cup {Head(s)}
             /\ Head(s) \notin {t[k] : k \in DOMAIN t}
             /\ \A j, k \in DOMAIN t : t[j] = t[k] => j = k
<1> DEFINE t == Tail(s)
<1>1. /\ Len(s) \in Nat \ {0} /\ DOMAIN s = 1..Len(s) /\ DOMAIN t = 1..(Len(s) - 1)
      /\ Head(s) = s[1]
      /\ \A k \in 1..(Len(s) - 1) : t[k] = s[k + 1]
  OBVIOUS
<1>a. t \in Seq(S) /\ Len(t) = Len(s) - 1 /\ Head(s) \in S
  OBVIOUS
<1>2. Head(s) \notin {t[k] : k \in DOMAIN t}
  BY <1>1
<1>3. \A j, k \in DOMAIN t : t[j] = t[k] => j = k
  BY <1>1
<1>4. ASSUME NEW y \in {s[k] : k \in DOMAIN s}
      PROVE  y \in {t[k] : k \in DOMAIN t} \cup {Head(s)}
  <2>1. PICK k \in DOMAIN s : y = s[k]
    BY <1>4
  <2>2. CASE k = 1
    BY <1>1, <2>1, <2>2
  <2>3. CASE k # 1
    <3>1. k - 1 \in DOMAIN t /\ t[k - 1] = y
      BY <1>1, <2>1, <2>3
    <3>. QED BY <3>1
  <2>. QED BY <2>2, <2>3
<1>5. ASSUME NEW y \in {t[k] : k \in DOMAIN t} \cup {Head(s)}
      PROVE  y \in {s[k] : k \in DOMAIN s}
  <2>1. CASE y = Head(s)
    BY <1>1, <2>1
  <2>2. CASE y # Head(s)
    <3>1. PICK k \in DOMAIN t : y = t[k]
      BY <1>5, <2>2
    <3>2. k + 1 \in DOMAIN s /\ s[k + 1] = y
      BY <1>1, <3>1
    <3>. QED BY <3>2
  <2>. QED BY <2>1, <2>2
<1>. QED BY <1>a, <1>2, <1>3, <1>4, <1>5
-----------------------------------------------------------------------------
(* The inductive invariant.                                                 *)

\* The initial states satisfy the inductive invariant.
LEMMA IInvInit == Init => IInv
<1> SUFFICES ASSUME Init PROVE IInv
  OBVIOUS
<1> USE DEF Init
<1>1. TypeOK
  <2>1. heap \in [DOMAIN heap -> Events] /\ DOMAIN heap \subseteq Objects
    OBVIOUS
  <2>. QED
    BY <2>1, ReassemblyAssumption DEF TypeOK, Pointers, Objects, IdleThread, NoEvent
<1>2. LockInv
  BY ReassemblyAssumption DEF LockInv, IdleThread, NoEvent, Threads
<1>3. HeapInv
  BY DEF HeapInv
<1>4. SingleOwner
  <2>1. PendingObjects = {}
    BY DEF PendingObjects
  <2>2. PushedObjects = {}
    BY DEF PushedObjects, IdleThread
  <2>3. QueuedObjects = {}
    BY DEF QueuedObjects
  <2>4. WorkedObjects = {}
    BY DEF WorkedObjects
  <2>5. PlacesDisjoint
    BY <2>1, <2>2, <2>3, <2>4 DEF PlacesDisjoint
  <2>6. MapInjective /\ ThreadsInjective /\ QueueInjective /\ WorkersInjective
    BY DEF MapInjective, ThreadsInjective, QueueInjective, WorkersInjective, IdleThread
  <2>. QED
    BY <2>1, <2>2, <2>3, <2>4, <2>5, <2>6 DEF SingleOwner
<1>. QED
  BY <1>1, <1>2, <1>3, <1>4 DEF IInv

\* The moves of an object between places are described by how the sets of
\* objects change.  A step that leaves a place alone leaves its set alone.
LEMMA SameMap == auditEvents' = auditEvents
  => PendingObjects' = PendingObjects /\ (MapInjective => MapInjective')
BY DEF PendingObjects, MapInjective

\* The same for what threads push.
LEMMA SameThreads == (\A t \in Threads : thread'[t].event = thread[t].event)
  => PushedObjects' = PushedObjects /\ (ThreadsInjective => ThreadsInjective')
BY DEF PushedObjects, ThreadsInjective

\* The same for the events queue.
LEMMA SameQueue == eventsQueue' = eventsQueue
  => QueuedObjects' = QueuedObjects /\ (QueueInjective => QueueInjective')
BY DEF QueuedObjects, QueueInjective

\* The same for the distribution threads.
LEMMA SameWorkers == worker' = worker
  => WorkedObjects' = WorkedObjects /\ (WorkersInjective => WorkersInjective')
BY DEF WorkedObjects, WorkersInjective

ThreadStates ==
  [Threads -> [pc : {"idle", "scan", "push", "pushed", "failed"},
               host : Hosts \cup {NoHost}, event : Pointers]]

\* A thread that puts down its event leaves the others with theirs.
LEMMA ThreadPutsDown ==
  ASSUME ThreadsInjective, NEW t \in Threads, thread[t].event # NoEvent,
         thread'[t].event = NoEvent, \A s \in Threads \ {t} : thread'[s] = thread[s]
  PROVE  PushedObjects' = PushedObjects \ {thread[t].event} /\ ThreadsInjective'
<1>1. ASSUME NEW y \in PushedObjects' PROVE y \in PushedObjects \ {thread[t].event}
  <2>1. PICK s \in Threads : y = thread'[s].event /\ y # NoEvent
    BY DEF PushedObjects
  <2>2. s # t /\ y = thread[s].event
    BY <2>1
  <2>. QED
    BY <2>1, <2>2 DEF PushedObjects, ThreadsInjective
<1>2. ASSUME NEW y \in PushedObjects \ {thread[t].event} PROVE y \in PushedObjects'
  BY DEF PushedObjects
<1>3. ThreadsInjective'
  BY DEF ThreadsInjective
<1>. QED BY <1>1, <1>2, <1>3

\* A thread that had no event takes one nobody else pushes.
LEMMA ThreadPicksUp ==
  ASSUME ThreadsInjective, NEW t \in Threads, thread[t].event = NoEvent,
         NEW o \in Objects, thread'[t].event = o, o \notin PushedObjects,
         \A s \in Threads \ {t} : thread'[s] = thread[s]
  PROVE  PushedObjects' = PushedObjects \cup {o} /\ ThreadsInjective'
<1>1. ASSUME NEW y \in PushedObjects' PROVE y \in PushedObjects \cup {o}
  <2>1. PICK s \in Threads : y = thread'[s].event /\ y # NoEvent
    BY DEF PushedObjects
  <2>. QED
    BY <2>1 DEF PushedObjects
<1>2. ASSUME NEW y \in PushedObjects \cup {o} PROVE y \in PushedObjects'
  <2>1. CASE y = o
    BY <2>1 DEF PushedObjects
  <2>2. CASE y # o
    <3>1. PICK s \in Threads : y = thread[s].event /\ y # NoEvent
      BY <1>2, <2>2 DEF PushedObjects
    <3>. QED
      BY <3>1 DEF PushedObjects
  <2>. QED BY <2>1, <2>2
<1>3. ThreadsInjective'
  BY DEF ThreadsInjective, PushedObjects
<1>. QED BY <1>1, <1>2, <1>3
-----------------------------------------------------------------------------
(* One lemma per action: it preserves the inductive invariant.              *)

\* Time passes.
LEMMA TickStep ==
  ASSUME IInv, Tick
  PROVE  IInv'
<1>1. UNCHANGED <<lines, storeVars, lockVars, queueVars, countVars, configText>>
  BY DEF Tick
<1> USE <1>1 DEF IInv, storeVars, lockVars, queueVars, countVars
<1>2. TypeOK'
  <2>1. clock' \in Nat
    BY ReassemblyAssumption DEF Tick
  <2>. QED
    BY <2>1 DEF TypeOK
<1>3. LockInv' /\ HeapInv'
  BY DEF LockInv, HeapInv
<1>4. SingleOwner'
  BY SameMap, SameThreads, SameQueue, SameWorkers DEF SingleOwner, PlacesDisjoint
<1>. QED BY <1>2, <1>3, <1>4

\* A push that finds room moves its event from the thread to the queue.
LEMMA PushDoneStep ==
  ASSUME IInv, NEW t \in Threads, PushDone(t)
  PROVE  IInv'
<1> DEFINE x == thread[t].event
<1> USE DEF IInv, PushDone
<1>1. /\ x \in Objects /\ x \in PushedObjects /\ x # NoEvent
      /\ eventsQueue \in Seq(Objects)
      /\ thread \in ThreadStates
  BY DEF TypeOK, LockInv, PushedObjects, ThreadStates
<1>2. /\ thread' \in ThreadStates
      /\ thread'[t].event = NoEvent /\ thread'[t].pc = "pushed"
      /\ \A s \in Threads \ {t} : thread'[s] = thread[s]
  BY <1>1 DEF ThreadStates
<1>3. TypeOK'
  <2>1. eventsQueue' \in Seq(Objects) /\ Len(eventsQueue') <= QueueSize
    BY <1>1, ReassemblyAssumption DEF QueueHasRoom, TypeOK
  <2>. QED
    BY <1>2, <2>1 DEF TypeOK, inputVars, storeVars, countVars, ThreadStates
<1>4. LockInv'
  BY <1>2 DEF LockInv
<1>5. HeapInv'
  BY DEF HeapInv, inputVars, storeVars
<1>6. SingleOwner'
  <2>1. PushedObjects' = PushedObjects \ {x} /\ ThreadsInjective'
    BY <1>1, <1>2, ThreadPutsDown DEF SingleOwner
  <2>2. x \notin QueuedObjects
    BY <1>1 DEF SingleOwner, PlacesDisjoint
  <2>3. QueuedObjects' = QueuedObjects \cup {x}
    BY <1>1, AppendElements, SMTT(30) DEF QueuedObjects
  <2>4. QueueInjective'
    BY <1>1, <2>2, AppendInjective DEF QueuedObjects, SingleOwner, QueueInjective
  <2>5. UNCHANGED <<auditEvents, worker, gcBatch, heap>>
    BY DEF storeVars
  <2>6. PlacesDisjoint'
    BY <1>1, <2>1, <2>3, <2>5, SameMap, SameWorkers DEF SingleOwner, PlacesDisjoint
  <2>. QED
    BY <1>1, <2>1, <2>3, <2>4, <2>5, <2>6, SameMap, SameWorkers DEF SingleOwner
<1>. QED
  BY <1>3, <1>4, <1>5, <1>6

\* A push that timed out changes a counter and where the thread stands.
LEMMA PushTimeoutStep ==
  ASSUME IInv, NEW t \in Threads, PushTimeout(t)
  PROVE  IInv'
<1> USE DEF IInv, PushTimeout
<1>1. /\ thread' \in ThreadStates /\ thread \in ThreadStates
      /\ thread'[t].pc = "failed" /\ thread'[t].event = thread[t].event
      /\ \A s \in Threads \ {t} : thread'[s] = thread[s]
  BY DEF TypeOK, ThreadStates
<1>2. TypeOK'
  BY <1>1 DEF TypeOK, inputVars, storeVars, queueVars, ThreadStates
<1>3. LockInv'
  BY <1>1 DEF LockInv
<1>4. HeapInv'
  BY DEF HeapInv, inputVars, storeVars
<1>5. SingleOwner'
  <2>1. UNCHANGED <<auditEvents, heap, eventsQueue, worker, gcBatch>>
    BY DEF storeVars, queueVars
  <2>2. \A s \in Threads : thread'[s].event = thread[s].event
    BY <1>1
  <2>. QED
    BY <2>1, <2>2, SameMap, SameThreads, SameQueue, SameWorkers DEF SingleOwner, PlacesDisjoint
<1>. QED
  BY <1>2, <1>3, <1>4, <1>5

\* The GC takes mutex_insert; no object moves.
LEMMA GCLockStep ==
  ASSUME IInv, GCLock
  PROVE  IInv'
<1> USE DEF IInv, GCLock
<1>1. /\ thread' \in ThreadStates /\ thread \in ThreadStates
      /\ thread'[GC].pc = "scan" /\ thread'[GC].event = thread[GC].event
      /\ \A s \in Threads \ {GC} : thread'[s] = thread[s]
  BY DEF TypeOK, ThreadStates
<1>2. TypeOK'
  BY <1>1 DEF TypeOK, inputVars, storeVars, queueVars, countVars, ThreadStates
<1>3. LockInv'
  BY <1>1, ReassemblyAssumption DEF LockInv
<1>4. HeapInv'
  BY DEF HeapInv, inputVars, storeVars
<1>5. SingleOwner'
  <2>1. UNCHANGED <<auditEvents, heap, eventsQueue, worker, gcBatch>>
    BY DEF storeVars, queueVars
  <2>2. \A s \in Threads : thread'[s].event = thread[s].event
    BY <1>1
  <2>. QED
    BY <2>1, <2>2, SameMap, SameThreads, SameQueue, SameWorkers DEF SingleOwner, PlacesDisjoint
<1>. QED
  BY <1>2, <1>3, <1>4, <1>5

\* The GC releases mutex_insert with an empty batch; no object moves.
LEMMA GCUnlockStep ==
  ASSUME IInv, GCUnlock
  PROVE  IInv'
<1> USE DEF IInv, GCUnlock
<1>1. /\ thread' \in ThreadStates /\ thread \in ThreadStates
      /\ thread'[GC].pc = "idle" /\ thread'[GC].event = NoEvent /\ thread[GC].event = NoEvent
      /\ \A s \in Threads \ {GC} : thread'[s] = thread[s]
  BY DEF TypeOK, LockInv, ThreadStates, IdleThread
<1>2. TypeOK'
  BY <1>1 DEF TypeOK, inputVars, storeVars, queueVars, countVars, ThreadStates
<1>3. LockInv'
  BY <1>1 DEF LockInv
<1>4. HeapInv'
  BY DEF HeapInv, inputVars, storeVars
<1>5. SingleOwner'
  <2>1. UNCHANGED <<auditEvents, heap, eventsQueue, worker, gcBatch>>
    BY DEF storeVars, queueVars
  <2>2. \A s \in Threads : thread'[s].event = thread[s].event
    BY <1>1
  <2>. QED
    BY <2>1, <2>2, SameMap, SameThreads, SameQueue, SameWorkers DEF SingleOwner, PlacesDisjoint
<1>. QED
  BY <1>2, <1>3, <1>4, <1>5

\* The GC takes one event of its batch in hand to push it.
LEMMA GCTakeStep ==
  ASSUME IInv, NEW o \in gcBatch, GCTake(o)
  PROVE  IInv'
<1> USE DEF IInv, GCTake
<1>a. thread \in ThreadStates /\ o \in Objects /\ o # NoEvent
  BY DEF TypeOK, ThreadStates
<1>b. thread[GC].event = NoEvent
  BY DEF LockInv
<1>1. /\ thread' \in ThreadStates
      /\ thread'[GC].pc = "push" /\ thread'[GC].event = o
      /\ \A s \in Threads \ {GC} : thread'[s] = thread[s]
  BY <1>a DEF ThreadStates
<1>2. TypeOK'
  BY <1>a, <1>b, <1>1 DEF TypeOK, inputVars, storeVars, queueVars, countVars, ThreadStates
<1>3. LockInv'
  BY <1>a, <1>b, <1>1 DEF LockInv
<1>4. HeapInv'
  BY DEF HeapInv, inputVars, storeVars
<1>5. SingleOwner'
  <2>1. UNCHANGED <<auditEvents, heap, eventsQueue, worker>> /\ gcBatch' = gcBatch \ {o}
    BY DEF storeVars, queueVars
  <2>2. PushedObjects' = PushedObjects \cup {o} /\ ThreadsInjective'
    BY <1>a, <1>b, <1>1, ThreadPicksUp DEF SingleOwner, PlacesDisjoint
  <2>3. PlacesDisjoint'
    BY <2>1, <2>2, SameMap, SameQueue, SameWorkers DEF SingleOwner, PlacesDisjoint
  <2>. QED
    BY <2>1, <2>2, <2>3, SameMap, SameQueue, SameWorkers DEF SingleOwner
<1>. QED
  BY <1>2, <1>3, <1>4, <1>5

\* What AfterPush does to the thread and the mutex.
AfterPushed(t) ==
  /\ thread' \in ThreadStates
  /\ thread'[t].pc = (IF t = GC THEN "scan" ELSE "idle")
  /\ thread'[t].event = NoEvent
  /\ \A s \in Threads \ {t} : thread'[s] = thread[s]
  /\ mutexInsert' = IF t = GC THEN mutexInsert ELSE Free

\* AfterPush sends the GC back to its batch and makes a receiver idle.
LEMMA AfterPushEffect ==
  ASSUME NEW t \in Threads, thread \in ThreadStates, AfterPush(t)
  PROVE  AfterPushed(t)
<1>1. CASE t = GC
  <2>1. thread' = [thread EXCEPT ![GC].pc = "scan", ![GC].event = NoEvent] /\ mutexInsert' = mutexInsert
    BY <1>1, ReassemblyAssumption DEF AfterPush
  <2>. QED
    BY <1>1, <2>1 DEF ThreadStates, AfterPushed
<1>2. CASE t # GC
  <2>1. thread' = [thread EXCEPT ![t] = IdleThread] /\ mutexInsert' = Free
    BY <1>2 DEF AfterPush
  <2>. QED
    BY <1>2, <2>1 DEF ThreadStates, AfterPushed, IdleThread
<1>. QED BY <1>1, <1>2

\* A per-host counter stays one when it is raised.
LEMMA RaisedCounter ==
  ASSUME NEW f \in [Hosts -> Nat], NEW h
  PROVE  [f EXCEPT ![h] = @ + 1] \in [Hosts -> Nat]
<1>1. CASE h \in Hosts
  BY <1>1
<1>2. CASE h \notin Hosts
  <2>1. [f EXCEPT ![h] = @ + 1] = f
    BY <1>2
  <2>. QED BY <2>1
<1>. QED BY <1>1, <1>2

\* After a push that succeeded the host's counter is raised; no object moves.
LEMMA CountProcessedStep ==
  ASSUME IInv, NEW t \in Threads, CountProcessed(t)
  PROVE  IInv'
<1> USE DEF IInv, CountProcessed
<1>a. thread \in ThreadStates
  BY DEF TypeOK, ThreadStates
<1>b. thread[t].event = NoEvent
  BY DEF LockInv
<1>1. AfterPushed(t)
  BY <1>a, AfterPushEffect
<1>2. TypeOK'
  <2>1. processed' \in [Hosts -> Nat]
    BY RaisedCounter DEF TypeOK
  <2>2. thread' \in ThreadStates /\ mutexInsert' \in Threads \cup {Free}
    BY <1>1 DEF AfterPushed, TypeOK
  <2>. QED
    BY <2>1, <2>2 DEF TypeOK, inputVars, storeVars, queueVars, ThreadStates
<1>3. LockInv'
  BY <1>1 DEF LockInv, AfterPushed
<1>4. HeapInv'
  BY DEF HeapInv, inputVars, storeVars
<1>5. SingleOwner'
  <2>1. UNCHANGED <<auditEvents, heap, eventsQueue, worker, gcBatch>>
    BY DEF storeVars, queueVars
  <2>2. \A s \in Threads : thread'[s].event = thread[s].event
    BY <1>b, <1>1 DEF AfterPushed
  <2>. QED
    BY <2>1, <2>2, SameMap, SameThreads, SameQueue, SameWorkers DEF SingleOwner, PlacesDisjoint
<1>. QED
  BY <1>2, <1>3, <1>4, <1>5

\* A live object that is deleted leaves the heap; the others stay as they are.
LEMMA WithoutProperties ==
  ASSUME NEW o, heap \in [DOMAIN heap -> Events], heap' = Without(heap, o)
  PROVE  /\ DOMAIN heap' = DOMAIN heap \ {o}
         /\ heap' \in [DOMAIN heap' -> Events]
         /\ \A x \in DOMAIN heap' : heap'[x] = heap[x]
BY DEF Without

\* After a push that timed out the thread deletes the event it has at hand.
LEMMA DeleteDroppedStep ==
  ASSUME IInv, NEW t \in Threads, DeleteDropped(t)
  PROVE  IInv'
<1> DEFINE x == thread[t].event
<1> USE DEF IInv, DeleteDropped
<1>1. AfterPushed(t) /\ thread \in ThreadStates
  BY AfterPushEffect DEF TypeOK, ThreadStates
<1>2. x \in PushedObjects /\ x # NoEvent /\ x \in DOMAIN heap
  BY DEF LockInv, PushedObjects, SingleOwner
<1>3. /\ DOMAIN heap' = DOMAIN heap \ {x} /\ heap' \in [DOMAIN heap' -> Events]
      /\ \A y \in DOMAIN heap' : heap'[y] = heap[y]
  BY WithoutProperties DEF TypeOK
<1>4. TypeOK'
  <2>1. dropped' \in [Hosts -> Nat]
    BY RaisedCounter DEF TypeOK, DroppedAfter
  <2>2. discarded' \subseteq Events
    BY <1>2 DEF TypeOK
  <2>3. thread' \in ThreadStates /\ mutexInsert' \in Threads \cup {Free}
    BY <1>1 DEF AfterPushed, TypeOK
  <2>. QED
    BY <1>3, <2>1, <2>2, <2>3 DEF TypeOK, inputVars, ThreadStates
<1>5. LockInv'
  BY <1>1 DEF LockInv, AfterPushed
<1>6. SingleOwner'
  <2>1. PushedObjects' = PushedObjects \ {x} /\ ThreadsInjective'
    BY <1>1, <1>2, ThreadPutsDown DEF SingleOwner, AfterPushed
  <2>2. UNCHANGED <<auditEvents, eventsQueue, worker, gcBatch>>
    OBVIOUS
  <2>3. PlacesDisjoint'
    BY <2>1, <2>2, SameMap, SameQueue, SameWorkers DEF SingleOwner, PlacesDisjoint
  <2>. QED
    BY <1>2, <1>3, <2>1, <2>2, <2>3, SameMap, SameQueue, SameWorkers DEF SingleOwner, PlacesDisjoint
<1>7. HeapInv'
  <2>1. x \notin PendingObjects
    BY <1>2 DEF SingleOwner, PlacesDisjoint
  <2>2. \A h \in Hosts, e \in EventIds :
          auditEvents[h][e] # NoEvent => auditEvents[h][e] \in DOMAIN heap'
    BY <1>3, <2>1 DEF SingleOwner, PendingObjects
  <2>. QED
    BY <1>3, <2>2 DEF HeapInv, inputVars
<1>. QED
  BY <1>4, <1>5, <1>6, <1>7

\* A distribution thread takes the first event of the queue.
LEMMA PopStep ==
  ASSUME IInv, NEW w \in Workers, Pop(w)
  PROVE  IInv'
<1> DEFINE x == Head(eventsQueue)
<1> USE DEF IInv, Pop
<1>1. eventsQueue \in Seq(Objects) /\ eventsQueue # <<>> /\ worker \in [Workers -> Pointers]
  BY DEF TypeOK
<1>a. /\ x \in Objects /\ eventsQueue' \in Seq(Objects) /\ Len(eventsQueue') = Len(eventsQueue) - 1
      /\ QueuedObjects = QueuedObjects' \cup {x} /\ x \notin QueuedObjects'
      /\ QueueInjective'
  <2>1. \A j, k \in DOMAIN eventsQueue : eventsQueue[j] = eventsQueue[k] => j = k
    BY DEF SingleOwner, QueueInjective
  <2>2. eventsQueue' = Tail(eventsQueue)
    OBVIOUS
  <2>3. LET s == eventsQueue
            t == Tail(s)
        IN  /\ t \in Seq(Objects) /\ Len(t) = Len(s) - 1 /\ Head(s) \in Objects
            /\ {s[k] : k \in DOMAIN s} = {t[k] : k \in DOMAIN t} \cup {Head(s)}
            /\ Head(s) \notin {t[k] : k \in DOMAIN t}
            /\ \A j, k \in DOMAIN t : t[j] = t[k] => j = k
    BY ONLY <1>1, <2>1, TailElements, Zenon
  <2>. QED
    BY ONLY <2>2, <2>3 DEF QueuedObjects, QueueInjective
<1>2. x # NoEvent /\ Len(eventsQueue') <= Len(eventsQueue)
  BY <1>1, <1>a
<1>3. TypeOK'
  <2>a. worker' = [worker EXCEPT ![w] = x] /\ x \in Pointers
    BY <1>a
  <2>1. worker' \in [Workers -> Pointers]
    BY ONLY <1>1, <2>a
  <2>2. Len(eventsQueue') <= QueueSize
    BY <1>1, <1>2, ReassemblyAssumption DEF TypeOK
  <2>. QED
    BY <1>a, <2>1, <2>2 DEF TypeOK, inputVars, storeVars, lockVars, countVars
<1>4. LockInv' /\ HeapInv'
  BY DEF LockInv, HeapInv, inputVars, storeVars, lockVars
<1>5. SingleOwner'
  <2>1. /\ QueuedObjects = QueuedObjects' \cup {x} /\ x \notin QueuedObjects'
        /\ QueueInjective'
    BY <1>a
  <2>2. WorkedObjects' = WorkedObjects \cup {x}
    <3>1. ASSUME NEW y \in WorkedObjects' PROVE y \in WorkedObjects \cup {x}
      BY <1>1 DEF WorkedObjects
    <3>2. ASSUME NEW y \in WorkedObjects \cup {x} PROVE y \in WorkedObjects'
      <4>1. CASE y = x
        BY <1>1, <1>2, <4>1 DEF WorkedObjects
      <4>2. CASE y # x
        <5>1. PICK v \in Workers : y = worker[v] /\ y # NoEvent
          BY <3>2, <4>2 DEF WorkedObjects
        <5>. QED
          BY <1>1, <5>1 DEF WorkedObjects
      <4>. QED BY <4>1, <4>2
    <3>. QED BY <3>1, <3>2
  <2>3. x \notin WorkedObjects
    BY <2>1 DEF SingleOwner, PlacesDisjoint
  <2>4. WorkersInjective'
    BY <1>1, <2>3 DEF WorkedObjects, WorkersInjective, SingleOwner
  <2>5. UNCHANGED <<auditEvents, heap, thread, gcBatch>>
    BY DEF storeVars, lockVars
  <2>6. PlacesDisjoint'
    BY <2>1, <2>2, <2>5, SameMap, SameThreads DEF SingleOwner, PlacesDisjoint
  <2>. QED
    BY <2>1, <2>2, <2>4, <2>5, <2>6, SameMap, SameThreads DEF SingleOwner
<1>. QED
  BY <1>3, <1>4, <1>5

\* A distribution thread hands its event to the outputs and deletes it.
LEMMA DistributeStep ==
  ASSUME IInv, NEW w \in Workers, Distribute(w)
  PROVE  IInv'
<1> DEFINE x == worker[w]
<1> USE DEF IInv, Distribute
<1>1. x \in WorkedObjects /\ x # NoEvent /\ x \in DOMAIN heap
  BY DEF WorkedObjects, SingleOwner
<1>2. /\ DOMAIN heap' = DOMAIN heap \ {x} /\ heap' \in [DOMAIN heap' -> Events]
      /\ \A y \in DOMAIN heap' : heap'[y] = heap[y]
  BY WithoutProperties DEF TypeOK
<1>3. TypeOK'
  <2>1. worker' \in [Workers -> Pointers] /\ eventsProcessed' \in Nat
    BY DEF TypeOK
  <2>2. delivered' \subseteq Events
    BY <1>1 DEF TypeOK
  <2>. QED
    BY <1>2, <2>1, <2>2 DEF TypeOK, inputVars, lockVars
<1>4. LockInv'
  BY DEF LockInv, lockVars
<1>5. SingleOwner'
  <2>1. worker \in [Workers -> Pointers]
    BY DEF TypeOK
  <2>2. WorkedObjects' = WorkedObjects \ {x}
    <3>1. ASSUME NEW y \in WorkedObjects' PROVE y \in WorkedObjects \ {x}
      <4>1. PICK v \in Workers : y = worker'[v] /\ y # NoEvent
        BY DEF WorkedObjects
      <4>2. v # w /\ y = worker[v]
        BY <2>1, <4>1
      <4>. QED
        BY <4>1, <4>2 DEF WorkedObjects, WorkersInjective, SingleOwner
    <3>2. ASSUME NEW y \in WorkedObjects \ {x} PROVE y \in WorkedObjects'
      BY <2>1 DEF WorkedObjects
    <3>. QED BY <3>1, <3>2
  <2>3. WorkersInjective'
    BY <2>1 DEF WorkersInjective, SingleOwner
  <2>4. UNCHANGED <<auditEvents, eventsQueue, thread, gcBatch>>
    BY DEF lockVars
  <2>5. PlacesDisjoint'
    BY <2>2, <2>4, SameMap, SameThreads, SameQueue DEF SingleOwner, PlacesDisjoint
  <2>. QED
    BY <1>1, <1>2, <2>2, <2>3, <2>4, <2>5, SameMap, SameThreads, SameQueue
       DEF SingleOwner, PlacesDisjoint
<1>6. HeapInv'
  <2>1. x \notin PendingObjects
    BY <1>1 DEF SingleOwner, PlacesDisjoint
  <2>2. \A h \in Hosts, e \in EventIds :
          auditEvents[h][e] # NoEvent => auditEvents[h][e] \in DOMAIN heap'
    BY <1>2, <2>1 DEF SingleOwner, PendingObjects
  <2>. QED
    BY <1>2, <2>2 DEF HeapInv, inputVars
<1>. QED
  BY <1>3, <1>4, <1>5, <1>6

\* The GC takes the expired events of a host out of the map, into its batch.
LEMMA GCCollectStep ==
  ASSUME IInv, NEW h \in Hosts, GCCollect(h)
  PROVE  IInv'
<1> USE DEF IInv, GCCollect
<1>1. /\ thread \in ThreadStates /\ thread' \in ThreadStates
      /\ \A s \in Threads : thread'[s].pc = thread[s].pc /\ thread'[s].event = thread[s].event
  BY DEF TypeOK, ThreadStates
<1>2. Expired(h) \subseteq PendingObjects
  BY DEF Expired, PendingOf, PendingObjects
<1>3. /\ auditEvents \in [Hosts -> [EventIds -> Pointers]]
      /\ auditEvents' \in [Hosts -> [EventIds -> Pointers]]
      /\ \A g \in Hosts, e \in EventIds :
           auditEvents'[g][e] = IF g = h /\ auditEvents[g][e] \in Expired(h)
                                  THEN NoEvent ELSE auditEvents[g][e]
  BY DEF TypeOK, MapWithoutExpired
<1>4. PendingObjects \subseteq Objects
  BY <1>3 DEF PendingObjects
<1>5. TypeOK'
  BY <1>1, <1>2, <1>3, <1>4 DEF TypeOK, inputVars, queueVars, countVars, ThreadStates
<1>6. LockInv'
  BY <1>1 DEF LockInv
<1>7. HeapInv'
  BY <1>3 DEF HeapInv, inputVars
<1>8. SingleOwner'
  <2>1. PendingObjects' = PendingObjects \ Expired(h)
    <3>1. ASSUME NEW y \in PendingObjects' PROVE y \in PendingObjects \ Expired(h)
      <4>1. PICK g \in Hosts, e \in EventIds : y = auditEvents'[g][e] /\ y # NoEvent
        BY DEF PendingObjects
      <4>2. y = auditEvents[g][e] /\ (g = h => y \notin Expired(h))
        BY <1>3, <4>1
      <4>3. g # h => y \notin Expired(h)
        BY <4>1, <4>2 DEF Expired, PendingOf, SingleOwner, MapInjective
      <4>. QED
        BY <4>1, <4>2, <4>3 DEF PendingObjects
    <3>2. ASSUME NEW y \in PendingObjects \ Expired(h) PROVE y \in PendingObjects'
      <4>1. PICK g \in Hosts, e \in EventIds : y = auditEvents[g][e] /\ y # NoEvent
        BY DEF PendingObjects
      <4>2. y = auditEvents'[g][e]
        BY <1>3, <3>2, <4>1
      <4>. QED
        BY <4>1, <4>2 DEF PendingObjects
    <3>. QED BY <3>1, <3>2
  <2>2. MapInjective'
    BY <1>3 DEF MapInjective, SingleOwner
  <2>3. UNCHANGED <<heap, eventsQueue, worker>> /\ gcBatch = {} /\ gcBatch' = Expired(h)
    BY DEF queueVars
  <2>4. PlacesDisjoint'
    BY <1>1, <1>2, <2>1, <2>3, SameThreads, SameQueue, SameWorkers DEF SingleOwner, PlacesDisjoint
  <2>. QED
    BY <1>1, <1>2, <2>1, <2>2, <2>3, <2>4, SameThreads, SameQueue, SameWorkers DEF SingleOwner
<1>. QED
  BY <1>5, <1>6, <1>7, <1>8

\* A line is stored in the pending event of its key or in a new one, and in the
\* heuristic mode the event may go from the map straight into a thread's hand.
LEMMA InsertStep ==
  ASSUME IInv, NEW r \in Receivers, NEW h \in Hosts, NEW e \in EventIds, NEW ty \in Types,
         Insert(r, h, e, ty)
  PROVE  IInv'
<1> DEFINE o == Target(h, e)
           ends == IsEndEventType(ty) /\ ~EnforceMaxAge
           old == IF o \in DOMAIN heap THEN heap[o] ELSE NewEvent(h, e)
           n == Len(lines) + 1
<1> HIDE DEF o, ends, old
<1> USE DEF IInv
<1>1. /\ Len(lines) < MaxLines /\ thread[r].pc = "idle" /\ mutexInsert = Free
      /\ lines' = Append(lines, [host |-> h, id |-> e, type |-> ty, at |-> clock])
      /\ heap' = [x \in DOMAIN heap \cup {o} |-> IF x # o THEN heap[x] ELSE Extended(old)]
      /\ auditEvents' = [auditEvents EXCEPT ![h][e] = SlotAfter(o, ends)]
      /\ IF ends
           THEN /\ mutexInsert' = r
                /\ thread' = [thread EXCEPT ![r] = [pc |-> "push", host |-> h, event |-> o]]
           ELSE UNCHANGED <<mutexInsert, thread>>
      /\ UNCHANGED <<configText, clock, gcHosts, gcBatch, queueVars, countVars>>
  BY DEF Insert, o, ends, old
<1>2. /\ lines \in Seq([host : Hosts, id : EventIds, type : Types, at : Nat])
      /\ Len(lines) \in Nat /\ n \in Objects /\ clock \in Nat
      /\ auditEvents \in [Hosts -> [EventIds -> Pointers]]
      /\ heap \in [DOMAIN heap -> Events] /\ DOMAIN heap \subseteq Objects
  BY <1>1, ReassemblyAssumption DEF TypeOK
<1>3. \/ o = auditEvents[h][e] /\ o \in PendingObjects /\ o \in DOMAIN heap
      \/ o = n /\ auditEvents[h][e] = NoEvent /\ o \notin DOMAIN heap
  <2>1. CASE auditEvents[h][e] # NoEvent
    BY <2>1 DEF o, Target, PendingObjects, SingleOwner
  <2>2. CASE auditEvents[h][e] = NoEvent
    BY <1>2, <2>2 DEF o, Target, HeapInv
  <2>. QED BY <2>1, <2>2
<1>4. o \in Objects /\ o # NoEvent
  BY <1>2, <1>3
<1>5. old \in Events /\ old.host = h /\ old.id = e
  <2>1. CASE o \in DOMAIN heap
    BY <1>2, <1>3, <2>1, SMTT(30) DEF old, HeapInv
  <2>2. CASE o \notin DOMAIN heap
    BY <1>2, <2>2 DEF old, NewEvent, Events
  <2>. QED BY <2>1, <2>2
<1>6. Extended(old) \in Events /\ Extended(old).host = h /\ Extended(old).id = e
  <2>1. old.frags \in Seq(Nat \ {0}) /\ Len(lines) + 1 \in Nat \ {0}
    BY <1>2, <1>5 DEF Events
  <2>2. Append(old.frags, Len(lines) + 1) \in Seq(Nat \ {0})
    BY ONLY <2>1
  <2>3. Extended(old) = [old EXCEPT !.frags = Append(old.frags, Len(lines) + 1)]
    BY DEF Extended
  <2>. QED
    BY ONLY <1>5, <2>2, <2>3 DEF Events
<1>7. /\ DOMAIN heap' = DOMAIN heap \cup {o} /\ heap' \in [DOMAIN heap' -> Events]
      /\ heap'[o] = Extended(old)
      /\ \A x \in DOMAIN heap \ {o} : heap'[x] = heap[x]
  BY <1>1, <1>2, <1>6
<1>8. /\ auditEvents' \in [Hosts -> [EventIds -> Pointers]]
      /\ auditEvents'[h][e] = SlotAfter(o, ends)
      /\ \A g \in Hosts, f \in EventIds : ~(g = h /\ f = e) => auditEvents'[g][f] = auditEvents[g][f]
  BY <1>1, <1>2, <1>4 DEF SlotAfter
<1>9. Len(lines') = Len(lines) + 1
  BY <1>1, <1>2
<1>10. HeapInv'
  <2>1. \A x \in DOMAIN heap' : x <= Len(lines')
    BY <1>2, <1>3, <1>7, <1>9 DEF HeapInv
  <2>2. ASSUME NEW g \in Hosts, NEW f \in EventIds, auditEvents'[g][f] # NoEvent
        PROVE  heap'[auditEvents'[g][f]].host = g /\ heap'[auditEvents'[g][f]].id = f
    <3>1. CASE g = h /\ f = e
      BY <1>6, <1>7, <1>8, <2>2, <3>1 DEF SlotAfter
    <3>2. CASE ~(g = h /\ f = e)
      <4>1. auditEvents'[g][f] = auditEvents[g][f] /\ auditEvents[g][f] \in DOMAIN heap
        BY <1>8, <2>2, <3>2 DEF SingleOwner, PendingObjects
      <4>2. auditEvents[g][f] # o
        BY <1>3, <2>2, <3>2, <4>1 DEF SingleOwner, MapInjective
      <4>. QED
        BY <1>7, <2>2, <4>1, <4>2 DEF HeapInv
    <3>. QED BY <3>1, <3>2
  <2>. QED BY <2>1, <2>2 DEF HeapInv
<1>11. thread \in ThreadStates /\ thread[r].event = NoEvent
  BY <1>1 DEF TypeOK, LockInv, ThreadStates
<1>12. /\ thread' \in ThreadStates
       /\ \A s \in Threads \ {r} : thread'[s] = thread[s]
       /\ ends => thread'[r].pc = "push" /\ thread'[r].event = o
       /\ ~ends => thread' = thread
  BY <1>1, <1>4, <1>11 DEF ThreadStates
<1>13. TypeOK'
  <2>1. lines' \in Seq([host : Hosts, id : EventIds, type : Types, at : Nat])
    BY <1>1, <1>2
  <2>2. Len(lines') <= MaxLines
    BY <1>1, <1>2, <1>9, ReassemblyAssumption
  <2>3. mutexInsert' \in Threads \cup {Free}
    BY <1>1
  <2>. QED
    BY <1>1, <1>2, <1>4, <1>7, <1>8, <1>12, <2>1, <2>2, <2>3
       DEF TypeOK, queueVars, countVars, ThreadStates
<1>14. LockInv'
  <2>1. \A s \in Threads : thread[s].pc = "idle"
    BY <1>1, ReassemblyAssumption DEF LockInv
  <2>2. \A s \in Threads : thread'[s].pc # "idle" => mutexInsert' = s
    BY <1>1, <1>12, <2>1
  <2>3. \A s \in Threads : thread'[s].event # NoEvent <=> thread'[s].pc \in {"push", "failed"}
    BY <1>4, <1>12 DEF LockInv
  <2>4. thread'[GC].pc = "idle" => gcBatch' = {}
    BY <1>1, <1>12, <2>1 DEF LockInv
  <2>. QED BY <2>2, <2>3, <2>4 DEF LockInv
<1>15. o \notin PushedObjects \cup gcBatch \cup QueuedObjects \cup WorkedObjects
  BY <1>3 DEF SingleOwner, PlacesDisjoint
<1>16. MapInjective'
  <2>1. \A g \in Hosts, f \in EventIds : auditEvents[g][f] = o => g = h /\ f = e
    BY <1>3, <1>4 DEF SingleOwner, MapInjective, PendingObjects
  <2>. QED
    BY <1>8, <2>1 DEF MapInjective, SingleOwner, SlotAfter
<1>17. /\ ends => PendingObjects' = PendingObjects \ {o}
       /\ ~ends => PendingObjects' = PendingObjects \cup {o}
  <2>1. \A g \in Hosts, f \in EventIds : auditEvents[g][f] = o => g = h /\ f = e
    BY <1>3, <1>4 DEF SingleOwner, MapInjective, PendingObjects
  <2>2. auditEvents[h][e] \in {o, NoEvent}
    BY <1>3
  <2>3. ASSUME NEW y \in PendingObjects' PROVE y \in PendingObjects \cup {o} /\ (ends => y # o)
    <3>1. PICK g \in Hosts, f \in EventIds : y = auditEvents'[g][f] /\ y # NoEvent
      BY DEF PendingObjects
    <3>2. CASE g = h /\ f = e
      BY <1>8, <3>1, <3>2 DEF SlotAfter
    <3>3. CASE ~(g = h /\ f = e)
      BY <1>8, <2>1, <3>1, <3>3 DEF PendingObjects
    <3>. QED BY <3>2, <3>3
  <2>4. ASSUME NEW y \in PendingObjects, y # o PROVE y \in PendingObjects'
    <3>1. PICK g \in Hosts, f \in EventIds : y = auditEvents[g][f] /\ y # NoEvent
      BY DEF PendingObjects
    <3>2. ~(g = h /\ f = e)
      BY <2>2, <2>4, <3>1
    <3>. QED
      BY <1>8, <3>1, <3>2 DEF PendingObjects
  <2>5. ~ends => o \in PendingObjects'
    BY <1>4, <1>8 DEF PendingObjects, SlotAfter
  <2>. QED BY <2>3, <2>4, <2>5
<1>18. SingleOwner'
  <2>1. UNCHANGED <<gcBatch, eventsQueue, worker>>
    BY <1>1 DEF queueVars
  <2>2. CASE ends
    <3>1. PushedObjects' = PushedObjects \cup {o} /\ ThreadsInjective'
      BY <1>4, <1>11, <1>12, <1>15, <2>2, ThreadPicksUp DEF SingleOwner
    <3>2. PlacesDisjoint'
      BY <1>15, <1>17, <2>1, <2>2, <3>1, SameQueue, SameWorkers DEF SingleOwner, PlacesDisjoint
    <3>. QED
      BY <1>3, <1>7, <1>16, <1>17, <2>1, <2>2, <3>1, <3>2, SameQueue, SameWorkers DEF SingleOwner
  <2>3. CASE ~ends
    <3>1. PushedObjects' = PushedObjects /\ ThreadsInjective'
      BY <1>12, <2>3, SameThreads DEF SingleOwner
    <3>2. PlacesDisjoint'
      BY <1>15, <1>17, <2>1, <2>3, <3>1, SameQueue, SameWorkers DEF SingleOwner, PlacesDisjoint
    <3>. QED
      BY <1>7, <1>16, <1>17, <2>1, <2>3, <3>1, <3>2, SameQueue, SameWorkers DEF SingleOwner
  <2>. QED BY <2>2, <2>3
<1>. QED
  BY <1>10, <1>13, <1>14, <1>18
-----------------------------------------------------------------------------
\* Every step of the pipeline preserves the inductive invariant.
LEMMA IInvNext == IInv /\ [Next]_vars => IInv'
<1> SUFFICES ASSUME IInv, [Next]_vars PROVE IInv'
  OBVIOUS
<1>1. CASE Tick
  BY <1>1, TickStep
<1>2. ASSUME NEW r \in Receivers, NEW h \in Hosts, NEW e \in EventIds, NEW ty \in Types,
             Insert(r, h, e, ty)
      PROVE  IInv'
  BY <1>2, InsertStep
<1>3. CASE GCLock
  BY <1>3, GCLockStep
<1>4. ASSUME NEW h \in Hosts, GCCollect(h) PROVE IInv'
  BY <1>4, GCCollectStep
<1>5. ASSUME NEW o \in gcBatch, GCTake(o) PROVE IInv'
  BY <1>5, GCTakeStep
<1>6. CASE GCUnlock
  BY <1>6, GCUnlockStep
<1>7. ASSUME NEW t \in Threads, PushDone(t) PROVE IInv'
  BY <1>7, PushDoneStep
<1>8. ASSUME NEW t \in Threads, PushTimeout(t) PROVE IInv'
  BY <1>8, PushTimeoutStep
<1>9. ASSUME NEW t \in Threads, CountProcessed(t) PROVE IInv'
  BY <1>9, CountProcessedStep
<1>10. ASSUME NEW t \in Threads, DeleteDropped(t) PROVE IInv'
  BY <1>10, DeleteDroppedStep
<1>11. ASSUME NEW w \in Workers, Pop(w) PROVE IInv'
  BY <1>11, PopStep
<1>12. ASSUME NEW w \in Workers, Distribute(w) PROVE IInv'
  BY <1>12, DistributeStep
<1>13. CASE UNCHANGED vars
  <2>1. UNCHANGED <<inputVars, storeVars, lockVars, queueVars, countVars>>
    BY <1>13 DEF vars
  <2> USE <2>1 DEF inputVars, storeVars, lockVars, queueVars, countVars, IInv
  <2>2. TypeOK' /\ LockInv' /\ HeapInv'
    BY DEF TypeOK, LockInv, HeapInv
  <2>3. SingleOwner'
    BY SameMap, SameThreads, SameQueue, SameWorkers DEF SingleOwner, PlacesDisjoint
  <2>. QED BY <2>2, <2>3
<1>. QED
  BY <1>1, <1>2, <1>3, <1>4, <1>5, <1>6, <1>7, <1>8, <1>9, <1>10, <1>11, <1>12, <1>13 DEF Next

\* The inductive invariant holds in every reachable state.
THEOREM InductiveInvariant == Spec => []IInv
BY IInvInit, IInvNext, PTL DEF Spec

\* Type correctness of the pipeline.
THEOREM TypeCorrect == Spec => []TypeOK
<1>1. IInv => TypeOK
  BY DEF IInv
<1>. QED BY InductiveInvariant, <1>1, PTL

\* Every Audit_Event that is alive is held in exactly one place, and no place
\* holds a deleted one.
THEOREM Ownership == Spec => []SingleOwner
<1>1. IInv => SingleOwner
  BY DEF IInv
<1>. QED BY InductiveInvariant, <1>1, PTL
-----------------------------------------------------------------------------
(* What the events hold.                                                     *)

\* What a step does to the events: nothing; one is deleted after it was handed
\* on or given up; or a line enters one of them.
NothingMoves ==
  /\ lines' = lines /\ heap' = heap
  /\ delivered' = delivered /\ discarded' = discarded

OneLeaves(o) ==
  /\ o \in DOMAIN heap /\ o \notin PendingObjects
  /\ lines' = lines
  /\ heap' = Without(heap, o)
  /\ PendingObjects' = PendingObjects
  /\ \/ delivered' = delivered \cup {heap[o]} /\ discarded' = discarded
     \/ discarded' = discarded \cup {heap[o]} /\ delivered' = delivered

\* The events are those of the heap and those that have gone.
LEMMA AllEventsCases ==
  ASSUME NEW x
  PROVE  x \in AllEvents <=> (\E o \in DOMAIN heap : x = heap[o]) \/ x \in Gone
BY DEF AllEvents, LiveEvents, Gone

\* Deleting an event that is handed on or given up keeps the set of events.
LEMMA LeavingKeepsEvents ==
  ASSUME NEW o, OneLeaves(o)
  PROVE  AllEvents' = AllEvents /\ Gone' = Gone \cup {heap[o]}
<1>1. /\ DOMAIN heap' = DOMAIN heap \ {o}
      /\ \A p \in DOMAIN heap \ {o} : heap'[p] = heap[p]
  BY DEF OneLeaves, Without
<1>2. Gone' = Gone \cup {heap[o]}
  BY DEF OneLeaves, Gone
<1>3. LiveEvents = LiveEvents' \cup {heap[o]}
  <2>1. ASSUME NEW y \in LiveEvents PROVE y \in LiveEvents' \cup {heap[o]}
    <3>1. PICK p \in DOMAIN heap : y = heap[p]
      BY DEF LiveEvents
    <3>2. CASE p = o
      BY <3>1, <3>2
    <3>3. CASE p # o
      BY <1>1, <3>1, <3>3 DEF LiveEvents
    <3>. QED BY <3>2, <3>3
  <2>2. ASSUME NEW y \in LiveEvents' PROVE y \in LiveEvents
    <3>1. PICK p \in DOMAIN heap' : y = heap'[p]
      BY DEF LiveEvents
    <3>. QED
      BY <1>1, <3>1 DEF LiveEvents
  <2>3. heap[o] \in LiveEvents
    BY DEF OneLeaves, LiveEvents
  <2>. QED BY <2>1, <2>2, <2>3
<1>. QED
  BY <1>2, <1>3 DEF AllEvents, Gone

\* A line of key (h, e) enters object o, its pending event or a new one.
LineEnters(h, e, ty, o) ==
  /\ lines' = Append(lines, [host |-> h, id |-> e, type |-> ty, at |-> clock])
  /\ DOMAIN heap' = DOMAIN heap \cup {o}
  /\ \A p \in DOMAIN heap \ {o} : heap'[p] = heap[p]
  /\ delivered' = delivered /\ discarded' = discarded
  /\ \/ /\ o \in DOMAIN heap /\ o = auditEvents[h][e]
        /\ heap'[o] = Extended(heap[o])
        /\ heap[o].host = h /\ heap[o].id = e
     \/ /\ o \notin DOMAIN heap /\ auditEvents[h][e] = NoEvent
        /\ heap'[o] = Extended(NewEvent(h, e))

\* Insert is such a step.
LEMMA InsertEffect ==
  ASSUME IInv, NEW r \in Receivers, NEW h \in Hosts, NEW e \in EventIds, NEW ty \in Types,
         Insert(r, h, e, ty)
  PROVE  LineEnters(h, e, ty, Target(h, e))
<1> DEFINE o == Target(h, e)
           old == IF o \in DOMAIN heap THEN heap[o] ELSE NewEvent(h, e)
<1> HIDE DEF o, old
<1>1. /\ lines' = Append(lines, [host |-> h, id |-> e, type |-> ty, at |-> clock])
      /\ heap' = [x \in DOMAIN heap \cup {o} |-> IF x # o THEN heap[x] ELSE Extended(old)]
      /\ delivered' = delivered /\ discarded' = discarded
  BY DEF Insert, o, old, queueVars
<1>2. CASE auditEvents[h][e] # NoEvent
  <2>1. o = auditEvents[h][e] /\ o \in DOMAIN heap /\ old = heap[o]
    BY <1>2 DEF IInv, o, old, Target, PendingObjects, SingleOwner
  <2>2. heap[o].host = h /\ heap[o].id = e
    BY <1>2, <2>1 DEF IInv, HeapInv
  <2>. QED
    BY <1>1, <2>1, <2>2 DEF LineEnters, o
<1>3. CASE auditEvents[h][e] = NoEvent
  <2>1. o = Len(lines) + 1 /\ Len(lines) \in Nat
    BY <1>3 DEF IInv, TypeOK, o, Target
  <2>2. o \notin DOMAIN heap
    BY <2>1 DEF IInv, HeapInv, TypeOK
  <2>3. old = NewEvent(h, e)
    BY <2>2 DEF old
  <2>. QED
    BY <1>1, <1>3, <2>1, <2>2, <2>3 DEF LineEnters, o
<1>. QED BY <1>2, <1>3

\* The lines that were there stay, and there is one more.
LEMMA LinesAfterEnter ==
  ASSUME TypeOK, NEW h \in Hosts, NEW e \in EventIds, NEW ty \in Types, NEW o,
         LineEnters(h, e, ty, o)
  PROVE  /\ Len(lines) \in Nat /\ DOMAIN lines = 1..Len(lines)
         /\ DOMAIN lines' = 1..(Len(lines) + 1)
         /\ \A i \in DOMAIN lines : lines'[i] = lines[i]
         /\ lines'[Len(lines) + 1] = [host |-> h, id |-> e, type |-> ty, at |-> clock]
<1> DEFINE line == [host |-> h, id |-> e, type |-> ty, at |-> clock]
<1>1. PICK S : lines \in Seq(S)
  BY DEF TypeOK
<1>2. lines' = Append(lines, line)
  BY DEF LineEnters
<1>3. line \in S \cup {line} /\ lines \in Seq(S \cup {line})
  BY <1>1
<1> HIDE DEF line
<1>4. Len(lines) \in Nat /\ DOMAIN lines = 1..Len(lines)
  BY <1>1
<1>5. /\ DOMAIN lines' = 1..(Len(lines) + 1)
      /\ \A i \in DOMAIN lines : lines'[i] = lines[i]
      /\ lines'[Len(lines) + 1] = line
  BY <1>2, <1>3, <1>4
<1>. QED
  BY <1>4, <1>5 DEF line

\* What Extended does to the fragments.
LEMMA ExtendedFrags ==
  ASSUME TypeOK, NEW x \in Events
  PROVE  /\ Extended(x).host = x.host /\ Extended(x).id = x.id /\ Extended(x).created = x.created
         /\ DOMAIN x.frags = 1..Len(x.frags) /\ Len(x.frags) \in Nat
         /\ DOMAIN Extended(x).frags = 1..(Len(x.frags) + 1)
         /\ Extended(x).frags[Len(x.frags) + 1] = Len(lines) + 1
         /\ \A k \in DOMAIN x.frags : Extended(x).frags[k] = x.frags[k]
         /\ Members(Extended(x).frags) = Members(x.frags) \cup {Len(lines) + 1}
         /\ Extended(x).frags # <<>>
<1>1. x.frags \in Seq(Nat \ {0}) /\ Len(lines) + 1 \in Nat \ {0}
  BY DEF TypeOK, Events
<1>2. Extended(x).frags = Append(x.frags, Len(lines) + 1)
  BY DEF Extended, Events
<1> DEFINE t == Extended(x).frags
<1>a. /\ Len(x.frags) \in Nat /\ DOMAIN x.frags = 1..Len(x.frags)
      /\ DOMAIN t = 1..(Len(x.frags) + 1)
      /\ t[Len(x.frags) + 1] = Len(lines) + 1
      /\ \A k \in DOMAIN x.frags : t[k] = x.frags[k]
  BY ONLY <1>1, <1>2
<1>3. Members(t) = Members(x.frags) \cup {Len(lines) + 1}
  <2> HIDE DEF t
  <2>1. ASSUME NEW y \in Members(t) PROVE y \in Members(x.frags) \cup {Len(lines) + 1}
    BY <1>a DEF Members
  <2>2. ASSUME NEW y \in Members(x.frags) \cup {Len(lines) + 1} PROVE y \in Members(t)
    <3>1. CASE y = Len(lines) + 1
      BY <1>a, <3>1 DEF Members
    <3>2. CASE y # Len(lines) + 1
      <4>1. PICK k \in DOMAIN x.frags : y = x.frags[k]
        BY <2>2, <3>2 DEF Members
      <4>. QED
        BY <1>a, <4>1 DEF Members
    <3>. QED BY <3>1, <3>2
  <2>. QED BY <2>1, <2>2
<1>4. Extended(x).host = x.host /\ Extended(x).id = x.id /\ Extended(x).created = x.created
  BY DEF Extended, Events
<1>. QED
  BY <1>1, <1>2, <1>a, <1>3, <1>4
-----------------------------------------------------------------------------
ContentInv == FragmentsBelongTogether /\ EveryLineOnce

\* Nothing is inserted yet.
LEMMA ContentInit == Init => ContentInv
BY DEF Init, ContentInv, FragmentsBelongTogether, EveryLineOnce, AllEvents, LiveEvents, Gone

\* A step that moves nothing keeps the contents.
LEMMA ContentSame == ContentInv /\ NothingMoves => ContentInv'
<1> SUFFICES ASSUME ContentInv, NothingMoves PROVE ContentInv'
  OBVIOUS
<1>1. AllEvents' = AllEvents /\ Gone' = Gone
  BY DEF NothingMoves, AllEvents, LiveEvents, Gone
<1>2. FragmentsBelongTogether'
  <2>1. lines' = lines /\ FragmentsBelongTogether
    BY DEF NothingMoves, ContentInv
  <2>. QED
    BY ONLY <1>1, <2>1 DEF FragmentsBelongTogether, Belong
<1>3. EveryLineOnce'
  <2>1. /\ lines' = lines /\ heap' = heap /\ delivered' = delivered /\ discarded' = discarded
        /\ EveryLineOnce
    BY DEF NothingMoves, ContentInv
  <2>. QED
    BY ONLY <1>1, <2>1 DEF EveryLineOnce, ShareNoLine
<1>. QED BY <1>2, <1>3 DEF ContentInv

\* An event that leaves takes its lines along.
LEMMA ContentLeaves ==
  ASSUME IInv, ContentInv, NEW o, OneLeaves(o)
  PROVE  ContentInv'
<1>1. AllEvents' = AllEvents /\ Gone' = Gone \cup {heap[o]} /\ lines' = lines
  BY LeavingKeepsEvents DEF OneLeaves
<1>2. /\ DOMAIN heap' = DOMAIN heap \ {o} /\ o \in DOMAIN heap
      /\ \A p \in DOMAIN heap \ {o} : heap'[p] = heap[p]
  BY DEF OneLeaves, Without
<1>3. FragmentsBelongTogether'
  BY <1>1 DEF ContentInv, FragmentsBelongTogether, Belong
<1>4. EveryLineOnce'
  <2>1. \A i \in DOMAIN lines' : \E x \in AllEvents' : i \in Members(x.frags)
    BY <1>1 DEF ContentInv, EveryLineOnce
  <2>2. \A p, q \in DOMAIN heap' : p # q => ShareNoLine(heap'[p], heap'[q])
    BY <1>2 DEF ContentInv, EveryLineOnce
  <2>3. \A x \in Gone : ShareNoLine(heap[o], x) /\ ShareNoLine(x, heap[o])
    BY <1>2 DEF ContentInv, EveryLineOnce, ShareNoLine
  <2>4. \A x, y \in Gone' : x # y => ShareNoLine(x, y)
    BY <1>1, <2>3 DEF ContentInv, EveryLineOnce
  <2>5. \A p \in DOMAIN heap', x \in Gone' : ShareNoLine(heap'[p], x)
    BY <1>1, <1>2 DEF ContentInv, EveryLineOnce
  <2>6. heap[o] \notin Gone
    <3>1. heap[o] \in AllEvents
      BY <1>2 DEF AllEvents, LiveEvents
    <3>2. heap[o].frags # <<>> /\ heap[o] \in Events
      BY <1>2, <3>1 DEF ContentInv, FragmentsBelongTogether, Belong, IInv, TypeOK
    <3>3. heap[o].frags[1] \in Members(heap[o].frags)
      BY <3>2 DEF Members, Events
    <3>. QED
      BY <2>3, <3>3 DEF ShareNoLine
  <2>7. delivered' \cap discarded' = {}
    BY <2>6 DEF OneLeaves, Gone, ContentInv, EveryLineOnce
  <2>. QED
    BY <2>1, <2>2, <2>4, <2>5, <2>7 DEF EveryLineOnce, ShareNoLine
<1>. QED BY <1>3, <1>4 DEF ContentInv

\* A line that enters joins lines of its own key only, and is last.
LEMMA ContentEnters ==
  ASSUME IInv, ContentInv, NEW h \in Hosts, NEW e \in EventIds, NEW ty \in Types, NEW o \in Objects,
         LineEnters(h, e, ty, o)
  PROVE  ContentInv'
<1> DEFINE n == Len(lines) + 1
           base == IF o \in DOMAIN heap THEN heap[o] ELSE NewEvent(h, e)
<1> HIDE DEF base
<1>1. /\ Len(lines) \in Nat /\ DOMAIN lines = 1..Len(lines)
      /\ DOMAIN lines' = 1..n
      /\ \A i \in DOMAIN lines : lines'[i] = lines[i]
      /\ lines'[n] = [host |-> h, id |-> e, type |-> ty, at |-> clock]
  BY LinesAfterEnter DEF IInv
<1>2. /\ DOMAIN heap' = DOMAIN heap \cup {o}
      /\ \A p \in DOMAIN heap \ {o} : heap'[p] = heap[p]
      /\ heap'[o] = Extended(base) /\ base.host = h /\ base.id = e
      /\ Gone' = Gone
  BY DEF LineEnters, base, NewEvent, Gone
<1>3. base \in Events
  BY DEF LineEnters, IInv, TypeOK, base, NewEvent, Events
<1>4. /\ heap'[o].host = h /\ heap'[o].id = e
      /\ DOMAIN base.frags = 1..Len(base.frags) /\ Len(base.frags) \in Nat
      /\ DOMAIN heap'[o].frags = 1..(Len(base.frags) + 1)
      /\ heap'[o].frags[Len(base.frags) + 1] = n
      /\ \A k \in DOMAIN base.frags : heap'[o].frags[k] = base.frags[k]
      /\ Members(heap'[o].frags) = Members(base.frags) \cup {n}
      /\ heap'[o].frags # <<>>
  BY <1>2, <1>3, ExtendedFrags DEF IInv
<1>5. \A x \in AllEvents : Members(x.frags) \subseteq DOMAIN lines
  BY DEF ContentInv, FragmentsBelongTogether, Belong, Members
<1>6. \/ o \in DOMAIN heap /\ base = heap[o] /\ base \in AllEvents
      \/ o \notin DOMAIN heap /\ base.frags = <<>> /\ Members(base.frags) = {}
  BY DEF base, NewEvent, Members, AllEvents, LiveEvents
<1>7. FragmentsBelongTogether'
  <2>1. ASSUME NEW x \in AllEvents, Belong(x)
        PROVE  /\ x.frags # <<>>
               /\ \A k \in DOMAIN x.frags :
                    /\ x.frags[k] \in DOMAIN lines'
                    /\ lines'[x.frags[k]].host = x.host
                    /\ lines'[x.frags[k]].id = x.id
               /\ \A j, k \in DOMAIN x.frags : j < k => x.frags[j] < x.frags[k]
    BY <1>1, <2>1 DEF Belong
  <2>2. /\ \A k \in DOMAIN heap'[o].frags :
             /\ heap'[o].frags[k] \in DOMAIN lines'
             /\ lines'[heap'[o].frags[k]].host = h
             /\ lines'[heap'[o].frags[k]].id = e
        /\ \A j, k \in DOMAIN heap'[o].frags : j < k => heap'[o].frags[j] < heap'[o].frags[k]
    <3>1. CASE o \in DOMAIN heap
      <4>1. Belong(base)
        BY <1>6, <3>1 DEF ContentInv, FragmentsBelongTogether
      <4>2. /\ \A k \in DOMAIN base.frags :
                  /\ base.frags[k] \in DOMAIN lines
                  /\ lines[base.frags[k]].host = h /\ lines[base.frags[k]].id = e
            /\ \A j, k \in DOMAIN base.frags : j < k => base.frags[j] < base.frags[k]
        BY <1>2, <4>1 DEF Belong
      <4>3. ASSUME NEW k \in DOMAIN heap'[o].frags
            PROVE  /\ heap'[o].frags[k] \in DOMAIN lines'
                   /\ lines'[heap'[o].frags[k]].host = h
                   /\ lines'[heap'[o].frags[k]].id = e
        <5>1. CASE k \in DOMAIN base.frags
          BY <1>1, <1>4, <4>2, <5>1, SMTT(30)
        <5>2. CASE k \notin DOMAIN base.frags
          <6>1. heap'[o].frags[k] = n
            BY <1>4, <5>2
          <6>. QED
            BY <1>1, <6>1
        <5>. QED BY <5>1, <5>2
      <4>4. ASSUME NEW j \in DOMAIN heap'[o].frags, NEW k \in DOMAIN heap'[o].frags, j < k
            PROVE  heap'[o].frags[j] < heap'[o].frags[k]
        <5>1. j \in DOMAIN base.frags /\ heap'[o].frags[j] = base.frags[j]
          BY <1>4, <4>4
        <5>2. CASE k \in DOMAIN base.frags
          BY <1>4, <4>2, <4>4, <5>1, <5>2
        <5>3. CASE k \notin DOMAIN base.frags
          <6>1. heap'[o].frags[k] = n /\ base.frags[j] \in 1..Len(lines)
            BY <1>1, <1>4, <4>2, <5>1, <5>3
          <6>. QED
            BY <1>1, <5>1, <6>1
        <5>. QED BY <5>2, <5>3
      <4>. QED BY <4>3, <4>4
    <3>2. CASE o \notin DOMAIN heap
      <4>1. Len(base.frags) = 0
        BY <1>6, <3>2
      <4>. QED
        BY <1>1, <1>4, <4>1
    <3>. QED BY <3>1, <3>2
  <2>3. ASSUME NEW x \in AllEvents' PROVE Belong(x)'
    <3>1. CASE x = heap'[o]
      BY <1>4, <2>2, <3>1 DEF Belong
    <3>2. CASE x # heap'[o]
      <4>1. x \in AllEvents
        BY <1>2, <3>2 DEF AllEvents, LiveEvents, Gone
      <4>2. Belong(x)
        BY <4>1 DEF ContentInv, FragmentsBelongTogether
      <4>. QED
        BY <2>1, <4>1, <4>2 DEF Belong
    <3>. QED BY <3>1, <3>2
  <2>. QED BY <2>3 DEF FragmentsBelongTogether
<1>8. EveryLineOnce'
  <2>1. n \notin DOMAIN lines
    BY <1>1
  <2>2. ASSUME NEW i \in DOMAIN lines' PROVE \E x \in AllEvents' : i \in Members(x.frags)
    <3>0. heap'[o] \in AllEvents'
      BY <1>2 DEF AllEvents, LiveEvents
    <3>1. CASE i = n
      BY <1>4, <3>0, <3>1
    <3>2. CASE i # n
      <4>1. i \in DOMAIN lines
        BY <1>1, <3>2
      <4>2. PICK x \in AllEvents : i \in Members(x.frags)
        BY <4>1 DEF ContentInv, EveryLineOnce
      <4>3. CASE x \in Gone
        BY <1>2, <4>2, <4>3 DEF AllEvents, Gone
      <4>4. CASE x \notin Gone
        <5>1. PICK p \in DOMAIN heap : x = heap[p]
          BY <4>4 DEF AllEvents, LiveEvents, Gone
        <5>2. CASE p = o
          BY <1>4, <1>6, <3>0, <4>2, <5>1, <5>2
        <5>3. CASE p # o
          BY <1>2, <4>2, <5>1, <5>3 DEF AllEvents, LiveEvents
        <5>. QED BY <5>2, <5>3
      <4>. QED BY <4>3, <4>4
    <3>. QED BY <3>1, <3>2
  <2>3. \A p \in DOMAIN heap \ {o} :
          ShareNoLine(heap[p], heap'[o]) /\ ShareNoLine(heap'[o], heap[p])
    <3>1. SUFFICES ASSUME NEW p \in DOMAIN heap \ {o}
                   PROVE  Members(heap[p].frags) \cap (Members(base.frags) \cup {n}) = {}
      BY <1>4 DEF ShareNoLine
    <3>2. n \notin Members(heap[p].frags)
      BY <1>5, <2>1 DEF AllEvents, LiveEvents
    <3>3. Members(heap[p].frags) \cap Members(base.frags) = {}
      BY <1>6 DEF ContentInv, EveryLineOnce, ShareNoLine
    <3>. QED BY <3>2, <3>3
  <2>4. \A x \in Gone : ShareNoLine(heap'[o], x)
    <3>1. SUFFICES ASSUME NEW x \in Gone
                   PROVE  Members(x.frags) \cap (Members(base.frags) \cup {n}) = {}
      BY <1>4 DEF ShareNoLine
    <3>2. n \notin Members(x.frags)
      BY <1>5, <2>1 DEF AllEvents, Gone
    <3>3. Members(x.frags) \cap Members(base.frags) = {}
      BY <1>6 DEF ContentInv, EveryLineOnce, ShareNoLine
    <3>. QED BY <3>2, <3>3
  <2>5. \A p, q \in DOMAIN heap' : p # q => ShareNoLine(heap'[p], heap'[q])
    BY <1>2, <2>3 DEF ContentInv, EveryLineOnce
  <2>6. \A x, y \in Gone' : x # y => ShareNoLine(x, y)
    BY <1>2 DEF ContentInv, EveryLineOnce
  <2>7. \A p \in DOMAIN heap', x \in Gone' : ShareNoLine(heap'[p], x)
    BY <1>2, <2>4 DEF ContentInv, EveryLineOnce
  <2>8. delivered' \cap discarded' = {}
    BY DEF LineEnters, ContentInv, EveryLineOnce
  <2>. QED
    BY <2>2, <2>5, <2>6, <2>7, <2>8 DEF EveryLineOnce, ShareNoLine
<1>. QED BY <1>7, <1>8 DEF ContentInv
-----------------------------------------------------------------------------
\* Every step is of one of three kinds.
StepKind ==
  \/ NothingMoves
  \/ \E o \in DOMAIN heap : OneLeaves(o)
  \/ \E r \in Receivers, h \in Hosts, e \in EventIds, ty \in Types : Insert(r, h, e, ty)

\* Only Insert, DeleteDropped and Distribute move lines.
LEMMA StepKinds ==
  ASSUME IInv, [Next]_vars
  PROVE  StepKind
<1> USE DEF inputVars, storeVars, lockVars, queueVars, countVars
<1>1. CASE Tick
  BY <1>1 DEF Tick, NothingMoves, StepKind
<1>2. ASSUME NEW r \in Receivers, NEW h \in Hosts, NEW e \in EventIds, NEW ty \in Types,
             Insert(r, h, e, ty)
      PROVE  StepKind
  BY <1>2 DEF StepKind
<1>3. CASE GCLock
  BY <1>3 DEF GCLock, NothingMoves, StepKind
<1>4. ASSUME NEW h \in Hosts, GCCollect(h) PROVE StepKind
  BY <1>4 DEF GCCollect, NothingMoves, StepKind
<1>5. ASSUME NEW o \in gcBatch, GCTake(o) PROVE StepKind
  BY <1>5 DEF GCTake, NothingMoves, StepKind
<1>6. CASE GCUnlock
  BY <1>6 DEF GCUnlock, NothingMoves, StepKind
<1>7. ASSUME NEW t \in Threads, PushDone(t) PROVE StepKind
  BY <1>7 DEF PushDone, NothingMoves, StepKind
<1>8. ASSUME NEW t \in Threads, PushTimeout(t) PROVE StepKind
  BY <1>8 DEF PushTimeout, NothingMoves, StepKind
<1>9. ASSUME NEW t \in Threads, CountProcessed(t) PROVE StepKind
  BY <1>9 DEF CountProcessed, NothingMoves, StepKind
<1>10. ASSUME NEW t \in Threads, DeleteDropped(t) PROVE StepKind
  <2> DEFINE o == thread[t].event
  <2>1. o \in PushedObjects /\ o \in DOMAIN heap
    BY <1>10 DEF DeleteDropped, IInv, LockInv, PushedObjects, SingleOwner
  <2>2. o \notin PendingObjects
    BY <2>1 DEF IInv, SingleOwner, PlacesDisjoint
  <2>3. OneLeaves(o)
    BY <1>10, <2>1, <2>2, SameMap DEF DeleteDropped, OneLeaves
  <2>. QED BY <2>1, <2>3 DEF StepKind
<1>11. ASSUME NEW w \in Workers, Pop(w) PROVE StepKind
  BY <1>11 DEF Pop, NothingMoves, StepKind
<1>12. ASSUME NEW w \in Workers, Distribute(w) PROVE StepKind
  <2> DEFINE o == worker[w]
  <2>1. o \in WorkedObjects /\ o \in DOMAIN heap
    BY <1>12 DEF Distribute, IInv, WorkedObjects, SingleOwner
  <2>2. o \notin PendingObjects
    BY <2>1 DEF IInv, SingleOwner, PlacesDisjoint
  <2>3. OneLeaves(o)
    BY <1>12, <2>1, <2>2, SameMap DEF Distribute, OneLeaves
  <2>. QED BY <2>1, <2>3 DEF StepKind
<1>13. CASE UNCHANGED vars
  BY <1>13 DEF vars, NothingMoves, StepKind
<1>. QED
  BY <1>1, <1>2, <1>3, <1>4, <1>5, <1>6, <1>7, <1>8, <1>9, <1>10, <1>11, <1>12, <1>13 DEF Next

\* A line goes to an object of the heap's range.
LEMMA TargetIsObject ==
  ASSUME IInv, NEW r \in Receivers, NEW h \in Hosts, NEW e \in EventIds, NEW ty \in Types,
         Insert(r, h, e, ty)
  PROVE  Target(h, e) \in Objects
BY ReassemblyAssumption DEF IInv, TypeOK, Insert, Target

\* Every step preserves the contents invariant.
LEMMA ContentNext ==
  ASSUME IInv, ContentInv, [Next]_vars
  PROVE  ContentInv'
<1>1. CASE NothingMoves
  BY <1>1, ContentSame
<1>2. ASSUME NEW o \in DOMAIN heap, OneLeaves(o) PROVE ContentInv'
  BY <1>2, ContentLeaves
<1>3. ASSUME NEW r \in Receivers, NEW h \in Hosts, NEW e \in EventIds, NEW ty \in Types,
             Insert(r, h, e, ty)
      PROVE  ContentInv'
  BY <1>3, InsertEffect, TargetIsObject, ContentEnters
<1>. QED
  BY <1>1, <1>2, <1>3, StepKinds DEF StepKind

\* Both content properties hold together.
THEOREM ContentInvariant == Spec => []ContentInv
<1>1. IInv /\ ContentInv /\ [Next]_vars => ContentInv'
  BY ContentNext
<1>. QED
  BY ContentInit, <1>1, InductiveInvariant, PTL DEF Spec

\* An event never mixes hosts or audit ids, nor reorders lines.
THEOREM EventsHoldTheirOwnLines == Spec => []FragmentsBelongTogether
<1>1. ContentInv => FragmentsBelongTogether
  BY DEF ContentInv
<1>. QED BY ContentInvariant, <1>1, PTL

\* No line is lost and none is shown twice.
THEOREM NoLineLostOrTwice == Spec => []EveryLineOnce
<1>1. ContentInv => EveryLineOnce
  BY DEF ContentInv
<1>. QED BY ContentInvariant, <1>1, PTL

\* What a step does not delete, of the events that left their map, it leaves alone.
LEMMA FrozenStep ==
  ASSUME IInv, [Next]_vars, NEW o \in DOMAIN heap \ PendingObjects, o \in DOMAIN heap'
  PROVE  heap'[o] = heap[o]
<1>1. CASE NothingMoves
  BY <1>1 DEF NothingMoves
<1>2. ASSUME NEW p \in DOMAIN heap, OneLeaves(p) PROVE heap'[o] = heap[o]
  BY <1>2 DEF OneLeaves, Without
<1>3. ASSUME NEW r \in Receivers, NEW h \in Hosts, NEW e \in EventIds, NEW ty \in Types,
             Insert(r, h, e, ty)
      PROVE  heap'[o] = heap[o]
  <2> DEFINE q == Target(h, e)
  <2>1. LineEnters(h, e, ty, q)
    BY <1>3, InsertEffect
  <2>2. q \in DOMAIN heap => q \in PendingObjects
    <3>1. CASE auditEvents[h][e] # NoEvent
      BY <3>1 DEF Target, PendingObjects
    <3>2. CASE auditEvents[h][e] = NoEvent
      BY <3>2 DEF Target, IInv, HeapInv, TypeOK
    <3>. QED BY <3>1, <3>2
  <2>. QED
    BY <2>1, <2>2 DEF LineEnters
<1>. QED
  BY <1>1, <1>2, <1>3, StepKinds DEF StepKind

\* An event that left its host's map is never written again: a worker may
\* read it without a lock.
THEOREM FrozenOnceOut == Spec => QueuedEventsAreFrozen
<1>1. ASSUME IInv, [Next]_vars
      PROVE  [\A o \in DOMAIN heap \ PendingObjects : o \in DOMAIN heap' => heap'[o] = heap[o]]_vars
  BY <1>1, FrozenStep
<1>. QED
  BY <1>1, InductiveInvariant, PTL DEF Spec, QueuedEventsAreFrozen
-----------------------------------------------------------------------------
(* In which order the lines of one audit id leave.                           *)

\* If the events are of one key, every line of x came before every line of y.
InTurn(x, y) ==
  x.host = y.host /\ x.id = y.id =>
    \A a \in Members(x.frags), b \in Members(y.frags) : a < b

Leaving == PushedObjects \cup gcBatch

\* Events of one key are in turn from their host's map to a distribution
\* thread, and no two of them are on their way from the map to the queue: the
\* mutex is held until what was taken out of the map is pushed.
LineOrder ==
  /\ \A o \in DOMAIN heap \ PendingObjects, p \in PendingObjects : InTurn(heap[o], heap[p])
  /\ \A o, p \in Leaving : heap[o].host = heap[p].host /\ heap[o].id = heap[p].id => o = p
  /\ \A o \in QueuedObjects, p \in Leaving : InTurn(heap[o], heap[p])
  /\ \A j, k \in DOMAIN eventsQueue : j < k => InTurn(heap[eventsQueue[j]], heap[eventsQueue[k]])

\* The map has one event of a key.
LEMMA PendingByKey ==
  ASSUME IInv, NEW o \in PendingObjects, NEW p \in PendingObjects,
         heap[o].host = heap[p].host, heap[o].id = heap[p].id
  PROVE  o = p
<1>1. PICK g \in Hosts, f \in EventIds : o = auditEvents[g][f] /\ o # NoEvent
  BY DEF PendingObjects
<1>2. PICK h \in Hosts, e \in EventIds : p = auditEvents[h][e] /\ p # NoEvent
  BY DEF PendingObjects
<1>3. heap[o].host = g /\ heap[o].id = f /\ heap[p].host = h /\ heap[p].id = e
  BY <1>1, <1>2 DEF IInv, HeapInv
<1>. QED BY <1>1, <1>2, <1>3

\* The four parts after a step.
LEMMA OrderPrimed ==
  ASSUME \A o \in DOMAIN heap' \ PendingObjects', p \in PendingObjects' : InTurn(heap'[o], heap'[p]),
         \A o, p \in Leaving' : heap'[o].host = heap'[p].host /\ heap'[o].id = heap'[p].id => o = p,
         \A o \in QueuedObjects', p \in Leaving' : InTurn(heap'[o], heap'[p]),
         \A j, k \in DOMAIN eventsQueue' :
           j < k => InTurn(heap'[eventsQueue'[j]], heap'[eventsQueue'[k]])
  PROVE  LineOrder'
BY DEF LineOrder, InTurn, Members

\* A step that takes no object out of a map and puts none into the queue.
LEMMA OrderShrinks ==
  ASSUME IInv, IInv', LineOrder,
         \A o \in DOMAIN heap' : o \in DOMAIN heap /\ heap'[o] = heap[o],
         PendingObjects' = PendingObjects, Leaving' \subseteq Leaving,
         eventsQueue' = eventsQueue \/ (eventsQueue # <<>> /\ eventsQueue' = Tail(eventsQueue))
  PROVE  LineOrder'
<1>1. DOMAIN heap' = PendingObjects' \cup Leaving' \cup QueuedObjects' \cup WorkedObjects'
  BY DEF IInv, SingleOwner, Leaving
<1>2. PICK q \in Seq(Objects) : q = eventsQueue
  BY DEF IInv, TypeOK
<1>3. PICK d \in {0, 1} : \A k \in DOMAIN eventsQueue' :
        k \in Nat /\ k + d \in DOMAIN eventsQueue /\ eventsQueue'[k] = eventsQueue[k + d]
  <2>1. CASE eventsQueue' = eventsQueue
    <3>1. \A k \in DOMAIN q : k \in Nat /\ k + 0 = k
      OBVIOUS
    <3>. QED BY <1>2, <2>1, <3>1
  <2>2. CASE q # <<>> /\ eventsQueue' = Tail(q)
    <3>1. \A k \in DOMAIN Tail(q) : k \in Nat /\ k + 1 \in DOMAIN q /\ Tail(q)[k] = q[k + 1]
      BY <2>2
    <3>. QED BY <1>2, <2>2, <3>1
  <2>. QED BY <1>2, <2>1, <2>2
<1>4. QueuedObjects' \subseteq QueuedObjects
  BY <1>3 DEF QueuedObjects
<1>5. ASSUME NEW o \in DOMAIN heap', NEW p \in DOMAIN heap', InTurn(heap[o], heap[p])
      PROVE  InTurn(heap'[o], heap'[p])
  BY <1>5
<1>6. \A o \in DOMAIN heap' \ PendingObjects', p \in PendingObjects' : InTurn(heap'[o], heap'[p])
  BY <1>1, <1>5 DEF LineOrder
<1>7. \A o, p \in Leaving' : heap'[o].host = heap'[p].host /\ heap'[o].id = heap'[p].id => o = p
  BY <1>1 DEF LineOrder
<1>8. \A o \in QueuedObjects', p \in Leaving' : InTurn(heap'[o], heap'[p])
  BY <1>1, <1>4, <1>5 DEF LineOrder
<1>9. ASSUME NEW j \in DOMAIN eventsQueue', NEW k \in DOMAIN eventsQueue', j < k
      PROVE  InTurn(heap'[eventsQueue'[j]], heap'[eventsQueue'[k]])
  <2>1. InTurn(heap[eventsQueue[j + d]], heap[eventsQueue[k + d]])
    BY <1>3, <1>9 DEF LineOrder
  <2>2. eventsQueue'[j] \in DOMAIN heap' /\ eventsQueue'[k] \in DOMAIN heap'
    BY <1>1 DEF QueuedObjects
  <2>. QED BY <1>3, <1>5, <2>1, <2>2
<1>. QED BY <1>6, <1>7, <1>8, <1>9, OrderPrimed

\* What a thread puts down or takes from the GC's batch was on its way before.
LEMMA LeavingShrinks ==
  ASSUME \A t \in Threads : thread'[t].event \in {NoEvent, thread[t].event} \cup gcBatch,
         gcBatch' \subseteq gcBatch
  PROVE  Leaving' \subseteq Leaving
BY DEF Leaving, PushedObjects

\* The steps that take nothing out of a map and put nothing into the queue.
LEMMA OrderQuiet ==
  ASSUME IInv, IInv', LineOrder, [Next]_vars, \A t \in Threads : ~PushDone(t),
         \A h \in Hosts : ~GCCollect(h),
         \A r \in Receivers, h \in Hosts, e \in EventIds, ty \in Types : ~Insert(r, h, e, ty)
  PROVE  LineOrder'
<1> USE DEF inputVars, storeVars, lockVars, queueVars, countVars
<1>1. thread \in ThreadStates
  BY DEF IInv, TypeOK, ThreadStates
<1>2. auditEvents' = auditEvents
  BY DEF Next, Tick, GCLock, GCTake, GCUnlock, PushTimeout, CountProcessed, DeleteDropped, Pop,
         Distribute, vars
<1>3. eventsQueue' = eventsQueue \/ (eventsQueue # <<>> /\ eventsQueue' = Tail(eventsQueue))
  BY DEF Next, Tick, GCLock, GCTake, GCUnlock, PushTimeout, CountProcessed, DeleteDropped, Pop,
         Distribute, vars
<1>4. gcBatch' \subseteq gcBatch
  BY DEF Next, Tick, GCLock, GCTake, GCUnlock, PushTimeout, CountProcessed, DeleteDropped, Pop,
         Distribute, vars
<1>5. \A t \in Threads : thread'[t].event \in {NoEvent, thread[t].event} \cup gcBatch
  <2>1. ASSUME NEW s \in Threads, AfterPush(s)
        PROVE  \A t \in Threads : thread'[t].event \in {NoEvent, thread[t].event}
    BY <1>1, <2>1, AfterPushEffect DEF AfterPushed
  <2>2. ASSUME NEW o \in gcBatch, GCTake(o)
        PROVE  \A t \in Threads : thread'[t].event \in {thread[t].event, o}
    BY <1>1, <2>2 DEF GCTake, ThreadStates
  <2>3. ASSUME NEW s \in Threads, PushTimeout(s)
        PROVE  \A t \in Threads : thread'[t].event = thread[t].event
    BY <1>1, <2>3 DEF PushTimeout, ThreadStates
  <2>4. ASSUME GCLock \/ GCUnlock
        PROVE  \A t \in Threads : thread'[t].event \in {NoEvent, thread[t].event}
    BY <1>1, <2>4 DEF GCLock, GCUnlock, ThreadStates, IdleThread
  <2>5. ASSUME \/ Tick \/ UNCHANGED vars \/ \E w \in Workers : Pop(w) \/ Distribute(w)
        PROVE  thread' = thread
    BY <2>5 DEF Tick, vars, Pop, Distribute
  <2>6. \A s \in Threads : CountProcessed(s) \/ DeleteDropped(s) => AfterPush(s)
    BY DEF CountProcessed, DeleteDropped
  <2>. QED BY <2>1, <2>2, <2>3, <2>4, <2>5, <2>6 DEF Next
<1>6. \A o \in DOMAIN heap' : o \in DOMAIN heap /\ heap'[o] = heap[o]
  BY StepKinds DEF StepKind, NothingMoves, OneLeaves, Without
<1>. QED BY <1>2, <1>3, <1>4, <1>5, <1>6, SameMap, LeavingShrinks, OrderShrinks

\* The event pushed is of another key than those that are still to be pushed,
\* and it follows those of its key that are in the queue.
LEMMA OrderPush ==
  ASSUME IInv, IInv', LineOrder, NEW t \in Threads, PushDone(t)
  PROVE  LineOrder'
<1> DEFINE x == thread[t].event
<1>1. /\ x \in Objects /\ x \in PushedObjects /\ x # NoEvent /\ x \in DOMAIN heap
      /\ eventsQueue \in Seq(Objects) /\ thread \in ThreadStates
  BY DEF IInv, TypeOK, LockInv, PushedObjects, ThreadStates, PushDone, SingleOwner
<1>2. /\ heap' = heap /\ auditEvents' = auditEvents /\ gcBatch' = gcBatch
      /\ eventsQueue' = Append(eventsQueue, x)
      /\ thread'[t].event = NoEvent
      /\ \A s \in Threads \ {t} : thread'[s] = thread[s]
  BY <1>1 DEF PushDone, storeVars, ThreadStates
<1>3. PendingObjects' = PendingObjects /\ Leaving' = Leaving \ {x} /\ x \in Leaving
  BY <1>1, <1>2, SameMap, ThreadPutsDown DEF IInv, SingleOwner, PlacesDisjoint, Leaving
<1>4. PICK q \in Seq(Objects) : q = eventsQueue
  BY <1>1
<1>5. /\ DOMAIN Append(q, x) = 1..(Len(q) + 1) /\ DOMAIN q = 1..Len(q) /\ Len(q) \in Nat
      /\ Append(q, x)[Len(q) + 1] = x /\ \A k \in 1..Len(q) : Append(q, x)[k] = q[k]
  BY <1>1, <1>4
<1>6. \A o \in DOMAIN heap' \ PendingObjects', p \in PendingObjects' : InTurn(heap'[o], heap'[p])
  BY <1>2, <1>3 DEF LineOrder
<1>7. \A o, p \in Leaving' : heap'[o].host = heap'[p].host /\ heap'[o].id = heap'[p].id => o = p
  BY <1>2, <1>3 DEF LineOrder
<1>8. \A o \in QueuedObjects', p \in Leaving' : InTurn(heap'[o], heap'[p])
  <2>1. QueuedObjects' = QueuedObjects \cup {x}
    BY <1>1, <1>2, AppendElements DEF QueuedObjects
  <2>2. \A p \in Leaving' : InTurn(heap[x], heap[p])
    BY <1>3 DEF LineOrder, InTurn
  <2>. QED BY <1>2, <1>3, <2>1, <2>2 DEF LineOrder
<1>9. ASSUME NEW j \in DOMAIN eventsQueue', NEW k \in DOMAIN eventsQueue', j < k
      PROVE  InTurn(heap'[eventsQueue'[j]], heap'[eventsQueue'[k]])
  <2>1. j \in DOMAIN q /\ eventsQueue'[j] = eventsQueue[j]
    BY <1>2, <1>4, <1>5, <1>9
  <2>2. CASE k = Len(q) + 1
    <3>1. eventsQueue'[k] = x /\ eventsQueue[j] \in QueuedObjects
      BY <1>2, <1>4, <1>5, <2>1, <2>2 DEF QueuedObjects
    <3>. QED BY <1>2, <1>3, <2>1, <3>1 DEF LineOrder
  <2>3. CASE k # Len(q) + 1
    <3>1. k \in DOMAIN q /\ eventsQueue'[k] = eventsQueue[k]
      BY <1>2, <1>4, <1>5, <2>3
    <3>. QED BY <1>2, <1>4, <1>9, <2>1, <3>1 DEF LineOrder
  <2>. QED BY <2>2, <2>3
<1>. QED BY <1>6, <1>7, <1>8, <1>9, OrderPrimed

\* Nothing is between map and queue while nobody holds the mutex, or while the
\* GC is about to visit a host.
LEMMA NobodyPushes ==
  ASSUME IInv,
         mutexInsert = Free \/ (thread[GC].pc = "scan" /\ gcBatch = {})
  PROVE  Leaving = {} /\ \A t \in Threads : thread[t].event = NoEvent
<1>1. \A t \in Threads : thread[t].event # NoEvent => mutexInsert = t
  BY DEF IInv, LockInv
<1>2. Free \notin Threads
  BY ReassemblyAssumption
<1>3. \A t \in Threads : thread[t].event = NoEvent
  BY <1>1, <1>2 DEF IInv, LockInv
<1>4. gcBatch = {}
  BY <1>2 DEF IInv, LockInv
<1>. QED BY <1>3, <1>4 DEF Leaving, PushedObjects

\* The GC's batch has one event of a key, and those of its key that left the
\* map earlier are behind the mutex.
LEMMA OrderCollect ==
  ASSUME IInv, IInv', LineOrder, NEW h \in Hosts, GCCollect(h)
  PROVE  LineOrder'
<1>1. Leaving = {} /\ \A t \in Threads : thread[t].event = NoEvent
  BY NobodyPushes DEF GCCollect
<1>2. /\ heap' = heap /\ eventsQueue' = eventsQueue
      /\ \A t \in Threads : thread'[t].event = thread[t].event
  BY DEF GCCollect, queueVars, IInv, TypeOK
<1>3. Leaving' = Expired(h)
  BY <1>1, <1>2, SameThreads DEF GCCollect, Leaving
<1>4. \A g \in Hosts, e \in EventIds :
        auditEvents'[g][e] = IF g = h /\ auditEvents[g][e] \in Expired(h)
                               THEN NoEvent ELSE auditEvents[g][e]
  BY DEF IInv, TypeOK, GCCollect, MapWithoutExpired
<1>5. PendingObjects' \subseteq PendingObjects /\ Expired(h) \subseteq PendingObjects
  BY <1>4 DEF PendingObjects, Expired, PendingOf
<1>6. ASSUME NEW o \in PendingObjects \ PendingObjects' PROVE o \in Expired(h)
  <2>1. PICK g \in Hosts, e \in EventIds : o = auditEvents[g][e] /\ o # NoEvent
    BY DEF PendingObjects
  <2>. QED BY <1>4, <1>6, <2>1 DEF PendingObjects
<1>7. \A o \in Expired(h) : o \notin PendingObjects'
  BY <1>3 DEF IInv, SingleOwner, PlacesDisjoint, Leaving
<1>8. ASSUME NEW o \in DOMAIN heap' \ PendingObjects', NEW p \in PendingObjects'
      PROVE  InTurn(heap'[o], heap'[p])
  <2>1. CASE o \notin PendingObjects
    BY <1>2, <1>5, <2>1 DEF LineOrder
  <2>2. CASE o \in PendingObjects
    BY <1>2, <1>5, <2>2, PendingByKey DEF InTurn
  <2>. QED BY <2>1, <2>2
<1>9. \A o, p \in Leaving' : heap'[o].host = heap'[p].host /\ heap'[o].id = heap'[p].id => o = p
  BY <1>2, <1>3, <1>5, PendingByKey
<1>10. \A o \in QueuedObjects', p \in Leaving' : InTurn(heap'[o], heap'[p])
  <2>1. QueuedObjects' = QueuedObjects /\ QueuedObjects \subseteq DOMAIN heap \ PendingObjects
    BY <1>2, SameQueue DEF IInv, SingleOwner, PlacesDisjoint
  <2>. QED BY <1>2, <1>3, <1>5, <2>1 DEF LineOrder
<1>11. \A j, k \in DOMAIN eventsQueue' :
         j < k => InTurn(heap'[eventsQueue'[j]], heap'[eventsQueue'[k]])
  BY <1>2 DEF LineOrder
<1>. QED BY <1>8, <1>9, <1>10, <1>11, OrderPrimed

\* Where a line's object is after the line went in: in the map or in the hand
\* of the receiver.
LEMMA InsertPlaces ==
  ASSUME IInv, NEW r \in Receivers, NEW h \in Hosts, NEW e \in EventIds, NEW ty \in Types,
         Insert(r, h, e, ty)
  PROVE  /\ PendingObjects' \subseteq PendingObjects \cup {Target(h, e)}
         /\ PendingObjects \subseteq PendingObjects' \cup {Target(h, e)}
         /\ Leaving' \subseteq {Target(h, e)}
         /\ Target(h, e) \notin QueuedObjects
         /\ \A p \in PendingObjects : heap[p].host = h /\ heap[p].id = e => p = Target(h, e)
<1> DEFINE o == Target(h, e)
<1>1. /\ auditEvents \in [Hosts -> [EventIds -> Pointers]]
      /\ auditEvents[h][e] \in {NoEvent, o}
      /\ o # auditEvents[h][e] => o \notin DOMAIN heap
  BY DEF IInv, TypeOK, HeapInv, Target
<1>2. /\ auditEvents'[h][e] \in {NoEvent, o}
      /\ \A g \in Hosts, f \in EventIds : ~(g = h /\ f = e) => auditEvents'[g][f] = auditEvents[g][f]
  BY <1>1 DEF Insert, SlotAfter
<1>3. PendingObjects' \subseteq PendingObjects \cup {o} /\ PendingObjects \subseteq PendingObjects' \cup {o}
  BY <1>1, <1>2 DEF PendingObjects
<1>4. Leaving' \subseteq {o}
  <2>1. Leaving = {} /\ \A t \in Threads : thread[t].event = NoEvent
    BY NobodyPushes DEF Insert
  <2>2. \A t \in Threads : thread'[t].event \in {NoEvent, o}
    <3>1. thread \in ThreadStates
      BY DEF IInv, TypeOK, ThreadStates
    <3>2. thread' = thread \/ thread' = [thread EXCEPT ![r] = [pc |-> "push", host |-> h, event |-> o]]
      BY DEF Insert
    <3>. QED BY <2>1, <3>1, <3>2 DEF ThreadStates
  <2>3. gcBatch' = gcBatch
    BY DEF Insert
  <2>. QED BY <2>1, <2>2, <2>3 DEF Leaving, PushedObjects
<1>5. o \notin QueuedObjects
  <2>1. o \in PendingObjects \/ o \notin DOMAIN heap
    BY <1>1, TargetIsObject DEF PendingObjects
  <2>. QED BY <2>1 DEF IInv, SingleOwner, PlacesDisjoint
<1>6. ASSUME NEW p \in PendingObjects, heap[p].host = h, heap[p].id = e PROVE p = o
  <2>1. PICK g \in Hosts, f \in EventIds : p = auditEvents[g][f] /\ p # NoEvent
    BY DEF PendingObjects
  <2>2. g = h /\ f = e
    BY <1>6, <2>1 DEF IInv, HeapInv
  <2>. QED BY <1>1, <2>1, <2>2
<1>. QED BY <1>3, <1>4, <1>5, <1>6

\* A new line comes after all the others of its key: it enters the one event
\* of its key that is in the map, and all the others left before.
LEMMA OrderInsert ==
  ASSUME IInv, IInv', ContentInv, LineOrder, NEW r \in Receivers, NEW h \in Hosts,
         NEW e \in EventIds, NEW ty \in Types, Insert(r, h, e, ty)
  PROVE  LineOrder'
<1> DEFINE o == Target(h, e)
           n == Len(lines) + 1
           base == IF o \in DOMAIN heap THEN heap[o] ELSE NewEvent(h, e)
<1>1. LineEnters(h, e, ty, o) /\ o \in Objects
  BY InsertEffect, TargetIsObject
<1>2. /\ PendingObjects' \subseteq PendingObjects \cup {o}
      /\ PendingObjects \subseteq PendingObjects' \cup {o}
      /\ Leaving' \subseteq {o} /\ o \notin QueuedObjects
      /\ \A p \in PendingObjects : heap[p].host = h /\ heap[p].id = e => p = o
  BY InsertPlaces
<1>3. eventsQueue' = eventsQueue /\ QueuedObjects' = QueuedObjects
  BY SameQueue DEF Insert, queueVars
<1>4. /\ DOMAIN heap' = DOMAIN heap \cup {o}
      /\ \A p \in DOMAIN heap \ {o} : heap'[p] = heap[p]
      /\ heap'[o] = Extended(base) /\ base.host = h /\ base.id = e
      /\ o \in DOMAIN heap => o = auditEvents[h][e] /\ o \in PendingObjects /\ base = heap[o]
      /\ o \notin DOMAIN heap => base.frags = <<>>
  BY <1>1 DEF LineEnters, NewEvent, PendingObjects
<1>5. base \in Events
  BY <1>1 DEF LineEnters, IInv, TypeOK, NewEvent, Events
<1> HIDE DEF base, o
<1>6. /\ heap'[o].host = h /\ heap'[o].id = e
      /\ Members(heap'[o].frags) = Members(base.frags) \cup {n}
  BY <1>4, <1>5, ExtendedFrags DEF IInv
<1>7. \A p \in DOMAIN heap : \A a \in Members(heap[p].frags) : a < n
  <2>1. Len(lines) \in Nat /\ DOMAIN lines = 1..Len(lines)
    BY <1>1, LinesAfterEnter DEF IInv
  <2>. QED BY <2>1 DEF ContentInv, FragmentsBelongTogether, Belong, AllEvents, LiveEvents, Members
<1>8. ASSUME NEW q \in DOMAIN heap \ PendingObjects, q # o PROVE InTurn(heap'[q], heap'[o])
  <2>1. SUFFICES ASSUME heap[q].host = h, heap[q].id = e,
                        NEW a \in Members(heap[q].frags), NEW b \in Members(base.frags) \cup {n}
                 PROVE  a < b
    BY <1>4, <1>6, <1>8 DEF InTurn
  <2>2. CASE b = n
    BY <1>7, <2>2
  <2>3. CASE b # n
    <3>1. o \in DOMAIN heap
      BY <1>4, <2>3 DEF Members
    <3>. QED BY <1>4, <2>1, <2>3, <3>1 DEF LineOrder, InTurn
  <2>. QED BY <2>2, <2>3
<1>9. ASSUME NEW q \in DOMAIN heap' \ PendingObjects', NEW p \in PendingObjects'
      PROVE  InTurn(heap'[q], heap'[p])
  <2>0. p \in DOMAIN heap' /\ (p # o => p \in PendingObjects /\ p \in DOMAIN heap)
    BY <1>2 DEF IInv, SingleOwner
  <2>1. CASE q = o
    <3>1. p # o /\ heap'[p] = heap[p] /\ ~(heap[p].host = h /\ heap[p].id = e)
      BY <1>2, <1>4, <1>9, <2>0, <2>1
    <3>. QED BY <1>6, <2>1, <3>1 DEF InTurn
  <2>2. CASE q # o
    <3>1. q \in DOMAIN heap \ PendingObjects /\ heap'[q] = heap[q]
      BY <1>2, <1>4, <2>2
    <3>2. CASE p = o
      BY <1>8, <2>2, <3>1, <3>2
    <3>3. CASE p # o
      BY <1>4, <2>0, <3>1, <3>3 DEF LineOrder
    <3>. QED BY <3>2, <3>3
  <2>. QED BY <2>1, <2>2
<1>10. \A q, p \in Leaving' : heap'[q].host = heap'[p].host /\ heap'[q].id = heap'[p].id => q = p
  BY <1>2
<1>11. QueuedObjects \subseteq DOMAIN heap \ PendingObjects
  BY DEF IInv, SingleOwner, PlacesDisjoint
<1>12. \A q \in QueuedObjects', p \in Leaving' : InTurn(heap'[q], heap'[p])
  BY <1>2, <1>3, <1>8, <1>11
<1>13. ASSUME NEW j \in DOMAIN eventsQueue', NEW k \in DOMAIN eventsQueue', j < k
       PROVE  InTurn(heap'[eventsQueue'[j]], heap'[eventsQueue'[k]])
  <2>1. eventsQueue[j] \in QueuedObjects /\ eventsQueue[k] \in QueuedObjects
    BY <1>3 DEF QueuedObjects
  <2>. QED BY <1>2, <1>3, <1>4, <1>11, <1>13, <2>1 DEF LineOrder
<1>. QED BY <1>9, <1>10, <1>12, <1>13, OrderPrimed

\* Every step keeps the order.
LEMMA OrderNext ==
  ASSUME IInv, IInv', ContentInv, LineOrder, [Next]_vars
  PROVE  LineOrder'
BY OrderQuiet, OrderPush, OrderCollect, OrderInsert

\* From the map through the GC's batch and the queue, events of one host and
\* audit id stay in the order of their lines: what is split is never reordered.
THEOREM LinesLeaveInOrder == Spec => []LineOrder
<1>1. Init => LineOrder
  BY DEF Init, LineOrder, Leaving, PendingObjects, PushedObjects, QueuedObjects, IdleThread
<1>2. IInv /\ ContentInv /\ LineOrder /\ [Next]_vars => LineOrder'
  BY OrderNext, IInvNext
<1>. QED BY <1>1, <1>2, InductiveInvariant, ContentInvariant, PTL DEF Spec
-----------------------------------------------------------------------------
(* When two lines of one audit id part.  This needs a clock that does not   *)
(* step back.                                                               *)

\* x is out of its map for a reason: it was too old, or it had ended.
Finished(x) ==
  \/ clock - x.created > MaxAge
  \/ ~EnforceMaxAge /\ \E i \in Members(x.frags) : IsEndEventType(lines[i].type)

\* Nothing was created in the future, what is not pending was finished, and
\* a pending event has all the lines of its key since its first one.
SplitInv ==
  /\ \A x \in AllEvents : x.created <= clock
  /\ \A o \in DOMAIN heap \ PendingObjects : Finished(heap[o])
  /\ \A x \in Gone : Finished(x)
  /\ \A o \in PendingObjects, j \in DOMAIN lines :
       SameKey(heap[o], j) /\ heap[o].frags[1] < j => j \in Members(heap[o].frags)
  /\ SplitOnlyWhenDone

\* An age taken modulo the width of the counter is not more than the age.
LEMMA AgeBound ==
  ASSUME NEW d \in Nat, NEW M \in Nat \ {0}
  PROVE  d % M <= d
<1>1. CASE d < M
  BY <1>1
<1>2. CASE d >= M
  <2>1. d % M < M
    OBVIOUS
  <2>2. d % M \in Nat
    OBVIOUS
  <2>. QED BY <1>2, <2>1, <2>2
<1>. QED BY <1>1, <1>2

\* Time goes on and the configuration stays.
LEMMA ClockForward ==
  ASSUME ClockSteps \subseteq Nat, IInv, [Next]_vars
  PROVE  /\ clock \in Nat /\ clock' \in Nat /\ clock <= clock'
         /\ configText' = configText
<1>1. clock \in Nat
  BY DEF IInv, TypeOK
<1>2. CASE Tick
  BY <1>1, <1>2, ReassemblyAssumption DEF Tick
<1>3. CASE ~Tick
  <2>1. UNCHANGED <<clock, configText>>
    BY <1>3 DEF Next, Insert, GCLock, GCCollect, GCTake, GCUnlock, PushDone, PushTimeout,
       CountProcessed, DeleteDropped, Pop, Distribute, vars, inputVars
  <2>. QED BY <1>1, <2>1
<1>. QED BY <1>2, <1>3

\* What was finished stays finished.
LEMMA FinishedStays ==
  ASSUME NEW x \in Events, Finished(x), clock \in Nat, clock' \in Nat, clock <= clock',
         configText' = configText, Members(x.frags) \subseteq DOMAIN lines,
         \A i \in DOMAIN lines : lines'[i] = lines[i]
  PROVE  \/ clock' - x.created > MaxAge
         \/ ~EnforceMaxAge' /\ \E i \in Members(x.frags) : IsEndEventType(lines'[i].type)
<1>1. x.created \in Nat
  BY DEF Events
<1>2. EnforceMaxAge' = EnforceMaxAge
  BY DEF EnforceMaxAge
<1>. QED
  BY <1>1, <1>2, ReassemblyAssumption DEF Finished

\* An event that leaves the map other than through Insert was too old.
LEMMA PendingShrinks ==
  ASSUME ClockSteps \subseteq Nat, IInv, SplitInv, [Next]_vars, NothingMoves
  PROVE  /\ PendingObjects' \subseteq PendingObjects
         /\ \A o \in PendingObjects \ PendingObjects' : clock - heap[o].created > MaxAge
<1> USE DEF inputVars, storeVars, lockVars, queueVars, countVars
<1>1. ASSUME NEW h \in Hosts, GCCollect(h)
      PROVE  /\ PendingObjects' \subseteq PendingObjects
             /\ \A o \in PendingObjects \ PendingObjects' : clock - heap[o].created > MaxAge
  <2>1. \A g \in Hosts, e \in EventIds :
           auditEvents'[g][e] = IF g = h /\ auditEvents[g][e] \in Expired(h)
                                  THEN NoEvent ELSE auditEvents[g][e]
    BY <1>1 DEF IInv, TypeOK, GCCollect, MapWithoutExpired
  <2>2. PendingObjects' \subseteq PendingObjects
    BY <2>1 DEF PendingObjects
  <2>3. ASSUME NEW o \in PendingObjects \ PendingObjects' PROVE clock - heap[o].created > MaxAge
    <3>1. PICK g \in Hosts, e \in EventIds : o = auditEvents[g][e] /\ o # NoEvent
      BY DEF PendingObjects
    <3>2. o \in Expired(h)
      BY <2>1, <2>3, <3>1 DEF PendingObjects
    <3>3. (clock - heap[o].created) % AgeModulus > MaxAge
      BY <3>2 DEF Expired, TimeSinceCreation
    <3>4. o \in DOMAIN heap
      BY DEF IInv, SingleOwner
    <3>5. heap[o] \in AllEvents /\ heap[o] \in Events
      BY <3>4 DEF AllEvents, LiveEvents, IInv, TypeOK
    <3>6. heap[o].created \in Nat /\ clock \in Nat /\ heap[o].created <= clock
      BY <3>5 DEF Events, IInv, TypeOK, SplitInv
    <3>7. clock - heap[o].created \in Nat
      BY <3>6
    <3>8. (clock - heap[o].created) % AgeModulus <= clock - heap[o].created
      BY <3>7, AgeBound, ReassemblyAssumption
    <3>9. (clock - heap[o].created) % AgeModulus \in Int
      BY <3>7, ReassemblyAssumption
    <3>. QED
      BY <3>3, <3>7, <3>8, <3>9, ReassemblyAssumption
  <2>. QED BY <2>2, <2>3
<1>2. ASSUME NEW r \in Receivers, NEW h \in Hosts, NEW e \in EventIds, NEW ty \in Types,
             Insert(r, h, e, ty)
      PROVE  FALSE
  <2>1. lines' = Append(lines, [host |-> h, id |-> e, type |-> ty, at |-> clock])
    BY <1>2 DEF Insert
  <2>2. Len(lines') = Len(lines) + 1 /\ Len(lines) \in Nat
    BY <2>1 DEF IInv, TypeOK
  <2>. QED BY <2>2 DEF NothingMoves
<1>3. CASE \A h \in Hosts : ~GCCollect(h)
  <2>1. auditEvents' = auditEvents
    BY <1>2, <1>3 DEF Next, Tick, GCLock, GCTake, GCUnlock, PushDone, PushTimeout,
       CountProcessed, DeleteDropped, Pop, Distribute, vars
  <2>. QED BY <2>1, SameMap
<1>. QED BY <1>1, <1>3

\* A step that moves no line keeps the split invariant.
LEMMA SplitNothing ==
  ASSUME ClockSteps \subseteq Nat, IInv, ContentInv, SplitInv, [Next]_vars, NothingMoves
  PROVE  SplitInv'
<1>1. AllEvents' = AllEvents /\ Gone' = Gone /\ lines' = lines /\ heap' = heap
  BY DEF NothingMoves, AllEvents, LiveEvents, Gone
<1>2. /\ clock \in Nat /\ clock' \in Nat /\ clock <= clock'
      /\ configText' = configText
  BY ClockForward
<1>3. AllEvents \subseteq Events
  BY DEF AllEvents, LiveEvents, IInv, TypeOK
<1>4. \A x \in AllEvents : Members(x.frags) \subseteq DOMAIN lines
  BY DEF ContentInv, FragmentsBelongTogether, Belong, Members
<1>5. ASSUME NEW x \in AllEvents, Finished(x) PROVE Finished(x)'
  BY <1>1, <1>2, <1>3, <1>4, <1>5, FinishedStays DEF Finished
<1>6. \A x \in AllEvents' : x.created <= clock'
  <2>1. SUFFICES ASSUME NEW x \in AllEvents PROVE x.created <= clock'
    BY <1>1
  <2>2. x.created <= clock /\ x.created \in Nat
    BY <1>3 DEF SplitInv, Events
  <2>. QED BY <1>2, <2>2
<1>7. ASSUME NEW o \in DOMAIN heap' \ PendingObjects' PROVE Finished(heap[o])'
  <2>1. heap[o] \in AllEvents
    BY <1>1 DEF AllEvents, LiveEvents
  <2>2. Finished(heap[o])
    <3>1. CASE o \in PendingObjects
      BY <1>7, <3>1, PendingShrinks DEF Finished
    <3>2. CASE o \notin PendingObjects
      BY <1>1, <3>2 DEF SplitInv
    <3>. QED BY <3>1, <3>2
  <2> DEFINE x == heap[o]
  <2>3. x \in Events /\ Members(x.frags) \subseteq DOMAIN lines
    BY <1>3, <1>4, <2>1
  <2>4. \/ clock' - x.created > MaxAge
        \/ ~EnforceMaxAge' /\ \E i \in Members(x.frags) : IsEndEventType(lines'[i].type)
    BY <1>1, <1>2, <2>2, <2>3, FinishedStays
  <2>. QED BY <1>1, <2>4 DEF Finished
<1>8. \A x \in Gone' : Finished(x)'
  BY <1>1, <1>5 DEF SplitInv, AllEvents, Gone
<1>9. \A o \in PendingObjects', j \in DOMAIN lines' :
        (SameKey(heap[o], j) /\ heap[o].frags[1] < j => j \in Members(heap[o].frags))'
  BY <1>1, PendingShrinks DEF SplitInv, SameKey
<1>10. SplitOnlyWhenDone'
  BY <1>1, <1>2 DEF SplitInv, SplitOnlyWhenDone, SameKey, EnforceMaxAge
<1>. QED
  BY <1>1, <1>6, <1>7, <1>8, <1>9, <1>10 DEF SplitInv

\* An event that leaves the pipeline was finished.
LEMMA SplitLeaves ==
  ASSUME ClockSteps \subseteq Nat, IInv, ContentInv, SplitInv, [Next]_vars,
         NEW o \in DOMAIN heap, OneLeaves(o)
  PROVE  SplitInv'
<1>1. AllEvents' = AllEvents /\ Gone' = Gone \cup {heap[o]} /\ lines' = lines
  BY LeavingKeepsEvents DEF OneLeaves
<1>2. /\ DOMAIN heap' = DOMAIN heap \ {o} /\ o \notin PendingObjects
      /\ \A p \in DOMAIN heap \ {o} : heap'[p] = heap[p]
      /\ PendingObjects' = PendingObjects
  BY DEF OneLeaves, Without
<1>3. /\ clock \in Nat /\ clock' \in Nat /\ clock <= clock'
      /\ configText' = configText
  BY ClockForward
<1>4. AllEvents \subseteq Events
  BY DEF AllEvents, LiveEvents, IInv, TypeOK
<1>5. \A x \in AllEvents : Members(x.frags) \subseteq DOMAIN lines
  BY DEF ContentInv, FragmentsBelongTogether, Belong, Members
<1>6. ASSUME NEW x \in AllEvents, Finished(x) PROVE Finished(x)'
  BY <1>1, <1>3, <1>4, <1>5, <1>6, FinishedStays DEF Finished
<1>7. \A x \in AllEvents' : x.created <= clock'
  <2>1. SUFFICES ASSUME NEW x \in AllEvents PROVE x.created <= clock'
    BY <1>1
  <2>2. x.created <= clock /\ x.created \in Nat
    BY <1>4 DEF SplitInv, Events
  <2>. QED BY <1>3, <2>2
<1>8. ASSUME NEW p \in DOMAIN heap' \ PendingObjects' PROVE Finished(heap[p])'
  <2> DEFINE x == heap[p]
  <2>1. x \in AllEvents /\ Finished(x) /\ heap'[p] = heap[p]
    BY <1>2 DEF AllEvents, LiveEvents, SplitInv
  <2>2. \/ clock' - x.created > MaxAge
        \/ ~EnforceMaxAge' /\ \E i \in Members(x.frags) : IsEndEventType(lines'[i].type)
    BY <1>1, <1>3, <1>4, <1>5, <2>1, FinishedStays
  <2>. QED BY <2>1, <2>2 DEF Finished
<1>9. ASSUME NEW y \in Gone' PROVE Finished(y)'
  <2>1. y \in AllEvents /\ Finished(y)
    BY <1>1, <1>2 DEF SplitInv, AllEvents, LiveEvents, Gone
  <2>. QED BY <1>6, <2>1
<1>10. \A p \in PendingObjects', j \in DOMAIN lines' :
         (SameKey(heap[p], j) /\ heap[p].frags[1] < j => j \in Members(heap[p].frags))'
  <2>1. PendingObjects \subseteq DOMAIN heap \ {o}
    BY <1>2 DEF IInv, SingleOwner
  <2>. QED
    BY <1>1, <1>2, <2>1 DEF SplitInv, SameKey
<1>11. SplitOnlyWhenDone'
  BY <1>1, <1>3 DEF SplitInv, SplitOnlyWhenDone, SameKey, EnforceMaxAge
<1>. QED
  BY <1>1, <1>7, <1>8, <1>9, <1>10, <1>11 DEF SplitInv

\* A line enters the pending event of its key, which has all the lines of the
\* key since its first, or starts one when every earlier event is finished.
LEMMA SplitEnters ==
  ASSUME ClockSteps \subseteq Nat, IInv, ContentInv, SplitInv, [Next]_vars,
         NEW r \in Receivers, NEW h \in Hosts, NEW e \in EventIds, NEW ty \in Types,
         Insert(r, h, e, ty)
  PROVE  SplitInv'
<1> DEFINE o == Target(h, e)
           n == Len(lines) + 1
           ends == IsEndEventType(ty) /\ ~EnforceMaxAge
           base == IF o \in DOMAIN heap THEN heap[o] ELSE NewEvent(h, e)
<1> HIDE DEF o, ends, base
<1>1. LineEnters(h, e, ty, o) /\ o \in Objects
  BY InsertEffect, TargetIsObject DEF o
<1>2. /\ Len(lines) \in Nat /\ DOMAIN lines = 1..Len(lines)
      /\ DOMAIN lines' = 1..n
      /\ \A i \in DOMAIN lines : lines'[i] = lines[i]
      /\ lines'[n] = [host |-> h, id |-> e, type |-> ty, at |-> clock]
  BY <1>1, LinesAfterEnter DEF IInv
<1>3. /\ DOMAIN heap' = DOMAIN heap \cup {o}
      /\ \A p \in DOMAIN heap \ {o} : heap'[p] = heap[p]
      /\ heap'[o] = Extended(base) /\ base.host = h /\ base.id = e
      /\ Gone' = Gone
  BY <1>1 DEF LineEnters, base, NewEvent, Gone
<1>4. base \in Events
  BY <1>1 DEF LineEnters, IInv, TypeOK, base, NewEvent, Events
<1>5. /\ heap'[o].host = h /\ heap'[o].id = e /\ heap'[o].created = base.created
      /\ Members(heap'[o].frags) = Members(base.frags) \cup {n}
      /\ heap'[o].frags[1] = IF base.frags = <<>> THEN n ELSE base.frags[1]
  BY <1>3, <1>4, ExtendedFrags DEF IInv, Events
<1>6. UNCHANGED <<clock, configText>> /\ clock \in Nat /\ EnforceMaxAge' = EnforceMaxAge
  BY DEF Insert, IInv, TypeOK, EnforceMaxAge
<1>7. AllEvents \subseteq Events
  BY DEF AllEvents, LiveEvents, IInv, TypeOK
<1>8. \A x \in AllEvents : Members(x.frags) \subseteq DOMAIN lines /\ x.frags[1] \in Members(x.frags)
  <2>1. SUFFICES ASSUME NEW x \in AllEvents
                 PROVE  Members(x.frags) \subseteq DOMAIN lines /\ x.frags[1] \in Members(x.frags)
    OBVIOUS
  <2>2. Belong(x) /\ x.frags \in Seq(Nat \ {0})
    BY <1>7 DEF ContentInv, FragmentsBelongTogether, Events
  <2>3. 1 \in DOMAIN x.frags
    BY <2>2 DEF Belong
  <2>. QED BY <2>2, <2>3 DEF Belong, Members
<1>9. \/ o \in DOMAIN heap /\ base = heap[o] /\ o = auditEvents[h][e] /\ o \in PendingObjects
      \/ o \notin DOMAIN heap /\ base = NewEvent(h, e) /\ auditEvents[h][e] = NoEvent
  BY <1>1 DEF LineEnters, base, PendingObjects, IInv, TypeOK
<1>10. /\ auditEvents \in [Hosts -> [EventIds -> Pointers]]
       /\ auditEvents'[h][e] = IF ends THEN NoEvent ELSE o
       /\ \A g \in Hosts, f \in EventIds : ~(g = h /\ f = e) => auditEvents'[g][f] = auditEvents[g][f]
  BY DEF Insert, IInv, TypeOK, o, ends, SlotAfter
<1>11. \A y \in AllEvents' : y = heap'[o] \/ y \in AllEvents
  BY <1>3 DEF AllEvents, LiveEvents, Gone
<1>12. ASSUME NEW x \in AllEvents, Finished(x) PROVE Finished(x)'
  BY <1>2, <1>6, <1>8, <1>12 DEF Finished
<1>13. ASSUME NEW y \in AllEvents' PROVE y.created <= clock'
  <2>1. base.created <= clock
    <3>1. CASE o \in DOMAIN heap
      BY <1>9, <3>1 DEF SplitInv, AllEvents, LiveEvents
    <3>2. CASE o \notin DOMAIN heap
      BY <1>6, <1>9, <3>2 DEF NewEvent
    <3>. QED BY <3>1, <3>2
  <2>2. CASE y = heap'[o]
    BY <1>5, <1>6, <2>1, <2>2
  <2>3. CASE y # heap'[o]
    BY <1>6, <1>11, <2>3 DEF SplitInv
  <2>. QED BY <2>2, <2>3
<1>14. ASSUME NEW p \in DOMAIN heap' \ PendingObjects' PROVE Finished(heap[p])'
  <2>1. CASE p = o
    <3>1. ends
      BY <1>1, <1>10, <1>14, <2>1 DEF PendingObjects
    <3>2. n \in Members(heap'[o].frags) /\ IsEndEventType(lines'[n].type) /\ ~EnforceMaxAge
      BY <1>2, <1>5, <3>1 DEF ends
    <3>. QED
      BY <1>6, <2>1, <3>2 DEF Finished, IsEndEventType
  <2>2. CASE p # o
    <3>1. p \in DOMAIN heap /\ heap'[p] = heap[p] /\ heap[p] \in AllEvents
      BY <1>3, <1>14, <2>2 DEF AllEvents, LiveEvents
    <3>2. p \notin PendingObjects
      <4>1. SUFFICES ASSUME p \in PendingObjects PROVE FALSE
        OBVIOUS
      <4>2. PICK g \in Hosts, f \in EventIds : p = auditEvents[g][f] /\ p # NoEvent
        BY <4>1 DEF PendingObjects
      <4>3. ~(g = h /\ f = e)
        BY <1>9, <2>2, <3>1, <4>2
      <4>4. p \in PendingObjects'
        BY <1>10, <4>2, <4>3 DEF PendingObjects
      <4>. QED BY <1>14, <4>4
    <3>3. Finished(heap[p])
      BY <3>1, <3>2 DEF SplitInv
    <3> DEFINE x == heap[p]
    <3>4. Finished(x)'
      BY <1>12, <3>1, <3>3
    <3>. QED
      BY <1>2, <1>6, <1>8, <3>1, <3>3 DEF Finished
  <2>. QED BY <2>1, <2>2
<1>15. ASSUME NEW y \in Gone' PROVE Finished(y)'
  BY <1>3, <1>12 DEF SplitInv, AllEvents, Gone
<1>16. ASSUME NEW p \in PendingObjects', NEW j \in DOMAIN lines'
       PROVE  (SameKey(heap[p], j) /\ heap[p].frags[1] < j => j \in Members(heap[p].frags))'
  <2>1. CASE p = o
    <3>1. CASE o \in DOMAIN heap
      <4>1. \A i \in DOMAIN lines :
              SameKey(heap[o], i) /\ heap[o].frags[1] < i => i \in Members(heap[o].frags)
        BY <1>9, <3>1 DEF SplitInv
      <4>2. base = heap[o] /\ base.frags # <<>>
        BY <1>9, <3>1 DEF ContentInv, FragmentsBelongTogether, Belong, AllEvents, LiveEvents
      <4>3. heap'[o].frags[1] = heap[o].frags[1]
        BY <1>5, <4>2
      <4>4. CASE j = n
        BY <1>5, <2>1, <4>4
      <4>5. CASE j # n
        BY <1>2, <1>3, <1>5, <2>1, <4>1, <4>2, <4>3, <4>5 DEF SameKey
      <4>. QED BY <4>4, <4>5
    <3>2. CASE o \notin DOMAIN heap
      <4>1. heap'[o].frags[1] = n
        BY <1>5, <1>9, <3>2 DEF NewEvent
      <4>. QED
        BY <1>2, <2>1, <4>1
    <3>. QED BY <3>1, <3>2
  <2>2. CASE p # o
    <3>1. PICK g \in Hosts, f \in EventIds : p = auditEvents'[g][f] /\ p # NoEvent
      BY DEF PendingObjects
    <3>2. ~(g = h /\ f = e)
      BY <1>10, <2>2, <3>1
    <3>3. p = auditEvents[g][f] /\ p \in PendingObjects /\ p \in DOMAIN heap /\ heap'[p] = heap[p]
      BY <1>3, <1>10, <2>2, <3>1, <3>2 DEF PendingObjects, IInv, SingleOwner
    <3>4. heap[p].host = g /\ heap[p].id = f
      BY <3>1, <3>3 DEF IInv, HeapInv
    <3>5. CASE j = n
      BY <1>2, <3>2, <3>3, <3>4, <3>5 DEF SameKey
    <3>6. CASE j # n
      BY <1>2, <3>3, <3>6 DEF SplitInv, SameKey
    <3>. QED BY <3>5, <3>6
  <2>. QED BY <2>1, <2>2
<1>17. SplitOnlyWhenDone'
  <2>1. SUFFICES ASSUME NEW y \in AllEvents', NEW j \in DOMAIN lines',
                        y.host = lines'[j].host, y.id = lines'[j].id,
                        y.frags[1] < j, j \notin Members(y.frags)
                 PROVE  \/ lines'[j].at - y.created > MaxAge
                        \/ /\ ~EnforceMaxAge'
                           /\ \E i \in Members(y.frags) : i < j /\ IsEndEventType(lines'[i].type)
    BY DEF SplitOnlyWhenDone, SameKey
  <2>2. CASE y \in AllEvents /\ j \in DOMAIN lines
    BY <1>2, <1>6, <1>8, <2>1, <2>2 DEF SplitInv, SplitOnlyWhenDone, SameKey
  <2>3. CASE y # heap'[o] /\ j = n
    <3>1. y \in AllEvents /\ Finished(y)
      <4>1. CASE y \in Gone
        BY <4>1 DEF SplitInv, AllEvents, Gone
      <4>2. CASE y \notin Gone
        <5>1. PICK p \in DOMAIN heap \ {o} : y = heap[p]
          BY <1>3, <2>1, <2>3, <4>2 DEF AllEvents, LiveEvents, Gone
        <5>2. p \notin PendingObjects
          <6>1. SUFFICES ASSUME p \in PendingObjects PROVE FALSE
            OBVIOUS
          <6>2. PICK g \in Hosts, f \in EventIds : p = auditEvents[g][f] /\ p # NoEvent
            BY <6>1 DEF PendingObjects
          <6>3. y.host = g /\ y.id = f
            BY <5>1, <6>2 DEF IInv, HeapInv
          <6>4. lines'[n].host = h /\ lines'[n].id = e
            BY <1>2
          <6>5. g = h /\ f = e
            BY <2>1, <2>3, <6>3, <6>4
          <6>. QED BY <1>9, <5>1, <6>2, <6>5
        <5>3. Finished(heap[p])
          BY <5>1, <5>2 DEF SplitInv
        <5>. QED BY <5>1, <5>3 DEF AllEvents, LiveEvents
      <4>. QED BY <4>1, <4>2
    <3>2. lines'[n].at = clock /\ Members(y.frags) \subseteq DOMAIN lines
      BY <1>2, <1>8, <3>1
    <3>3. \A i \in Members(y.frags) : i < n /\ lines'[i] = lines[i]
      BY <1>2, <3>2
    <3>. QED
      BY <1>6, <2>3, <3>1, <3>2, <3>3 DEF Finished
  <2>4. CASE y = heap'[o]
    <3>1. j # n
      BY <1>5, <2>1, <2>4
    <3>2. CASE o \in DOMAIN heap
      <4>1. j \in Members(base.frags)
        <5>1. base.frags # <<>> /\ base = heap[o]
          BY <1>9, <3>2 DEF ContentInv, FragmentsBelongTogether, Belong, AllEvents, LiveEvents
        <5>. QED
          BY <1>2, <1>3, <1>5, <1>9, <2>1, <2>4, <3>1, <3>2, <5>1 DEF SplitInv, SameKey
      <4>. QED BY <1>5, <2>1, <2>4, <4>1
    <3>3. CASE o \notin DOMAIN heap
      <4>1. heap'[o].frags[1] = n
        BY <1>5, <1>9, <3>3 DEF NewEvent
      <4>. QED BY <1>2, <2>1, <2>4, <4>1
    <3>. QED BY <3>2, <3>3
  <2>. QED
    BY <1>2, <1>11, <2>2, <2>3, <2>4
<1>. QED
  BY <1>13, <1>14, <1>15, <1>16, <1>17 DEF SplitInv

\* At the start there is no line and no event.
LEMMA SplitInit == Init => SplitInv
<1> SUFFICES ASSUME Init PROVE SplitInv
  OBVIOUS
<1>1. DOMAIN heap = {} /\ Gone = {} /\ lines = <<>> /\ PendingObjects = {}
  BY DEF Init, Gone, PendingObjects
<1>2. AllEvents = {} /\ DOMAIN lines = {}
  BY <1>1 DEF AllEvents, LiveEvents, Gone
<1>. QED
  BY <1>1, <1>2 DEF SplitInv, SplitOnlyWhenDone

\* Every step keeps the split invariant.
LEMMA SplitNext ==
  ASSUME ClockSteps \subseteq Nat, IInv, ContentInv, SplitInv, [Next]_vars
  PROVE  SplitInv'
BY StepKinds, SplitNothing, SplitLeaves, SplitEnters DEF StepKind

\* Wherever time() does not go back, one host's lines of one audit id are
\* spread over two events only when the older event had exceeded MaxAge or,
\* in heuristic mode, had seen an end line.
THEOREM SplitsAreJustified ==
  ASSUME ClockSteps \subseteq Nat
  PROVE  Spec => []SplitOnlyWhenDone
<1>1. Init => SplitInv
  BY SplitInit
<1>2. IInv /\ ContentInv /\ SplitInv /\ [Next]_vars => SplitInv'
  BY SplitNext
<1>3. SplitInv => SplitOnlyWhenDone
  BY DEF SplitInv
<1>. QED
  BY <1>1, <1>2, <1>3, InductiveInvariant, ContentInvariant, PTL DEF Spec
-----------------------------------------------------------------------------
(* What reassembly promises to the outside: it implements LineCustody, and  *)
(* the counters that the statistics calls report add up.                    *)

\* The values of the variables of LineCustody, by name.
GroupKeys == [i \in DOMAIN lines |-> <<lines[i].host, lines[i].id>>]
OpenGroups == [k \in Hosts \X EventIds |->
                 IF auditEvents[k[1]][k[2]] = NoEvent
                   THEN {} ELSE LinesOf(heap[auditEvents[k[1]][k[2]]])]
LeavingGroups == {LinesOf(heap[o]) : o \in DOMAIN heap \ PendingObjects}
ShownGroups == {LinesOf(x) : x \in delivered}
LostGroups == {LinesOf(x) : x \in discarded}

\* The members of a sequence over S are in S.
LEMMA MembersOfSeq ==
  ASSUME NEW S, NEW s \in Seq(S)
  PROVE  \A i \in 1..Len(s) : s[i] \in S
OBVIOUS

\* The events of the maps are alive and of their own host and audit id.
LEMMA PendingAlive ==
  ASSUME IInv
  PROVE  /\ PendingObjects \subseteq DOMAIN heap
         /\ \A h \in Hosts, e \in EventIds : auditEvents[h][e] # NoEvent =>
              /\ auditEvents[h][e] \in PendingObjects
              /\ heap[auditEvents[h][e]].host = h /\ heap[auditEvents[h][e]].id = e
<1>1. PendingObjects \subseteq DOMAIN heap
  BY DEF IInv, SingleOwner
<1>2. \A h \in Hosts, e \in EventIds : auditEvents[h][e] # NoEvent =>
        auditEvents[h][e] \in PendingObjects
  BY DEF PendingObjects
<1>. QED BY <1>1, <1>2 DEF IInv, HeapInv

\* No event is empty, so no two share all their lines.
LEMMA EventsNotEmpty ==
  ASSUME IInv, ContentInv
  PROVE  /\ \A o \in DOMAIN heap : LinesOf(heap[o]) # {}
         /\ \A o, p \in DOMAIN heap : o # p => LinesOf(heap[o]) # LinesOf(heap[p])
         /\ \A o \in DOMAIN heap : heap[o] \notin Gone
<1>1. ASSUME NEW o \in DOMAIN heap PROVE LinesOf(heap[o]) # {}
  <2>1. heap[o] \in AllEvents /\ heap[o] \in Events
    BY AllEventsCases DEF IInv, TypeOK
  <2>2. heap[o].frags # <<>> /\ heap[o].frags \in Seq(Nat \ {0})
    BY <2>1 DEF ContentInv, FragmentsBelongTogether, Belong, Events
  <2>3. 1 \in DOMAIN heap[o].frags
    BY <2>2
  <2>. QED BY <2>3 DEF LinesOf, Members
<1>2. ASSUME NEW o \in DOMAIN heap, NEW p \in DOMAIN heap, o # p
      PROVE  LinesOf(heap[o]) # LinesOf(heap[p])
  BY <1>1, <1>2 DEF ContentInv, EveryLineOnce, ShareNoLine, LinesOf
<1>3. ASSUME NEW o \in DOMAIN heap PROVE heap[o] \notin Gone
  BY <1>1, <1>3 DEF ContentInv, EveryLineOnce, ShareNoLine, LinesOf
<1>. QED BY <1>1, <1>2, <1>3

\* A step that moves no event and changes no map does not show.
LEMMA CustodyStutters ==
  ASSUME NothingMoves, auditEvents' = auditEvents
  PROVE  UNCHANGED Custody!vars
<1>1. PendingObjects' = PendingObjects
  BY SameMap
<1>2. UNCHANGED <<lines, heap, delivered, discarded>>
  BY DEF NothingMoves
<1>. QED BY <1>1, <1>2 DEF Custody!vars

\* An event that leaves the pipeline is shown or lost, whole and once.
LEMMA CustodyLeaves ==
  ASSUME IInv, ContentInv, NEW o, OneLeaves(o), auditEvents' = auditEvents
  PROVE  Custody!Next
<1> DEFINE g == LinesOf(heap[o])
<1>1. /\ o \in DOMAIN heap \ PendingObjects /\ lines' = lines /\ PendingObjects' = PendingObjects
      /\ DOMAIN heap' = DOMAIN heap \ {o} /\ \A p \in DOMAIN heap \ {o} : heap'[p] = heap[p]
  BY DEF OneLeaves, Without
<1>2. g \in LeavingGroups
  BY <1>1 DEF LeavingGroups
<1>3. LeavingGroups' = LeavingGroups \ {g}
  <2>1. ASSUME NEW x PROVE x \in LeavingGroups' <=> x \in LeavingGroups /\ x # g
    <3>1. x \in LeavingGroups' <=> \E p \in DOMAIN heap' \ PendingObjects' : x = LinesOf(heap'[p])
      BY DEF LeavingGroups
    <3>2. x \in LeavingGroups <=> \E p \in DOMAIN heap \ PendingObjects : x = LinesOf(heap[p])
      BY DEF LeavingGroups
    <3>3. \A p \in DOMAIN heap \ {o} : LinesOf(heap[p]) # g
      BY <1>1, EventsNotEmpty
    <3>. QED BY <1>1, <3>1, <3>2, <3>3
  <2>. QED BY <2>1
<1>4. OpenGroups' = OpenGroups
  <2>1. \A h \in Hosts, e \in EventIds : auditEvents[h][e] # NoEvent =>
          heap'[auditEvents[h][e]] = heap[auditEvents[h][e]]
    BY <1>1, PendingAlive
  <2>. QED BY <2>1 DEF OpenGroups
<1>5. GroupKeys' = GroupKeys
  BY <1>1 DEF GroupKeys
<1>6. \/ ShownGroups' = ShownGroups \cup {g} /\ LostGroups' = LostGroups
      \/ LostGroups' = LostGroups \cup {g} /\ ShownGroups' = ShownGroups
  BY DEF OneLeaves, ShownGroups, LostGroups
<1>7. Custody!Show(g) \/ Custody!Lose(g)
  BY <1>3, <1>4, <1>5, <1>6
     DEF Custody!Show, Custody!Lose, GroupKeys, OpenGroups, LeavingGroups, ShownGroups, LostGroups
<1>. QED BY <1>2, <1>7 DEF Custody!Next, LeavingGroups

\* What the GC takes out of a host's map is closed, several groups at a time.
LEMMA CustodyCloses ==
  ASSUME IInv, ContentInv, NEW h \in Hosts, GCCollect(h)
  PROVE  Custody!Next
<1> PICK K \in SUBSET (Hosts \X EventIds) :
           K = {k \in Hosts \X EventIds : k[1] = h /\ auditEvents[h][k[2]] \in Expired(h)}
  OBVIOUS
<1>1. UNCHANGED <<lines, heap, delivered, discarded>>
  BY DEF GCCollect, inputVars, queueVars
<1>2. \A g \in Hosts, e \in EventIds :
        auditEvents'[g][e] = IF <<g, e>> \in K THEN NoEvent ELSE auditEvents[g][e]
  BY DEF GCCollect, MapWithoutExpired, IInv, TypeOK
<1>3. NoEvent \notin Expired(h)
  BY DEF Expired, PendingOf
<1>4. \A k \in K : /\ auditEvents[k[1]][k[2]] # NoEvent
                   /\ OpenGroups[k] = LinesOf(heap[auditEvents[k[1]][k[2]]])
  BY <1>3 DEF OpenGroups
<1>5. \A k \in K : OpenGroups[k] # {}
  BY <1>4, PendingAlive, EventsNotEmpty
<1>6. OpenGroups' = [k \in Hosts \X EventIds |-> IF k \in K THEN {} ELSE OpenGroups[k]]
  BY <1>1, <1>2 DEF OpenGroups
<1>7. LeavingGroups' = LeavingGroups \cup {OpenGroups[k] : k \in K}
  <2>1. ASSUME NEW p PROVE p \in PendingObjects' <=> /\ p \in PendingObjects
                                                     /\ \A k \in K : p # auditEvents[k[1]][k[2]]
    <3>1. p \in PendingObjects <=> p # NoEvent /\ \E g \in Hosts, e \in EventIds : p = auditEvents[g][e]
      BY DEF PendingObjects
    <3>2. p \in PendingObjects' <=> p # NoEvent /\ \E g \in Hosts, e \in EventIds : p = auditEvents'[g][e]
      BY DEF PendingObjects
    <3>3. \A g \in Hosts, e \in EventIds, k \in K :
            auditEvents[g][e] # NoEvent /\ auditEvents[g][e] = auditEvents[k[1]][k[2]] => <<g, e>> = k
      BY DEF IInv, SingleOwner, MapInjective
    <3>4. \A g \in Hosts, e \in EventIds : <<g, e>> \in K => <<g, e>>[1] = g /\ <<g, e>>[2] = e
      OBVIOUS
    <3>5. ASSUME p \in PendingObjects'
          PROVE  p \in PendingObjects /\ \A k \in K : p # auditEvents[k[1]][k[2]]
      <4>1. PICK g \in Hosts, e \in EventIds : p = auditEvents'[g][e] /\ p # NoEvent
        BY <3>2, <3>5
      <4>2. <<g, e>> \notin K /\ p = auditEvents[g][e]
        BY <1>2, <4>1
      <4>. QED BY <3>1, <3>3, <4>1, <4>2
    <3>6. ASSUME p \in PendingObjects, \A k \in K : p # auditEvents[k[1]][k[2]]
          PROVE  p \in PendingObjects'
      <4>1. PICK g \in Hosts, e \in EventIds : p = auditEvents[g][e] /\ p # NoEvent
        BY <3>1, <3>6
      <4>2. <<g, e>> \notin K
        BY <3>4, <3>6, <4>1
      <4>. QED BY <1>2, <3>2, <4>1, <4>2
    <3>. QED BY <3>5, <3>6
  <2>2. ASSUME NEW x PROVE x \in LeavingGroups' <=> \/ x \in LeavingGroups
                                                    \/ \E k \in K : x = OpenGroups[k]
    <3>1. x \in LeavingGroups' <=> \E p \in DOMAIN heap \ PendingObjects' : x = LinesOf(heap[p])
      BY <1>1 DEF LeavingGroups
    <3>2. x \in LeavingGroups <=> \E p \in DOMAIN heap \ PendingObjects : x = LinesOf(heap[p])
      BY DEF LeavingGroups
    <3>3. \A k \in K : auditEvents[k[1]][k[2]] \in DOMAIN heap /\ auditEvents[k[1]][k[2]] \in PendingObjects
      BY <1>4, PendingAlive
    <3>. QED BY <1>4, <2>1, <3>1, <3>2, <3>3
  <2>. QED BY <2>2
<1>8. GroupKeys' = GroupKeys /\ ShownGroups' = ShownGroups /\ LostGroups' = LostGroups
  BY <1>1 DEF GroupKeys, ShownGroups, LostGroups
<1>9. Custody!Close(K)
  <2>. QED BY <1>5, <1>6, <1>7, <1>8
           DEF Custody!Close, GroupKeys, OpenGroups, LeavingGroups, ShownGroups, LostGroups
<1>. QED BY <1>9 DEF Custody!Next

\* A line joins the open group of its key, or opens one; the line that ends an
\* event closes it in the same step.
LEMMA CustodyAccepts ==
  ASSUME IInv, ContentInv,
         NEW r \in Receivers, NEW h \in Hosts, NEW e \in EventIds, NEW ty \in Types,
         Insert(r, h, e, ty)
  PROVE  Custody!Next
<1> DEFINE o == Target(h, e)
           n == Len(lines) + 1
           k == <<h, e>>
           ends == IsEndEventType(ty) /\ ~EnforceMaxAge
           base == IF o \in DOMAIN heap THEN heap[o] ELSE NewEvent(h, e)
           g == OpenGroups[k] \cup {n}
<1>1. LineEnters(h, e, ty, o) /\ o \in Objects /\ o # NoEvent
  BY InsertEffect, TargetIsObject
<1>2. /\ Len(lines) \in Nat /\ DOMAIN lines = 1..Len(lines) /\ DOMAIN lines' = 1..n
      /\ \A i \in DOMAIN lines : lines'[i] = lines[i]
      /\ lines'[n] = [host |-> h, id |-> e, type |-> ty, at |-> clock]
  BY <1>1, LinesAfterEnter DEF IInv
<1>3. /\ DOMAIN heap' = DOMAIN heap \cup {o} /\ \A p \in DOMAIN heap \ {o} : heap'[p] = heap[p]
      /\ delivered' = delivered /\ discarded' = discarded
  BY <1>1 DEF LineEnters
<1>4. \A f \in Hosts, i \in EventIds :
        auditEvents'[f][i] = IF f = h /\ i = e THEN (IF ends THEN NoEvent ELSE o)
                                               ELSE auditEvents[f][i]
  BY DEF Insert, SlotAfter, IInv, TypeOK
<1>5. OpenGroups[k] = IF auditEvents[h][e] = NoEvent THEN {} ELSE LinesOf(heap[auditEvents[h][e]])
  BY DEF OpenGroups
<1>6. /\ auditEvents[h][e] # NoEvent => auditEvents[h][e] = o /\ o \in DOMAIN heap
      /\ auditEvents[h][e] = NoEvent => o \notin DOMAIN heap
      /\ auditEvents[h][e] = NoEvent \/ auditEvents[h][e] = o
  <2>1. auditEvents[h][e] # NoEvent => auditEvents[h][e] \in DOMAIN heap
    BY PendingAlive
  <2>2. auditEvents[h][e] # NoEvent => auditEvents[h][e] = o
    BY DEF Target
  <2>3. auditEvents[h][e] = NoEvent => o = n
    BY DEF Target
  <2>4. n \notin DOMAIN heap
    BY <1>2 DEF IInv, HeapInv, TypeOK
  <2>. QED BY <2>1, <2>2, <2>3, <2>4
<1>7. LinesOf(heap'[o]) = g
  <2>1. CASE auditEvents[h][e] # NoEvent
    <3>1. heap'[o] = Extended(heap[o]) /\ heap[o] \in Events
      BY <1>1, <1>6, <2>1 DEF LineEnters, IInv, TypeOK
    <3>2. Members(Extended(heap[o]).frags) = Members(heap[o].frags) \cup {n}
      BY <3>1, ExtendedFrags DEF IInv
    <3>. QED BY <1>5, <1>6, <2>1, <3>1, <3>2 DEF LinesOf
  <2>2. CASE auditEvents[h][e] = NoEvent
    <3>1. heap'[o] = Extended(NewEvent(h, e)) /\ NewEvent(h, e) \in Events
      BY <1>1, <1>6, <2>2 DEF LineEnters, NewEvent, Events, IInv, TypeOK
    <3>2. Members(Extended(NewEvent(h, e)).frags) = Members(NewEvent(h, e).frags) \cup {n}
      BY <3>1, ExtendedFrags DEF IInv
    <3>3. Members(NewEvent(h, e).frags) = {}
      BY DEF Members, NewEvent
    <3>. QED BY <1>5, <2>2, <3>1, <3>2, <3>3 DEF LinesOf
  <2>. QED BY <2>1, <2>2
<1>8. \A f \in Hosts, i \in EventIds : ~(f = h /\ i = e) /\ auditEvents[f][i] # NoEvent =>
        auditEvents[f][i] # o /\ heap'[auditEvents[f][i]] = heap[auditEvents[f][i]]
  <2>1. \A f \in Hosts, i \in EventIds : auditEvents[f][i] # NoEvent => auditEvents[f][i] \in DOMAIN heap
    BY PendingAlive
  <2>2. \A f \in Hosts, i \in EventIds : ~(f = h /\ i = e) /\ auditEvents[f][i] # NoEvent =>
          auditEvents[f][i] # o
    BY <1>6, <2>1 DEF IInv, SingleOwner, MapInjective
  <2>. QED BY <1>3, <2>1, <2>2
<1>9. OpenGroups' = [OpenGroups EXCEPT ![k] = IF ends THEN {} ELSE g]
  <2>1. \A q \in Hosts \X EventIds :
          OpenGroups'[q] = IF q = k THEN (IF ends THEN {} ELSE g) ELSE OpenGroups[q]
    <3>1. ASSUME NEW f \in Hosts, NEW i \in EventIds
          PROVE  OpenGroups'[<<f, i>>] = IF <<f, i>> = k THEN (IF ends THEN {} ELSE g)
                                                         ELSE OpenGroups[<<f, i>>]
      <4>1. OpenGroups'[<<f, i>>] = IF auditEvents'[f][i] = NoEvent
                                      THEN {} ELSE LinesOf(heap'[auditEvents'[f][i]])
        BY DEF OpenGroups
      <4>2. OpenGroups[<<f, i>>] = IF auditEvents[f][i] = NoEvent
                                     THEN {} ELSE LinesOf(heap[auditEvents[f][i]])
        BY DEF OpenGroups
      <4> HIDE DEF o, g, ends
      <4>. QED BY <1>1, <1>4, <1>7, <1>8, <4>1, <4>2
    <3> HIDE DEF o, g, ends, k
    <3>2. \A q \in Hosts \X EventIds : \E f \in Hosts, i \in EventIds : q = <<f, i>>
      OBVIOUS
    <3>. QED BY <3>1, <3>2
  <2>2. /\ OpenGroups = [q \in Hosts \X EventIds |-> OpenGroups[q]]
        /\ OpenGroups' = [q \in Hosts \X EventIds |-> OpenGroups'[q]]
    BY DEF OpenGroups
  <2> HIDE DEF g, ends, o, k
  <2>. QED BY <2>1, <2>2
<1>10. GroupKeys' = Append(GroupKeys, k) /\ Len(GroupKeys) = Len(lines)
  <2>1. GroupKeys \in Seq(Hosts \X EventIds) /\ Len(GroupKeys) = Len(lines)
    <3>1. \A i \in 1..Len(lines) : <<lines[i].host, lines[i].id>> \in Hosts \X EventIds
      <4>1. PICK S : lines \in Seq(S) /\ S = [host : Hosts, id : EventIds, type : Types, at : Nat]
        BY DEF IInv, TypeOK
      <4>2. \A i \in 1..Len(lines) : lines[i] \in S
        BY <4>1, MembersOfSeq
      <4>. QED BY <4>1, <4>2
    <3>2. GroupKeys = [i \in 1..Len(lines) |-> <<lines[i].host, lines[i].id>>]
      BY <1>2 DEF GroupKeys
    <3>. QED BY <1>2, <3>1, <3>2
  <2>2. GroupKeys' = [i \in 1..n |-> IF i = n THEN k ELSE GroupKeys[i]]
    BY <1>2 DEF GroupKeys
  <2>. QED BY <1>2, <2>1, <2>2
<1> HIDE DEF o, ends, g
<1>11. LeavingGroups' = IF ends THEN LeavingGroups \cup {g} ELSE LeavingGroups
  <2>1. ASSUME NEW p PROVE p \in PendingObjects' <=> \/ p \in PendingObjects /\ p # o
                                                     \/ p = o /\ ~ends
    <3>1. p \in PendingObjects <=> p # NoEvent /\ \E f \in Hosts, i \in EventIds : p = auditEvents[f][i]
      BY DEF PendingObjects
    <3>2. p \in PendingObjects' <=> p # NoEvent /\ \E f \in Hosts, i \in EventIds : p = auditEvents'[f][i]
      BY DEF PendingObjects
    <3>3. ASSUME p \in PendingObjects' PROVE \/ p \in PendingObjects /\ p # o
                                             \/ p = o /\ ~ends
      BY <1>4, <1>8, <3>1, <3>2, <3>3
    <3>4. ASSUME (p \in PendingObjects /\ p # o) \/ (p = o /\ ~ends) PROVE p \in PendingObjects'
      BY <1>1, <1>4, <1>6, <3>1, <3>2, <3>4
    <3>. QED BY <3>3, <3>4
  <2>2. o \in DOMAIN heap => o \in PendingObjects
    BY <1>6, PendingAlive
  <2>3. ASSUME NEW x PROVE x \in LeavingGroups' <=> x \in LeavingGroups \/ (ends /\ x = g)
    <3>1. x \in LeavingGroups' <=> \E p \in DOMAIN heap' \ PendingObjects' : x = LinesOf(heap'[p])
      BY DEF LeavingGroups
    <3>2. x \in LeavingGroups <=> \E p \in DOMAIN heap \ PendingObjects : x = LinesOf(heap[p])
      BY DEF LeavingGroups
    <3>. QED BY <1>3, <1>7, <2>1, <2>2, <3>1, <3>2
  <2>. QED BY <2>3
<1>12. ShownGroups' = ShownGroups /\ LostGroups' = LostGroups
  BY <1>3, SMTT(40) DEF ShownGroups, LostGroups
<1>13. Custody!Accept(k)
  <2>1. g = OpenGroups[k] \cup {Len(GroupKeys) + 1}
    BY <1>10 DEF g
  <2> HIDE DEF k
  <2>. QED BY <1>9, <1>10, <1>11, <1>12, <2>1
           DEF Custody!Accept, GroupKeys, OpenGroups, LeavingGroups, ShownGroups, LostGroups
<1>14. k \in Hosts \X EventIds
  OBVIOUS
<1> HIDE DEF k
<1>. QED BY <1>13, <1>14 DEF Custody!Next

\* The pipeline implements LineCustody: nothing joins an event after it left its
\* host's map, and every event leaves once, whole, shown or lost.
THEOREM KeepsCustody == Spec => ImplementsCustody
<1>1. Init => Custody!Init
  <2> SUFFICES ASSUME Init PROVE Custody!Init
    OBVIOUS
  <2>1. GroupKeys = <<>> /\ LeavingGroups = {} /\ ShownGroups = {} /\ LostGroups = {}
    BY DEF Init, GroupKeys, LeavingGroups, ShownGroups, LostGroups
  <2>2. OpenGroups = [k \in Hosts \X EventIds |-> {}]
    BY DEF Init, OpenGroups
  <2>. QED BY <2>1, <2>2
           DEF Custody!Init, GroupKeys, OpenGroups, LeavingGroups, ShownGroups, LostGroups
<1>2. IInv /\ ContentInv /\ [Next]_vars => [Custody!Next]_(Custody!vars)
  <2> SUFFICES ASSUME IInv, ContentInv, [Next]_vars PROVE [Custody!Next]_(Custody!vars)
    OBVIOUS
  <2> USE DEF inputVars, storeVars, lockVars, queueVars, countVars
  <2>1. ASSUME NEW r \in Receivers, NEW h \in Hosts, NEW e \in EventIds, NEW ty \in Types,
               Insert(r, h, e, ty)
        PROVE  Custody!Next
    BY <2>1, CustodyAccepts
  <2>2. ASSUME NEW h \in Hosts, GCCollect(h) PROVE Custody!Next
    BY <2>2, CustodyCloses
  <2>3. ASSUME auditEvents' = auditEvents PROVE [Custody!Next]_(Custody!vars)
    <3>1. CASE NothingMoves
      BY <2>3, <3>1, CustodyStutters
    <3>2. ASSUME NEW o \in DOMAIN heap, OneLeaves(o) PROVE Custody!Next
      BY <2>3, <3>2, CustodyLeaves
    <3>. QED BY <2>1, <3>1, <3>2, StepKinds DEF StepKind
  <2>4. ASSUME NEW t \in Threads, PushDone(t) \/ PushTimeout(t) \/ CountProcessed(t) \/ DeleteDropped(t)
        PROVE  auditEvents' = auditEvents
    BY <2>4 DEF PushDone, PushTimeout, CountProcessed, DeleteDropped
  <2>5. ASSUME NEW w \in Workers, Pop(w) \/ Distribute(w) PROVE auditEvents' = auditEvents
    BY <2>5 DEF Pop, Distribute
  <2>6. ASSUME \/ Tick \/ GCLock \/ GCUnlock
               \/ \E o \in gcBatch : GCTake(o)
               \/ UNCHANGED vars
        PROVE  auditEvents' = auditEvents
    BY <2>6 DEF Tick, GCLock, GCUnlock, GCTake, vars
  <2>. QED BY <2>1, <2>2, <2>3, <2>4, <2>5, <2>6 DEF Next
<1>. QED BY <1>1, <1>2, InductiveInvariant, ContentInvariant, PTL
         DEF Spec, ImplementsCustody, Custody!Spec
-----------------------------------------------------------------------------
(* The counters.  They add up when mutex_insert is free; while a thread has  *)
(* it, the events it took out of a map and has not counted are in between.   *)

Busy(t) == thread[t].pc \in {"push", "pushed", "failed"}

\* The events of host h that are out of its map and out of the GC's batch.
OutOf(h) == {o \in DOMAIN heap \ (PendingObjects \cup gcBatch) : heap[o].host = h}

\* The event that a thread took out and has not counted for its host, and the
\* one that the queue counted as dropped and that is not deleted yet.
Uncounted(h) == IF \E t \in Threads : Busy(t) /\ thread[t].host = h THEN 1 ELSE 0
Failing == IF \E t \in Threads : thread[t].pc = "failed" THEN 1 ELSE 0

\* The host at hand of a thread is that of its events.
HandsInv ==
  /\ \A t \in Threads : Busy(t) => thread[t].host \in Hosts
  /\ \A t \in Threads : thread[t].event # NoEvent => heap[thread[t].event].host = thread[t].host
  /\ \A o \in gcBatch : heap[o].host = thread[GC].host

CountInv ==
  /\ IsFiniteSet(delivered) /\ IsFiniteSet(discarded)
  /\ \A h \in Hosts :
       Cardinality(OutOf(h)) + Cardinality(EventsOf(delivered, h)) + Cardinality(EventsOf(discarded, h))
       = processed[h] + dropped[h] + Uncounted(h)
  /\ \A h \in Hosts : dropped[h] = Cardinality(EventsOf(discarded, h))
  /\ eventsDropped = Cardinality(discarded) + Failing
  /\ eventsProcessed = Cardinality(delivered)

\* The events a thread has in hand are alive.
HandsAlive ==
  /\ \A t \in Threads : thread[t].event # NoEvent => thread[t].event \in DOMAIN heap
  /\ gcBatch \subseteq DOMAIN heap

\* No thread and no batch holds a deleted event.
LEMMA HandsAreAlive == IInv => HandsAlive
BY DEF IInv, SingleOwner, PushedObjects, HandsAlive

\* The host of an event never changes.
LEMMA HostsStay ==
  ASSUME IInv, [Next]_vars
  PROVE  \A o \in DOMAIN heap \cap DOMAIN heap' : heap'[o].host = heap[o].host
<1>1. CASE NothingMoves
  BY <1>1 DEF NothingMoves
<1>2. ASSUME NEW p \in DOMAIN heap, OneLeaves(p)
      PROVE  \A o \in DOMAIN heap \cap DOMAIN heap' : heap'[o].host = heap[o].host
  BY <1>2 DEF OneLeaves, Without
<1>3. ASSUME NEW r \in Receivers, NEW h \in Hosts, NEW e \in EventIds, NEW ty \in Types,
             Insert(r, h, e, ty)
      PROVE  \A o \in DOMAIN heap \cap DOMAIN heap' : heap'[o].host = heap[o].host
  <2>1. PICK p : LineEnters(h, e, ty, p)
    BY <1>3, InsertEffect
  <2>2. CASE p \in DOMAIN heap
    <3>1. heap'[p] = Extended(heap[p]) /\ heap[p] \in Events
      BY <2>1, <2>2 DEF LineEnters, IInv, TypeOK
    <3>2. Extended(heap[p]).host = heap[p].host
      BY <3>1, ExtendedFrags DEF IInv
    <3>. QED BY <2>1, <3>1, <3>2 DEF LineEnters
  <2>3. CASE p \notin DOMAIN heap
    BY <2>1, <2>3 DEF LineEnters
  <2>. QED BY <2>2, <2>3
<1>. QED BY <1>1, <1>2, <1>3, StepKinds DEF StepKind

\* While one thread is in the middle of something, the others are idle.
LEMMA OneBusy ==
  ASSUME IInv, NEW t \in Threads, thread[t].pc # "idle"
  PROVE  /\ mutexInsert = t
         /\ \A s \in Threads \ {t} : thread[s].pc = "idle" /\ thread[s].event = NoEvent
BY DEF IInv, LockInv

\* Nobody is when the mutex is free.
LEMMA NoneBusy ==
  ASSUME IInv, mutexInsert = Free
  PROVE  /\ \A s \in Threads : thread[s].pc = "idle" /\ thread[s].event = NoEvent
         /\ gcBatch = {}
BY ReassemblyAssumption DEF IInv, LockInv

\* The threads' part of a step: at most thread t changes.
LEMMA HandsChange ==
  ASSUME IInv, IInv', HandsInv, [Next]_vars, NEW t \in Threads,
         \A s \in Threads \ {t} : thread'[s] = thread[s],
         Busy(t)' => thread'[t].host \in Hosts,
         thread'[t].event # NoEvent => heap'[thread'[t].event].host = thread'[t].host,
         gcBatch' \subseteq gcBatch, thread'[GC].host = thread[GC].host \/ gcBatch' = {}
  PROVE  HandsInv'
<1>1. HandsAlive
  BY HandsAreAlive
<1>2. HandsAlive'
  BY HandsAreAlive, PTL
<1>3. \A s \in Threads : Busy(s)' => thread'[s].host \in Hosts
  BY DEF HandsInv, Busy
<1>4. ASSUME NEW s \in Threads, thread'[s].event # NoEvent
      PROVE  heap'[thread'[s].event].host = thread'[s].host
  BY <1>1, <1>2, <1>4, HostsStay DEF HandsAlive, HandsInv
<1>5. ASSUME NEW o \in gcBatch' PROVE heap'[o].host = thread'[GC].host
  BY <1>1, <1>2, <1>5, HostsStay DEF HandsAlive, HandsInv
<1>. QED BY <1>3, <1>4, <1>5 DEF HandsInv

\* The thread after AfterPush: a receiver is idle, the GC scans on.
LEMMA ThreadAfterPush ==
  ASSUME IInv, NEW t \in Threads, AfterPush(t)
  PROVE  /\ \A s \in Threads \ {t} : thread'[s] = thread[s]
         /\ thread'[t].pc \in {"idle", "scan"} /\ thread'[t].event = NoEvent
         /\ t = GC => thread'[t].host = thread[t].host
<1>1. thread \in ThreadStates
  BY DEF IInv, TypeOK, ThreadStates
<1>2. CASE t = GC
  <2>1. thread' = [thread EXCEPT ![GC].pc = "scan", ![GC].event = NoEvent]
    BY <1>2, ReassemblyAssumption DEF AfterPush
  <2>. QED BY <1>1, <1>2, <2>1 DEF ThreadStates
<1>3. CASE t # GC
  <2>1. thread' = [thread EXCEPT ![t] = IdleThread]
    BY <1>3 DEF AfterPush
  <2>. QED BY <1>1, <1>3, <2>1 DEF ThreadStates, IdleThread
<1>. QED BY <1>2, <1>3

\* Every step keeps the hands and their events on one host.
LEMMA HandsStep ==
  ASSUME IInv, IInv', HandsInv, [Next]_vars
  PROVE  HandsInv'
<1> USE DEF inputVars, storeVars, lockVars, queueVars, countVars
<1>1. thread \in ThreadStates /\ GC \in Threads /\ gcBatch \subseteq Objects
  BY DEF IInv, TypeOK, ThreadStates
<1>2. ASSUME UNCHANGED <<thread, gcBatch>> PROVE HandsInv'
  <2>1. Busy(GC)' => thread'[GC].host \in Hosts
    BY <1>1, <1>2 DEF HandsInv, Busy
  <2>2. thread'[GC].event # NoEvent => heap'[thread'[GC].event].host = thread'[GC].host
    <3>1. HandsAlive /\ HandsAlive'
      BY HandsAreAlive, PTL
    <3>. QED BY <1>1, <1>2, <3>1, HostsStay DEF HandsInv, HandsAlive
  <2>. QED BY <1>1, <1>2, <2>1, <2>2, HandsChange
<1>3. ASSUME NEW r \in Receivers, NEW h \in Hosts, NEW e \in EventIds, NEW ty \in Types,
             Insert(r, h, e, ty)
      PROVE  HandsInv'
  <2> DEFINE o == Target(h, e)
             ends == IsEndEventType(ty) /\ ~EnforceMaxAge
  <2>1. gcBatch' = gcBatch
    BY <1>3 DEF Insert
  <2>2. CASE ends
    <3>1. thread'[r] = [pc |-> "push", host |-> h, event |-> o]
          /\ \A s \in Threads \ {r} : thread'[s] = thread[s]
      BY <1>1, <1>3, <2>2 DEF Insert, ThreadStates
    <3>2. heap'[o].host = h
      <4>1. LineEnters(h, e, ty, o) /\ heap \in [DOMAIN heap -> Events]
        BY <1>3, InsertEffect DEF IInv, TypeOK
      <4>2. CASE o \in DOMAIN heap
        <5>1. heap'[o] = Extended(heap[o]) /\ heap[o].host = h /\ heap[o] \in Events
          BY <4>1, <4>2 DEF LineEnters
        <5>. QED BY <5>1, ExtendedFrags DEF IInv
      <4>3. CASE o \notin DOMAIN heap
        <5>1. heap'[o] = Extended(NewEvent(h, e)) /\ NewEvent(h, e) \in Events
          BY <4>1, <4>3 DEF LineEnters, NewEvent, Events, IInv, TypeOK
        <5>. QED BY <5>1, ExtendedFrags DEF NewEvent, IInv
      <4>. QED BY <4>2, <4>3
    <3>3. thread'[r].host = h /\ thread'[r].event = o
      BY <3>1
    <3>4. thread'[GC].host = thread[GC].host
      BY <3>1, ReassemblyAssumption
    <3>. QED BY <2>1, <3>1, <3>2, <3>3, <3>4, HandsChange
  <2>3. CASE ~ends
    BY <1>2, <1>3, <2>1, <2>3 DEF Insert
  <2>. QED BY <2>2, <2>3
<1>4. CASE GCLock
  <2>1. /\ thread'[GC].pc = "scan" /\ thread'[GC].host = thread[GC].host
        /\ thread'[GC].event = thread[GC].event /\ thread[GC].event = NoEvent
        /\ \A s \in Threads \ {GC} : thread'[s] = thread[s] /\ gcBatch' = gcBatch
    BY <1>1, <1>4 DEF GCLock, ThreadStates, IInv, LockInv
  <2>2. gcBatch' = gcBatch
    BY <1>4 DEF GCLock
  <2>. QED BY <1>1, <2>1, <2>2, HandsChange DEF Busy
<1>5. ASSUME NEW h \in Hosts, GCCollect(h) PROVE HandsInv'
  <2>1. /\ thread'[GC].pc = "scan" /\ thread[GC].pc = "scan" /\ thread'[GC].host = h
        /\ thread'[GC].event = thread[GC].event /\ thread[GC].event = NoEvent
        /\ gcBatch' = Expired(h) /\ heap' = heap
    BY <1>1, <1>5 DEF GCCollect, ThreadStates, IInv, LockInv
  <2>2. \A s \in Threads \ {GC} : thread'[s] = thread[s] /\ thread[s].pc = "idle" /\ thread[s].event = NoEvent
    <3>1. \A s \in Threads \ {GC} : thread'[s] = thread[s]
      BY <1>1, <1>5 DEF GCCollect, ThreadStates
    <3>. QED BY <1>1, <2>1, <3>1, OneBusy
  <2>3. \A o \in Expired(h) : heap[o].host = h
    BY PendingAlive DEF Expired, PendingOf
  <2>. QED BY <2>1, <2>2, <2>3 DEF HandsInv, Busy
<1>6. ASSUME NEW o \in gcBatch, GCTake(o) PROVE HandsInv'
  <2>1. /\ thread'[GC].pc = "push" /\ thread'[GC].host = thread[GC].host
        /\ thread'[GC].event = o /\ gcBatch' = gcBatch \ {o} /\ heap' = heap
        /\ \A s \in Threads \ {GC} : thread'[s] = thread[s]
    BY <1>1, <1>6 DEF GCTake, ThreadStates
  <2>2. heap[o].host = thread[GC].host
    BY DEF HandsInv
  <2>3. thread[GC].host \in Hosts
    <3>1. o \in DOMAIN heap /\ heap[o] \in Events
      BY HandsAreAlive DEF HandsAlive, IInv, TypeOK
    <3>. QED BY <2>2, <3>1 DEF Events
  <2>. QED BY <1>1, <2>1, <2>2, <2>3, HandsChange
<1>7. CASE GCUnlock
  <2>1. /\ thread'[GC] = IdleThread /\ gcBatch' = gcBatch /\ gcBatch = {}
        /\ \A s \in Threads \ {GC} : thread'[s] = thread[s]
    BY <1>1, <1>7 DEF GCUnlock, ThreadStates
  <2>. QED BY <1>1, <2>1, HandsChange DEF IdleThread, Busy
<1>8. ASSUME NEW t \in Threads, PushDone(t) \/ PushTimeout(t) PROVE HandsInv'
  <2>1. /\ Busy(t) /\ thread'[t].host = thread[t].host /\ gcBatch' = gcBatch /\ heap' = heap
        /\ thread'[t].event \in {NoEvent, thread[t].event}
        /\ \A s \in Threads \ {t} : thread'[s] = thread[s]
    BY <1>1, <1>8 DEF PushDone, PushTimeout, ThreadStates, Busy
  <2>2. thread'[GC].host = thread[GC].host
    BY <1>1, <2>1
  <2>. QED BY <2>1, <2>2, HandsChange DEF HandsInv
<1>9. ASSUME NEW t \in Threads, CountProcessed(t) \/ DeleteDropped(t) PROVE HandsInv'
  <2>1. AfterPush(t) /\ gcBatch' = gcBatch
    BY <1>9 DEF CountProcessed, DeleteDropped
  <2>2. /\ \A s \in Threads \ {t} : thread'[s] = thread[s]
        /\ thread'[t].pc \in {"idle", "scan"} /\ thread'[t].event = NoEvent
        /\ t = GC => thread'[t].host = thread[t].host
    BY <2>1, ThreadAfterPush
  <2>3. thread'[GC].host = thread[GC].host
    BY <1>1, <2>2
  <2>. QED BY <2>1, <2>2, <2>3, HandsChange DEF Busy
<1>10. ASSUME \/ Tick \/ UNCHANGED vars
              \/ \E w \in Workers : Pop(w) \/ Distribute(w)
       PROVE  HandsInv'
  BY <1>2, <1>10 DEF Tick, Pop, Distribute, vars
<1>. QED
  BY <1>3, <1>4, <1>5, <1>6, <1>7, <1>8, <1>9, <1>10 DEF Next

\* Who is busy tells what is uncounted and what has failed.
BusyCounted ==
  \A t \in Threads : Busy(t) =>
    /\ \A h : Uncounted(h) = (IF thread[t].host = h THEN 1 ELSE 0)
    /\ Failing = (IF thread[t].pc = "failed" THEN 1 ELSE 0)

\* The lock lets only one thread be busy, so these sums have one term.
LEMMA BusyCounts == IInv => BusyCounted
<1> SUFFICES ASSUME IInv, NEW t \in Threads, Busy(t)
             PROVE  /\ \A h : Uncounted(h) = (IF thread[t].host = h THEN 1 ELSE 0)
                    /\ Failing = (IF thread[t].pc = "failed" THEN 1 ELSE 0)
  BY DEF BusyCounted
<1>1. \A s \in Threads \ {t} : thread[s].pc = "idle"
  BY OneBusy DEF Busy
<1>. QED BY <1>1 DEF Busy, Uncounted, Failing

\* Nothing is in between when no thread is busy.
LEMMA IdleCounts ==
  (\A t \in Threads : ~Busy(t)) => Failing = 0 /\ \A h : Uncounted(h) = 0
BY DEF Busy, Uncounted, Failing

\* There are finitely many events.
LEMMA OutOfIsFinite == IInv => \A h : IsFiniteSet(OutOf(h))
<1> SUFFICES ASSUME IInv, NEW h PROVE IsFiniteSet(OutOf(h))
  OBVIOUS
<1>1. IsFiniteSet(1..MaxLines)
  BY FS_Interval, ReassemblyAssumption
<1>2. PICK S : S = OutOf(h)
  OBVIOUS
<1>3. S \in SUBSET (1..MaxLines)
  BY <1>2 DEF OutOf, IInv, TypeOK
<1>. QED BY <1>1, <1>2, <1>3, FS_Subset

\* A set that gains or loses a member.
LEMMA OneMember ==
  ASSUME NEW S, NEW x, IsFiniteSet(S)
  PROVE  /\ Cardinality(S) \in Nat
         /\ x \notin S => IsFiniteSet(S \cup {x}) /\ Cardinality(S \cup {x}) = Cardinality(S) + 1
         /\ x \in S => IsFiniteSet(S \ {x}) /\ Cardinality(S \ {x}) = Cardinality(S) - 1
BY FS_CardinalityType, FS_AddElement, FS_RemoveElement

\* The events of a host in a finite set of events.
LEMMA EventsOfIsFinite ==
  ASSUME NEW S, IsFiniteSet(S), NEW h
  PROVE  IsFiniteSet(EventsOf(S, h)) /\ Cardinality(EventsOf(S, h)) \in Nat
<1>1. EventsOf(S, h) \in SUBSET S
  BY DEF EventsOf
<1>. QED BY <1>1, FS_Subset, FS_CardinalityType

\* One event more counts for its own host.
LEMMA OneEventMore ==
  ASSUME NEW S, IsFiniteSet(S), NEW x, x \notin S, NEW h
  PROVE  Cardinality(EventsOf(S \cup {x}, h))
         = Cardinality(EventsOf(S, h)) + (IF x.host = h THEN 1 ELSE 0)
<1>1. IsFiniteSet(EventsOf(S, h)) /\ Cardinality(EventsOf(S, h)) \in Nat
  BY EventsOfIsFinite
<1>2. CASE x.host = h
  <2>1. EventsOf(S \cup {x}, h) = EventsOf(S, h) \cup {x} /\ x \notin EventsOf(S, h)
    BY <1>2 DEF EventsOf
  <2>2. PICK T : T = EventsOf(S, h)
    OBVIOUS
  <2>3. Cardinality(T \cup {x}) = Cardinality(T) + 1
    BY <1>1, <2>1, <2>2, OneMember
  <2>. QED BY <1>2, <2>1, <2>2, <2>3
<1>3. CASE x.host # h
  <2>1. EventsOf(S \cup {x}, h) = EventsOf(S, h)
    BY <1>3 DEF EventsOf
  <2>. QED BY <1>1, <1>3, <2>1
<1>. QED BY <1>2, <1>3

\* What is neither in a map nor in the batch is in a thread's hands, in the
\* queue or at a worker.
Taken ==
  /\ \A h : OutOf(h) = {o \in PushedObjects \cup QueuedObjects \cup WorkedObjects :
                          heap[o].host = h}
  /\ PushedObjects \cup QueuedObjects \cup WorkedObjects \subseteq DOMAIN heap

\* It follows from single ownership.
LEMMA OutIsTaken == IInv => Taken
BY DEF IInv, SingleOwner, PlacesDisjoint, OutOf, Taken

\* What is out, after a step that takes no event out and deletes none.
LEMMA OutOfSame ==
  ASSUME IInv, IInv', [Next]_vars, NEW h,
         \/ heap' = heap /\ PendingObjects' = PendingObjects /\ gcBatch' = gcBatch
         \/ /\ PushedObjects' = PushedObjects /\ QueuedObjects' = QueuedObjects
            /\ WorkedObjects' = WorkedObjects
  PROVE  OutOf(h)' = OutOf(h)
<1>1. CASE heap' = heap /\ PendingObjects' = PendingObjects /\ gcBatch' = gcBatch
  BY <1>1 DEF OutOf
<1>2. CASE /\ PushedObjects' = PushedObjects /\ QueuedObjects' = QueuedObjects
           /\ WorkedObjects' = WorkedObjects
  <2>1. /\ OutOf(h) = {o \in PushedObjects \cup QueuedObjects \cup WorkedObjects : heap[o].host = h}
        /\ PushedObjects \cup QueuedObjects \cup WorkedObjects \subseteq DOMAIN heap
    BY OutIsTaken DEF Taken
  <2>2. /\ OutOf(h)' = {o \in PushedObjects' \cup QueuedObjects' \cup WorkedObjects' : heap'[o].host = h}
        /\ PushedObjects' \cup QueuedObjects' \cup WorkedObjects' \subseteq DOMAIN heap'
    <3>1. Taken'
      BY OutIsTaken, PTL
    <3>. QED BY <3>1 DEF Taken
  <2>3. \A o \in PushedObjects \cup QueuedObjects \cup WorkedObjects : heap'[o].host = heap[o].host
    BY <1>2, <2>1, <2>2, HostsStay
  <2>. QED BY <1>2, <2>1, <2>2, <2>3
<1>. QED BY <1>1, <1>2

\* A thread takes o out.
LEMMA OutOfGains ==
  ASSUME IInv, IInv', [Next]_vars, NEW o, NEW h, o \notin PushedObjects \cup QueuedObjects \cup WorkedObjects,
         PushedObjects' = PushedObjects \cup {o},
         QueuedObjects' = QueuedObjects, WorkedObjects' = WorkedObjects
  PROVE  /\ Cardinality(OutOf(h)) \in Nat
         /\ Cardinality(OutOf(h)') = Cardinality(OutOf(h)) + (IF heap'[o].host = h THEN 1 ELSE 0)
<1>1. PICK S : S = OutOf(h)
  OBVIOUS
<1>2. IsFiniteSet(S)
  BY <1>1, OutOfIsFinite
<1>3. o \notin S /\ OutOf(h)' = IF heap'[o].host = h THEN S \cup {o} ELSE S
  <2>1. /\ OutOf(h) = {p \in PushedObjects \cup QueuedObjects \cup WorkedObjects : heap[p].host = h}
        /\ PushedObjects \cup QueuedObjects \cup WorkedObjects \subseteq DOMAIN heap
    BY OutIsTaken DEF Taken
  <2>2. /\ OutOf(h)' = {p \in PushedObjects' \cup QueuedObjects' \cup WorkedObjects' : heap'[p].host = h}
        /\ PushedObjects' \cup QueuedObjects' \cup WorkedObjects' \subseteq DOMAIN heap'
    <3>1. Taken'
      BY OutIsTaken, PTL
    <3>. QED BY <3>1 DEF Taken
  <2>3. \A p \in PushedObjects \cup QueuedObjects \cup WorkedObjects : heap'[p].host = heap[p].host
    BY <2>1, <2>2, HostsStay
  <2>. QED BY <1>1, <2>1, <2>2, <2>3
<1>4. Cardinality(S) \in Nat /\ Cardinality(S \cup {o}) = Cardinality(S) + 1
  BY <1>2, <1>3, OneMember
<1>. QED BY <1>1, <1>3, <1>4

\* The event o is deleted.
LEMMA OutOfLoses ==
  ASSUME IInv, NEW o \in DOMAIN heap, o \notin PendingObjects \cup gcBatch, NEW h,
         heap' = Without(heap, o), PendingObjects' = PendingObjects, gcBatch' = gcBatch
  PROVE  /\ Cardinality(OutOf(h)) \in Nat
         /\ Cardinality(OutOf(h)') = Cardinality(OutOf(h)) - (IF heap[o].host = h THEN 1 ELSE 0)
<1>1. PICK S : S = OutOf(h)
  OBVIOUS
<1>2. IsFiniteSet(S)
  BY <1>1, OutOfIsFinite
<1>3. OutOf(h)' = OutOf(h) \ {o} /\ (o \in OutOf(h) <=> heap[o].host = h)
  BY DEF OutOf, Without
<1>4. Cardinality(S) \in Nat
  BY <1>2, OneMember
<1>5. CASE heap[o].host = h
  <2>1. Cardinality(S \ {o}) = Cardinality(S) - 1
    BY <1>1, <1>2, <1>3, <1>5, OneMember
  <2>. QED BY <1>1, <1>3, <1>4, <1>5, <2>1
<1>6. CASE heap[o].host # h
  <2>1. OutOf(h)' = S
    BY <1>1, <1>3, <1>6
  <2>. QED BY <1>1, <1>4, <1>6, <2>1
<1>. QED BY <1>5, <1>6

\* The counts are numbers.
LEMMA CountNumbers ==
  ASSUME IInv, CountInv, NEW h \in Hosts
  PROVE  /\ Cardinality(OutOf(h)) \in Nat
         /\ Cardinality(EventsOf(delivered, h)) \in Nat
         /\ Cardinality(EventsOf(discarded, h)) \in Nat
         /\ Cardinality(delivered) \in Nat /\ Cardinality(discarded) \in Nat
         /\ processed[h] \in Nat /\ dropped[h] \in Nat
         /\ eventsProcessed \in Nat /\ eventsDropped \in Nat
<1>1. Cardinality(OutOf(h)) \in Nat
  BY OutOfIsFinite, FS_CardinalityType
<1>2. IsFiniteSet(delivered) /\ IsFiniteSet(discarded)
  BY DEF CountInv
<1>3. /\ Cardinality(EventsOf(delivered, h)) \in Nat /\ Cardinality(EventsOf(discarded, h)) \in Nat
      /\ Cardinality(delivered) \in Nat /\ Cardinality(discarded) \in Nat
  BY <1>2, EventsOfIsFinite, FS_CardinalityType
<1>. QED BY <1>1, <1>3 DEF IInv, TypeOK

\* A step that moves nothing out of a map and counts nothing.
LEMMA CountSame ==
  ASSUME CountInv, UNCHANGED <<delivered, discarded, countVars>>,
         \A h \in Hosts : OutOf(h)' = OutOf(h) /\ Uncounted(h)' = Uncounted(h),
         Failing' = Failing
  PROVE  CountInv'
BY DEF CountInv, countVars

\* An idle thread takes an event out of its map or of the batch to push it.
LEMMA CountTakes ==
  ASSUME IInv, IInv', HandsInv', CountInv, [Next]_vars,
         UNCHANGED <<delivered, discarded, countVars, eventsQueue, worker>>,
         NEW t \in Threads, \A s \in Threads : ~Busy(s),
         thread[t].event = NoEvent, thread'[t].pc = "push",
         NEW o \in Objects, thread'[t].event = o,
         o \notin PushedObjects \cup QueuedObjects \cup WorkedObjects,
         \A s \in Threads \ {t} : thread'[s] = thread[s]
  PROVE  CountInv'
<1>1. PushedObjects' = PushedObjects \cup {o}
  BY ThreadPicksUp DEF IInv, SingleOwner
<1>2. QueuedObjects' = QueuedObjects /\ WorkedObjects' = WorkedObjects
  BY DEF QueuedObjects, WorkedObjects
<1>3. heap'[o].host = thread'[t].host
  BY DEF HandsInv
<1>4. Failing = 0 /\ \A h : Uncounted(h) = 0
  BY IdleCounts
<1>5. /\ \A h : Uncounted(h)' = (IF thread'[t].host = h THEN 1 ELSE 0)
      /\ Failing' = 0
  <2>1. Busy(t)'
    BY DEF Busy
  <2>2. BusyCounted'
    BY BusyCounts, PTL
  <2>. QED BY <2>1, <2>2 DEF BusyCounted
<1>6. ASSUME NEW h \in Hosts
      PROVE  Cardinality(OutOf(h)') + Cardinality(EventsOf(delivered', h)) + Cardinality(EventsOf(discarded', h))
             = processed'[h] + dropped'[h] + Uncounted(h)'
  <2>1. /\ Cardinality(OutOf(h)) \in Nat
        /\ Cardinality(OutOf(h)') = Cardinality(OutOf(h)) + (IF heap'[o].host = h THEN 1 ELSE 0)
    BY <1>1, <1>2, OutOfGains
  <2>2. Cardinality(OutOf(h)) + Cardinality(EventsOf(delivered, h)) + Cardinality(EventsOf(discarded, h))
        = processed[h] + dropped[h]
    BY <1>4, CountNumbers DEF CountInv
  <2>3. delivered' = delivered /\ discarded' = discarded /\ processed' = processed /\ dropped' = dropped
    BY DEF countVars
  <2>. QED BY <1>3, <1>5, <2>1, <2>2, <2>3, CountNumbers
<1>. QED BY <1>4, <1>5, <1>6 DEF CountInv, countVars

\* The counters of a push that timed out.
LEMMA CountTimeout ==
  ASSUME IInv, IInv', CountInv, [Next]_vars, NEW t \in Threads, PushTimeout(t)
  PROVE  CountInv'
<1>1. /\ Busy(t) /\ thread[t].pc = "push" /\ thread'[t].pc = "failed"
      /\ thread'[t].host = thread[t].host
  BY DEF PushTimeout, Busy, IInv, TypeOK
<1>2. Busy(t)'
  BY <1>1 DEF Busy
<1>3. /\ \A h : Uncounted(h) = (IF thread[t].host = h THEN 1 ELSE 0)
      /\ Failing = 0
  BY <1>1, BusyCounts DEF BusyCounted
<1>4. /\ \A h : Uncounted(h)' = (IF thread'[t].host = h THEN 1 ELSE 0)
      /\ Failing' = 1
  <2>1. BusyCounted'
    BY BusyCounts, PTL
  <2>. QED BY <1>1, <1>2, <2>1 DEF BusyCounted
<1>5. \A h \in Hosts : OutOf(h)' = OutOf(h)
  <2>1. heap' = heap /\ PendingObjects' = PendingObjects /\ gcBatch' = gcBatch
    BY SameMap DEF PushTimeout, storeVars
  <2>. QED BY <2>1, OutOfSame
<1>6. /\ eventsDropped' = eventsDropped + 1
      /\ UNCHANGED <<delivered, discarded, processed, dropped, eventsProcessed>>
  BY DEF PushTimeout, queueVars
<1>7. \A h \in Hosts : Uncounted(h)' = Uncounted(h)
  BY <1>1, <1>3, <1>4
<1>8. eventsDropped = Cardinality(discarded) /\ eventsDropped' = Cardinality(discarded') + Failing'
  <2>1. eventsDropped \in Nat /\ Cardinality(discarded) \in Nat
    BY FS_CardinalityType DEF IInv, TypeOK, CountInv
  <2>. QED BY <1>3, <1>4, <1>6, <2>1 DEF CountInv
<1>. QED BY <1>5, <1>6, <1>7, <1>8 DEF CountInv

\* An event that reached the queue is counted for its host.
LEMMA CountCounts ==
  ASSUME IInv, IInv', HandsInv, CountInv, [Next]_vars, NEW t \in Threads, CountProcessed(t)
  PROVE  CountInv'
<1>1. Busy(t) /\ thread[t].pc = "pushed" /\ thread \in ThreadStates
  BY DEF CountProcessed, Busy, IInv, TypeOK, ThreadStates
<1>2. \A s \in Threads : ~Busy(s)'
  <2>1. AfterPushed(t)
    BY <1>1, AfterPushEffect DEF CountProcessed
  <2>. QED BY <1>1, <2>1, OneBusy DEF AfterPushed, Busy
<1>3. /\ \A h : Uncounted(h) = (IF thread[t].host = h THEN 1 ELSE 0)
      /\ Failing = 0
  BY <1>1, BusyCounts DEF BusyCounted
<1>4. Failing' = 0 /\ \A h : Uncounted(h)' = 0
  BY <1>2 DEF Uncounted, Failing, Busy
<1>5. \A h \in Hosts : OutOf(h)' = OutOf(h)
  <2>1. heap' = heap /\ PendingObjects' = PendingObjects /\ gcBatch' = gcBatch
    BY SameMap DEF CountProcessed, storeVars
  <2>. QED BY <2>1, OutOfSame
<1>6. /\ processed' = [processed EXCEPT ![thread[t].host] = @ + 1]
      /\ UNCHANGED <<delivered, discarded, dropped, eventsProcessed, eventsDropped>>
  BY DEF CountProcessed, queueVars
<1>7. ASSUME NEW h \in Hosts
      PROVE  Cardinality(OutOf(h)') + Cardinality(EventsOf(delivered', h)) + Cardinality(EventsOf(discarded', h))
             = processed'[h] + dropped'[h] + Uncounted(h)'
  <2>1. Cardinality(OutOf(h)) + Cardinality(EventsOf(delivered, h)) + Cardinality(EventsOf(discarded, h))
        = processed[h] + dropped[h] + Uncounted(h)
    BY DEF CountInv
  <2>2. processed'[h] = processed[h] + Uncounted(h)
    <3>1. processed \in [Hosts -> Nat]
      BY DEF IInv, TypeOK
    <3>. QED BY <1>3, <1>6, <3>1
  <2>3. Uncounted(h) \in Nat
    BY <1>3
  <2>4. OutOf(h)' = OutOf(h) /\ delivered' = delivered /\ discarded' = discarded /\ dropped' = dropped
    BY <1>5, <1>6
  <2>. QED BY <1>4, <2>1, <2>2, <2>3, <2>4, CountNumbers
<1>. QED BY <1>3, <1>4, <1>6, <1>7 DEF CountInv

\* An event that a worker hands to the outputs.
LEMMA CountDistributes ==
  ASSUME IInv, IInv', ContentInv, CountInv, [Next]_vars, NEW w \in Workers, Distribute(w)
  PROVE  CountInv'
<1>1. PICK o : o = worker[w]
  OBVIOUS
<1>2. PICK x : x = heap[o]
  OBVIOUS
<1>3. o \in WorkedObjects
  BY <1>1 DEF Distribute, WorkedObjects
<1>4. o \in DOMAIN heap /\ o \notin PendingObjects \cup gcBatch
  BY <1>3 DEF IInv, SingleOwner, PlacesDisjoint
<1>5. /\ heap' = Without(heap, o) /\ delivered' = delivered \cup {x}
      /\ gcBatch' = gcBatch /\ auditEvents' = auditEvents
      /\ eventsProcessed' = eventsProcessed + 1
      /\ UNCHANGED <<discarded, processed, dropped, eventsDropped, thread>>
  BY <1>1, <1>2 DEF Distribute, lockVars
<1>6. x \notin delivered
  BY <1>2, <1>4, EventsNotEmpty DEF Gone
<1>7. IsFiniteSet(delivered) /\ IsFiniteSet(discarded)
  BY DEF CountInv
<1>8. IsFiniteSet(delivered') /\ Cardinality(delivered') = Cardinality(delivered) + 1
  <2>1. PICK D : D = delivered
    OBVIOUS
  <2>2. IsFiniteSet(D \cup {x}) /\ Cardinality(D \cup {x}) = Cardinality(D) + 1
    BY <1>6, <1>7, <2>1, OneMember
  <2>. QED BY <1>5, <2>1, <2>2
<1>9. PendingObjects' = PendingObjects
  BY <1>5, SameMap
<1>10. Failing' = Failing /\ \A h : Uncounted(h)' = Uncounted(h)
  BY <1>5 DEF Failing, Uncounted, Busy
<1>11. ASSUME NEW h \in Hosts
       PROVE  Cardinality(OutOf(h)') + Cardinality(EventsOf(delivered', h)) + Cardinality(EventsOf(discarded', h))
              = processed'[h] + dropped'[h] + Uncounted(h)'
  <2>1. /\ Cardinality(OutOf(h)) \in Nat
        /\ Cardinality(OutOf(h)') = Cardinality(OutOf(h)) - (IF heap[o].host = h THEN 1 ELSE 0)
    BY <1>4, <1>5, <1>9, OutOfLoses
  <2>2. PICK D : D = delivered
    OBVIOUS
  <2>3. Cardinality(EventsOf(D \cup {x}, h)) = Cardinality(EventsOf(D, h)) + (IF x.host = h THEN 1 ELSE 0)
    BY <1>6, <1>7, <2>2, OneEventMore
  <2>4. Cardinality(EventsOf(delivered', h))
        = Cardinality(EventsOf(delivered, h)) + (IF heap[o].host = h THEN 1 ELSE 0)
    BY <1>2, <1>5, <2>2, <2>3
  <2>5. Cardinality(OutOf(h)) + Cardinality(EventsOf(delivered, h)) + Cardinality(EventsOf(discarded, h))
        = processed[h] + dropped[h] + Uncounted(h)
    BY DEF CountInv
  <2>6. discarded' = discarded /\ processed' = processed /\ dropped' = dropped
    BY <1>5
  <2>. QED BY <1>10, <2>1, <2>4, <2>5, <2>6, CountNumbers
<1>12. eventsProcessed' = Cardinality(delivered')
  BY <1>5, <1>8 DEF CountInv
<1>. QED BY <1>5, <1>7, <1>8, <1>10, <1>11, <1>12 DEF CountInv

\* An event that is deleted because the queue stayed full.
LEMMA CountDeletes ==
  ASSUME IInv, IInv', ContentInv, HandsInv, CountInv, [Next]_vars,
         NEW t \in Threads, DeleteDropped(t)
  PROVE  CountInv'
<1>1. PICK o : o = thread[t].event
  OBVIOUS
<1>2. PICK x : x = heap[o]
  OBVIOUS
<1>a. Busy(t) /\ thread[t].pc = "failed" /\ thread \in ThreadStates
  BY DEF DeleteDropped, Busy, IInv, TypeOK, ThreadStates
<1>3. o \in PushedObjects /\ o # NoEvent
  BY <1>1, <1>a DEF IInv, LockInv, PushedObjects
<1>4. o \in DOMAIN heap /\ o \notin PendingObjects \cup gcBatch
  BY <1>3 DEF IInv, SingleOwner, PlacesDisjoint
<1>5. /\ heap' = Without(heap, o) /\ discarded' = discarded \cup {x}
      /\ gcBatch' = gcBatch /\ auditEvents' = auditEvents
      /\ dropped' = DroppedAfter(t) /\ AfterPush(t)
      /\ UNCHANGED <<delivered, processed, eventsProcessed, eventsDropped>>
  BY <1>1, <1>2 DEF DeleteDropped
<1>b. x.host = thread[t].host
  BY <1>1, <1>2, <1>3 DEF HandsInv
<1>6. x \notin discarded
  BY <1>2, <1>4, EventsNotEmpty DEF Gone
<1>7. IsFiniteSet(delivered) /\ IsFiniteSet(discarded)
  BY DEF CountInv
<1>8. IsFiniteSet(discarded') /\ Cardinality(discarded') = Cardinality(discarded) + 1
  <2>1. PICK D : D = discarded
    OBVIOUS
  <2>2. IsFiniteSet(D \cup {x}) /\ Cardinality(D \cup {x}) = Cardinality(D) + 1
    BY <1>6, <1>7, <2>1, OneMember
  <2>. QED BY <1>5, <2>1, <2>2
<1>9. PendingObjects' = PendingObjects
  BY <1>5, SameMap
<1>10. /\ \A h : Uncounted(h) = (IF x.host = h THEN 1 ELSE 0)
       /\ Failing = 1
  BY <1>a, <1>b, BusyCounts DEF BusyCounted
<1>c. Failing' = 0 /\ \A h : Uncounted(h)' = 0
  <2>1. AfterPushed(t)
    BY <1>5, <1>a, AfterPushEffect
  <2>2. \A s \in Threads : ~Busy(s)'
    BY <1>a, <2>1, OneBusy DEF AfterPushed, Busy
  <2>. QED BY <2>2 DEF Uncounted, Failing, Busy
<1>d. \A h \in Hosts : dropped'[h] = dropped[h] + (IF x.host = h THEN 1 ELSE 0)
  <2>1. dropped \in [Hosts -> Nat]
    BY DEF IInv, TypeOK
  <2>. QED BY <1>5, <1>b, <2>1 DEF DroppedAfter
<1>e. ASSUME NEW h \in Hosts
      PROVE  Cardinality(EventsOf(discarded', h))
             = Cardinality(EventsOf(discarded, h)) + (IF x.host = h THEN 1 ELSE 0)
  <2>2. PICK D : D = discarded
    OBVIOUS
  <2>3. Cardinality(EventsOf(D \cup {x}, h)) = Cardinality(EventsOf(D, h)) + (IF x.host = h THEN 1 ELSE 0)
    BY <1>6, <1>7, <2>2, OneEventMore
  <2>. QED BY <1>5, <2>2, <2>3
<1>11. ASSUME NEW h \in Hosts
       PROVE  Cardinality(OutOf(h)') + Cardinality(EventsOf(delivered', h)) + Cardinality(EventsOf(discarded', h))
              = processed'[h] + dropped'[h] + Uncounted(h)'
  <2>1. /\ Cardinality(OutOf(h)) \in Nat
        /\ Cardinality(OutOf(h)') = Cardinality(OutOf(h)) - (IF x.host = h THEN 1 ELSE 0)
    BY <1>2, <1>4, <1>5, <1>9, OutOfLoses
  <2>5. Cardinality(OutOf(h)) + Cardinality(EventsOf(delivered, h)) + Cardinality(EventsOf(discarded, h))
        = processed[h] + dropped[h] + Uncounted(h)
    BY DEF CountInv
  <2>6. delivered' = delivered /\ processed' = processed
    BY <1>5
  <2>. QED BY <1>10, <1>c, <1>d, <1>e, <2>1, <2>5, <2>6, CountNumbers
<1>12. \A h \in Hosts : dropped'[h] = Cardinality(EventsOf(discarded', h))
  BY <1>d, <1>e DEF CountInv
<1>13. eventsDropped' = Cardinality(discarded') + Failing'
  <2>1. Cardinality(discarded) \in Nat
    BY <1>7, FS_CardinalityType
  <2>. QED BY <1>5, <1>8, <1>10, <1>c, <2>1 DEF CountInv
<1>14. IsFiniteSet(delivered') /\ eventsProcessed' = Cardinality(delivered')
  BY <1>5, <1>7 DEF CountInv
<1>. QED BY <1>8, <1>11, <1>12, <1>13, <1>14 DEF CountInv

\* A step between two states in which no thread is busy takes nothing out.
LEMMA CountIdle ==
  ASSUME IInv, IInv', CountInv, [Next]_vars,
         UNCHANGED <<delivered, discarded, countVars, eventsQueue, worker>>,
         \/ UNCHANGED thread
         \/ \A s \in Threads : ~Busy(s) /\ ~Busy(s)',
         \A s \in Threads : thread'[s].event = thread[s].event
  PROVE  CountInv'
<1>1. /\ PushedObjects' = PushedObjects
      /\ QueuedObjects' = QueuedObjects /\ WorkedObjects' = WorkedObjects
  BY SameThreads, SameQueue, SameWorkers
<1>2. \A h \in Hosts : OutOf(h)' = OutOf(h)
  BY <1>1, OutOfSame
<1>3. Failing' = Failing /\ \A h : Uncounted(h)' = Uncounted(h)
  BY DEF Failing, Uncounted, Busy
<1>. QED BY <1>2, <1>3, CountSame

\* A line that ends its event has a receiver take the event out.
LEMMA CountInsert ==
  ASSUME IInv, IInv', HandsInv', CountInv, [Next]_vars,
         NEW r \in Receivers, NEW h \in Hosts, NEW e \in EventIds, NEW ty \in Types,
         Insert(r, h, e, ty)
  PROVE  CountInv'
<1> DEFINE ends == IsEndEventType(ty) /\ ~EnforceMaxAge
<1>1. /\ \A s \in Threads : thread[s].pc = "idle" /\ thread[s].event = NoEvent
      /\ gcBatch = {} /\ thread \in ThreadStates
  <2>1. mutexInsert = Free
    BY DEF Insert
  <2>. QED BY <2>1, NoneBusy DEF IInv, TypeOK, ThreadStates
<1>2. UNCHANGED <<delivered, discarded, countVars, eventsQueue, worker>>
  BY DEF Insert, queueVars
<1>3. CASE ends
  <2>1. PICK o : o = Target(h, e)
    OBVIOUS
  <2>2. thread' = [thread EXCEPT ![r] = [pc |-> "push", host |-> h, event |-> o]]
    BY <1>3, <2>1 DEF Insert
  <2>3. thread'[r].pc = "push" /\ thread'[r].event = o
        /\ \A s \in Threads \ {r} : thread'[s] = thread[s]
    BY <1>1, <2>2 DEF ThreadStates
  <2>4. o \in Objects
    BY <2>1, TargetIsObject
  <2>5. o \notin PushedObjects \cup QueuedObjects \cup WorkedObjects
    <3>1. auditEvents[h][e] \in Pointers /\ (auditEvents[h][e] # NoEvent => auditEvents[h][e] \in PendingObjects)
      BY PendingAlive DEF IInv, TypeOK
    <3>2. Len(lines) \in Nat /\ Len(lines) + 1 \notin DOMAIN heap
      <4>1. Len(lines) \in Nat
        BY DEF IInv, TypeOK
      <4>. QED BY <4>1 DEF IInv, HeapInv
    <3>3. o \in PendingObjects \/ o \notin DOMAIN heap
      BY <2>1, <3>1, <3>2 DEF Target
    <3>. QED BY <3>3 DEF IInv, SingleOwner, PlacesDisjoint
  <2>6. \A s \in Threads : ~Busy(s)
    BY <1>1 DEF Busy
  <2>. QED BY <1>1, <1>2, <2>3, <2>4, <2>5, <2>6, CountTakes
<1>4. CASE ~ends
  <2>1. UNCHANGED thread
    BY <1>4 DEF Insert
  <2>. QED BY <1>2, <2>1, CountIdle
<1>. QED BY <1>3, <1>4

\* Every step keeps the counters in agreement.
LEMMA CountStep ==
  ASSUME IInv, IInv', ContentInv, HandsInv, HandsInv', CountInv, [Next]_vars
  PROVE  CountInv'
<1> USE DEF inputVars, storeVars, lockVars, queueVars
<1>1. thread \in ThreadStates
  BY DEF IInv, TypeOK, ThreadStates
<1>2. ASSUME \/ Tick \/ UNCHANGED vars PROVE CountInv'
  BY <1>2, CountIdle DEF Tick, vars
<1>3. ASSUME NEW r \in Receivers, NEW h \in Hosts, NEW e \in EventIds, NEW ty \in Types,
             Insert(r, h, e, ty)
      PROVE  CountInv'
  BY <1>3, CountInsert
<1>4. ASSUME \/ GCLock \/ GCUnlock \/ \E h \in Hosts : GCCollect(h) PROVE CountInv'
  <2>1. UNCHANGED <<delivered, discarded, countVars, eventsQueue, worker>>
    BY <1>4 DEF GCLock, GCUnlock, GCCollect
  <2>2. /\ thread[GC].pc \in {"idle", "scan"} /\ thread'[GC].pc \in {"idle", "scan"}
        /\ thread[GC].event = NoEvent /\ thread'[GC].event = NoEvent
        /\ \A s \in Threads \ {GC} : thread'[s] = thread[s]
    BY <1>1, <1>4 DEF GCLock, GCUnlock, GCCollect, ThreadStates, IdleThread, IInv, LockInv
  <2>3. \A s \in Threads \ {GC} : thread[s].pc = "idle"
    <3>1. CASE thread[GC].pc = "scan"
      BY <3>1, OneBusy
    <3>2. CASE thread[GC].pc = "idle"
      <4>1. mutexInsert = Free
        BY <1>4, <3>2 DEF GCLock, GCUnlock, GCCollect
      <4>. QED BY <4>1, NoneBusy
    <3>. QED BY <2>2, <3>1, <3>2
  <2>4. \A s \in Threads : ~Busy(s) /\ ~Busy(s)'
    BY <2>2, <2>3 DEF Busy
  <2>. QED BY <2>1, <2>2, <2>4, CountIdle
<1>5. ASSUME NEW o \in gcBatch, GCTake(o) PROVE CountInv'
  <2>1. UNCHANGED <<delivered, discarded, countVars, eventsQueue, worker>>
    BY <1>5 DEF GCTake
  <2>2. /\ thread[GC].pc = "scan" /\ thread[GC].event = NoEvent
        /\ thread'[GC].pc = "push" /\ thread'[GC].event = o
        /\ \A s \in Threads \ {GC} : thread'[s] = thread[s]
    BY <1>1, <1>5 DEF GCTake, ThreadStates, IInv, LockInv
  <2>3. \A s \in Threads : ~Busy(s)
    BY <2>2, OneBusy DEF Busy
  <2>4. o \in Objects /\ o \notin PushedObjects \cup QueuedObjects \cup WorkedObjects
    BY DEF IInv, TypeOK, SingleOwner, PlacesDisjoint
  <2>. QED BY <2>1, <2>2, <2>3, <2>4, CountTakes
<1>6. ASSUME NEW t \in Threads, PushDone(t) PROVE CountInv'
  <2>1. /\ UNCHANGED <<heap, auditEvents, gcBatch, delivered, discarded, countVars>>
        /\ Busy(t) /\ Busy(t)' /\ thread[t].pc = "push" /\ thread'[t].pc = "pushed"
        /\ thread'[t].host = thread[t].host
    BY <1>1, <1>6 DEF PushDone, Busy, ThreadStates
  <2>2. BusyCounted /\ BusyCounted'
    BY BusyCounts, PTL
  <2>3. Failing' = Failing /\ \A h : Uncounted(h)' = Uncounted(h)
    BY <2>1, <2>2 DEF BusyCounted
  <2>4. \A h \in Hosts : OutOf(h)' = OutOf(h)
    BY <2>1, SameMap, OutOfSame
  <2>. QED BY <2>1, <2>3, <2>4, CountSame
<1>7. ASSUME NEW t \in Threads, PushTimeout(t) \/ CountProcessed(t) \/ DeleteDropped(t)
      PROVE  CountInv'
  BY <1>7, CountTimeout, CountCounts, CountDeletes
<1>8. ASSUME NEW w \in Workers, Pop(w) PROVE CountInv'
  <2>1. UNCHANGED <<heap, auditEvents, gcBatch, delivered, discarded, countVars, thread>>
    BY <1>8 DEF Pop
  <2>2. \A h \in Hosts : OutOf(h)' = OutOf(h) /\ Uncounted(h)' = Uncounted(h)
    BY <2>1, SameMap, OutOfSame DEF Uncounted, Busy
  <2>3. Failing' = Failing
    BY <2>1 DEF Failing
  <2>. QED BY <2>1, <2>2, <2>3, CountSame
<1>9. ASSUME NEW w \in Workers, Distribute(w) PROVE CountInv'
  BY <1>9, CountDistributes
<1>. QED
  BY <1>2, <1>3, <1>4, <1>5, <1>6, <1>7, <1>8, <1>9 DEF Next

\* Nothing is counted at first.
LEMMA CountInit == Init => HandsInv /\ CountInv
<1> SUFFICES ASSUME Init PROVE HandsInv /\ CountInv
  OBVIOUS
<1>1. /\ DOMAIN heap = {} /\ gcBatch = {} /\ delivered = {} /\ discarded = {}
      /\ \A t \in Threads : thread[t].pc = "idle" /\ thread[t].event = NoEvent
      /\ \A h \in Hosts : processed[h] = 0 /\ dropped[h] = 0
      /\ eventsProcessed = 0 /\ eventsDropped = 0
  BY DEF Init, IdleThread
<1>2. HandsInv
  BY <1>1 DEF HandsInv, Busy
<1>3. \A h : OutOf(h) = {} /\ EventsOf(delivered, h) = {} /\ EventsOf(discarded, h) = {}
  BY <1>1 DEF OutOf, EventsOf
<1>4. Failing = 0 /\ \A h : Uncounted(h) = 0
  BY <1>1, IdleCounts DEF Busy
<1>5. IsFiniteSet(delivered) /\ Cardinality(delivered) = 0
      /\ IsFiniteSet(discarded) /\ Cardinality(discarded) = 0
  BY <1>1, FS_EmptySet
<1>6. \A h : /\ Cardinality(OutOf(h)) = 0 /\ Cardinality(EventsOf(delivered, h)) = 0
             /\ Cardinality(EventsOf(discarded, h)) = 0
  BY <1>3, FS_EmptySet
<1>7. CountInv
  BY <1>1, <1>4, <1>5, <1>6 DEF CountInv
<1>. QED BY <1>2, <1>7

\* The counts of a map's entries and of its events agree.
LEMMA EntriesAreEvents ==
  ASSUME NEW m \in [EventIds -> Pointers],
         \A e, f \in EventIds : m[e] = m[f] /\ m[e] # NoEvent => e = f
  PROVE  /\ IsFiniteSet({m[e] : e \in EventIds} \ {NoEvent})
         /\ Cardinality({e \in EventIds : m[e] # NoEvent})
            = Cardinality({m[e] : e \in EventIds} \ {NoEvent})
<1> DEFINE E == {e \in EventIds : m[e] # NoEvent}
           P == {m[e] : e \in EventIds} \ {NoEvent}
           f == [e \in E |-> m[e]]
<1>1. IsFiniteSet(P)
  <2>1. IsFiniteSet(1..MaxLines)
    BY FS_Interval, ReassemblyAssumption
  <2>2. P \in SUBSET (1..MaxLines)
    OBVIOUS
  <2>. QED BY <2>1, <2>2, FS_Subset
<1>2. f \in Bijection(E, P)
  <2>1. f \in [E -> P] /\ \A x, y \in E : f[x] = f[y] => x = y
    OBVIOUS
  <2>2. \A p \in P : \E x \in E : f[x] = p
    OBVIOUS
  <2>. QED BY <2>1, <2>2 DEF Bijection, Injection, Surjection, IsInjective
<1> HIDE DEF E, P, f
<1>3. IsFiniteSet(E)
  BY <1>1, <1>2, FS_Injection DEF Bijection
<1>4. Cardinality(P) = Cardinality(E)
  BY <1>2, <1>3, FS_Bijection DEF ExistsBijection
<1>. QED BY <1>1, <1>4 DEF E, P

\* The hands and the counters agree in every state.
LEMMA CountInvariant == Spec => [](HandsInv /\ CountInv)
<1>1. IInv /\ IInv' /\ HandsInv /\ [Next]_vars => HandsInv'
  BY HandsStep
<1>2. IInv /\ IInv' /\ ContentInv /\ HandsInv /\ HandsInv' /\ CountInv /\ [Next]_vars => CountInv'
  BY CountStep
<1>. QED BY CountInit, <1>1, <1>2, InductiveInvariant, ContentInvariant, PTL DEF Spec

\* What the statistics calls report adds up in every state in which
\* mutex_insert is free: no event escapes the counters of its host, nor those
\* of the queue, on whichever of the paths it goes.
THEOREM StatisticsAddUp == Spec => []StatsAddUp
<1>1. ASSUME IInv, HandsInv, CountInv PROVE StatsAddUp
  <2>1. eventsProcessed = Cardinality(delivered)
    BY <1>1 DEF CountInv
  <2>2. ASSUME mutexInsert = Free
        PROVE  /\ \A h \in Hosts :
                    Cardinality({o \in DOMAIN heap : heap[o].host = h})
                      + Cardinality(EventsOf(delivered, h)) + Cardinality(EventsOf(discarded, h))
                    = Cardinality({e \in EventIds : auditEvents[h][e] # NoEvent})
                      + processed[h] + dropped[h]
               /\ \A h \in Hosts : dropped[h] = Cardinality(EventsOf(discarded, h))
               /\ eventsDropped = Cardinality(discarded)
    <3>1. /\ \A s \in Threads : thread[s].pc = "idle"
          /\ gcBatch = {}
      BY <1>1, <2>2, NoneBusy
    <3>2. Failing = 0 /\ \A h : Uncounted(h) = 0
      BY <3>1, IdleCounts DEF Busy
    <3>3. ASSUME NEW h \in Hosts
          PROVE  Cardinality({o \in DOMAIN heap : heap[o].host = h})
                   + Cardinality(EventsOf(delivered, h)) + Cardinality(EventsOf(discarded, h))
                 = Cardinality({e \in EventIds : auditEvents[h][e] # NoEvent})
                   + processed[h] + dropped[h]
      <4>1. PICK m : m = auditEvents[h]
        OBVIOUS
      <4>2. PICK P : P = {m[e] : e \in EventIds} \ {NoEvent}
        OBVIOUS
      <4>3. IsFiniteSet(P) /\ Cardinality({e \in EventIds : m[e] # NoEvent}) = Cardinality(P)
        <5>1. m \in [EventIds -> Pointers]
          BY <1>1, <4>1 DEF IInv, TypeOK
        <5>2. \A e, f \in EventIds : m[e] = m[f] /\ m[e] # NoEvent => e = f
          BY <1>1, <4>1 DEF IInv, SingleOwner, MapInjective
        <5>. QED BY <4>2, <5>1, <5>2, EntriesAreEvents
      <4>4. PICK O : O = OutOf(h)
        OBVIOUS
      <4>5. IsFiniteSet(O) /\ Cardinality(O) \in Nat /\ Cardinality(P) \in Nat
        BY <1>1, <4>3, <4>4, OutOfIsFinite, FS_CardinalityType
      <4>6. {o \in DOMAIN heap : heap[o].host = h} = P \cup O /\ P \cap O = {}
        <5>1. P \subseteq PendingObjects /\ P \subseteq DOMAIN heap
              /\ \A o \in P : heap[o].host = h
          BY <1>1, <4>1, <4>2, PendingAlive
        <5>2. \A o \in PendingObjects : heap[o].host = h => o \in P
          <6>1. ASSUME NEW o \in PendingObjects, heap[o].host = h PROVE o \in P
            <7>1. PICK g \in Hosts, e \in EventIds : o = auditEvents[g][e] /\ o # NoEvent
              BY <6>1 DEF PendingObjects
            <7>2. g = h
              BY <1>1, <6>1, <7>1, PendingAlive
            <7>. QED BY <4>1, <4>2, <7>1, <7>2
          <6>. QED BY <6>1
        <5>3. O = {o \in DOMAIN heap \ PendingObjects : heap[o].host = h}
          BY <3>1, <4>4 DEF OutOf
        <5>. QED BY <5>1, <5>2, <5>3
      <4>7. Cardinality(P \cup O) = Cardinality(P) + Cardinality(O)
        <5>1. Cardinality(P \cup O) = Cardinality(P) + Cardinality(O) - Cardinality(P \cap O)
          BY <4>3, <4>5, FS_Union
        <5>2. Cardinality(P \cap O) = 0
          BY <4>6, FS_EmptySet
        <5>. QED BY <4>5, <5>1, <5>2
      <4>8. Cardinality(O) + Cardinality(EventsOf(delivered, h)) + Cardinality(EventsOf(discarded, h))
            = processed[h] + dropped[h]
        BY <1>1, <3>2, <4>4, CountNumbers DEF CountInv
      <4>9. /\ Cardinality(EventsOf(delivered, h)) \in Nat /\ Cardinality(EventsOf(discarded, h)) \in Nat
            /\ processed[h] \in Nat /\ dropped[h] \in Nat
        BY <1>1, CountNumbers
      <4>10. Cardinality({e \in EventIds : auditEvents[h][e] # NoEvent}) = Cardinality(P)
        BY <4>1, <4>3
      <4>11. Cardinality({o \in DOMAIN heap : heap[o].host = h}) = Cardinality(P) + Cardinality(O)
        BY <4>6, <4>7
      <4>. QED BY <4>5, <4>8, <4>9, <4>10, <4>11
    <3>4. eventsDropped = Cardinality(discarded)
      <4>1. Cardinality(discarded) \in Nat
        BY <1>1, FS_CardinalityType DEF CountInv
      <4>. QED BY <1>1, <3>2, <4>1 DEF CountInv
    <3>5. \A h \in Hosts : dropped[h] = Cardinality(EventsOf(discarded, h))
      BY <1>1 DEF CountInv
    <3>. QED BY <3>3, <3>4, <3>5
  <2>. QED BY <2>1, <2>2 DEF StatsAddUp
<1>2. IInv /\ (HandsInv /\ CountInv) => StatsAddUp
  BY <1>1
<1>. QED BY <1>2, InductiveInvariant, CountInvariant, PTL
=============================================================================
