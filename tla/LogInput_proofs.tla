--------------------------- MODULE LogInput_proofs ---------------------------
(***************************************************************************)
(* Theorems about LogInput, for any set of connections, finite or not, any *)
(* lines and any number of them on each connection.                        *)
(***************************************************************************)
EXTENDS LogInput, Subsequences_proofs

\* Whose TCPLineProcessor exists, and who is in the server's set.
LifeInv ==
  /\ \A c \in Connections :
       /\ thread[c] \notin {"none", "closed"} => c \in allocated
       /\ thread[c] \in {"none", "add", "delete", "closed"} => c \notin clientProcessors
  /\ toReport \subseteq clientProcessors
  /\ mt = Free => toReport = {}

\* What a thread that counts is at: its last line, of this outcome.
AtHand(c, o) == received[c] # <<>> /\ Outcome(LineOf(c)) = o
HandInv ==
  \A c \in Connections : \A o \in Outcomes : thread[c] \in {o, Here[o]} => AtHand(c, o)

\* What is counted is finite.
FiniteInv == \A o \in Outcomes : IsFiniteSet(At(o)) /\ IsFiniteSet(AllLines(o))

IInv == TypeOK /\ LifeInv /\ HandInv
-----------------------------------------------------------------------------
(* Types, connections, and what a thread has at hand.                        *)

\* The states of a thread.
LEMMA States ==
  /\ ThreadStates = {"none", "add", "read", "remove", "delete", "closed", "processed", "invalid",
                     "processedHere", "invalidHere"}
  /\ Here["processed"] = "processedHere" /\ Here["invalid"] = "invalidHere"
  /\ After("remove") = "delete" /\ After("delete") = "closed" /\ WhenClosed[1] = "remove"
  /\ Outcomes = {"processed", "invalid"}
<1>1. Here["processed"] = "processedHere" /\ Here["invalid"] = "invalidHere"
  BY DEF Here
<1>2. After("remove") = "delete" /\ After("delete") = "closed" /\ WhenClosed[1] = "remove"
  BY DEF After, WhenClosed
<1>. QED BY <1>1, <1>2 DEF ThreadStates, Outcomes

\* A line is ignored, invalid or processed.
LEMMA OutcomeType ==
  ASSUME NEW l
  PROVE  Outcome(l) \in {"ignored", "invalid", "processed"}
<1>1. CASE l.form = "short"
  BY <1>1 DEF Outcome
<1>2. CASE l.form # "short" /\ SyslogInvalid(l)
  BY <1>2 DEF Outcome
<1>3. CASE l.form # "short" /\ ~SyslogInvalid(l) /\ ~FromAudisp(l)
  BY <1>3 DEF Outcome
<1>4. CASE l.form # "short" /\ ~SyslogInvalid(l) /\ FromAudisp(l)
  BY <1>4 DEF Outcome
<1>. QED BY <1>1, <1>2, <1>3, <1>4

\* A processed line carries no malformed id.
LEMMA ProcessedId ==
  ASSUME NEW l \in Lines, Outcome(l) = "processed"
  PROVE  IdsRead(l) \subseteq EventIds /\ (l.id # NoId => IdsRead(l) = {l.id})
<1>1. l.id # BadId
  <2>. SUFFICES ASSUME l.id = BadId PROVE Outcome(l) # "processed"
    OBVIOUS
  <2>1. HeaderInvalid(l)
    BY DEF HeaderInvalid
  <2>. QED BY <2>1 DEF Outcome
<1>2. l.id \in EventIds \cup {NoId, BadId}
  BY InputAssumption
<1>. QED BY <1>1, <1>2 DEF IdsRead

\* The initial states.
LEMMA IInvInit == Init => IInv
<1> SUFFICES ASSUME Init PROVE IInv
  OBVIOUS
<1>1. TypeOK
  <2>1. MaxLines \in Nat
    BY InputAssumption
  <2>2. Len(<<>>) = 0 /\ <<>> \in Seq(Lines) /\ <<>> \in Seq(Records)
    OBVIOUS
  <2>5. "none" \in ThreadStates
    BY States
  <2>4. ZeroCounts \in Counts
    BY DEF ZeroCounts, Counts
  <2>3. \A c \in Connections : Len(received[c]) <= MaxLines
    BY <2>1, <2>2 DEF Init
  <2>. QED BY <2>2, <2>3, <2>4, <2>5 DEF Init, TypeOK
<1>2. LifeInv
  BY DEF Init, LifeInv
<1>3. HandInv
  BY States DEF Init, HandInv
<1>. QED BY <1>1, <1>2, <1>3 DEF IInv

\* The last element of a sequence.
LEMMA LastOfSeq ==
  ASSUME NEW S, NEW s \in Seq(S), s # <<>>
  PROVE  Len(s) \in DOMAIN s /\ s[Len(s)] \in S
<1>1. Len(s) \in Nat /\ DOMAIN s = 1..Len(s) /\ Len(s) # 0
  OBVIOUS
<1>. QED BY <1>1

\* The record that is inserted for the line at hand.
RecordOf(c, id) ==
  [id |-> id, host |-> HostRead(LineOf(c)), ip |-> IPRead(c, LineOf(c)), of |-> LineOf(c)]

\* It is a record, of a line of c.
LEMMA RecordType ==
  ASSUME TypeOK, HandInv, NEW c \in Connections, thread[c] = "processedHere",
         NEW id \in IdsRead(LineOf(c))
  PROVE  RecordOf(c, id) \in Records /\ LineOf(c) \in Lines /\ Outcome(LineOf(c)) = "processed"
<1>1. received[c] \in Seq(Lines) /\ received[c] # <<>> /\ Outcome(LineOf(c)) = "processed"
  BY States DEF HandInv, AtHand, TypeOK
<1>2. LineOf(c) \in Lines
  BY <1>1, LastOfSeq DEF LineOf
<1>3. id \in EventIds
  BY <1>1, <1>2, ProcessedId
<1>4. PICK l, host, ip : l = LineOf(c) /\ host = HostRead(l) /\ ip = IPRead(c, l)
  OBVIOUS
<1>5. host \in {HostRead(x) : x \in Lines} /\ ip \in {TheirIP} \cup Connections
  BY <1>2, <1>4 DEF IPRead
<1>6. [id |-> id, host |-> host, ip |-> ip, of |-> l] \in Records
  BY <1>2, <1>3, <1>4, <1>5 DEF Records
<1>. QED BY <1>1, <1>2, <1>4, <1>6 DEF RecordOf

\* Counting one more.
LEMMA CountsType ==
  ASSUME NEW x \in Counts, NEW o \in Outcomes
  PROVE  /\ [x EXCEPT ![o] = @ + 1] \in Counts
         /\ \A p \in Outcomes :
              /\ x[p] \in Nat
              /\ [x EXCEPT ![o] = @ + 1][p] = IF p = o THEN x[p] + 1 ELSE x[p]
<1>1. x \in [Outcomes -> Nat] /\ Counts = [Outcomes -> Nat]
  BY DEF Counts, Outcomes
<1>. QED BY <1>1

\* A counter of a connection goes up.
CountedOne(c, o) == client' = [client EXCEPT ![c] = [client[c] EXCEPT ![o] = @ + 1]]

\* The counters stay numbers, and only one of them changes.
LEMMA CountedType ==
  ASSUME TypeOK, NEW c \in Connections, NEW o \in Outcomes, CountedOne(c, o)
  PROVE  /\ client' \in [Connections -> Counts]
         /\ \A d \in Connections, p \in Outcomes :
              /\ client[d][p] \in Nat
              /\ client'[d][p] = client[d][p] + (IF d = c /\ p = o THEN 1 ELSE 0)
<1>1. client \in [Connections -> Counts]
  BY DEF TypeOK
<1>2. PICK y : y = [client[c] EXCEPT ![o] = @ + 1]
  OBVIOUS
<1>3. y \in Counts /\ \A p \in Outcomes :
        client[c][p] \in Nat /\ y[p] = IF p = o THEN client[c][p] + 1 ELSE client[c][p]
  BY <1>1, <1>2, CountsType
<1>4. client' = [client EXCEPT ![c] = y]
  BY <1>2 DEF CountedOne
<1>5. \A d \in Connections, p \in Outcomes : client[d][p] \in Nat
  BY <1>1, CountsType
<1>. QED BY <1>1, <1>3, <1>4, <1>5

\* Both steps that count for a connection do this.
LEMMA CountSteps ==
  ASSUME TypeOK, NEW c \in Connections
  PROVE  (CountInvalid(c) => CountedOne(c, "invalid"))
         /\ (CountAndInsert(c) => CountedOne(c, "processed"))
<1>1. client \in [Connections -> Counts] /\ client[c] \in Counts
  BY DEF TypeOK
<1>2. [client EXCEPT ![c].invalid = @ + 1]
        = [client EXCEPT ![c] = [client[c] EXCEPT !["invalid"] = @ + 1]]
  BY <1>1 DEF Counts
<1>3. [client EXCEPT ![c].processed = @ + 1]
        = [client EXCEPT ![c] = [client[c] EXCEPT !["processed"] = @ + 1]]
  BY <1>1 DEF Counts
<1>. QED BY <1>2, <1>3 DEF CountInvalid, CountAndInsert, CountedOne

\* A thread goes to a state there is.
LEMMA GotoType ==
  ASSUME thread \in [Connections -> ThreadStates], NEW c \in Connections, NEW pc \in ThreadStates,
         Goto(c, pc)
  PROVE  thread' \in [Connections -> ThreadStates]
BY DEF Goto

\* Every step keeps the types.
LEMMA TypeStep == TypeOK /\ HandInv /\ [Next]_vars => TypeOK'
<1> SUFFICES ASSUME TypeOK, HandInv, [Next]_vars PROVE TypeOK'
  OBVIOUS
<1> USE DEF TypeOK
<1>1. ASSUME NEW c \in Connections, NEW l \in Lines, ReceiveLine(c, l) PROVE TypeOK'
  <2>1. Append(received[c], l) \in Seq(Lines) /\ Len(Append(received[c], l)) <= MaxLines
    BY <1>1, InputAssumption DEF ReceiveLine
  <2>2. (IF Outcome(l) = "ignored" THEN "read" ELSE Outcome(l)) \in ThreadStates
    BY States, OutcomeType
  <2>3. thread' \in [Connections -> ThreadStates]
    BY <1>1, <2>2, GotoType DEF ReceiveLine
  <2>. QED BY <1>1, <2>1, <2>3 DEF ReceiveLine
<1>2. ASSUME NEW c \in Connections, CountAndInsert(c) PROVE TypeOK'
  <2>1. PICK id \in IdsRead(LineOf(c)) :
          inserted' = [inserted EXCEPT ![c] = Append(@, RecordOf(c, id))]
    BY <1>2 DEF CountAndInsert, RecordOf
  <2>2. RecordOf(c, id) \in Records
    BY <1>2, RecordType DEF CountAndInsert
  <2>3. inserted' \in [Connections -> Seq(Records)]
    BY <2>1, <2>2
  <2>4. client' \in [Connections -> Counts]
    BY <1>2, CountSteps, CountedType DEF Outcomes
  <2>5. thread' \in [Connections -> ThreadStates]
    BY <1>2, States, GotoType DEF CountAndInsert
  <2>. QED BY <1>2, <2>3, <2>4, <2>5 DEF CountAndInsert
<1>3. ASSUME NEW c \in Connections, CountForServer(c) PROVE TypeOK'
  <2>1. server' \in Counts
    BY <1>3, CountsType, States DEF CountForServer, ServerCounted
  <2>2. thread' \in [Connections -> ThreadStates]
    <3>1. Here[thread[c]] \in ThreadStates
      BY <1>3, States DEF CountForServer
    <3>. QED BY <1>3, <3>1, GotoType DEF CountForServer
  <2>. QED BY <1>3, <2>1, <2>2 DEF CountForServer
<1>4. ASSUME NEW c \in Connections, CountInvalid(c) PROVE TypeOK'
  <2>1. client' \in [Connections -> Counts]
    BY <1>4, CountSteps, CountedType DEF Outcomes
  <2>2. thread' \in [Connections -> ThreadStates]
    BY <1>4, States, GotoType DEF CountInvalid
  <2>. QED BY <1>4, <2>1, <2>2 DEF CountInvalid
<1>5. ASSUME NEW c \in Connections,
             Connect(c) \/ AddClient(c) \/ Close(c) \/ RemClient(c) \/ Delete(c)
      PROVE  TypeOK'
  <2>1. \E pc \in ThreadStates : Goto(c, pc)
    BY <1>5, States DEF Connect, AddClient, Close, RemClient, Delete
  <2>2. thread' \in [Connections -> ThreadStates]
    BY <2>1, GotoType
  <2>. QED BY <1>5, <2>2 DEF Connect, AddClient, Close, RemClient, Delete
<1>6. CASE StatsStep \/ UNCHANGED vars
  BY <1>6 DEF StatsStep, BeginStats, Report, EndStats, vars
<1>. QED BY <1>1, <1>2, <1>3, <1>4, <1>5, <1>6 DEF Next, ConnectionStep
-----------------------------------------------------------------------------
\* Connections live as long as the server knows them.
LEMMA LifeStep == TypeOK /\ LifeInv /\ [Next]_vars => LifeInv'
<1> SUFFICES ASSUME TypeOK, LifeInv, [Next]_vars PROVE LifeInv'
  OBVIOUS
<1>0. thread \in [Connections -> ThreadStates]
  BY DEF TypeOK
<1> USE DEF LifeInv, Goto
<1>1. ASSUME NEW c \in Connections, Connect(c) PROVE LifeInv'
  BY <1>0, <1>1 DEF Connect
<1>2. ASSUME NEW c \in Connections, AddClient(c) PROVE LifeInv'
  BY <1>0, <1>2 DEF AddClient
<1>3. ASSUME NEW c \in Connections, Close(c) PROVE LifeInv'
  BY <1>0, <1>3, States DEF Close
<1>4. ASSUME NEW c \in Connections, RemClient(c) PROVE LifeInv'
  BY <1>0, <1>4, States DEF RemClient
<1>5. ASSUME NEW c \in Connections, Delete(c) PROVE LifeInv'
  BY <1>0, <1>5, States DEF Delete
<1>6. ASSUME NEW c \in Connections, NEW pc \in {"read", "processed", "invalid", "processedHere", "invalidHere"},
             Goto(c, pc), thread[c] \in {"read", "processed", "invalid", "processedHere", "invalidHere"},
             UNCHANGED <<allocated, clientProcessors, toReport, mt>>
      PROVE  LifeInv'
  BY <1>0, <1>6
<1>7. ASSUME NEW c \in Connections, NEW l \in Lines, ReceiveLine(c, l) PROVE LifeInv'
  <2>1. (IF Outcome(l) = "ignored" THEN "read" ELSE Outcome(l)) \in {"read", "processed", "invalid"}
    BY OutcomeType
  <2>. QED BY <1>6, <1>7, <2>1 DEF ReceiveLine
<1>8. ASSUME NEW c \in Connections, CountForServer(c) \/ CountInvalid(c) \/ CountAndInsert(c)
      PROVE  LifeInv'
  BY <1>6, <1>8, States DEF CountForServer, CountInvalid, CountAndInsert
<1>9. CASE StatsStep \/ UNCHANGED vars
  BY <1>9 DEF StatsStep, BeginStats, Report, EndStats, vars, Free, Stats
<1>. QED BY <1>1, <1>2, <1>3, <1>4, <1>5, <1>7, <1>8, <1>9 DEF Next, ConnectionStep

\* The last line of a connection whose thread moves without reading stays.
LEMMA HandStep == TypeOK /\ HandInv /\ [Next]_vars => HandInv'
<1> SUFFICES ASSUME TypeOK, HandInv, [Next]_vars,
                    NEW d \in Connections, NEW o \in Outcomes, thread'[d] \in {o, Here[o]}
             PROVE  AtHand(d, o)'
  BY DEF HandInv
<1>0. thread \in [Connections -> ThreadStates] /\ received \in [Connections -> Seq(Lines)]
  BY DEF TypeOK
<1>1. ASSUME received'[d] = received[d], thread[d] \in {o, Here[o]} PROVE AtHand(d, o)'
  BY <1>1 DEF HandInv, AtHand, LineOf
<1>2. ASSUME NEW c \in Connections, NEW l \in Lines, ReceiveLine(c, l) PROVE AtHand(d, o)'
  <2>1. CASE d = c
    <3>1. received'[d] = Append(received[d], l) /\ thread'[d] \in {"read", Outcome(l)}
      BY <1>0, <1>2, <2>1 DEF ReceiveLine, Goto
    <3>2. Outcome(l) = o
      BY <3>1, States, OutcomeType
    <3>3. Append(received[d], l) # <<>> /\ Append(received[d], l)[Len(Append(received[d], l))] = l
      BY <1>0
    <3>. QED BY <3>1, <3>2, <3>3 DEF AtHand, LineOf
  <2>2. CASE d # c
    BY <1>0, <1>1, <1>2, <2>2 DEF ReceiveLine, Goto
  <2>. QED BY <2>1, <2>2
<1>3. ASSUME NEW c \in Connections, CountForServer(c) PROVE AtHand(d, o)'
  BY <1>0, <1>1, <1>3, States DEF CountForServer, Goto
<1>4. ASSUME NEW c \in Connections,
             \/ Connect(c) \/ AddClient(c) \/ Close(c) \/ RemClient(c) \/ Delete(c)
             \/ CountInvalid(c) \/ CountAndInsert(c)
      PROVE  AtHand(d, o)'
  <2>1. received' = received
    BY <1>4 DEF Connect, AddClient, Close, RemClient, Delete, CountInvalid, CountAndInsert
  <2>2. \E pc \in {"add", "read", "remove", "delete", "closed"} : Goto(c, pc)
    BY <1>4, States DEF Connect, AddClient, Close, RemClient, Delete, CountInvalid, CountAndInsert
  <2>3. d # c
    BY <1>0, <2>2, States DEF Goto
  <2>4. thread'[d] = thread[d]
    BY <1>0, <2>2, <2>3 DEF Goto
  <2>. QED BY <1>1, <2>1, <2>4
<1>5. CASE StatsStep \/ UNCHANGED vars
  BY <1>1, <1>5 DEF StatsStep, BeginStats, Report, EndStats, vars
<1>. QED BY <1>2, <1>3, <1>4, <1>5 DEF Next, ConnectionStep

\* Types, lives and lines at hand, in every state.
LEMMA InputInvariant == Spec => []IInv
<1>1. IInv /\ [Next]_vars => IInv'
  BY TypeStep, LifeStep, HandStep DEF IInv
<1>. QED BY <1>1, IInvInit, PTL DEF Spec

\* Type correctness of the inputs.
THEOREM TypeCorrect == Spec => []TypeOK
<1>1. IInv => TypeOK
  BY DEF IInv
<1>. QED BY <1>1, InputInvariant, PTL

\* The statistics call never visits a connection that was deleted.
THEOREM LiveClients == Spec => []StatsMeetLiveClients
<1>1. IInv => StatsMeetLiveClients
  BY DEF IInv, LifeInv, TypeOK, StatsMeetLiveClients
<1>. QED BY <1>1, InputInvariant, PTL
-----------------------------------------------------------------------------
(* The counters.                                                             *)

CountInv == CountersAgree /\ FiniteInv

\* Lines of one outcome, before and after one more line.
LEMMA LinesGrow ==
  ASSUME TypeOK, NEW c \in Connections, NEW l \in Lines, ReceiveLine(c, l), NEW o \in Outcomes
  PROVE  /\ LinesOf(c, o)' = IF Outcome(l) = o THEN LinesOf(c, o) \cup {Len(received[c]) + 1}
                                               ELSE LinesOf(c, o)
         /\ \A d \in Connections \ {c} : LinesOf(d, o)' = LinesOf(d, o)
         /\ Len(received[c]) + 1 \notin LinesOf(c, o) /\ Len(received[c]) + 1 \in 1..MaxLines
<1>1. PICK s \in Seq(Lines) : s = received[c] /\ Len(s) < MaxLines
  BY DEF TypeOK, ReceiveLine
<1>2. received' = [received EXCEPT ![c] = Append(s, l)] /\ received \in [Connections -> Seq(Lines)]
  BY <1>1 DEF ReceiveLine, TypeOK
<1>3. PICK m : m = Len(s) + 1
  OBVIOUS
<1>4. /\ m \in Nat /\ m \notin DOMAIN s /\ m \in 1..MaxLines
      /\ DOMAIN Append(s, l) = DOMAIN s \cup {m}
      /\ Append(s, l)[m] = l /\ \A k \in DOMAIN s : Append(s, l)[k] = s[k]
  BY <1>1, <1>3, InputAssumption
<1>5. LinesOf(c, o)' = {k \in DOMAIN s \cup {m} : Outcome(Append(s, l)[k]) = o}
  BY <1>2, <1>4 DEF LinesOf
<1>6. LinesOf(c, o) = {k \in DOMAIN s : Outcome(s[k]) = o}
  BY <1>1 DEF LinesOf
<1>7. \A d \in Connections \ {c} : received'[d] = received[d]
  BY <1>2
<1>8. \A d \in Connections \ {c} : LinesOf(d, o)' = LinesOf(d, o)
  BY <1>7 DEF LinesOf
<1>9. LinesOf(c, o)' = IF Outcome(l) = o THEN LinesOf(c, o) \cup {m} ELSE LinesOf(c, o)
  BY <1>4, <1>5, <1>6
<1>. QED BY <1>1, <1>3, <1>4, <1>6, <1>8, <1>9

\* The same for the lines of all connections.
LEMMA AllLinesGrow ==
  ASSUME TypeOK, NEW c \in Connections, NEW l \in Lines, ReceiveLine(c, l), NEW o \in Outcomes
  PROVE  \E p : /\ p \notin AllLines(o)
                /\ AllLines(o)' = IF Outcome(l) = o THEN AllLines(o) \cup {p} ELSE AllLines(o)
<1>1. PICK m : m = Len(received[c]) + 1
  OBVIOUS
<1>2. PICK p : p = <<c, m>>
  OBVIOUS
<1>3. /\ m \notin LinesOf(c, o) /\ m \in 1..MaxLines
      /\ LinesOf(c, o)' = IF Outcome(l) = o THEN LinesOf(c, o) \cup {m} ELSE LinesOf(c, o)
      /\ \A d \in Connections \ {c} : LinesOf(d, o)' = LinesOf(d, o)
  BY <1>1, LinesGrow
<1>4. p \in Connections \X (1..MaxLines) /\ p[1] = c /\ p[2] = m
  BY <1>2, <1>3
<1>5. p \notin AllLines(o)
  BY <1>3, <1>4 DEF AllLines
<1>6. ASSUME NEW q \in Connections \X (1..MaxLines)
      PROVE  q[2] \in LinesOf(q[1], o)'
               <=> q[2] \in LinesOf(q[1], o) \/ (Outcome(l) = o /\ q = p)
  <2>1. PICK d \in Connections, k \in 1..MaxLines : q = <<d, k>>
    OBVIOUS
  <2>2. q[1] = d /\ q[2] = k /\ (q = p <=> d = c /\ k = m)
    BY <1>2, <2>1
  <2>. QED BY <1>3, <2>1, <2>2
<1>7. AllLines(o)' = {q \in Connections \X (1..MaxLines) : q[2] \in LinesOf(q[1], o)'}
  BY DEF AllLines
<1>8. AllLines(o)' = IF Outcome(l) = o THEN AllLines(o) \cup {p} ELSE AllLines(o)
  BY <1>4, <1>6, <1>7 DEF AllLines
<1>. QED BY <1>5, <1>8

\* Lines stay as they are in every other step.
LEMMA LinesStay ==
  ASSUME received' = received, NEW o
  PROVE  AllLines(o)' = AllLines(o) /\ \A d \in Connections : LinesOf(d, o)' = LinesOf(d, o)
BY DEF AllLines, LinesOf

\* Who is at a state, when one thread moves.
LEMMA AtMoves ==
  ASSUME thread \in [Connections -> ThreadStates], NEW c \in Connections, NEW pc, Goto(c, pc), NEW o
  PROVE  /\ At(o)' = (At(o) \ {c}) \cup (IF pc = o THEN {c} ELSE {})
         /\ (c \in At(o) <=> thread[c] = o)
         /\ thread'[c] = pc /\ \A d \in Connections \ {c} : thread'[d] = thread[d]
BY DEF At, Goto

\* What the counters are, for one outcome.
Agree(o) ==
  /\ IsFiniteSet(At(o)) /\ IsFiniteSet(AllLines(o))
  /\ server[o] + Cardinality(At(o)) = Cardinality(AllLines(o))
  /\ \A d \in Connections :
       client[d][o] + (IF thread[d] \in {o, Here[o]} THEN 1 ELSE 0) = Cardinality(LinesOf(d, o))

\* The invariant, outcome by outcome.
LEMMA AgreeForEach == CountInv <=> \A o \in Outcomes : Agree(o)
BY DEF CountInv, CountersAgree, FiniteInv, Agree

\* At first nothing is counted.
LEMMA CountInit == Init => CountInv
<1> SUFFICES ASSUME Init, NEW o \in Outcomes PROVE Agree(o)
  BY AgreeForEach
<1>1. received = [c \in Connections |-> <<>>] /\ thread = [c \in Connections |-> "none"]
      /\ server = ZeroCounts /\ client = [c \in Connections |-> ZeroCounts]
  BY DEF Init
<1>2. \A d \in Connections : LinesOf(d, o) = {}
  BY <1>1 DEF LinesOf
<1>3. At(o) = {}
  BY <1>1 DEF At, Outcomes
<1>4. AllLines(o) = {}
  BY <1>2 DEF AllLines
<1>5. server[o] = 0 /\ \A d \in Connections : client[d][o] = 0 /\ thread[d] \notin {o, Here[o]}
  <2>1. ZeroCounts["processed"] = 0 /\ ZeroCounts["invalid"] = 0
    BY DEF ZeroCounts
  <2>2. ZeroCounts[o] = 0 /\ "none" \notin {o, Here[o]}
    BY <2>1, States
  <2>. QED BY <1>1, <2>2
<1>. QED BY <1>2, <1>3, <1>4, <1>5, FS_EmptySet DEF Agree

\* A line is received: one more line, and one more thread that has to count it.
LEMMA CountReceive ==
  ASSUME TypeOK, NEW c \in Connections, NEW l \in Lines, ReceiveLine(c, l),
         NEW o \in Outcomes, Agree(o)
  PROVE  Agree(o)'
<1>1. thread \in [Connections -> ThreadStates] /\ thread[c] = "read"
      /\ server' = server /\ client' = client
      /\ Goto(c, IF Outcome(l) = "ignored" THEN "read" ELSE Outcome(l))
  BY DEF TypeOK, ReceiveLine
<1>2. PICK pc : pc = IF Outcome(l) = "ignored" THEN "read" ELSE Outcome(l)
  OBVIOUS
<1>3. /\ (pc = o <=> Outcome(l) = o) /\ (pc \in {o, Here[o]} <=> Outcome(l) = o)
      /\ "read" \notin {o, Here[o]}
  BY <1>2, States, OutcomeType
<1>4. /\ At(o)' = (At(o) \ {c}) \cup (IF pc = o THEN {c} ELSE {}) /\ c \notin At(o)
      /\ thread'[c] = pc /\ \A d \in Connections \ {c} : thread'[d] = thread[d]
  BY <1>1, <1>2, <1>3, AtMoves
<1>5. PICK p : /\ p \notin AllLines(o)
               /\ AllLines(o)' = IF Outcome(l) = o THEN AllLines(o) \cup {p} ELSE AllLines(o)
  BY AllLinesGrow
<1>6. PICK A, B : A = At(o) /\ B = AllLines(o)
  OBVIOUS
<1>7. IsFiniteSet(A) /\ IsFiniteSet(B) /\ Cardinality(A) \in Nat /\ Cardinality(B) \in Nat
      /\ server[o] + Cardinality(A) = Cardinality(B) /\ server[o] \in Nat
  BY <1>6, FS_CardinalityType, CountsType DEF Agree, TypeOK
<1>8. /\ IsFiniteSet(A \cup {c}) /\ Cardinality(A \cup {c}) = Cardinality(A) + 1
      /\ IsFiniteSet(B \cup {p}) /\ Cardinality(B \cup {p}) = Cardinality(B) + 1
  BY <1>4, <1>5, <1>6, <1>7, FS_AddElement
<1>9. /\ At(o)' = IF Outcome(l) = o THEN A \cup {c} ELSE A
      /\ AllLines(o)' = IF Outcome(l) = o THEN B \cup {p} ELSE B
  BY <1>3, <1>4, <1>5, <1>6
<1>10. /\ IsFiniteSet(At(o)') /\ IsFiniteSet(AllLines(o)')
       /\ server'[o] + Cardinality(At(o)') = Cardinality(AllLines(o)')
  BY <1>1, <1>7, <1>8, <1>9
<1>11. ASSUME NEW d \in Connections
       PROVE  client'[d][o] + (IF thread'[d] \in {o, Here[o]} THEN 1 ELSE 0)
                = Cardinality(LinesOf(d, o)')
  <2>1. client[d][o] + (IF thread[d] \in {o, Here[o]} THEN 1 ELSE 0) = Cardinality(LinesOf(d, o))
        /\ client[d][o] \in Nat
    BY CountsType DEF Agree, TypeOK
  <2>2. CASE d # c
    <3>1. LinesOf(d, o)' = LinesOf(d, o)
      BY <2>2, LinesGrow
    <3>. QED BY <1>1, <1>4, <2>1, <2>2, <3>1
  <2>3. CASE d = c
    <3>1. PICK L, m : L = LinesOf(c, o) /\ m = Len(received[c]) + 1
      OBVIOUS
    <3>2. m \notin L /\ LinesOf(c, o)' = IF Outcome(l) = o THEN L \cup {m} ELSE L
      BY <3>1, LinesGrow
    <3>3. IsFiniteSet(L)
      <4>1. received[c] \in Seq(Lines) /\ L \in SUBSET DOMAIN received[c]
        BY <3>1 DEF TypeOK, LinesOf
      <4>. QED BY <4>1, PositionsFinite
    <3>4. Cardinality(L \cup {m}) = Cardinality(L) + 1 /\ Cardinality(L) \in Nat
      BY <3>2, <3>3, FS_AddElement, FS_CardinalityType
    <3>5. client[c][o] = Cardinality(L)
      BY <1>1, <1>3, <2>1, <2>3, <3>1
    <3>. QED BY <1>1, <1>3, <1>4, <2>3, <3>2, <3>4, <3>5
  <2>. QED BY <2>2, <2>3
<1>. QED BY <1>10, <1>11 DEF Agree

\* The thread of c goes to pc without reading; for outcome o the server counts
\* a more, and the connection b more.
Moves(c, pc, o, a, b) ==
  /\ Goto(c, pc) /\ received' = received
  /\ server'[o] = server[o] + a
  /\ client'[c][o] = client[c][o] + b
  /\ \A d \in Connections \ {c} : client'[d][o] = client[d][o]

\* Who counts was at the state that says so.
InTurn(pc, next, o, a, b) ==
  /\ pc = o <=> a = 1
  /\ next # o
  /\ pc \in {o, Here[o]} <=> next \in {o, Here[o]} \/ b = 1
  /\ b = 1 => next \notin {o, Here[o]}

\* The states in turn.
LEMMA Turns ==
  ASSUME NEW o \in Outcomes, NEW p \in Outcomes
  PROVE  /\ InTurn(p, Here[p], o, IF p = o THEN 1 ELSE 0, 0)
         /\ InTurn(Here[p], "read", o, 0, IF p = o THEN 1 ELSE 0)
         /\ \A pc, next \in {"none", "add", "read", "remove", "delete", "closed"} :
              InTurn(pc, next, o, 0, 0)
<1>1. o \in {"processed", "invalid"} /\ p \in {"processed", "invalid"}
      /\ Here["processed"] = "processedHere" /\ Here["invalid"] = "invalidHere"
  BY States
<1>2. PICK h, g : h = Here[p] /\ g = Here[o]
  OBVIOUS
<1>3. /\ h \in {"processedHere", "invalidHere"} /\ g \in {"processedHere", "invalidHere"}
      /\ (h = g <=> p = o)
  BY <1>1, <1>2
<1>4. /\ h # o /\ p # g /\ "read" # o /\ "read" # g
      /\ \A pc \in {"none", "add", "read", "remove", "delete", "closed"} : pc # o /\ pc # g
  BY <1>1, <1>3
<1>5. InTurn(p, h, o, IF p = o THEN 1 ELSE 0, 0)
  <2>1. CASE p = o
    BY <1>2, <1>3, <1>4, <2>1 DEF InTurn
  <2>2. CASE p # o
    BY <1>2, <1>3, <1>4, <2>2 DEF InTurn
  <2>. QED BY <2>1, <2>2
<1>6. InTurn(h, "read", o, 0, IF p = o THEN 1 ELSE 0)
  <2>1. CASE p = o
    BY <1>2, <1>3, <1>4, <2>1 DEF InTurn
  <2>2. CASE p # o
    BY <1>2, <1>3, <1>4, <2>2 DEF InTurn
  <2>. QED BY <2>1, <2>2
<1>7. \A pc, next \in {"none", "add", "read", "remove", "delete", "closed"} :
        InTurn(pc, next, o, 0, 0)
  BY <1>2, <1>4 DEF InTurn
<1>. QED BY <1>2, <1>5, <1>6, <1>7

\* Such a step keeps the counters in agreement.
LEMMA CountMove ==
  ASSUME TypeOK, NEW c \in Connections, NEW o \in Outcomes, Agree(o),
         NEW pc, NEW a \in {0, 1}, NEW b \in {0, 1},
         Moves(c, pc, o, a, b), InTurn(thread[c], pc, o, a, b)
  PROVE  Agree(o)'
<1> USE DEF Moves, InTurn
<1>0. thread \in [Connections -> ThreadStates]
  BY DEF TypeOK
<1>1. AllLines(o)' = AllLines(o) /\ \A d \in Connections : LinesOf(d, o)' = LinesOf(d, o)
  BY LinesStay
<1>2. /\ At(o)' = At(o) \ {c} /\ (c \in At(o) <=> thread[c] = o)
      /\ thread'[c] = pc /\ \A d \in Connections \ {c} : thread'[d] = thread[d]
  BY <1>0, AtMoves
<1>3. PICK A, B : A = At(o) /\ B = AllLines(o)
  OBVIOUS
<1>4. IsFiniteSet(A) /\ IsFiniteSet(B) /\ Cardinality(A) \in Nat
      /\ server[o] + Cardinality(A) = Cardinality(B) /\ server[o] \in Nat
  BY <1>3, FS_CardinalityType, CountsType DEF Agree, TypeOK
<1>5. /\ IsFiniteSet(A \ {c})
      /\ Cardinality(A \ {c}) = IF c \in A THEN Cardinality(A) - 1 ELSE Cardinality(A)
  BY <1>4, FS_RemoveElement
<1>6. /\ IsFiniteSet(At(o)') /\ IsFiniteSet(AllLines(o)')
      /\ server'[o] + Cardinality(At(o)') = Cardinality(AllLines(o)')
  BY <1>1, <1>2, <1>3, <1>4, <1>5
<1>7. ASSUME NEW d \in Connections
      PROVE  client'[d][o] + (IF thread'[d] \in {o, Here[o]} THEN 1 ELSE 0)
               = Cardinality(LinesOf(d, o)')
  <2>1. client[d][o] + (IF thread[d] \in {o, Here[o]} THEN 1 ELSE 0) = Cardinality(LinesOf(d, o))
        /\ client[d][o] \in Nat
    BY CountsType DEF Agree, TypeOK
  <2>2. CASE d # c
    BY <1>1, <1>2, <2>1, <2>2
  <2>3. CASE d = c
    BY <1>1, <1>2, <2>1, <2>3
  <2>. QED BY <2>2, <2>3
<1>. QED BY <1>6, <1>7 DEF Agree

\* Every step keeps the counters in agreement.
LEMMA CountStep == TypeOK /\ CountInv /\ [Next]_vars => CountInv'
<1> SUFFICES ASSUME TypeOK, CountInv, [Next]_vars PROVE CountInv'
  OBVIOUS
<1>0. \A o \in Outcomes : Agree(o)
  BY AgreeForEach
<1>a. ASSUME \A o \in Outcomes : Agree(o)' PROVE CountInv'
  BY <1>a DEF CountInv, CountersAgree, FiniteInv, Agree
<1> SUFFICES ASSUME NEW o \in Outcomes PROVE Agree(o)'
  BY <1>a
<1>1. Agree(o) /\ server[o] \in Nat /\ (\A d \in Connections : client[d][o] \in Nat)
      /\ thread \in [Connections -> ThreadStates]
  BY <1>0, CountsType DEF TypeOK
<1>2. ASSUME NEW c \in Connections, NEW l \in Lines, ReceiveLine(c, l) PROVE Agree(o)'
  BY <1>1, <1>2, CountReceive
<1>3. ASSUME NEW c \in Connections, CountForServer(c) PROVE Agree(o)'
  <2>1. PICK p \in Outcomes : p = thread[c]
    BY <1>3 DEF CountForServer, Outcomes
  <2>2. PICK a : a = IF p = o THEN 1 ELSE 0
    OBVIOUS
  <2>3. server' = [server EXCEPT ![p] = @ + 1] /\ Goto(c, Here[p]) /\ received' = received
        /\ client' = client
    BY <1>3, <2>1 DEF CountForServer, ServerCounted
  <2>4. server'[o] = server[o] + a
    <3>1. server \in Counts
      BY DEF TypeOK
    <3>. QED BY <1>1, <2>2, <2>3, <3>1, CountsType
  <2>5. InTurn(thread[c], Here[p], o, a, 0) /\ a \in {0, 1}
    BY <2>1, <2>2, Turns
  <2>6. Moves(c, Here[p], o, a, 0)
    BY <1>1, <2>3, <2>4 DEF Moves
  <2>. QED BY <1>1, <2>5, <2>6, CountMove
<1>4. ASSUME NEW c \in Connections, NEW p \in Outcomes, CountedOne(c, p), thread[c] = Here[p],
             Goto(c, "read"), UNCHANGED <<server, received>>
      PROVE  Agree(o)'
  <2>1. PICK b : b = IF p = o THEN 1 ELSE 0
    OBVIOUS
  <2>2. client'[c][o] = client[c][o] + b /\ \A d \in Connections \ {c} : client'[d][o] = client[d][o]
    BY <1>1, <1>4, <2>1, CountedType
  <2>3. InTurn(thread[c], "read", o, 0, b) /\ b \in {0, 1}
    BY <1>4, <2>1, Turns
  <2>4. Moves(c, "read", o, 0, b)
    BY <1>1, <1>4, <2>2 DEF Moves
  <2>. QED BY <1>1, <2>3, <2>4, CountMove
<1>5. ASSUME NEW c \in Connections, CountInvalid(c) \/ CountAndInsert(c) PROVE Agree(o)'
  <2>1. CASE CountInvalid(c)
    <3>1. CountedOne(c, "invalid") /\ "invalid" \in Outcomes /\ thread[c] = Here["invalid"]
          /\ Goto(c, "read") /\ UNCHANGED <<server, received>>
      BY <2>1, CountSteps, States DEF CountInvalid
    <3>. QED BY <1>4, <3>1
  <2>2. CASE CountAndInsert(c)
    <3>1. CountedOne(c, "processed") /\ "processed" \in Outcomes /\ thread[c] = Here["processed"]
          /\ Goto(c, "read") /\ UNCHANGED <<server, received>>
      BY <2>2, CountSteps, States DEF CountAndInsert
    <3>. QED BY <1>4, <3>1
  <2>. QED BY <1>5, <2>1, <2>2
<1>6. ASSUME NEW c \in Connections,
             Connect(c) \/ AddClient(c) \/ Close(c) \/ RemClient(c) \/ Delete(c)
      PROVE  Agree(o)'
  <2>1. PICK pc \in {"add", "read", "remove", "delete", "closed"} : Goto(c, pc)
    BY <1>6, States DEF Connect, AddClient, Close, RemClient, Delete
  <2>2. UNCHANGED <<server, client, received>>
        /\ thread[c] \in {"none", "add", "read", "remove", "delete"}
    BY <1>6 DEF Connect, AddClient, Close, RemClient, Delete
  <2>3. InTurn(thread[c], pc, o, 0, 0)
    BY <2>2, Turns
  <2>4. Moves(c, pc, o, 0, 0)
    BY <1>1, <2>1, <2>2 DEF Moves
  <2>. QED BY <1>1, <2>3, <2>4, CountMove
<1>7. CASE StatsStep \/ UNCHANGED vars
  <2>1. UNCHANGED <<thread, server, client, received>>
    BY <1>7 DEF StatsStep, BeginStats, Report, EndStats, vars
  <2>2. At(o)' = At(o) /\ AllLines(o)' = AllLines(o)
        /\ \A d \in Connections : LinesOf(d, o)' = LinesOf(d, o)
    BY <2>1, LinesStay DEF At
  <2>. QED BY <1>1, <2>1, <2>2 DEF Agree
<1>. QED BY <1>2, <1>3, <1>5, <1>6, <1>7 DEF Next, ConnectionStep

\* Counters and types, in every state.
LEMMA CountInvariant == Spec => [](IInv /\ CountInv)
<1>1. IInv /\ CountInv /\ [Next]_vars => (IInv /\ CountInv)'
  BY TypeStep, LifeStep, HandStep, CountStep DEF IInv
<1>. QED BY <1>1, IInvInit, CountInit, PTL DEF Spec

\* A line is counted once, by its connection and by the server, whatever the
\* other connections do meanwhile.
THEOREM Counted == Spec => []CountersAgree
<1>1. IInv /\ CountInv => CountersAgree
  BY DEF CountInv
<1>. QED BY <1>1, CountInvariant, PTL
-----------------------------------------------------------------------------
(* What is inserted.                                                         *)

\* The lines of c that are inserted, in their order.
Audit(c) == Chosen(received[c], LinesOf(c, "processed"))

\* What is inserted for line l of c.
AsRead(r, l, c) ==
  /\ r.of = l
  /\ l.id # NoId => r.id = l.id
  /\ r.host = IF l.node # NoName THEN l.node ELSE l.host
  /\ r.ip = IF l.form = "syslogIP" THEN TheirIP ELSE c

\* The property for one connection.
Inserted(c) ==
  /\ Len(inserted[c]) = client[c].processed
  /\ \A k \in DOMAIN inserted[c] : AsRead(inserted[c][k], Audit(c)[k], c)

\* The property, connection by connection.
LEMMA InsertedForEach == InsertedAsRead <=> \A c \in Connections : Inserted(c)
BY DEF InsertedAsRead, Inserted, Audit, AsRead

\* What is to be inserted for c, and how much of it was.
LEMMA AuditLength ==
  ASSUME TypeOK, CountInv, NEW c \in Connections
  PROVE  /\ received[c] \in Seq(Lines) /\ LinesOf(c, "processed") \in SUBSET DOMAIN received[c]
         /\ Audit(c) \in Seq(Lines) /\ Len(Audit(c)) \in Nat /\ client[c].processed \in Nat
         /\ Len(Audit(c)) = client[c].processed
              + (IF thread[c] \in {"processed", "processedHere"} THEN 1 ELSE 0)
<1>1. received[c] \in Seq(Lines) /\ LinesOf(c, "processed") \in SUBSET DOMAIN received[c]
  BY DEF TypeOK, LinesOf
<1>2. Audit(c) \in Seq(Lines) /\ Len(Audit(c)) = Cardinality(LinesOf(c, "processed"))
  BY <1>1, ChosenType DEF Audit
<1>3. client[c]["processed"] + (IF thread[c] \in {"processed", "processedHere"} THEN 1 ELSE 0)
        = Cardinality(LinesOf(c, "processed"))
  BY States DEF CountInv, CountersAgree
<1>4. client[c]["processed"] \in Nat
  BY CountsType, States DEF TypeOK
<1>5. Len(Audit(c)) \in Nat
  BY <1>2
<1>. QED BY <1>1, <1>2, <1>3, <1>4, <1>5

\* A line that is received comes behind what is to be inserted, or not at all.
LEMMA InsertedReceive ==
  ASSUME TypeOK, CountInv, NEW c \in Connections, NEW l \in Lines, ReceiveLine(c, l), Inserted(c)
  PROVE  Inserted(c)'
<1>1. /\ received[c] \in Seq(Lines) /\ LinesOf(c, "processed") \in SUBSET DOMAIN received[c]
      /\ Audit(c) \in Seq(Lines) /\ Len(Audit(c)) = client[c].processed
      /\ inserted' = inserted /\ client' = client /\ received'[c] = Append(received[c], l)
  <2>1. thread[c] = "read" /\ inserted' = inserted /\ client' = client
        /\ received'[c] = Append(received[c], l)
    BY DEF ReceiveLine, TypeOK
  <2>. QED BY <2>1, AuditLength
<1>2. PICK s, D : s = received[c] /\ D = LinesOf(c, "processed")
  OBVIOUS
<1>3. LinesOf(c, "processed")' = D \/ LinesOf(c, "processed")' = D \cup {Len(s) + 1}
  BY <1>2, LinesGrow, States
<1>4. Chosen(s, D) = Audit(c)
  BY <1>2 DEF Audit
<1>5. Chosen(Append(s, l), D) = Audit(c)
      /\ Chosen(Append(s, l), D \cup {Len(s) + 1}) = Append(Audit(c), l)
  <2>1. s \in Seq(Lines) /\ D \in SUBSET DOMAIN s
    BY <1>1, <1>2
  <2>2. Chosen(Append(s, l), D) = Chosen(s, D)
    BY <2>1, ChosenAppend
  <2>3. Chosen(Append(s, l), D \cup {Len(s) + 1}) = Append(Chosen(s, D), l)
    BY <2>1, ChosenAppend
  <2>. QED BY <1>4, <2>2, <2>3
<1>6. Audit(c)' = Audit(c) \/ Audit(c)' = Append(Audit(c), l)
  BY <1>1, <1>2, <1>3, <1>5 DEF Audit
<1>7. inserted[c] \in Seq(Records) /\ DOMAIN inserted[c] = 1..client[c].processed
  BY DEF TypeOK, Inserted
<1>8. \A k \in DOMAIN inserted[c] : Append(Audit(c), l)[k] = Audit(c)[k]
  BY <1>1, <1>7
<1>9. \A k \in DOMAIN inserted[c] : Audit(c)'[k] = Audit(c)[k]
  BY <1>6, <1>8
<1>. QED BY <1>1, <1>9 DEF Inserted

\* The insertion is that of the last line, which is the first not inserted.
LEMMA InsertedInsert ==
  ASSUME TypeOK, CountInv, HandInv, NEW c \in Connections, CountAndInsert(c), Inserted(c)
  PROVE  Inserted(c)'
<1>1. PICK id \in IdsRead(LineOf(c)) :
        inserted' = [inserted EXCEPT ![c] = Append(@, RecordOf(c, id))]
  BY DEF CountAndInsert, RecordOf
<1>2. received' = received /\ thread[c] = "processedHere" /\ CountedOne(c, "processed")
  BY CountSteps DEF CountAndInsert
<1>3. RecordOf(c, id) \in Records /\ LineOf(c) \in Lines /\ Outcome(LineOf(c)) = "processed"
  BY <1>2, RecordType
<1>4. received[c] \in Seq(Lines) /\ received[c] # <<>>
  BY <1>2, States DEF TypeOK, HandInv, AtHand
<1>5. PICK s, D : s = received[c] /\ D = LinesOf(c, "processed")
  OBVIOUS
<1>6. s \in Seq(Lines) /\ D \in SUBSET DOMAIN s /\ Len(s) \in D /\ s[Len(s)] = LineOf(c)
  BY <1>3, <1>4, <1>5, LastOfSeq DEF LinesOf, LineOf
<1>7. Audit(c)[Cardinality(D)] = LineOf(c)
  BY <1>5, <1>6, ChosenLast DEF Audit
<1>8. client[c].processed \in Nat /\ Cardinality(D) = client[c].processed + 1
  <2>1. Len(Audit(c)) = Cardinality(D)
    BY <1>5, <1>6, ChosenType DEF Audit
  <2>. QED BY <1>2, <2>1, AuditLength
<1>9. PICK n \in Nat, r \in {RecordOf(c, id)} : n = client[c].processed
  BY <1>8
<1>10. Audit(c)' = Audit(c)
  BY <1>2, LinesStay DEF Audit
<1>11. inserted[c] \in Seq(Records) /\ Len(inserted[c]) = n /\ inserted'[c] = Append(inserted[c], r)
  BY <1>1, <1>9 DEF TypeOK, Inserted
<1>12. client'[c].processed = n + 1
  BY <1>2, <1>9, CountedType, States
<1>13. AsRead(r, LineOf(c), c)
  <2>1. PICK l : l = LineOf(c)
    OBVIOUS
  <2>2. l \in Lines /\ (l.id # NoId => id = l.id)
    BY <1>3, <2>1, ProcessedId
  <2>3. r = [id |-> id, host |-> HostRead(l), ip |-> IPRead(c, l), of |-> l]
    BY <1>9, <2>1 DEF RecordOf
  <2>4. AsRead(r, l, c)
    BY <2>2, <2>3 DEF AsRead, HostRead, IPRead
  <2>. QED BY <2>1, <2>4
<1>14. \A k \in 1..n : AsRead(inserted[c][k], Audit(c)[k], c)
  BY <1>11 DEF Inserted
<1>15. PICK q \in Seq(Records) : q = inserted[c] /\ Len(q) = n
  BY <1>11
<1>16. /\ Len(Append(q, r)) = n + 1 /\ DOMAIN Append(q, r) = 1..(n + 1)
       /\ Append(q, r)[n + 1] = r /\ \A k \in 1..n : Append(q, r)[k] = q[k]
  BY <1>3, <1>9, <1>15
<1>17. ASSUME NEW k \in 1..(n + 1) PROVE AsRead(Append(q, r)[k], Audit(c)[k], c)
  <2>1. CASE k = n + 1
    BY <1>7, <1>8, <1>9, <1>13, <1>16, <2>1
  <2>2. CASE k # n + 1
    <3>1. k \in 1..n
      BY <2>2
    <3>. QED BY <1>14, <1>15, <1>16, <3>1
  <2>. QED BY <2>1, <2>2
<1>. QED BY <1>10, <1>11, <1>12, <1>15, <1>16, <1>17 DEF Inserted

\* A connection that neither receives nor inserts keeps the property.
LEMMA InsertedStays ==
  ASSUME NEW d \in Connections, Inserted(d), received'[d] = received[d], inserted'[d] = inserted[d],
         client'[d].processed = client[d].processed
  PROVE  Inserted(d)'
<1>1. LinesOf(d, "processed")' = LinesOf(d, "processed")
  BY DEF LinesOf
<1>2. Audit(d)' = Audit(d)
  BY <1>1 DEF Audit
<1>. QED BY <1>2 DEF Inserted

\* Every step keeps it.
LEMMA InsertedStep == IInv /\ CountInv /\ InsertedAsRead /\ [Next]_vars => InsertedAsRead'
<1> SUFFICES ASSUME IInv, CountInv, InsertedAsRead, [Next]_vars PROVE InsertedAsRead'
  OBVIOUS
<1>a. ASSUME \A d \in Connections : Inserted(d)' PROVE InsertedAsRead'
  BY <1>a DEF InsertedAsRead, Inserted, Audit, AsRead
<1> SUFFICES ASSUME NEW d \in Connections PROVE Inserted(d)'
  BY <1>a
<1>0. /\ TypeOK /\ HandInv /\ Inserted(d)
      /\ client \in [Connections -> Counts]
      /\ received \in [Connections -> Seq(Lines)] /\ inserted \in [Connections -> Seq(Records)]
  BY InsertedForEach DEF IInv, TypeOK
<1>1. ASSUME NEW c \in Connections, NEW l \in Lines, ReceiveLine(c, l) PROVE Inserted(d)'
  <2>1. CASE d = c
    BY <1>0, <1>1, <2>1, InsertedReceive
  <2>2. CASE d # c
    BY <1>0, <1>1, <2>2, InsertedStays DEF ReceiveLine
  <2>. QED BY <2>1, <2>2
<1>2. ASSUME NEW c \in Connections, CountAndInsert(c) PROVE Inserted(d)'
  <2>1. CASE d = c
    BY <1>0, <1>2, <2>1, InsertedInsert
  <2>2. CASE d # c
    BY <1>0, <1>2, <2>2, InsertedStays DEF CountAndInsert
  <2>. QED BY <2>1, <2>2
<1>3. ASSUME NEW c \in Connections, CountInvalid(c) PROVE Inserted(d)'
  <2>1. client'[d].processed = client[d].processed
    BY <1>0, <1>3 DEF CountInvalid, Counts
  <2>. QED BY <1>0, <1>3, <2>1, InsertedStays DEF CountInvalid
<1>4. ASSUME NEW c \in Connections,
             \/ Connect(c) \/ AddClient(c) \/ Close(c) \/ RemClient(c) \/ Delete(c)
             \/ CountForServer(c)
      PROVE  Inserted(d)'
  BY <1>0, <1>4, InsertedStays DEF Connect, AddClient, Close, RemClient, Delete, CountForServer
<1>5. CASE StatsStep \/ UNCHANGED vars
  BY <1>0, <1>5, InsertedStays DEF StatsStep, BeginStats, Report, EndStats, vars
<1>. QED BY <1>1, <1>2, <1>3, <1>4, <1>5 DEF Next, ConnectionStep

\* At first nothing is inserted.
LEMMA InsertedInit == Init => InsertedAsRead
<1> SUFFICES ASSUME Init, NEW c \in Connections PROVE Inserted(c)
  BY InsertedForEach
<1>1. inserted[c] = <<>> /\ client[c].processed = 0
  BY DEF Init, ZeroCounts
<1>. QED BY <1>1 DEF Inserted

\* What is handed to Events_Manager for a connection is what its lines say, in
\* their order, once.  Only a line without an audit id gets what it does not say.
THEOREM RecordsAsRead == Spec => []InsertedAsRead
<1>1. IInv /\ CountInv /\ InsertedAsRead /\ [Next]_vars => (IInv /\ CountInv /\ InsertedAsRead)'
  BY TypeStep, LifeStep, HandStep, CountStep, InsertedStep DEF IInv
<1>2. Init => IInv /\ CountInv /\ InsertedAsRead
  BY IInvInit, CountInit, InsertedInit
<1>. QED BY <1>1, <1>2, PTL DEF Spec
=============================================================================
