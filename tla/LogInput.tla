------------------------------ MODULE LogInput ------------------------------
(***************************************************************************)
(* The log inputs of uanlz_log2json: a TCPServer with one thread and one   *)
(* TCPLineProcessor per connection, the dissection of each line, and the   *)
(* statistics call that walks the connections meanwhile.  What it inserts  *)
(* is what AuditReassembly takes.                                          *)
(*                                                                         *)
(* A line is reduced to what the dissection decides on:                    *)
(*   form    "short", "auditd", "syslog" or "syslogIP"                     *)
(*   prefix  whether the <...> parts close                                 *)
(*   program "audisp", "other", or "none" when the syslog part is too short*)
(*   progColon whether a colon follows the program, in syslog              *)
(*   colon   whether a colon ends the header, outside parentheses          *)
(*   node, host  names from the header and from syslog, NoName if absent   *)
(*   id      the audit id, NoId without msg=audit(...), BadId if malformed *)
(***************************************************************************)
EXTENDS Integers, Subsequences

CONSTANTS
  Connections,  \* connections, each with its thread; a closed one is not reused
  Lines,        \* lines that clients send
  EventIds,     \* audit ids
  MaxLines      \* bound: lines per connection

NoName == "-"
TheirIP == "ip"       \* the address that the line names; else the connection's
NoId == "no id"
BadId == "bad id"

ASSUME InputAssumption ==
  /\ MaxLines \in Nat
  /\ NoId \notin EventIds /\ BadId \notin EventIds
  /\ \A l \in Lines :
       /\ l.form \in {"short", "auditd", "syslog", "syslogIP"}
       /\ l.prefix \in BOOLEAN /\ l.progColon \in BOOLEAN /\ l.colon \in BOOLEAN
       /\ l.program \in {"audisp", "other", "none"}
       /\ l.id \in EventIds \cup {NoId, BadId}
       /\ ~l.colon => l.id = NoId /\ l.node = NoName
       /\ l.form \in {"syslog", "syslogIP"} /\ ~l.progColon => ~l.colon

VARIABLES
  thread,            \* per connection: where its thread is
  allocated,         \* connections whose TCPLineProcessor exists
  clientProcessors,  \* TCPServer::clientProcessors
  mt,                \* who holds TCPServer::mt
  server, client,    \* processedLinesCount, invalidLinesCount of both
  toReport,          \* clients the statistics call has still to visit
  received,          \* history: lines received, per connection
  inserted           \* history: records inserted, per connection

vars == <<thread, allocated, clientProcessors, mt, server, client, toReport, received, inserted>>

Free == "free"
Stats == "stats"
ZeroCounts == [processed |-> 0, invalid |-> 0]

Init ==
  /\ thread = [c \in Connections |-> "none"]
  /\ allocated = {} /\ clientProcessors = {}
  /\ mt = Free
  /\ server = ZeroCounts
  /\ client = [c \in Connections |-> ZeroCounts]
  /\ toReport = {}
  /\ received = [c \in Connections |-> <<>>]
  /\ inserted = [c \in Connections |-> <<>>]
-----------------------------------------------------------------------------
(* processParsedLine and its extractors.                                     *)

\* extractIPAddress and extractSyslogData refuse; the latter answers true, and
\* the program's name stays empty.
SyslogInvalid(l) ==
  l.form \in {"syslog", "syslogIP"} /\ (~l.prefix \/ l.program = "none")

\* A line that is bare auditd counts as one of audispd.
FromAudisp(l) == l.form = "auditd" \/ l.program = "audisp"

\* Mutant.  The form of msg=audit(...) is not looked at.
NoColon(l) == ~l.colon /\ (l.form = "auditd" \/ l.progColon)

\* A syslog line with no colon after its program is read again from its start
\* and finds the colon of its date: its header is valid and empty.
HeaderInvalid(l) == (~l.colon /\ (l.form = "auditd" \/ l.progColon)) \/ l.id = BadId

Outcome(l) ==
  CASE l.form = "short" -> "ignored"
    [] l.form # "short" /\ SyslogInvalid(l) -> "invalid"
    [] l.form # "short" /\ ~SyslogInvalid(l) /\ ~FromAudisp(l) -> "ignored"
    [] OTHER -> IF HeaderInvalid(l) THEN "invalid" ELSE "processed"

\* The ids a line may be inserted under: without msg=audit(...) the members of
\* the header are what the stack held.
IdsRead(l) == IF l.id = NoId THEN EventIds ELSE {l.id}

\* Mutant.  The name that syslog gives comes first.
SyslogNameFirst(l) == IF l.host = NoName THEN l.node ELSE l.host

HostRead(l) == IF l.node = NoName THEN l.host ELSE l.node
IPRead(c, l) == IF l.form = "syslogIP" THEN TheirIP ELSE c
-----------------------------------------------------------------------------
(* logServerThr.                                                             *)

Goto(c, pc) == thread' = [thread EXCEPT ![c] = pc]

\* The line that the thread of c works on.
LineOf(c) == received[c][Len(received[c])]

Connect(c) ==
  /\ thread[c] = "none"
  /\ allocated' = allocated \cup {c}
  /\ Goto(c, "add")
  /\ UNCHANGED <<clientProcessors, mt, server, client, toReport, received, inserted>>

AddClient(c) ==
  /\ thread[c] = "add" /\ mt = Free
  /\ clientProcessors' = clientProcessors \cup {c}
  /\ Goto(c, "read")
  /\ UNCHANGED <<allocated, mt, server, client, toReport, received, inserted>>

ReceiveLine(c, l) ==
  /\ thread[c] = "read" /\ Len(received[c]) < MaxLines
  /\ received' = [received EXCEPT ![c] = Append(@, l)]
  /\ Goto(c, IF Outcome(l) = "ignored" THEN "read" ELSE Outcome(l))
  /\ UNCHANGED <<allocated, clientProcessors, mt, server, client, toReport, inserted>>

\* Mutant.  An invalid line is not counted for the server.
ProcessedCounted(kind) == IF kind = "invalid" THEN server ELSE [server EXCEPT ![kind] = @ + 1]

ServerCounted(kind) == [server EXCEPT ![kind] = @ + 1]

\* Where a thread is between its two counters.
Here == [processed |-> "processedHere", invalid |-> "invalidHere"]

\* incProcessedLines or incInvalidLines, then the connection's own counter.
CountForServer(c) ==
  /\ thread[c] \in {"processed", "invalid"}
  /\ server' = ServerCounted(thread[c])
  /\ Goto(c, Here[thread[c]])
  /\ UNCHANGED <<allocated, clientProcessors, mt, client, toReport, received, inserted>>

CountInvalid(c) ==
  /\ thread[c] = "invalidHere"
  /\ client' = [client EXCEPT ![c].invalid = @ + 1]
  /\ Goto(c, "read")
  /\ UNCHANGED <<allocated, clientProcessors, mt, server, toReport, received, inserted>>

\* Counted, and handed to Events_Manager::insertClassContents.
CountAndInsert(c) ==
  LET l == LineOf(c)
  IN  /\ thread[c] = "processedHere"
      /\ client' = [client EXCEPT ![c].processed = @ + 1]
      /\ \E id \in IdsRead(l) :
           inserted' = [inserted EXCEPT ![c] =
             Append(@, [id |-> id, host |-> HostRead(l), ip |-> IPRead(c, l), of |-> l])]
      /\ Goto(c, "read")
      /\ UNCHANGED <<allocated, clientProcessors, mt, server, toReport, received>>

\* Mutant.  The connection is deleted before it is taken from the set.
DeleteFirst == <<"delete", "remove">>

WhenClosed == <<"remove", "delete">>

\* What follows a step of the end of a connection.
After(pc) == IF pc = WhenClosed[1] THEN WhenClosed[2] ELSE "closed"

Close(c) ==
  /\ thread[c] = "read"
  /\ Goto(c, WhenClosed[1])
  /\ UNCHANGED <<allocated, clientProcessors, mt, server, client, toReport, received, inserted>>

RemClient(c) ==
  /\ thread[c] = "remove" /\ mt = Free
  /\ clientProcessors' = clientProcessors \ {c}
  /\ Goto(c, After("remove"))
  /\ UNCHANGED <<allocated, mt, server, client, toReport, received, inserted>>

Delete(c) ==
  /\ thread[c] = "delete"
  /\ allocated' = allocated \ {c}
  /\ Goto(c, After("delete"))
  /\ UNCHANGED <<clientProcessors, mt, server, client, toReport, received, inserted>>
-----------------------------------------------------------------------------
(* TCPServer::getStats, in the thread of an RPC call.                        *)

BeginStats ==
  /\ mt = Free
  /\ mt' = Stats /\ toReport' = clientProcessors
  /\ UNCHANGED <<thread, allocated, clientProcessors, server, client, received, inserted>>

Report(c) ==
  /\ mt = Stats /\ c \in toReport
  /\ toReport' = toReport \ {c}
  /\ UNCHANGED <<thread, allocated, clientProcessors, mt, server, client, received, inserted>>

EndStats ==
  /\ mt = Stats /\ toReport = {}
  /\ mt' = Free
  /\ UNCHANGED <<thread, allocated, clientProcessors, server, client, toReport, received, inserted>>

ConnectionStep(c) ==
  \/ Connect(c) \/ AddClient(c) \/ Close(c) \/ RemClient(c) \/ Delete(c)
  \/ \E l \in Lines : ReceiveLine(c, l)
  \/ CountForServer(c) \/ CountInvalid(c) \/ CountAndInsert(c)

StatsStep == BeginStats \/ (\E c \in Connections : Report(c)) \/ EndStats

Next == (\E c \in Connections : ConnectionStep(c)) \/ StatsStep

Spec == Init /\ [][Next]_vars
-----------------------------------------------------------------------------
Counts == [processed : Nat, invalid : Nat]
Outcomes == {"processed", "invalid"}
ThreadStates ==
  {"none", "add", "read", "remove", "delete", "closed"} \cup Outcomes \cup {Here[o] : o \in Outcomes}
Records ==
  [id : EventIds, host : {HostRead(l) : l \in Lines}, ip : {TheirIP} \cup Connections, of : Lines]

\* The shape of every variable.
TypeOK ==
  /\ thread \in [Connections -> ThreadStates]
  /\ allocated \subseteq Connections /\ clientProcessors \subseteq Connections
  /\ toReport \subseteq Connections /\ mt \in {Free, Stats}
  /\ server \in Counts /\ client \in [Connections -> Counts]
  /\ received \in [Connections -> Seq(Lines)]
  /\ \A c \in Connections : Len(received[c]) <= MaxLines
  /\ inserted \in [Connections -> Seq(Records)]

\* The statistics call meets only connections that exist: whoever is in the set
\* or about to be visited was not deleted, at whatever moment a client leaves.
StatsMeetLiveClients == clientProcessors \cup toReport \subseteq allocated

At(pc) == {c \in Connections : thread[c] = pc}

\* Which lines of c, and which of all connections, have this outcome.
LinesOf(c, outcome) == {k \in DOMAIN received[c] : Outcome(received[c][k]) = outcome}
AllLines(outcome) == {p \in Connections \X (1..MaxLines) : p[2] \in LinesOf(p[1], outcome)}

\* A line that is not ignored is counted once, as processed or as invalid, by
\* its connection and by the server, up to the threads that are about to.
CountersAgree ==
  \A o \in Outcomes :
    /\ server[o] + Cardinality(At(o)) = Cardinality(AllLines(o))
    /\ \A c \in Connections :
         client[c][o] + (IF thread[c] \in {o, Here[o]} THEN 1 ELSE 0) = Cardinality(LinesOf(c, o))

\* A record with an audit id is inserted under this id, for the node it names
\* or else the host that syslog names, and for the address that rsyslog put in
\* front or else its own; once, and in the order of its connection.
InsertedAsRead ==
  \A c \in Connections :
    LET audit == Chosen(received[c], LinesOf(c, "processed"))
    IN  /\ Len(inserted[c]) = client[c].processed
        /\ \A k \in DOMAIN inserted[c] :
             /\ inserted[c][k].of = audit[k]
             /\ audit[k].id # NoId => inserted[c][k].id = audit[k].id
             /\ inserted[c][k].host = IF audit[k].node # NoName THEN audit[k].node ELSE audit[k].host
             /\ inserted[c][k].ip = IF audit[k].form = "syslogIP" THEN TheirIP ELSE c

\* README: "Detects and reassembles split messages using sequence identifiers".
\* What is put with the records of an audit id carries this identifier.
IdentifiedByItself ==
  \A c \in Connections : \A k \in DOMAIN inserted[c] : inserted[c][k].id = inserted[c][k].of.id
=============================================================================
