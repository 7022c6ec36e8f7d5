# A verification development for uAuditAnalyzer2

uAuditAnalyzer2 collects Linux audit records from many hosts, reassembles the
records of one audit event, and hands the events to outputs and to an alert
engine. This directory holds TLA+ modules of that code, TLC instances of them,
and theorems with proofs that TLAPS checks. Paths are those of the repository;
`L/` stands for `src/uanlz_log2json/src/`, `A/` for `src/uanlz_alert/src/`,
`W/` for `src/uanlz_web/src/`.

- [1. The system](#1-the-system): inventory
- [2. Plan](#2-plan): modules, abstract specifications, runs, theorems
- [3. The modules and the code](#3-the-modules-and-the-code)
- [4. What the runs check and show](#4-what-the-runs-check-and-show)
- [5. Fairness](#5-fairness)
- [6. What is proved](#6-what-is-proved)
- [7. What the models assume](#7-what-the-models-assume)
- [8. Findings](#8-findings)
- [9. What is not modelled](#9-what-is-not-modelled)

## 1. The system

Three daemons run side by side:

    auditd/rsyslog --TCP--> uanlz_log2json --TCP, JSON lines--> uanlz_alert --fork/exec--> actions
                                  ^                                  ^
                                  +---------- RPC calls -------------+---- uanlz_web (pages, RPC hub)

uanlz_log2json has an output per remote host (`alerts.ini`, `remotelog.ini` in
`dispatchers.d`), so two outputs are the delivered configuration.

### uanlz_log2json

| component | state | operations | hard behaviour | what makes it correct |
|---|---|---|---|---|
| Log inputs, `L/input/tcpserver.cpp`, `inputs.cpp` | list of connections, line counters | accept, close, statistics | one thread per connection | counters |
| Line parser, `L/input/tcplineprocessor.cpp` | per connection counters | `processParsedLine` and its four extractors | three line formats, early returns, an event id that stays unset | a line is counted once and yields the fields it holds |
| Class contents and JSON, `L/events/audit_class.cpp`, `audit_var.cpp`, `audit_event.cpp` | classes of one event, variables of one class | `insertClassContents`, `process`, two regex passes, `mergeSpplitedVars`, `getJSON` | records in any order, joined texts, variables split in chunks, gaps, quoted and hex texts, texts that look like variables | the JSON shows what arrived, whatever the order |
| Reassembly, `L/events/events_manager.cpp`, `audit_host.cpp`, `audit_event.cpp` | per host a map from audit id to `Audit_Event*`, counters; `mutex_insert`, `mEvents` | `insertClassContents`, `gc`, `dropOldUncompletedEvents` | records of one event over several connections, end-of-event records, ages, a pass over all hosts that pushes to a full queue while it holds `mutex_insert` | no line lost or shown twice, events not mixed, not written after they leave, split only as documented |
| Events queue and distribution threads, `L/events/events_distributionthreads.cpp` | bounded queue, counters | `pushAuditEvent`, `popAuditEvent`, `outputDistributionThread`, counter thread | push and pop timeouts, several consumers | ownership of the pointer, accounts that add up |
| Outputs, `L/output/outputs.cpp`, `output_jsontcp.cpp` | `Outputs::mt`; per output a queue, a connection, counters | `pushToOutputBases`, `logAuditEvent`, `process`, `reconnect` | fan-out, a dead remote host, retry of a failed write | one order for all, in order and once to a remote host unless lost, nobody waits for ever |
| RPC and start-up, `L/main.cpp`, `rpcimpl.cpp`, `globals.cpp` | configuration | read-only statistics | start order | - |

A connection thread parses a line, takes `mutex_insert`, stores the record in
its host's map and, in the heuristic mode, pushes the event when an
end-of-event record came. The GC thread takes `mutex_insert` for a pass over
every host and pushes what is older than `GC.MaxAge`. Distribution threads pop
events, turn them into JSON and push them to every output under `Outputs::mt`.
Each output has a sender thread that owns its TCP connection.

### uanlz_alert

| component | state | operations | hard behaviour | what makes it correct |
|---|---|---|---|---|
| Rules and actions, `A/rules/rules.cpp`, `A/rpcimpl.cpp` | `vRules`, `actions`, `mtRules` (shared/exclusive), two files, two atomic flags | edits, saves, writes, reloads, reads over RPC; `sleepAndExit` | RPC calls on several threads, a file that is truncated and then written, a flag cleared after a comparison without the lock, stop at any moment | what is not flagged as modified survives a restart; a torn file is never left behind |
| Evaluation, `rules.cpp` (`pushElementOnEvaluationQueue`, `threadEvaluation`, `evaluate`), `A/input/tcplineprocessor.cpp` | bounded queue, counters | receive, queue, evaluate, execute | rules are edited while a thread waits for a program it executed | a line is judged by one list, every line is accounted for and judged |
| Argument templates, `rules.cpp` (`replaceArgumentsVar`, `getValueForVar`) | - | substitution | values that look like variables, tags | a value appears where its name stood, and nothing else changes |
| Inputs, `A/input/inputs.cpp`, `tcpserver.cpp` | `inputs.json`, a flag | `addInput`, `remInput`, start with or without the file | read, change and write without a lock | no change is lost |

### uanlz_web

Pages, log-in and the hub of the RPC connections (`W/webserverimpl.cpp`,
`rpcserverimpl.cpp`): calls are forwarded to the daemon of that name. Its pages
are what an operator believes of the other two (section 8).

## 2. Plan

Order: what loses or mixes audit data first, then what delivers it, then what
judges it, then the pure parts.

| step | module | what | state |
|---|---|---|---|
| 1 | `LineCustody` | abstract: groups of lines that are open, leave whole, and are shown or lost | done |
| 2 | `AuditReassembly` | reassembly, GC, events queue, distribution threads; refines `LineCustody` | done, proved |
| 3 | `Broadcast`, `OutputFanout` | abstract: values offered to every output in turn, taken or refused, delivered in order; distribution threads, `Outputs::mt`, output queues, senders, connections, which refine it | done, proved |
| 4 | `RuleEngine`, `AlertConfig` | lists of rules and actions as data; calls, files, flags, stops | done, proved |
| 5 | `AlertEvaluation` | lines, evaluation queue, threads, evaluation under the shared lock | done, proved |
| 6 | `Log2Json` | `AuditReassembly` and `OutputFanout` composed: one set of distribution threads, the JSON made between pop and push | done, proved |
| 7 | `ClassContents`, `EventJSON` | objects of an event, two passes, chunks, orphans, socket addresses, JSON, key, against reference definitions | done, proved but for `EventAsArrived` |
| 8 | `ArgTemplate`, `AlertText` | substitution in arguments against a left-to-right reading; from an event's records to the argument of a program | done |
| 9 | `LogInput` | connections, the cases of `processParsedLine`, counters, the unset event id, statistics | done, proved |
| 10 | `InputsConfig`, `AlertDaemon` | read-modify-write of `inputs.json`; one process with `AlertConfig` | done, proved |
| 11 | `RpcBridge` | the hub's table of connections: external (section 9) | dropped |

Theorems: every safety property of steps 2 to 7, 9 and 10 but `EventAsArrived`, both refinements,
and that the pipeline and the alert daemon implement their parts (section 6). `EventAsArrived` and
step 8 compare with recursive definitions over texts, which stay with TLC.

## 3. The modules and the code

`PROJECT.json` maps every definition to its lines. A definition whose comment
says *Mutant* is no part of a specification: it is the mutated form of the
definition after it, by which each property is shown to be sensitive to the code.

### AuditReassembly, LineCustody

| TLA+ | code |
|---|---|
| `auditEvents[h][e]` | `Audit_Host::auditEvents` of host `h`, pointers to objects |
| `heap` | the `Audit_Event` objects that are alive: host, id, creation time, fragments |
| `mutexInsert` | `Events_Manager::mutex_insert` and its holder |
| `thread[t]` | what a receiver or the GC has in hand: the event it pushes, and how far it is |
| `gcHosts`, `gcBatch` | hosts of the pass still to visit; `uncompleted_phase2` |
| `eventsQueue`, `worker` | `Events_DistributionThreads::eventsQueue`; a thread's popped `event` |
| `processed`, `dropped`, `eventsProcessed`, `eventsDropped` | the counters of a host and of the threads |
| `lines`, `delivered`, `discarded` | history: lines inserted, events handed to outputs, events deleted unsent |
| `Insert` | `Events_Manager::insertClassContents` up to the push or the unlock |
| `GCLock`, `GCCollect`, `GCTake`, `GCUnlock` | one `gc` pass; `dropOldUncompletedEvents` collects and erases, then pushes one by one |
| `PushDone`, `PushTimeout`, `CountProcessed`, `DeleteDropped` | `pushAuditEvent` and what both callers do with its answer |
| `Pop`, `Distribute` | `outputDistributionThread` |

`mEvents` has no variable: every access is made while `mutex_insert` is held
(except the statistics' size), so the inner lock never decides an interleaving.
The push wait is one step that succeeds if there is room, or times out
if there is none. A record's contents are its number in `lines`; its host, id,
type and time are what the code decides on.

`LineCustody` knows no objects, queues or threads. A group of lines of one key is open,
then leaves whole, then is shown or lost. `Custody` in `AuditReassembly`
instantiates it with the lines of an `Audit_Event` as the group, open while the
event is in the map.

### OutputFanout, Broadcast

Each distribution thread holds an item; `Outputs::mt` is held from the first
output to the last; an output's queue has `HasRoom` or the push waits and gives
up (`DropValue`). A sender is `connecting`, pops, writes, and after a failed
write keeps the value and reconnects. A connection may break between a
successful write and the reading of it at the remote host: `Write` into a
broken connection counts as processed, as `send` does. The pop that times out
produces the `noEventsAlert` value, which outputs receive like any other.

`Broadcast` knows no threads, lock, queues or connections: one value is
offered at a time, to one output after the other, which takes or refuses it;
what is taken is delivered in order, or lost oldest first. `Promise` in
`OutputFanout` instantiates it: offered is the value of the thread that holds
`Outputs::mt`, in transit is what an output's queue, its sender and the wire hold.

### Log2Json

The two machines of the pipeline side by side. `Out` instantiates `OutputFanout` with
names that do not clash (`worker <- round`). The steps they share are
`PopEvent` (`Pop` of both: the event leaves the queue and becomes the next value) and
`FinishEvent` (`Distribute` and `Account`: counted and deleted). Between them
`MakeText` is `process` and `getJSON`, which read the event without a lock;
`text` keeps what they made. `PopMarker` and `FinishMarker` are the round
of a pop that timed out.

### RuleEngine, AlertConfig

A rule is name, action kind, name of its action, and whether its filter
compiles. A loop that copies some elements of a list (a reload that drops rules, a removal,
the records that a connection inserts) is `Chosen` of `Subsequences`: the elements at a set of
positions, in order. `RuleEngine` holds the operations on the lists as functions of data;
`AlertConfig` has one action per RPC call and, for a save, one per step
without the lock: `Running` (snapshot), `Compare`, `Open` (truncates),
`WriteAndClose`, `ReloadWritten`, `ClearFlag`. `Stop` is `_exit(0)` or any
other end, at any step; `Start` loads actions first and rules second, as
`Main::_config` does. `Die` is the exception on an empty file.

### InputsConfig, AlertDaemon

`inputsFile` is the list in `inputs.json`, `tcpServers` the servers made from it
at the start, `inputsModified` the flag. `AddInput` and `RemInput` read the file
and make a new list; `Unwritten` and `Differs` are the comparison of
`writeInputs`, then come `Open`, `WriteAndClose`, `MarkModified`. A random id is
one that nothing had before (`Fresh`). `CreateAndLoad` is the start without
a file; `CreationCutShort` is a stop between the creation of the file and its contents. `acknowledged` and `disturbed` are
history: what the answers said, and whether calls overlapped or one that writes was
cut short. `AlertDaemon` runs the calls of both modules on the same threads; a
step of one that ends the process ends the other (`InputsFollow`,
`ConfigFollows`), and a start needs all three files.

### AlertEvaluation

`receiver` is a connection thread between receiving and counting a line;
`evaluator` a thread of `threadEvaluation` with the rule it looks at. The shared
lock is held while `pc = "evaluate"`; edits need `NoReaders`. The program that a rule
executes ends within the step of its rule.

### ClassContents, EventJSON

`kinds` is the set of records of one event (for an EXECVE, one for every token that the
kernel writes for a command); `InsertClassContents` lets any of them arrive, so any
order, losses and copies. `classVars` is the multimap of `Audit_Event`: for each class
its objects in order. `Process`, `BeginObject` and `EndObject` are the loop of
`process` over the multimap: `processed` are the objects it has done, `IsNext` says which one it
comes to; in between `ClassContents` works on one object: `ParseVar` is one match of a
pass, `MergeZero`, `MergeNext` and `EndOfChunks` the steps of
`mergeSpplitedVars`. `ClassJSON`, `ShownOf` and `EventKey` are what both `getJSON` return.

A token is one match of the two regular expressions wherever it stands: `<<variable, chunk>>`, the form of
its value, and the text it decodes to, in pieces; an argument's text is one piece, represented by its name (and a
mark for a second one of that name), which is enough to tell what is shown where. `Arguments` are the
names that `getJSON` makes of `"a"` and a number, as many as the instance needs.

The second expression runs over quoted texts too. No name holds an equals sign, a caret or a blank, and a
bare value ends at a quote, a caret or a blank: `a1="b=c"` is followed by a token named `"b`, which is harmless, and
`a1="x^a0=41"` by one named `a0`, which `parseVar` lets overwrite the argument `a0`. So a record's tokens
may be under any names, and in this model those in a quoted text simply stand behind it, as tokens that are not
in quotes. Which bytes make such a token is the abstracted part; what becomes of it is not. A pair of
quotes with nothing in it (`"empty"`) matches neither expression. A `saddr`
carries the four parts of the address it decodes to, `NoPart` where it has none.

The code makes no difference between a field and a pair in the quoted text of one, and neither do the
properties: of all pairs under a name they say which is shown (the last of those not in quotes that can be
read, else the last in quotes), that a text is lost only to a later one of the same name, and that INFO has a
key when one came. They do not say that an argument or a key is the one the kernel meant: where a quoted text holds
a pair of that name, the code shows the pair, and `argc=0` there hides the arguments.

`ArgvFaithful`, `EventAsArrived`, `KeyShown` and `AddressAsArrived` are reference definitions: they speak of
what arrived only, with neither passes nor maps.

### ArgTemplate, AlertText

`TagVar` is one round of the loop in `replaceArgumentsVar`: the leftmost
`%...%` and every other occurrence of the same text become a tag. `ReplaceTags` puts the
values in. `Replaced` is `boost::replace_all` as a recursive function. Characters are
strings of length one, a tag is a string that no template holds, and the JSON path
behind `$`, `-` and `+` is one path: nothing behind the sign stands for the key of
the event, anything else for a path where nothing is. `Read` is the reference:
it takes percent signs in pairs from left to right. `AlertText` runs
`EventJSON` and then one argument on the key it shows (`KeyText`).

### LogInput

| TLA+ | code |
|---|---|
| `thread[c]` | where `logServerThr` and `processParsedLine` are for connection `c` |
| `allocated`, `clientProcessors`, `mt` | `TCPLineProcessor` objects that exist; the server's set and its mutex |
| `server`, `client` | the two counters of the server and of each connection |
| `Outcome`, `HeaderInvalid`, `HostRead`, `IPRead`, `IdsRead` | what the extractors make of a line |
| `progColon`, `colon` of a line | the two searches for a colon: after the program (`extractSyslogData`) and at the end of the header (`extractAuditdHeader`) |
| `Connect` ... `Delete` | life of a connection |
| `BeginStats`, `Report`, `EndStats` | `TCPServer::getStats` |

`mt` is held by the statistics call over several steps and by the others within
one. A line is counted by the server first and by its connection second: between the
two its thread is at `processedHere` or `invalidHere` (`Here`). The members of `AuditdHeader` have no initial values, so a line
without `msg=audit(` gets any id (`IdsRead`). A record inserted here is a line
of `AuditReassembly`: its `Insert` takes the host, id and type that are
chosen here, in an order that the connections and `mutex_insert` decide.

## 4. What the runs check and show

| run | instance | shows |
|---|---|---|
| `reassembly_safety` | 2 receivers, 2 hosts, 2 audit ids on each, 3 lines, queue of 1, 2 workers, both modes | `SingleOwner`, `EveryLineOnce`, `FragmentsBelongTogether`, `SplitOnlyWhenDone`, `StatsAddUp`, `QueuedEventsAreFrozen`, and the refinement `ImplementsCustody` |
| `log2json_pipeline` | 1 receiver, 1 distribution thread, queue of 1, 1 output with a queue of 1, 3 lines, 1 marker, both modes, fair | `TextsAreWhole`, `LinesInOrderAtHosts`; `EveryLineSettles`: every line inserted is shown or dropped some day, though the output may never connect |
| `enforce_max_age_false` | as above | a violation: finding 1 |
| `output_fanout` | 2 workers, 2 outputs, 1 item, 2 values, 2 breaks, fair | `OneOrder`, `InOrderOnceOrLost`, `OutputStatsAddUp`, `EveryPopEnds`, and the refinement `ImplementsBroadcast` |
| `alert_config` | 1 RPC thread, rules good and bad, stops anywhere | `UnflaggedSurvivesRestart` |
| `alert_daemon_overlap` | 2 RPC threads, calls on rules, actions and inputs, 2 inputs, no `inputs.json` at first or one, stops anywhere | `TornOnlyWhileWriting`, `InputsTornOnlyWhileWriting`, `UnflaggedInputsRun`, `AnswersHold` |
| `save_races_edit` | 2 RPC threads | a violation: finding 2 |
| `alert_evaluation` | 2 connections, 2 threads, queue of 1, 3 lines, 1 edit, fair | `OneListPerLine`, `LinesAddUp`, `EveryLineJudged` |
| `abort_next_rules` | 2 edits | a violation: finding 3 |
| `event_text` | 2 plain commands of 2 arguments, 2 whose quoted arguments hold pairs (of another argument, of a chunk, of argc, of none), the 5 records of a system call, keys in quoted texts, 5 socket addresses, a key that looks like a variable; every sequence of up to 4 records (5 of a small set); every template of up to 6 characters | `ArgvFaithful`, `NoTextLost`, `EventAsArrived`, `KeyShown`, `AddressAsArrived`, `KeyReachesArgument` |
| `log_input` | 2 connections, 2 lines each of 11 kinds, statistics at any moment | `StatsMeetLiveClients`, `CountersAgree`, `InsertedAsRead` |
| `unidentified_line` | 1 connection, the same lines | a violation: finding 4 |

Why the bounds are enough to meet the hazards:

- A queue of one is full as soon as a second event comes, so every push timeout, drop
  and wait occurs; two workers and two receivers give each race of two
  actors in the code; no code path involves three.
- Three lines make an event with two fragments and a second event of the same
  id, which is what splitting, mixing and losing need. Two hosts with the same
  two ids show that ids are per host.
- `MaxAge` and the clock bound let an event be young, exactly `MaxAge` old and
  too old; the comparison is strict and its mutant (`>=`) is caught.
- In `log2json_pipeline`, `LastArrival < MaxClock` leaves the clock time to go on after the last line, without
  which liveness would fail at the bound of the model and not of the code.
- In `log2json_pipeline` three lines fill the chain: with the output dead, one event is in its
  queue or refused, one with the distribution thread, one in the events queue, so
  the receiver or the GC waits with `mutex_insert`. Connections do not break there;
  that is `output_fanout`'s part.
- Two values and two breaks let a connection break before a write, between a
  write and its reading, and during a retry. Three values with one break were
  also checked for safety (two million states).
- Five records (of a set that has five; four of the others) are `argc`, an argument in three chunks (a first one, a gap, an
  orphan) and a copy or a cut one among them, in every order; the commands
  mix quoted, hexadecimal, empty and cut arguments, whole and in chunks.
- The pairs in quoted arguments overwrite a chunk (readable and cut), fill a gap, name an argument
  that no record has, make argc 0 or give it a second digit (`argc[0]`), and overwrite a whole
  argument; the key in a quoted `comm` meets the key of the record, a cut one, and none.
- The records of a system call have two PATH records and two OBJ_PID records, which are
  joined and set one variable in both passes; four of the five in any order put every
  two of them both ways round, with a copy.
- Templates of up to six of `%`, `-` and `N` hold three variables, two equal ones,
  an escape beside a variable, a variable across two others (left out of the property), and a
  percent sign that is left over; the key is `%N%`.
- The eleven kinds of lines reach each return of `processParsedLine` and its
  extractors that leads to another outcome (a line under six characters is ignored like one of another program,
  and left out). Two lines show that nothing is
  carried over but the counters; two connections, that the server's
  counters and set are shared.
- `WrittenRules` and `WrittenActions` (contents an operator writes into a file by
  RPC) are empty in `alert_config` and not in `alert_daemon_overlap`: see the hazard at
  `rules.cpp:716`.

No deadlock check is switched off where the system may not stop; where a model stops because
its bounds are reached, an explicit `AllQuiet` step says that nothing but the
bound is the reason.

## 5. Fairness

`log2json_pipeline` assumes weak fairness of the clock, of the receivers' and the
GC's steps once begun, of `GCLock`, and of the distribution threads. Threads of the
process are scheduled by the operating system, the GC sleeps a bounded time
between passes, and a push ends after `QueuePushTimeoutInMS` at the latest.
`mutex_insert` is a `std::mutex` that nobody holds for ever, but it is not fair: a
`GCLock` that is enabled again and again needs strong fairness in general. Lines
stop coming in the model (`LastArrival`), so weak fairness suffices there; the run
does not show that the GC gets the mutex under an endless flood. Of the outputs it
assumes what `output_fanout` does: a distribution thread's rounds go on, pushes end. No
remote host need accept a connection and no sender need write.

`output_fanout` assumes that distribution threads run and that somebody
gets `Outputs::mt` when it is free. Nothing is assumed of the sender threads,
the network or the remote hosts: `EveryPopEnds` holds with all outputs dead.

`alert_evaluation` assumes that connection and evaluation threads run and that
executed programs end. The code waits for a program without a limit, so the
latter is an assumption on the operator's actions.

## 6. What is proved

Each theorem holds for every value of the constants that the named assumption of its
module admits: any set of hosts, ids, threads, outputs, connections, lines and rules, and any
queue size. TLC evaluates the assumptions in every run of the module. The invariants below
were checked by TLC on a run of their module before they were proved.

### Reassembly: `AuditReassembly_proofs`

| theorem | statement |
|---|---|
| `InductiveInvariant`, `TypeCorrect`, `Ownership` | `Spec => []` of `IInv`, of `TypeOK` and of `SingleOwner` |
| `ContentInvariant`, `EventsHoldTheirOwnLines`, `NoLineLostOrTwice` | `Spec => []` of `FragmentsBelongTogether` and `EveryLineOnce` |
| `FrozenOnceOut` | `Spec => QueuedEventsAreFrozen` |
| `LinesLeaveInOrder` | `Spec => []LineOrder`: the events of one id are popped in the order of their lines |
| `SplitsAreJustified` | `ClockSteps \subseteq Nat` implies `Spec => []SplitOnlyWhenDone` |
| `KeepsCustody` | `Spec => ImplementsCustody`, the refinement of `LineCustody` |
| `StatisticsAddUp` | `Spec => []StatsAddUp` |

`SingleOwner` alone is not inductive: that the object a thread
pushes is nowhere else follows only from how the thread came by it. `IInv` is
`TypeOK /\ LockInv /\ HeapInv /\ SingleOwner`. `LockInv` is the discipline of the lock: a
thread that is not idle holds `mutexInsert`, a thread has an event in hand exactly while it
pushes, and the GC's batch is empty between its passes. `HeapInv`: no object has a number
beyond the last line, so the number of the next line is fresh for a new object (which is
where "never used after its deletion" comes from), and the map's entry at
`[h][e]` is an object of that host and id.

Lines are in one event only because an insertion appends the newest line to one object that
nobody else holds, and all other steps move objects or copy them to the history.
`FrozenOnceOut` is an action property: only `Insert` writes a fragment, and it writes an
object of the map or a new one. `SplitsAreJustified` needs `SplitInv`: an event that is not in
its map left it because it was too old or because it ended, and since time does not go back
this stays true of it for every later line. With `ClockSteps` containing a negative step the
theorem is false, as the hazard at `audit_event.cpp:31` says.

`LinesLeaveInOrder` compares two events of one key wherever they are (`InTurn`: every line of one was
inserted before every line of the other). `LineOrder`: what left the map comes before what is in it, the queue
is in order, and what is queued comes before what is on its way to the queue, where there is at most
one event of a key: although receivers and the GC both push, whoever has taken an event out
of the map holds `mutex_insert` until the queue took or refused it.

The refinement goes by what a step does to the events: it opens a group or adds a line to an
open one, one object leaves its map, one object leaves the pipeline, or nothing moves
(`CustodyStutters`). That distinct events share no line makes the
map from events to groups of lines one to one. `StatsAddUp` rests on `HandsInv`, which ties what a
thread and the batch hold to the host that will be charged for it, and on `CountInv`, which
counts per host: events that left the map, shown or dropped, are those counted plus those whose
thread is about to count.

### Outputs: `OutputFanout_proofs`

| theorem | statement |
|---|---|
| `TypeCorrect` | `Spec => []TypeOK`; no queue exceeds its limit |
| `QueuesAgree`, `InOrder`, `CountersAddUp` | `Spec => []` of `OneOrder`, `InOrderOnceOrLost`, `OutputStatsAddUp` |
| `OneThreadInOrder` | with one distribution thread an output accepts values in the order of their pop |
| `FanoutBroadcasts` | `Spec => ImplementsBroadcast`, the refinement of `Broadcast` |

`FanoutInv` adds to the properties `WorkerInv`, `SenderInv` and `AcceptInv`. `WorkerInv`: a thread pushes
exactly while it holds `mt`, and no two threads have the same value. `SenderInv`: a sender that writes
has a value, one that waits has none, and nothing is on the wire of a connection that is down.
`AcceptInv` compares the queues with what threads have in hand: a value that waits for the
mutex is in no queue; one that is being pushed is in none of the queues to come and is the newest in
those it reached. It is why two queues never disagree on an order: at most one value is
between queues at a time. `InOrderOnceOrLost` says by positions that what is received or in flight is
what was accepted without what was lost (`IsRest`), so that a step at either end of a
sequence can be reasoned about.

### Pipeline: `Log2Json_proofs`

| theorem | statement |
|---|---|
| `PipelineImplementsParts` | `PipeSpec => Spec /\ Out!Spec`: sharing the distribution threads adds no behaviour to either part |
| `PipeTypeCorrect` | `PipeSpec => []PipeTypeOK` |
| `WholeTexts` | `PipeSpec => []TextsAreWhole` |
| `HostsReadInOrder` | `PipeSpec => []LinesInOrderAtHosts` |

`PipelineImplementsParts` carries every invariant of the parts over. What `Log2Json` adds is the link
between them. `RoundInv`: each thread is busy with a value of its own. `LinkInv`: it has an event in hand
exactly while that value is no marker. `TextInv`: the text of a value in hand is missing, and then not
yet pushed, or the event as it still is in the heap; that it still is needs
`QueuedEventsAreFrozen` and single ownership of the reassembly, which take the place of a lock. `HostsReadInOrder`
puts three orders end to end: the lines of an id leave reassembly in order (`LineOrder`),
values are numbered in the order of the pops and, with one thread, pushed in that order
(`OneThreadInOrder`), and a host receives a part of what its output accepted, in that order
(`InOrder`). `ValueOrder` is the first of the three in terms of values: a later value, and any line
that has no value yet, holds later lines. With two distribution threads only "never twice" is
claimed, and proved: two threads may push two halves of a split event the other way round.
`PipelineAssumption` makes the set of threads finite, as it is in a process.

### Class contents: `EventJSON_proofs`

| theorem | statement |
|---|---|
| `EventInvariant`, `EventTypeCorrect` | `EventSpec => []` of `EventInv` and of `EventTypeOK` |
| `ArgumentsFaithful` | `EventSpec => []ArgvFaithful` |
| `CommandTextsKept` | `EventSpec => []NoTextLost` |
| `AddressInvariant`, `AddressShown` | `EventSpec => []` of `AddressInv` and of `AddressAsArrived` |
| `KeyIsShown` | `EventSpec => []KeyShown` |

They hold for any sets of records, any number of arguments, chunks, copies and classes, under
`KernelAssumption` (section 7), which leaves the names of tokens open: the pairs in quoted texts are among them. The proof
follows one object through `ClassContents`, with an invariant for
each loop, and then the objects through `EventJSON`.

`ReadBefore` is the order in which both passes together come to the tokens: everything in quotes, then everything
else; `LastOf` is the last of a set in that order. `PassInv` is the invariant of the two passes. Of the tokens of a name
that they have come by (`Seen`), the last one decides whether the variable is valid, and the last one that can be
read is its text, which is empty when none can (`VarFits`, `TextFits`). After the passes every variable is `ReadVar` of its name.
`MergeInv` is that of the merge: of a variable whose chunk 0 arrived, the chunks that the loop has been
over (`Absorbed`: those from 0 without a gap) are gone from the variables, and their texts are joined, behind the
whole text if there is one, in the order of their numbers and without the cut ones, in the variable (`JoinedFrom`, `Pieces`,
`PieceTexts`); every other variable is still as the passes left it (`Untouched`). When the loop ends at a gap, what is absorbed is exactly
`Contiguous`, which is what `ArgvFaithful` asks for, and nothing is in two variables, which `NoTextLost` asks for.

`ShapeInv` holds for objects of any class, and bounds the number of the next chunk by the number of tokens: every chunk
before it has a token of its own, so more chunks than tokens contradict the pigeonhole principle.
`AddressInv` says of the object of a socket address what `contentVars` holds at each point of the passes
(`AddressAtHand`) and what stays in the event once it is processed (`AddressObject`, `PartsOnceProcessed`).
`KeyInv` follows the key from its record to the object of its class (`TextsArrived`, `KeysArrived`), through
the pass that reads it (`KeyAtHand`) to the variables of the processed object (`KeysProcessed`); no merge touches it, since `KeyShown` speaks of
events in which no key came in chunks. INFO takes the last class that has one, which exists because the numbers of
classes are well-founded (`WFMin`).

### Log inputs: `LogInput_proofs`

| theorem | statement |
|---|---|
| `TypeCorrect`, `LiveClients` | `Spec => []` of `TypeOK` and `StatsMeetLiveClients` |
| `Counted` | `Spec => []CountersAgree` |
| `RecordsAsRead` | `Spec => []InsertedAsRead` |

`LifeInv` says which threads own an allocated `TCPLineProcessor` and which are in the server's
set; a statistics call reports a part of that set for as long as it holds `mt`.
`HandInv` says that a thread that is about to count is at its last line, whose outcome is what it
will count. The records inserted are compared with `Chosen` of the lines read; the lemmas about it are in
`Subsequences_proofs`.

### Evaluation: `AlertEvaluation_proofs`

| theorem | statement |
|---|---|
| `TypeCorrect` | `Spec => []TypeOK` |
| `OneListInForce` | `Spec => []OneListPerLine` |
| `NoLineUncounted` | `Spec => []LinesAddUp` |

`OneListPerLine` speaks of finished evaluations. `LoopInv` is its loop invariant: while a
thread evaluates, the rules and actions that ran when it began still run (edits need
`NoReaders`), every match before the next rule is activated, none of them stopped the
evaluation, and the programs executed are those of the matches, in order. `EvaluationAssumption`
makes the two sets of threads finite, as they are in a process; counting needs it.

### Configuration: `AlertDaemon_proofs`

| theorem | statement |
|---|---|
| `TypeCorrect`, `NoTornFileLeft` | `Spec => []` of `AlertConfig`'s `TypeOK` and `TornOnlyWhileWriting` |
| `UnflaggedSurvives` | `OneCaller` implies `Spec => []UnflaggedSurvivesRestart` |
| `DaemonImplementsParts` | `DaemonSpec => Spec /\ Inputs!Spec`: the daemon implements both its parts |
| `InputsTypeCorrect`, `InputsLeaveNoTornFile`, `UnflaggedRun`, `AnswersAreKept` | `DaemonSpec => []` of `InputsTypeOK`, `InputsTornOnlyWhileWriting`, `UnflaggedInputsRun`, `AnswersHold` |
| `DaemonLeavesNoTornFile` | `DaemonSpec => []TornOnlyWhileWriting` |

`DaemonImplementsParts` carries what is proved of a part over to the whole; the step of one part that ends
or starts the process is a step of the other too (lemma `BothParts`).

`UnflaggedSurvives` is about one RPC thread and the calls that the web pages make
(`OneCaller`); both hypotheses are needed. With two threads run `save_races_edit` has the
counterexample, which is finding 2. A `writeRulesFileConfig` with an arbitrary text, which no page sends, can
equal the file by chance and so clear a flag that an edit set, see the hazard at `rules.cpp:716`.
The invariant is `SaveInv`: what is not flagged is on disk (`Synced`) unless its file is open at
this moment, and a save carries what runs until it has reloaded it. For rules `Synced` says that what
runs is part of what the file says, in order, for a reload drops the rules that cannot run
(`LoadIsSubSeq`). A restart then loads every rule that ran and still can, in order, because loading
keeps "is part of" (`LoadMonotone`).

`UnflaggedRun` needs `LoadedInv`: between calls the servers are those of the file. `AnswersAreKept` needs
`AnswerInv`: as long as calls have not overlapped, at most one call is in progress, the
list it carries is what callers will have been told once it answers, and between calls the file is
what they were told. `InputsAssumption` keeps the torn and the missing file apart from the
lists.

### Model-checked only

- Liveness (`EveryLineSettles`, `EveryPopEnds`, `EveryLineJudged`): it needs fairness and ENABLED, which the
  prover cannot reason about.
- `EventAsArrived`: it compares with the records selected and the texts joined by recursion (`SelectSeq`,
  `FlattenSeq`). What a recursion computes for every input needs induction with an operator as a
  parameter, which the provers cannot instantiate.
- `KeyReachesArgument` (`ArgTemplate`, `AlertText`): `Replaced` is a recursive function over texts; the same.
- The runs that expect a violation show counterexamples; there is nothing to prove.

## 7. What the models assume

Code outside the repository is modelled from how it is used:

- `Mantids::Threads::Safe::Queue`: `push` waits for room up to a timeout and
  then fails without effect, `pop` waits for an element and then returns null.
- `Mantids::Threads::Sync::Mutex_Shared`: readers or one writer.
- FastRPC runs calls on several threads; a reply is sent when the call returns.
- JsonCpp's `operator>>` throws on an empty file; the exception ends the process.
- A unit with `Restart=always` starts a daemon again after it stopped.
- Sockets: a write may succeed although the peer will never read it.
- The kernel (`KernelAssumption` in `EventJSON`): every token of an EXECVE record is under some name, whole or as a numbered
  chunk, is no socket address, and its text is a piece of its own (the texts of two records under one name and chunk
  need not be equal); an event has one socket address, in one field; a key is written in quotes, in
  hexadecimal digits or bare, and is empty when it is cut, whatever class it is in. It says nothing of how many copies come, in
  what order, or in which form.
- `getJSON` shows at most 65536 arguments (`LoopAssumption`).

## 8. Findings

1. **`EnforceMaxAge=false` enforces.** `config.ini:31-32` documents a Boolean,
   `audit_host.cpp:17` reads a number with default true, so both texts select the
   same mode and only `0` selects the heuristic (run `enforce_max_age_false`).
2. **A save that overlaps an edit clears the edit's flag.** `rules.html:24` warns
   only when the flag is set; `writeRulesFileConfig` compares with an old
   snapshot without the lock (run `save_races_edit`).
3. **EXECANDABORT without its action does not abort.** `rule-add.html:233` says
   "Execute Action And Abort Next Rules Evaluation"; `evaluate` leaves the loop
   only when the action exists (run `abort_next_rules`).

4. **A line without an audit id is put with the records of some event.**
   `README.md:15` of `src/uanlz_log2json` says "Detects and reassembles split
   messages using sequence identifiers"; `tcplineprocessor.cpp:270` accepts a header
   without `msg=audit(`, for instance of a message of audispd itself that holds a further colon
  (one that does not, such as "queue is full - dropping event", has no header and is refused), and
   `tcplineprocessor.h:40-42` gives the id no initial value, so the line is
   inserted under whatever the stack holds (run `unidentified_line`). A syslog
   line without a colon after its program ends the same way: line 208 tests
   `progEndPos` where `endSyslogData` is meant, and the header is read from the
   start of the line.

## 9. What is not modelled

- Sockets, configuration files and start-up: input and output without decisions
  that the properties tell apart.
- A hexadecimal escape (`%%0A0D%%`) that the README of `uanlz_alert` (line 94) describes:
  `getValueForVar` has none, `%%` is a percent sign. `ArgTemplate` is the code's. Templates
  in which the text of a variable also occurs across two others (`%%-%N%%N%`): the
  code replaces that occurrence too (`KeyReachesArgument` leaves them out).
- The sockets of the inputs, and the connections of `uanlz_alert`'s inputs beyond
  the lines they bring: `A/input/tcpserver.cpp` is the code that `LogInput` models.
- Of class contents: which bytes of a socket address mean what, `rawPure`, which nobody
  reads (its size is wrong after `append`), and `createFancyString`, which shows a zero
  byte or an exclamation mark as a blank. A second, different socket address in one event, which
  the kernel does not write, would keep the first one's path. An address cut to an odd
  number of digits makes the decoding run past its end; a record of that length is
  not cut in practice. Names with two brackets (`a[1][0]`), chunks of a variable that is
  itself a chunk; `argc` in chunks of more than a digit; a record cut within a quoted text, whose opening quote then
  pairs with the next record's. USER_* messages put their fields in single quotes inside one
  field; the passes find them there like others.
- Of the line parser: where in its text each part of a line starts and ends.
- Counters per second and per ten seconds: copied and cleared in two steps, so
  increments may fall between; statistics nobody relies on.
- A clock that steps back: the constant `ClockSteps` allows it, no run does.
- The web server and RPC hub (`W/`): its only state, the table of connected daemons, is in the
  external libMantids; a page's call is forwarded to the daemon of that name and
  the answer returned. The pages themselves are read for what they promise.
- How a program is executed (`forkExec`): fork, descriptors and `waitpid`; for the evaluation it
  is a step that ends.
