---------------------------- MODULE InputsConfig ----------------------------
(***************************************************************************)
(* uanlz_alert's inputs: inputs.json, the servers that were made from it   *)
(* when the daemon started, and the RPC calls that add and remove inputs.  *)
(*                                                                         *)
(* A call reads the file, makes a new list from it, reads the file again   *)
(* to compare, opens it (which empties it), writes it and sets the flag by *)
(* which the web page asks for a reload.  There is no lock: calls on two   *)
(* threads overlap at every step.  The servers change only with a restart. *)
(* An input is its id, the random string that AddInput gives it.           *)
(***************************************************************************)
EXTENDS Subsequences

CONSTANTS
  Admins,      \* RPC threads
  InputIds,    \* ids that inputs may get
  Torn,        \* the file, opened for writing and not written yet
  Missing,     \* the file does not exist
  MaxInputs    \* bound: inputs in a list

VARIABLES
  up,              \* the daemon runs
  inputsFile,      \* inputs.json
  tcpServers,      \* Inputs::tcpServers
  inputsModified,  \* Inputs::modified
  call,            \* RPC threads: where each is, and its new list
  acknowledged,    \* history: the inputs, by the answers of the calls
  disturbed        \* history: two calls overlapped, or one that writes was cut short

inputVars == <<inputsFile, tcpServers, inputsModified, call, acknowledged, disturbed>>

Range(s) == {s[i] : i \in DOMAIN s}
NoCall == [pc |-> "idle", id |-> "none", config |-> <<>>]
InProgress == {t \in Admins : call[t].pc # "idle"}

Init ==
  /\ up = FALSE
  /\ inputsFile \in {Missing, <<>>} \cup {<<id>> : id \in InputIds}
  /\ acknowledged = IF inputsFile = Missing THEN {} ELSE Range(inputsFile)
  /\ tcpServers = <<>> /\ inputsModified = FALSE
  /\ call = [t \in Admins |-> NoCall]
  /\ disturbed = FALSE
-----------------------------------------------------------------------------
(* The life of the daemon.                                                   *)

\* All but the file is gone, and with it the answer of a call in progress.  One
\* that had not opened the file left it as it was.
Gone ==
  /\ tcpServers' = <<>> /\ inputsModified' = FALSE
  /\ call' = [t \in Admins |-> NoCall]
  /\ disturbed' = (disturbed \/ \E t \in Admins : call[t].pc \in {"write", "mark"})
  /\ UNCHANGED <<inputsFile, acknowledged>>

Die == up' = FALSE /\ Gone

\* Inputs::loadConfig: one server for each entry.
Load ==
  /\ tcpServers' = inputsFile
  /\ UNCHANGED <<inputsFile, inputsModified, call, acknowledged, disturbed>>
-----------------------------------------------------------------------------
(* A start without the file.                                                 *)

\* readInputs makes an empty list, which is what is loaded then.
CreateAndLoad ==
  /\ inputsFile = Missing
  /\ inputsFile' = <<>> /\ tcpServers' = <<>>
  /\ UNCHANGED <<inputsModified, call, acknowledged, disturbed>>

\* The process ends between the creation of the file and its list.
CreationCutShort ==
  /\ inputsFile = Missing
  /\ inputsFile' = Torn /\ disturbed' = TRUE
  /\ UNCHANGED <<tcpServers, inputsModified, call, acknowledged>>
-----------------------------------------------------------------------------
(* addInput, remInput.                                                       *)

\* Mutants.  The list starts from what runs; the entry leaves a hole.
ListOfServers == tcpServers
WithHole(list, id) == [i \in DOMAIN list |-> IF list[i] = id THEN "" ELSE list[i]]

\* readInputs, at the beginning of a call.
ListRead == inputsFile

WithInput(list, id) == <<id>> \o list
WithoutInput(list, id) == Chosen(list, {i \in DOMAIN list : list[i] # id})

Begin(t, id, config) ==
  /\ call' = [call EXCEPT ![t] = [pc |-> "compare", id |-> id, config |-> config]]
  /\ disturbed' = (disturbed \/ InProgress # {})
  /\ UNCHANGED <<up, inputsFile, tcpServers, inputsModified, acknowledged>>

Ready(t) == up /\ call[t].pc = "idle"

\* A random id is one that nothing had before.
Fresh(id) ==
  /\ id \notin acknowledged \cup Range(tcpServers) \cup Range(inputsFile)
  /\ \A t \in Admins : id # call[t].id /\ id \notin Range(call[t].config)

AddInput(t, id) ==
  /\ Ready(t) /\ inputsFile # Torn
  /\ Fresh(id) /\ Len(ListRead) < MaxInputs
  /\ Begin(t, id, WithInput(ListRead, id))

RemInput(t, id) ==
  /\ Ready(t) /\ inputsFile # Torn
  /\ Begin(t, id, WithoutInput(ListRead, id))

\* addInput, remInput and readInputs of a file without contents: the parser
\* throws and nothing catches.
ReadTorn(t) == Ready(t) /\ inputsFile = Torn /\ Die
-----------------------------------------------------------------------------
(* writeInputs.                                                              *)

Goes(t, pc) == [call EXCEPT ![t].pc = pc]
Answer(t) == [call EXCEPT ![t] = NoCall]

\* What callers believe once the call of t says true.
Acknowledge(t) ==
  acknowledged' = IF call[t].id \in Range(call[t].config)
                    THEN acknowledged \cup {call[t].id} ELSE acknowledged \ {call[t].id}

\* A list that is in the file already is not written.  An empty list is
\* written as null, which a file with [] is not.
Unwritten(t) ==
  /\ call[t].pc = "compare" /\ inputsFile = call[t].config
  /\ call' = Answer(t) /\ Acknowledge(t)
  /\ UNCHANGED <<up, inputsFile, tcpServers, inputsModified, disturbed>>

Differs(t) ==
  /\ call[t].pc = "compare" /\ inputsFile # Torn
  /\ inputsFile # call[t].config \/ call[t].config = <<>>
  /\ call' = Goes(t, "open")
  /\ UNCHANGED <<up, inputsFile, tcpServers, inputsModified, acknowledged, disturbed>>

CompareTorn(t) == call[t].pc = "compare" /\ inputsFile = Torn /\ Die

\* Mutant.  A file that could be opened and not written is left as it is.
GivesUpAfterOpening(t) == Answer(t)

\* The thread once the file is open.
Opened(t) == Goes(t, "write")

\* Opening empties the file, or fails and the call says false.
Open(t) ==
  /\ call[t].pc = "open"
  /\ \/ inputsFile' = Torn /\ call' = Opened(t)
     \/ UNCHANGED inputsFile /\ call' = Answer(t)
  /\ UNCHANGED <<up, tcpServers, inputsModified, acknowledged, disturbed>>

WriteAndClose(t) ==
  /\ call[t].pc = "write"
  /\ inputsFile' = call[t].config
  /\ call' = Goes(t, "mark")
  /\ UNCHANGED <<up, tcpServers, inputsModified, acknowledged, disturbed>>

\* Mutant.  Only an input that was added counts as a modification.
MarkedIfAdded(t) == inputsModified \/ call[t].id \in Range(call[t].config)

MarkedBy(t) == TRUE

MarkModified(t) ==
  /\ call[t].pc = "mark"
  /\ inputsModified' = MarkedBy(t)
  /\ call' = Answer(t) /\ Acknowledge(t)
  /\ UNCHANGED <<up, inputsFile, tcpServers, disturbed>>

InputsCall(t) ==
  \/ \E id \in InputIds : AddInput(t, id) \/ RemInput(t, id)
  \/ ReadTorn(t) \/ Unwritten(t) \/ Differs(t) \/ CompareTorn(t)
  \/ Open(t) \/ WriteAndClose(t) \/ MarkModified(t)

Stop == up /\ Die
Start ==
  /\ ~up
  /\ \/ inputsFile \notin {Torn, Missing} /\ up' = TRUE /\ Load
     \/ CreateAndLoad /\ up' = TRUE
     \/ CreationCutShort /\ UNCHANGED up

Next == Stop \/ Start \/ \E t \in Admins : InputsCall(t)

Spec == Init /\ [][Next]_<<up, inputVars>>
-----------------------------------------------------------------------------
InputLists == {s \in Seq(InputIds) : Len(s) <= MaxInputs}

CallStates ==
  [pc : {"idle", "compare", "open", "write", "mark"}, id : InputIds \cup {"none"}, config : InputLists]

\* The shape of every variable; a daemon that is down has nothing in memory.
TypeOK ==
  /\ up \in BOOLEAN /\ inputsModified \in BOOLEAN /\ disturbed \in BOOLEAN
  /\ inputsFile \in {Torn, Missing} \cup InputLists
  /\ up => inputsFile # Missing
  /\ tcpServers \in InputLists
  /\ acknowledged \subseteq InputIds
  /\ call \in [Admins -> CallStates]
  /\ ~up => tcpServers = <<>> /\ ~inputsModified /\ InProgress = {}

\* The file is without contents only while a call of the running daemon has it
\* open: overlapping calls leave no torn file behind.
TornOnlyWhileWriting ==
  up /\ inputsFile = Torn => \E t \in Admins : call[t].pc = "write"

\* While the page inputsconfig.html does not ask for a reload and no call is in
\* progress, the servers that run are those of the file, whatever calls
\* overlapped before.
UnflaggedInputsRun ==
  up /\ ~inputsModified /\ InProgress = {} => tcpServers = inputsFile

\* As long as calls do not overlap and none is cut short while it writes, the
\* file has the inputs that callers were told it has, each once, through
\* restarts, failed writes and calls that change nothing.
AnswersHold ==
  ~disturbed /\ InProgress = {} =>
    /\ inputsFile # Torn
    /\ IF inputsFile = Missing THEN acknowledged = {} ELSE Range(inputsFile) = acknowledged
    /\ inputsFile # Missing =>
         \A i, j \in DOMAIN inputsFile : i # j => inputsFile[i] # inputsFile[j]
=============================================================================
