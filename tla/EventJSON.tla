------------------------------ MODULE EventJSON ------------------------------
(***************************************************************************)
(* Audit_Event: from the records of an event, in the order in which the    *)
(* connections delivered them, to its JSON.                                *)
(*                                                                         *)
(* classVars is a multimap: a PATH record makes an object of its own, a    *)
(* record of any other class joins the object of its class.  process lets  *)
(* every object find its variables (ClassContents), getJSON shows them.    *)
(*                                                                         *)
(* A record is [class, tokens].                                            *)
(***************************************************************************)
EXTENDS ClassContents, SequencesExt

CONSTANTS
  RecordSets,   \* sets of records: an event is made of the records of one
  ClassOrder,   \* the classes, in the alphabetical order of the multimap
  MaxRecords    \* bound: set of records -> records of an event, copies included

ASSUME EventAssumption ==
  /\ MaxRecords \in [RecordSets -> Nat]
  /\ ClassOrder \in Seq({ClassOrder[k] : k \in DOMAIN ClassOrder})
  /\ \A j, k \in DOMAIN ClassOrder : ClassOrder[j] = ClassOrder[k] => j = k
  /\ \A R \in RecordSets : \A r \in R : \E k \in DOMAIN ClassOrder : ClassOrder[k] = r.class

\* What the EXECVE records of a command hold: any names, each whole or in numbered
\* chunks, each text a piece of its own.
TokensIn(R, class) ==
  UNION {{r.tokens[j] : j \in DOMAIN r.tokens} : r \in {s \in R : s.class = class}}
CommandTokens(T) ==
  \A x \in T :
    /\ x.name[1] # NoVariable /\ x.name[2] \in Nat \cup {Whole}
    /\ x.form \in {"quoted", "hex", "plain", "cut", "empty"}
    /\ x.form # "cut" => x.text = <<x.text[1]>> /\ x.text[1][1] = x.name[1] /\ x.text[1][2] = x.name[2]

\* The kernel writes one address for an event, in one field.
AddressToken(x) ==
  /\ x.name \notin {Family, IPAddr, Port, UnixPath} /\ x.name[2] = Whole
  /\ x.form \in {"plain", "address"}
  /\ x.form = "address" => Len(x.text) = 4

KeyName == <<"key", Whole>>
KeyToken(x) ==
  /\ x.form \in {"quoted", "hex", "plain", "cut", "empty"}
  /\ x.form = "cut" => x.text = <<>>

ASSUME KernelAssumption ==
  \A R \in RecordSets :
    /\ \A r \in R : r.tokens \in Seq(TokensIn(R, r.class))
    /\ \A r \in R : \A x \in TokensIn(R, r.class) : x.name = <<x.name[1], x.name[2]>>
    /\ CommandTokens(TokensIn(R, "EXECVE"))
    /\ \A r, s \in R : r.class = "SOCKADDR" /\ s.class = "SOCKADDR" =>
         Len(r.tokens) = 1 /\ AddressToken(r.tokens[1]) /\ r.tokens = s.tokens
    /\ \A r \in R : \A x \in TokensIn(R, r.class) : x.name = KeyName => KeyToken(x)

VARIABLES
  kinds,        \* the records that may arrive
  records,      \* history: those that did
  classVars,    \* class -> its objects in order, each [raw, content]
  phase,        \* "arriving", "processing" or "shown"
  processed     \* the objects that process has done

eventVars == <<kinds, records, classVars, phase, processed>>

ClassSet == {ClassOrder[k] : k \in DOMAIN ClassOrder}

EventInit ==
  /\ ClassInit
  /\ kinds \in RecordSets
  /\ records = <<>>
  /\ classVars = [c \in ClassSet |-> <<>>]
  /\ phase = "arriving" /\ processed = {}
-----------------------------------------------------------------------------
\* Mutant.  PATH is no exception.
OneForAll(class) == classVars[class] = <<>>

\* insertClassContents: whether the record gets an object of its own.
OwnObject(class) == class = "PATH" \/ classVars[class] = <<>>

\* The objects of the record's class once it is in: the others append to the
\* text of the first.
ObjectsAfter(r) ==
  IF OwnObject(r.class) THEN Append(classVars[r.class], [raw |-> r.tokens, content |-> NoVars])
  ELSE [classVars[r.class] EXCEPT ![1].raw = @ \o r.tokens]

InsertClassContents(r) ==
  /\ phase = "arriving" /\ Len(records) < MaxRecords[kinds]
  /\ records' = Append(records, r)
  /\ classVars' = [classVars EXCEPT ![r.class] = ObjectsAfter(r)]
  /\ UNCHANGED <<kinds, phase, processed, objectVars>>

\* The objects, <<number of the class, position>>, and which of them the loop
\* over the multimap comes to next: classes in order, objects as inserted.
Objects == UNION {{<<k, i>> : i \in DOMAIN classVars[ClassOrder[k]]} : k \in DOMAIN ClassOrder}
IsNext(at) ==
  /\ at \in Objects \ processed
  /\ \A o \in Objects \ processed : at[1] < o[1] \/ (at[1] = o[1] /\ at[2] <= o[2])

\* The event left its host's map: process goes through the objects.
Process ==
  /\ phase = "arriving" /\ records # <<>>
  /\ phase' = "processing"
  /\ UNCHANGED <<kinds, records, classVars, processed, objectVars>>

BeginObject ==
  /\ phase = "processing"
  /\ \E at \in Objects :
       IsNext(at) /\ Begin(ClassOrder[at[1]], classVars[ClassOrder[at[1]]][at[2]].raw)
  /\ UNCHANGED eventVars

\* The object has its variables.
EndObject ==
  /\ phase = "processing" /\ pc = "done"
  /\ \E at \in Objects :
       /\ IsNext(at)
       /\ classVars' = [classVars EXCEPT ![ClassOrder[at[1]]][at[2]].content = contentVars]
       /\ processed' = processed \cup {at}
  /\ pc' = "idle"
  /\ UNCHANGED <<kinds, records, phase, classTypeName, rawInput, contentVars, pos, toMerge, chunk>>

Show ==
  /\ phase = "processing" /\ processed = Objects /\ pc = "idle"
  /\ phase' = "shown"
  /\ UNCHANGED <<kinds, records, classVars, processed, objectVars>>

EventStep ==
  \/ \E r \in kinds : InsertClassContents(r)
  \/ Process \/ BeginObject \/ EndObject \/ Show
  \/ ProcessStep /\ UNCHANGED eventVars

EventSpec == EventInit /\ [][EventStep]_<<objectVars, eventVars>>
-----------------------------------------------------------------------------
(* getJSON.  No class is called INFO.                                        *)

ShownOf(class) ==
  [i \in DOMAIN classVars[class] |-> ClassJSON(class, classVars[class][i].content)]

\* Mutant.  Only a system call has a key.
KeyOfSystemCall(class) ==
  /\ class = "SYSCALL" /\ classVars[class] # <<>>
  /\ KeyName \in DOMAIN classVars[class][1].content

HasKey(class) ==
  /\ classVars[class] # <<>>
  /\ KeyName \in DOMAIN classVars[class][1].content
  /\ ~ShowsArguments(class, classVars[class][1].content)

\* INFO.key: that of the first object of the last class that has one there.
NoKey == <<>>
EventKey ==
  LET with == {k \in DOMAIN ClassOrder : HasKey(ClassOrder[k])}
      last == CHOOSE k \in with : \A j \in with : j <= k
  IN  IF with = {} THEN NoKey ELSE classVars[ClassOrder[last]][1].content[KeyName].fancy
-----------------------------------------------------------------------------
\* The shape of the event, and of the object at hand.
EventTypeOK ==
  /\ ClassTypeOK
  /\ kinds \in RecordSets /\ records \in Seq(kinds) /\ Len(records) <= MaxRecords[kinds]
  /\ phase \in {"arriving", "processing", "shown"}
  /\ processed \subseteq Objects
  /\ pc # "idle" => phase = "processing" /\ processed # Objects

\* What an object made of these tokens should show: of every name the last
\* text that was written without quotes and can be read, or else the last one in
\* quotes, or else no text.
TokensNamed(tokens, n, forms) == SelectSeq(tokens, LAMBDA x : x.name = n /\ x.form \in forms)
FieldText(tokens, n) ==
  LET bare == TokensNamed(tokens, n, {"plain", "hex"})
      quoted == TokensNamed(tokens, n, {"quoted"})
  IN  CASE bare # <<>> -> Last(bare).text
        [] bare = <<>> /\ quoted # <<>> -> Last(quoted).text
        [] OTHER -> <<>>
ObjectOf(tokens) ==
  [n \in {x.name : x \in {tokens[j] : j \in {i \in DOMAIN tokens : tokens[i].form # "empty"}}} |->
     FieldText(tokens, n)]

NoChunks(tokens) == \A j \in DOMAIN tokens : tokens[j].name[2] = Whole
RecordsOf(class) == SelectSeq(records, LAMBDA r : r.class = class)
TokensOf(class) == FlattenSeq([k \in DOMAIN RecordsOf(class) |-> RecordsOf(class)[k].tokens])

\* The JSON of an event depends on the order of its records within each class
\* only, however the classes are interleaved over connections: every PATH
\* record is an object of its own, with its own fields in its own position, and
\* the records of any other class make one object that shows every name one of
\* them had (chunks are the matter of ArgvFaithful).
EventAsArrived ==
  phase = "shown" =>
    /\ \A class \in {c \in ClassSet \ {"EXECVE", "PATH", "SOCKADDR"} : NoChunks(TokensOf(c))} :
         ShownOf(class) = IF RecordsOf(class) = <<>> THEN <<>> ELSE <<ObjectOf(TokensOf(class))>>
    /\ NoChunks(TokensOf("PATH")) =>
         ShownOf("PATH") = [i \in DOMAIN RecordsOf("PATH") |-> ObjectOf(RecordsOf("PATH")[i].tokens)]

\* A key that a record outside PATH and EXECVE carries is never missing from INFO,
\* whichever class carries it and in whichever record, and what INFO shows is the
\* text of one pair key=... that the event holds: a field of a record, or a pair
\* that stands in the quoted text of another field.
HoldsKey(tokens) == \E j \in DOMAIN tokens : tokens[j].name = KeyName /\ tokens[j].form # "empty"
KeyInChunks(tokens) ==
  \E j \in DOMAIN tokens : tokens[j].name[1] = KeyName[1] /\ tokens[j].name[2] # Whole
KeyShown ==
  /\ phase = "shown" /\ (\A j \in DOMAIN records : ~KeyInChunks(records[j].tokens))
  /\ \E j \in DOMAIN records : records[j].class \notin {"PATH", "EXECVE"} /\ HoldsKey(records[j].tokens)
  =>
    /\ \E k \in DOMAIN ClassOrder : HasKey(ClassOrder[k])
    /\ \E j \in DOMAIN records : \E k \in DOMAIN records[j].tokens :
         records[j].tokens[k].name = KeyName /\ records[j].tokens[k].text = EventKey

\* An event has one socket address.  Its object shows, beside saddr, the parts
\* that this address has, however often the record came and in whichever pass
\* it is read: a family, an address and a port, empty where there is none, and
\* a path only if there is one.  An address that is too long shows saddr only.
PartsOfAddress(x) ==
  {x.name} \cup (IF x.form # "address" THEN {}
                 ELSE {Family, IPAddr, Port} \cup {n \in {UnixPath} : x.text[4] # NoPart})
AddressParts(x) ==
  [n \in PartsOfAddress(x) |->
     IF n = x.name THEN x.text
     ELSE LET part == x.text[CASE n = Family -> 1 [] n = IPAddr -> 2 [] n = Port -> 3 [] n = UnixPath -> 4]
          IN  IF part = NoPart THEN <<>> ELSE <<part>>]
AddressAsArrived ==
  phase = "shown" =>
    \A r \in {records[j] : j \in DOMAIN records} :
      r.class = "SOCKADDR" => ShownOf("SOCKADDR") = <<AddressParts(r.tokens[1])>>
=============================================================================
