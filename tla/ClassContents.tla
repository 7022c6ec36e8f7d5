---------------------------- MODULE ClassContents ----------------------------
(***************************************************************************)
(* Audit_ClassType and Audit_Var: from the text of one object of an event, *)
(* the records of one class joined in the order in which they arrived, to  *)
(* its variables and to what its JSON shows.                               *)
(*                                                                         *)
(* Most records are fields.  For EXECVE the kernel writes argc, and every  *)
(* argument either whole, a1="text" or a1=HEX, or in numbered chunks,      *)
(* a1[0]=... a1[1]=...  A long record may be cut, which leaves an odd      *)
(* number of hexadecimal digits.                                           *)
(*                                                                         *)
(* A token is one name=value: [name, form, text].  Its name is <<variable, *)
(* chunk>>; its text is what the value decodes to, in pieces, and nothing  *)
(* when it is cut.  The form says how the value is written: "quoted",      *)
(* "hex", "plain", "empty" for a pair of quotes, "cut", and "address" for  *)
(* a saddr that fits: its text is what the socket address holds, <<family, *)
(* address, port, path>> or NoPart.                                        *)
(*                                                                         *)
(* A token is whatever the two expressions match, wherever it stands.  No  *)
(* name has an equals sign, a caret or a space, and no bare value a caret, *)
(* a space or a quote: a text in quotes may hold tokens of its own, under  *)
(* any name.  a1="x^a0=41" is a1 in quotes and then a0 in digits, the text *)
(* of a1="b=c" holds a token named "b.  rawPure, which nobody reads, is    *)
(* left out.                                                               *)
(***************************************************************************)
EXTENDS Integers, Sequences, FiniteSets

CONSTANT Arguments  \* getJSON: "a" + to_string(i), the names of the arguments

ASSUME ArgumentsAssumption == Arguments \in Seq({Arguments[i] : i \in DOMAIN Arguments})

\* The loop of getJSON ends there.
ASSUME LoopAssumption == Len(Arguments) <= 65536

Whole == -1
Argc == <<"argc", Whole>>

VARIABLES
  classTypeName,  \* the class of the object at hand
  rawInput,       \* its text: the tokens, in the order of arrival
  contentVars,    \* name -> Audit_Var
  pc,             \* "idle", the pass over rawInput, the merge, or "done"
  pos,            \* the next token of the pass
  toMerge,        \* variables in chunks that are still to be merged
  chunk           \* the variable being merged and its next chunk

objectVars == <<classTypeName, rawInput, contentVars, pc, pos, toMerge, chunk>>

\* No name has a space.
NoVariable == "no variable"
NoVars == [n \in {} |-> n]

ClassInit ==
  /\ classTypeName = NoVariable /\ rawInput = <<>> /\ contentVars = NoVars
  /\ pc = "idle" /\ pos = 1
  /\ toMerge = {} /\ chunk = [of |-> NoVariable, next |-> 0]

\* processToVarContent is called for an object.
Begin(class, tokens) ==
  /\ pc = "idle"
  /\ classTypeName' = class /\ rawInput' = tokens /\ contentVars' = NoVars
  /\ pc' = "quoted" /\ pos' = 1
  /\ UNCHANGED <<toMerge, chunk>>
-----------------------------------------------------------------------------
(* processToVarContent: a pass for NAME="..." and one for NAME=..., over the *)
(* whole text.  An empty pair of quotes matches neither expression.          *)

\* Mutant.  The second expression takes a value in quotes as well.
QuotesInBoth(form) == IF form = "quoted" THEN {"quoted", "bare"} ELSE IF form = "empty" THEN {} ELSE {"bare"}

PassesOf(form) ==
  CASE form = "quoted" -> {"quoted"} [] form = "empty" -> {} [] OTHER -> {"bare"}

NewVar == [valid |-> FALSE, fancy |-> <<>>]

\* contentVars[name]: the variable is made when it is not there.
Lookup(name) == IF name \in DOMAIN contentVars THEN contentVars[name] ELSE NewVar

\* Audit_Var::parse.  What is neither quoted nor whole hexadecimal digits makes
\* a text variable invalid and leaves its text as it was.
ParsedVar(x) ==
  IF x.form = "cut" THEN [Lookup(x.name) EXCEPT !.valid = FALSE]
  ELSE [valid |-> TRUE, fancy |-> x.text]

Overridden(vars) ==
  [n \in DOMAIN contentVars \cup DOMAIN vars |-> IF n \in DOMAIN vars THEN vars[n] ELSE contentVars[n]]
With(name, var) == Overridden([n \in {name} |-> var])

\* parseVar of a saddr: what the address holds becomes variables too.  A text
\* of length 0 is no valid variable, and leaves the text there was.
Family == <<"family", Whole>>
IPAddr == <<"ipaddr", Whole>>
Port == <<"port", Whole>>
UnixPath == <<"unix_path", Whole>>
NoPart == ""
PartVar(name, part) ==
  IF part = NoPart THEN [Lookup(name) EXCEPT !.valid = FALSE] ELSE [valid |-> TRUE, fancy |-> <<part>>]

\* Mutant.  The path is a variable of every address.
AllParts(path) == {Family, IPAddr, Port, UnixPath}

PartsShown(path) == {Family, IPAddr, Port} \cup (IF path # NoPart THEN {UnixPath} ELSE {})
AddressVars(text) ==
  LET PartOf(n) == CASE n = Family -> text[1] [] n = IPAddr -> text[2]
                     [] n = Port -> text[3] [] n = UnixPath -> text[4]
  IN  [n \in PartsShown(text[4]) |-> PartVar(n, PartOf(n))]

\* The variables that a token sets.
Parsed(x) ==
  LET var == [n \in {x.name} |-> ParsedVar(x)]
      parts == IF x.form = "address" THEN AddressVars(x.text) ELSE NoVars
  IN  [n \in DOMAIN var \cup DOMAIN parts |-> IF n \in DOMAIN var THEN var[n] ELSE parts[n]]

ParseVar ==
  /\ pc \in {"quoted", "bare"} /\ pos <= Len(rawInput)
  /\ contentVars' = IF pc \in PassesOf(rawInput[pos].form)
                      THEN Overridden(Parsed(rawInput[pos])) ELSE contentVars
  /\ pos' = pos + 1
  /\ UNCHANGED <<classTypeName, rawInput, pc, toMerge, chunk>>

SecondPass ==
  /\ pc = "quoted" /\ pos > Len(rawInput)
  /\ pc' = "bare" /\ pos' = 1
  /\ UNCHANGED <<classTypeName, rawInput, contentVars, toMerge, chunk>>
-----------------------------------------------------------------------------
(* mergeSpplitedVars.                                                        *)

SpplitedVarNames == {n[1] : n \in {m \in DOMAIN contentVars : m[2] = 0}}

FindSpplited ==
  /\ pc = "bare" /\ pos > Len(rawInput)
  /\ pc' = "merge"
  /\ toMerge' = SpplitedVarNames
  /\ UNCHANGED <<classTypeName, rawInput, contentVars, pos, chunk>>

\* Audit_Var::append: an invalid chunk makes the variable invalid, and its text
\* is skipped.
Appended(var, v) ==
  IF v.valid THEN [var EXCEPT !.fancy = @ \o v.fancy] ELSE [var EXCEPT !.valid = FALSE]

\* The variables once chunk k of v is appended to it and erased.
Merged(v, k) ==
  LET all == With(<<v, Whole>>, Appended(Lookup(<<v, Whole>>), Lookup(<<v, k>>)))
  IN  [n \in DOMAIN all \ {<<v, k>>} |-> all[n]]

\* Mutants.  The loop does not look for the chunk; all chunks are erased with
\* the first.
ChunkAssumed(v, k) == TRUE
MergedAndErased(v, k) ==
  LET all == Merged(v, k)
  IN  [n \in {m \in DOMAIN all : m[1] = v => m[2] = Whole} |-> all[n]]

FirstAfterZero == 1
HasChunk(v, k) == <<v, k>> \in DOMAIN contentVars
VarsAfterMerge(v, k) == Merged(v, k)

MergeZero(v) ==
  /\ pc = "merge" /\ chunk.of = NoVariable /\ v \in toMerge
  /\ contentVars' = VarsAfterMerge(v, 0)
  /\ toMerge' = toMerge \ {v}
  /\ chunk' = [of |-> v, next |-> FirstAfterZero]
  /\ UNCHANGED <<classTypeName, rawInput, pc, pos>>

MergeNext ==
  /\ chunk.of # NoVariable /\ HasChunk(chunk.of, chunk.next)
  /\ contentVars' = VarsAfterMerge(chunk.of, chunk.next)
  /\ chunk' = [chunk EXCEPT !.next = @ + 1]
  /\ UNCHANGED <<classTypeName, rawInput, pc, pos, toMerge>>

\* The first number that is missing ends the loop.
EndOfChunks ==
  /\ chunk.of # NoVariable /\ ~HasChunk(chunk.of, chunk.next)
  /\ chunk' = [of |-> NoVariable, next |-> 0]
  /\ UNCHANGED <<classTypeName, rawInput, contentVars, pc, pos, toMerge>>

Finish ==
  /\ pc = "merge" /\ chunk.of = NoVariable /\ toMerge = {}
  /\ pc' = "done"
  /\ UNCHANGED <<classTypeName, rawInput, contentVars, pos, toMerge, chunk>>

ProcessStep ==
  \/ ParseVar \/ SecondPass \/ FindSpplited
  \/ \E v \in toMerge : MergeZero(v)
  \/ MergeNext \/ EndOfChunks \/ Finish
-----------------------------------------------------------------------------
NotFound == <<<<"__UAA_PARSER_NOT_FOUND__", Whole>>>>

\* asUInt32 of argc: each piece of its text is <<"argc", chunk, number>>, and one
\* digit when it is a chunk.
Number(text) ==
  LET upTo[k \in 0..Len(text)] == IF k = 0 THEN 0 ELSE 10 * upTo[k - 1] + text[k][3]
  IN  upTo[Len(text)]

\* getJSON of an object with these variables: an EXECVE that has argc shows its
\* arguments from 0 to argc - 1, anything else whatever is there.
ShowsArguments(class, content) == class = "EXECVE" /\ Argc \in DOMAIN content

Argv(content) ==
  LET Shown(i) == LET n == <<Arguments[i], Whole>>
                  IN  IF n \in DOMAIN content THEN content[n].fancy ELSE NotFound
  IN  [i \in {j \in DOMAIN Arguments : j <= Number(content[Argc].fancy)} |-> Shown(i)]

ClassJSON(class, content) ==
  IF ShowsArguments(class, content) THEN [argv |-> Argv(content)]
  ELSE [n \in DOMAIN content |-> content[n].fancy]
-----------------------------------------------------------------------------
NamesIn == {rawInput[j].name : j \in DOMAIN rawInput}
Variables == {n[1] : n \in NamesIn}
AllNames == NamesIn \cup {<<v, Whole>> : v \in Variables}

\* The shape of every variable.
ClassTypeOK ==
  /\ pc \in {"idle", "quoted", "bare", "merge", "done"}
  /\ pos \in 1..Len(rawInput) + 1
  /\ DOMAIN contentVars \subseteq AllNames \cup {Family, IPAddr, Port, UnixPath}
  /\ \A n \in DOMAIN contentVars : contentVars[n].valid \in BOOLEAN
  /\ toMerge \subseteq Variables
  /\ chunk.next \in 0..Len(rawInput) + 1

\* What came in under a name.  Everything in quotes is read first, and then
\* everything else; the copy read last counts.
Copies(name) == {j \in DOMAIN rawInput : rawInput[j].name = name /\ rawInput[j].form # "empty"}
Arrived(name) == Copies(name) # {}
InQuotes(j) == rawInput[j].form = "quoted"
ReadBefore(j, k) == IF InQuotes(j) <=> InQuotes(k) THEN j < k ELSE InQuotes(j)
LastOf(C) == CHOOSE j \in C : \A k \in C \ {j} : ReadBefore(k, j)
Intact(name) == Arrived(name) /\ rawInput[LastOf(Copies(name))].form # "cut"

\* The last of the texts that could be read under a name.
Readables(name) == {j \in Copies(name) : rawInput[j].form # "cut"}
TextRead(name) == rawInput[LastOf(Readables(name))].text[1]

\* The text of a variable consists of its whole text and the chunks up to the
\* first that is missing, without those that are cut, by number.
Contiguous(v) == {n \in NamesIn : n[1] = v /\ n[2] # Whole /\ \A i \in 0..n[2] : Arrived(<<v, i>>)}
Parts(v) == {n \in Contiguous(v) : Intact(n)} \cup {n \in {<<v, Whole>>} : Readables(n) # {}}
JoinedFrom(t, P) ==
  /\ t \in Seq(P) /\ \A p \in P : \E j \in DOMAIN t : t[j] = p
  /\ \A i, j \in DOMAIN t : i < j => t[i][2] < t[j][2]
IsTextOf(t, v) == JoinedFrom(t, {TextRead(n) : n \in Parts(v)})

\* However the records were ordered or repeated, the number of arguments and each
\* argument are the whole text last read under its name, then the chunks in the
\* order of their numbers up to the first one missing and without the cut ones;
\* an argument is not found when nothing came, or only the empty argument, or
\* chunks without chunk 0.  A pair that stands in the text of another argument
\* counts as one of the name it gives, and is read after everything in quotes.
Came(v) == Arrived(<<v, 0>>) \/ Arrived(<<v, Whole>>)
ArgvFaithful ==
  pc = "done" /\ classTypeName = "EXECVE" /\ Came("argc") =>
    /\ IsTextOf(contentVars[Argc].fancy, "argc")
    /\ \A i \in DOMAIN Arguments : i <= Number(contentVars[Argc].fancy) =>
         LET v == Arguments[i]
             shown == ClassJSON(classTypeName, contentVars).argv[i]
         IN  IF Came(v) THEN IsTextOf(shown, v) ELSE shown = NotFound

\* Merging neither loses nor repeats a text: the last one read under each name is
\* in its variable, or stays behind as an orphan, and in one place only.
TextsIn(name) == {contentVars[name].fancy[j] : j \in DOMAIN contentVars[name].fancy}
NoTextLost ==
  pc = "done" /\ classTypeName = "EXECVE" =>
    /\ \A n \in NamesIn : Intact(n) => \E m \in DOMAIN contentVars : TextRead(n) \in TextsIn(m)
    /\ \A m, n \in DOMAIN contentVars : m # n => TextsIn(m) \cap TextsIn(n) = {}
    /\ \A n \in DOMAIN contentVars : \A i, j \in DOMAIN contentVars[n].fancy :
         i # j => contentVars[n].fancy[i] # contentVars[n].fancy[j]
=============================================================================
