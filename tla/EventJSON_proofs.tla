-------------------------- MODULE EventJSON_proofs --------------------------
(* Proofs about EventJSON, and so about ClassContents: every object of an    *)
(* event, whatever records came and in which order.                          *)
EXTENDS EventJSON, FiniteSetTheorems, WellFoundedInduction, TLAPS

\* argc is a variable like any other.
LEMMA ArgcName == Argc = <<"argc", Whole>> /\ Argc[1] = "argc" /\ Argc[2] = Whole
BY DEF Argc

\* Whole is the number of no chunk.
LEMMA WholeIsNoChunk == Whole \notin Nat /\ Whole \in Int /\ Whole # 0 /\ \A k \in Nat : Whole < k
BY DEF Whole
-----------------------------------------------------------------------------
(* The order in which tokens are read.                                       *)

IsLast(j, C) == j \in C /\ \A k \in C \ {j} : ReadBefore(k, j)

\* The token of a set that is read last is the only one.
LEMMA LastIsUnique ==
  ASSUME NEW C \in SUBSET Int, NEW j, IsLast(j, C)
  PROVE  LastOf(C) = j
<1>1. PICK l : l = LastOf(C)
  OBVIOUS
<1>2. IsLast(l, C)
  BY <1>1 DEF LastOf, IsLast
<1>3. ASSUME l # j PROVE FALSE
  <2>1. ReadBefore(l, j) /\ ReadBefore(j, l)
    BY <1>2, <1>3 DEF IsLast
  <2>2. l \in Int /\ j \in Int
    BY <1>2 DEF IsLast
  <2>. QED BY <2>1, <2>2 DEF ReadBefore
<1>. QED BY <1>1, <1>3

\* What has been read does not change while the text stays.
LEMMA SameReading ==
  ASSUME UNCHANGED rawInput
  PROVE  /\ NamesIn' = NamesIn
         /\ \A n : /\ Copies(n)' = Copies(n) /\ Readables(n)' = Readables(n)
                   /\ Arrived(n)' <=> Arrived(n)
                   /\ Intact(n)' <=> Intact(n)
                   /\ TextRead(n)' = TextRead(n)
<1>1. NamesIn' = NamesIn /\ \A n : Copies(n)' = Copies(n)
  BY DEF NamesIn, Copies
<1>2. \A n : Readables(n)' = Readables(n) /\ (Arrived(n)' <=> Arrived(n))
  BY <1>1 DEF Readables, Arrived
<1>3. \A n : LastOf(Copies(n))' = LastOf(Copies(n)) /\ LastOf(Readables(n))' = LastOf(Readables(n))
  BY <1>1, <1>2 DEF LastOf, ReadBefore, InQuotes
<1>. QED BY <1>1, <1>2, <1>3 DEF Intact, TextRead
-----------------------------------------------------------------------------
(* The two passes over the tokens of a command.                              *)

\* Tokens of a command, as rawInput holds them.
Command(T) ==
  /\ rawInput \in Seq(T) /\ CommandTokens(T) /\ \A x \in T : x.name = <<x.name[1], x.name[2]>>

\* The tokens that set their variable so far, in the pass that they are for.
Seen ==
  {j \in DOMAIN rawInput :
     /\ rawInput[j].form # "empty"
     /\ IF rawInput[j].form = "quoted" THEN pc = "bare" \/ j < pos ELSE pc = "bare" /\ j < pos}

\* What a variable is once the tokens at these positions set it: the last one
\* decides whether it is valid, the last that could be read gives its text.
TextFits(fancy, C) ==
  LET read == {k \in C : rawInput[k].form # "cut"}
  IN  IF read = {} THEN fancy = <<>> ELSE \E r : IsLast(r, read) /\ fancy = rawInput[r].text
VarFits(var, C) ==
  \E j : /\ IsLast(j, C)
         /\ var = [valid |-> rawInput[j].form # "cut", fancy |-> var.fancy]
         /\ TextFits(var.fancy, C)

\* The variables of a command during the passes.
PassInv ==
  /\ pos \in 1..Len(rawInput) + 1
  /\ \A n \in DOMAIN contentVars : Copies(n) \cap Seen # {}
  /\ \A n : Copies(n) \cap Seen # {} =>
       n \in DOMAIN contentVars /\ VarFits(contentVars[n], Copies(n) \cap Seen)

\* A token sets its variable in one of the two passes.
LEMMA OwnPass ==
  ASSUME NEW form
  PROVE  /\ "quoted" \in PassesOf(form) <=> form = "quoted"
         /\ "bare" \in PassesOf(form) <=> form \notin {"quoted", "empty"}
BY DEF PassesOf

\* The pass comes to the token at pos: it is read after all that were seen.
LEMMA SeenGrows ==
  ASSUME NEW T, Command(T), pc \in {"quoted", "bare"}, pos \in 1..Len(rawInput),
         pos' = pos + 1, UNCHANGED <<rawInput, pc>>
  PROVE  LET own == pc \in PassesOf(rawInput[pos].form)
         IN  /\ Seen' = IF own THEN Seen \cup {pos} ELSE Seen
             /\ own => \A j \in Seen : j # pos /\ ReadBefore(j, pos)
<1> DEFINE x == rawInput[pos]
           own == IF x.form = "quoted" THEN pc = "quoted" ELSE x.form # "empty" /\ pc = "bare"
<1>1. DOMAIN rawInput = 1..Len(rawInput) /\ Len(rawInput) \in Nat
  BY DEF Command
<1>2. Seen' = IF own THEN Seen \cup {pos} ELSE Seen
  <2>1. ASSUME NEW j \in DOMAIN rawInput
        PROVE  j \in Seen' <=> j \in Seen \/ (own /\ j = pos)
    <3>1. j < pos' <=> j < pos \/ j = pos
      BY <1>1
    <3>. QED BY <3>1 DEF Seen
  <2>2. Seen \subseteq DOMAIN rawInput /\ Seen' \subseteq DOMAIN rawInput /\ pos \in DOMAIN rawInput
    BY <1>1 DEF Seen
  <2>. QED BY <2>1, <2>2
<1>3. ASSUME own, NEW j \in Seen PROVE j # pos /\ ReadBefore(j, pos)
  BY <1>1, <1>3 DEF Seen, ReadBefore, InQuotes
<1>4. own <=> pc \in PassesOf(x.form)
  BY OwnPass
<1> HIDE DEF own
<1>. QED BY <1>2, <1>3, <1>4

\* One match sets one variable, when the token is no socket address.
LEMMA OneVariable ==
  ASSUME NEW x, x.form # "address"
  PROVE  Overridden(Parsed(x))
           = [n \in DOMAIN contentVars \cup {x.name} |-> IF n = x.name THEN ParsedVar(x) ELSE contentVars[n]]
<1> DEFINE name == x.name  var == ParsedVar(x)
<1>1. Parsed(x) = [n \in {name} |-> var]
  <2>1. DOMAIN NoVars = {}
    BY DEF NoVars
  <2> HIDE DEF name, var
  <2>2. Parsed(x) = LET v == [n \in {name} |-> var]
                    IN  [n \in DOMAIN v \cup DOMAIN NoVars |-> IF n \in DOMAIN v THEN v[n] ELSE NoVars[n]]
    BY DEF Parsed, name, var
  <2>. QED BY <2>1, <2>2
<1> HIDE DEF name, var
<1>. QED BY <1>1 DEF Overridden, name, var

\* A token read after all others decides whether the variable is valid, and its
\* text when it can be read.
LEMMA LastOneDecides ==
  ASSUME NEW C, NEW p, \A k \in C : k # p /\ ReadBefore(k, p), NEW fancy,
         IF rawInput[p].form = "cut" THEN TextFits(fancy, C) ELSE fancy = rawInput[p].text
  PROVE  VarFits([valid |-> rawInput[p].form # "cut", fancy |-> fancy], C \cup {p})
<1>1. PICK D, var : D = C \cup {p} /\ var = [valid |-> rawInput[p].form # "cut", fancy |-> fancy]
  OBVIOUS
<1>2. var.fancy = fancy
  BY <1>1
<1>3. IsLast(p, D)
  BY <1>1 DEF IsLast
<1>4. TextFits(fancy, D)
  <2>1. CASE rawInput[p].form = "cut"
    <3>1. {k \in D : rawInput[k].form # "cut"} = {k \in C : rawInput[k].form # "cut"}
      BY <1>1, <2>1
    <3>. QED BY <2>1, <3>1 DEF TextFits
  <2>2. CASE rawInput[p].form # "cut"
    <3>1. IsLast(p, {k \in D : rawInput[k].form # "cut"})
      BY <1>1, <2>2 DEF IsLast
    <3>2. p \in {k \in D : rawInput[k].form # "cut"}
      BY <1>1, <2>2
    <3>. QED BY <2>2, <3>1, <3>2 DEF TextFits
  <2>. QED BY <2>1, <2>2
<1>5. VarFits(var, D)
  BY <1>1, <1>2, <1>3, <1>4 DEF VarFits
<1>. QED BY <1>1, <1>5

\* A match keeps the invariant of the passes.
LEMMA ParseKeepsPass ==
  ASSUME NEW T, Command(T), PassInv, ParseVar
  PROVE  PassInv'
<1> DEFINE x == rawInput[pos]
           own == pc \in PassesOf(x.form)
<1>1. /\ pc \in {"quoted", "bare"} /\ pos \in 1..Len(rawInput) /\ pos' = pos + 1
      /\ UNCHANGED <<rawInput, pc>> /\ Len(rawInput) \in Nat /\ DOMAIN rawInput = 1..Len(rawInput)
  BY DEF ParseVar, PassInv, Command
<1>2. x \in T /\ x.form \in {"quoted", "hex", "plain", "cut", "empty"}
  BY <1>1 DEF Command, CommandTokens
<1>3. /\ Seen' = IF own THEN Seen \cup {pos} ELSE Seen
      /\ own => \A j \in Seen : j # pos /\ ReadBefore(j, pos)
  BY <1>1, SeenGrows
<1>4. pos' \in 1..Len(rawInput') + 1
  BY <1>1
<1>5. \A n : Copies(n)' = Copies(n)
  BY <1>1, SameReading
<1>6. \A var, C : VarFits(var, C)' <=> VarFits(var, C)
  BY <1>1 DEF VarFits, TextFits, IsLast, ReadBefore, InQuotes
<1>7. CASE ~own
  <2>1. contentVars' = contentVars /\ Seen' = Seen
    BY <1>3, <1>7 DEF ParseVar
  <2>. QED BY <1>4, <1>5, <1>6, <2>1 DEF PassInv
<1>8. CASE own
  <2> DEFINE var == ParsedVar(x)
             C == Copies(x.name) \cap Seen
  <2>1. contentVars' = [n \in DOMAIN contentVars \cup {x.name} |-> IF n = x.name THEN var ELSE contentVars[n]]
    BY <1>2, <1>8, OneVariable DEF ParseVar
  <2>2. var = IF x.form = "cut" THEN [Lookup(x.name) EXCEPT !.valid = FALSE]
              ELSE [valid |-> TRUE, fancy |-> x.text]
    BY DEF ParsedVar
  <2>3. Seen' = Seen \cup {pos} /\ \A j \in C : j # pos /\ ReadBefore(j, pos)
    BY <1>3, <1>8
  <2>4. x.form # "empty"
    BY <1>1, <1>8 DEF PassesOf
  <2>5. Copies(x.name) \cap Seen' = C \cup {pos}
    BY <1>1, <2>3, <2>4 DEF Copies
  <2>6. \A n : n # x.name => Copies(n) \cap Seen' = Copies(n) \cap Seen
    BY <2>3 DEF Copies
  <2>7. VarFits(var, C \cup {pos})
    <3>1. CASE x.form # "cut"
      <4>1. var = [valid |-> x.form # "cut", fancy |-> x.text]
        BY <2>2, <3>1
      <4> HIDE DEF var, C
      <4>2. VarFits([valid |-> rawInput[pos].form # "cut", fancy |-> x.text], C \cup {pos})
        BY <2>3, <3>1, LastOneDecides
      <4>. QED BY <4>1, <4>2
    <3>2. CASE x.form = "cut"
      <4>1. PICK v : v = Lookup(x.name) /\ v = [valid |-> v.valid, fancy |-> v.fancy] /\ TextFits(v.fancy, C)
        <5>1. CASE C = {}
          <6>1. Lookup(x.name) = [valid |-> FALSE, fancy |-> <<>>]
            BY <5>1 DEF PassInv, Lookup, NewVar
          <6>2. TextFits(<<>>, C)
            BY <5>1 DEF TextFits
          <6> HIDE DEF C
          <6>. QED BY <6>1, <6>2
        <5>2. CASE C # {}
          <6>1. x.name \in DOMAIN contentVars /\ VarFits(contentVars[x.name], C)
            BY <5>2 DEF PassInv
          <6> HIDE DEF C
          <6>. QED BY <6>1 DEF VarFits, Lookup
        <5>. QED BY <5>1, <5>2
      <4>2. var = [valid |-> x.form # "cut", fancy |-> v.fancy]
        BY <2>2, <3>2, <4>1
      <4> HIDE DEF var, C
      <4>3. VarFits([valid |-> rawInput[pos].form # "cut", fancy |-> v.fancy], C \cup {pos})
        BY <2>3, <3>2, <4>1, LastOneDecides
      <4>. QED BY <4>2, <4>3
    <3>. QED BY <3>1, <3>2
  <2> HIDE DEF var, C
  <2>8. /\ DOMAIN contentVars' = DOMAIN contentVars \cup {x.name} /\ contentVars'[x.name] = var
        /\ \A n \in DOMAIN contentVars : n # x.name => contentVars'[n] = contentVars[n]
    BY <2>1
  <2>9. \A n \in DOMAIN contentVars' : Copies(n) \cap Seen' # {}
    BY <2>5, <2>6, <2>8 DEF PassInv
  <2>10. ASSUME NEW n, Copies(n) \cap Seen' # {}
         PROVE  n \in DOMAIN contentVars' /\ VarFits(contentVars'[n], Copies(n) \cap Seen')
    <3>1. CASE n = x.name
      BY <2>5, <2>7, <2>8, <3>1
    <3>2. CASE n # x.name
      BY <2>6, <2>8, <2>10, <3>2 DEF PassInv
    <3>. QED BY <3>1, <3>2
  <2>. QED BY <1>4, <1>5, <1>6, <2>9, <2>10 DEF PassInv
<1>. QED BY <1>7, <1>8

\* A pass begins with no variable and ends with every token seen.
LEMMA PassBegins ==
  ASSUME NEW class, NEW tokens, Begin(class, tokens), Len(tokens) \in Nat
  PROVE  PassInv'
<1>1. pc' = "quoted" /\ pos' = 1 /\ rawInput' = tokens /\ DOMAIN contentVars' = {}
  BY DEF Begin, NoVars
<1>2. \A n : (Copies(n) \cap Seen)' = {}
  <2>1. Seen' = {}
    BY <1>1 DEF Seen
  <2>. QED BY <2>1
<1>. QED BY <1>1, <1>2 DEF PassInv

\* SecondPass keeps it: what was seen in quotes stays seen.
LEMMA SecondPassKeeps ==
  ASSUME NEW T, Command(T), PassInv, SecondPass
  PROVE  PassInv'
<1>1. /\ pc = "quoted" /\ pos > Len(rawInput) /\ pc' = "bare" /\ pos' = 1
      /\ UNCHANGED <<rawInput, contentVars>> /\ Len(rawInput) \in Nat /\ DOMAIN rawInput = 1..Len(rawInput)
      /\ pos \in Int
  BY DEF SecondPass, PassInv, Command
<1>2. Seen' = Seen
  <2>1. ASSUME NEW j \in DOMAIN rawInput PROVE j \in Seen' <=> j \in Seen
    BY <1>1 DEF Seen
  <2>. QED BY <1>1, <2>1 DEF Seen
<1>3. \A n : Copies(n)' = Copies(n)
  BY <1>1 DEF Copies
<1>4. \A var, C : VarFits(var, C)' <=> VarFits(var, C)
  BY <1>1 DEF VarFits, TextFits, IsLast, ReadBefore, InQuotes
<1>5. \A n \in DOMAIN contentVars' : Copies(n) \cap Seen' # {}
  BY <1>1, <1>2 DEF PassInv
<1>6. \A n : Copies(n) \cap Seen' # {} =>
        n \in DOMAIN contentVars' /\ VarFits(contentVars'[n], Copies(n) \cap Seen')
  BY <1>1, <1>2 DEF PassInv
<1>7. pos' \in 1..Len(rawInput') + 1
  BY <1>1
<1>. QED BY <1>3, <1>4, <1>5, <1>6, <1>7 DEF PassInv

\* After both passes every token that sets a variable is seen.
LEMMA AllSeen ==
  ASSUME NEW T, Command(T), PassInv, pc = "bare", pos > Len(rawInput), NEW n
  PROVE  Copies(n) \cap Seen = Copies(n)
<1>1. pos \in Int /\ Len(rawInput) \in Nat /\ DOMAIN rawInput = 1..Len(rawInput)
  BY DEF PassInv, Command
<1>. QED BY <1>1 DEF Copies, Seen
-----------------------------------------------------------------------------
(* The merge of the chunks.                                                  *)

\* A variable as its own tokens leave it.
ReadVar(n) ==
  [valid |-> Intact(n), fancy |-> IF Readables(n) = {} THEN <<>> ELSE <<TextRead(n)>>]

\* The text read under a name is a piece with that name; what stands can be read.
TextsNamed ==
  \A n : /\ Readables(n) # {} => TextRead(n)[1] = n[1] /\ TextRead(n)[2] = n[2]
         /\ Intact(n) => Readables(n) # {}

\* What the passes leave of a name.
LEMMA NameRead ==
  ASSUME NEW T, Command(T), NEW n, NEW var, VarFits(var, Copies(n))
  PROVE  /\ var = ReadVar(n)
         /\ Readables(n) # {} => TextRead(n)[1] = n[1] /\ TextRead(n)[2] = n[2]
         /\ Intact(n) => Readables(n) # {}
<1>1. Copies(n) \subseteq Int /\ Readables(n) \subseteq Int
  BY DEF Copies, Readables, Command
<1>2. PICK j : /\ IsLast(j, Copies(n)) /\ TextFits(var.fancy, Copies(n))
               /\ var = [valid |-> rawInput[j].form # "cut", fancy |-> var.fancy]
  BY DEF VarFits
<1>3. LastOf(Copies(n)) = j /\ j \in Copies(n)
  BY <1>1, <1>2, LastIsUnique DEF IsLast
<1>4. Intact(n) <=> rawInput[j].form # "cut"
  BY <1>3 DEF Intact, Arrived
<1>5. Intact(n) => Readables(n) # {}
  BY <1>3, <1>4 DEF Readables
<1>6. /\ Readables(n) = {} => var.fancy = <<>>
      /\ Readables(n) # {} => /\ var.fancy = <<TextRead(n)>>
                              /\ TextRead(n)[1] = n[1] /\ TextRead(n)[2] = n[2]
  <2>1. CASE Readables(n) = {}
    BY <1>2, <2>1 DEF TextFits, Readables
  <2>2. CASE Readables(n) # {}
    <3>1. PICK r : IsLast(r, Readables(n)) /\ var.fancy = rawInput[r].text
      BY <1>2, <2>2 DEF TextFits, Readables
    <3>2. LastOf(Readables(n)) = r /\ r \in Readables(n)
      BY <1>1, <3>1, LastIsUnique DEF IsLast
    <3>3. rawInput[r] \in T /\ rawInput[r].form # "cut" /\ rawInput[r].name = n
      BY <3>2 DEF Readables, Copies, Command
    <3>4. /\ rawInput[r].text = <<rawInput[r].text[1]>>
          /\ rawInput[r].text[1][1] = n[1] /\ rawInput[r].text[1][2] = n[2]
      BY <3>3 DEF Command, CommandTokens
    <3>. QED BY <2>2, <3>1, <3>2, <3>4 DEF TextRead
  <2>. QED BY <2>1, <2>2
<1>7. var = ReadVar(n)
  <2>1. PICK b, f : b = (rawInput[j].form # "cut") /\ f = var.fancy
    OBVIOUS
  <2>2. var = [valid |-> b, fancy |-> f]
    BY <1>2, <2>1, Zenon
  <2>3. b = Intact(n)
    <3>1. Intact(n) \in BOOLEAN
      BY DEF Intact, Arrived
    <3>. QED BY <1>4, <2>1, <3>1
  <2>4. f = IF Readables(n) = {} THEN <<>> ELSE <<TextRead(n)>>
    BY <1>6, <2>1
  <2>. QED BY <2>2, <2>3, <2>4, Zenon DEF ReadVar
<1>. QED BY <1>5, <1>6, <1>7

\* Names in the text.
LEMMA TokenNames ==
  ASSUME NEW T, Command(T), NEW n \in NamesIn
  PROVE  n = <<n[1], n[2]>> /\ n[2] \in Nat \cup {Whole} /\ n[1] # NoVariable
<1>1. PICK j \in DOMAIN rawInput : rawInput[j].name = n
  BY DEF NamesIn
<1>2. rawInput[j] \in T
  BY DEF Command
<1>. QED BY <1>1, <1>2 DEF Command, CommandTokens

\* Names that arrive.
LEMMA ArrivedNames ==
  ASSUME NEW T, Command(T), NEW n, Arrived(n)
  PROVE  n \in NamesIn /\ n = <<n[1], n[2]>> /\ n[2] \in Nat \cup {Whole} /\ n[1] # NoVariable
<1>1. n \in NamesIn
  BY DEF Arrived, Copies, NamesIn
<1>. QED BY <1>1, TokenNames

\* A variable of which a chunk arrived.
LEMMA ArrivedChunks ==
  ASSUME NEW T, Command(T), NEW v, NEW k \in Nat, Arrived(<<v, k>>)
  PROVE  v # NoVariable
<1>1. <<v, k>>[1] = v
  OBVIOUS
<1>. QED BY <1>1, ArrivedNames

\* Variables of which chunks are merged, and which chunks.
Merges(v) == Arrived(<<v, 0>>) /\ v \notin toMerge
Absorbed(v, k) ==
  /\ Merges(v) /\ k \in Nat /\ \A i \in 0..k : Arrived(<<v, i>>)
  /\ chunk.of = v => k < chunk.next

\* What the text of such a variable consists of: the text that came whole, and
\* the chunks so far.
Pieces(v) ==
  {n \in NamesIn : n[1] = v /\ Absorbed(v, n[2]) /\ Intact(n)}
    \cup {n \in {<<v, Whole>>} : Readables(n) # {}}
PieceTexts(v) == {TextRead(n) : n \in Pieces(v)}

\* A name that the merge has not touched yet.
Untouched(n) == Arrived(n) /\ ~Absorbed(n[1], n[2]) /\ ~(Merges(n[1]) /\ n[2] = Whole)

\* The variables of a command during the merge: a chunk is in the text of its
\* variable, or still a variable of its own.
MergeInv ==
  /\ TextsNamed
  /\ \A v \in toMerge : Arrived(<<v, 0>>)
  /\ chunk.of # NoVariable =>
       Merges(chunk.of) /\ chunk.next \in Nat \ {0} /\ \A i \in 0..chunk.next - 1 : Arrived(<<chunk.of, i>>)
  /\ \A n \in DOMAIN contentVars : (Merges(n[1]) /\ n = <<n[1], Whole>>) \/ Untouched(n)
  /\ \A n : Untouched(n) => n \in DOMAIN contentVars /\ contentVars[n] = ReadVar(n)
  /\ \A v : Merges(v) =>
       /\ <<v, Whole>> \in DOMAIN contentVars
       /\ contentVars[<<v, Whole>>] = [valid |-> contentVars[<<v, Whole>>].valid,
                                       fancy |-> contentVars[<<v, Whole>>].fancy]
       /\ JoinedFrom(contentVars[<<v, Whole>>].fancy, PieceTexts(v))

\* The passes leave every chunk a variable of its own.
LEMMA MergeBegins ==
  ASSUME NEW T, Command(T), PassInv, FindSpplited, chunk.of = NoVariable
  PROVE  MergeInv'
<1>1. /\ pc = "bare" /\ pos > Len(rawInput) /\ toMerge' = SpplitedVarNames
      /\ UNCHANGED <<rawInput, contentVars, chunk>>
  BY DEF FindSpplited
<1>2. \A n : Copies(n) \cap Seen = Copies(n)
  BY <1>1, AllSeen
<1>3. \A n : /\ Arrived(n)' <=> Arrived(n)
             /\ Readables(n)' = Readables(n) /\ TextRead(n)' = TextRead(n)
             /\ Intact(n)' <=> Intact(n)
  BY <1>1, SameReading
<1>4. \A n : Arrived(n) => n \in DOMAIN contentVars /\ VarFits(contentVars[n], Copies(n))
  BY <1>2 DEF Arrived, PassInv
<1>5. \A n \in DOMAIN contentVars : Arrived(n)
  BY <1>2 DEF Arrived, PassInv
<1>6. \A v : ~Merges(v)'
  <2>1. ASSUME NEW v, Arrived(<<v, 0>>) PROVE v \in toMerge'
    <3>1. <<v, 0>> \in DOMAIN contentVars
      BY <1>4, <2>1
    <3>2. <<v, 0>>[1] = v /\ <<v, 0>>[2] = 0
      OBVIOUS
    <3>. QED BY <1>1, <3>1, <3>2 DEF SpplitedVarNames
  <2>. QED BY <1>3, <2>1 DEF Merges
<1>7. ASSUME NEW v \in toMerge' PROVE Arrived(<<v, 0>>)
  <2>1. PICK n \in DOMAIN contentVars : n[2] = 0 /\ v = n[1]
    BY <1>1, <1>7 DEF SpplitedVarNames
  <2>2. Arrived(n) /\ n = <<n[1], n[2]>>
    BY <1>5, <2>1, ArrivedNames
  <2>. QED BY <2>1, <2>2
<1>8. \A n : Readables(n) # {} \/ Intact(n) => Arrived(n)
  BY DEF Readables, Arrived, Intact
<1>9. TextsNamed
  <2>1. \A n : Arrived(n) => /\ Readables(n) # {} => TextRead(n)[1] = n[1] /\ TextRead(n)[2] = n[2]
                             /\ Intact(n) => Readables(n) # {}
    BY <1>4, NameRead
  <2>. QED BY <1>8, <2>1 DEF TextsNamed
<1>10. TextsNamed'
  BY <1>3, <1>9 DEF TextsNamed
<1>11. \A n : Arrived(n) => contentVars[n] = ReadVar(n)
  BY <1>4, NameRead
<1>12. \A n : ReadVar(n)' = ReadVar(n)
  <2>1. \A n : Intact(n)' = Intact(n)
    BY <1>3 DEF Intact
  <2>. QED BY <1>3, <2>1 DEF ReadVar
<1>13. \A n : Untouched(n)' <=> Arrived(n)
  BY <1>3, <1>6 DEF Absorbed, Untouched
<1>. QED BY <1>1, <1>3, <1>4, <1>5, <1>6, <1>7, <1>10, <1>11, <1>12, <1>13 DEF MergeInv

\* One name more at the end.
LEMMA JoinedMore ==
  ASSUME NEW t, NEW P, JoinedFrom(t, P), NEW n, \A p \in P : p[2] < n[2]
  PROVE  JoinedFrom(t \o <<n>>, P \cup {n})
<1> DEFINE s == t \o <<n>>
<1>1. /\ t \in Seq(P) /\ Len(t) \in Nat /\ DOMAIN t = 1..Len(t) /\ \A j \in DOMAIN t : t[j] \in P
  BY DEF JoinedFrom
<1>2. /\ s \in Seq(P \cup {n}) /\ DOMAIN s = 1..(Len(t) + 1)
      /\ \A j \in DOMAIN t : s[j] = t[j]
      /\ s[Len(t) + 1] = n
  <2>1. t \in Seq(P \cup {n}) /\ <<n>> \in Seq(P \cup {n})
    BY <1>1
  <2>2. s \in Seq(P \cup {n})
    BY <2>1
  <2>3. DOMAIN s = 1..(Len(t) + 1) /\ (\A j \in DOMAIN t : s[j] = t[j]) /\ s[Len(t) + 1] = n
    BY <1>1, <2>1
  <2>. QED BY <2>2, <2>3
<1> HIDE DEF s
<1>3. \A p \in P \cup {n} : \E j \in DOMAIN s : s[j] = p
  <2>1. \A p \in P : \E j \in DOMAIN t : t[j] = p
    BY DEF JoinedFrom
  <2>2. \A j \in DOMAIN t : j \in DOMAIN s
    BY <1>1, <1>2
  <2>3. Len(t) + 1 \in DOMAIN s
    BY <1>1, <1>2
  <2>. QED BY <1>2, <2>1, <2>2, <2>3
<1>4. ASSUME NEW i \in DOMAIN s, NEW j \in DOMAIN s, i < j PROVE s[i][2] < s[j][2]
  <2>1. i \in DOMAIN t
    BY <1>1, <1>2, <1>4
  <2>2. CASE j \in DOMAIN t
    BY <1>2, <1>4, <2>1, <2>2 DEF JoinedFrom
  <2>3. CASE j \notin DOMAIN t
    <3>1. j = Len(t) + 1
      BY <1>1, <1>2, <2>3
    <3>. QED BY <1>1, <1>2, <2>1, <3>1
  <2>. QED BY <2>2, <2>3
<1>. QED BY <1>2, <1>3, <1>4 DEF JoinedFrom, s

\* A chunk that is still a variable, and the variable it is appended to: its
\* text so far is that of the pieces P.
ChunkReady(v, k, var, P) ==
  /\ Arrived(<<v, k>>) /\ <<v, k>> \in DOMAIN contentVars
  /\ contentVars[<<v, k>>] = ReadVar(<<v, k>>)
  /\ var = Lookup(<<v, Whole>>) /\ var = [valid |-> var.valid, fancy |-> var.fancy]
  /\ JoinedFrom(var.fancy, P) /\ \A p \in P : p[2] < k

\* The variables with chunk k appended to its variable and erased.
ChunkIn(vars, v, k, P) ==
  /\ DOMAIN vars = (DOMAIN contentVars \cup {<<v, Whole>>}) \ {<<v, k>>}
  /\ \A n \in DOMAIN vars \ {<<v, Whole>>} : vars[n] = contentVars[n]
  /\ vars[<<v, Whole>>] = [valid |-> vars[<<v, Whole>>].valid, fancy |-> vars[<<v, Whole>>].fancy]
  /\ JoinedFrom(vars[<<v, Whole>>].fancy, IF Intact(<<v, k>>) THEN P \cup {TextRead(<<v, k>>)} ELSE P)

\* What appending chunk k to its variable and erasing it makes of the variables.
LEMMA ChunkMerged ==
  ASSUME TextsNamed, NEW v, NEW k \in Nat, NEW var, NEW P, ChunkReady(v, k, var, P)
  PROVE  ChunkIn(Merged(v, k), v, k, P)
<1> USE DEF ChunkReady
<1> DEFINE whole == <<v, Whole>>  n == <<v, k>>  text == TextRead(n)
           next == Appended(var, contentVars[n])
<1>1. whole # n /\ n[2] = k
  BY WholeIsNoChunk
<1>2. Merged(v, k) = [m \in (DOMAIN contentVars \cup {whole}) \ {n} |->
                        IF m = whole THEN next ELSE contentVars[m]]
  <2>1. Lookup(n) = contentVars[n]
    BY DEF Lookup
  <2>2. With(whole, next) = [m \in DOMAIN contentVars \cup {whole} |-> IF m = whole THEN next ELSE contentVars[m]]
    <3> HIDE DEF whole, next
    <3>. QED BY DEF With, Overridden
  <2>3. Merged(v, k) = [m \in DOMAIN With(whole, next) \ {n} |-> With(whole, next)[m]]
    BY <2>1 DEF Merged
  <2> HIDE DEF whole, next, n
  <2>. QED BY <2>2, <2>3
<1>3. contentVars[n] = ReadVar(n)
  OBVIOUS
<1> HIDE DEF n, text
<1>4. /\ contentVars[n].valid <=> Intact(n)
      /\ Intact(n) => contentVars[n].fancy = <<text>> /\ text[2] = k
  <2>1. PICK b, f : b = Intact(n) /\ f = IF Readables(n) = {} THEN <<>> ELSE <<text>>
    OBVIOUS
  <2>2. contentVars[n] = [valid |-> b, fancy |-> f]
    BY <1>3, <2>1, Zenon DEF ReadVar, text
  <2>3. contentVars[n].valid = b /\ contentVars[n].fancy = f
    BY <2>2
  <2>4. Intact(n) => Readables(n) # {} /\ text[2] = n[2]
    BY DEF TextsNamed, text
  <2>5. n[2] = k
    BY <1>1
  <2>6. contentVars[n].valid <=> Intact(n)
    BY <2>1, <2>3, Zenon
  <2>. QED BY <2>1, <2>3, <2>4, <2>5, <2>6
<1>5. /\ next = [valid |-> next.valid, fancy |-> next.fancy]
      /\ next.fancy = IF Intact(n) THEN var.fancy \o <<text>> ELSE var.fancy
  <2>1. CASE Intact(n)
    <3>1. next = [var EXCEPT !.fancy = var.fancy \o <<text>>]
      BY <1>4, <2>1 DEF Appended
    <3> HIDE DEF next
    <3>2. PICK t : t = var.fancy \o <<text>>
      OBVIOUS
    <3>. QED BY <2>1, <3>1, <3>2
  <2>2. CASE ~Intact(n)
    <3>1. next = [var EXCEPT !.valid = FALSE]
      BY <1>4, <2>2 DEF Appended
    <3> HIDE DEF next
    <3>. QED BY <2>2, <3>1
  <2>. QED BY <2>1, <2>2
<1>6. JoinedFrom(next.fancy, IF Intact(n) THEN P \cup {text} ELSE P)
  <2>1. CASE Intact(n)
    <3>1. JoinedFrom(var.fancy \o <<text>>, P \cup {text})
      BY <1>4, <2>1, JoinedMore
    <3> HIDE DEF next
    <3>. QED BY <1>5, <2>1, <3>1
  <2>2. CASE ~Intact(n)
    <3> HIDE DEF next
    <3>. QED BY <1>5, <2>2
  <2>. QED BY <2>1, <2>2
<1> HIDE DEF next
<1>7. PICK vars : vars = Merged(v, k)
  OBVIOUS
<1>8. vars[whole] = next
  <2> HIDE DEF whole
  <2>. QED BY <1>1, <1>2, <1>7
<1>9. DOMAIN vars = (DOMAIN contentVars \cup {whole}) \ {n} /\ \A m \in DOMAIN vars \ {whole} : vars[m] = contentVars[m]
  <2> HIDE DEF whole
  <2>. QED BY <1>2, <1>7
<1>. QED BY <1>5, <1>6, <1>7, <1>8, <1>9 DEF ChunkIn, n, text

\* Which chunks are absorbed once chunk k of v is.
LEMMA AbsorbedMore ==
  ASSUME NEW T, Command(T), NEW v, NEW k \in Nat,
         \A i \in 0..k : Arrived(<<v, i>>),
         \/ k = 0 /\ ~Merges(v) /\ chunk.of = NoVariable
         \/ Merges(v) /\ chunk.of = v /\ chunk.next = k,
         UNCHANGED rawInput, chunk'.of = v, chunk'.next = k + 1,
         Merges(v)', \A w : w # v => (Merges(w)' <=> Merges(w))
  PROVE  /\ \A w, i : Absorbed(w, i)' <=> Absorbed(w, i) \/ (w = v /\ i = k)
         /\ ~Absorbed(v, k) /\ Arrived(<<v, k>>)
         /\ \A i : Absorbed(v, i) => i \in Nat /\ i < k
<1>1. \A n : Arrived(n)' <=> Arrived(n)
  BY SameReading
<1>2. \A i : Absorbed(v, i)' <=> i \in 0..k
  <2>1. ASSUME NEW i \in Nat PROVE Absorbed(v, i)' <=> i < k + 1
    BY <1>1 DEF Absorbed
  <2>2. \A i : Absorbed(v, i)' => i \in Nat
    BY DEF Absorbed
  <2>. QED BY <2>1, <2>2
<1>3. \A i : Absorbed(v, i) <=> i \in 0..k /\ i # k
  <2>1. CASE k = 0 /\ ~Merges(v)
    BY <2>1 DEF Absorbed
  <2>2. CASE Merges(v) /\ chunk.of = v /\ chunk.next = k
    BY <2>2 DEF Absorbed
  <2>. QED BY <2>1, <2>2
<1>4. ASSUME NEW w, NEW i, w # v PROVE Absorbed(w, i)' <=> Absorbed(w, i)
  <2>1. Merges(w) => w # NoVariable
    BY ArrivedChunks DEF Merges
  <2>. QED BY <1>1, <1>4, <2>1 DEF Absorbed
<1>. QED BY <1>2, <1>3, <1>4

\* The text of a variable before chunk k is appended to it.
LEMMA TextBefore ==
  ASSUME NEW T, Command(T), MergeInv, NEW v, NEW k \in Nat,
         \A i : Absorbed(v, i) => i \in Nat /\ i < k
  PROVE  /\ LET var == Lookup(<<v, Whole>>)
            IN  var = [valid |-> var.valid, fancy |-> var.fancy] /\ JoinedFrom(var.fancy, PieceTexts(v))
         /\ \A p \in PieceTexts(v) : p[2] < k
<1> DEFINE whole == <<v, Whole>>
<1>1. whole[1] = v /\ whole[2] = Whole
  OBVIOUS
<1>2. \A n \in Pieces(v) : n[2] < k /\ Readables(n) # {}
  BY <1>1, WholeIsNoChunk DEF Pieces, MergeInv, TextsNamed
<1>3. \A p \in PieceTexts(v) : p[2] < k
  BY <1>2 DEF PieceTexts, MergeInv, TextsNamed
<1>4. CASE Merges(v)
  BY <1>3, <1>4 DEF MergeInv, Lookup
<1>5. CASE ~Merges(v)
  <2>1. Pieces(v) = {n \in {whole} : Readables(n) # {}}
    BY <1>5 DEF Pieces, Absorbed
  <2>2. Untouched(whole) <=> Arrived(whole)
    BY <1>1, <1>5 DEF Untouched, Absorbed
  <2> HIDE DEF whole
  <2>3. CASE whole \in DOMAIN contentVars
    <3>1. Lookup(whole) = ReadVar(whole)
      BY <1>1, <1>5, <2>2, <2>3 DEF MergeInv, Lookup
    <3>2. PICK var : var = Lookup(whole) /\ var = [valid |-> var.valid, fancy |-> var.fancy]
                     /\ var.fancy = IF Readables(whole) = {} THEN <<>> ELSE <<TextRead(whole)>>
      BY <3>1 DEF ReadVar
    <3>3. PieceTexts(v) = IF Readables(whole) = {} THEN {} ELSE {TextRead(whole)}
      BY <2>1 DEF PieceTexts
    <3>4. JoinedFrom(<<>>, {}) /\ \A x : JoinedFrom(<<x>>, {x})
      BY DEF JoinedFrom
    <3>. QED BY <1>3, <3>2, <3>3, <3>4 DEF whole
  <2>4. CASE whole \notin DOMAIN contentVars
    <3>1. ~Arrived(whole)
      BY <2>2, <2>4 DEF MergeInv
    <3>2. PieceTexts(v) = {}
      BY <2>1, <3>1 DEF PieceTexts, Readables, Arrived
    <3>3. JoinedFrom(<<>>, {})
      BY DEF JoinedFrom
    <3>4. Lookup(whole) = [valid |-> FALSE, fancy |-> <<>>]
      BY <2>4 DEF Lookup, NewVar
    <3>. QED BY <1>3, <3>2, <3>3, <3>4 DEF whole
  <2>. QED BY <2>3, <2>4
<1>. QED BY <1>4, <1>5

\* Merging one chunk keeps the invariant of the merge.
LEMMA OneChunkKeeps ==
  ASSUME NEW T, Command(T), MergeInv, NEW v, NEW k \in Nat,
         \A i \in 0..k : Arrived(<<v, i>>),
         \/ k = 0 /\ ~Merges(v) /\ chunk.of = NoVariable
         \/ Merges(v) /\ chunk.of = v /\ chunk.next = k,
         UNCHANGED rawInput, chunk'.of = v, chunk'.next = k + 1, toMerge' \subseteq toMerge,
         Merges(v)', \A w : w # v => (Merges(w)' <=> Merges(w)),
         contentVars' = Merged(v, k)
  PROVE  MergeInv'
<1> DEFINE n == <<v, k>>  whole == <<v, Whole>>
<1>1. /\ \A w, i : Absorbed(w, i)' <=> Absorbed(w, i) \/ (w = v /\ i = k)
      /\ ~Absorbed(v, k) /\ Arrived(<<v, k>>)
      /\ \A i : Absorbed(v, i) => i \in Nat /\ i < k
  BY AbsorbedMore
<1>2. /\ NamesIn' = NamesIn
      /\ \A m : /\ Readables(m)' = Readables(m) /\ TextRead(m)' = TextRead(m)
                /\ Arrived(m)' <=> Arrived(m)
                /\ Intact(m)' <=> Intact(m)
  BY SameReading
<1>3. /\ n[1] = v /\ n[2] = k /\ whole[1] = v /\ whole[2] = Whole /\ n # whole
      /\ \A w : w # v => <<w, Whole>> # whole
      /\ \A w : <<w, Whole>> # n
      /\ k # Whole
  <2>1. n[1] = v /\ n[2] = k /\ whole[1] = v /\ whole[2] = Whole
    OBVIOUS
  <2>2. k # Whole /\ n # whole /\ \A w : <<w, Whole>> # n
    BY WholeIsNoChunk
  <2>3. \A w : w # v => <<w, Whole>> # whole
    OBVIOUS
  <2>. QED BY <2>1, <2>2, <2>3
<1>4. n \in DOMAIN contentVars /\ contentVars[n] = ReadVar(n)
  <2>1. Untouched(n)
    BY <1>1, <1>3 DEF Untouched
  <2> HIDE DEF n
  <2>. QED BY <2>1 DEF MergeInv
<1>5. PICK var, P : /\ var = Lookup(whole) /\ var = [valid |-> var.valid, fancy |-> var.fancy]
                    /\ P = PieceTexts(v) /\ JoinedFrom(var.fancy, P) /\ \A p \in P : p[2] < k
  BY <1>1, TextBefore
<1>6. /\ DOMAIN contentVars' = (DOMAIN contentVars \cup {whole}) \ {n}
      /\ \A m \in DOMAIN contentVars' \ {whole} : contentVars'[m] = contentVars[m]
      /\ contentVars'[whole] = [valid |-> contentVars'[whole].valid, fancy |-> contentVars'[whole].fancy]
      /\ JoinedFrom(contentVars'[whole].fancy, IF Intact(n) THEN P \cup {TextRead(n)} ELSE P)
  <2>1. ChunkReady(v, k, var, P)
    BY <1>1, <1>4, <1>5 DEF ChunkReady
  <2>2. ChunkIn(Merged(v, k), v, k, P)
    BY <2>1, ChunkMerged DEF MergeInv
  <2>3. ChunkIn(contentVars', v, k, P)
    BY <2>2
  <2>. QED BY <2>3 DEF ChunkIn
<1> HIDE DEF n, whole
<1>7. \A w : PieceTexts(w)' = IF w = v /\ Intact(n) THEN PieceTexts(v) \cup {TextRead(n)} ELSE PieceTexts(w)
  <2>1. n \in NamesIn
    BY <1>1, ArrivedNames DEF n
  <2>2. \A m : Arrived(m) => m = <<m[1], m[2]>>
    BY ArrivedNames
  <2>3. ASSUME NEW w, NEW m
        PROVE  m \in Pieces(w)' <=> m \in Pieces(w) \/ (w = v /\ m = n /\ Intact(n))
    <3>1. Intact(m) => Arrived(m)
      BY DEF Intact
    <3>2. Intact(m) /\ m[1] = v /\ m[2] = k => m = n
      BY <2>2, <3>1 DEF n
    <3>. QED BY <1>1, <1>2, <1>3, <2>1, <3>2 DEF Pieces
  <2>4. \A w : Pieces(w)' = IF w = v /\ Intact(n) THEN Pieces(v) \cup {n} ELSE Pieces(w)
    BY <2>3
  <2>5. \A w : PieceTexts(w)' = {TextRead(m) : m \in Pieces(w)'}
    BY <1>2 DEF PieceTexts
  <2>6. {TextRead(m) : m \in Pieces(v) \cup {n}} = PieceTexts(v) \cup {TextRead(n)}
    BY DEF PieceTexts
  <2>7. \A w : {TextRead(m) : m \in Pieces(w)} = PieceTexts(w)
    BY DEF PieceTexts
  <2>8. ASSUME NEW w
        PROVE  PieceTexts(w)' = IF w = v /\ Intact(n) THEN PieceTexts(v) \cup {TextRead(n)} ELSE PieceTexts(w)
    <3>1. CASE w = v /\ Intact(n)
      <4>1. Pieces(w)' = Pieces(v) \cup {n}
        BY <2>4, <3>1
      <4>. QED BY <2>5, <2>6, <3>1, <4>1
    <3>2. CASE ~(w = v /\ Intact(n))
      <4>1. Pieces(w)' = Pieces(w)
        BY <2>4, <3>2
      <4>. QED BY <2>5, <2>7, <3>2, <4>1
    <3>. QED BY <3>1, <3>2
  <2>. QED BY <2>8
<1>8. TextsNamed'
  BY <1>2 DEF TextsNamed, MergeInv
<1>9. \A m : ReadVar(m)' = ReadVar(m)
  <2>1. \A m : Intact(m)' = Intact(m)
    BY <1>2 DEF Intact
  <2>. QED BY <1>2, <2>1 DEF ReadVar
<1>10. \A m : Untouched(m)' <=> Untouched(m) /\ m # n /\ m # whole
  <2>1. \A m : Arrived(m) => m = <<m[1], m[2]>>
    BY ArrivedNames
  <2>2. ASSUME NEW m PROVE Untouched(m)' <=> Untouched(m) /\ m # n /\ m # whole
    <3>1. Arrived(m) => (m[1] = v /\ m[2] = k <=> m = n) /\ (m[1] = v /\ m[2] = Whole <=> m = whole)
      BY <1>3, <2>1 DEF n, whole
    <3>. QED BY <1>1, <1>2, <3>1 DEF Untouched
  <2>. QED BY <2>2
<1>11. ASSUME NEW m \in DOMAIN contentVars'
       PROVE  (Merges(m[1])' /\ m = <<m[1], Whole>>) \/ Untouched(m)'
  <2>1. CASE m = whole
    BY <1>3, <2>1 DEF whole
  <2>2. CASE m # whole
    <3>1. m \in DOMAIN contentVars /\ m # n
      BY <1>6, <2>2
    <3>. QED BY <1>10, <2>2, <3>1 DEF MergeInv
  <2>. QED BY <2>1, <2>2
<1>12. ASSUME NEW m, Untouched(m)'
       PROVE  m \in DOMAIN contentVars' /\ contentVars'[m] = ReadVar(m)'
  <2>1. m \in DOMAIN contentVars /\ contentVars[m] = ReadVar(m) /\ m # n /\ m # whole
    BY <1>10, <1>12 DEF MergeInv
  <2>2. m \in DOMAIN contentVars' /\ contentVars'[m] = contentVars[m]
    BY <1>6, <2>1
  <2>. QED BY <1>9, <2>1, <2>2
<1>13. ASSUME NEW w, Merges(w)'
       PROVE  /\ <<w, Whole>> \in DOMAIN contentVars'
              /\ contentVars'[<<w, Whole>>] = [valid |-> contentVars'[<<w, Whole>>].valid,
                                               fancy |-> contentVars'[<<w, Whole>>].fancy]
              /\ JoinedFrom(contentVars'[<<w, Whole>>].fancy, PieceTexts(w)')
  <2>1. CASE w = v
    <3>1. <<w, Whole>> = whole
      BY <2>1 DEF whole
    <3>. QED BY <1>3, <1>5, <1>6, <1>7, <2>1, <3>1
  <2>2. CASE w # v
    <3>1. /\ <<w, Whole>> \in DOMAIN contentVars
          /\ contentVars[<<w, Whole>>] = [valid |-> contentVars[<<w, Whole>>].valid,
                                          fancy |-> contentVars[<<w, Whole>>].fancy]
          /\ JoinedFrom(contentVars[<<w, Whole>>].fancy, PieceTexts(w))
      BY <1>13, <2>2 DEF MergeInv
    <3>2. <<w, Whole>> # whole /\ <<w, Whole>> # n
      BY <1>3, <2>2
    <3>3. <<w, Whole>> \in DOMAIN contentVars' /\ contentVars'[<<w, Whole>>] = contentVars[<<w, Whole>>]
      BY <1>6, <3>1, <3>2
    <3>. QED BY <1>7, <2>2, <3>1, <3>3
  <2>. QED BY <2>1, <2>2
<1>14. \A w \in toMerge' : Arrived(<<w, 0>>)'
  BY <1>2 DEF MergeInv
<1>15. /\ Merges(chunk.of)' /\ chunk'.next \in Nat \ {0}
       /\ \A i \in 0..chunk'.next - 1 : Arrived(<<chunk.of, i>>)'
  BY <1>2
<1>16. \A w : JoinedFrom(contentVars[<<w, Whole>>].fancy, PieceTexts(w))'
         <=> JoinedFrom(contentVars'[<<w, Whole>>].fancy, PieceTexts(w)')
  BY DEF JoinedFrom
<1>. QED BY <1>8, <1>11, <1>12, <1>13, <1>14, <1>15, <1>16 DEF MergeInv

\* The steps of the merge keep its invariant.
LEMMA MergeZeroKeeps ==
  ASSUME NEW T, Command(T), MergeInv, NEW v \in toMerge, MergeZero(v)
  PROVE  MergeInv'
<1>1. /\ chunk.of = NoVariable /\ contentVars' = Merged(v, 0) /\ toMerge' = toMerge \ {v}
      /\ chunk'.of = v /\ chunk'.next = 0 + 1 /\ UNCHANGED rawInput
  BY DEF MergeZero, VarsAfterMerge, FirstAfterZero
<1>2. Arrived(<<v, 0>>) /\ ~Merges(v)
  BY DEF MergeInv, Merges
<1>3. \A n : Arrived(n)' <=> Arrived(n)
  BY <1>1 DEF Arrived, Copies
<1>4. Merges(v)' /\ \A w : w # v => (Merges(w)' <=> Merges(w))
  BY <1>1, <1>2, <1>3 DEF Merges
<1>5. \A i \in 0..0 : Arrived(<<v, i>>)
  BY <1>2
<1>. QED BY <1>1, <1>2, <1>4, <1>5, OneChunkKeeps

\* The same for the chunks that follow.
LEMMA MergeNextKeeps ==
  ASSUME NEW T, Command(T), MergeInv, MergeNext, chunk = [of |-> chunk.of, next |-> chunk.next]
  PROVE  MergeInv'
<1>1. PICK v, k : v = chunk.of /\ k = chunk.next
  OBVIOUS
<1>2. /\ v # NoVariable /\ <<v, k>> \in DOMAIN contentVars /\ contentVars' = Merged(v, k)
      /\ toMerge' = toMerge /\ chunk'.of = v /\ chunk'.next = k + 1 /\ UNCHANGED rawInput
  BY <1>1 DEF MergeNext, VarsAfterMerge, HasChunk
<1>3. Merges(v) /\ k \in Nat \ {0} /\ \A i \in 0..k - 1 : Arrived(<<v, i>>)
  BY <1>1, <1>2 DEF MergeInv
<1>4. Arrived(<<v, k>>)
  <2>1. PICK n : n = <<v, k>> /\ n[2] # Whole
    <3>1. k # Whole
      BY <1>3, WholeIsNoChunk
    <3>2. <<v, k>>[2] = k
      OBVIOUS
    <3>. QED BY <3>1, <3>2
  <2>2. n # <<n[1], Whole>>
    BY <2>1
  <2>3. n \in DOMAIN contentVars
    BY <1>2, <2>1
  <2>4. Untouched(n)
    BY <2>2, <2>3 DEF MergeInv
  <2>. QED BY <2>1, <2>4 DEF Untouched
<1>5. \A i \in 0..k : Arrived(<<v, i>>)
  <2>1. \A i \in 0..k : i \in 0..k - 1 \/ i = k
    BY <1>3
  <2>. QED BY <1>3, <1>4, <2>1
<1>6. \A w : Merges(w)' <=> Merges(w)
  <2>1. \A n : Arrived(n)' <=> Arrived(n)
    BY <1>2 DEF Arrived, Copies
  <2>. QED BY <1>2, <2>1 DEF Merges
<1>7. k \in Nat /\ Merges(v)' /\ toMerge' \subseteq toMerge /\ Merges(v) /\ chunk.of = v /\ chunk.next = k
  BY <1>1, <1>2, <1>3, <1>6
<1>. QED BY <1>2, <1>5, <1>6, <1>7, OneChunkKeeps

\* The first chunk that is missing ends the text of its variable.
LEMMA EndOfChunksKeeps ==
  ASSUME NEW T, Command(T), MergeInv, EndOfChunks
  PROVE  MergeInv'
<1>1. PICK v, k : v = chunk.of /\ k = chunk.next
  OBVIOUS
<1>2. /\ v # NoVariable /\ <<v, k>> \notin DOMAIN contentVars
      /\ chunk'.of = NoVariable /\ UNCHANGED <<contentVars, toMerge, rawInput>>
  BY <1>1 DEF EndOfChunks, HasChunk
<1>3. Merges(v) /\ k \in Nat \ {0} /\ \A i \in 0..k - 1 : Arrived(<<v, i>>)
  BY <1>1, <1>2 DEF MergeInv
<1>4. /\ NamesIn' = NamesIn
      /\ \A n : /\ Readables(n)' = Readables(n) /\ TextRead(n)' = TextRead(n)
                /\ Arrived(n)' <=> Arrived(n)
                /\ Intact(n)' <=> Intact(n)
      /\ \A w : Merges(w)' <=> Merges(w)
  <2>1. /\ NamesIn' = NamesIn
        /\ \A n : /\ Readables(n)' = Readables(n) /\ TextRead(n)' = TextRead(n)
                  /\ Arrived(n)' <=> Arrived(n)
                  /\ Intact(n)' <=> Intact(n)
    BY <1>2, SameReading
  <2>. QED BY <1>2, <2>1 DEF Merges
<1>5. ~Arrived(<<v, k>>)
  <2>1. PICK n : n = <<v, k>> /\ n[1] = v /\ n[2] = k
    <3>1. <<v, k>>[1] = v /\ <<v, k>>[2] = k
      OBVIOUS
    <3>. QED BY <3>1, Zenon
  <2>2. ~Absorbed(v, k) /\ k # Whole
    BY <1>1, <1>3, WholeIsNoChunk DEF Absorbed
  <2>3. Arrived(n) => Untouched(n)
    BY <2>1, <2>2 DEF Untouched
  <2>. QED BY <1>2, <2>1, <2>3 DEF MergeInv
<1>6. \A w, i : Absorbed(w, i)' <=> Absorbed(w, i)
  <2>1. ASSUME NEW i \in Nat, \A j \in 0..i : Arrived(<<v, j>>) PROVE i < k
    <3>1. k \notin 0..i
      BY <1>5, <2>1
    <3>. QED BY <1>3, <3>1
  <2>2. \A w : Merges(w) => w # NoVariable
    BY ArrivedChunks DEF Merges
  <2>3. ASSUME NEW w, NEW i PROVE Absorbed(w, i)' <=> Absorbed(w, i)
    <3>1. CASE w = v
      BY <1>1, <1>2, <1>4, <2>1, <3>1 DEF Absorbed
    <3>2. CASE w # v
      BY <1>1, <1>2, <1>4, <2>2, <3>2 DEF Absorbed
    <3>. QED BY <3>1, <3>2
  <2>. QED BY <2>3
<1>7. \A w : PieceTexts(w)' = PieceTexts(w)
  <2>1. \A w : Pieces(w)' = Pieces(w)
    BY <1>4, <1>6 DEF Pieces
  <2>. QED BY <1>4, <2>1 DEF PieceTexts
<1>8. TextsNamed'
  BY <1>4 DEF TextsNamed, MergeInv
<1>9. \A n : ReadVar(n)' = ReadVar(n) /\ (Untouched(n)' <=> Untouched(n))
  <2>1. \A n : Intact(n)' = Intact(n)
    BY <1>4 DEF Intact
  <2>. QED BY <1>4, <1>6, <2>1 DEF ReadVar, Untouched
<1>10. \A w : JoinedFrom(contentVars[<<w, Whole>>].fancy, PieceTexts(w))'
         <=> JoinedFrom(contentVars[<<w, Whole>>].fancy, PieceTexts(w))
  BY <1>2, <1>7 DEF JoinedFrom
<1>. QED BY <1>2, <1>4, <1>8, <1>9, <1>10 DEF MergeInv
-----------------------------------------------------------------------------
(* What the variables of a command are when they are merged.                 *)

\* Every chunk from 0 on is merged then, and nothing else.
LEMMA AllMerged ==
  ASSUME NEW T, Command(T), MergeInv, toMerge = {}, chunk.of = NoVariable
  PROVE  /\ \A v : Merges(v) <=> Arrived(<<v, 0>>)
         /\ \A v : Pieces(v) = Parts(v)
         /\ \A v : ~Merges(v) => Contiguous(v) = {}
<1>1. \A v : Merges(v) <=> Arrived(<<v, 0>>)
  BY DEF Merges
<1>2. \A v, k : Absorbed(v, k) <=> k \in Nat /\ \A i \in 0..k : Arrived(<<v, i>>)
  <2>1. \A v : Merges(v) => v # NoVariable
    BY ArrivedChunks DEF Merges
  <2>2. ASSUME NEW k \in Nat PROVE 0 \in 0..k
    OBVIOUS
  <2>. QED BY <1>1, <2>1, <2>2 DEF Absorbed
<1>3. \A v : Contiguous(v) = {n \in NamesIn : n[1] = v /\ Absorbed(v, n[2])}
  <2>1. \A n \in NamesIn : n[2] \in Nat \cup {Whole}
    BY TokenNames
  <2>. QED BY <1>2, <2>1, WholeIsNoChunk DEF Contiguous
<1>4. ASSUME NEW v
      PROVE  /\ Pieces(v) = Parts(v)
             /\ ~Merges(v) => Contiguous(v) = {}
  <2>1. {n \in NamesIn : n[1] = v /\ Absorbed(v, n[2]) /\ Intact(n)} = {n \in Contiguous(v) : Intact(n)}
    BY <1>3
  <2>2. ~Merges(v) => Contiguous(v) = {}
    BY <1>3 DEF Absorbed
  <2>. QED BY <2>1, <2>2 DEF Pieces, Parts
<1>. QED BY <1>1, <1>4

\* The text of a variable of which its whole text came, or chunk 0; otherwise there
\* is no such variable.
LEMMA VariableText ==
  ASSUME NEW T, Command(T), MergeInv, toMerge = {}, chunk.of = NoVariable, NEW v
  PROVE  IF Came(v) THEN <<v, Whole>> \in DOMAIN contentVars /\ IsTextOf(contentVars[<<v, Whole>>].fancy, v)
         ELSE <<v, Whole>> \notin DOMAIN contentVars
<1>1. PICK whole : whole = <<v, Whole>> /\ whole[1] = v /\ whole[2] = Whole
  <2>1. <<v, Whole>>[1] = v /\ <<v, Whole>>[2] = Whole
    OBVIOUS
  <2>. QED BY <2>1, Zenon
<1>2. /\ Merges(v) <=> Arrived(<<v, 0>>)
      /\ Pieces(v) = Parts(v)
      /\ ~Merges(v) => Contiguous(v) = {}
  BY AllMerged
<1>3. CASE Merges(v)
  <2>1. <<v, Whole>> \in DOMAIN contentVars /\ JoinedFrom(contentVars[<<v, Whole>>].fancy, PieceTexts(v))
    BY <1>3 DEF MergeInv
  <2>2. PieceTexts(v) = {TextRead(n) : n \in Parts(v)}
    BY <1>2 DEF PieceTexts
  <2>. QED BY <1>2, <1>3, <2>1, <2>2 DEF IsTextOf, Came
<1>4. CASE ~Merges(v)
  <2>1. Untouched(whole) <=> Arrived(whole)
    BY <1>1, <1>4 DEF Untouched, Absorbed
  <2>2. whole \in DOMAIN contentVars <=> Arrived(whole)
    BY <1>1, <1>4, <2>1 DEF MergeInv
  <2>3. CASE Arrived(whole)
    <3>1. contentVars[whole] = ReadVar(whole)
      BY <2>1, <2>3 DEF MergeInv
    <3>2. PICK text : text = contentVars[whole].fancy
                      /\ text = IF Readables(whole) = {} THEN <<>> ELSE <<TextRead(whole)>>
      BY <3>1 DEF ReadVar
    <3>3. Parts(v) = {n \in {whole} : Readables(n) # {}}
      BY <1>1, <1>2, <1>4 DEF Parts
    <3>4. {TextRead(n) : n \in Parts(v)} = IF Readables(whole) = {} THEN {} ELSE {TextRead(whole)}
      BY <3>3
    <3>5. JoinedFrom(<<>>, {}) /\ \A x : JoinedFrom(<<x>>, {x})
      BY DEF JoinedFrom
    <3>6. IsTextOf(text, v)
      BY <3>2, <3>4, <3>5 DEF IsTextOf
    <3>. QED BY <1>1, <2>2, <2>3, <3>2, <3>6 DEF Came
  <2>. QED BY <1>1, <1>2, <1>4, <2>2, <2>3 DEF Came
<1>. QED BY <1>3, <1>4

\* The arguments as they are shown.
LEMMA ArgvShown ==
  ASSUME NEW T, Command(T), MergeInv, toMerge = {}, chunk.of = NoVariable, pc = "done"
  PROVE  ArgvFaithful
<1> SUFFICES ASSUME classTypeName = "EXECVE", Came("argc")
             PROVE  /\ IsTextOf(contentVars[Argc].fancy, "argc")
                    /\ \A i \in DOMAIN Arguments : i <= Number(contentVars[Argc].fancy) =>
                         LET v == Arguments[i]
                             shown == ClassJSON(classTypeName, contentVars).argv[i]
                         IN  IF Came(v) THEN IsTextOf(shown, v) ELSE shown = NotFound
  BY DEF ArgvFaithful
<1>1. Argc \in DOMAIN contentVars /\ IsTextOf(contentVars[Argc].fancy, "argc")
  BY VariableText, ArgcName
<1>2. ASSUME NEW i \in DOMAIN Arguments, i <= Number(contentVars[Argc].fancy)
      PROVE  LET v == Arguments[i]
                 shown == ClassJSON(classTypeName, contentVars).argv[i]
             IN  IF Came(v) THEN IsTextOf(shown, v) ELSE shown = NotFound
  <2>1. PICK v, whole, count : v = Arguments[i] /\ whole = <<v, Whole>> /\ count = Number(contentVars[Argc].fancy)
    OBVIOUS
  <2>2. ClassJSON(classTypeName, contentVars) = [argv |-> Argv(contentVars)]
    BY <1>1 DEF ClassJSON, ShowsArguments
  <2>3. Argv(contentVars)[i] = IF <<Arguments[i], Whole>> \in DOMAIN contentVars
                               THEN contentVars[<<Arguments[i], Whole>>].fancy ELSE NotFound
    <3>1. i \in {j \in DOMAIN Arguments : j <= count}
      BY <1>2, <2>1
    <3>. QED BY <2>1, <3>1 DEF Argv
  <2>4. PICK shown : /\ shown = ClassJSON(classTypeName, contentVars).argv[i]
                     /\ shown = IF whole \in DOMAIN contentVars THEN contentVars[whole].fancy ELSE NotFound
    BY <2>1, <2>2, <2>3
  <2>5. IF Came(v) THEN whole \in DOMAIN contentVars /\ IsTextOf(contentVars[whole].fancy, v)
        ELSE whole \notin DOMAIN contentVars
    BY <2>1, VariableText
  <2>. QED BY <2>1, <2>4, <2>5
<1>. QED BY <1>1, <1>2

\* What the text of a variable is made of.
LEMMA OwnersOfTexts ==
  ASSUME NEW T, Command(T), MergeInv, toMerge = {}, chunk.of = NoVariable, NEW n \in DOMAIN contentVars
  PROVE  \/ Untouched(n) /\ contentVars[n] = ReadVar(n) /\ ~(Merges(n[1]) /\ n = <<n[1], Whole>>)
         \/ Merges(n[1]) /\ n = <<n[1], Whole>> /\ JoinedFrom(contentVars[n].fancy, PieceTexts(n[1]))
<1>1. CASE Merges(n[1]) /\ n = <<n[1], Whole>>
  <2>1. PICK v : v = n[1]
    OBVIOUS
  <2>2. Merges(v) /\ n = <<v, Whole>>
    BY <1>1, <2>1
  <2>3. JoinedFrom(contentVars[n].fancy, PieceTexts(v))
    BY <2>2 DEF MergeInv
  <2>. QED BY <1>1, <2>1, <2>3
<1>. QED BY <1>1 DEF MergeInv

\* Every text that stands is in some variable.
LEMMA TextsFound ==
  ASSUME NEW T, Command(T), MergeInv, toMerge = {}, chunk.of = NoVariable, NEW n, Intact(n)
  PROVE  \E m \in DOMAIN contentVars : TextRead(n) \in TextsIn(m)
<1>1. Arrived(n) /\ n \in NamesIn /\ Readables(n) # {} /\ n = <<n[1], n[2]>>
  BY ArrivedNames DEF Intact, MergeInv, TextsNamed
<1>2. CASE Merges(n[1]) /\ (Absorbed(n[1], n[2]) \/ n[2] = Whole)
  <2>1. PICK v, m : v = n[1] /\ m = <<v, Whole>>
    OBVIOUS
  <2>2. n \in Pieces(v)
    BY <1>1, <1>2, <2>1 DEF Pieces
  <2>3. m \in DOMAIN contentVars /\ JoinedFrom(contentVars[m].fancy, PieceTexts(v))
    BY <1>2, <2>1 DEF MergeInv
  <2>4. TextRead(n) \in PieceTexts(v)
    BY <2>2 DEF PieceTexts
  <2>. QED BY <2>3, <2>4 DEF JoinedFrom, TextsIn
<1>3. CASE ~(Merges(n[1]) /\ (Absorbed(n[1], n[2]) \/ n[2] = Whole))
  <2>1. Untouched(n)
    BY <1>1, <1>3 DEF Untouched, Absorbed
  <2>2. n \in DOMAIN contentVars /\ contentVars[n] = ReadVar(n)
    BY <2>1 DEF MergeInv
  <2>3. contentVars[n].fancy = <<TextRead(n)>>
    BY <1>1, <2>2 DEF ReadVar
  <2>4. TextRead(n) \in TextsIn(n)
    BY <2>3 DEF TextsIn
  <2>. QED BY <2>2, <2>4
<1>. QED BY <1>2, <1>3

\* No text is in two variables.
LEMMA TextsApart ==
  ASSUME NEW T, Command(T), MergeInv, toMerge = {}, chunk.of = NoVariable,
         NEW m \in DOMAIN contentVars, NEW n \in DOMAIN contentVars, m # n
  PROVE  TextsIn(m) \cap TextsIn(n) = {}
<1> DEFINE Joint(o) == Merges(o[1]) /\ o = <<o[1], Whole>>
           Piece(e, v) == \E p : p \in Pieces(v) /\ p[1] = e[1] /\ p[2] = e[2]
<1>1. ASSUME NEW o \in DOMAIN contentVars, NEW e \in TextsIn(o)
      PROVE  /\ e[1] = o[1]
             /\ \/ Untouched(o) /\ e[2] = o[2] /\ o = <<o[1], o[2]>> /\ ~Joint(o)
                \/ Joint(o) /\ Piece(e, o[1])
  <2>1. PICK j \in DOMAIN contentVars[o].fancy : e = contentVars[o].fancy[j]
    BY DEF TextsIn
  <2>2. CASE Untouched(o) /\ contentVars[o] = ReadVar(o) /\ ~Joint(o)
    <3>1. contentVars[o].fancy = IF Readables(o) = {} THEN <<>> ELSE <<TextRead(o)>>
      BY <2>2 DEF ReadVar
    <3>2. Readables(o) # {} /\ e = TextRead(o)
      BY <2>1, <3>1
    <3>3. e[1] = o[1] /\ e[2] = o[2]
      BY <3>2 DEF MergeInv, TextsNamed
    <3>4. o = <<o[1], o[2]>>
      BY <2>2, ArrivedNames DEF Untouched
    <3>. QED BY <2>2, <3>3, <3>4
  <2>3. CASE Joint(o) /\ JoinedFrom(contentVars[o].fancy, PieceTexts(o[1]))
    <3>1. e \in PieceTexts(o[1])
      BY <2>1, <2>3 DEF JoinedFrom
    <3>2. PICK p \in Pieces(o[1]) : e = TextRead(p)
      BY <3>1 DEF PieceTexts
    <3>3. Readables(p) # {} /\ p[1] = o[1]
      BY <3>2 DEF Pieces, MergeInv, TextsNamed
    <3>4. e[1] = p[1] /\ e[2] = p[2]
      BY <3>2, <3>3 DEF MergeInv, TextsNamed
    <3>. QED BY <2>3, <3>2, <3>3, <3>4
  <2>. QED BY <2>2, <2>3, OwnersOfTexts
<1>2. ASSUME NEW o, Untouched(o), ~Joint(o), o = <<o[1], o[2]>>, NEW e, e[1] = o[1], e[2] = o[2]
      PROVE  ~(Merges(o[1]) /\ Piece(e, o[1]))
  <2>1. ~(Merges(o[1]) /\ o[2] = Whole) /\ ~Absorbed(o[1], o[2])
    BY <1>2 DEF Untouched
  <2>2. \A p \in Pieces(o[1]) : Absorbed(o[1], p[2]) \/ p[2] = Whole
    BY DEF Pieces
  <2>. QED BY <1>2, <2>1, <2>2
<1> SUFFICES ASSUME NEW e \in TextsIn(m), e \in TextsIn(n) PROVE FALSE
  OBVIOUS
<1>3. /\ e[1] = m[1]
      /\ \/ Untouched(m) /\ e[2] = m[2] /\ m = <<m[1], m[2]>> /\ ~Joint(m)
         \/ Joint(m) /\ Piece(e, m[1])
  BY <1>1
<1>4. /\ e[1] = n[1]
      /\ \/ Untouched(n) /\ e[2] = n[2] /\ n = <<n[1], n[2]>> /\ ~Joint(n)
         \/ Joint(n) /\ Piece(e, n[1])
  BY <1>1
<1>5. CASE Untouched(m) /\ e[2] = m[2] /\ m = <<m[1], m[2]>> /\ ~Joint(m)
  <2>1. ~(Merges(m[1]) /\ Piece(e, m[1]))
    BY <1>2, <1>3, <1>5
  <2> HIDE DEF Piece
  <2>. QED BY <1>3, <1>4, <1>5, <2>1
<1>6. CASE Joint(m) /\ Piece(e, m[1])
  <2>1. ~Joint(n)
    BY <1>3, <1>4, <1>6
  <2>2. Untouched(n) /\ e[2] = n[2] /\ n = <<n[1], n[2]>>
    BY <1>4, <2>1
  <2>3. ~(Merges(n[1]) /\ Piece(e, n[1]))
    BY <1>2, <1>4, <2>1, <2>2
  <2> HIDE DEF Piece
  <2>. QED BY <1>3, <1>4, <1>6, <2>3
<1> HIDE DEF Joint, Piece
<1>. QED BY <1>3, <1>5, <1>6

\* No text is twice in one.
LEMMA TextsOnce ==
  ASSUME NEW T, Command(T), MergeInv, toMerge = {}, chunk.of = NoVariable,
         NEW n \in DOMAIN contentVars,
         NEW i \in DOMAIN contentVars[n].fancy, NEW j \in DOMAIN contentVars[n].fancy, i # j
  PROVE  contentVars[n].fancy[i] # contentVars[n].fancy[j]
<1>1. PICK t : t = contentVars[n].fancy
  OBVIOUS
<1>2. CASE \E c : t = <<c>> \/ t = <<>>
  BY <1>1, <1>2
<1>3. CASE JoinedFrom(t, PieceTexts(n[1]))
  <2>1. /\ i \in Int /\ j \in Int /\ t[i] \in PieceTexts(n[1]) /\ t[j] \in PieceTexts(n[1])
        /\ i < j => t[i][2] < t[j][2]
        /\ j < i => t[j][2] < t[i][2]
    BY <1>1, <1>3 DEF JoinedFrom
  <2>2. \A p \in PieceTexts(n[1]) : p[2] \in Int
    <3>1. ASSUME NEW p \in Pieces(n[1]) PROVE TextRead(p)[2] \in Int
      <4>1. Readables(p) # {}
        BY DEF Pieces, MergeInv, TextsNamed
      <4>2. p[2] \in Int
        BY WholeIsNoChunk DEF Pieces, Absorbed
      <4>. QED BY <4>1, <4>2 DEF MergeInv, TextsNamed
    <3>. QED BY <3>1 DEF PieceTexts
  <2>. QED BY <1>1, <2>1, <2>2
<1>4. contentVars[n] = ReadVar(n) => \E c : t = <<c>> \/ t = <<>>
  BY <1>1 DEF ReadVar
<1>. QED BY <1>1, <1>2, <1>3, <1>4, OwnersOfTexts

\* All texts are kept, each in one place.
LEMMA TextsKept ==
  ASSUME NEW T, Command(T), MergeInv, toMerge = {}, chunk.of = NoVariable, pc = "done"
  PROVE  NoTextLost
<1>1. \A n \in NamesIn : Intact(n) => \E m \in DOMAIN contentVars : TextRead(n) \in TextsIn(m)
  BY TextsFound
<1>2. \A m, n \in DOMAIN contentVars : m # n => TextsIn(m) \cap TextsIn(n) = {}
  BY TextsApart
<1>3. \A n \in DOMAIN contentVars : \A i, j \in DOMAIN contentVars[n].fancy :
        i # j => contentVars[n].fancy[i] # contentVars[n].fancy[j]
  BY TextsOnce
<1>. QED BY <1>1, <1>2, <1>3 DEF NoTextLost
-----------------------------------------------------------------------------
(* The shape of an object of any class.                                      *)

\* Tokens that have a pair as name.
Tokens(T) == rawInput \in Seq(T) /\ \A x \in T : x.name = <<x.name[1], x.name[2]>>

PartNames == {Family, IPAddr, Port, UnixPath}
VarShape(var) == var = [valid |-> var.valid, fancy |-> var.fancy] /\ var.valid \in BOOLEAN
ChunksNamed(v, k) == \A i \in 0..k - 1 : <<v, i>> \in NamesIn

ShapeInv ==
  /\ pos \in 1..Len(rawInput) + 1
  /\ DOMAIN contentVars \subseteq AllNames \cup PartNames
  /\ \A n \in DOMAIN contentVars : VarShape(contentVars[n])
  /\ \A v \in toMerge : <<v, 0>> \in NamesIn
  /\ chunk = [of |-> chunk.of, next |-> chunk.next] /\ chunk.next \in Nat
  /\ IF chunk.of = NoVariable THEN chunk.next \in {0, 1} ELSE chunk.next > 0 /\ ChunksNamed(chunk.of, chunk.next)

\* A variable keeps its shape when it becomes invalid, and when text is added.
LEMMA ShapeKept ==
  ASSUME NEW var, VarShape(var)
  PROVE  /\ var.valid \in BOOLEAN
         /\ VarShape([var EXCEPT !.valid = FALSE])
         /\ \A t : VarShape([var EXCEPT !.fancy = t])
<1>1. VarShape([var EXCEPT !.valid = FALSE])
  <2>1. PICK no : no = FALSE
    OBVIOUS
  <2>2. PICK after : after = [var EXCEPT !.valid = no]
    OBVIOUS
  <2>3. after = [valid |-> after.valid, fancy |-> after.fancy] /\ after.valid = no
    BY <2>2 DEF VarShape
  <2>4. after.valid \in BOOLEAN
    BY <2>1, <2>3, Zenon
  <2>5. VarShape(after)
    BY <2>3, <2>4, Zenon DEF VarShape
  <2>. QED BY <2>1, <2>2, <2>5, Zenon
<1>2. ASSUME NEW t PROVE VarShape([var EXCEPT !.fancy = t])
  <2>1. PICK after : after = [var EXCEPT !.fancy = t]
    OBVIOUS
  <2>2. after = [valid |-> after.valid, fancy |-> after.fancy] /\ after.valid = var.valid
    BY <2>1 DEF VarShape
  <2>3. VarShape(after)
    BY <2>2, Zenon DEF VarShape
  <2>. QED BY <2>1, <2>3, Zenon
<1>. QED BY <1>1, <1>2, Zenon DEF VarShape

\* Names of an object: chunks are names of tokens.
LEMMA NamesOfTokens ==
  ASSUME NEW T, Tokens(T)
  PROVE  /\ \A n \in NamesIn : n = <<n[1], n[2]>>
         /\ \A n \in AllNames \cup PartNames : n[2] # Whole => n \in NamesIn
         /\ \A n \in NamesIn : n[2] # Whole => \E j \in DOMAIN rawInput : rawInput[j].name = n
         /\ \A n \in NamesIn : n[1] \in Variables /\ <<n[1], Whole>> \in AllNames
         /\ \A j \in DOMAIN rawInput : rawInput[j].name \in NamesIn
<1>1. \A j \in DOMAIN rawInput : rawInput[j] \in T
  BY DEF Tokens
<1>2. \A n \in NamesIn : \E j \in DOMAIN rawInput : rawInput[j].name = n
  BY DEF NamesIn
<1>3. ASSUME NEW n \in NamesIn PROVE n = <<n[1], n[2]>>
  BY <1>1, <1>2 DEF Tokens
<1>4. \A j \in DOMAIN rawInput : rawInput[j].name \in NamesIn
  BY DEF NamesIn
<1>5. \A n \in PartNames : n[2] = Whole
  BY DEF PartNames, Family, IPAddr, Port, UnixPath
<1>6. \A v : <<v, Whole>>[2] = Whole
  OBVIOUS
<1>. QED BY <1>2, <1>3, <1>4, <1>5, <1>6 DEF AllNames, Variables

\* A variable has as many chunks as there are tokens, at most.
LEMMA ChunksBounded ==
  ASSUME NEW T, Tokens(T), NEW v, NEW k \in Nat, ChunksNamed(v, k)
  PROVE  k <= Len(rawInput)
<1> DEFINE f == [i \in 0..k - 1 |-> CHOOSE j \in DOMAIN rawInput : rawInput[j].name = <<v, i>>]
<1>1. Len(rawInput) \in Nat /\ DOMAIN rawInput = 1..Len(rawInput)
  BY DEF Tokens
<1>2. ASSUME NEW i \in 0..k - 1 PROVE f[i] \in 1..Len(rawInput) /\ rawInput[f[i]].name = <<v, i>>
  <2>1. PICK n : n = <<v, i>> /\ n \in NamesIn
    BY DEF ChunksNamed
  <2>2. n[2] # Whole
    BY <2>1, WholeIsNoChunk
  <2>. QED BY <1>1, <2>1, <2>2, NamesOfTokens
<1> HIDE DEF f
<1>3. f \in Injection(0..k - 1, 1..Len(rawInput))
  <2>1. f \in [0..k - 1 -> 1..Len(rawInput)]
    BY <1>2 DEF f
  <2>2. ASSUME NEW i \in 0..k - 1, NEW j \in 0..k - 1, f[i] = f[j] PROVE i = j
    <3>1. <<v, i>> = <<v, j>>
      BY <1>2, <2>2
    <3>. QED BY <3>1
  <2>. QED BY <2>1, <2>2 DEF Injection, IsInjective
<1>4. IsFiniteSet(1..Len(rawInput)) /\ Cardinality(1..Len(rawInput)) = Len(rawInput)
  <2>1. PICK m \in Nat : m = Len(rawInput)
    BY <1>1
  <2>2. IsFiniteSet(1..m) /\ Cardinality(1..m) = IF 1 > m THEN 0 ELSE m - 1 + 1
    BY FS_Interval
  <2>. QED BY <2>1, <2>2
<1>5. Cardinality(0..k - 1) = k
  BY FS_Interval
<1>6. Cardinality(0..k - 1) <= Cardinality(1..Len(rawInput))
  BY <1>3, <1>4, FS_Injection
<1>. QED BY <1>4, <1>5, <1>6

\* The shape is what the type invariant says of an object.
LEMMA ShapeOfObject ==
  ASSUME NEW T, Tokens(T), ShapeInv, pc \in {"idle", "quoted", "bare", "merge", "done"}
  PROVE  ClassTypeOK
<1>1. Len(rawInput) \in Nat
  BY DEF Tokens
<1>2. toMerge \subseteq Variables
  <2>1. \A v : <<v, 0>>[1] = v
    OBVIOUS
  <2>. QED BY <2>1, NamesOfTokens DEF ShapeInv
<1>3. chunk.next \in 0..Len(rawInput) + 1
  <2>1. CASE chunk.of = NoVariable
    BY <1>1, <2>1 DEF ShapeInv
  <2>2. CASE chunk.of # NoVariable
    BY <1>1, <2>2, ChunksBounded DEF ShapeInv
  <2>. QED BY <2>1, <2>2
<1>. QED BY <1>2, <1>3, ShapeKept DEF ClassTypeOK, ShapeInv, PartNames

\* What a match sets has the shape of a variable and a name of the object.
LEMMA ParsedShape ==
  ASSUME NEW T, Tokens(T), ShapeInv, NEW j \in DOMAIN rawInput, pc \in {"quoted", "bare"}
  PROVE  /\ DOMAIN Parsed(rawInput[j]) \subseteq AllNames \cup PartNames
         /\ \A n \in DOMAIN Parsed(rawInput[j]) : VarShape(Parsed(rawInput[j])[n])
<1>1. PICK x : x = rawInput[j]
  OBVIOUS
<1>2. \A name : VarShape(Lookup(name))
  <2>1. VarShape(NewVar)
    BY DEF VarShape, NewVar
  <2>. QED BY <2>1 DEF Lookup, ShapeInv
<1>3. \A name : VarShape([Lookup(name) EXCEPT !.valid = FALSE])
  <2> HIDE DEF VarShape
  <2>. QED BY <1>2, ShapeKept
<1>4. \A f : VarShape([valid |-> TRUE, fancy |-> f])
  BY DEF VarShape
<1>5. VarShape(ParsedVar(x))
  BY <1>3, <1>4 DEF ParsedVar
<1>6. \A name, part : VarShape(PartVar(name, part))
  BY <1>3, <1>4 DEF PartVar
<1>7. PICK var : var = [n \in {x.name} |-> ParsedVar(x)]
  OBVIOUS
<1>8. PICK parts : parts = IF x.form = "address" THEN AddressVars(x.text) ELSE NoVars
  OBVIOUS
<1>9. /\ Parsed(x) = [n \in DOMAIN var \cup DOMAIN parts |-> IF n \in DOMAIN var THEN var[n] ELSE parts[n]]
      /\ DOMAIN var = {x.name} /\ \A n \in DOMAIN var : VarShape(var[n])
  BY <1>5, <1>7, <1>8 DEF Parsed
<1>10. DOMAIN parts \subseteq PartNames /\ \A n \in DOMAIN parts : VarShape(parts[n])
  <2>1. CASE x.form = "address"
    <3> DEFINE PartOf(n) == CASE n = Family -> x.text[1] [] n = IPAddr -> x.text[2]
                              [] n = Port -> x.text[3] [] n = UnixPath -> x.text[4]
    <3>1. parts = [n \in PartsShown(x.text[4]) |-> PartVar(n, PartOf(n))]
      BY <1>8, <2>1 DEF AddressVars
    <3> HIDE DEF PartOf
    <3>2. PartsShown(x.text[4]) \subseteq PartNames
      BY DEF PartsShown, PartNames
    <3>. QED BY <1>6, <3>1, <3>2
  <2>2. CASE x.form # "address"
    BY <1>8, <2>2 DEF NoVars
  <2>. QED BY <2>1, <2>2
<1>11. x.name \in AllNames
  <2>1. x.name \in NamesIn
    BY <1>1, NamesOfTokens
  <2>. QED BY <2>1 DEF AllNames
<1>. QED BY <1>1, <1>9, <1>10, <1>11

\* Merging a chunk leaves the variables in shape.
LEMMA MergedShape ==
  ASSUME NEW T, Tokens(T), ShapeInv, NEW v, NEW k, <<v, 0>> \in NamesIn
  PROVE  /\ DOMAIN Merged(v, k) \subseteq AllNames \cup PartNames
         /\ \A n \in DOMAIN Merged(v, k) : VarShape(Merged(v, k)[n])
<1> DEFINE whole == <<v, Whole>>
<1>1. PICK var : var = Appended(Lookup(whole), Lookup(<<v, k>>))
  OBVIOUS
<1>2. VarShape(var)
  <2>1. VarShape(NewVar)
    BY DEF VarShape, NewVar
  <2>2. VarShape(Lookup(whole))
    BY <2>1 DEF Lookup, ShapeInv
  <2>3. PICK t : t = Lookup(whole).fancy \o Lookup(<<v, k>>).fancy
    OBVIOUS
  <2>4. var = [Lookup(whole) EXCEPT !.fancy = t] \/ var = [Lookup(whole) EXCEPT !.valid = FALSE]
    BY <1>1, <2>3 DEF Appended
  <2>5. VarShape([Lookup(whole) EXCEPT !.fancy = t]) /\ VarShape([Lookup(whole) EXCEPT !.valid = FALSE])
    BY <2>2, ShapeKept
  <2>. QED BY <2>4, <2>5, Zenon
<1>3. With(whole, var) = [n \in DOMAIN contentVars \cup {whole} |-> IF n = whole THEN var ELSE contentVars[n]]
  <2> HIDE DEF whole
  <2>. QED BY DEF With, Overridden
<1>4. Merged(v, k) = [n \in (DOMAIN contentVars \cup {whole}) \ {<<v, k>>} |-> IF n = whole THEN var ELSE contentVars[n]]
  <2>1. Merged(v, k) = [n \in DOMAIN With(whole, var) \ {<<v, k>>} |-> With(whole, var)[n]]
    BY <1>1 DEF Merged
  <2>2. PICK c : c = <<v, k>>
    OBVIOUS
  <2> HIDE DEF whole
  <2>. QED BY <1>3, <2>1, <2>2
<1>5. whole \in AllNames
  <2>1. <<v, 0>>[1] = v
    OBVIOUS
  <2>. QED BY <2>1, NamesOfTokens
<1> HIDE DEF whole
<1>6. PICK c : c = <<v, k>>
  OBVIOUS
<1>. QED BY <1>2, <1>4, <1>5, <1>6 DEF ShapeInv

\* The names that an object may have depend on its text only.
LEMMA NamesStay ==
  ASSUME UNCHANGED rawInput
  PROVE  NamesIn' = NamesIn /\ AllNames' = AllNames /\ Variables' = Variables
BY DEF NamesIn, AllNames, Variables

\* Every step of the object keeps the shape of its variables.
LEMMA StepKeepsShape ==
  ASSUME NEW T, Tokens(T), ShapeInv, ProcessStep
  PROVE  ShapeInv'
<1>1. UNCHANGED rawInput
  BY DEF ProcessStep, ParseVar, SecondPass, FindSpplited, MergeZero, MergeNext, EndOfChunks, Finish
<1>2. NamesIn' = NamesIn /\ AllNames' = AllNames /\ Variables' = Variables
  BY <1>1, NamesStay
<1>3. Len(rawInput) \in Nat /\ DOMAIN rawInput = 1..Len(rawInput) /\ pos \in 1..Len(rawInput) + 1
  BY DEF Tokens, ShapeInv
<1>4. CASE ParseVar
  <2>1. /\ pc \in {"quoted", "bare"} /\ pos \in DOMAIN rawInput /\ pos' = pos + 1
        /\ UNCHANGED <<toMerge, chunk>>
    BY <1>3, <1>4 DEF ParseVar
  <2>2. PICK vars : vars = Parsed(rawInput[pos])
    OBVIOUS
  <2>3. DOMAIN vars \subseteq AllNames \cup PartNames /\ \A n \in DOMAIN vars : VarShape(vars[n])
    BY <2>1, <2>2, ParsedShape
  <2>4. \/ contentVars' = contentVars
        \/ contentVars' = [n \in DOMAIN contentVars \cup DOMAIN vars |->
                             IF n \in DOMAIN vars THEN vars[n] ELSE contentVars[n]]
    BY <1>4, <2>2 DEF ParseVar, Overridden
  <2>5. /\ DOMAIN contentVars' \subseteq AllNames \cup PartNames
        /\ \A n \in DOMAIN contentVars' : VarShape(contentVars'[n])
    BY <2>3, <2>4 DEF ShapeInv
  <2>6. pos' \in 1..Len(rawInput') + 1
    BY <1>1, <1>3, <2>1
  <2>. QED BY <1>1, <1>2, <2>1, <2>5, <2>6 DEF ShapeInv, VarShape, ChunksNamed
<1>5. CASE SecondPass
  BY <1>1, <1>2, <1>3, <1>5 DEF SecondPass, ShapeInv, VarShape, ChunksNamed
<1>6. CASE FindSpplited
  <2>1. toMerge' = SpplitedVarNames /\ UNCHANGED <<contentVars, pos, chunk>>
    BY <1>6 DEF FindSpplited
  <2>2. ASSUME NEW v \in SpplitedVarNames PROVE <<v, 0>> \in NamesIn
    <3>1. PICK n \in DOMAIN contentVars : n[2] = 0 /\ v = n[1]
      BY DEF SpplitedVarNames
    <3>2. n \in NamesIn
      BY <3>1, NamesOfTokens, WholeIsNoChunk DEF ShapeInv
    <3>3. n = <<n[1], n[2]>>
      BY <3>2, NamesOfTokens
    <3>. QED BY <3>1, <3>2, <3>3
  <2>. QED BY <1>1, <1>2, <1>3, <2>1, <2>2 DEF ShapeInv, VarShape, ChunksNamed
<1>7. ASSUME NEW v, NEW k, <<v, 0>> \in NamesIn, contentVars' = Merged(v, k)
      PROVE  /\ DOMAIN contentVars' \subseteq AllNames \cup PartNames
             /\ \A n \in DOMAIN contentVars' : VarShape(contentVars'[n])
  BY <1>7, MergedShape
<1>8. ASSUME NEW v \in toMerge, MergeZero(v) PROVE ShapeInv'
  <2>1. /\ contentVars' = Merged(v, 0) /\ toMerge' \subseteq toMerge /\ chunk' = [of |-> v, next |-> 1]
        /\ UNCHANGED pos
    BY <1>8 DEF MergeZero, VarsAfterMerge, FirstAfterZero
  <2>2. <<v, 0>> \in NamesIn
    BY DEF ShapeInv
  <2>3. /\ DOMAIN contentVars' \subseteq AllNames \cup PartNames
        /\ \A n \in DOMAIN contentVars' : VarShape(contentVars'[n])
    BY <1>7, <2>1, <2>2
  <2>4. chunk'.of = v /\ chunk'.next = 1 /\ chunk' = [of |-> chunk'.of, next |-> chunk'.next]
    BY <2>1
  <2>5. \A i \in 0..1 - 1 : <<v, i>> \in NamesIn
    BY <2>2
  <2>. QED BY <1>1, <1>2, <1>3, <2>1, <2>3, <2>4, <2>5 DEF ShapeInv, VarShape, ChunksNamed
<1>9. CASE MergeNext
  <2>1. PICK v, k : v = chunk.of /\ k = chunk.next
    OBVIOUS
  <2>2. /\ v # NoVariable /\ <<v, k>> \in DOMAIN contentVars /\ contentVars' = Merged(v, k)
        /\ UNCHANGED <<pos, toMerge>> /\ chunk' = [chunk EXCEPT !.next = @ + 1]
    BY <1>9, <2>1 DEF MergeNext, VarsAfterMerge, HasChunk
  <2>3. k \in Nat /\ k > 0 /\ \A i \in 0..k - 1 : <<v, i>> \in NamesIn
    BY <2>1, <2>2 DEF ShapeInv, ChunksNamed
  <2>4. <<v, 0>> \in NamesIn
    BY <2>3
  <2>5. <<v, k>> \in NamesIn
    <3>1. <<v, k>>[2] # Whole
      BY <2>3, WholeIsNoChunk
    <3>2. PICK n : n = <<v, k>>
      OBVIOUS
    <3>3. n \in AllNames \cup PartNames /\ n[2] # Whole
      BY <2>2, <3>1, <3>2 DEF ShapeInv
    <3>. QED BY <3>2, <3>3, NamesOfTokens
  <2>6. /\ DOMAIN contentVars' \subseteq AllNames \cup PartNames
        /\ \A n \in DOMAIN contentVars' : VarShape(contentVars'[n])
    BY <1>7, <2>2, <2>4
  <2>7. chunk' = [of |-> v, next |-> k + 1]
    BY <2>1, <2>2 DEF ShapeInv
  <2>8. chunk'.of = v /\ chunk'.next = k + 1 /\ chunk' = [of |-> chunk'.of, next |-> chunk'.next]
    BY <2>7
  <2>9. \A i \in 0..(k + 1) - 1 : <<v, i>> \in NamesIn
    <3>1. \A i \in 0..(k + 1) - 1 : i \in 0..k - 1 \/ i = k
      BY <2>3
    <3>. QED BY <2>3, <2>5, <3>1
  <2>. QED BY <1>1, <1>2, <1>3, <2>2, <2>3, <2>6, <2>8, <2>9 DEF ShapeInv, VarShape, ChunksNamed
<1>10. CASE EndOfChunks
  <2>1. chunk' = [of |-> NoVariable, next |-> 0] /\ UNCHANGED <<contentVars, pos, toMerge>>
    BY <1>10 DEF EndOfChunks
  <2>2. chunk'.of = NoVariable /\ chunk'.next = 0 /\ chunk' = [of |-> chunk'.of, next |-> chunk'.next]
    BY <2>1
  <2>. QED BY <1>1, <1>2, <1>3, <2>1, <2>2 DEF ShapeInv, VarShape, ChunksNamed
<1>11. CASE Finish
  BY <1>1, <1>2, <1>3, <1>11 DEF Finish, ShapeInv, VarShape, ChunksNamed
<1>. QED BY <1>4, <1>5, <1>6, <1>8, <1>9, <1>10, <1>11 DEF ProcessStep

\* An object begins in shape.
LEMMA BeginInShape ==
  ASSUME NEW class, NEW tokens, Begin(class, tokens), Len(tokens) \in Nat, ShapeInv,
         toMerge = {}, chunk.of = NoVariable
  PROVE  ShapeInv'
<1>1. pos' = 1 /\ rawInput' = tokens /\ DOMAIN contentVars' = {} /\ UNCHANGED <<toMerge, chunk>>
  BY DEF Begin, NoVars
<1>2. pos' \in 1..Len(rawInput') + 1
  BY <1>1
<1>. QED BY <1>1, <1>2 DEF ShapeInv
-----------------------------------------------------------------------------
(* The event.                                                                *)

\* The tokens of a class, and those of a command.
LEMMA KernelTokens ==
  ASSUME NEW R \in RecordSets
  PROVE  /\ \A r \in R : r.tokens \in Seq(TokensIn(R, r.class)) /\ r.class \in ClassSet
         /\ \A class : \A x \in TokensIn(R, class) : x.name = <<x.name[1], x.name[2]>>
         /\ CommandTokens(TokensIn(R, "EXECVE"))
         /\ \A r, s \in R : r.class = "SOCKADDR" /\ s.class = "SOCKADDR" =>
              Len(r.tokens) = 1 /\ AddressToken(r.tokens[1]) /\ r.tokens = s.tokens
<1>1. \A r \in R : r.tokens \in Seq(TokensIn(R, r.class)) /\ r.class \in ClassSet
  <2>1. \A r \in R : r.tokens \in Seq(TokensIn(R, r.class))
    BY KernelAssumption, Zenon
  <2>2. \A r \in R : \E k \in DOMAIN ClassOrder : ClassOrder[k] = r.class
    BY EventAssumption, Zenon
  <2>. QED BY <2>1, <2>2, Zenon DEF ClassSet
<1>2. ASSUME NEW class, NEW x \in TokensIn(R, class) PROVE x.name = <<x.name[1], x.name[2]>>
  <2>1. PICK r \in R : r.class = class
    BY DEF TokensIn
  <2>. QED BY <2>1, <1>2, KernelAssumption, Zenon
<1>3. CommandTokens(TokensIn(R, "EXECVE"))
  BY KernelAssumption, Zenon
<1>4. \A r, s \in R : r.class = "SOCKADDR" /\ s.class = "SOCKADDR" =>
        Len(r.tokens) = 1 /\ AddressToken(r.tokens[1]) /\ r.tokens = s.tokens
  BY KernelAssumption, Zenon
<1>. QED BY <1>1, <1>2, <1>3, <1>4

\* Objects of a class whose variables are among C.
ObjectSet(class, C) == [raw : Seq(TokensIn(kinds, class)), content : C]
ObjectsOf(C) == \A class \in ClassSet : classVars[class] \in Seq(ObjectSet(class, C))

\* The invariant of an event and of the object at hand.
EventInv ==
  /\ kinds \in RecordSets /\ records \in Seq(kinds) /\ Len(records) <= MaxRecords[kinds]
  /\ phase \in {"arriving", "processing", "shown"}
  /\ classVars = [class \in ClassSet |-> classVars[class]] /\ \E C : ObjectsOf(C)
  /\ processed \subseteq Objects
  /\ pc \in {"idle", "quoted", "bare", "merge", "done"}
  /\ pc # "idle" => phase = "processing" /\ processed # Objects
  /\ pc # "merge" => toMerge = {} /\ chunk.of = NoVariable
  /\ rawInput \in Seq(TokensIn(kinds, classTypeName))
  /\ ShapeInv
  /\ classTypeName = "EXECVE" =>
       /\ pc \in {"quoted", "bare"} => PassInv
       /\ pc \in {"merge", "done"} => MergeInv

\* What a step leaves alone keeps its part of the invariant.
LEMMA ShapeStays ==
  ASSUME ShapeInv, UNCHANGED <<rawInput, contentVars, pos, toMerge, chunk>>
  PROVE  ShapeInv'
<1>1. NamesIn' = NamesIn /\ AllNames' = AllNames
  BY NamesStay
<1>. QED BY <1>1 DEF ShapeInv, VarShape, ChunksNamed

\* The same for the passes over a command.
LEMMA PassStays ==
  ASSUME PassInv, UNCHANGED <<rawInput, contentVars, pos, pc>>
  PROVE  PassInv'
<1>1. Seen' = Seen /\ \A n : Copies(n)' = Copies(n)
  BY DEF Seen, Copies
<1>2. \A var, C : VarFits(var, C)' <=> VarFits(var, C)
  BY DEF VarFits, TextFits, IsLast, ReadBefore, InQuotes
<1>. QED BY <1>1, <1>2 DEF PassInv

\* The same for the merge.
LEMMA MergeStays ==
  ASSUME MergeInv, UNCHANGED <<rawInput, contentVars, toMerge, chunk>>
  PROVE  MergeInv'
<1>1. /\ NamesIn' = NamesIn
      /\ \A n : /\ Readables(n)' = Readables(n) /\ TextRead(n)' = TextRead(n)
                /\ Arrived(n)' <=> Arrived(n)
                /\ Intact(n)' <=> Intact(n)
  BY SameReading
<1>2. \A v : Merges(v)' <=> Merges(v)
  BY <1>1 DEF Merges
<1>3. \A v, k : Absorbed(v, k)' <=> Absorbed(v, k)
  BY <1>1, <1>2 DEF Absorbed
<1>4. \A v : PieceTexts(v)' = PieceTexts(v)
  <2>1. \A v : Pieces(v)' = Pieces(v)
    BY <1>1, <1>3 DEF Pieces
  <2>. QED BY <1>1, <2>1 DEF PieceTexts
<1>5. TextsNamed => TextsNamed'
  BY <1>1 DEF TextsNamed
<1>6. \A n : ReadVar(n)' = ReadVar(n) /\ (Untouched(n)' <=> Untouched(n))
  <2>1. \A n : Intact(n)' = Intact(n)
    BY <1>1 DEF Intact
  <2>. QED BY <1>1, <1>2, <1>3, <2>1 DEF ReadVar, Untouched
<1>7. \A v : JoinedFrom(contentVars[<<v, Whole>>].fancy, PieceTexts(v))'
        <=> JoinedFrom(contentVars[<<v, Whole>>].fancy, PieceTexts(v))
  BY <1>4 DEF JoinedFrom
<1>. QED BY <1>1, <1>2, <1>5, <1>6, <1>7 DEF MergeInv

\* The same for the objects.
LEMMA ObjectsStay ==
  ASSUME UNCHANGED <<kinds, classVars>>
  PROVE  /\ Objects' = Objects
         /\ (\E C : ObjectsOf(C)) => (\E C : ObjectsOf(C))'
<1>1. Objects' = Objects
  BY DEF Objects
<1>2. \A C : ObjectsOf(C)' <=> ObjectsOf(C)
  BY DEF ObjectsOf, ObjectSet
<1>. QED BY <1>1, <1>2

\* More contents may be among C.
LEMMA ObjectsWiden ==
  ASSUME NEW C, NEW D, C \subseteq D, NEW class, NEW s \in Seq(ObjectSet(class, C))
  PROVE  s \in Seq(ObjectSet(class, D))
<1>1. ObjectSet(class, C) \subseteq ObjectSet(class, D)
  BY DEF ObjectSet
<1>. QED BY <1>1

\* The first object gets more text, or an object gets other contents.
LEMMA ObjectChanged ==
  ASSUME NEW C, NEW class, NEW s \in Seq(ObjectSet(class, C)), NEW i \in DOMAIN s,
         NEW tokens \in Seq(TokensIn(kinds, class)), NEW content \in C
  PROVE  /\ [s EXCEPT ![i].raw = @ \o tokens] \in Seq(ObjectSet(class, C))
         /\ [s EXCEPT ![i].content = content] \in Seq(ObjectSet(class, C))
<1>1. PICK o : o = s[i]
  OBVIOUS
<1>2. o \in ObjectSet(class, C)
  BY <1>1
<1>3. [o EXCEPT !.content = content] \in ObjectSet(class, C)
  BY <1>2 DEF ObjectSet
<1>4. [o EXCEPT !.raw = o.raw \o tokens] \in ObjectSet(class, C)
  <2>1. o.raw \in Seq(TokensIn(kinds, class))
    BY <1>2 DEF ObjectSet
  <2>2. PICK t : t = o.raw \o tokens
    OBVIOUS
  <2>3. t \in Seq(TokensIn(kinds, class))
    BY <2>1, <2>2
  <2>4. [o EXCEPT !.raw = t] \in ObjectSet(class, C)
    BY <1>2, <2>3 DEF ObjectSet
  <2>. QED BY <2>2, <2>4
<1>5. \A p \in ObjectSet(class, C) : [s EXCEPT ![i] = p] \in Seq(ObjectSet(class, C))
  OBVIOUS
<1>. QED BY <1>1, <1>3, <1>4, <1>5

\* A record that comes in is in its object.
LEMMA InsertKeeps ==
  ASSUME EventInv, NEW r \in kinds, InsertClassContents(r)
  PROVE  EventInv'
<1>1. /\ phase = "arriving" /\ Len(records) < MaxRecords[kinds] /\ records' = Append(records, r)
      /\ classVars' = [classVars EXCEPT ![r.class] = ObjectsAfter(r)]
      /\ UNCHANGED <<kinds, phase, processed, objectVars>>
  BY DEF InsertClassContents
<1>2. pc = "idle"
  BY <1>1 DEF EventInv
<1>3. r.tokens \in Seq(TokensIn(kinds, r.class)) /\ r.class \in ClassSet
  BY KernelTokens DEF EventInv
<1>4. records' \in Seq(kinds) /\ Len(records') <= MaxRecords[kinds]
  <2>1. MaxRecords[kinds] \in Nat
    BY EventAssumption DEF EventInv
  <2>. QED BY <1>1, <2>1 DEF EventInv
<1>5. PICK C : ObjectsOf(C)
  BY DEF EventInv
<1>6. PICK D : D = C \cup {NoVars}
  OBVIOUS
<1>7. PICK class, s : class = r.class /\ s = classVars[class] /\ s \in Seq(ObjectSet(class, D))
  BY <1>3, <1>5, <1>6, ObjectsWiden DEF ObjectsOf
<1>8. PICK after : after = ObjectsAfter(r)
  OBVIOUS
<1>9. after \in Seq(ObjectSet(class, D)) /\ Len(after) >= Len(s)
  <2>1. CASE OwnObject(r.class)
    <3>1. [raw |-> r.tokens, content |-> NoVars] \in ObjectSet(class, D)
      BY <1>3, <1>6, <1>7 DEF ObjectSet
    <3>2. PICK o : o = [raw |-> r.tokens, content |-> NoVars]
      OBVIOUS
    <3>3. after = Append(s, o)
      BY <1>7, <1>8, <2>1, <3>2 DEF ObjectsAfter
    <3>. QED BY <1>7, <3>1, <3>2, <3>3
  <2>2. CASE ~OwnObject(r.class)
    <3>1. s # <<>>
      BY <1>7, <2>2 DEF OwnObject
    <3>2. 1 \in DOMAIN s
      BY <1>7, <3>1
    <3>3. after = [s EXCEPT ![1].raw = @ \o r.tokens]
      BY <1>7, <1>8, <2>2 DEF ObjectsAfter
    <3>4. after \in Seq(ObjectSet(class, D))
      BY <1>3, <1>6, <1>7, <3>2, <3>3, ObjectChanged
    <3>5. DOMAIN after = DOMAIN s
      BY <3>3
    <3>. QED BY <1>7, <3>4, <3>5
  <2>. QED BY <2>1, <2>2
<1>10. /\ classVars' = [c \in ClassSet |-> classVars'[c]]
       /\ classVars'[class] = after /\ \A c \in ClassSet : c # class => classVars'[c] = classVars[c]
  BY <1>1, <1>3, <1>7, <1>8 DEF EventInv
<1>11. ObjectsOf(D)'
  <2>1. \A c \in ClassSet : classVars[c] \in Seq(ObjectSet(c, D))
    BY <1>5, <1>6, ObjectsWiden DEF ObjectsOf
  <2>. QED BY <1>1, <1>9, <1>10, <2>1 DEF ObjectsOf, ObjectSet
<1>12. processed' \subseteq Objects'
  <2>1. \A k \in DOMAIN ClassOrder : DOMAIN classVars[ClassOrder[k]] \subseteq DOMAIN classVars'[ClassOrder[k]]
    <3>1. DOMAIN s \subseteq DOMAIN after
      BY <1>7, <1>9
    <3>. QED BY <1>7, <1>10, <3>1 DEF ClassSet
  <2>2. Objects \subseteq Objects'
    BY <2>1 DEF Objects
  <2>. QED BY <1>1, <2>2 DEF EventInv
<1>13. ShapeInv'
  BY <1>1, ShapeStays DEF EventInv, objectVars
<1>14. /\ pc' = "idle" /\ toMerge' = {} /\ chunk'.of = NoVariable
       /\ rawInput' \in Seq(TokensIn(kinds', classTypeName')) /\ kinds' \in RecordSets
  BY <1>1, <1>2 DEF EventInv, objectVars
<1>. QED BY <1>1, <1>4, <1>10, <1>11, <1>12, <1>13, <1>14 DEF EventInv

\* The variables of the object at hand, while it is a command.
CommandInv ==
  classTypeName = "EXECVE" =>
    /\ pc \in {"quoted", "bare"} => PassInv
    /\ pc \in {"merge", "done"} => MergeInv

\* The steps over a command.
LEMMA StepKeepsCommand ==
  ASSUME EventInv, ProcessStep, UNCHANGED kinds
  PROVE  CommandInv'
<1> DEFINE T == TokensIn(kinds, "EXECVE")
<1>1. UNCHANGED <<classTypeName, rawInput>>
  BY DEF ProcessStep, ParseVar, SecondPass, FindSpplited, MergeZero, MergeNext, EndOfChunks, Finish
<1> SUFFICES ASSUME classTypeName = "EXECVE" PROVE CommandInv'
  BY <1>1 DEF CommandInv
<1>2. Command(T)
  BY KernelTokens DEF EventInv, Command
<1> HIDE DEF T
<1>3. /\ pc # "merge" => toMerge = {} /\ chunk.of = NoVariable
      /\ pc \in {"quoted", "bare"} => PassInv
      /\ pc \in {"merge", "done"} => MergeInv
      /\ pc \in {"idle", "quoted", "bare", "merge", "done"}
      /\ chunk = [of |-> chunk.of, next |-> chunk.next]
  BY DEF EventInv, ShapeInv
<1>4. CASE ParseVar
  BY <1>2, <1>3, <1>4, ParseKeepsPass DEF CommandInv, ParseVar
<1>5. CASE SecondPass
  BY <1>2, <1>3, <1>5, SecondPassKeeps DEF CommandInv, SecondPass
<1>6. CASE FindSpplited
  BY <1>2, <1>3, <1>6, MergeBegins DEF CommandInv, FindSpplited
<1>7. ASSUME NEW v \in toMerge, MergeZero(v) PROVE CommandInv'
  BY <1>2, <1>3, <1>7, MergeZeroKeeps DEF CommandInv, MergeZero
<1>8. CASE MergeNext
  BY <1>2, <1>3, <1>8, MergeNextKeeps DEF CommandInv, MergeNext
<1>9. CASE EndOfChunks
  BY <1>2, <1>3, <1>9, EndOfChunksKeeps DEF CommandInv, EndOfChunks
<1>10. CASE Finish
  <2>1. UNCHANGED <<rawInput, contentVars, toMerge, chunk>> /\ pc = "merge" /\ pc' = "done"
    BY <1>10 DEF Finish
  <2>2. MergeInv'
    BY <1>3, <2>1, MergeStays
  <2>. QED BY <2>1, <2>2 DEF CommandInv
<1>. QED BY <1>4, <1>5, <1>6, <1>7, <1>8, <1>9, <1>10 DEF ProcessStep

\* A step over an object keeps the invariant of the event.
LEMMA ProcessStepKeeps ==
  ASSUME EventInv, ProcessStep, UNCHANGED eventVars
  PROVE  EventInv'
<1>1. UNCHANGED <<classTypeName, rawInput, kinds, records, classVars, phase, processed>>
  BY DEF eventVars, ProcessStep, ParseVar, SecondPass, FindSpplited, MergeZero, MergeNext, EndOfChunks, Finish
<1>2. CommandInv'
  BY <1>1, StepKeepsCommand
<1>3. ShapeInv'
  <2>1. Tokens(TokensIn(kinds, classTypeName))
    BY KernelTokens DEF EventInv, Tokens
  <2>. QED BY <2>1, StepKeepsShape DEF EventInv
<1>4. pc # "idle" /\ pc' \in {"quoted", "bare", "merge", "done"}
  <2>1. pc \in {"quoted", "bare", "merge"}
    BY DEF EventInv, ProcessStep, ParseVar, SecondPass, FindSpplited, MergeZero, MergeNext, EndOfChunks, Finish
  <2>2. pc' \in {pc, "bare", "merge", "done"}
    BY DEF ProcessStep, ParseVar, SecondPass, FindSpplited, MergeZero, MergeNext, EndOfChunks, Finish
  <2>. QED BY <2>1, <2>2
<1>5. pc' # "merge" => toMerge' = {} /\ chunk'.of = NoVariable
  BY DEF EventInv, ProcessStep, ParseVar, SecondPass, FindSpplited, MergeZero, MergeNext, EndOfChunks, Finish
<1>6. Objects' = Objects /\ (\E C : ObjectsOf(C))'
  BY <1>1, ObjectsStay DEF EventInv
<1>. QED BY <1>1, <1>2, <1>3, <1>4, <1>5, <1>6 DEF EventInv, CommandInv

\* The next object begins.
LEMMA BeginObjectKeeps ==
  ASSUME EventInv, BeginObject
  PROVE  EventInv'
<1>1. PICK at \in Objects : IsNext(at) /\ Begin(ClassOrder[at[1]], classVars[ClassOrder[at[1]]][at[2]].raw)
  BY DEF BeginObject
<1>2. PICK class, tokens : class = ClassOrder[at[1]] /\ tokens = classVars[class][at[2]].raw
  OBVIOUS
<1>3. Begin(class, tokens) /\ phase = "processing" /\ UNCHANGED <<kinds, records, classVars, phase, processed>>
  BY <1>1, <1>2 DEF BeginObject, eventVars
<1>4. /\ pc = "idle" /\ pc' = "quoted" /\ classTypeName' = class /\ rawInput' = tokens
      /\ UNCHANGED <<toMerge, chunk>>
  BY <1>3 DEF Begin
<1>5. tokens \in Seq(TokensIn(kinds, class))
  <2>1. PICK C : ObjectsOf(C)
    BY DEF EventInv
  <2>2. PICK k \in DOMAIN ClassOrder : \E i \in DOMAIN classVars[ClassOrder[k]] : at = <<k, i>>
    BY <1>1 DEF Objects
  <2>3. class = ClassOrder[k] /\ class \in ClassSet /\ at[2] \in DOMAIN classVars[class]
    BY <1>2, <2>2 DEF ClassSet
  <2>4. classVars[class][at[2]] \in ObjectSet(class, C)
    BY <2>1, <2>3 DEF ObjectsOf
  <2>. QED BY <1>2, <2>4 DEF ObjectSet
<1>6. Len(tokens) \in Nat /\ toMerge = {} /\ chunk.of = NoVariable /\ ShapeInv
  BY <1>4, <1>5 DEF EventInv
<1>7. ShapeInv' /\ PassInv'
  BY <1>3, <1>6, BeginInShape, PassBegins
<1>8. processed # Objects
  BY <1>1 DEF IsNext
<1>9. Objects' = Objects /\ (\E C : ObjectsOf(C))'
  BY <1>3, ObjectsStay DEF EventInv
<1>. QED BY <1>3, <1>4, <1>5, <1>6, <1>7, <1>8, <1>9 DEF EventInv

\* The object at hand gets its variables.
LEMMA EndObjectKeeps ==
  ASSUME EventInv, EndObject
  PROVE  EventInv'
<1>1. PICK at \in Objects :
        /\ IsNext(at)
        /\ classVars' = [classVars EXCEPT ![ClassOrder[at[1]]][at[2]].content = contentVars]
        /\ processed' = processed \cup {at}
  BY DEF EndObject
<1>2. /\ pc' = "idle" /\ pc = "done"
      /\ UNCHANGED <<kinds, records, phase, classTypeName, rawInput, contentVars, pos, toMerge, chunk>>
  BY DEF EndObject
<1>3. PICK C : ObjectsOf(C)
  BY DEF EventInv
<1>4. PICK D : D = C \cup {contentVars}
  OBVIOUS
<1>5. PICK class, i, s : class = ClassOrder[at[1]] /\ i = at[2] /\ s = classVars[class]
  OBVIOUS
<1>6. class \in ClassSet /\ i \in DOMAIN s
  <2>1. PICK k \in DOMAIN ClassOrder : \E j \in DOMAIN classVars[ClassOrder[k]] : at = <<k, j>>
    BY <1>1 DEF Objects
  <2>. QED BY <1>5, <2>1 DEF ClassSet
<1>7. \A c \in ClassSet : classVars[c] \in Seq(ObjectSet(c, D))
  BY <1>3, <1>4, ObjectsWiden DEF ObjectsOf
<1>8. PICK after : after = [s EXCEPT ![i].content = contentVars]
  OBVIOUS
<1>9. after \in Seq(ObjectSet(class, D)) /\ DOMAIN after = DOMAIN s
  <2>1. s \in Seq(ObjectSet(class, D)) /\ contentVars \in D
    BY <1>4, <1>5, <1>6, <1>7
  <2>2. <<>> \in Seq(TokensIn(kinds, class))
    OBVIOUS
  <2>. QED BY <1>6, <1>8, <2>1, <2>2, ObjectChanged
<1>10. /\ classVars' = [c \in ClassSet |-> classVars'[c]]
       /\ classVars'[class] = after /\ \A c \in ClassSet : c # class => classVars'[c] = classVars[c]
  BY <1>1, <1>5, <1>6, <1>8 DEF EventInv
<1>11. ObjectsOf(D)'
  BY <1>2, <1>7, <1>9, <1>10 DEF ObjectsOf, ObjectSet
<1>12. Objects' = Objects
  <2>1. \A k \in DOMAIN ClassOrder : DOMAIN classVars'[ClassOrder[k]] = DOMAIN classVars[ClassOrder[k]]
    BY <1>5, <1>9, <1>10 DEF ClassSet
  <2>. QED BY <2>1 DEF Objects
<1>13. ShapeInv'
  BY <1>2, ShapeStays DEF EventInv
<1>14. /\ toMerge' = {} /\ chunk'.of = NoVariable /\ rawInput' \in Seq(TokensIn(kinds', classTypeName'))
       /\ processed' \subseteq Objects'
  BY <1>1, <1>2, <1>12 DEF EventInv
<1>. QED BY <1>2, <1>10, <1>11, <1>13, <1>14 DEF EventInv

\* Every step keeps the invariant.
THEOREM EventInvariant == EventSpec => []EventInv
<1>1. EventInit => EventInv
  <2> SUFFICES ASSUME EventInit PROVE EventInv
    OBVIOUS
  <2>1. /\ classTypeName = NoVariable /\ rawInput = <<>> /\ contentVars = NoVars /\ pc = "idle" /\ pos = 1
        /\ toMerge = {} /\ chunk = [of |-> NoVariable, next |-> 0]
        /\ kinds \in RecordSets /\ records = <<>> /\ classVars = [c \in ClassSet |-> <<>>]
        /\ phase = "arriving" /\ processed = {}
    BY DEF EventInit, ClassInit
  <2>2. MaxRecords[kinds] \in Nat
    BY <2>1, EventAssumption
  <2>3. records \in Seq(kinds) /\ Len(records) <= MaxRecords[kinds] /\ rawInput \in Seq(TokensIn(kinds, classTypeName))
    BY <2>1, <2>2
  <2>4. chunk.of = NoVariable /\ chunk.next = 0 /\ chunk = [of |-> chunk.of, next |-> chunk.next]
    BY <2>1
  <2>5. ShapeInv
    <3>1. pos \in 1..Len(rawInput) + 1
      BY <2>1
    <3>2. DOMAIN contentVars = {}
      BY <2>1 DEF NoVars
    <3>. QED BY <2>1, <2>4, <3>1, <3>2 DEF ShapeInv
  <2>6. ObjectsOf({}) /\ classVars = [c \in ClassSet |-> classVars[c]]
    BY <2>1 DEF ObjectsOf
  <2>7. "idle" \notin {"quoted", "bare", "merge", "done"}
    OBVIOUS
  <2>. QED BY <2>1, <2>3, <2>4, <2>5, <2>6, <2>7 DEF EventInv
<1>2. EventInv /\ [EventStep]_<<objectVars, eventVars>> => EventInv'
  <2> SUFFICES ASSUME EventInv, [EventStep]_<<objectVars, eventVars>> PROVE EventInv'
    OBVIOUS
  <2>1. CASE \E r \in kinds : InsertClassContents(r)
    BY <2>1, InsertKeeps
  <2>2. CASE Process \/ Show
    <3>1. UNCHANGED <<kinds, records, classVars, processed, objectVars>> /\ pc = "idle" /\ phase' \in {"processing", "shown"}
      BY <2>2 DEF Process, Show, EventInv
    <3>2. Objects' = Objects /\ (\E C : ObjectsOf(C))' /\ ShapeInv'
      BY <3>1, ObjectsStay, ShapeStays DEF EventInv, objectVars
    <3>. QED BY <3>1, <3>2 DEF EventInv, objectVars
  <2>3. CASE BeginObject
    BY <2>3, BeginObjectKeeps
  <2>4. CASE EndObject
    BY <2>4, EndObjectKeeps
  <2>5. CASE ProcessStep /\ UNCHANGED eventVars
    BY <2>5, ProcessStepKeeps
  <2>6. CASE UNCHANGED <<objectVars, eventVars>>
    <3>1. UNCHANGED <<rawInput, contentVars, pos, pc, toMerge, chunk, classTypeName>> /\ UNCHANGED eventVars
      BY <2>6 DEF objectVars
    <3>2. Objects' = Objects /\ (\E C : ObjectsOf(C))' /\ ShapeInv'
      BY <3>1, ObjectsStay, ShapeStays DEF EventInv, eventVars
    <3>3. (PassInv => PassInv') /\ (MergeInv => MergeInv')
      BY <3>1, PassStays, MergeStays
    <3>. QED BY <3>1, <3>2, <3>3 DEF EventInv, eventVars
  <2>. QED BY <2>1, <2>2, <2>3, <2>4, <2>5, <2>6 DEF EventStep
<1>. QED BY <1>1, <1>2, PTL DEF EventSpec

\* Every object of every event has the shape that its type says.
THEOREM EventTypeCorrect == EventSpec => []EventTypeOK
<1>1. EventInv => EventTypeOK
  <2> SUFFICES ASSUME EventInv PROVE EventTypeOK
    OBVIOUS
  <2>1. Tokens(TokensIn(kinds, classTypeName))
    BY KernelTokens DEF EventInv, Tokens
  <2>2. ClassTypeOK
    BY <2>1, ShapeOfObject DEF EventInv
  <2>. QED BY <2>2 DEF EventTypeOK, EventInv
<1>. QED BY <1>1, EventInvariant, PTL

\* The arguments of every command are shown as they were read: the whole text
\* last read under each name, then its chunks in order up to the first that is
\* missing.  Pairs that stand in the quoted text of another argument are read too.
THEOREM ArgumentsFaithful == EventSpec => []ArgvFaithful
<1>1. EventInv => ArgvFaithful
  <2> SUFFICES ASSUME EventInv, pc = "done", classTypeName = "EXECVE" PROVE ArgvFaithful
    BY DEF ArgvFaithful
  <2>1. Command(TokensIn(kinds, "EXECVE"))
    BY KernelTokens DEF EventInv, Command
  <2>2. MergeInv /\ toMerge = {} /\ chunk.of = NoVariable
    BY DEF EventInv
  <2>. QED BY <2>1, <2>2, ArgvShown
<1>. QED BY <1>1, EventInvariant, PTL

\* Of every name that the EXECVE records of a command give, in quotes or not, the
\* text last read is kept, and the merge of chunks puts none into two variables.
THEOREM CommandTextsKept == EventSpec => []NoTextLost
<1>1. EventInv => NoTextLost
  <2> SUFFICES ASSUME EventInv, pc = "done", classTypeName = "EXECVE" PROVE NoTextLost
    BY DEF NoTextLost
  <2>1. Command(TokensIn(kinds, "EXECVE"))
    BY KernelTokens DEF EventInv, Command
  <2>2. MergeInv /\ toMerge = {} /\ chunk.of = NoVariable
    BY DEF EventInv
  <2>. QED BY <2>1, <2>2, TextsKept
<1>. QED BY <1>1, EventInvariant, PTL
-----------------------------------------------------------------------------
(* The address of an event.                                                  *)

\* The variables of the address a.
AddressContent(vars, a) ==
  /\ DOMAIN vars = PartsOfAddress(a)
  /\ \A n \in DOMAIN vars : vars[n].fancy = AddressParts(a)[n]

Sockaddr == TokensIn(kinds, "SOCKADDR")

\* The object of the address while it is at hand.
AddressAtHand(a) ==
  /\ rawInput # <<>>
  /\ pc = "quoted" \/ (pc = "bare" /\ pos = 1) => DOMAIN contentVars = {}
  /\ (pc = "bare" /\ pos > 1) \/ pc \in {"merge", "done"} => AddressContent(contentVars, a)
  /\ toMerge = {} /\ chunk.of = NoVariable

\* One object, which has its parts once it is processed.
PartsOnceProcessed ==
  \A at \in processed : ClassOrder[at[1]] = "SOCKADDR" =>
    \A a \in Sockaddr : AddressContent(classVars["SOCKADDR"][at[2]].content, a)
AddressObject ==
  /\ Len(classVars["SOCKADDR"]) \in {0, 1}
  /\ \A i \in DOMAIN classVars["SOCKADDR"] : classVars["SOCKADDR"][i].raw # <<>>
  /\ PartsOnceProcessed
  /\ \A j \in DOMAIN records : records[j].class = "SOCKADDR" => classVars["SOCKADDR"] # <<>>

AddressInv ==
  /\ phase = "arriving" => processed = {}
  /\ phase = "shown" => processed = Objects
  /\ pc # "idle" => \A at \in Objects : IsNext(at) => classTypeName = ClassOrder[at[1]]
  /\ "SOCKADDR" \in ClassSet => AddressObject
  /\ pc # "idle" /\ classTypeName = "SOCKADDR" => \A a \in Sockaddr : AddressAtHand(a)

\* There is one address.
LEMMA OneAddress ==
  ASSUME kinds \in RecordSets, NEW a \in Sockaddr
  PROVE  /\ AddressToken(a) /\ \A b \in Sockaddr : b = a
         /\ \A r \in kinds : r.class = "SOCKADDR" => r.tokens = <<a>>
<1>1. \A r, s \in kinds : r.class = "SOCKADDR" /\ s.class = "SOCKADDR" =>
        Len(r.tokens) = 1 /\ AddressToken(r.tokens[1]) /\ r.tokens = s.tokens
  BY KernelTokens
<1>2. \A r \in kinds : r.class = "SOCKADDR" => r.tokens \in Seq(Sockaddr)
  BY KernelTokens DEF Sockaddr
<1>3. ASSUME NEW b \in Sockaddr
      PROVE  \E r \in kinds : r.class = "SOCKADDR" /\ r.tokens[1] = b /\ r.tokens = <<b>>
  <2>1. PICK r \in kinds : r.class = "SOCKADDR" /\ \E j \in DOMAIN r.tokens : b = r.tokens[j]
    BY DEF Sockaddr, TokensIn
  <2>2. r.tokens \in Seq(Sockaddr) /\ Len(r.tokens) = 1
    BY <1>1, <1>2, <2>1
  <2>3. r.tokens[1] = b /\ r.tokens = <<b>>
    BY <2>1, <2>2
  <2>. QED BY <2>1, <2>3
<1>4. PICK r \in kinds : r.class = "SOCKADDR" /\ r.tokens[1] = a /\ r.tokens = <<a>>
  BY <1>3
<1>. QED BY <1>1, <1>3, <1>4

\* A part of an address.
LEMMA PartsApart ==
  /\ Family # IPAddr /\ Family # Port /\ Family # UnixPath
  /\ IPAddr # Port /\ IPAddr # UnixPath /\ Port # UnixPath
  /\ \A n \in PartNames : n[2] = Whole
BY DEF Family, IPAddr, Port, UnixPath, PartNames

\* The pass over the address sets its variables.
LEMMA AddressParsed ==
  ASSUME ShapeInv, NEW a, AddressToken(a), pc = "bare",
         DOMAIN contentVars = {} \/ AddressContent(contentVars, a)
  PROVE  AddressContent(Overridden(Parsed(a)), a)
<1> DEFINE PartOf(n) == CASE n = Family -> a.text[1] [] n = IPAddr -> a.text[2]
                          [] n = Port -> a.text[3] [] n = UnixPath -> a.text[4]
<1>1. /\ a.form \in {"plain", "address"}
      /\ ParsedVar(a) = [valid |-> TRUE, fancy |-> a.text] /\ a.name \notin PartNames
  BY DEF AddressToken, ParsedVar, PartNames
<1>2. PICK var : var = [n \in {a.name} |-> ParsedVar(a)]
  OBVIOUS
<1>3. PICK parts : parts = IF a.form = "address" THEN AddressVars(a.text) ELSE NoVars
  OBVIOUS
<1>4. Parsed(a) = [n \in {a.name} \cup DOMAIN parts |-> IF n = a.name THEN ParsedVar(a) ELSE parts[n]]
  BY <1>1, <1>2, <1>3 DEF Parsed
<1>5. PartsOfAddress(a) = {a.name} \cup DOMAIN parts
  <2>1. CASE a.form = "address"
    <3>1. DOMAIN parts = PartsShown(a.text[4])
      BY <1>3, <2>1 DEF AddressVars
    <3>. QED BY <2>1, <3>1 DEF PartsOfAddress, PartsShown
  <2>2. CASE a.form # "address"
    BY <1>3, <2>2 DEF NoVars, PartsOfAddress
  <2>. QED BY <2>1, <2>2
<1>6. PICK vars : vars = Overridden(Parsed(a))
  OBVIOUS
<1>7. /\ DOMAIN vars = PartsOfAddress(a)
      /\ vars[a.name] = ParsedVar(a)
      /\ \A n \in DOMAIN parts : n # a.name => vars[n] = parts[n]
  <2>1. DOMAIN contentVars \subseteq PartsOfAddress(a)
    BY DEF AddressContent
  <2>2. vars = [n \in DOMAIN contentVars \cup PartsOfAddress(a) |->
                  IF n \in PartsOfAddress(a) THEN IF n = a.name THEN ParsedVar(a) ELSE parts[n] ELSE contentVars[n]]
    BY <1>4, <1>5, <1>6 DEF Overridden
  <2>3. a.name \in PartsOfAddress(a)
    BY DEF PartsOfAddress
  <2> HIDE DEF PartsOfAddress
  <2>. QED BY <1>5, <2>1, <2>2, <2>3
<1>8. vars[a.name].fancy = AddressParts(a)[a.name]
  <2>1. ParsedVar(a).fancy = a.text
    BY <1>1
  <2>2. AddressParts(a)[a.name] = a.text
    BY DEF AddressParts, PartsOfAddress
  <2>. QED BY <1>7, <2>1, <2>2
<1>9. ASSUME NEW n \in PartsOfAddress(a), n # a.name
      PROVE  vars[n].fancy = AddressParts(a)[n]
  <2>1. a.form = "address" /\ n \in DOMAIN parts /\ n \in PartNames
    BY <1>5, <1>9 DEF PartsOfAddress, PartNames
  <2>2. vars[n] = PartVar(n, PartOf(n))
    <3>1. parts = [m \in PartsShown(a.text[4]) |-> PartVar(m, PartOf(m))]
      BY <1>3, <2>1 DEF AddressVars
    <3> HIDE DEF PartOf
    <3>. QED BY <1>7, <1>9, <2>1, <3>1
  <2>3. AddressParts(a)[n] = IF PartOf(n) = NoPart THEN <<>> ELSE <<PartOf(n)>>
    <3> DEFINE Index(m) == CASE m = Family -> 1 [] m = IPAddr -> 2 [] m = Port -> 3 [] m = UnixPath -> 4
    <3>1. a.text[Index(n)] = PartOf(n)
      BY <2>1, PartsApart DEF PartNames
    <3>2. AddressParts(a) = [m \in PartsOfAddress(a) |->
            IF m = a.name THEN a.text ELSE IF a.text[Index(m)] = NoPart THEN <<>> ELSE <<a.text[Index(m)]>>]
      BY DEF AddressParts
    <3> HIDE DEF PartOf, Index
    <3>3. AddressParts(a)[n] = IF a.text[Index(n)] = NoPart THEN <<>> ELSE <<a.text[Index(n)]>>
      BY <1>9, <3>2
    <3>. QED BY <3>1, <3>3
  <2>4. VarShape(Lookup(n)) /\ (PartOf(n) = NoPart => Lookup(n).fancy = <<>>)
    <3>1. VarShape(NewVar) /\ NewVar.fancy = <<>>
      BY DEF VarShape, NewVar
    <3> HIDE DEF PartOf
    <3>2. CASE n \in DOMAIN contentVars
      BY <2>3, <3>2 DEF AddressContent, Lookup, ShapeInv
    <3>3. CASE n \notin DOMAIN contentVars
      BY <3>1, <3>3 DEF Lookup
    <3>. QED BY <3>2, <3>3
  <2> HIDE DEF PartOf
  <2>5. CASE PartOf(n) = NoPart
    <3>1. vars[n] = [Lookup(n) EXCEPT !.valid = FALSE]
      BY <2>2, <2>5 DEF PartVar
    <3>2. PICK look : look = Lookup(n) /\ look = [valid |-> look.valid, fancy |-> look.fancy]
      BY <2>4 DEF VarShape
    <3>3. vars[n].fancy = look.fancy
      BY <3>1, <3>2
    <3>. QED BY <2>3, <2>4, <2>5, <3>2, <3>3
  <2>6. CASE PartOf(n) # NoPart
    <3>1. vars[n] = [valid |-> TRUE, fancy |-> <<PartOf(n)>>]
      BY <2>2, <2>6 DEF PartVar
    <3>. QED BY <2>3, <2>6, <3>1
  <2>. QED BY <2>5, <2>6
<1>. QED BY <1>6, <1>7, <1>8, <1>9 DEF AddressContent

\* The steps over the address.
LEMMA AddressStep ==
  ASSUME EventInv, classTypeName = "SOCKADDR", NEW a \in Sockaddr, AddressAtHand(a), ProcessStep
  PROVE  AddressAtHand(a)'
<1>1. AddressToken(a) /\ \A b \in Sockaddr : b = a
  BY OneAddress DEF EventInv
<1>2. /\ rawInput \in Seq(Sockaddr) /\ rawInput # <<>> /\ ShapeInv
      /\ pc \in {"idle", "quoted", "bare", "merge", "done"} /\ toMerge = {} /\ chunk.of = NoVariable
      /\ pos \in 1..Len(rawInput) + 1
  BY DEF EventInv, Sockaddr, AddressAtHand, ShapeInv
<1>3. Len(rawInput) \in Nat /\ Len(rawInput) > 0
  BY <1>2
<1>4. CASE ParseVar
  <2>1. /\ pos \in 1..Len(rawInput) /\ pc \in {"quoted", "bare"} /\ pos' = pos + 1
        /\ UNCHANGED <<rawInput, pc, toMerge, chunk>>
    BY <1>2, <1>3, <1>4 DEF ParseVar
  <2>2. rawInput[pos] = a
    BY <1>1, <1>2, <2>1
  <2>3. PassesOf(a.form) = {"bare"}
    BY <1>1 DEF AddressToken, PassesOf
  <2>4. CASE pc = "quoted"
    <3>1. contentVars' = contentVars
      BY <1>4, <2>2, <2>3, <2>4 DEF ParseVar
    <3>. QED BY <1>2, <2>1, <2>4, <3>1 DEF AddressAtHand
  <2>5. CASE pc = "bare"
    <3>1. contentVars' = Overridden(Parsed(a))
      BY <1>4, <2>2, <2>3, <2>5 DEF ParseVar
    <3>2. DOMAIN contentVars = {} \/ AddressContent(contentVars, a)
      BY <1>2, <2>5 DEF AddressAtHand
    <3>3. AddressContent(Overridden(Parsed(a)), a)
      BY <1>1, <1>2, <2>5, <3>2, AddressParsed
    <3>4. AddressContent(contentVars, a)'
      BY <3>1, <3>3 DEF AddressContent
    <3>5. pos' > 1 /\ pc' = "bare"
      BY <2>1, <2>5
    <3>. QED BY <1>2, <2>1, <3>4, <3>5 DEF AddressAtHand
  <2>. QED BY <2>1, <2>4, <2>5
<1>5. CASE SecondPass
  <2>1. pc = "quoted" /\ pc' = "bare" /\ pos' = 1 /\ UNCHANGED <<rawInput, contentVars, toMerge, chunk>>
    BY <1>5 DEF SecondPass
  <2>. QED BY <1>2, <2>1 DEF AddressAtHand
<1>6. CASE FindSpplited
  <2>1. /\ pc = "bare" /\ pos > 1 /\ pc' = "merge" /\ toMerge' = SpplitedVarNames
        /\ UNCHANGED <<rawInput, contentVars, chunk>>
    BY <1>2, <1>3, <1>6 DEF FindSpplited
  <2>2. AddressContent(contentVars, a)
    BY <2>1 DEF AddressAtHand
  <2>3. \A n \in DOMAIN contentVars : n[2] = Whole
    <3>1. \A n \in PartsOfAddress(a) : n = a.name \/ n \in PartNames
      BY DEF PartsOfAddress, PartNames
    <3>2. a.name[2] = Whole
      BY <1>1 DEF AddressToken
    <3>. QED BY <2>2, <3>1, <3>2, PartsApart DEF AddressContent
  <2>4. SpplitedVarNames = {}
    BY <2>3, WholeIsNoChunk DEF SpplitedVarNames
  <2>5. AddressContent(contentVars, a)'
    BY <2>1, <2>2 DEF AddressContent
  <2>. QED BY <1>2, <2>1, <2>4, <2>5 DEF AddressAtHand
<1>7. CASE Finish
  <2>1. pc = "merge" /\ pc' = "done" /\ UNCHANGED <<rawInput, contentVars, toMerge, chunk>>
    BY <1>7 DEF Finish
  <2>2. AddressContent(contentVars, a)
    BY <2>1 DEF AddressAtHand
  <2>3. AddressContent(contentVars, a)'
    BY <2>1, <2>2 DEF AddressContent
  <2>. QED BY <1>2, <2>1, <2>3 DEF AddressAtHand
<1>. QED BY <1>2, <1>4, <1>5, <1>6, <1>7 DEF ProcessStep, MergeNext, EndOfChunks

\* The loop comes to one object next, and there is one of the address.
LEMMA NextIsOne ==
  ASSUME EventInv, NEW at \in Objects
  PROVE  /\ ClassOrder[at[1]] \in ClassSet /\ at[2] \in DOMAIN classVars[ClassOrder[at[1]]]
         /\ \A bt \in Objects : IsNext(at) /\ IsNext(bt) => bt = at
<1>1. PICK C : ObjectsOf(C)
  BY DEF EventInv
<1>2. ASSUME NEW o \in Objects
      PROVE  /\ o = <<o[1], o[2]>> /\ o[1] \in Nat /\ o[2] \in Nat
             /\ ClassOrder[o[1]] \in ClassSet /\ o[2] \in DOMAIN classVars[ClassOrder[o[1]]]
  <2>1. PICK k \in DOMAIN ClassOrder : \E i \in DOMAIN classVars[ClassOrder[k]] : o = <<k, i>>
    BY DEF Objects
  <2>2. PICK i \in DOMAIN classVars[ClassOrder[k]] : o = <<k, i>>
    BY <2>1
  <2>3. ClassOrder[k] \in ClassSet
    BY DEF ClassSet
  <2>4. k \in Nat
    BY EventAssumption
  <2>5. i \in Nat
    BY <1>1, <2>3 DEF ObjectsOf
  <2>. QED BY <2>2, <2>3, <2>4, <2>5
<1>3. ASSUME NEW bt \in Objects, IsNext(at), IsNext(bt) PROVE bt = at
  <2>1. /\ at[1] < bt[1] \/ (at[1] = bt[1] /\ at[2] <= bt[2])
        /\ bt[1] < at[1] \/ (bt[1] = at[1] /\ bt[2] <= at[2])
    BY <1>3 DEF IsNext
  <2>2. at[1] = bt[1] /\ at[2] = bt[2]
    BY <1>2, <2>1
  <2>. QED BY <1>2, <2>2
<1>. QED BY <1>2, <1>3

\* A record that comes in keeps the address one object.
LEMMA AddressArrives ==
  ASSUME EventInv, AddressInv, NEW r \in kinds, InsertClassContents(r), "SOCKADDR" \in ClassSet
  PROVE  AddressObject'
<1>1. /\ phase = "arriving" /\ records' = Append(records, r)
      /\ classVars' = [classVars EXCEPT ![r.class] = ObjectsAfter(r)]
      /\ processed' = {} /\ UNCHANGED <<kinds, phase>>
  BY DEF InsertClassContents, AddressInv
<1>2. AddressObject /\ records \in Seq(kinds) /\ r.class \in ClassSet /\ kinds \in RecordSets
  BY KernelTokens DEF AddressInv, EventInv
<1>3. PICK C : classVars["SOCKADDR"] \in Seq(ObjectSet("SOCKADDR", C))
  BY DEF EventInv, ObjectsOf
<1>4. /\ classVars'[r.class] = ObjectsAfter(r)
      /\ \A c \in ClassSet : c # r.class => classVars'[c] = classVars[c]
  BY <1>1, <1>2 DEF EventInv
<1>5. PICK s : s = classVars["SOCKADDR"]
  OBVIOUS
<1>6. CASE r.class = "SOCKADDR"
  <2>1. PICK after : after = classVars'["SOCKADDR"] /\ after = ObjectsAfter(r)
    BY <1>4, <1>6
  <2>2. Len(r.tokens) = 1
    BY <1>2, <1>6, KernelTokens
  <2>3. after # <<>> /\ Len(after) = 1 /\ \A i \in DOMAIN after : after[i].raw # <<>>
    <3>1. CASE s = <<>>
      <4>1. PICK o : o = [raw |-> r.tokens, content |-> NoVars]
        OBVIOUS
      <4>2. after = Append(s, o)
        BY <1>5, <1>6, <2>1, <3>1, <4>1 DEF ObjectsAfter, OwnObject
      <4>3. o.raw # <<>>
        BY <2>2, <4>1
      <4>. QED BY <1>3, <1>5, <3>1, <4>2, <4>3
    <3>2. CASE s # <<>>
      <4>1. Len(s) = 1 /\ DOMAIN s = {1} /\ s[1].raw # <<>> /\ s[1] \in ObjectSet("SOCKADDR", C)
        BY <1>2, <1>3, <1>5, <3>2 DEF AddressObject, PartsOnceProcessed
      <4>2. after = [s EXCEPT ![1].raw = @ \o r.tokens]
        BY <1>5, <1>6, <2>1, <3>2 DEF ObjectsAfter, OwnObject
      <4>3. PICK t : t = s[1].raw \o r.tokens
        OBVIOUS
      <4>4. t # <<>>
        <5>1. s[1].raw \in Seq(TokensIn(kinds, "SOCKADDR")) /\ r.tokens \in Seq(TokensIn(kinds, "SOCKADDR"))
          BY <1>2, <1>6, <4>1, KernelTokens DEF ObjectSet
        <5>2. Len(t) = Len(s[1].raw) + Len(r.tokens)
          BY <4>3, <5>1
        <5>. QED BY <2>2, <5>1, <5>2
      <4>5. PICK o : o = [s[1] EXCEPT !.raw = t]
        OBVIOUS
      <4>6. o.raw = t
        BY <4>1, <4>5 DEF ObjectSet
      <4>7. after = [s EXCEPT ![1] = o]
        BY <4>2, <4>3, <4>5
      <4>8. DOMAIN after = {1} /\ after[1] = o /\ Len(after) = 1
        BY <1>3, <1>5, <4>1, <4>7
      <4>. QED BY <4>4, <4>6, <4>8
    <3>. QED BY <3>1, <3>2
  <2>. QED BY <1>1, <2>1, <2>3 DEF AddressObject, PartsOnceProcessed
<1>7. CASE r.class # "SOCKADDR"
  <2>1. classVars'["SOCKADDR"] = classVars["SOCKADDR"]
    BY <1>4, <1>7
  <2>2. ASSUME NEW j \in DOMAIN records', records'[j].class = "SOCKADDR"
        PROVE  j \in DOMAIN records /\ records[j].class = "SOCKADDR"
    BY <1>1, <1>2, <1>7, <2>2
  <2>. QED BY <1>1, <1>2, <2>1, <2>2 DEF AddressObject, PartsOnceProcessed
<1>. QED BY <1>6, <1>7

\* What the address is after a step.
LEMMA AddressObjectNext ==
  ASSUME PartsOnceProcessed', Len(classVars'["SOCKADDR"]) \in {0, 1}, classVars'["SOCKADDR"] # <<>>,
         \A i \in DOMAIN classVars'["SOCKADDR"] : classVars'["SOCKADDR"][i].raw # <<>>
  PROVE  AddressObject'
BY DEF AddressObject

\* An object gets its variables: the address gets its parts.
LEMMA AddressEnds ==
  ASSUME EventInv, AddressInv, EndObject, "SOCKADDR" \in ClassSet
  PROVE  AddressObject'
<1>1. PICK at \in Objects :
        /\ IsNext(at)
        /\ classVars' = [classVars EXCEPT ![ClassOrder[at[1]]][at[2]].content = contentVars]
        /\ processed' = processed \cup {at}
  BY DEF EndObject
<1>2. pc = "done" /\ phase = "processing" /\ UNCHANGED <<kinds, records>>
  BY DEF EndObject
<1>3. PICK class, i, s : class = ClassOrder[at[1]] /\ i = at[2] /\ s = classVars[class]
  OBVIOUS
<1>4. /\ class \in ClassSet /\ i \in DOMAIN s /\ class = classTypeName
  BY <1>1, <1>2, <1>3, NextIsOne DEF AddressInv
<1>5. PICK after : after = [s EXCEPT ![i].content = contentVars]
  OBVIOUS
<1>6. classVars'[class] = after /\ \A c \in ClassSet : c # class => classVars'[c] = classVars[c]
  BY <1>1, <1>3, <1>4, <1>5 DEF EventInv
<1>7. AddressObject /\ Sockaddr' = Sockaddr
  BY <1>2 DEF AddressInv, Sockaddr
<1>8. CASE class = "SOCKADDR"
  <2>1. PICK C : s \in Seq(ObjectSet(class, C))
    BY <1>3, <1>4 DEF EventInv, ObjectsOf
  <2>2. Len(s) = 1 /\ DOMAIN s = {1} /\ i = 1 /\ s[1].raw # <<>> /\ s[1] \in ObjectSet(class, C)
    BY <1>3, <1>4, <1>7, <1>8, <2>1 DEF AddressObject, PartsOnceProcessed
  <2>3. PICK o : o = [s[1] EXCEPT !.content = contentVars]
    OBVIOUS
  <2>4. o.raw = s[1].raw /\ o.content = contentVars
    BY <2>2, <2>3 DEF ObjectSet
  <2>5. after = [s EXCEPT ![1] = o]
    BY <1>5, <2>2, <2>3
  <2>6. DOMAIN after = {1} /\ after[1] = o /\ Len(after) = 1
    BY <2>1, <2>2, <2>5
  <2>7. \A a \in Sockaddr : AddressContent(contentVars, a)
    BY <1>2, <1>4, <1>8 DEF AddressInv, AddressAtHand
  <2>8. ASSUME NEW bt \in processed', ClassOrder[bt[1]] = "SOCKADDR" PROVE bt[2] = 1
    <3>1. bt \in Objects
      BY <1>1, <2>8 DEF EventInv
    <3>2. bt[2] \in DOMAIN s
      BY <1>3, <1>8, <2>8, <3>1, NextIsOne
    <3>. QED BY <2>2, <3>2
  <2>9. /\ classVars'["SOCKADDR"] = after /\ after[1].raw # <<>> /\ after[1].content = contentVars
        /\ after # <<>>
    <3>1. classVars'["SOCKADDR"] = after
      BY <1>6, <1>8
    <3>2. after[1].raw # <<>> /\ after[1].content = contentVars
      BY <2>2, <2>4, <2>6
    <3>3. after # <<>>
      BY <2>6
    <3>. QED BY <3>1, <3>2, <3>3
  <2>10. \A a \in Sockaddr : AddressContent(classVars'["SOCKADDR"][1].content, a)
    BY <2>7, <2>9
  <2>11. PICK objects : objects = classVars'["SOCKADDR"]
    OBVIOUS
  <2>12. /\ Len(objects) \in {0, 1} /\ \A j \in DOMAIN objects : objects[j].raw # <<>> /\ objects # <<>>
    BY <2>6, <2>9, <2>11
  <2>13. \A bt \in processed' : ClassOrder[bt[1]] = "SOCKADDR" =>
           \A a \in Sockaddr' : AddressContent(objects[bt[2]].content, a)
    BY <1>7, <2>8, <2>10, <2>11
  <2>14. \A bt \in processed' : ClassOrder[bt[1]] = "SOCKADDR" =>
           \A a \in Sockaddr' : AddressContent(classVars["SOCKADDR"][bt[2]].content, a)'
    BY <2>11, <2>13 DEF AddressContent
  <2>15. /\ Len(classVars'["SOCKADDR"]) \in {0, 1} /\ classVars'["SOCKADDR"] # <<>>
         /\ \A j \in DOMAIN classVars'["SOCKADDR"] : classVars'["SOCKADDR"][j].raw # <<>>
    BY <2>9, <2>11, <2>12
  <2>16. PartsOnceProcessed'
    BY <2>14, Zenon DEF PartsOnceProcessed
  <2>. QED BY <2>15, <2>16, AddressObjectNext
<1>9. CASE class # "SOCKADDR"
  <2>1. classVars'["SOCKADDR"] = classVars["SOCKADDR"]
    BY <1>6, <1>9
  <2>2. \A bt \in processed' : ClassOrder[bt[1]] = "SOCKADDR" => bt \in processed
    BY <1>1, <1>3, <1>9
  <2>3. PartsOnceProcessed'
    <3>1. PartsOnceProcessed
      BY <1>7 DEF AddressObject
    <3>. QED BY <1>7, <2>1, <2>2, <3>1 DEF PartsOnceProcessed, AddressContent
  <2>. QED BY <1>2, <1>7, <2>1, <2>3 DEF AddressObject
<1>. QED BY <1>8, <1>9

\* Every step keeps the address as it should be.
LEMMA AddressKept ==
  ASSUME EventInv, AddressInv, [EventStep]_<<objectVars, eventVars>>
  PROVE  AddressInv'
<1>1. ASSUME UNCHANGED <<kinds, records, classVars, processed>>
      PROVE  /\ Objects' = Objects /\ Sockaddr' = Sockaddr
             /\ \A at : IsNext(at)' <=> IsNext(at)
             /\ AddressObject => AddressObject'
  <2>1. Objects' = Objects /\ Sockaddr' = Sockaddr
    BY <1>1 DEF Objects, Sockaddr
  <2>2. \A at : IsNext(at)' <=> IsNext(at)
    BY <1>1, <2>1 DEF IsNext
  <2>3. AddressObject => AddressObject'
    BY <1>1, <2>1 DEF AddressObject, PartsOnceProcessed, AddressContent
  <2>. QED BY <2>1, <2>2, <2>3
<1>2. ASSUME NEW r \in kinds, InsertClassContents(r) PROVE AddressInv'
  <2>1. phase' = "arriving" /\ processed' = {} /\ pc' = "idle"
    BY <1>2 DEF InsertClassContents, AddressInv, EventInv, objectVars
  <2>2. "SOCKADDR" \in ClassSet => AddressObject'
    BY <1>2, AddressArrives
  <2>. QED BY <2>1, <2>2 DEF AddressInv
<1>3. CASE Process \/ Show
  <2>1. /\ UNCHANGED <<kinds, records, classVars, processed>> /\ pc' = "idle"
        /\ phase' = "processing" \/ (phase' = "shown" /\ processed = Objects)
    BY <1>3 DEF Process, Show, EventInv, objectVars
  <2>. QED BY <1>1, <2>1 DEF AddressInv
<1>4. CASE BeginObject
  <2>1. PICK at \in Objects : IsNext(at) /\ Begin(ClassOrder[at[1]], classVars[ClassOrder[at[1]]][at[2]].raw)
    BY <1>4 DEF BeginObject
  <2>2. PICK class, tokens : class = ClassOrder[at[1]] /\ tokens = classVars[class][at[2]].raw
    OBVIOUS
  <2>3. phase' = "processing" /\ UNCHANGED <<kinds, records, classVars, processed>> /\ phase = "processing"
    BY <1>4 DEF BeginObject, eventVars
  <2>4. /\ classTypeName' = class /\ rawInput' = tokens /\ pc' = "quoted" /\ DOMAIN contentVars' = {}
        /\ toMerge' = {} /\ chunk'.of = NoVariable
    BY <2>1, <2>2 DEF Begin, NoVars, EventInv
  <2>5. \A bt \in Objects : IsNext(bt) => class = ClassOrder[bt[1]]
    BY <2>1, <2>2, NextIsOne
  <2>6. class = "SOCKADDR" => tokens # <<>>
    BY <2>1, <2>2, NextIsOne DEF AddressInv, AddressObject
  <2>7. \A a : class = "SOCKADDR" => AddressAtHand(a)'
    BY <2>4, <2>6 DEF AddressAtHand
  <2>. QED BY <1>1, <2>3, <2>4, <2>5, <2>7 DEF AddressInv
<1>5. CASE EndObject
  <2>1. phase' = "processing" /\ pc' = "idle"
    BY <1>5 DEF EndObject
  <2>2. "SOCKADDR" \in ClassSet => AddressObject'
    BY <1>5, AddressEnds
  <2>. QED BY <2>1, <2>2 DEF AddressInv
<1>6. CASE ProcessStep /\ UNCHANGED eventVars
  <2>1. UNCHANGED <<kinds, records, classVars, processed, phase>>
    BY <1>6 DEF eventVars
  <2>2. UNCHANGED classTypeName /\ pc # "idle"
    BY <1>6 DEF EventInv, ProcessStep, ParseVar, SecondPass, FindSpplited, MergeZero, MergeNext, EndOfChunks, Finish
  <2>3. classTypeName = "SOCKADDR" => \A a \in Sockaddr : AddressAtHand(a)'
    BY <1>6, <2>2, AddressStep DEF AddressInv
  <2>. QED BY <1>1, <2>1, <2>2, <2>3 DEF AddressInv
<1>7. CASE UNCHANGED <<objectVars, eventVars>>
  <2>1. UNCHANGED <<kinds, records, classVars, processed, phase>> /\ UNCHANGED objectVars
    BY <1>7 DEF eventVars
  <2>2. \A a : AddressAtHand(a)' <=> AddressAtHand(a)
    BY <2>1 DEF objectVars, AddressAtHand, AddressContent
  <2>3. UNCHANGED <<pc, classTypeName>>
    BY <2>1 DEF objectVars
  <2>. QED BY <1>1, <2>1, <2>2, <2>3 DEF AddressInv
<1>. QED BY <1>2, <1>3, <1>4, <1>5, <1>6, <1>7 DEF EventStep

\* The address in all reachable states, and how far process is.
THEOREM AddressInvariant == EventSpec => []AddressInv
<1>1. EventInit => AddressInv
  <2> SUFFICES ASSUME EventInit PROVE AddressInv
    OBVIOUS
  <2>1. /\ pc = "idle" /\ records = <<>> /\ classVars = [c \in ClassSet |-> <<>>]
        /\ phase = "arriving" /\ processed = {}
    BY DEF EventInit, ClassInit
  <2>2. "SOCKADDR" \in ClassSet => AddressObject
    BY <2>1 DEF AddressObject, PartsOnceProcessed
  <2>. QED BY <2>1, <2>2 DEF AddressInv
<1>2. EventInv /\ AddressInv /\ [EventStep]_<<objectVars, eventVars>> => AddressInv'
  BY AddressKept
<1>. QED BY <1>1, <1>2, EventInvariant, PTL DEF EventSpec

\* The JSON of an event shows its address as it came: saddr, and the parts that
\* the address has.
THEOREM AddressShown == EventSpec => []AddressAsArrived
<1>1. EventInv /\ AddressInv => AddressAsArrived
  <2> SUFFICES ASSUME EventInv, AddressInv, phase = "shown",
                      NEW j \in DOMAIN records, records[j].class = "SOCKADDR"
               PROVE  ShownOf("SOCKADDR") = <<AddressParts(records[j].tokens[1])>>
    BY DEF AddressAsArrived
  <2>1. records[j] \in kinds /\ kinds \in RecordSets
    BY DEF EventInv
  <2>2. "SOCKADDR" \in ClassSet
    BY <2>1, KernelTokens
  <2>3. AddressObject /\ processed = Objects
    BY <2>2 DEF AddressInv
  <2>4. PICK s : s = classVars["SOCKADDR"]
    OBVIOUS
  <2>5. PICK C : s \in Seq(ObjectSet("SOCKADDR", C))
    BY <2>2, <2>4 DEF EventInv, ObjectsOf
  <2>6. Len(s) = 1 /\ DOMAIN s = {1}
    BY <2>3, <2>4, <2>5 DEF AddressObject, PartsOnceProcessed
  <2>7. PICK a : a = records[j].tokens[1]
    OBVIOUS
  <2>8. a \in Sockaddr
    <3>1. Len(records[j].tokens) = 1 /\ records[j].tokens \in Seq(Sockaddr)
      BY <2>1, KernelTokens DEF Sockaddr
    <3>. QED BY <2>7, <3>1
  <2>9. PICK content : content = s[1].content
    OBVIOUS
  <2>10. AddressContent(content, a)
    <3>1. PICK k \in DOMAIN ClassOrder : ClassOrder[k] = "SOCKADDR"
      BY <2>2 DEF ClassSet
    <3>2. <<k, 1>> \in Objects
      BY <2>4, <2>6, <3>1 DEF Objects
    <3>3. PICK at : at = <<k, 1>> /\ at[1] = k /\ at[2] = 1
      <4>1. <<k, 1>>[1] = k /\ <<k, 1>>[2] = 1
        OBVIOUS
      <4>. QED BY <4>1, Zenon
    <3>4. at \in processed /\ ClassOrder[at[1]] = "SOCKADDR"
      BY <2>3, <3>1, <3>2, <3>3
    <3>. QED BY <2>3, <2>4, <2>8, <2>9, <3>3, <3>4 DEF AddressObject, PartsOnceProcessed
  <2>11. ClassJSON("SOCKADDR", content) = AddressParts(a)
    <3>1. ClassJSON("SOCKADDR", content) = [n \in DOMAIN content |-> content[n].fancy]
      BY DEF ClassJSON, ShowsArguments
    <3>2. AddressParts(a) = [n \in PartsOfAddress(a) |-> AddressParts(a)[n]]
      <4> DEFINE Index(m) == CASE m = Family -> 1 [] m = IPAddr -> 2 [] m = Port -> 3 [] m = UnixPath -> 4
      <4>1. AddressParts(a) = [m \in PartsOfAddress(a) |->
              IF m = a.name THEN a.text ELSE IF a.text[Index(m)] = NoPart THEN <<>> ELSE <<a.text[Index(m)]>>]
        BY DEF AddressParts
      <4> HIDE DEF Index
      <4>. QED BY <4>1
    <3>. QED BY <2>10, <3>1, <3>2 DEF AddressContent
  <2>12. ShownOf("SOCKADDR") = [i \in {1} |-> AddressParts(a)]
    BY <2>4, <2>6, <2>9, <2>11 DEF ShownOf
  <2>13. <<AddressParts(a)>> = [i \in {1} |-> AddressParts(a)]
    OBVIOUS
  <2>. QED BY <2>7, <2>12, <2>13
<1>. QED BY <1>1, EventInvariant, AddressInvariant, PTL
-----------------------------------------------------------------------------
(* The key of an event.                                                      *)

\* The name of the key is no part of an address.
LEMMA KeyNames == KeyName = <<KeyName[1], Whole>> /\ KeyName[2] = Whole /\ KeyName \notin PartNames
BY DEF KeyName, PartNames, Family, IPAddr, Port, UnixPath

\* What the kernel writes under the name of the key.
LEMMA KeyTokens ==
  ASSUME NEW R \in RecordSets, NEW class, NEW x \in TokensIn(R, class), x.name = KeyName
  PROVE  KeyToken(x)
<1>1. PICK r \in R : r.class = class
  BY DEF TokensIn
<1>. QED BY <1>1, KernelAssumption, Zenon

\* Variables that show the key of one of these tokens, if there is one to show.
KeyFrom(tokens, vars) ==
  KeyName \in DOMAIN vars => \E m \in DOMAIN tokens : tokens[m].name = KeyName /\ vars[KeyName].fancy = tokens[m].text

\* The object at hand.
KeyAtHand ==
  ~KeyInChunks(rawInput) =>
    /\ KeyFrom(rawInput, contentVars)
    /\ \A m \in DOMAIN rawInput :
         rawInput[m].name = KeyName /\ rawInput[m].form # "empty" /\ (m \in Seen \/ pc \in {"merge", "done"}) =>
           KeyName \in DOMAIN contentVars

\* A key sets its variable in one pass: to its text, or to what was there before
\* when it is cut.
LEMMA KeyParsed ==
  ASSUME ShapeInv, NEW x, KeyToken(x), x.name = KeyName, pc \in {"quoted", "bare"}
  PROVE  /\ KeyName \in DOMAIN Parsed(x)
         /\ \/ Parsed(x)[KeyName].fancy = x.text
            \/ KeyName \in DOMAIN contentVars /\ Parsed(x)[KeyName].fancy = contentVars[KeyName].fancy
         /\ pc \in PassesOf(x.form) <=> x.form # "empty" /\ (pc = "quoted" <=> x.form = "quoted")
<1>1. PICK parts : parts = IF x.form = "address" THEN AddressVars(x.text) ELSE NoVars
  OBVIOUS
<1>2. Parsed(x) = [n \in {KeyName} \cup DOMAIN parts |-> IF n = KeyName THEN ParsedVar(x) ELSE parts[n]]
  <2>1. PICK var : var = [n \in {KeyName} |-> ParsedVar(x)]
    OBVIOUS
  <2>. QED BY <1>1, <2>1 DEF Parsed
<1>3. Parsed(x)[KeyName] = ParsedVar(x) /\ KeyName \in DOMAIN Parsed(x)
  BY <1>2
<1>4. CASE x.form # "cut"
  <2>1. ParsedVar(x).fancy = x.text
    BY <1>4 DEF ParsedVar
  <2>. QED BY <1>3, <2>1, OwnPass DEF KeyToken
<1>5. CASE x.form = "cut"
  <2>1. PICK look : look = Lookup(KeyName)
    OBVIOUS
  <2>2. look = [valid |-> look.valid, fancy |-> look.fancy]
    BY <2>1 DEF Lookup, NewVar, ShapeInv, VarShape
  <2>3. ParsedVar(x) = [look EXCEPT !.valid = FALSE]
    BY <1>5, <2>1 DEF ParsedVar
  <2>4. ParsedVar(x).fancy = look.fancy
    BY <2>2, <2>3
  <2>5. KeyName \notin DOMAIN contentVars => look.fancy = <<>>
    BY <2>1 DEF Lookup, NewVar
  <2>6. KeyName \in DOMAIN contentVars => look.fancy = contentVars[KeyName].fancy
    BY <2>1 DEF Lookup
  <2>7. x.text = <<>>
    BY <1>5 DEF KeyToken
  <2>8. pc \in PassesOf(x.form) <=> x.form # "empty" /\ (pc = "quoted" <=> x.form = "quoted")
    BY <1>5, OwnPass
  <2>. QED BY <1>3, <2>4, <2>5, <2>6, <2>7, <2>8
<1>. QED BY <1>4, <1>5

\* A token of another name does not touch the key.
LEMMA OthersParsed ==
  ASSUME NEW x, x.name # KeyName
  PROVE  KeyName \notin DOMAIN Parsed(x)
<1>2. PICK parts : parts = IF x.form = "address" THEN AddressVars(x.text) ELSE NoVars
  OBVIOUS
<1>3. DOMAIN parts \subseteq PartNames
  <2>1. CASE x.form = "address"
    <3>1. DOMAIN parts = PartsShown(x.text[4])
      BY <1>2, <2>1 DEF AddressVars
    <3>. QED BY <3>1 DEF PartsShown, PartNames
  <2>2. CASE x.form # "address"
    BY <1>2, <2>2 DEF NoVars
  <2>. QED BY <2>1, <2>2
<1>4. PICK name : name = x.name
  OBVIOUS
<1>5. DOMAIN Parsed(x) = {name} \cup DOMAIN parts
  BY <1>2, <1>4 DEF Parsed
<1>. QED BY <1>3, <1>4, <1>5, KeyNames

\* The merge of another variable leaves the key alone.
LEMMA KeyMerged ==
  ASSUME NEW v, NEW k, v # KeyName[1]
  PROVE  /\ KeyName \in DOMAIN Merged(v, k) <=> KeyName \in DOMAIN contentVars
         /\ KeyName \in DOMAIN contentVars => Merged(v, k)[KeyName] = contentVars[KeyName]
<1>1. PICK whole, c : whole = <<v, Whole>> /\ c = <<v, k>>
  OBVIOUS
<1>2. whole # KeyName /\ c # KeyName
  BY <1>1
<1>3. PICK var : var = Appended(Lookup(whole), Lookup(c))
  OBVIOUS
<1>4. With(whole, var) = [n \in DOMAIN contentVars \cup {whole} |-> IF n = whole THEN var ELSE contentVars[n]]
  BY DEF With, Overridden
<1>5. Merged(v, k) = [n \in (DOMAIN contentVars \cup {whole}) \ {c} |-> IF n = whole THEN var ELSE contentVars[n]]
  <2>1. Merged(v, k) = [n \in DOMAIN With(whole, var) \ {c} |-> With(whole, var)[n]]
    BY <1>1, <1>3 DEF Merged
  <2>. QED BY <1>4, <2>1
<1>. QED BY <1>2, <1>5

\* Without chunks of the key there are none to merge.
LEMMA KeyNotMerged ==
  ASSUME ~KeyInChunks(rawInput), NEW v, <<v, 0>> \in NamesIn
  PROVE  v # KeyName[1]
<1>1. PICK n : n = <<v, 0>> /\ n[1] = v /\ n[2] = 0
  <2>1. <<v, 0>>[1] = v /\ <<v, 0>>[2] = 0
    OBVIOUS
  <2>. QED BY <2>1, Zenon
<1>2. PICK j \in DOMAIN rawInput : rawInput[j].name = n
  BY <1>1 DEF NamesIn
<1>. QED BY <1>1, <1>2, WholeIsNoChunk DEF KeyInChunks

\* The steps over an object with a key.
LEMMA KeyStep ==
  ASSUME EventInv, KeyAtHand, ProcessStep
  PROVE  KeyAtHand'
<1> SUFFICES ASSUME ~KeyInChunks(rawInput) PROVE KeyAtHand'
  <2>1. UNCHANGED rawInput
    BY DEF ProcessStep, ParseVar, SecondPass, FindSpplited, MergeZero, MergeNext, EndOfChunks, Finish
  <2>. QED BY <2>1 DEF KeyAtHand, KeyInChunks
<1>1. /\ UNCHANGED rawInput /\ ShapeInv /\ kinds \in RecordSets
      /\ rawInput \in Seq(TokensIn(kinds, classTypeName)) /\ pos \in 1..Len(rawInput) + 1
  BY DEF EventInv, ShapeInv, ProcessStep, ParseVar, SecondPass, FindSpplited, MergeZero, MergeNext, EndOfChunks, Finish
<1>2. Len(rawInput) \in Nat /\ DOMAIN rawInput = 1..Len(rawInput)
  BY <1>1
<1>3. ASSUME NEW m \in DOMAIN rawInput, rawInput[m].name = KeyName
      PROVE  KeyToken(rawInput[m])
  BY <1>1, <1>3, KeyTokens
<1>4. CASE ParseVar
  <2>1. /\ pc \in {"quoted", "bare"} /\ pos \in DOMAIN rawInput /\ pos' = pos + 1 /\ pc' = pc
    BY <1>1, <1>2, <1>4 DEF ParseVar
  <2>2. PICK x, vars : x = rawInput[pos] /\ vars = Parsed(x)
    OBVIOUS
  <2>3. contentVars' = IF pc \in PassesOf(x.form)
                       THEN [n \in DOMAIN contentVars \cup DOMAIN vars |->
                               IF n \in DOMAIN vars THEN vars[n] ELSE contentVars[n]]
                       ELSE contentVars
    BY <1>4, <2>2 DEF ParseVar, Overridden
  <2>4. x.name # KeyName => KeyName \notin DOMAIN vars
    BY <2>2, OthersParsed
  <2>5. x.name = KeyName =>
          /\ KeyName \in DOMAIN vars
          /\ \/ vars[KeyName].fancy = x.text
             \/ KeyName \in DOMAIN contentVars /\ vars[KeyName].fancy = contentVars[KeyName].fancy
          /\ pc \in PassesOf(x.form) <=> x.form # "empty" /\ (pc = "quoted" <=> x.form = "quoted")
    BY <1>1, <1>3, <2>1, <2>2, KeyParsed
  <2>6. KeyFrom(rawInput, contentVars)'
    <3>1. CASE KeyName \in DOMAIN contentVars' /\ contentVars'[KeyName] = contentVars[KeyName] /\ KeyName \in DOMAIN contentVars
      BY <1>1, <3>1 DEF KeyAtHand, KeyFrom
    <3>2. CASE KeyName \notin DOMAIN contentVars'
      BY <3>2 DEF KeyFrom
    <3>3. CASE x.name = KeyName /\ contentVars'[KeyName] = vars[KeyName]
      BY <1>1, <2>1, <2>2, <2>5, <3>3 DEF KeyAtHand, KeyFrom
    <3>. QED BY <2>3, <2>4, <3>1, <3>2, <3>3
  <2>7. DOMAIN contentVars \subseteq DOMAIN contentVars'
    BY <2>3
  <2>8. ASSUME NEW m \in DOMAIN rawInput, rawInput[m].name = KeyName, rawInput[m].form # "empty", m \in Seen'
        PROVE  KeyName \in DOMAIN contentVars'
    <3>1. CASE m \in Seen
      BY <2>7, <2>8, <3>1 DEF KeyAtHand
    <3>2. CASE m \notin Seen
      <4>1. m = pos
        BY <1>1, <1>2, <2>1, <2>8, <3>2 DEF Seen
      <4>2. x.form # "empty" /\ (pc = "quoted" <=> x.form = "quoted")
        BY <1>1, <2>1, <2>2, <2>8, <3>2, <4>1 DEF Seen
      <4>. QED BY <2>2, <2>3, <2>5, <2>8, <4>1, <4>2
    <3>. QED BY <3>1, <3>2
  <2>. QED BY <1>1, <2>1, <2>6, <2>8 DEF KeyAtHand
<1>5. CASE SecondPass
  <2>1. pc = "quoted" /\ pos > Len(rawInput) /\ pc' = "bare" /\ pos' = 1 /\ UNCHANGED contentVars
    BY <1>5 DEF SecondPass
  <2>2. Seen' \subseteq Seen
    BY <1>1, <1>2, <2>1 DEF Seen
  <2>. QED BY <1>1, <2>1, <2>2 DEF KeyAtHand, KeyFrom
<1>6. CASE FindSpplited
  <2>1. pc = "bare" /\ pos > Len(rawInput) /\ pc' = "merge" /\ UNCHANGED contentVars
    BY <1>6 DEF FindSpplited
  <2>2. ASSUME NEW m \in DOMAIN rawInput, rawInput[m].form # "empty" PROVE m \in Seen
    BY <1>1, <1>2, <2>1, <2>2 DEF Seen
  <2>. QED BY <1>1, <2>1, <2>2 DEF KeyAtHand, KeyFrom
<1>7. ASSUME NEW v, NEW k, <<v, 0>> \in NamesIn, contentVars' = Merged(v, k), pc = "merge" /\ pc' = "merge"
      PROVE  KeyAtHand'
  <2>1. v # KeyName[1]
    BY <1>7, KeyNotMerged
  <2>2. /\ KeyName \in DOMAIN contentVars' <=> KeyName \in DOMAIN contentVars
        /\ KeyName \in DOMAIN contentVars => contentVars'[KeyName] = contentVars[KeyName]
    BY <1>7, <2>1, KeyMerged
  <2>3. KeyFrom(rawInput, contentVars)'
    BY <1>1, <2>2 DEF KeyAtHand, KeyFrom
  <2>. QED BY <1>1, <1>7, <2>2, <2>3 DEF KeyAtHand
<1>8. ASSUME NEW v \in toMerge, MergeZero(v) PROVE KeyAtHand'
  <2>1. contentVars' = Merged(v, 0) /\ pc = "merge" /\ pc' = "merge" /\ <<v, 0>> \in NamesIn
    BY <1>1, <1>8 DEF MergeZero, VarsAfterMerge, ShapeInv
  <2>. QED BY <1>7, <2>1
<1>9. CASE MergeNext
  <2>1. PICK v, k : v = chunk.of /\ k = chunk.next
    OBVIOUS
  <2>2. v # NoVariable /\ contentVars' = Merged(v, k) /\ UNCHANGED pc
    BY <1>9, <2>1 DEF MergeNext, VarsAfterMerge
  <2>3. pc = "merge"
    BY <2>1, <2>2 DEF EventInv
  <2>4. <<v, 0>> \in NamesIn
    <3>1. k \in Nat /\ k > 0 /\ \A i \in 0..k - 1 : <<v, i>> \in NamesIn
      BY <1>1, <2>1, <2>2 DEF ShapeInv, ChunksNamed
    <3>. QED BY <3>1
  <2>. QED BY <1>7, <2>2, <2>3, <2>4
<1>10. CASE EndOfChunks
  <2>1. UNCHANGED <<pc, contentVars>> /\ pc = "merge"
    BY <1>10 DEF EndOfChunks, EventInv
  <2>. QED BY <1>1, <2>1 DEF KeyAtHand, KeyFrom
<1>11. CASE Finish
  <2>1. pc = "merge" /\ pc' = "done" /\ UNCHANGED contentVars
    BY <1>11 DEF Finish
  <2>. QED BY <1>1, <2>1 DEF KeyAtHand, KeyFrom
<1>. QED BY <1>4, <1>5, <1>6, <1>8, <1>9, <1>10, <1>11 DEF ProcessStep

\* The objects of the event: where their texts come from, that a key that came
\* is in one, and what the processed ones show.
ObjectAt(at) == classVars[ClassOrder[at[1]]][at[2]]
TextsArrived ==
  \A class \in ClassSet : \A i \in DOMAIN classVars[class] : \A m \in DOMAIN classVars[class][i].raw :
    \E j \in DOMAIN records : \E k \in DOMAIN records[j].tokens : records[j].tokens[k] = classVars[class][i].raw[m]
KeysArrived ==
  \A j \in DOMAIN records : records[j].class # "PATH" /\ HoldsKey(records[j].tokens) =>
    classVars[records[j].class] # <<>> /\ HoldsKey(classVars[records[j].class][1].raw)
KeyFits(tokens, vars) ==
  ~KeyInChunks(tokens) => KeyFrom(tokens, vars) /\ (HoldsKey(tokens) => KeyName \in DOMAIN vars)
KeysProcessed == \A at \in processed : KeyFits(ObjectAt(at).raw, ObjectAt(at).content)

KeyInv ==
  /\ TextsArrived /\ KeysArrived /\ KeysProcessed
  /\ pc # "idle" => (\A at \in Objects : IsNext(at) => rawInput = ObjectAt(at).raw) /\ KeyAtHand

\* Two texts joined.
MadeOf(t, a, b) ==
  /\ \A m \in DOMAIN t : (\E k \in DOMAIN b : t[m] = b[k]) \/ (\E k \in DOMAIN a : t[m] = a[k])
  /\ (HoldsKey(a) => HoldsKey(t)) /\ (HoldsKey(b) => HoldsKey(t))

\* What is joined is made of the two, and keeps a key.
LEMMA Joined ==
  ASSUME NEW T, NEW a \in Seq(T), NEW b \in Seq(T)
  PROVE  MadeOf(a \o b, a, b)
<1>1. PICK t : t = a \o b
  OBVIOUS
<1>2. /\ Len(a) \in Nat /\ Len(b) \in Nat /\ DOMAIN a = 1..Len(a) /\ DOMAIN b = 1..Len(b)
      /\ DOMAIN t = 1..Len(a) + Len(b)
      /\ \A m \in 1..Len(a) + Len(b) : t[m] = IF m <= Len(a) THEN a[m] ELSE b[m - Len(a)]
  BY <1>1
<1>3. ASSUME NEW m \in DOMAIN t PROVE (\E k \in DOMAIN b : t[m] = b[k]) \/ (\E k \in DOMAIN a : t[m] = a[k])
  <2>1. CASE m <= Len(a)
    BY <1>2, <2>1
  <2>2. CASE ~(m <= Len(a))
    <3>1. m - Len(a) \in DOMAIN b /\ t[m] = b[m - Len(a)]
      BY <1>2, <2>2
    <3>. QED BY <3>1
  <2>. QED BY <2>1, <2>2
<1>4. \A k \in DOMAIN a : k \in DOMAIN t /\ t[k] = a[k]
  BY <1>2
<1>5. ASSUME NEW k \in DOMAIN b PROVE Len(a) + k \in DOMAIN t /\ t[Len(a) + k] = b[k]
  <2>1. Len(a) + k \in 1..Len(a) + Len(b) /\ ~(Len(a) + k <= Len(a)) /\ (Len(a) + k) - Len(a) = k
    BY <1>2
  <2>. QED BY <1>2, <2>1
<1>6. (HoldsKey(a) => HoldsKey(t)) /\ (HoldsKey(b) => HoldsKey(t))
  BY <1>4, <1>5 DEF HoldsKey
<1>. QED BY <1>1, <1>3, <1>6, Zenon DEF MadeOf

\* The texts of a class before and after a record is in.
TextsAdded(r, s, after) ==
  /\ \A i \in DOMAIN after : \A m \in DOMAIN after[i].raw :
       \/ \E k \in DOMAIN r.tokens : after[i].raw[m] = r.tokens[k]
       \/ i \in DOMAIN s /\ \E k \in DOMAIN s[i].raw : after[i].raw[m] = s[i].raw[k]
  /\ s # <<>> => after # <<>> /\ (HoldsKey(s[1].raw) => HoldsKey(after[1].raw))
  /\ r.class # "PATH" => after # <<>> /\ (HoldsKey(r.tokens) => HoldsKey(after[1].raw))

\* Nothing but the record's tokens is new.
LEMMA ObjectsAfterTexts ==
  ASSUME NEW r, NEW C, classVars[r.class] \in Seq(ObjectSet(r.class, C)),
         r.tokens \in Seq(TokensIn(kinds, r.class))
  PROVE  TextsAdded(r, classVars[r.class], ObjectsAfter(r))
<1> PICK s, after : s = classVars[r.class] /\ after = ObjectsAfter(r)
  OBVIOUS
<1>1. CASE OwnObject(r.class)
  <2>1. PICK o : o = [raw |-> r.tokens, content |-> NoVars] /\ o.raw = r.tokens
    <3>1. [raw |-> r.tokens, content |-> NoVars].raw = r.tokens
      OBVIOUS
    <3>. QED BY <3>1, Zenon
  <2>2. after = Append(s, o)
    BY <1>1, <2>1 DEF ObjectsAfter
  <2>3. /\ DOMAIN after = DOMAIN s \cup {Len(s) + 1} /\ after[Len(s) + 1] = o /\ after # <<>>
        /\ \A i \in DOMAIN s : after[i] = s[i]
    BY <2>2
  <2>4. s # <<>> => 1 \in DOMAIN s
    OBVIOUS
  <2>5. r.class # "PATH" => s = <<>> /\ after[1] = o
    <3>1. s = <<>> => Len(s) + 1 = 1
      OBVIOUS
    <3>. QED BY <1>1, <2>3, <3>1 DEF OwnObject
  <2>. QED BY <2>1, <2>3, <2>4, <2>5 DEF TextsAdded
<1>2. CASE ~OwnObject(r.class)
  <2>1. s # <<>> /\ 1 \in DOMAIN s /\ s[1] \in ObjectSet(r.class, C)
    BY <1>2 DEF OwnObject
  <2>2. PICK old, t : old = s[1].raw /\ t = old \o r.tokens
    OBVIOUS
  <2>3. PICK o : o = [s[1] EXCEPT !.raw = t]
    OBVIOUS
  <2>4. o.raw = t
    BY <2>1, <2>3 DEF ObjectSet
  <2>5. after = [s EXCEPT ![1] = o]
    BY <1>2, <2>2, <2>3 DEF ObjectsAfter
  <2>6. DOMAIN after = DOMAIN s /\ after[1] = o /\ after # <<>> /\ \A i \in DOMAIN s : i # 1 => after[i] = s[i]
    BY <2>1, <2>5
  <2>7. old \in Seq(TokensIn(kinds, r.class))
    BY <2>1, <2>2 DEF ObjectSet
  <2>8. /\ \A m \in DOMAIN t : (\E k \in DOMAIN r.tokens : t[m] = r.tokens[k]) \/ (\E k \in DOMAIN old : t[m] = old[k])
        /\ (HoldsKey(old) => HoldsKey(t)) /\ (HoldsKey(r.tokens) => HoldsKey(t))
    <3>1. MadeOf(old \o r.tokens, old, r.tokens)
      BY <2>7, Joined
    <3>. QED BY <2>2, <3>1, Zenon DEF MadeOf
  <2>9. ASSUME NEW i \in DOMAIN after, NEW m \in DOMAIN after[i].raw
        PROVE  \/ \E k \in DOMAIN r.tokens : after[i].raw[m] = r.tokens[k]
               \/ i \in DOMAIN s /\ \E k \in DOMAIN s[i].raw : after[i].raw[m] = s[i].raw[k]
    <3>1. CASE i = 1
      <4>1. after[i].raw = t /\ s[i].raw = old /\ i \in DOMAIN s
        BY <2>1, <2>2, <2>4, <2>6, <3>1
      <4>2. m \in DOMAIN t /\ after[i].raw[m] = t[m]
        BY <2>9, <4>1
      <4>. QED BY <2>8, <4>1, <4>2
    <3>2. CASE i # 1
      BY <2>6, <2>9, <3>2
    <3>. QED BY <3>1, <3>2
  <2>10. after[1].raw = t /\ s[1].raw = old
    BY <2>2, <2>4, <2>6
  <2>. QED BY <2>1, <2>6, <2>8, <2>9, <2>10 DEF TextsAdded
<1>. QED BY <1>1, <1>2

\* A record that comes in brings its key along.
LEMMA KeyArrives ==
  ASSUME EventInv, AddressInv, KeyInv, NEW r \in kinds, InsertClassContents(r)
  PROVE  KeyInv'
<1>1. /\ phase = "arriving" /\ records' = Append(records, r)
      /\ classVars' = [classVars EXCEPT ![r.class] = ObjectsAfter(r)]
      /\ processed' = {} /\ pc' = "idle"
  BY DEF InsertClassContents, AddressInv, EventInv, objectVars
<1>2. records \in Seq(kinds) /\ r.class \in ClassSet /\ r.tokens \in Seq(TokensIn(kinds, r.class))
  BY KernelTokens DEF EventInv
<1>3. PICK C, s, after : s \in Seq(ObjectSet(r.class, C)) /\ s = classVars[r.class] /\ after = ObjectsAfter(r)
  BY <1>2 DEF EventInv, ObjectsOf
<1>4. classVars'[r.class] = after /\ \A c \in ClassSet : c # r.class => classVars'[c] = classVars[c]
  BY <1>1, <1>2, <1>3 DEF EventInv
<1>5. TextsAdded(r, s, after)
  BY <1>2, <1>3, ObjectsAfterTexts
<1>6. PICK n \in Nat : /\ n = Len(records) + 1 /\ DOMAIN records' = DOMAIN records \cup {n} /\ records'[n] = r
                       /\ \A j \in DOMAIN records : records'[j] = records[j] /\ records[j] \in kinds
  BY <1>1, <1>2
<1>7. \A k \in DOMAIN r.tokens : \E j \in DOMAIN records' : \E l \in DOMAIN records'[j].tokens : records'[j].tokens[l] = r.tokens[k]
  BY <1>6
<1>8. ASSUME NEW x, \E j \in DOMAIN records : \E k \in DOMAIN records[j].tokens : records[j].tokens[k] = x
      PROVE  \E j \in DOMAIN records' : \E k \in DOMAIN records'[j].tokens : records'[j].tokens[k] = x
  BY <1>6, <1>8
<1>9. ASSUME NEW class \in ClassSet, NEW i \in DOMAIN classVars'[class], NEW m \in DOMAIN classVars'[class][i].raw
      PROVE  \E j \in DOMAIN records' : \E k \in DOMAIN records'[j].tokens :
               records'[j].tokens[k] = classVars'[class][i].raw[m]
  <2>1. CASE class # r.class
    <3>1. classVars'[class] = classVars[class]
      BY <1>4, <2>1
    <3>2. PICK x : x = classVars[class][i].raw[m]
      OBVIOUS
    <3>3. \E j \in DOMAIN records : \E k \in DOMAIN records[j].tokens : records[j].tokens[k] = x
      BY <1>9, <3>1, <3>2 DEF KeyInv, TextsArrived
    <3>. QED BY <1>8, <3>1, <3>2, <3>3
  <2>2. CASE class = r.class
    <3>1. PICK x : x = after[i].raw[m] /\ x = classVars'[class][i].raw[m]
      BY <1>4, <2>2
    <3>2. i \in DOMAIN after /\ m \in DOMAIN after[i].raw
      BY <1>4, <1>9, <2>2
    <3>3. CASE \E k \in DOMAIN r.tokens : x = r.tokens[k]
      BY <1>7, <3>1, <3>3
    <3>4. CASE i \in DOMAIN s /\ \E k \in DOMAIN s[i].raw : x = s[i].raw[k]
      <4>1. \E j \in DOMAIN records : \E k \in DOMAIN records[j].tokens : records[j].tokens[k] = x
        BY <1>2, <1>3, <3>4 DEF KeyInv, TextsArrived
      <4>. QED BY <1>8, <3>1, <4>1
    <3>5. (\E k \in DOMAIN r.tokens : x = r.tokens[k]) \/ (i \in DOMAIN s /\ \E k \in DOMAIN s[i].raw : x = s[i].raw[k])
      BY <1>5, <3>1, <3>2 DEF TextsAdded
    <3>. QED BY <3>3, <3>4, <3>5
  <2>. QED BY <2>1, <2>2
<1>10. TextsArrived'
  BY <1>9 DEF TextsArrived, ClassSet
<1>11. ASSUME NEW j \in DOMAIN records', records'[j].class # "PATH", HoldsKey(records'[j].tokens)
       PROVE  classVars'[records'[j].class] # <<>> /\ HoldsKey(classVars'[records'[j].class][1].raw)
  <2>1. CASE j = n
    BY <1>4, <1>5, <1>6, <1>11, <2>1 DEF TextsAdded
  <2>2. CASE j \in DOMAIN records
    <3>1. PICK class : class = records[j].class /\ class = records'[j].class
      BY <1>6, <2>2
    <3>2. class \in ClassSet
      BY <1>6, <2>2, <3>1, KernelTokens DEF EventInv
    <3>3. classVars[class] # <<>> /\ HoldsKey(classVars[class][1].raw)
      BY <1>6, <1>11, <2>2, <3>1 DEF KeyInv, KeysArrived
    <3>. QED BY <1>3, <1>4, <1>5, <3>1, <3>2, <3>3 DEF TextsAdded
  <2>. QED BY <1>6, <2>1, <2>2
<1>12. KeysArrived'
  BY <1>11 DEF KeysArrived, HoldsKey
<1>13. KeysProcessed'
  BY <1>1 DEF KeysProcessed
<1>. QED BY <1>1, <1>10, <1>12, <1>13 DEF KeyInv

\* An object gets its variables: the key among its tokens is among them.
LEMMA KeyEnds ==
  ASSUME EventInv, KeyInv, EndObject
  PROVE  KeyInv'
<1>1. PICK at \in Objects :
        /\ IsNext(at)
        /\ classVars' = [classVars EXCEPT ![ClassOrder[at[1]]][at[2]].content = contentVars]
        /\ processed' = processed \cup {at}
  BY DEF EndObject
<1>2. pc = "done" /\ pc' = "idle" /\ UNCHANGED <<kinds, records>>
  BY DEF EndObject
<1>3. PICK class, i, s : class = ClassOrder[at[1]] /\ i = at[2] /\ s = classVars[class]
  OBVIOUS
<1>4. class \in ClassSet /\ i \in DOMAIN s
  BY <1>1, <1>3, NextIsOne
<1>5. PICK C : s \in Seq(ObjectSet(class, C))
  BY <1>3, <1>4 DEF EventInv, ObjectsOf
<1>6. PICK o : o = [s[i] EXCEPT !.content = contentVars]
  OBVIOUS
<1>7. o.raw = s[i].raw /\ o.content = contentVars
  <2>1. s[i] \in ObjectSet(class, C)
    BY <1>4, <1>5
  <2>. QED BY <1>6, <2>1 DEF ObjectSet
<1>8. PICK after : after = [s EXCEPT ![i] = o]
  OBVIOUS
<1>9. classVars'[class] = after /\ \A c \in ClassSet : c # class => classVars'[c] = classVars[c]
  <2>1. after = [s EXCEPT ![i].content = contentVars]
    BY <1>6, <1>8
  <2>. QED BY <1>1, <1>3, <1>4, <2>1 DEF EventInv
<1>10. /\ DOMAIN after = DOMAIN s /\ after[i] = o /\ \A k \in DOMAIN s : k # i => after[k] = s[k]
       /\ after # <<>> /\ s # <<>>
  BY <1>4, <1>5, <1>8
<1>11. \A k \in DOMAIN s : after[k].raw = s[k].raw
  BY <1>7, <1>10
<1>12. \A c \in ClassSet : /\ DOMAIN classVars'[c] = DOMAIN classVars[c]
                           /\ \A k \in DOMAIN classVars[c] : classVars'[c][k].raw = classVars[c][k].raw
  BY <1>3, <1>9, <1>10, <1>11
<1>13. TextsArrived'
  <2>1. ClassSet' = ClassSet
    BY DEF ClassSet
  <2>. QED BY <1>2, <1>12, <2>1 DEF KeyInv, TextsArrived
<1>14. KeysArrived'
  <2>1. ASSUME NEW j \in DOMAIN records, records[j].class # "PATH", HoldsKey(records[j].tokens)
        PROVE  classVars'[records[j].class] # <<>> /\ HoldsKey(classVars'[records[j].class][1].raw)
    <3>1. PICK c : c = records[j].class
      OBVIOUS
    <3>2. classVars[c] # <<>> /\ HoldsKey(classVars[c][1].raw)
      BY <2>1, <3>1 DEF KeyInv, KeysArrived
    <3>3. CASE c = class
      <4>1. 1 \in DOMAIN s
        BY <1>5, <1>10
      <4>. QED BY <1>3, <1>9, <1>10, <1>11, <3>1, <3>2, <3>3, <4>1
    <3>4. CASE c # class
      <4>1. c \in ClassSet
        BY <2>1, <3>1, KernelTokens DEF EventInv
      <4>. QED BY <1>9, <3>1, <3>2, <3>4, <4>1
    <3>. QED BY <3>3, <3>4
  <2>. QED BY <1>2, <2>1 DEF KeysArrived, HoldsKey
<1>15. KeysProcessed'
  <2>1. ASSUME NEW bt \in processed' PROVE KeyFits(ObjectAt(bt)'.raw, ObjectAt(bt)'.content)
    <3>1. bt \in Objects
      BY <1>1 DEF EventInv
    <3>2. PICK c, k, b : c = ClassOrder[bt[1]] /\ k = bt[2] /\ b = classVars'[c][k] /\ b = ObjectAt(bt)'
      BY DEF ObjectAt
    <3>3. c \in ClassSet /\ k \in DOMAIN classVars[c]
      BY <3>1, <3>2, NextIsOne
    <3>4. CASE c = class /\ k = i
      <4>1. b.raw = s[i].raw /\ b.content = contentVars
        BY <1>7, <1>9, <1>10, <3>2, <3>4
      <4>2. rawInput = s[i].raw /\ KeyAtHand
        BY <1>1, <1>2, <1>3 DEF KeyInv, ObjectAt
      <4>3. KeyFits(rawInput, contentVars)
        BY <1>2, <4>2 DEF KeyAtHand, KeyFits, HoldsKey
      <4>. QED BY <3>2, <4>1, <4>2, <4>3
    <3>5. CASE c # class \/ k # i
      <4>1. b = classVars[c][k]
        BY <1>3, <1>9, <1>10, <3>2, <3>3, <3>5
      <4>2. bt \in processed
        BY <1>1, <1>3, <3>2, <3>5
      <4>3. KeyFits(classVars[c][k].raw, classVars[c][k].content)
        BY <3>2, <4>2 DEF KeyInv, KeysProcessed, ObjectAt
      <4>. QED BY <3>2, <4>1, <4>3
    <3>. QED BY <3>4, <3>5
  <2>. QED BY <2>1 DEF KeysProcessed, KeyFits, KeyFrom, HoldsKey, KeyInChunks
<1>. QED BY <1>2, <1>13, <1>14, <1>15 DEF KeyInv

\* Every step keeps the key.
LEMMA KeyKept ==
  ASSUME EventInv, AddressInv, KeyInv, [EventStep]_<<objectVars, eventVars>>
  PROVE  KeyInv'
<1>1. ASSUME UNCHANGED <<records, classVars, processed>>
      PROVE  /\ Objects' = Objects /\ (\A at : IsNext(at)' <=> IsNext(at)) /\ (\A at : ObjectAt(at)' = ObjectAt(at))
             /\ TextsArrived' /\ KeysArrived' /\ KeysProcessed'
  <2>1. Objects' = Objects /\ \A at : ObjectAt(at)' = ObjectAt(at)
    BY <1>1 DEF Objects, ObjectAt
  <2>2. \A at : IsNext(at)' <=> IsNext(at)
    BY <1>1, <2>1 DEF IsNext
  <2>3. TextsArrived' /\ KeysArrived'
    BY <1>1 DEF KeyInv, TextsArrived, KeysArrived, HoldsKey, ClassSet
  <2>4. KeysProcessed'
    BY <1>1, <2>1 DEF KeyInv, KeysProcessed, KeyFits, KeyFrom, HoldsKey, KeyInChunks
  <2>. QED BY <2>1, <2>2, <2>3, <2>4
<1>2. ASSUME NEW r \in kinds, InsertClassContents(r) PROVE KeyInv'
  BY <1>2, KeyArrives
<1>3. CASE Process \/ Show
  <2>1. UNCHANGED <<records, classVars, processed>> /\ pc' = "idle"
    BY <1>3 DEF Process, Show, EventInv, objectVars
  <2>. QED BY <1>1, <2>1 DEF KeyInv
<1>4. CASE BeginObject
  <2>1. PICK at \in Objects : IsNext(at) /\ Begin(ClassOrder[at[1]], classVars[ClassOrder[at[1]]][at[2]].raw)
    BY <1>4 DEF BeginObject
  <2>2. UNCHANGED <<records, classVars, processed>>
    BY <1>4 DEF BeginObject, eventVars
  <2>3. PICK tokens : tokens = ObjectAt(at).raw
    OBVIOUS
  <2>4. rawInput' = tokens /\ pc' = "quoted" /\ pos' = 1 /\ DOMAIN contentVars' = {}
    BY <2>1, <2>3 DEF Begin, NoVars, ObjectAt
  <2>5. \A bt \in Objects : IsNext(bt) => tokens = ObjectAt(bt).raw
    BY <2>1, <2>3, NextIsOne
  <2>6. \A m \in Seen' : FALSE
    <3>1. tokens \in Seq(TokensIn(kinds, ClassOrder[at[1]]))
      <4>1. PICK class : class = ClassOrder[at[1]] /\ class \in ClassSet /\ at[2] \in DOMAIN classVars[class]
        BY <2>1, NextIsOne
      <4>2. PICK C : classVars[class] \in Seq(ObjectSet(class, C))
        BY <4>1 DEF EventInv, ObjectsOf
      <4>3. classVars[class][at[2]] \in ObjectSet(class, C)
        BY <4>1, <4>2
      <4>. QED BY <2>3, <4>1, <4>3 DEF ObjectSet, ObjectAt
    <3>2. \A m \in DOMAIN tokens : ~(m < 1)
      BY <3>1
    <3>. QED BY <2>4, <3>2 DEF Seen
  <2>7. KeyAtHand'
    BY <2>4, <2>6 DEF KeyAtHand, KeyFrom
  <2>. QED BY <1>1, <2>2, <2>4, <2>5, <2>7 DEF KeyInv
<1>5. CASE EndObject
  BY <1>5, KeyEnds
<1>6. CASE ProcessStep /\ UNCHANGED eventVars
  <2>1. UNCHANGED <<records, classVars, processed, rawInput>> /\ pc # "idle"
    BY <1>6 DEF EventInv, eventVars, ProcessStep, ParseVar, SecondPass, FindSpplited, MergeZero, MergeNext, EndOfChunks, Finish
  <2>2. KeyAtHand'
    BY <1>6, <2>1, KeyStep DEF KeyInv
  <2>. QED BY <1>1, <2>1, <2>2 DEF KeyInv
<1>7. CASE UNCHANGED <<objectVars, eventVars>>
  <2>1. UNCHANGED <<records, classVars, processed>> /\ UNCHANGED <<rawInput, contentVars, pos, pc>>
    BY <1>7 DEF eventVars, objectVars
  <2>2. KeyAtHand => KeyAtHand'
    BY <2>1 DEF KeyAtHand, KeyFrom, Seen
  <2>. QED BY <1>1, <2>1, <2>2 DEF KeyInv
<1>. QED BY <1>2, <1>3, <1>4, <1>5, <1>6, <1>7 DEF EventStep

\* Of the classes that have a key one is the last: the numbers counted from the
\* end have a least one.
LEMMA LastClass ==
  ASSUME NEW W \in SUBSET DOMAIN ClassOrder, W # {}
  PROVE  \E k \in W : \A j \in W : j <= k
<1>1. PICK n \in Nat : DOMAIN ClassOrder = 1..n
  BY EventAssumption
<1>2. PICK R : R = OpToRel(<, Nat) /\ IsWellFoundedOn(R, Nat)
  BY NatLessThanWellFounded
<1>3. \A i, j \in Nat : i < j => <<i, j>> \in R
  BY <1>2 DEF OpToRel
<1>4. PICK T : T = {n - k : k \in W}
  OBVIOUS
<1>5. T \subseteq Nat
  BY <1>1, <1>4
<1>6. T # {}
  BY <1>4
<1>7. PICK x \in T : \A y \in T : ~(<<y, x>> \in R)
  BY <1>2, <1>5, <1>6, WFMin
<1>8. PICK k \in W : x = n - k
  BY <1>4
<1>9. ASSUME NEW j \in W PROVE j <= k
  <2>1. n - j \in T /\ n - j \in Nat /\ x \in Nat
    BY <1>4, <1>5
  <2>2. ~(n - j < x)
    BY <1>3, <1>7, <2>1
  <2>3. j \in Int /\ k \in Int
    BY <1>1
  <2>. QED BY <1>8, <2>2, <2>3
<1>. QED BY <1>9

\* An event with a key in a record outside PATH and EXECVE, and no key in chunks,
\* has one in its INFO, and it is the text of one pair key=... that came.
THEOREM KeyIsShown == EventSpec => []KeyShown
<1>1. EventInit => KeyInv
  BY DEF EventInit, ClassInit, KeyInv, TextsArrived, KeysArrived, KeysProcessed
<1>2. EventInv /\ AddressInv /\ KeyInv /\ [EventStep]_<<objectVars, eventVars>> => KeyInv'
  BY KeyKept
<1>3. EventInv /\ AddressInv /\ KeyInv => KeyShown
  <2> SUFFICES ASSUME EventInv, AddressInv, KeyInv, phase = "shown",
                      \A k \in DOMAIN records : ~KeyInChunks(records[k].tokens),
                      NEW j \in DOMAIN records, records[j].class \notin {"PATH", "EXECVE"}, HoldsKey(records[j].tokens)
               PROVE  /\ \E k \in DOMAIN ClassOrder : HasKey(ClassOrder[k])
                      /\ \E l \in DOMAIN records : \E k \in DOMAIN records[l].tokens :
                           records[l].tokens[k].name = KeyName /\ records[l].tokens[k].text = EventKey
    BY DEF KeyShown
  <2>1. PICK class : class = records[j].class
    OBVIOUS
  <2>2. records[j] \in kinds /\ kinds \in RecordSets /\ class \in ClassSet
    BY <2>1, KernelTokens DEF EventInv
  <2>3. ASSUME NEW c \in ClassSet, NEW i \in DOMAIN classVars[c] PROVE ~KeyInChunks(classVars[c][i].raw)
    <3> SUFFICES ASSUME NEW m \in DOMAIN classVars[c][i].raw
                 PROVE  ~(classVars[c][i].raw[m].name[1] = KeyName[1] /\ classVars[c][i].raw[m].name[2] # Whole)
      BY DEF KeyInChunks
    <3>1. \E l \in DOMAIN records : \E k \in DOMAIN records[l].tokens : records[l].tokens[k] = classVars[c][i].raw[m]
      BY DEF KeyInv, TextsArrived
    <3>. QED BY <3>1 DEF KeyInChunks
  <2>4. classVars[class] # <<>> /\ HoldsKey(classVars[class][1].raw)
    BY <2>1 DEF KeyInv, KeysArrived
  <2>5. ASSUME NEW n \in DOMAIN ClassOrder, classVars[ClassOrder[n]] # <<>>
        PROVE  /\ KeyFrom(classVars[ClassOrder[n]][1].raw, classVars[ClassOrder[n]][1].content)
               /\ HoldsKey(classVars[ClassOrder[n]][1].raw) => KeyName \in DOMAIN classVars[ClassOrder[n]][1].content
    <3>1. PICK at : at = <<n, 1>> /\ at[1] = n /\ at[2] = 1
      <4>1. <<n, 1>>[1] = n /\ <<n, 1>>[2] = 1
        OBVIOUS
      <4>. QED BY <4>1, Zenon
    <3>2. PICK C : classVars[ClassOrder[n]] \in Seq(ObjectSet(ClassOrder[n], C))
      BY DEF EventInv, ObjectsOf, ClassSet
    <3>3. 1 \in DOMAIN classVars[ClassOrder[n]]
      BY <2>5, <3>2
    <3>4. at \in processed
      BY <3>1, <3>3 DEF AddressInv, Objects
    <3>5. KeyFits(classVars[ClassOrder[n]][1].raw, classVars[ClassOrder[n]][1].content)
      BY <3>1, <3>4 DEF KeyInv, KeysProcessed, ObjectAt
    <3>6. ~KeyInChunks(classVars[ClassOrder[n]][1].raw)
      BY <2>3, <3>3 DEF ClassSet
    <3>. QED BY <3>5, <3>6 DEF KeyFits
  <2>6. PICK W : W = {k \in DOMAIN ClassOrder : HasKey(ClassOrder[k])}
    OBVIOUS
  <2>7. W # {}
    <3>1. PICK n \in DOMAIN ClassOrder : ClassOrder[n] = class
      BY <2>2 DEF ClassSet
    <3>2. KeyName \in DOMAIN classVars[class][1].content
      BY <2>4, <2>5, <3>1
    <3>3. HasKey(class)
      BY <2>1, <2>4, <3>2 DEF HasKey, ShowsArguments
    <3>. QED BY <2>6, <3>1, <3>3
  <2>8. PICK last : last = CHOOSE k \in W : \A l \in W : l <= k
    OBVIOUS
  <2>9. last \in W
    <3>1. \E k \in W : \A l \in W : l <= k
      BY <2>6, <2>7, LastClass
    <3>. QED BY <2>8, <3>1
  <2>10. PICK o : o = classVars[ClassOrder[last]][1]
    OBVIOUS
  <2>11. EventKey = o.content[KeyName].fancy
    BY <2>6, <2>7, <2>8, <2>10 DEF EventKey
  <2>12. KeyName \in DOMAIN o.content /\ classVars[ClassOrder[last]] # <<>> /\ last \in DOMAIN ClassOrder
    BY <2>6, <2>9, <2>10 DEF HasKey
  <2>13. PICK m \in DOMAIN o.raw : o.raw[m].name = KeyName /\ o.content[KeyName].fancy = o.raw[m].text
    BY <2>5, <2>10, <2>12 DEF KeyFrom
  <2>14. \E l \in DOMAIN records : \E k \in DOMAIN records[l].tokens : records[l].tokens[k] = o.raw[m]
    <3>1. PICK c : c = ClassOrder[last] /\ c \in ClassSet
      BY <2>12 DEF ClassSet
    <3>2. 1 \in DOMAIN classVars[c]
      <4>1. PICK C : classVars[c] \in Seq(ObjectSet(c, C))
        BY <3>1 DEF EventInv, ObjectsOf
      <4>. QED BY <2>12, <3>1, <4>1
    <3>. QED BY <2>10, <2>13, <3>1, <3>2 DEF KeyInv, TextsArrived
  <2>15. \E k \in DOMAIN ClassOrder : HasKey(ClassOrder[k])
    BY <2>6, <2>7
  <2>. QED BY <2>11, <2>13, <2>14, <2>15
<1>. QED BY <1>1, <1>2, <1>3, EventInvariant, AddressInvariant, PTL DEF EventSpec
=============================================================================
