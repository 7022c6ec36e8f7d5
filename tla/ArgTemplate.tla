----------------------------- MODULE ArgTemplate -----------------------------
(***************************************************************************)
(* replaceArgumentsVar and getValueForVar of uanlz_alert: an argument of   *)
(* an action's program, from the template in actions.json to the text that *)
(* is handed to the program.                                               *)
(*                                                                         *)
(* The loop takes the leftmost %...% of the argument and replaces every    *)
(* occurrence of this text by a tag of its own; when none is left, every   *)
(* tag is replaced by its value.  So a value is never searched for         *)
(* variables.                                                              *)
(*                                                                         *)
(* A text is a sequence of characters.  "$", "-" and "+" stand for one     *)
(* JSON path in the three styles, which a further character turns into     *)
(* another path, with nothing there; "#" stands for #rule.name.            *)
(***************************************************************************)
EXTENDS Integers, Sequences, SequencesExt

CONSTANTS
  RuleName,     \* the rule's name
  UpperCase,    \* characters that to_upper_copy changes -> their upper case
  Tags          \* the tags in the order of their numbers; in no text

VARIABLES
  argument,     \* the position of the argument in args
  template,     \* history: the argument as actions.json has it
  vArgument,    \* the argument
  tags,         \* intermediateTags: tag number -> the variable
  field,        \* what the path finds in the JSON, as text in quotes
  step          \* "none", "tag", "replace" or "ready"

argVars == <<argument, template, vArgument, tags, field, step>>

Percent == "%"
NoText == <<>>

ArgInit ==
  /\ argument = 0 /\ template = NoText /\ vArgument = NoText
  /\ tags = <<>> /\ field = NoText /\ step = "none"

\* replaceArgumentsVars: the argument in position 0 is left as it is.
ReplaceArgumentsVars(n, text, result) ==
  /\ step = "none"
  /\ argument' = n /\ template' = text /\ vArgument' = text /\ field' = result
  /\ step' = IF n = 0 THEN "ready" ELSE "tag"
  /\ UNCHANGED tags
-----------------------------------------------------------------------------
Upper(text) ==
  [k \in DOMAIN text |-> IF text[k] \in DOMAIN UpperCase THEN UpperCase[text[k]] ELSE text[k]]

\* getValueForVar: null is what Json::Path finds elsewhere.
Resolved(path) == IF path = NoText THEN field ELSE <<"null">>
Invalid == <<"INVALID_VARGUMENT_VARIABLE">>
ValueForVar(var) ==
  CASE var = <<>> -> <<Percent>>
    [] var = <<"N">> -> <<"\n">>
    [] var[1] = "$" -> Resolved(Tail(var)) \o <<"\n">>
    [] var[1] = "-" -> Resolved(Tail(var))
    [] var[1] = "+" -> Upper(Resolved(Tail(var)))
    [] var = <<"#">> -> RuleName
    [] OTHER -> Invalid

\* boost::replace_all: from the left, without overlap, and not in what it put in.
Replaced(text, old, new) ==
  LET n == Len(old)
      from[i \in 1..Len(text) + 1] ==
        IF i > Len(text) THEN <<>>
        ELSE IF i + n - 1 <= Len(text) /\ SubSeq(text, i, i + n - 1) = old
          THEN new \o from[i + n]
          ELSE <<text[i]>> \o from[i + 1]
  IN  from[1]

\* The leftmost %[^%]*% : from the first percent sign to the next.
Percents(text) == {i \in DOMAIN text : text[i] = Percent}
Least(S) == CHOOSE i \in S : \A j \in S : i <= j
HasVar(text) == \E i, j \in Percents(text) : i # j
FirstVar(text) ==
  LET i == Least(Percents(text))
      j == Least(Percents(text) \ {i})
  IN  SubSeq(text, i + 1, j - 1)

InPercents(var) == <<Percent>> \o var \o <<Percent>>

\* getRandomTag.
Tag(k) == <<Tags[k + 1]>>

\* Mutant.  No tags: the value takes the variable's place at once.
ValueAtOnce(var) == ValueForVar(var)

\* What takes the place of a variable in the loop.
TagFor(var) == Tag(Len(tags))

TagVar ==
  /\ step = "tag" /\ HasVar(vArgument)
  /\ LET var == FirstVar(vArgument)
     IN  /\ vArgument' = Replaced(vArgument, InPercents(var), TagFor(var))
         /\ tags' = Append(tags, var)
  /\ UNCHANGED <<argument, template, field, step>>

NoVarLeft ==
  /\ step = "tag" /\ ~HasVar(vArgument)
  /\ step' = "replace"
  /\ UNCHANGED <<argument, template, vArgument, tags, field>>

\* The tags are numbered from 0; the map hands them out in order.
ReplaceTags ==
  /\ step = "replace"
  /\ vArgument' = FoldLeft(LAMBDA text, k : Replaced(text, Tag(k - 1), ValueForVar(tags[k])),
                           vArgument, [k \in DOMAIN tags |-> k])
  /\ step' = "ready"
  /\ UNCHANGED <<argument, template, tags, field>>

ArgStep == TagVar \/ NoVarLeft \/ ReplaceTags
-----------------------------------------------------------------------------
\* How a template reads from left to right: two percent signs and what is
\* between them are a variable, and the next pair follows.
ReadChar(state, c) ==
  IF c # Percent
    THEN IF state.open THEN [state EXCEPT !.var = Append(@, c)] ELSE [state EXCEPT !.out = Append(@, c)]
    ELSE IF state.open
      THEN [open |-> FALSE, var |-> <<>>, out |-> state.out \o ValueForVar(state.var)]
      ELSE [state EXCEPT !.open = TRUE]
Read(text) ==
  LET end == FoldLeft(ReadChar, [open |-> FALSE, var |-> <<>>, out |-> <<>>], text)
  IN  IF end.open THEN end.out \o <<Percent>> \o end.var ELSE end.out

\* The first percent signs of the pairs, and where a text occurs.
Opening(text) ==
  {i \in Percents(text) : Cardinality({j \in Percents(text) : j < i}) % 2 = 0}
Occurrences(s, text) ==
  {i \in DOMAIN text : i + Len(s) - 1 <= Len(text) /\ SubSeq(text, i, i + Len(s) - 1) = s}
Unambiguous(text) ==
  \A i \in Opening(text), j \in Percents(text) :
    i < j /\ (\A k \in Percents(text) : ~(i < k /\ k < j)) =>
      Occurrences(SubSeq(text, i, j), text) \subseteq Opening(text)

\* The argument is the template with every variable replaced by its value and
\* nothing else touched: a value that looks like a variable is handed on as it
\* is.  (Where the text of one variable also occurs across two others, as in
\* %%-%N%%N%, the code takes the occurrence for this variable; such templates
\* are left out.)
ArgumentAsTemplate ==
  step = "ready" =>
    /\ argument = 0 => vArgument = template
    /\ argument # 0 /\ Unambiguous(template) => vArgument = Read(template)
=============================================================================
