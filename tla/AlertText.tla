------------------------------ MODULE AlertText ------------------------------
(***************************************************************************)
(* From the records of an event to an argument of the program that an      *)
(* alert executes: EventJSON in uanlz_log2json, ArgTemplate in uanlz_alert *)
(* on the JSON that reaches it.  The path of the templates is the event's  *)
(* key, .INFO.key, the text a monitored system has most say in.            *)
(***************************************************************************)
EXTENDS EventJSON

CONSTANTS
  RuleName, UpperCase, Tags,
  TemplatesFor  \* the templates tried on the events of a set of records

VARIABLES argument, template, vArgument, tags, field, step

Arg == INSTANCE ArgTemplate

argVars == <<argument, template, vArgument, tags, field, step>>
textVars == <<objectVars, eventVars, argVars>>

TextInit == EventInit /\ Arg!ArgInit

\* A JSON string in one line; null when the event has no key.
KeyText ==
  IF \E class \in ClassSet : HasKey(class) THEN <<"\"">> \o EventKey \o <<"\"">> ELSE <<"null">>

\* A rule was activated by the event, and its action is to be executed.
Alert ==
  /\ phase = "shown"
  /\ \E text \in TemplatesFor[kinds], n \in {0, 1} : Arg!ReplaceArgumentsVars(n, text, KeyText)
  /\ UNCHANGED <<objectVars, eventVars>>

\* Nothing is left to do.
Settled ==
  /\ phase = "shown" /\ (step = "ready" \/ TemplatesFor[kinds] = {})
  /\ UNCHANGED textVars

TextNext ==
  \/ EventStep /\ UNCHANGED argVars
  \/ Alert
  \/ Arg!ArgStep /\ UNCHANGED <<objectVars, eventVars>>
  \/ Settled

TextSpec == TextInit /\ [][TextNext]_textVars

\* See ArgTemplate: the key that arrived in the records is in the argument as it
\* was, wherever the template names it.
KeyReachesArgument == Arg!ArgumentAsTemplate
=============================================================================
