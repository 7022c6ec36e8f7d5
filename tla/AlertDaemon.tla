----------------------------- MODULE AlertDaemon -----------------------------
(***************************************************************************)
(* uanlz_alert as one process: the calls on rules and actions of           *)
(* AlertConfig and those on inputs of InputsConfig run on the same RPC     *)
(* threads, one call at a time on each, and end together with the process. *)
(* A start loads the actions, the rules and then the inputs.               *)
(***************************************************************************)
EXTENDS AlertConfig

CONSTANTS InputIds, MaxInputs, Missing
ASSUME InputsAssumption ==
  MaxInputs \in Nat \ {0} /\ Torn # Missing /\ {Torn, Missing} \cap Seq(InputIds) = {}

VARIABLES inputsFile, tcpServers, inputsModified, call, acknowledged, disturbed

Inputs == INSTANCE InputsConfig

inputVars == <<inputsFile, tcpServers, inputsModified, call, acknowledged, disturbed>>
daemonVars == <<vars, inputVars>>
configVars == <<rules, actions, modified, file, admin>>

DaemonInit == Init /\ Inputs!Init

\* What a step of one part means for the other: nothing, or the end.
InputsFollow == IF up' THEN UNCHANGED inputVars ELSE Inputs!Gone
ConfigFollows == IF up' THEN UNCHANGED configVars ELSE Die

ConfigCall(t) == call[t].pc = "idle" /\ (Edit(t) \/ Save(t)) /\ InputsFollow
InputsCall(t) == admin[t].pc = "idle" /\ Inputs!InputsCall(t) /\ ConfigFollows

StopDaemon == Stop /\ Inputs!Gone

\* While one of the three files is torn, every start ends in an exception.
\* inputs.json is the last to be read and made when it is missing.
LoadInputs == IF inputsFile = Missing THEN Inputs!CreateAndLoad ELSE Inputs!Load

StartDaemon ==
  \/ inputsFile = Torn /\ ~up /\ UNCHANGED daemonVars
  \/ inputsFile # Torn /\ Start /\ (IF up' THEN LoadInputs ELSE UNCHANGED inputVars)
  \/ /\ ~up /\ \A k \in Kinds : file[k] # Torn
     /\ Inputs!CreationCutShort /\ UNCHANGED <<up, configVars>>

DaemonNext ==
  \/ StopDaemon \/ StartDaemon
  \/ \E t \in Admins : ConfigCall(t) \/ InputsCall(t)

DaemonSpec == DaemonInit /\ [][DaemonNext]_daemonVars
-----------------------------------------------------------------------------
\* The type invariant and the properties of InputsConfig, for the daemon: what
\* calls on rules do, or a stop during one, does not break what inputs promise.
InputsTypeOK == Inputs!TypeOK
UnflaggedInputsRun == Inputs!UnflaggedInputsRun
AnswersHold == Inputs!AnswersHold
InputsTornOnlyWhileWriting == Inputs!TornOnlyWhileWriting
=============================================================================
