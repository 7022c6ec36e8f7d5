------------------------------ MODULE Broadcast ------------------------------
(***************************************************************************)
(* What the outputs of uanlz_log2json promise: values are offered one at a *)
(* time, each to every output in turn; an output takes or refuses it; what *)
(* an output took reaches its remote host in that order and once, except   *)
(* for what its connection loses on the way.                               *)
(***************************************************************************)
EXTENDS Integers, Sequences

CONSTANTS
  Values,     \* what is offered
  NoValue,    \* no member of Values: nothing is being offered
  NumOutputs  \* the outputs are 1..NumOutputs

VARIABLES
  current,  \* the value being offered
  next,     \* the output it is offered to next
  past,     \* the values whose round is over
  transit,  \* per output: taken and not received yet
  got,      \* per output: what the remote host received
  gone      \* per output: values lost on the way

vars == <<current, next, past, transit, got, gone>>

Outputs == 1..NumOutputs

Init ==
  /\ current = NoValue /\ next = 1 /\ past = {}
  /\ transit = [o \in Outputs |-> <<>>]
  /\ got = [o \in Outputs |-> <<>>]
  /\ gone = [o \in Outputs |-> {}]

Begin(v) ==
  /\ current = NoValue /\ v \notin past
  /\ current' = v
  /\ UNCHANGED <<next, past, transit, got, gone>>

Take(o) ==
  /\ current # NoValue /\ next = o
  /\ transit' = [transit EXCEPT ![o] = Append(@, current)]
  /\ next' = o + 1
  /\ UNCHANGED <<current, past, got, gone>>

Refuse(o) ==
  /\ current # NoValue /\ next = o
  /\ next' = o + 1
  /\ UNCHANGED <<current, past, transit, got, gone>>

End ==
  /\ current # NoValue /\ next \notin Outputs
  /\ past' = past \cup {current}
  /\ current' = NoValue /\ next' = 1
  /\ UNCHANGED <<transit, got, gone>>

Deliver(o) ==
  /\ transit[o] # <<>>
  /\ got' = [got EXCEPT ![o] = Append(@, Head(transit[o]))]
  /\ transit' = [transit EXCEPT ![o] = Tail(@)]
  /\ UNCHANGED <<current, next, past, gone>>

\* The connection loses the n oldest values on their way.
Lose(o, n) ==
  /\ gone' = [gone EXCEPT ![o] = @ \cup {transit[o][k] : k \in 1..n}]
  /\ transit' = [transit EXCEPT ![o] = SubSeq(@, n + 1, Len(@))]
  /\ UNCHANGED <<current, next, past, got>>

Next ==
  \/ \E v \in Values : Begin(v)
  \/ \E o \in Outputs : Take(o) \/ Refuse(o) \/ Deliver(o)
  \/ \E o \in Outputs : \E n \in 1..Len(transit[o]) : Lose(o, n)
  \/ End

Spec == Init /\ [][Next]_vars
=============================================================================
