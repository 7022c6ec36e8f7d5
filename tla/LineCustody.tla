----------------------------- MODULE LineCustody -----------------------------
(***************************************************************************)
(* What reassembly promises, without threads, locks, objects or clocks.    *)
(* A line joins the open group of its key, or opens one.  Groups are       *)
(* closed, several at a time if need be, and leave one by one: shown       *)
(* downstream, or lost.  A closed group takes no more lines.               *)
(***************************************************************************)
EXTENDS Naturals, Sequences

CONSTANT Keys        \* what a line is grouped by

VARIABLES
  key,      \* the keys of the lines accepted so far, in order
  open,     \* per key: the lines of its open group, {} when it has none
  leaving,  \* the closed groups on their way out
  shown,    \* groups that arrived
  lost      \* groups given up

vars == <<key, open, leaving, shown, lost>>

Init ==
  /\ key = <<>>
  /\ open = [k \in Keys |-> {}]
  /\ leaving = {} /\ shown = {} /\ lost = {}

\* The new line may be the one that closes its group.
Accept(k) ==
  LET g == open[k] \cup {Len(key) + 1}
  IN  /\ key' = Append(key, k)
      /\ \/ open' = [open EXCEPT ![k] = g] /\ UNCHANGED leaving
         \/ open' = [open EXCEPT ![k] = {}] /\ leaving' = leaving \cup {g}
      /\ UNCHANGED <<shown, lost>>

Close(K) ==
  /\ \A k \in K : open[k] # {}
  /\ open' = [k \in Keys |-> IF k \in K THEN {} ELSE open[k]]
  /\ leaving' = leaving \cup {open[k] : k \in K}
  /\ UNCHANGED <<key, shown, lost>>

Show(g) ==
  /\ leaving' = leaving \ {g} /\ shown' = shown \cup {g}
  /\ UNCHANGED <<key, open, lost>>

Lose(g) ==
  /\ leaving' = leaving \ {g} /\ lost' = lost \cup {g}
  /\ UNCHANGED <<key, open, shown>>

Next ==
  \/ \E k \in Keys : Accept(k)
  \/ \E K \in SUBSET Keys : Close(K)
  \/ \E g \in leaving : Show(g) \/ Lose(g)

Spec == Init /\ [][Next]_vars
=============================================================================
