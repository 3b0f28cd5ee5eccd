------------------------------ MODULE RowMirror ------------------------------
(***************************************************************************)
(* What a mirror of a table promises its readers (the ClickHouse copy of   *)
(* the order ledger): a row is shown in a state it really had, it is never *)
(* shown in an earlier state again, and every state is shown, or a later   *)
(* one, some day.  States may be skipped, and the rows of a table are not  *)
(* shown as of one moment.                                                 *)
(***************************************************************************)
EXTENDS Naturals, Sequences

CONSTANTS Keys, Absent

VARIABLES
  past,   \* the states each row has had, the present one last
  seen,   \* how far the mirror has come in them
  view    \* what a reader is shown

vars == <<past, seen, view>>

Init ==
  /\ past = [k \in Keys |-> <<>>]
  /\ seen = [k \in Keys |-> 0]
  /\ view = [k \in Keys |-> Absent]

\* The row is inserted, changed or deleted: it has one state more, any.
Change(k) ==
  /\ Len(past'[k]) = Len(past[k]) + 1
  /\ past' = [past EXCEPT ![k] = Append(@, past'[k][Len(past'[k])])]
  /\ UNCHANGED <<seen, view>>

\* The mirror takes a newer state of the row.
Show(k) ==
  /\ \E n \in seen[k] + 1 .. Len(past[k]) :
       /\ seen' = [seen EXCEPT ![k] = n]
       /\ view' = [view EXCEPT ![k] = past[k][n]]
  /\ UNCHANGED past

Next == \E k \in Keys : Change(k) \/ Show(k)

Spec == Init /\ [][Next]_vars
=============================================================================
