----------------------------- MODULE AtLeastOnce -----------------------------
(***************************************************************************)
(* What a change-data-capture job promises about its checkpoint.           *)
(*                                                                         *)
(* A log grows at its head.  Events are handled in any order and any       *)
(* number at a time.  The mark moves forward only, and only over events    *)
(* that are handled; a restart takes it back and chooses a new first       *)
(* event.                                                                  *)
(***************************************************************************)
EXTENDS Naturals

VARIABLES
    head,      \* the last event of the log
    first,     \* the first event of this start
    handled,   \* events handled so far
    mark       \* the checkpoint, 0 for none

vars == <<head, first, handled, mark>>

Init == head = 0 /\ first = 1 /\ handled = {} /\ mark = 0

Produce == head' = head + 1 /\ UNCHANGED <<first, handled, mark>>

Handle ==
    /\ handled \subseteq handled'
    /\ \A e \in handled' \ handled : e \in 1..head
    /\ UNCHANGED <<head, first, mark>>

Confirm ==
    /\ mark' > mark
    /\ \A e \in first..mark' : e \in handled
    /\ UNCHANGED <<head, first, handled>>

Restart == first' \in 1..(head + 1) /\ mark' = 0 /\ UNCHANGED <<head, handled>>

Next == Produce \/ Handle \/ Confirm \/ Restart

Spec == Init /\ [][Next]_vars

=============================================================================
