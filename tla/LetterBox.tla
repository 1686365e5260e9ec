------------------------------ MODULE LetterBox ------------------------------
(***************************************************************************)
(* What a dead letter queue promises about the letters it has on disk.     *)
(*                                                                         *)
(* Letters are numbered as they are accepted, and one that waits keeps     *)
(* others with its key out.  Each is tried a bounded number of times, ends *)
(* resolved or exhausted, and keeps its event until it is removed, which   *)
(* only a resolved or withdrawn letter is.  What is tried of a withdrawn   *)
(* letter has no outcome.  A restart is no step at all.                    *)
(***************************************************************************)
EXTENDS Naturals

CONSTANTS
    Events,     \* what letters hold
    Key(_),     \* what tells two events apart
    MaxTries    \* tries of a letter

VARIABLES
    box,        \* letters by number: event, tries and outcome
    accepted,   \* letters accepted so far
    withdrawn   \* letters withdrawn so far

vars == <<box, accepted, withdrawn>>

Init == box = << >> /\ accepted = 0 /\ withdrawn = {}

Waits(i) == i \notin withdrawn /\ box[i].outcome = "none"

Accept(e) ==
    /\ \A i \in DOMAIN box : Waits(i) => Key(box[i].ev) # Key(e)
    /\ accepted' = accepted + 1
    /\ box' = [i \in DOMAIN box \cup {accepted + 1} |->
                  IF i = accepted + 1 THEN [ev |-> e, tries |-> 0, outcome |-> "none"] ELSE box[i]]
    /\ UNCHANGED withdrawn

\* The letter after a try that came to o.
Tried(i, o) ==
    [ev |-> box[i].ev, tries |-> box[i].tries + 1, outcome |-> IF i \in withdrawn THEN "none" ELSE o]

Try(i) ==
    /\ box[i].outcome = "none" /\ box[i].tries < MaxTries
    /\ \E o \in {"resolved", IF box[i].tries + 1 = MaxTries THEN "exhausted" ELSE "none"} :
          box' = [box EXCEPT ![i] = Tried(i, o)]
    /\ UNCHANGED <<accepted, withdrawn>>

Withdraw(i) ==
    /\ withdrawn' = withdrawn \cup {i}
    /\ box' = [box EXCEPT ![i] = [ev |-> box[i].ev, tries |-> box[i].tries, outcome |-> "none"]]
    /\ UNCHANGED accepted

Remove(letters) ==
    /\ \A i \in letters : i \in withdrawn \/ box[i].outcome = "resolved"
    /\ box' = [i \in DOMAIN box \ letters |-> box[i]]
    /\ UNCHANGED <<accepted, withdrawn>>

Next ==
    \/ \E e \in Events : Accept(e)
    \/ \E i \in DOMAIN box : Try(i) \/ Withdraw(i)
    \/ \E letters \in SUBSET DOMAIN box : Remove(letters)

Spec == Init /\ [][Next]_vars
=============================================================================
