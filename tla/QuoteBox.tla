------------------------------ MODULE QuoteBox ------------------------------
(***************************************************************************)
(* What the hand-over of quotes to price evaluation promises, without the  *)
(* threads and flags that bring it about: a box that keeps the last price  *)
(* put in for each pair, and an evaluator that empties it in one go and    *)
(* evaluates what it took before it looks again.  Whatever is in the box   *)
(* is taken in the end.                                                    *)
(***************************************************************************)
EXTENDS Naturals

CONSTANTS
    Pairs,      \* pairs the hub knows
    MaxPrice    \* bound: prices per pair, a natural number

Prices  == 0..MaxPrice              \* a price by its number; 0 is no price
Nothing == [p \in Pairs |-> 0]

VARIABLES
    box,      \* prices nobody has taken yet
    batch     \* prices being evaluated

boxVars == <<box, batch>>

\* Every pair that new has a price for takes it, the others keep the old one.
Overlay(old, new) == [p \in Pairs |-> IF new[p] # 0 THEN new[p] ELSE old[p]]

Init == box = Nothing /\ batch = Nothing

Put == \E quotes \in [Pairs -> Prices] : /\ box' = Overlay(box, quotes)
                                         /\ batch' = batch

Take == /\ batch = Nothing /\ box # Nothing
        /\ batch' = box
        /\ box' = Nothing

Evaluate == /\ batch # Nothing
            /\ batch' = Nothing
            /\ box' = box

Next == Put \/ Take \/ Evaluate

Spec == Init /\ [][Next]_boxVars

FairSpec == Spec /\ WF_boxVars(Take) /\ WF_boxVars(Evaluate)

=============================================================================
