------------------------------- MODULE MCGaps --------------------------------
(***************************************************************************)
(* A small instance of FairValueGaps for TLC.  The sizes that are numbers  *)
(* are in Gaps.cfg: minutes of two moments, bars of two minutes, the       *)
(* broker's buckets aligned with the clock's or a minute later.            *)
(***************************************************************************)
EXTENDS FairValueGaps

\* Courses with a gap up that fills, a gap down, one that fills near a quiet minute and a
\* zigzag that half bars see gaps in, each price kept for a minute,
Minutes == {<<1, 1, 2, 2, 2, 1, 2, 2, 2>>, <<2, 1, 2, 1, 1, 1, 1, 2>>, <<2, 2, 1, 1, 1, 2, 1, 0, 1>>,
            <<1, 2, 1, 1, 2, 1, 1, 2, 2>>}
Kept(t) == [n \in 1..(2 * Len(t)) |-> t[(n + 1) \div 2]]
\* and two on which who misses the first tick of a bar sees a gap that is not there.
Moments == {<<1, 1, 1, 2, 1, 1, 1, 1, 2, 1, 2, 2, 2, 2, 2, 1, 1, 1>>,
            <<2, 2, 2, 1, 2, 2, 0, 1, 2, 2, 1, 1, 1, 0, 1, 2, 1, 2>>}
Courses == {Kept(t) : t \in Minutes} \cup Moments

\* What the proofs assume of the constants.
ASSUME GapsAssumption == GapsConstants

-----------------------------------------------------------------------------
\* A reported gap is one between the broker's bars, and history is fetched in the end
\* (detectFVG, FVGWarmupCoordinator).
GapsAreServed == GapsAreReal /\ WarmedInTheEnd
==============================================================================
