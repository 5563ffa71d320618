---------------------------- MODULE SnakeChainMC ----------------------------
(* A universe of blocks for the run of SnakeChain: the line 1 .. 8 and, off  *)
(* block 3, the line 9 10.                                                   *)
EXTENDS SnakeChain, SequencesExt

LinePrev == <<0, 1, 2, 3, 4, 5, 6, 7, 3, 9>>
LineKind == [b \in 1 .. 10 |-> IF b \in {2, 5, 8} THEN "ChainConfig"
                               ELSE IF b \in {4, 7, 9} THEN "Balance" ELSE "Plain"]
LineDuty == [b \in 1 .. 10 |-> IF b = 1 THEN "SeedSource" ELSE "None"]

Up(s) == {b \in Block : s = <<>> \/ LinePrev[b] = Last(s)}

\* Linked sequences of at most five blocks: longer than the window.
Grown(S) == S \union UNION {{Append(s, b) : b \in Up(s)} : s \in S}
LineSegments == Grown(Grown(Grown(Grown(Grown({<<>>}))))) \ {<<>>}

CONSTANT MaxEpoch   \* bound on restarts

BoundedNext ==
  \/ Adopt
  \/ \E bs \in Segments : Extend(bs)
  \/ epoch < MaxEpoch /\ Restart

BoundedSpec == Init /\ [][BoundedNext]_chainVars
=============================================================================
