------------------------------- MODULE NodeMC -------------------------------
(* Universes of blocks for the runs of NodeProperties and Sync.  A block is its hash; *)
(* the n-th element of a tuple is the value for block n.                     *)
EXTENDS Sync

\* The founding blocks 1 and 2 and, above them, the chain 3 5 7, the branch
\* 4 6 forking at 2 and the branch 8 9 forking at 5.  Block 5 restates what
\* block 1 owes and block 6 does not; sequence 4 restates the configuration.
ForkSeq   == <<0, 1, 2, 2, 3, 3, 4, 4, 5>>
ForkPrev  == <<0, 1, 2, 2, 3, 4, 5, 5, 8>>
ForkKind  == <<"Plain", "ChainConfig", "Plain", "Plain", "Balance", "Plain",
               "ChainConfig", "ChainConfig", "Plain">>
ForkDuty  == [b \in 1 .. 9 |-> IF b = 1 THEN "SeedSource" ELSE "None"]
ForkVotes == <<0, 0, 1, 2, 1, 2, 3, 2, 2>>
ForkSize  == [b \in 1 .. 9 |-> 1]
ForkFounding == <<1, 2>>
\* A long chain 1 .. 7 under a window of three, with the branches 8 9 at block
\* 3 and 10 at block 5; blocks 2 and 5 carry the configuration and
\* block 9, at the place of 5, does not.
LongSeq   == <<0, 1, 2, 3, 4, 5, 6, 3, 4, 5>>
LongPrev  == <<0, 1, 2, 3, 4, 5, 6, 3, 8, 5>>
LongKind  == [b \in 1 .. 10 |-> IF b \in {2, 5} THEN "ChainConfig" ELSE "Plain"]
LongDuty  == [b \in 1 .. 10 |-> "None"]
LongVotes == <<0, 0, 1, 1, 0, 2, 1, 1, 2, 2>>
LongSize  == <<1, 1, 1, 1, 1, 1, 1, 2, 1, 2>>

None == <<>>

\* One configuration, whose limit every block fits.
ForkContent == [b \in 1 .. 9 |-> IF ForkKind[b] = "ChainConfig" THEN 1 ELSE 0]
LongContent == [b \in 1 .. 10 |-> IF LongKind[b] = "ChainConfig" THEN 1 ELSE 0]
OneLimit    == <<9>>
TwoLimits   == <<9, 9>>

\* A chain to acquire from gossip: genesis 1 and, above it, the configuration
\* blocks 2 and 3, which disagree; 4 6 7 above the first, 5 above the second.  A
\* segment of three blocks that holds a configuration is a candidate even without
\* the genesis.  In the mixed universe block 5 has the first configuration;
\* in the last, all have.
JoinSeq   == <<0, 1, 1, 2, 2, 3, 4>>
JoinPrev  == <<0, 1, 1, 2, 3, 4, 6>>
JoinKind  == <<"Plain", "ChainConfig", "ChainConfig", "Plain", "ChainConfig", "ChainConfig", "Plain">>
JoinDuty  == [b \in 1 .. 7 |-> "None"]
JoinVotes == <<0, 0, 2, 1, 1, 1, 1>>
JoinSize  == <<1, 1, 1, 1, 1, 1, 1>>
JoinContent == <<0, 1, 2, 0, 2, 1, 0>>
MixedContent == <<0, 1, 2, 0, 1, 1, 0>>
SameContent  == <<0, 1, 1, 0, 1, 1, 0>>

\* The founding blocks 1 and 2 with block 3 above them, too large for their
\* configuration, and off block 1 the configuration block 4 of a rival with
\* block 5 above it.  The window is two blocks.
RivalSeq   == <<0, 1, 2, 1, 2>>
RivalPrev  == <<0, 1, 2, 1, 4>>
RivalKind  == <<"Plain", "ChainConfig", "Plain", "ChainConfig", "Plain">>
RivalDuty  == [b \in 1 .. 5 |-> "None"]
RivalVotes == <<0, 0, 1, 2, 1>>
RivalSize  == <<1, 1, 2, 1, 2>>
RivalContent == <<0, 1, 0, 2, 0>>
RivalLimit == <<1, 2>>

\* Above the founding blocks 1 and 2 the chain 3 4 7 8 9, and off block 4 the
\* branch 5 6, whose block 5 lies between two fragments if it comes late.
StaleSeq   == <<0, 1, 2, 3, 4, 5, 4, 5, 6>>
StalePrev  == <<0, 1, 2, 3, 4, 5, 4, 7, 8>>
StaleKind  == [b \in 1 .. 9 |-> IF b \in {2, 9} THEN "ChainConfig" ELSE "Plain"]
StaleDuty  == [b \in 1 .. 9 |-> "None"]
StaleVotes == <<0, 0, 1, 1, 1, 1, 2, 1, 1>>
StaleSize  == [b \in 1 .. 9 |-> 1]
StaleContent == [b \in 1 .. 9 |-> IF StaleKind[b] = "ChainConfig" THEN 1 ELSE 0]

\* Orderly arrivals, on a node that may also found its chain.
StartSpec == Init /\ [][Found \/ OrderlyNext]_vars

\* The same from a node that first founds its chain.
FoundedNext ==
  \/ node.active = NoRef /\ restarts = 0 /\ ProcessGenesis(3)
  \/ node.active # NoRef /\ OrderlyNext

FoundedSpec == Init /\ [][FoundedNext]_vars

\* A node that has founded its chain, under arrivals in any order.
ServingNext ==
  \/ node.active = NoRef /\ restarts = 0 /\ ProcessGenesis(3)
  \/ Ready /\ (Receive \/ Restart)

ServingSpec == Init /\ [][ServingNext]_vars
=============================================================================
