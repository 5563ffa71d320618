-------------------------- MODULE SnakeChain_proofs --------------------------
(***************************************************************************)
(* Proofs about the snake chain, for any blocks, any window length and calls *)
(* that append any number of blocks.                                         *)
(***************************************************************************)
EXTENDS SnakeChain, FoldLemmas, SequenceTheorems

TypeInv == epoch \in Nat /\ chain \in Seq(Block)

IInv == TypeInv /\ ChainOK

(* What an extension leaves, spelled out: the last blocks of the line that   *)
(* the chain and the batch make, one window of them at most.                 *)
LEMMA ExtendedWindow ==
  ASSUME IInv, NEW bs \in Segments, Extend(bs)
  PROVE  LET total == chain \o bs
             drop  == IF Len(total) > W THEN Len(total) - W ELSE 0
         IN  /\ total \in Seq(Block) /\ chain' \in Seq(Block)
             /\ Len(total) \in Nat \ {0} /\ drop \in Nat /\ drop < Len(total)
             /\ Len(chain') = Len(total) - drop
             /\ Len(chain') <= W
             /\ \A i \in 1 .. Len(chain') : chain'[i] = total[i + drop]
<1> DEFINE total == chain \o bs
           drop  == IF Len(total) > W THEN Len(total) - W ELSE 0
<1>1. chain \in Seq(Block) /\ bs \in Seq(Block) /\ W \in Nat \ {0}
  BY WindowAssumption DEF IInv, TypeInv
<1>2. total \in Seq(Block) /\ Len(total) = Len(chain) + Len(bs)
  BY <1>1, ConcatProperties
<1>3. Len(chain) \in Nat \ {0} /\ Len(bs) \in Nat
  BY <1>1, EmptySeq, LenProperties DEF Extend
<1>4. Len(total) \in Nat \ {0}
  BY <1>2, <1>3
<1>5. chain' = SubSeq(total, drop + 1, Len(total))
  BY DEF Extend
<1> HIDE DEF total
<1>6. drop \in Nat /\ drop < Len(total) /\ Len(total) - drop <= W
  BY <1>1, <1>4
<1> HIDE DEF drop
<1>7. \A i \in drop + 1 .. Len(total) : total[i] \in Block
  BY <1>2, <1>6, ElementOfSeq
<1>8. /\ chain' \in Seq(Block)
      /\ Len(chain') = IF drop + 1 <= Len(total) THEN Len(total) - (drop + 1) + 1 ELSE 0
      /\ \A i \in 1 .. Len(total) - (drop + 1) + 1 : chain'[i] = total[drop + 1 + i - 1]
  <2>1. drop + 1 \in Int /\ Len(total) \in Int
    BY <1>4, <1>6
  <2>2. QED
    BY <1>5, <1>7, <2>1, SubSeqProperties
<1>9. Len(chain') = Len(total) - drop
  BY <1>4, <1>6, <1>8
<1>10. \A i \in 1 .. Len(chain') : chain'[i] = total[i + drop]
  BY <1>4, <1>6, <1>8, <1>9
<1>11. QED
  BY <1>2, <1>4, <1>6, <1>8, <1>9, <1>10 DEF total, drop

(* An extension leaves a window.                                             *)
LEMMA ExtendWindow ==
  ASSUME IInv, NEW bs \in Segments, Extend(bs)
  PROVE  Window(chain')
<1> DEFINE total == chain \o bs
           drop  == IF Len(total) > W THEN Len(total) - W ELSE 0
<1>1. /\ chain' \in Seq(Block)
      /\ Len(total) \in Nat \ {0} /\ drop \in Nat /\ drop < Len(total)
      /\ Len(chain') = Len(total) - drop /\ Len(chain') <= W
      /\ \A i \in 1 .. Len(chain') : chain'[i] = total[i + drop]
  BY ExtendedWindow
<1>2. Linked(total)
  BY DEF Extend
<1> HIDE DEF total, drop
<1>3. Linked(chain')
  <2> SUFFICES ASSUME NEW i \in 1 .. Len(chain') - 1 PROVE PrevHash[chain'[i + 1]] = chain'[i]
    BY DEF Linked
  <2>1. i \in 1 .. Len(chain') /\ i + 1 \in 1 .. Len(chain') /\ i + drop \in 1 .. Len(total) - 1
    BY <1>1
  <2>2. chain'[i] = total[i + drop] /\ chain'[i + 1] = total[i + 1 + drop]
    BY <1>1, <2>1
  <2>3. PrevHash[total[i + drop + 1]] = total[i + drop]
    BY <1>2, <2>1 DEF Linked
  <2>4. i + 1 + drop = i + drop + 1
    BY <1>1
  <2>5. QED
    BY <2>2, <2>3, <2>4
<1>4. Len(chain') \in 1 .. W
  BY <1>1, WindowAssumption
<1>5. QED
  BY <1>1, <1>3, <1>4 DEF Window

LEMMA InitInvariant == Init => IInv
BY EmptySeq DEF Init, IInv, TypeInv, ChainOK

LEMMA StepInvariant == IInv /\ [Next]_chainVars => IInv'
<1> SUFFICES ASSUME IInv, [Next]_chainVars PROVE IInv'
  OBVIOUS
<1>1. CASE Adopt
  BY <1>1 DEF Adopt, IInv, TypeInv, ChainOK, Window
<1>2. ASSUME NEW bs \in Segments, Extend(bs) PROVE IInv'
  <2>1. Window(chain')
    BY <1>2, ExtendWindow
  <2>2. QED
    BY <1>2, <2>1 DEF Extend, IInv, TypeInv, ChainOK, Window
<1>3. CASE Restart
  <2>1. <<>> \in Seq(Block)
    BY EmptySeq
  <2>2. chain' = <<>> \/ Window(chain')
    BY <1>3 DEF Restart
  <2>3. chain' \in Seq(Block)
    BY <2>1, <2>2 DEF Window
  <2>4. QED
    BY <1>3, <2>2, <2>3 DEF Restart, IInv, TypeInv, ChainOK
<1>4. CASE UNCHANGED chainVars
  BY <1>4 DEF chainVars, IInv, TypeInv, ChainOK
<1>5. QED
  BY <1>1, <1>2, <1>3, <1>4 DEF Next

LEMMA Invariance == Spec => []IInv
<1>1. QED
  BY InitInvariant, StepInvariant, PTL DEF Spec

(* The active chain is always a linked window of at most W blocks.           *)
THEOREM ChainIsWindow == Spec => []ChainOK
<1>1. IInv => ChainOK
  BY DEF IInv
<1>2. QED
  BY <1>1, Invariance, PTL

(* An extension keeps a configuration block in the window.  Take the last    *)
(* one of the line the chain and the batch make.  If it were dropped, the    *)
(* block W above it, which is on the line too, would be a later one.         *)
LEMMA ExtendCarries ==
  ASSUME IInv, NEW bs \in Segments, Extend(bs), Carries(chain)
  PROVE  Carries(chain')
<1> DEFINE total == chain \o bs
           drop  == IF Len(total) > W THEN Len(total) - W ELSE 0
           C     == {i \in 1 .. Len(total) : Kind[total[i]] = "ChainConfig"}
<1>1. /\ Len(total) \in Nat /\ drop \in Nat
      /\ Len(chain') = Len(total) - drop
      /\ \A i \in 1 .. Len(chain') : chain'[i] = total[i + drop]
  BY ExtendedWindow
<1>2. \A j \in 1 .. drop : Restates(total[j + W], total[j])
  BY DEF Extend
<1>3. C # {}
  <2>1. chain \in Seq(Block) /\ bs \in Seq(Block)
    BY WindowAssumption DEF IInv, TypeInv
  <2>2. PICK i \in 1 .. Len(chain) : Kind[chain[i]] = "ChainConfig"
    BY DEF Carries
  <2>3. Len(chain) \in Nat /\ Len(bs) \in Nat /\ Len(total) = Len(chain) + Len(bs)
    BY <2>1, LenProperties, ConcatProperties
  <2>4. i \in 1 .. Len(chain) + Len(bs)
    BY <2>3
  <2>5. total[i] = chain[i]
    BY <2>1, <2>4, ConcatProperties
  <2>6. QED
    BY <2>2, <2>3, <2>4, <2>5
<1>4. W \in Nat \ {0} /\ (drop > 0 => drop = Len(total) - W)
  BY <1>1, WindowAssumption
<1> HIDE DEF total, drop
<1>5. PICK m \in C : \A k \in C : k <= m
  <2>1. C \subseteq 1 .. Len(total)
    OBVIOUS
  <2> HIDE DEF C
  <2>2. QED
    BY <1>1, <1>3, <2>1, GreatestUpTo
<1>6. m \in 1 .. Len(total) /\ Kind[total[m]] = "ChainConfig"
  BY <1>5
<1>7. m > drop
  <2> SUFFICES ASSUME m <= drop PROVE FALSE
    BY <1>1, <1>6
  <2>1. m \in 1 .. drop /\ m + W \in 1 .. Len(total) /\ m + W > m
    BY <1>1, <1>4, <1>6
  <2>2. Kind[total[m + W]] = "ChainConfig"
    BY <1>2, <1>6, <2>1 DEF Restates, Owed
  <2>3. m + W <= m
    BY <1>5, <2>1, <2>2
  <2>4. QED
    BY <2>1, <2>3
<1>8. m - drop \in 1 .. Len(chain') /\ (m - drop) + drop = m
  BY <1>1, <1>6, <1>7
<1>9. chain'[m - drop] = total[m]
  BY <1>1, <1>8
<1>10. QED
  BY <1>6, <1>8, <1>9 DEF Carries

(* Short of a restart, a window that holds a configuration block goes on     *)
(* holding one.                                                              *)
THEOREM ConfigurationStays == Spec => ConfigStays
<1>1. IInv /\ [Next]_chainVars
        => [epoch' = epoch /\ Carries(chain) => Carries(chain')]_chainVars
  <2> SUFFICES ASSUME IInv, Next, epoch' = epoch, Carries(chain)
               PROVE  Carries(chain')
    OBVIOUS
  <2>1. CASE Adopt
    <3>1. Len(chain) = 0
      BY <2>1, EmptySeq DEF Adopt
    <3>2. QED
      BY <3>1 DEF Carries
  <2>2. ASSUME NEW bs \in Segments, Extend(bs) PROVE Carries(chain')
    BY <2>2, ExtendCarries
  <2>3. CASE Restart
    BY <2>3 DEF Restart, IInv, TypeInv
  <2>4. QED
    BY <2>1, <2>2, <2>3 DEF Next
<1>2. QED
  BY <1>1, Invariance, PTL DEF Spec, ConfigStays
=============================================================================
