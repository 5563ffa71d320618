--------------------------- MODULE Recovery_proofs ---------------------------
(***************************************************************************)
(* Proofs about the parent-recovery scheduler, for any tip table, any        *)
(* configured intervals and any clock; and, under a bridge that keeps to     *)
(* NextCall, about how long a head can wait.                                 *)
(***************************************************************************)
EXTENDS RecoveryBridge, TLAPS, WellFoundedInduction, FiniteSetTheorems

(* A set of instants that is not empty has an earliest one, which the code's *)
(* running minimum over the entries computes.                                *)
LEMMA LeastOfTime ==
  ASSUME NEW S, S \subseteq Nat, S # {}
  PROVE  Least(S) \in S /\ \A n \in S : Least(S) <= n
<1> DEFINE R == OpToRel(<, Nat)
<1>1. \E m \in S : \A n \in S : <<n, m>> \notin R
  <2> HIDE DEF R
  <2>1. IsWellFoundedOn(R, Nat)
    BY NatLessThanWellFounded DEF R
  <2>2. QED
    BY <2>1, WFMin
<1>2. PICK m \in S : \A n \in S : <<n, m>> \notin R
  BY <1>1
<1>3. ASSUME NEW n \in S PROVE m <= n
  <2>1. n \in Nat /\ m \in Nat
    OBVIOUS
  <2>2. n < m => <<n, m>> \in R
    BY <2>1 DEF OpToRel
  <2> HIDE DEF R
  <2>3. ~(n < m)
    BY <1>2, <2>2
  <2>4. QED
    BY <2>1, <2>3
<1>4. QED
  BY <1>3 DEF Least

LEMMA TimeType == Time \subseteq Nat /\ 0 \in Time
BY RecoveryAssumption DEF Time

LEMMA CadenceType ==
  ASSUME NEW c \in Cadences
  PROVE  c.minEmit \in Nat /\ c.retry \in Nat
BY RecoveryAssumption

(* The saturating addition of two timestamps is a timestamp. *)
LEMMA SatAddTime ==
  ASSUME NEW a \in Nat, NEW b \in Nat
  PROVE  SatAdd(a, b) \in Time
BY RecoveryAssumption DEF SatAdd, Time

LEMMA EligibleTime ==
  ASSUME NEW hs \in [Branch -> Entry], NEW k \in Stored(hs), NEW c \in Cadences
  PROVE  EligibleAt(hs[k], c) \in Time
<1>1. hs[k].lrt \in Nat /\ c.retry \in Nat
  BY CadenceType DEF Stored, Entry, Time
<1>2. 0 \in Time
  BY TimeType
<1>3. QED
  BY <1>1, <1>2, SatAddTime DEF EligibleAt

LEMMA EvolutionsType ==
  ASSUME NEW h \in Entry, NEW g \in Evolutions(h)
  PROVE  g \in Entry /\ (g.lrt = 0 \/ (h.waiting /\ g.waiting /\ g.lrt = h.lrt))
                     /\ (~g.waiting => g.lrt = 0)
<1>1. 0 \in Time
  BY TimeType
<1>2. CASE g = Resting
  BY <1>1, <1>2 DEF Entry, Resting
<1>3. CASE g # Resting
  <2> DEFINE L == {0} \union (IF h.waiting THEN {h.lrt} ELSE {})
  <2>1. g \in [waiting : {TRUE}, lrt : L, rank : Rank]
    BY <1>3 DEF Evolutions
  <2>2. h.lrt \in Time /\ L \subseteq Time
    BY <1>1 DEF Entry
  <2>3. QED
    BY <2>1, <2>2 DEF Entry
<1>4. QED
  BY <1>2, <1>3

(* The tables a call may leave are tables. *)
LEMMA NextTablesType ==
  ASSUME TypeOK, NEW hs \in NextTables
  PROVE  hs \in [Branch -> Entry]
<1>1. SUFFICES ASSUME NEW k \in Branch PROVE hs[k] \in Entry
  BY DEF NextTables
<1>2. hs[k] \in Evolutions(heads[k]) /\ heads[k] \in Entry
  BY DEF NextTables, TypeOK
<1>3. 0 \in Time
  BY TimeType
<1>4. QED
  BY <1>2, <1>3, EvolutionsType

LEMMA NewTablesType ==
  ASSUME NEW hs \in NewTables
  PROVE  hs \in [Branch -> Entry] /\ \A k \in Branch : hs[k].lrt = 0
<1>1. SUFFICES ASSUME NEW k \in Branch PROVE hs[k] \in Entry /\ hs[k].lrt = 0
  BY DEF NewTables
<1>2. hs[k] \in Evolutions(Resting)
  BY DEF NewTables
<1>3. 0 \in Time
  BY TimeType
<1>4. Resting \in Entry /\ ~Resting.waiting
  BY <1>3 DEF Entry, Resting
<1>5. QED
  BY <1>2, <1>4, EvolutionsType

(* What NextCall answers is an instant or Idle, and it is at most t exactly  *)
(* when an entry is eligible and the cooldown over at t.                     *)
LEMMA NextCallType ==
  ASSUME NEW hs \in [Branch -> Entry], NEW emit \in Time, NEW c \in Configurations
  PROVE  NextCall(hs, emit, c) \in Time \union {Idle}
<1> DEFINE E == {EligibleAt(hs[k], c) : k \in Stored(hs)}
<1>1. CASE c = Unconfigured \/ Stored(hs) = {}
  BY <1>1 DEF NextCall
<1>2. CASE c # Unconfigured /\ Stored(hs) # {}
  <2>1. c \in Cadences
    BY <1>2 DEF Configurations
  <2>2. E \subseteq Time /\ E # {}
    BY <1>2, <2>1, EligibleTime
  <2>3. Least(E) \in Time
    BY <2>2, LeastOfTime, TimeType
  <2>4. SatAdd(emit, c.minEmit) \in Time
    BY <2>1, CadenceType, SatAddTime, TimeType
  <2>5. QED
    BY <1>2, <2>3, <2>4 DEF NextCall, Later
<1>3. QED
  BY <1>1, <1>2

LEMMA NextCallExact ==
  ASSUME NEW hs \in [Branch -> Entry], NEW emit \in Time, NEW c \in Cadences, NEW t \in Time,
         c # Unconfigured, Stored(hs) # {}
  PROVE  /\ NextCall(hs, emit, c) # Idle
         /\ NextCall(hs, emit, c) <= t
              <=> /\ SatAdd(emit, c.minEmit) <= t
                  /\ \E k \in Stored(hs) : EligibleAt(hs[k], c) <= t
<1> DEFINE E == {EligibleAt(hs[k], c) : k \in Stored(hs)}
           u == SatAdd(emit, c.minEmit)
<1>1. E \subseteq Time /\ E # {}
  BY EligibleTime
<1>2. Least(E) \in E /\ \A n \in E : Least(E) <= n
  <2> HIDE DEF E
  <2>1. QED
    BY <1>1, LeastOfTime, TimeType
<1>3. u \in Time
  BY CadenceType, SatAddTime, TimeType
<1>4. NextCall(hs, emit, c) = Later(Least(E), u)
  BY DEF NextCall
<1>5. Least(E) <= t <=> \E k \in Stored(hs) : EligibleAt(hs[k], c) <= t
  <2> HIDE DEF E
  <2>1. ASSUME NEW n \in E, n <= t PROVE Least(E) <= t
    <3> DEFINE m == Least(E)
    <3>1. m \in Nat /\ n \in Nat /\ t \in Nat /\ m <= n
      BY <1>1, <1>2, TimeType
    <3> HIDE DEF m
    <3>2. m <= t
      BY <2>1, <3>1
    <3>3. QED
      BY <3>2 DEF m
  <2>2. QED
    BY <1>2, <2>1 DEF E
<1> HIDE DEF E, u
<1> DEFINE m == Least(E)
<1>6. m \in Nat /\ u \in Nat /\ t \in Nat
  <2> HIDE DEF E, u
  <2>1. QED
    BY <1>1, <1>2, <1>3, TimeType
<1> HIDE DEF m
<1>7. Later(m, u) <= t <=> m <= t /\ u <= t
  BY <1>6 DEF Later
<1>8. Later(m, u) # Idle
  BY <1>6 DEF Later, Idle
<1>9. QED
  BY <1>4, <1>5, <1>7, <1>8 DEF u, m

-----------------------------------------------------------------------------
(* The invariant.  WakeCurrent says how far the wake-up can be trusted: it   *)
(* is Idle, or it was computed last in its call, from the state that call    *)
(* left and no other has changed since.                                      *)

WakeCurrent == wake \in {Idle, NextCall(heads, lastEmit, cadence)}

IInv == TypeOK /\ Recorded /\ WakeCurrent

LEMMA InitInvariant == Init => IInv
<1> SUFFICES ASSUME Init PROVE IInv
  OBVIOUS
<1>1. Resting \in Entry /\ Resting.lrt = 0 /\ ~Resting.waiting
  BY TimeType DEF Entry, Resting
<1>2. TypeOK
  BY <1>1, TimeType DEF Init, TypeOK, Configurations, Idle
<1>3. Recorded
  BY <1>1 DEF Init, Recorded
<1>4. WakeCurrent
  BY DEF Init, WakeCurrent, NextCall
<1>5. QED
  BY <1>2, <1>3, <1>4 DEF IInv

(* A call that leaves a well-typed table, timestamps that were recorded and  *)
(* a wake-up computed from them preserves the invariant.                     *)
LEMMA CallInvariant ==
  ASSUME heads' \in [Branch -> Entry], lastEmit' \in Time, now' \in Time,
         cadence' \in Configurations, Recorded', WakeCurrent'
  PROVE  IInv'
<1>1. wake' \in Time \union {Idle}
  BY NextCallType DEF WakeCurrent
<1>2. QED
  BY <1>1 DEF IInv, TypeOK

LEMMA StepInvariant == IInv /\ [Next]_vars => IInv'
<1> SUFFICES ASSUME IInv, [Next]_vars PROVE IInv'
  OBVIOUS
<1> USE DEF IInv
<1>1. ASSUME NEW k \in Branch, Emit(k) PROVE IInv'
  <2>1. heads[k] \in Entry /\ heads[k].waiting /\ heads' = [heads EXCEPT ![k].lrt = now]
    BY <1>1 DEF TypeOK, Emit, Eligible, Stored
  <2>2. heads' \in [Branch -> Entry]
    BY <2>1 DEF TypeOK, Entry
  <2>3. ASSUME NEW j \in Branch
        PROVE  heads'[j].lrt <= now /\ (~heads'[j].waiting => heads'[j].lrt = 0)
    <3>1. CASE j = k
      <4>1. heads'[j].lrt = now /\ heads'[j].waiting
        BY <2>1, <3>1 DEF TypeOK, Entry
      <4>2. now \in Nat
        BY TimeType DEF TypeOK
      <4>3. now <= now
        BY <4>2
      <4>4. QED
        BY <4>1, <4>3
    <3>2. CASE j # k
      <4>1. heads'[j] = heads[j] /\ heads[j] \in Entry
        BY <2>1, <3>2 DEF TypeOK
      <4>2. heads[j].lrt \in Nat /\ lastEmit \in Nat /\ now \in Nat
        BY <4>1, TimeType DEF TypeOK, Entry
      <4>3. QED
        BY <4>1, <4>2 DEF Recorded
    <3>3. QED
      BY <3>1, <3>2
  <2>4. Recorded'
    BY <1>1, <2>3, TimeType DEF Recorded, Emit, TypeOK
  <2>5. WakeCurrent'
    BY <1>1 DEF WakeCurrent, Emit
  <2>6. lastEmit' \in Time /\ now' \in Time /\ cadence' \in Configurations
    BY <1>1 DEF Emit, TypeOK
  <2>7. QED
    BY <2>2, <2>4, <2>5, <2>6, CallInvariant
<1>2. CASE QuietTick
  <2>1. Recorded' /\ WakeCurrent'
    BY <1>2 DEF QuietTick, WakeCurrent, Recorded
  <2>2. QED
    BY <1>2, <2>1, CallInvariant DEF QuietTick, TypeOK
<1>3. ASSUME NEW hs \in NextTables, NEW c \in Configurations, ReceiveBlock(hs, c)
      PROVE  IInv'
  <2>1. hs \in [Branch -> Entry]
    BY NextTablesType
  <2>2. ASSUME NEW k \in Branch
        PROVE  hs[k].lrt <= lastEmit /\ (~hs[k].waiting => hs[k].lrt = 0)
    <3>1. heads[k] \in Entry /\ hs[k] \in Evolutions(heads[k])
      BY DEF TypeOK, NextTables
    <3>2. /\ hs[k].lrt = 0 \/ hs[k].lrt = heads[k].lrt
          /\ ~hs[k].waiting => hs[k].lrt = 0
      BY <3>1, EvolutionsType
    <3>3. heads[k].lrt <= lastEmit /\ lastEmit \in Nat
      BY TimeType DEF Recorded, TypeOK
    <3>4. QED
      BY <3>2, <3>3
  <2>3. Recorded'
    BY <1>3, <2>2 DEF ReceiveBlock, Recorded
  <2>4. WakeCurrent'
    BY <1>3 DEF ReceiveBlock, WakeCurrent
  <2>5. QED
    BY <1>3, <2>1, <2>3, <2>4, CallInvariant DEF ReceiveBlock, TypeOK
<1>4. ASSUME NEW hs \in NewTables, NEW c \in Configurations, NEW t \in Time, Restart(hs, c, t)
      PROVE  IInv'
  <2>1. hs \in [Branch -> Entry] /\ \A k \in Branch : hs[k].lrt = 0
    BY NewTablesType
  <2>2. Recorded'
    BY <1>4, <2>1, TimeType DEF Restart, Recorded
  <2>3. WakeCurrent'
    BY <1>4 DEF Restart, WakeCurrent
  <2>4. QED
    BY <1>4, <2>1, <2>2, <2>3, TimeType, CallInvariant DEF Restart
<1>5. ASSUME NEW t \in Time, Pass(t) PROVE IInv'
  <2>1. Recorded'
    BY <1>5, TimeType DEF Pass, Recorded, TypeOK
  <2>2. QED
    BY <1>5, <2>1 DEF Pass, TypeOK, WakeCurrent
<1>6. CASE Refuse
  BY <1>6 DEF Refuse, TypeOK, Recorded, WakeCurrent
<1>7. CASE UNCHANGED vars
  BY <1>7 DEF vars, TypeOK, Recorded, WakeCurrent
<1>8. QED
  BY <1>1, <1>2, <1>3, <1>4, <1>5, <1>6, <1>7 DEF Next

THEOREM Invariance == Spec => []IInv
<1>1. QED
  BY InitInvariant, StepInvariant, PTL DEF Spec

(* The scheduler's state keeps its shape, whatever the calls do.             *)
THEOREM TypeCorrect == Spec => []TypeOK
<1>1. IInv => TypeOK
  BY DEF IInv
<1>2. QED
  BY <1>1, Invariance, PTL

(* No entry's timestamp runs ahead of the request that was made for it.      *)
THEOREM TimestampsRecorded == Spec => []Recorded
<1>1. IInv => Recorded
  BY DEF IInv
<1>2. QED
  BY <1>1, Invariance, PTL

(* NextCall, of the state a call leaves, is an exact wake-up.                *)
LEMMA NextCallTells ==
  ASSUME NEW hs \in [Branch -> Entry], NEW emit \in Time, NEW c \in Configurations, NEW t \in Time
  PROVE  LET w == NextCall(hs, emit, c)
         IN  (/\ c # Unconfigured /\ SatAdd(emit, c.minEmit) <= t
              /\ {k \in Stored(hs) : EligibleAt(hs[k], c) <= t} # {})
               <=> w # Idle /\ w <= t
<1>1. CASE c = Unconfigured \/ Stored(hs) = {}
  BY <1>1 DEF NextCall
<1>2. CASE c # Unconfigured /\ Stored(hs) # {}
  <2>1. c \in Cadences
    BY <1>2 DEF Configurations
  <2>2. QED
    BY <1>2, <2>1, NextCallExact
<1>3. QED
  BY <1>1, <1>2

(* A wake-up so computed is exact; stated for the state after a step.        *)
LEMMA CurrentIsExact ==
  ASSUME TypeOK', wake' = NextCall(heads', lastEmit', cadence')
  PROVE  WakeExact'
<1>1. SUFFICES ASSUME NEW t \in Time PROVE EmitsAt(t)' <=> wake' # Idle /\ wake' <= t
  BY DEF WakeExact
<1>2. heads' \in [Branch -> Entry] /\ lastEmit' \in Time /\ cadence' \in Configurations
  BY DEF TypeOK
<1>3. EmitsAt(t)' <=> /\ cadence' # Unconfigured /\ SatAdd(lastEmit', cadence'.minEmit) <= t
                     /\ {k \in Stored(heads') : EligibleAt(heads'[k], cadence') <= t} # {}
  BY DEF EmitsAt, CooledDown, Eligible
<1>4. QED
  BY <1>2, <1>3, NextCallTells

(* Every call but a refused one leaves an exact wake-up, also where a refused *)
(* one had taken it: a tick then asks for a parent if and only if it comes   *)
(* at or after that instant; and no time that passes makes it inexact.       *)
THEOREM WakeUpExact == Spec => OnlyRefusalsForget
<1>1. ASSUME TypeOK, TypeOK', Next
      PROVE  WakeExact' \/ Refuse \/ (~WakeExact /\ \E t \in Time : Pass(t))
  <2>1. ASSUME wake' = NextCall(heads', lastEmit', cadence') PROVE WakeExact'
    BY <1>1, <2>1, CurrentIsExact
  <2>2. ASSUME NEW k \in Branch, Emit(k) PROVE WakeExact'
    BY <2>1, <2>2 DEF Emit
  <2>3. CASE QuietTick
    BY <2>1, <2>3 DEF QuietTick
  <2>4. ASSUME NEW hs \in NextTables, NEW c \in Configurations, ReceiveBlock(hs, c)
        PROVE  WakeExact'
    BY <2>1, <2>4 DEF ReceiveBlock
  <2>5. ASSUME NEW hs \in NewTables, NEW c \in Configurations, NEW t \in Time, Restart(hs, c, t)
        PROVE  WakeExact'
    BY <2>1, <2>5 DEF Restart
  <2>6. ASSUME NEW t \in Time, Pass(t), WakeExact PROVE WakeExact'
    BY <2>6 DEF Pass, WakeExact, EmitsAt, CooledDown, Eligible
  <2>7. QED
    BY <1>1, <2>2, <2>3, <2>4, <2>5, <2>6 DEF Next
<1>2. TypeOK /\ TypeOK' /\ [Next]_vars
        => [WakeExact' \/ Refuse \/ (~WakeExact /\ \E t \in Time : Pass(t))]_vars
  BY <1>1
<1>3. QED
  BY <1>2, TypeCorrect, PTL DEF Spec, OnlyRefusalsForget

(* A wake-up that is not Idle is never wrong, whoever gave it: a bridge that *)
(* is told an instant can rely on it until the next call.                    *)
THEOREM WakeUpHonest ==
  Spec => [](wake # Idle => \A t \in Time : EmitsAt(t) <=> wake <= t)
<1>1. ASSUME IInv, wake # Idle, NEW t \in Time
      PROVE  EmitsAt(t) <=> wake <= t
  <2>1. heads \in [Branch -> Entry] /\ lastEmit \in Time /\ cadence \in Configurations
    BY <1>1 DEF IInv, TypeOK
  <2>2. wake = NextCall(heads, lastEmit, cadence)
    BY <1>1 DEF IInv, WakeCurrent
  <2>3. EmitsAt(t) <=> /\ cadence # Unconfigured /\ SatAdd(lastEmit, cadence.minEmit) <= t
                      /\ {k \in Stored(heads) : EligibleAt(heads[k], cadence) <= t} # {}
    BY DEF EmitsAt, CooledDown, Eligible
  <2>4. QED
    BY <1>1, <2>1, <2>2, <2>3, NextCallTells
<1>2. IInv => (wake # Idle => \A t \in Time : EmitsAt(t) <=> wake <= t)
  BY <1>1
<1>3. QED
  BY <1>2, Invariance, PTL

(* The later a head was asked for, the later it is eligible again, so the    *)
(* filter on eligibility never hides the head that has waited longest.       *)
LEMMA EligibleMonotone ==
  ASSUME NEW h \in Entry, NEW g \in Entry, NEW c \in Cadences, h.lrt < g.lrt
  PROVE  EligibleAt(h, c) <= EligibleAt(g, c)
<1>1. h.lrt \in Nat /\ g.lrt \in Nat /\ c.retry \in Nat
  BY CadenceType, TimeType DEF Entry
<1>2. SatAdd(g.lrt, c.retry) \in Nat
  BY <1>1, SatAddTime, TimeType
<1>3. SatAdd(h.lrt, c.retry) <= SatAdd(g.lrt, c.retry)
  BY <1>1, RecoveryAssumption DEF SatAdd
<1>4. QED
  BY <1>1, <1>2, <1>3 DEF EligibleAt

LEMMA OldestIsAsked ==
  ASSUME TypeOK, NEW k \in Branch, Emit(k), NEW j \in Stored(heads)
  PROVE  heads[k].lrt <= heads[j].lrt
<1> SUFFICES ASSUME heads[j].lrt < heads[k].lrt PROVE FALSE
  <2>1. heads[k].lrt \in Nat /\ heads[j].lrt \in Nat
    BY TimeType DEF TypeOK, Entry, Stored
  <2>2. QED
    BY <2>1
<1>1. heads[j] \in Entry /\ heads[k] \in Entry /\ cadence \in Cadences
  BY DEF TypeOK, Stored, Emit, Configurations
<1>2. EligibleAt(heads[j], cadence) <= EligibleAt(heads[k], cadence)
  BY <1>1, EligibleMonotone
<1>3. EligibleAt(heads[k], cadence) <= now
  BY DEF Emit, Eligible
<1>4. EligibleAt(heads[j], cadence) \in Nat /\ EligibleAt(heads[k], cadence) \in Nat /\ now \in Nat
  <2>1. j \in Stored(heads) /\ k \in Stored(heads)
    BY DEF Emit, Eligible
  <2>2. QED
    BY <1>1, <2>1, EligibleTime, TimeType DEF TypeOK
<1>5. j \in Eligible(now)
  BY <1>2, <1>3, <1>4 DEF Eligible
<1>6. ~Before(heads[j], heads[k])
  BY <1>5 DEF Emit
<1>7. QED
  BY <1>6 DEF Before

(* A request always goes to the head asked for longest ago.                  *)
THEOREM LongestWaitingFirst == Spec => OldestFirst
<1>1. TypeOK /\ [Next]_vars
        => [\A k \in Branch : Emit(k) => \A j \in Stored(heads) : heads[k].lrt <= heads[j].lrt]_vars
  BY OldestIsAsked
<1>2. QED
  BY <1>1, TypeCorrect, PTL DEF Spec, OldestFirst

-----------------------------------------------------------------------------
(* How long a head can wait.  The next request is made by the instant Turn   *)
(* at the latest, and it is for the head itself or for one of those ahead of *)
(* it: the ones asked for no later.  A head that is yet to arrive will be    *)
(* ahead of it too, once.                                                    *)

Turn(h, s, emit, c) ==
  Later(emit + c.minEmit, Later(s, IF h.lrt = 0 THEN 0 ELSE h.lrt + c.retry))

Ahead(hs, k) == {j \in Stored(hs) \ {k} : hs[j].lrt <= hs[k].lrt}

Delays(hs, k, n) == Cardinality(Ahead(hs, k)) + (MaxArrivals - n)

Patience(h, s, c) ==
  Later(s, h.lrt) + Later(c.retry, c.minEmit) + (MaxArrivals - 1) * c.minEmit

(* The head of entry k is in time at instant t.  Each request to another one *)
(* moves its turn by an interval and takes one delay away.                   *)
InTime(hs, s, emit, c, n, t, k) ==
  /\ s[k] <= t
  /\ t <= Turn(hs[k], s[k], emit, c)
  /\ Turn(hs[k], s[k], emit, c) + Delays(hs, k, n) * c.minEmit <= Patience(hs[k], s[k], c)

Counted(hs, n) == Cardinality(Stored(hs)) <= n /\ n <= MaxArrivals

OnTurn ==
  cadence # Unconfigured =>
    \A k \in Stored(heads) : InTime(heads, since, lastEmit, cadence, arrivals, now, k)

BridgeInv ==
  /\ IInv
  /\ since \in [Branch -> Time] /\ arrivals \in Nat
  /\ Counted(heads, arrivals)
  /\ cadence = Unconfigured => lastEmit = 0
  /\ alarm = NextCall(heads, lastEmit, cadence)
  /\ OnTurn

LEMMA TimesGrows ==
  ASSUME NEW p \in Nat, NEW q \in Nat, NEW m \in Nat, p <= q
  PROVE  p * m <= q * m
<1>1. PICK d \in Nat : q = p + d
  <2>1. q - p \in Nat /\ q = p + (q - p)
    OBVIOUS
  <2>2. QED
    BY <2>1
<1>2. (p + d) * m = p * m + d * m /\ d * m \in Nat /\ p * m \in Nat
  OBVIOUS
<1>3. QED
  BY <1>1, <1>2

LEMMA StoredFinite ==
  ASSUME NEW hs
  PROVE  /\ IsFiniteSet(Stored(hs)) /\ Cardinality(Stored(hs)) \in Nat
         /\ \A k : IsFiniteSet(Ahead(hs, k)) /\ Cardinality(Ahead(hs, k)) \in Nat
<1>1. Stored(hs) \subseteq Branch /\ \A k : Ahead(hs, k) \subseteq Branch
  BY DEF Stored, Ahead
<1>2. ASSUME NEW S, S \subseteq Branch PROVE IsFiniteSet(S) /\ Cardinality(S) \in Nat
  BY <1>2, BridgeAssumption, FS_Subset, FS_CardinalityType
<1>3. QED
  BY <1>1, <1>2

(* Those ahead of a head and those yet to arrive are at most all others.     *)
LEMMA DelaysBounded ==
  ASSUME NEW hs, NEW k \in Stored(hs), NEW n \in Nat, Counted(hs, n)
  PROVE  Delays(hs, k, n) \in Nat /\ Delays(hs, k, n) <= MaxArrivals - 1 /\ MaxArrivals - 1 \in Nat
<1>1. Ahead(hs, k) \subseteq Stored(hs) \ {k}
  BY DEF Ahead
<1>2. /\ IsFiniteSet(Stored(hs) \ {k})
      /\ Cardinality(Stored(hs) \ {k}) = Cardinality(Stored(hs)) - 1
  BY StoredFinite, FS_RemoveElement
<1>3. Cardinality(Ahead(hs, k)) <= Cardinality(Stored(hs) \ {k})
  BY <1>1, <1>2, FS_Subset
<1>4. QED
  BY <1>2, <1>3, StoredFinite, BridgeAssumption DEF Delays, Counted

(* A head that begins to wait now, or that was asked for now, is in time.    *)
LEMMA BeginsInTime ==
  ASSUME NEW hs \in [Branch -> Entry], NEW s \in [Branch -> Time], NEW emit \in Time,
         NEW c \in Cadences, NEW n \in Nat, NEW t \in Time, NEW k \in Stored(hs),
         Counted(hs, n), emit <= t,
         \/ hs[k].lrt = 0 /\ s[k] = t
         \/ hs[k].lrt = t /\ s[k] <= t /\ emit = t
  PROVE  InTime(hs, s, emit, c, n, t, k)
<1> DEFINE h == hs[k]
           d == Delays(hs, k, n)
           m == c.minEmit
<1>1. h.lrt \in Nat /\ s[k] \in Nat /\ emit \in Nat /\ t \in Nat /\ m \in Nat /\ c.retry \in Nat
  BY CadenceType, TimeType DEF Stored, Entry
<1>2. d * m <= (MaxArrivals - 1) * m /\ d * m \in Nat /\ (MaxArrivals - 1) * m \in Nat
  <2>1. d \in Nat /\ d <= MaxArrivals - 1 /\ MaxArrivals - 1 \in Nat
    BY DelaysBounded
  <2> HIDE DEF d, m
  <2>2. QED
    BY <1>1, <2>1, TimesGrows
<1>3. s[k] <= t /\ t <= Turn(h, s[k], emit, c)
  BY <1>1 DEF Turn, Later
<1>4. Turn(h, s[k], emit, c) <= Later(s[k], h.lrt) + Later(c.retry, m)
  BY <1>1 DEF Turn, Later
<1>5. /\ Turn(h, s[k], emit, c) \in Nat
      /\ Later(s[k], h.lrt) \in Nat /\ Later(c.retry, m) \in Nat
  BY <1>1 DEF Turn, Later
<1>6. Turn(h, s[k], emit, c) + d * m <= Patience(h, s[k], c)
  <2> DEFINE x == Turn(h, s[k], emit, c)
             y == Later(s[k], h.lrt)
             z == Later(c.retry, m)
             p == d * m
             q == (MaxArrivals - 1) * m
  <2>1. Patience(h, s[k], c) = y + z + q
    BY DEF Patience
  <2> HIDE DEF x, y, z, p, q, d, m, h
  <2>2. x \in Nat /\ y \in Nat /\ z \in Nat /\ p \in Nat /\ q \in Nat /\ x <= y + z /\ p <= q
    BY <1>2, <1>4, <1>5 DEF x, y, z, p, q
  <2>3. x + p <= y + z + q
    BY <2>2
  <2>4. QED
    BY <2>1, <2>3 DEF x, p
<1>7. QED
  BY <1>3, <1>6 DEF InTime

(* A head that a call leaves waiting stays in time if its turn is no later   *)
(* than it was and its delays no more, or if its turn moved by one interval  *)
(* and a delay is gone.                                                      *)
LEMMA StaysInTime ==
  ASSUME NEW hs \in [Branch -> Entry], NEW gs \in [Branch -> Entry], NEW s \in [Branch -> Time],
         NEW emit \in Time, NEW last \in Time, NEW c \in Cadences,
         NEW n \in Nat, NEW p \in Nat, NEW t \in Time,
         NEW k \in Stored(hs), k \in Stored(gs), Counted(hs, n), Counted(gs, p),
         InTime(hs, s, emit, c, n, t, k), gs[k].lrt = hs[k].lrt, emit <= last,
         \/ last = emit /\ Delays(gs, k, p) <= Delays(hs, k, n)
         \/ last = t /\ Delays(gs, k, p) <= Delays(hs, k, n) - 1
  PROVE  InTime(gs, s, last, c, p, t, k)
<1> DEFINE h == hs[k]
           d == Delays(hs, k, n)
           e == Delays(gs, k, p)
           m == c.minEmit
           x == Turn(h, s[k], emit, c)
           y == Turn(h, s[k], last, c)
           w == Patience(h, s[k], c)
<1>1. h.lrt \in Nat /\ s[k] \in Nat /\ emit \in Nat /\ last \in Nat /\ t \in Nat
      /\ m \in Nat /\ c.retry \in Nat
  BY CadenceType, TimeType DEF Stored, Entry
<1>2. d \in Nat /\ e \in Nat
  BY DelaysBounded
<1>3. x \in Nat /\ y \in Nat
  BY <1>1 DEF Turn, Later
<1>4. s[k] <= t /\ t <= x /\ x + d * m <= w
  BY DEF InTime
<1>5. Turn(gs[k], s[k], last, c) = y /\ Patience(gs[k], s[k], c) = w
  BY DEF Turn, Patience
<1>6. x <= y
  BY <1>1 DEF Turn, Later
<1>7. last = t => y <= x + m
  BY <1>1, <1>3, <1>4 DEF Turn, Later
<1>8. d * m \in Nat /\ e * m \in Nat /\ (e <= d => e * m <= d * m) /\ (e <= d - 1 => e * m + m <= d * m)
  <2> HIDE DEF d, e, m
  <2>1. e <= d => e * m <= d * m
    BY <1>1, <1>2, TimesGrows
  <2>2. e <= d - 1 => (e + 1) * m <= d * m
    BY <1>1, <1>2, TimesGrows
  <2>3. (e + 1) * m = e * m + m
    BY <1>1, <1>2
  <2>4. d * m \in Nat /\ e * m \in Nat
    BY <1>1, <1>2
  <2>5. QED
    BY <2>1, <2>2, <2>3, <2>4
<1>9. w \in Int
  <2>1. (MaxArrivals - 1) * m \in Int
    BY <1>1, BridgeAssumption
  <2>2. QED
    BY <1>1, <2>1 DEF Patience, Later
<1>10. y + e * m <= w
  <2>1. last = emit => y = x
    OBVIOUS
  <2> DEFINE a == d * m
             b == e * m
  <2>2. \/ last = emit /\ e <= d
        \/ last = t /\ e <= d - 1
    OBVIOUS
  <2>3. a \in Nat /\ b \in Nat /\ (e <= d => b <= a) /\ (e <= d - 1 => b + m <= a) /\ x + a <= w
    BY <1>4, <1>8
  <2> HIDE DEF a, b, d, e, m, x, y, w
  <2>4. y + b <= w
    BY <1>1, <1>2, <1>3, <1>7, <1>9, <2>1, <2>2, <2>3
  <2>5. QED
    BY <2>4 DEF b
<1>11. t <= y
  <2> HIDE DEF x, y
  <2>1. QED
    BY <1>1, <1>3, <1>4, <1>6
<1>12. QED
  BY <1>4, <1>5, <1>10, <1>11 DEF InTime

(* An exact wake-up comes no later than any head's turn.                     *)
LEMMA WakeByTurn ==
  ASSUME IInv, cadence # Unconfigured, NEW k \in Stored(heads), NEW x \in Nat
  PROVE  LET w == NextCall(heads, lastEmit, cadence)
         IN  w # Idle /\ w \in Nat /\ w <= Turn(heads[k], x, lastEmit, cadence)
<1> DEFINE E == {EligibleAt(heads[j], cadence) : j \in Stored(heads)}
           e == EligibleAt(heads[k], cadence)
           u == SatAdd(lastEmit, cadence.minEmit)
           l == Least(E)
<1>1. heads \in [Branch -> Entry] /\ cadence \in Cadences /\ lastEmit \in Nat
  BY TimeType DEF IInv, TypeOK, Configurations
<1>2. cadence.minEmit \in Nat /\ cadence.retry \in Nat /\ heads[k].lrt \in Nat
  BY <1>1, CadenceType, TimeType DEF Stored, Entry
<1>3. E \subseteq Nat /\ e \in E
  BY <1>1, EligibleTime, TimeType
<1>4. l \in Nat /\ l <= e
  <2> HIDE DEF E, e
  <2>1. QED
    BY <1>3, LeastOfTime
<1>5. NextCall(heads, lastEmit, cadence) = Later(l, u)
  BY DEF NextCall
<1>6. u \in Nat /\ e \in Nat /\ u <= lastEmit + cadence.minEmit
  BY <1>1, <1>2, <1>3, RecoveryAssumption, SatAddTime, TimeType DEF SatAdd
<1>7. e <= IF heads[k].lrt = 0 THEN 0 ELSE heads[k].lrt + cadence.retry
  BY <1>2, RecoveryAssumption DEF EligibleAt, SatAdd
<1> HIDE DEF E, e, u, l
<1>8. Later(l, u) \in Nat
  BY <1>4, <1>6 DEF Later
<1>9. Later(l, u) <= Turn(heads[k], x, lastEmit, cadence)
  BY <1>1, <1>2, <1>4, <1>6, <1>7 DEF Later, Turn
<1>10. QED
  BY <1>5, <1>8, <1>9 DEF Idle

LEMMA BridgeInitial == BridgeInit => BridgeInv
<1> SUFFICES ASSUME BridgeInit PROVE BridgeInv
  OBVIOUS
<1>1. IInv /\ since \in [Branch -> Time] /\ arrivals = 0 /\ lastEmit = 0 /\ cadence = Unconfigured
  BY InitInvariant, TimeType DEF BridgeInit, Init
<1>2. Stored(heads) = {}
  BY DEF BridgeInit, Init, Stored, Resting
<1>3. alarm = NextCall(heads, lastEmit, cadence)
  BY <1>1 DEF BridgeInit, NextCall
<1>4. Counted(heads, 0)
  BY <1>2, FS_EmptySet, BridgeAssumption DEF Counted
<1>5. QED
  BY <1>1, <1>3, <1>4 DEF BridgeInv, OnTurn

LEMMA EmitKeepsTurns ==
  ASSUME BridgeInv, NEW k \in Branch, Emit(k), alarm' = wake', UNCHANGED <<since, arrivals>>, IInv'
  PROVE  BridgeInv'
<1>1. /\ heads \in [Branch -> Entry] /\ heads' \in [Branch -> Entry]
      /\ lastEmit \in Time /\ lastEmit' = now /\ now \in Time /\ now' = now
      /\ cadence \in Cadences /\ cadence # Unconfigured /\ cadence' = cadence
      /\ since \in [Branch -> Time] /\ arrivals \in Nat
  BY DEF BridgeInv, IInv, TypeOK, Emit, Configurations
<1>2. /\ k \in Stored(heads) /\ heads' = [heads EXCEPT ![k].lrt = now]
      /\ heads[k] \in Entry
  BY DEF Emit, Eligible, BridgeInv, IInv, TypeOK
<1>3. /\ \A j \in Branch : j # k => heads'[j] = heads[j]
      /\ heads'[k].waiting = heads[k].waiting /\ heads'[k].lrt = now
  BY <1>1, <1>2 DEF Entry
<1>4. Stored(heads') = Stored(heads)
  BY <1>3 DEF Stored
<1>5. Counted(heads, arrivals) /\ Counted(heads', arrivals)
  BY <1>4 DEF BridgeInv, Counted
<1>6. ASSUME NEW j \in Stored(heads)
      PROVE  InTime(heads', since, now, cadence, arrivals, now, j)
  <2>1. InTime(heads, since, lastEmit, cadence, arrivals, now, j)
    BY <1>1, <1>6 DEF BridgeInv, OnTurn
  <2>2. lastEmit \in Nat /\ now \in Nat /\ lastEmit <= now /\ heads[j].lrt <= lastEmit
        /\ heads[j].lrt \in Nat /\ j \in Branch
    BY <1>1, TimeType DEF BridgeInv, IInv, Recorded, Stored, Entry
  <2>3. CASE j = k
    <3>1. since[j] <= now
      BY <2>1 DEF InTime
    <3>2. QED
      BY <1>1, <1>3, <1>4, <1>5, <2>2, <2>3, <3>1, BeginsInTime
  <2>4. CASE j # k
    <3> DEFINE A == Ahead(heads, j)
               B == Ahead(heads', j)
    <3>1. heads'[j] = heads[j]
      BY <1>3, <2>2, <2>4
    <3>2. k \in A
      BY <1>1, <1>2, <2>4, OldestIsAsked DEF Ahead, BridgeInv, IInv
    <3>3. ASSUME NEW i \in B PROVE i \in A /\ (heads[j].lrt < now => i # k)
      <4>1. i \in Stored(heads) /\ i # j /\ heads'[i].lrt <= heads[j].lrt
        BY <1>4, <3>1 DEF Ahead
      <4>2. CASE i = k
        BY <1>3, <2>2, <3>2, <4>1, <4>2
      <4>3. CASE i # k
        BY <1>3, <4>1, <4>3 DEF Ahead, Stored
      <4>4. QED
        BY <4>2, <4>3
    <3>4. /\ IsFiniteSet(A) /\ Cardinality(A) \in Nat
          /\ IsFiniteSet(B) /\ Cardinality(B) \in Nat
      BY StoredFinite
    <3>5. Cardinality(B) <= Cardinality(A)
      BY <3>3, <3>4, FS_Subset
    <3>6. ASSUME heads[j].lrt < now PROVE Cardinality(B) <= Cardinality(A) - 1
      <4>1. B \subseteq A \ {k}
        BY <3>3, <3>6
      <4>2. IsFiniteSet(A \ {k}) /\ Cardinality(A \ {k}) = Cardinality(A) - 1
        BY <3>2, <3>4, FS_RemoveElement
      <4>3. QED
        BY <4>1, <4>2, FS_Subset
    <3>7. Delays(heads', j, arrivals) = Cardinality(B) + (MaxArrivals - arrivals)
          /\ Delays(heads, j, arrivals) = Cardinality(A) + (MaxArrivals - arrivals)
      BY DEF Delays
    <3> HIDE DEF A, B
    <3>8. \/ now = lastEmit /\ Delays(heads', j, arrivals) <= Delays(heads, j, arrivals)
          \/ now = now /\ Delays(heads', j, arrivals) <= Delays(heads, j, arrivals) - 1
      BY <1>1, <2>2, <3>4, <3>5, <3>6, <3>7, BridgeAssumption
    <3>9. j \in Stored(heads')
      BY <1>4
    <3>10. QED
      BY <1>1, <1>5, <2>1, <2>2, <3>1, <3>8, <3>9, StaysInTime
  <2>5. QED
    BY <2>3, <2>4
<1>7. OnTurn'
  BY <1>1, <1>4, <1>6 DEF OnTurn
<1>8. alarm' = NextCall(heads', lastEmit', cadence')
  BY <1>1 DEF Emit
<1>9. QED
  BY <1>1, <1>5, <1>7, <1>8 DEF BridgeInv

LEMMA ReceiveKeepsTurns ==
  ASSUME BridgeInv, NEW hs \in NextTables, NEW c \in Loadable, NEW F \in Newcomers(hs),
         Receive(hs, c, F), IInv'
  PROVE  BridgeInv'
<1>1. /\ heads \in [Branch -> Entry] /\ hs \in [Branch -> Entry] /\ heads' = hs
      /\ lastEmit \in Time /\ lastEmit' = lastEmit /\ now \in Time /\ now' = now
      /\ lastEmit <= now
      /\ c \in Cadences /\ cadence' = c /\ cadence \in {c, Unconfigured}
      /\ since \in [Branch -> Time] /\ arrivals \in Nat
  BY NextTablesType DEF BridgeInv, IInv, TypeOK, Recorded, Receive, ReceiveBlock, Loadable
<1>2. IsFiniteSet(F) /\ Cardinality(F) \in Nat /\ F \subseteq Branch
  <2>1. F \subseteq Stored(hs)
    BY DEF Newcomers
  <2>2. Stored(hs) \subseteq Branch
    BY DEF Stored
  <2>3. QED
    BY <2>1, <2>2, BridgeAssumption, FS_Subset, FS_CardinalityType
<1>3. arrivals' = arrivals + Cardinality(F) /\ arrivals' <= MaxArrivals /\ arrivals' \in Nat
  BY <1>1, <1>2 DEF Receive
<1>4. since' \in [Branch -> Time]
  BY <1>1 DEF Receive
<1>5. ASSUME NEW j \in Stored(hs)
      PROVE  /\ j \in F => hs[j].lrt = 0
             /\ j \notin F => j \in Stored(heads) /\ hs[j].lrt = heads[j].lrt
             /\ cadence = Unconfigured => hs[j].lrt = 0
  <2>1. j \in Branch /\ hs[j].waiting /\ hs[j] \in Evolutions(heads[j]) /\ heads[j] \in Entry
    BY <1>1 DEF Stored, NextTables
  <2>2. hs[j].lrt = 0 \/ (heads[j].waiting /\ hs[j].lrt = heads[j].lrt)
    BY <2>1, EvolutionsType
  <2>3. /\ j \in F => hs[j].lrt = 0
        /\ j \notin F => heads[j].waiting /\ heads[j].lrt = hs[j].lrt
    BY DEF Newcomers
  <2>4. cadence = Unconfigured => heads[j].lrt = 0
    <3>1. heads[j].lrt \in Nat
      BY <2>1, TimeType DEF Entry
    <3>2. heads[j].lrt <= lastEmit /\ (cadence = Unconfigured => lastEmit = 0)
      BY <2>1 DEF BridgeInv, IInv, Recorded
    <3>3. QED
      BY <3>1, <3>2
  <2>5. QED
    BY <2>1, <2>2, <2>3, <2>4 DEF Stored
<1>6. Counted(heads, arrivals)
  BY DEF BridgeInv
<1>7. Counted(hs, arrivals')
  <2>1. Stored(hs) \subseteq Stored(heads) \union F
    BY <1>5
  <2>2. /\ IsFiniteSet(Stored(heads) \union F)
        /\ Cardinality(Stored(heads) \union F)
             = Cardinality(Stored(heads)) + Cardinality(F) - Cardinality(Stored(heads) \intersect F)
    BY <1>2, StoredFinite, FS_Union
  <2>3. Cardinality(Stored(heads) \intersect F) \in Nat
    BY <1>2, FS_Intersection, FS_CardinalityType
  <2>4. Cardinality(Stored(hs)) <= Cardinality(Stored(heads) \union F)
    BY <2>1, <2>2, FS_Subset
  <2>5. Cardinality(Stored(hs)) \in Nat /\ Cardinality(Stored(heads)) \in Nat
    BY StoredFinite
  <2>6. QED
    BY <1>1, <1>2, <1>3, <1>6, <2>2, <2>3, <2>4, <2>5 DEF Counted
<1>8. ASSUME NEW k \in Stored(hs)
      PROVE  InTime(hs, since', lastEmit, c, arrivals', now, k)
  <2>1. k \in Branch
    BY DEF Stored
  <2>2. CASE k \in F \/ cadence = Unconfigured
    <3>1. since'[k] = now /\ hs[k].lrt = 0
      BY <1>5, <2>1, <2>2 DEF Receive
    <3>2. QED
      BY <1>1, <1>3, <1>4, <1>7, <3>1, BeginsInTime
  <2>3. CASE k \notin F /\ cadence # Unconfigured
    <3>1. k \in Stored(heads) /\ hs[k].lrt = heads[k].lrt /\ cadence = c
      BY <1>1, <1>5, <2>3
    <3>2. since'[k] = since[k]
      BY <2>1, <2>3 DEF Receive
    <3>3. InTime(heads, since, lastEmit, c, arrivals, now, k)
      BY <2>3, <3>1 DEF BridgeInv, OnTurn
    <3> DEFINE A == Ahead(heads, k)
               B == Ahead(hs, k)
    <3>4. B \subseteq A \union F
      BY <1>5, <3>1 DEF Ahead
    <3>5. /\ IsFiniteSet(A) /\ Cardinality(A) \in Nat
          /\ IsFiniteSet(B) /\ Cardinality(B) \in Nat
      BY StoredFinite
    <3>6. Cardinality(B) <= Cardinality(A) + Cardinality(F)
      <4> HIDE DEF A, B
      <4>1. /\ IsFiniteSet(A \union F)
            /\ Cardinality(A \union F) = Cardinality(A) + Cardinality(F) - Cardinality(A \intersect F)
        BY <1>2, <3>5, FS_Union
      <4>2. Cardinality(A \intersect F) \in Nat
        BY <1>2, <3>5, FS_Intersection, FS_CardinalityType
      <4>3. Cardinality(B) <= Cardinality(A \union F)
        BY <3>4, <4>1, FS_Subset
      <4>4. QED
        BY <1>2, <3>5, <4>1, <4>2, <4>3
    <3>7. Delays(hs, k, arrivals') <= Delays(heads, k, arrivals)
      <4>1. /\ Delays(hs, k, arrivals') = Cardinality(B) + (MaxArrivals - arrivals')
            /\ Delays(heads, k, arrivals) = Cardinality(A) + (MaxArrivals - arrivals)
        BY DEF Delays
      <4> HIDE DEF A, B
      <4>2. QED
        BY <1>1, <1>2, <1>3, <3>5, <3>6, <4>1, BridgeAssumption
    <3>8. lastEmit <= lastEmit
      BY <1>1, TimeType
    <3>9. InTime(hs, since, lastEmit, c, arrivals', now, k)
      BY <1>1, <1>3, <1>6, <1>7, <3>1, <3>3, <3>7, <3>8, StaysInTime
    <3>10. QED
      BY <3>2, <3>9 DEF InTime
  <2>4. QED
    BY <2>2, <2>3
<1>9. OnTurn'
  BY <1>1, <1>8 DEF OnTurn
<1>10. c # Unconfigured
  BY <1>1, RecoveryAssumption DEF Unconfigured
<1>11. alarm' = NextCall(heads', lastEmit', cadence')
  BY <1>1 DEF Receive, ReceiveBlock
<1>12. QED
  BY <1>1, <1>3, <1>4, <1>7, <1>9, <1>10, <1>11 DEF BridgeInv

LEMMA PassKeepsTurns ==
  ASSUME BridgeInv, NEW t \in Time, PassTo(t), IInv'
  PROVE  BridgeInv'
<1>1. /\ UNCHANGED <<heads, lastEmit, cadence, alarm, since, arrivals>>
      /\ t > now /\ now' = t /\ (alarm = Idle \/ t <= alarm)
  BY DEF PassTo, Pass
<1>2. ASSUME cadence # Unconfigured, NEW k \in Stored(heads)
      PROVE  InTime(heads, since, lastEmit, cadence, arrivals, t, k)
  <2>1. InTime(heads, since, lastEmit, cadence, arrivals, now, k)
    BY <1>2 DEF BridgeInv, OnTurn
  <2>2. since[k] \in Nat /\ now \in Nat /\ t \in Nat
    BY TimeType DEF BridgeInv, IInv, TypeOK, Stored
  <2>3. alarm # Idle /\ alarm \in Nat /\ alarm <= Turn(heads[k], since[k], lastEmit, cadence)
    BY <1>2, <2>2, WakeByTurn DEF BridgeInv
  <2>4. Turn(heads[k], since[k], lastEmit, cadence) \in Nat
    <3>1. lastEmit \in Nat /\ heads[k].lrt \in Nat
          /\ cadence.minEmit \in Nat /\ cadence.retry \in Nat
      BY <1>2, TimeType, CadenceType DEF BridgeInv, IInv, TypeOK, Configurations, Stored, Entry
    <3>2. QED
      BY <2>2, <3>1 DEF Turn, Later
  <2>5. since[k] <= t /\ t <= Turn(heads[k], since[k], lastEmit, cadence)
    <3>1. since[k] <= now
      BY <2>1 DEF InTime
    <3>2. QED
      BY <1>1, <2>2, <2>3, <2>4, <3>1
  <2>6. QED
    BY <2>1, <2>5 DEF InTime
<1>3. OnTurn'
  BY <1>1, <1>2 DEF OnTurn
<1>4. QED
  BY <1>1, <1>3 DEF BridgeInv, Counted

LEMMA BridgeStep ==
  ASSUME ~HeedsRefusals
  PROVE  BridgeInv /\ [BridgeNext]_bridgeVars => BridgeInv'
<1> SUFFICES ASSUME BridgeInv, [BridgeNext]_bridgeVars PROVE BridgeInv'
  OBVIOUS
<1>1. [Next]_vars
  BY DEF BridgeNext, bridgeVars, Tick, Receive, RefusedCall, PassTo, Next, Configurations, Loadable
<1>2. IInv'
  BY <1>1, StepInvariant DEF BridgeInv
<1>3. CASE Tick
  <2>1. CASE QuietTick
    BY <1>2, <1>3, <2>1 DEF Tick, QuietTick, BridgeInv, Counted, OnTurn
  <2>2. ASSUME NEW k \in Branch, Emit(k) PROVE BridgeInv'
    BY <1>2, <1>3, <2>2, EmitKeepsTurns DEF Tick
  <2>3. QED
    BY <1>3, <2>1, <2>2 DEF Tick
<1>4. ASSUME NEW hs \in NextTables, NEW c \in Loadable, NEW new \in Newcomers(hs), Receive(hs, c, new)
      PROVE  BridgeInv'
  BY <1>2, <1>4, ReceiveKeepsTurns
<1>5. CASE RefusedCall
  BY <1>2, <1>5 DEF RefusedCall, Refuse, BridgeInv, Counted, OnTurn
<1>6. ASSUME NEW t \in Time, PassTo(t) PROVE BridgeInv'
  BY <1>2, <1>6, PassKeepsTurns
<1>7. CASE UNCHANGED bridgeVars
  BY <1>2, <1>7 DEF bridgeVars, vars, BridgeInv, Counted, OnTurn
<1>8. QED
  BY <1>3, <1>4, <1>5, <1>6, <1>7 DEF BridgeNext

(* No head waits for longer than one interval for itself and one for each    *)
(* other that began to wait, whatever calls are refused in between, under a  *)
(* bridge that keeps its wake-up when they are.                              *)
THEOREM WaitBounded == ~HeedsRefusals => (BridgeSpec => []Served)
<1> SUFFICES ASSUME ~HeedsRefusals PROVE BridgeSpec => []Served
  OBVIOUS
<1>1. ASSUME BridgeInv, cadence # Unconfigured, NEW k \in Stored(heads)
      PROVE  now - Later(since[k], heads[k].lrt)
               <= Later(cadence.retry, cadence.minEmit) + (MaxArrivals - 1) * cadence.minEmit
  <2> DEFINE x == Turn(heads[k], since[k], lastEmit, cadence)
             d == Delays(heads, k, arrivals)
             m == cadence.minEmit
             y == Later(since[k], heads[k].lrt)
             z == Later(cadence.retry, m)
             q == (MaxArrivals - 1) * m
  <2>1. now <= x /\ x + d * m <= y + z + q
    BY <1>1 DEF BridgeInv, OnTurn, InTime, Patience
  <2>2. /\ now \in Nat /\ lastEmit \in Nat /\ heads[k].lrt \in Nat /\ since[k] \in Nat
        /\ m \in Nat /\ cadence.retry \in Nat
    BY <1>1, TimeType, CadenceType DEF BridgeInv, IInv, TypeOK, Configurations, Stored, Entry
  <2>3. d \in Nat
    BY <1>1, DelaysBounded DEF BridgeInv
  <2>4. x \in Nat /\ y \in Nat /\ z \in Nat
    BY <2>2 DEF Turn, Later
  <2>5. q \in Int /\ d * m \in Nat
    <3> HIDE DEF d, m
    <3>1. QED
      BY <2>2, <2>3, BridgeAssumption
  <2> DEFINE p == d * m
  <2>6. p \in Nat /\ x + p <= y + z + q
    BY <2>1, <2>5
  <2> HIDE DEF x, d, m, y, z, q, p
  <2>7. now - y <= z + q
    BY <2>1, <2>2, <2>4, <2>5, <2>6
  <2>8. QED
    BY <2>7 DEF y, z, q, m
<1>2. BridgeInv => Served
  BY <1>1 DEF Served
<1>3. QED
  BY <1>2, BridgeInitial, BridgeStep, PTL DEF BridgeSpec
=============================================================================
