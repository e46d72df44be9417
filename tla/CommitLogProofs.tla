--------------------------- MODULE CommitLogProofs ---------------------------
(***************************************************************************)
(* Theorems about CommitLog, for every roster, every number of concurrent  *)
(* requests and every slack and cap of at least one epoch.                 *)
(*                                                                         *)
(* The argument: the head the service derives from the retained rows is    *)
(* the number of commits it ever accepted (HeadIsLength), because a prune  *)
(* always spares the newest row; a prune spares it because no device       *)
(* reports an epoch more than MaxAhead beyond the head, and the floor lies *)
(* the slack, which is more, below what was reported (FloorBelowHead).     *)
(* Likewise a floor lies below the highest epoch any device it counted     *)
(* ever stood at, whatever happened since (FloorSound); a device that has  *)
(* not fallen back needs nothing below that epoch.                         *)
(***************************************************************************)
EXTENDS CommitLog, TLAPS, WellFoundedInduction, SequenceTheorems

(* Nothing a device holds is beyond the head, and nothing on record for it *)
(* is beyond what it ever held but for its undecided commits.              *)
BelowHead ==
    /\ \A d \in Device : /\ applied[d] <= held[d]
                         /\ held[d] <= Len(accepted)
                         /\ welcome[d] <= Len(accepted)
                         /\ since[d] <= held[d] + MaxAhead
    /\ \A w \in Worker : pruner[w].head <= Len(accepted)

(* A pending Welcome is for an epoch the device's groups never ended at.   *)
WelcomeApart ==
    \A d \in Device : welcome[d] # NoEpoch => held[d] # welcome[d]

(* A floor about to be applied spares the newest row.                      *)
FloorBelowHead ==
    \A w \in Worker : pruner[w].floor = 0 \/ pruner[w].floor < Len(accepted)

(* A floor about to be applied is below the highest epoch of every device  *)
(* the prune read, unless the cap set it.                                  *)
FloorSound ==
    \A w \in Worker : pruner[w].at = "delete" =>
        \/ pruner[w].floor = 0
        \/ pruner[w].floor <= tier2(pruner[w].head)
        \/ \A d \in pruner[w].devices : pruner[w].floor <= held[d]

IInv ==
    /\ TypeOK /\ GaplessSuffix /\ RowsAreWinners /\ EpochsWonInOrder
    /\ BelowHead /\ WelcomeApart /\ FloorBelowHead /\ FloorSound

-----------------------------------------------------------------------------
(* The larger of two integers, as Max computes it.                         *)
LEMMA MaxPair ==
    ASSUME NEW a \in Int, NEW b \in Int
    PROVE  Max({a, b}) = IF a >= b THEN a ELSE b
BY DEF Max

(* A nonempty set of naturals has a smallest member and Min returns it.    *)
LEMMA MinNat ==
    ASSUME NEW S, S \subseteq Nat, S # {}
    PROVE  Min(S) \in S /\ \A y \in S : Min(S) <= y
<1>1. PICK x \in S : \A y \in S : <<y, x>> \notin OpToRel(<, Nat)
  BY NatLessThanWellFounded, WFMin, Zenon
<1>2. OpToRel(<, Nat) = {p \in Nat \X Nat : p[1] < p[2]}
  BY Zenon DEF OpToRel
<1>3. \A y \in S : <<y, x>> \notin {p \in Nat \X Nat : p[1] < p[2]}
  BY <1>1, <1>2, Zenon
<1>4. ASSUME NEW y \in S PROVE x <= y
  <2>1. x \in Nat /\ y \in Nat
    OBVIOUS
  <2>2. <<y, x>> \in Nat \X Nat /\ <<y, x>>[1] = y /\ <<y, x>>[2] = x
    BY <2>1
  <2>3. ~(y < x)
    BY <1>3, <2>2, Zenon
  <2>. QED
    BY <2>1, <2>3
<1>. QED
  BY <1>4 DEF Min

(* The cap's floor is 0 or strictly below the head.                        *)
LEMMA Tier2Facts ==
    ASSUME NEW head \in Nat
    PROVE  tier2(head) \in Nat /\ (tier2(head) = 0 \/ tier2(head) < head)
BY MaxPair, CapAssumption DEF tier2

(* The floor is a natural number; it is 0, or strictly below n, or set by  *)
(* the cap; and Tier 1 is the slack below every report it used.            *)
LEMMA FloorFacts ==
    ASSUME NEW devices \in SUBSET Device, NEW rec \in [Device -> OptEpoch],
           NEW n \in Nat, NEW head \in Nat, head <= n,
           \A d \in Device : rec[d] <= n + MaxAhead
    PROVE  LET f == prune_floor(devices, rec, head) IN
           /\ f \in Nat
           /\ f = 0 \/ f < n
           /\ \/ f = 0
              \/ f <= tier2(head)
              \/ \A d \in devices : f + MaxAhead < rec[d]
<1>. DEFINE t1 == tier1(devices, rec)
            t2 == tier2(head)
            S == {rec[d] : d \in devices}
<1>0. /\ MaxAhead \in Nat /\ PRUNE_SLACK_EPOCHS \in Nat
      /\ MaxAhead < PRUNE_SLACK_EPOCHS
  BY AheadAssumption, SlackAssumption
<1>1. /\ t2 \in Nat /\ (t2 = 0 \/ t2 < head)
  BY Tier2Facts
<1>2. t1 \in Nat /\ (t1 = 0 \/ (t1 < n /\ \A d \in devices : t1 + MaxAhead < rec[d]))
  <2>1. CASE devices # {} /\ \A d \in devices : rec[d] # NoEpoch
    <3>1. S \subseteq Nat /\ S # {}
      BY <2>1 DEF OptEpoch, NoEpoch
    <3>2. Min(S) \in S /\ \A y \in S : Min(S) <= y
      BY <3>1, MinNat
    <3>3. /\ Min(S) \in Nat /\ Min(S) <= n + MaxAhead
          /\ \A d \in devices : Min(S) <= rec[d]
      BY <3>1, <3>2
    <3>4. t1 = Max({Min(S) - PRUNE_SLACK_EPOCHS, 0})
      BY <2>1 DEF tier1
    <3>5. t1 = IF Min(S) - PRUNE_SLACK_EPOCHS >= 0
               THEN Min(S) - PRUNE_SLACK_EPOCHS ELSE 0
      BY <3>3, <3>4, <1>0, MaxPair
    <3>6. \A d \in devices : rec[d] \in Int
      BY DEF OptEpoch, NoEpoch
    <3>. QED
      <4>. HIDE DEF t1, S
      <4>. QED  BY <3>3, <3>5, <3>6, <1>0
  <2>2. CASE ~(devices # {} /\ \A d \in devices : rec[d] # NoEpoch)
    BY <2>2 DEF tier1
  <2>. QED
    BY <2>1, <2>2
<1>3. prune_floor(devices, rec, head) = IF t1 >= t2 THEN t1 ELSE t2
  <2>. HIDE DEF t1, t2
  <2>. QED  BY <1>1, <1>2, MaxPair DEF prune_floor, t1, t2
<1>. QED
  <2>. HIDE DEF t1
  <2>. QED  BY <1>1, <1>2, <1>3

(* The head derived from the rows is the number of commits accepted.       *)
LEMMA HeadIsLength ==
    ASSUME TypeOK, GaplessSuffix
    PROVE  head_epoch = Len(accepted) /\ head_epoch \in Nat
<1>0. Len(accepted) \in Nat /\ DOMAIN log \subseteq Nat
  BY DEF TypeOK, Epoch
<1>1. CASE Len(accepted) = 0
  <2>1. DOMAIN log = {}
    BY <1>0, <1>1 DEF GaplessSuffix
  <2>. QED  BY <1>1, <2>1 DEF head_epoch, HeadOf
<1>2. CASE Len(accepted) > 0
  <2>1. Len(accepted) - 1 \in DOMAIN log /\ \A e \in DOMAIN log : e <= Len(accepted) - 1
    BY <1>0, <1>2 DEF GaplessSuffix
  <2>2. Max(DOMAIN log) = Len(accepted) - 1
    BY <1>0, <2>1 DEF Max
  <2>. QED  BY <1>0, <2>1, <2>2 DEF head_epoch, HeadOf
<1>. QED  BY <1>0, <1>1, <1>2

-----------------------------------------------------------------------------
LEMMA InitInv == Init => IInv
<1>. SUFFICES ASSUME Init PROVE IInv
  OBVIOUS
<1>1. DOMAIN log = {} /\ Len(accepted) = 0
  BY DEF Init
<1>2. TypeOK
  BY <1>1 DEF Init, TypeOK, OptEpoch, NoEpoch, PruneState, Idle, Epoch
<1>3. GaplessSuffix /\ RowsAreWinners /\ EpochsWonInOrder
  BY <1>1 DEF GaplessSuffix, RowsAreWinners, EpochsWonInOrder
<1>4. BelowHead
  BY <1>1, AheadAssumption DEF Init, BelowHead, NoEpoch, Idle
<1>5. WelcomeApart /\ FloorBelowHead /\ FloorSound
  BY DEF Init, WelcomeApart, FloorBelowHead, FloorSound, NoEpoch, Idle
<1>. QED
  BY <1>2, <1>3, <1>4, <1>5 DEF IInv

(* What an accepted submit does to the table: it appends at the length.    *)
LEMMA InsertFacts ==
    ASSUME IInv, NEW b, NEW c \in Commit, InsertCommit(b, c)
    PROVE  /\ b = Len(accepted)
           /\ Len(accepted') = Len(accepted) + 1
           /\ accepted' \in Seq([epoch : Epoch, commit : Commit])
           /\ DOMAIN log' \subseteq Epoch
           /\ \A e \in DOMAIN log' : log'[e] \in Commit
           /\ GaplessSuffix' /\ RowsAreWinners' /\ EpochsWonInOrder'
<1>. DEFINE r == [epoch |-> b, commit |-> c]
<1>0. TypeOK /\ GaplessSuffix /\ RowsAreWinners /\ EpochsWonInOrder
  BY DEF IInv
<1>1. b = Len(accepted) /\ b \in Nat
  BY <1>0, HeadIsLength DEF InsertCommit
<1>2. r \in [epoch : Epoch, commit : Commit]
  BY <1>1 DEF Epoch
<1>3. /\ accepted \in Seq([epoch : Epoch, commit : Commit])
      /\ accepted' = Append(accepted, r)
  BY <1>0 DEF TypeOK, InsertCommit
<1>4. /\ accepted' \in Seq([epoch : Epoch, commit : Commit])
      /\ Len(accepted') = Len(accepted) + 1
      /\ \A i \in 1 .. Len(accepted) : accepted'[i] = accepted[i]
      /\ accepted'[Len(accepted) + 1] = r
  <2>. HIDE DEF r
  <2>. QED  BY <1>2, <1>3
<1>5. /\ DOMAIN log' = DOMAIN log \cup {b}
      /\ log'[b] = c
      /\ \A e \in DOMAIN log : e # b => log'[e] = log[e]
  BY DEF InsertCommit
<1>6. DOMAIN log \subseteq Nat /\ \A e \in DOMAIN log : e < Len(accepted)
  BY <1>0 DEF TypeOK, GaplessSuffix, Epoch
<1>7. GaplessSuffix'
  <2>1. \A e \in DOMAIN log' : e < Len(accepted')
    BY <1>1, <1>4, <1>5, <1>6
  <2>2. ASSUME NEW e \in DOMAIN log', NEW k \in e .. (Len(accepted') - 1)
        PROVE  k \in DOMAIN log'
    BY <1>0, <1>1, <1>4, <1>5, <1>6 DEF GaplessSuffix
  <2>3. Len(accepted') - 1 \in DOMAIN log'
    BY <1>1, <1>4, <1>5
  <2>. QED
    BY <2>1, <2>2, <2>3 DEF GaplessSuffix
<1>8. RowsAreWinners'
  <2>1. ASSUME NEW e \in DOMAIN log, e # b
        PROVE  log'[e] = accepted'[e + 1].commit
    <3>1. e + 1 \in 1 .. Len(accepted)
      BY <1>1, <1>6
    <3>2. accepted'[e + 1] = accepted[e + 1]
      BY <3>1, <1>4
    <3>. QED
      BY <2>1, <3>2, <1>0, <1>5 DEF RowsAreWinners
  <2>2. log'[b] = accepted'[b + 1].commit
    BY <1>1, <1>4, <1>5
  <2>. QED
    BY <2>1, <2>2, <1>5 DEF RowsAreWinners
<1>9. EpochsWonInOrder'
  <2>. SUFFICES ASSUME NEW i \in 1 .. Len(accepted')
                PROVE  accepted'[i].epoch = i - 1
    BY DEF EpochsWonInOrder
  <2>1. CASE i = Len(accepted) + 1
    BY <2>1, <1>1, <1>4
  <2>2. CASE i \in 1 .. Len(accepted)
    BY <2>2, <1>0, <1>4 DEF EpochsWonInOrder
  <2>. QED
    BY <2>1, <2>2, <1>1, <1>4
<1>10. /\ DOMAIN log' \subseteq Epoch
       /\ \A e \in DOMAIN log' : log'[e] \in Commit
  BY <1>0, <1>1, <1>5 DEF TypeOK, Epoch
<1>. QED
  BY <1>1, <1>4, <1>7, <1>8, <1>9, <1>10

(* What a step that runs no prune statement does to the prunes under way.  *)
PrunesKept ==
    /\ pruner' \in [Worker -> PruneState]
    /\ \A v \in Worker : /\ pruner'[v].head = pruner[v].head
                         /\ pruner'[v].floor = pruner[v].floor
                         /\ pruner'[v].devices = pruner[v].devices
                         /\ pruner'[v].at = "delete" => pruner[v].at = "delete"

LEMMA StartPruneFacts ==
    ASSUME IInv, StartPrune
    PROVE  PrunesKept
<1>0. pruner \in [Worker -> PruneState]
  BY DEF IInv, TypeOK
<1>1. CASE UNCHANGED pruner
  BY <1>0, <1>1 DEF PrunesKept
<1>2. ASSUME NEW w \in Worker, pruner' = [pruner EXCEPT ![w].at = "head"]
      PROVE  PrunesKept
  BY <1>0, <1>2 DEF PruneState, PrunesKept
<1>. QED
  BY <1>1, <1>2 DEF StartPrune

LEMMA PrunesUnchanged ==
    ASSUME IInv, UNCHANGED pruner
    PROVE  PrunesKept
BY DEF IInv, TypeOK, PrunesKept

(* A floor stays sound when the log and the devices' highest epochs only   *)
(* grow.                                                                   *)
LEMMA FloorsKept ==
    ASSUME IInv, PrunesKept, held' \in [Device -> OptEpoch],
           Len(accepted') \in Nat, Len(accepted) <= Len(accepted'),
           \A d \in Device : held[d] <= held'[d]
    PROVE  /\ FloorBelowHead' /\ FloorSound'
           /\ \A w \in Worker : pruner'[w].head <= Len(accepted')
<1>0. /\ Len(accepted) \in Nat /\ held \in [Device -> OptEpoch]
      /\ \A w \in Worker : /\ pruner[w].head \in Nat /\ pruner[w].floor \in Nat
                           /\ pruner[w].devices \subseteq Device
                           /\ pruner[w].head <= Len(accepted)
                           /\ pruner[w].floor = 0 \/ pruner[w].floor < Len(accepted)
  BY DEF IInv, TypeOK, PruneState, BelowHead, FloorBelowHead
<1>1. FloorBelowHead' /\ \A w \in Worker : pruner'[w].head <= Len(accepted')
  BY <1>0 DEF FloorBelowHead, PrunesKept
<1>2. ASSUME NEW w \in Worker, pruner'[w].at = "delete"
      PROVE  \/ pruner'[w].floor = 0
             \/ pruner'[w].floor <= tier2(pruner'[w].head)
             \/ \A d \in pruner'[w].devices : pruner'[w].floor <= held'[d]
  <2>1. /\ pruner[w].at = "delete" /\ pruner'[w].floor = pruner[w].floor
        /\ pruner'[w].head = pruner[w].head
        /\ pruner'[w].devices = pruner[w].devices
    BY <1>2 DEF PrunesKept
  <2>2. \/ pruner[w].floor = 0
        \/ pruner[w].floor <= tier2(pruner[w].head)
        \/ \A d \in pruner[w].devices : pruner[w].floor <= held[d]
    BY <2>1 DEF IInv, FloorSound
  <2>3. ASSUME NEW d \in pruner[w].devices, pruner[w].floor <= held[d]
        PROVE  pruner[w].floor <= held'[d]
    <3>1. /\ d \in Device /\ held[d] \in Int /\ held'[d] \in Int
          /\ pruner[w].floor \in Nat /\ held[d] <= held'[d]
      BY <1>0 DEF OptEpoch, NoEpoch
    <3>. QED  BY <2>3, <3>1
  <2>. QED  BY <2>1, <2>2, <2>3
<1>. QED
  BY <1>1, <1>2 DEF FloorSound, tier2

(* Where a device stands after its group was set.                          *)
LEMMA StandAtFacts ==
    ASSUME IInv, NEW d \in Device, NEW e \in OptEpoch, StandAt(d, e)
    PROVE  /\ applied' \in [Device -> OptEpoch] /\ held' \in [Device -> OptEpoch]
           /\ applied'[d] = e
           /\ held'[d] = IF held[d] >= e THEN held[d] ELSE e
           /\ \A x \in Device : x # d => /\ applied'[x] = applied[x]
                                         /\ held'[x] = held[x]
<1>1. applied \in [Device -> OptEpoch] /\ held \in [Device -> OptEpoch]
  BY DEF IInv, TypeOK
<1>2. e \in Int /\ held[d] \in Int
  BY <1>1 DEF OptEpoch, NoEpoch
<1>3. Max({held[d], e}) = IF held[d] >= e THEN held[d] ELSE e
  BY <1>2, MaxPair
<1>. QED
  BY <1>1, <1>3 DEF StandAt

(* The types and bounds every action starts from.                          *)
LEMMA Bounds ==
    ASSUME IInv
    PROVE  /\ Len(accepted) \in Nat /\ MaxAhead \in Nat
           /\ applied \in [Device -> OptEpoch] /\ held \in [Device -> OptEpoch]
           /\ welcome \in [Device -> OptEpoch] /\ since \in [Device -> OptEpoch]
           /\ \A d \in Device :
                 /\ applied[d] \in Int /\ held[d] \in Int
                 /\ welcome[d] \in Int /\ since[d] \in Int
                 /\ applied[d] <= held[d] /\ held[d] <= Len(accepted)
                 /\ welcome[d] <= Len(accepted)
                 /\ since[d] <= held[d] + MaxAhead
                 /\ welcome[d] # NoEpoch => held[d] # welcome[d]
BY AheadAssumption DEF IInv, TypeOK, BelowHead, WelcomeApart, OptEpoch, NoEpoch

LEMMA SubmitInv ==
    ASSUME IInv, NEW b, NEW c \in Commit, NEW added \in SUBSET Device,
           Submit(b, c, added)
    PROVE  IInv'
<1>. DEFINE n == Len(accepted)
<1>0. /\ InsertCommit(b, c) /\ StartPrune
      /\ welcome' = [d \in Device |-> IF d \in added THEN b + 1 ELSE welcome[d]]
      /\ UNCHANGED <<since, members, applied, held>>
  BY DEF Submit
<1>1. /\ b = n /\ Len(accepted') = n + 1
      /\ accepted' \in Seq([epoch : Epoch, commit : Commit])
      /\ DOMAIN log' \subseteq Epoch
      /\ \A e \in DOMAIN log' : log'[e] \in Commit
      /\ GaplessSuffix' /\ RowsAreWinners' /\ EpochsWonInOrder'
  BY <1>0, InsertFacts
<1>2. PrunesKept /\ n \in Nat
  BY <1>0, StartPruneFacts, Bounds
<1>3. /\ welcome' \in [Device -> OptEpoch]
      /\ \A d \in Device : welcome'[d] = IF d \in added THEN n + 1 ELSE welcome[d]
  BY <1>0, <1>1, <1>2, Bounds DEF OptEpoch
<1>4. TypeOK'
  BY <1>0, <1>1, <1>2, <1>3 DEF IInv, TypeOK, PrunesKept
<1>5. /\ FloorBelowHead' /\ FloorSound'
      /\ \A w \in Worker : pruner'[w].head <= Len(accepted')
  BY <1>0, <1>1, <1>2, Bounds, FloorsKept
<1>. HIDE DEF n
<1>6. \A d \in Device : held[d] \in Int /\ held[d] <= n /\ welcome[d] \in Int /\ welcome[d] <= n
  BY Bounds DEF n
<1>7. BelowHead'
  <2>1. \A d \in Device : held[d] <= n + 1 /\ welcome'[d] <= n + 1
    BY <1>2, <1>3, <1>6
  <2>. QED  BY <2>1, <1>0, <1>1, <1>5, Bounds DEF BelowHead
<1>8. WelcomeApart'
  <2>1. ASSUME NEW d \in Device, welcome'[d] # NoEpoch
        PROVE  held[d] # welcome'[d]
    <3>1. CASE d \in added
      BY <3>1, <1>2, <1>3, <1>6
    <3>2. CASE d \notin added
      BY <2>1, <3>2, <1>3, Bounds
    <3>. QED  BY <3>1, <3>2
  <2>. QED  BY <2>1, <1>0 DEF WelcomeApart
<1>. QED
  BY <1>1, <1>4, <1>5, <1>7, <1>8 DEF IInv

LEMMA ExternalJoinInv ==
    ASSUME IInv, NEW d \in Device, NEW b, NEW c \in Commit, ExternalJoin(d, b, c)
    PROVE  IInv'
<1>. DEFINE n == Len(accepted)
<1>0. /\ InsertCommit(b, c) /\ StartPrune /\ StandAt(d, b + 1)
      /\ UNCHANGED <<since, members, welcome>>
  BY DEF ExternalJoin
<1>1. /\ b = n /\ Len(accepted') = n + 1
      /\ accepted' \in Seq([epoch : Epoch, commit : Commit])
      /\ DOMAIN log' \subseteq Epoch
      /\ \A e \in DOMAIN log' : log'[e] \in Commit
      /\ GaplessSuffix' /\ RowsAreWinners' /\ EpochsWonInOrder'
  BY <1>0, InsertFacts
<1>2. PrunesKept /\ n \in Nat
  BY <1>0, StartPruneFacts, Bounds
<1>3. /\ applied' \in [Device -> OptEpoch] /\ held' \in [Device -> OptEpoch]
      /\ applied'[d] = n + 1 /\ held'[d] = IF held[d] >= n + 1 THEN held[d] ELSE n + 1
      /\ \A x \in Device : x # d => applied'[x] = applied[x] /\ held'[x] = held[x]
  <2>1. b + 1 \in OptEpoch
    BY <1>1, <1>2 DEF OptEpoch
  <2>. QED  BY <2>1, <1>0, <1>1, StandAtFacts
<1>. HIDE DEF n
<1>4. \A x \in Device : /\ held[x] \in Int /\ held[x] <= n
                        /\ welcome[x] \in Int /\ welcome[x] <= n
                        /\ since[x] \in Int /\ since[x] <= held[x] + MaxAhead
                        /\ applied[x] \in Int /\ applied[x] <= held[x]
                        /\ MaxAhead \in Nat
  BY Bounds DEF n
<1>5. held'[d] = n + 1 /\ \A x \in Device : held[x] <= held'[x]
  BY <1>2, <1>3, <1>4
<1>6. TypeOK'
  BY <1>0, <1>1, <1>2, <1>3 DEF IInv, TypeOK, PrunesKept
<1>7. /\ FloorBelowHead' /\ FloorSound'
      /\ \A w \in Worker : pruner'[w].head <= Len(accepted')
  <2>1. Len(accepted') \in Nat /\ Len(accepted) <= Len(accepted')
    BY <1>1, <1>2 DEF n
  <2>. QED  BY <2>1, <1>2, <1>3, <1>5, FloorsKept
<1>8. BelowHead'
  <2>1. \A x \in Device : /\ applied'[x] <= held'[x] /\ held'[x] <= n + 1
                          /\ welcome[x] <= n + 1 /\ since[x] <= held'[x] + MaxAhead
    BY <1>2, <1>3, <1>4, <1>5
  <2>. QED  BY <2>1, <1>0, <1>1, <1>7 DEF BelowHead
<1>9. WelcomeApart'
  <2>1. \A x \in Device : welcome[x] # NoEpoch => held'[x] # welcome[x]
    BY <1>2, <1>3, <1>4, <1>5, Bounds
  <2>. QED  BY <2>1, <1>0 DEF WelcomeApart
<1>. QED
  BY <1>1, <1>6, <1>7, <1>8, <1>9 DEF IInv

(* A step that leaves the table alone keeps what is said of it.            *)
LEMMA TableUnchanged ==
    ASSUME IInv, UNCHANGED <<log, accepted>>
    PROVE  /\ GaplessSuffix' /\ RowsAreWinners' /\ EpochsWonInOrder'
           /\ Len(accepted') = Len(accepted) /\ Len(accepted) \in Nat
BY DEF IInv, TypeOK, GaplessSuffix, RowsAreWinners, EpochsWonInOrder

LEMMA RecordInv ==
    ASSUME IInv, NEW d \in Device, NEW s \in Nat, record_commit_since(d, s)
    PROVE  IInv'
<1>0. /\ UNCHANGED <<log, accepted, members, applied, held, welcome>>
      /\ StartPrune /\ s <= held[d] + MaxAhead
      /\ since' = [since EXCEPT ![d] = Max({since[d], s})]
  BY DEF record_commit_since, clientVars
<1>1. since[d] \in Int /\ since \in [Device -> OptEpoch] /\ since[d] \in OptEpoch
  BY Bounds
<1>2. Max({since[d], s}) = IF since[d] >= s THEN since[d] ELSE s
  BY <1>1, MaxPair
<1>3. /\ since' \in [Device -> OptEpoch]
      /\ \A x \in Device : since'[x] = since[x] \/ (x = d /\ since'[x] = s)
  BY <1>0, <1>1, <1>2 DEF OptEpoch
<1>4. PrunesKept
  BY <1>0, StartPruneFacts
<1>5. TypeOK'
  BY <1>0, <1>3, <1>4 DEF IInv, TypeOK, PrunesKept
<1>6. /\ FloorBelowHead' /\ FloorSound'
      /\ \A w \in Worker : pruner'[w].head <= Len(accepted')
  BY <1>0, <1>4, Bounds, TableUnchanged, FloorsKept
<1>7. BelowHead' /\ WelcomeApart'
  <2>1. \A x \in Device : since'[x] <= held[x] + MaxAhead
    BY <1>0, <1>3, Bounds
  <2>2. BelowHead'
    BY <2>1, <1>0, <1>6 DEF IInv, BelowHead
  <2>. QED  BY <2>2, <1>0 DEF IInv, WelcomeApart
<1>. QED
  BY <1>0, <1>5, <1>6, <1>7, TableUnchanged DEF IInv

(* A prune step that only reads, or gives up, keeps the invariant when the *)
(* worker's new record satisfies what is said of records.                  *)
LEMMA PruneReadInv ==
    ASSUME IInv, NEW w \in Worker, NEW p \in PruneState,
           pruner' = [pruner EXCEPT ![w] = p],
           UNCHANGED <<log, accepted, since, members, clientVars>>,
           p.head <= Len(accepted),
           p.floor = 0 \/ p.floor < Len(accepted),
           p.at = "delete" => \/ p.floor = 0
                              \/ p.floor <= tier2(p.head)
                              \/ \A d \in p.devices : p.floor <= held[d]
    PROVE  IInv'
<1>1. pruner \in [Worker -> PruneState]
  BY DEF IInv, TypeOK
<1>2. \A v \in Worker : pruner'[v] = IF v = w THEN p ELSE pruner[v]
  BY <1>1
<1>3. TypeOK'
  BY <1>1 DEF IInv, TypeOK, clientVars
<1>4. BelowHead' /\ FloorBelowHead' /\ WelcomeApart'
  BY <1>2 DEF IInv, BelowHead, FloorBelowHead, WelcomeApart, clientVars
<1>5. FloorSound'
  <2>1. ASSUME NEW v \in Worker, pruner'[v].at = "delete"
        PROVE  \/ pruner'[v].floor = 0
               \/ pruner'[v].floor <= tier2(pruner'[v].head)
               \/ \A d \in pruner'[v].devices : pruner'[v].floor <= held[d]
    BY <1>2, <2>1 DEF IInv, FloorSound
  <2>. QED
    BY <2>1 DEF FloorSound, tier2, clientVars
<1>. QED
  BY <1>3, <1>4, <1>5, TableUnchanged DEF IInv

LEMMA PruneStepInv ==
    ASSUME IInv, NEW w \in Worker, PruneStep(w)
    PROVE  IInv'
<1>. DEFINE p == pruner[w]
<1>0. /\ TypeOK /\ p \in PruneState /\ pruner \in [Worker -> PruneState]
      /\ p.head <= Len(accepted) /\ (p.floor = 0 \/ p.floor < Len(accepted))
      /\ head_epoch = Len(accepted) /\ head_epoch \in Nat
  BY HeadIsLength DEF IInv, TypeOK, BelowHead, FloorBelowHead
<1>1. CASE PruneReadHead(w)
  <2>. DEFINE q == [p EXCEPT !.at = "members", !.head = head_epoch]
  <2>1. /\ pruner' = [pruner EXCEPT ![w] = q]
        /\ UNCHANGED <<log, accepted, since, members, clientVars>>
    BY <1>0, <1>1 DEF PruneReadHead, PruneState
  <2>2. /\ q \in PruneState /\ q.head = head_epoch /\ q.floor = p.floor
        /\ q.at = "members"
    BY <1>0 DEF PruneState
  <2>3. q.head <= Len(accepted) /\ (q.floor = 0 \/ q.floor < Len(accepted))
    <3>. HIDE DEF q, p
    <3>. QED  BY <1>0, <2>2
  <2>. HIDE DEF q, p
  <2>. QED  BY <2>1, <2>2, <2>3, PruneReadInv
<1>2. CASE PruneReadMembers(w)
  <2>. DEFINE q == [p EXCEPT !.at = "recorded", !.devices = members]
  <2>1. /\ pruner' = [pruner EXCEPT ![w] = q]
        /\ UNCHANGED <<log, accepted, since, members, clientVars>>
    BY <1>0, <1>2 DEF PruneReadMembers, PruneState
  <2>2. /\ q \in PruneState /\ q.head = p.head /\ q.floor = p.floor
        /\ q.at = "recorded"
    BY <1>0 DEF PruneState, TypeOK
  <2>. HIDE DEF q, p
  <2>. QED  BY <1>0, <2>1, <2>2, PruneReadInv
<1>3. CASE PruneReadSince(w)
  <2>. DEFINE f == prune_floor(p.devices, since, p.head)
              q == [p EXCEPT !.at = "delete", !.floor = f]
  <2>1. /\ pruner' = [pruner EXCEPT ![w] = q]
        /\ UNCHANGED <<log, accepted, since, members, clientVars>>
    BY <1>0, <1>3 DEF PruneReadSince, PruneState
  <2>2. /\ p.devices \in SUBSET Device /\ since \in [Device -> OptEpoch]
        /\ p.head \in Nat /\ Len(accepted) \in Nat
        /\ \A d \in Device : since[d] <= Len(accepted) + MaxAhead
    BY <1>0, Bounds DEF PruneState
  <2>3. /\ f \in Nat /\ (f = 0 \/ f < Len(accepted))
        /\ f = 0 \/ f <= tier2(p.head) \/ \A d \in p.devices : f + MaxAhead < since[d]
    <3>. HIDE DEF p
    <3>. QED  BY <1>0, <2>2, FloorFacts
  <2>4. /\ q \in PruneState /\ q.head = p.head /\ q.floor = f
        /\ q.devices = p.devices
    <3>. HIDE DEF f
    <3>. QED  BY <1>0, <2>3 DEF PruneState
  <2>5. f = 0 \/ f <= tier2(p.head) \/ \A d \in p.devices : f <= held[d]
    <3>1. ASSUME NEW d \in p.devices, f + MaxAhead < since[d] PROVE f <= held[d]
      <4>1. /\ d \in Device /\ since[d] \in Int /\ held[d] \in Int
            /\ MaxAhead \in Nat /\ since[d] <= held[d] + MaxAhead
        BY <2>2, Bounds
      <4>. HIDE DEF f
      <4>. QED  BY <2>3, <3>1, <4>1
    <3>. HIDE DEF f, p
    <3>. QED  BY <2>3, <3>1
  <2>. HIDE DEF q, p, f
  <2>. QED  BY <1>0, <2>1, <2>3, <2>4, <2>5, PruneReadInv
<1>4. CASE PruneAbandon(w)
  <2>1. Idle \in PruneState /\ Idle.head = 0 /\ Idle.floor = 0 /\ Idle.at = "idle"
    BY DEF Idle, PruneState
  <2>2. /\ pruner' = [pruner EXCEPT ![w] = Idle]
        /\ UNCHANGED <<log, accepted, since, members, clientVars>>
    BY <1>4 DEF PruneAbandon
  <2>3. Idle.head <= Len(accepted)
    BY <1>0, <2>1
  <2>. QED  BY <2>1, <2>2, <2>3, PruneReadInv
<1>5. CASE PruneDelete(w)
  <2>1. /\ DOMAIN log' = {e \in DOMAIN log : e >= p.floor}
        /\ \A e \in DOMAIN log' : log'[e] = log[e]
        /\ pruner' = [pruner EXCEPT ![w] = Idle]
        /\ UNCHANGED <<accepted, since, members, clientVars>>
    BY <1>5 DEF PruneDelete, Restrict
  <2>2. p.floor \in Nat /\ Len(accepted) \in Nat /\ DOMAIN log \subseteq Nat
    BY <1>0 DEF PruneState, TypeOK, Epoch
  <2>3. GaplessSuffix'
    <3>. HIDE DEF p
    <3>. QED  BY <1>0, <2>1, <2>2 DEF IInv, GaplessSuffix
  <2>4. RowsAreWinners' /\ EpochsWonInOrder'
    BY <2>1 DEF IInv, RowsAreWinners, EpochsWonInOrder
  <2>5. /\ Idle \in PruneState /\ Idle.head = 0 /\ Idle.floor = 0
        /\ Idle.at = "idle"
        /\ \A v \in Worker : pruner'[v] = IF v = w THEN Idle ELSE pruner[v]
    BY <1>0, <2>1 DEF Idle, PruneState
  <2>6. TypeOK'
    BY <1>0, <2>1, <2>5 DEF TypeOK, clientVars
  <2>7. BelowHead' /\ FloorBelowHead' /\ WelcomeApart'
    BY <2>1, <2>2, <2>5
       DEF IInv, BelowHead, FloorBelowHead, WelcomeApart, clientVars
  <2>8. FloorSound'
    BY <2>1, <2>5 DEF IInv, FloorSound, clientVars, tier2
  <2>. QED
    BY <2>3, <2>4, <2>6, <2>7, <2>8 DEF IInv
<1>. QED
  BY <1>1, <1>2, <1>3, <1>4, <1>5 DEF PruneStep

(* A step that moves one device, or none, to an epoch the log has reached  *)
(* keeps the invariant, provided it does not come to rest at its Welcome.  *)
LEMMA ClientInv ==
    ASSUME IInv, UNCHANGED <<log, accepted, since, pruner>>,
           members' \subseteq Device, welcome' \in [Device -> OptEpoch],
           NEW d \in Device, NEW e \in OptEpoch, StandAt(d, e),
           e <= Len(accepted),
           \A x \in Device : welcome'[x] \in {welcome[x], NoEpoch},
           welcome'[d] # NoEpoch => e <= held[d] \/ e # welcome[d]
    PROVE  IInv'
<1>1. /\ applied' \in [Device -> OptEpoch] /\ held' \in [Device -> OptEpoch]
      /\ applied'[d] = e
      /\ held'[d] = IF held[d] >= e THEN held[d] ELSE e
      /\ \A x \in Device : x # d => /\ applied'[x] = applied[x]
                                    /\ held'[x] = held[x]
  BY StandAtFacts
<1>2. e \in Int
  BY DEF OptEpoch, NoEpoch
<1>3. TypeOK'
  BY <1>1 DEF IInv, TypeOK
<1>4. ASSUME NEW x \in Device
      PROVE  /\ held[x] <= held'[x] /\ held'[x] <= Len(accepted)
             /\ applied'[x] <= held'[x]
             /\ welcome'[x] <= Len(accepted)
             /\ since[x] <= held'[x] + MaxAhead
  <2>1. /\ Len(accepted) \in Nat /\ MaxAhead \in Nat
        /\ applied[x] \in Int /\ held[x] \in Int
        /\ welcome[x] \in Int /\ since[x] \in Int
        /\ applied[x] <= held[x] /\ held[x] <= Len(accepted)
        /\ welcome[x] <= Len(accepted) /\ since[x] <= held[x] + MaxAhead
    BY Bounds
  <2>2. welcome'[x] <= Len(accepted)
    BY <2>1 DEF NoEpoch
  <2>3. CASE x = d
    BY <1>1, <1>2, <2>1, <2>2, <2>3
  <2>4. CASE x # d
    BY <1>1, <2>1, <2>2, <2>4
  <2>. QED  BY <2>3, <2>4
<1>5. /\ FloorBelowHead' /\ FloorSound'
      /\ \A w \in Worker : pruner'[w].head <= Len(accepted')
  BY <1>1, <1>4, Bounds, TableUnchanged, PrunesUnchanged, FloorsKept
<1>6. BelowHead'
  BY <1>4, <1>5 DEF BelowHead
<1>7. WelcomeApart'
  <2>1. ASSUME NEW x \in Device, welcome'[x] # NoEpoch
        PROVE  held'[x] # welcome'[x]
    BY <2>1, <1>1, <1>2, Bounds
  <2>. QED  BY <2>1 DEF WelcomeApart
<1>. QED
  BY <1>3, <1>5, <1>6, <1>7, TableUnchanged DEF IInv

LEMMA DeviceStepInv ==
    ASSUME IInv, NEW d \in Device, DeviceStep(d)
    PROVE  IInv'
<1>0. /\ Len(accepted) \in Nat /\ members \subseteq Device
      /\ welcome \in [Device -> OptEpoch] /\ NoEpoch \in OptEpoch
      /\ applied[d] \in OptEpoch /\ welcome[d] \in OptEpoch
      /\ applied[d] <= held[d] /\ held[d] <= Len(accepted)
      /\ welcome[d] <= Len(accepted) /\ applied[d] <= Len(accepted)
      /\ NoEpoch <= Len(accepted) /\ NoEpoch <= held[d]
  BY Bounds DEF IInv, TypeOK, OptEpoch, NoEpoch
<1>1. CASE Advance(d)
  <2>1. /\ applied[d] \in Nat /\ applied[d] + 1 <= Len(accepted)
        /\ applied[d] + 1 # welcome[d] /\ StandAt(d, applied[d] + 1)
        /\ UNCHANGED <<log, accepted, since, members, welcome, pruner>>
    BY <1>0, <1>1 DEF Advance, IInv, GaplessSuffix, TypeOK, Epoch
  <2>2. applied[d] + 1 \in OptEpoch
    BY <2>1 DEF OptEpoch
  <2>. QED
    BY <1>0, <2>1, <2>2, ClientInv
<1>2. CASE DropGroup(d)
  BY <1>0, <1>2, ClientInv DEF DropGroup
<1>3. CASE ApplyWelcome(d)
  <2>1. /\ welcome' = [welcome EXCEPT ![d] = NoEpoch]
        /\ UNCHANGED <<log, accepted, since, members, pruner>>
    BY <1>3 DEF ApplyWelcome
  <2>2. PICK e \in {welcome[d], applied[d], NoEpoch} : StandAt(d, e)
    BY <1>3 DEF ApplyWelcome
  <2>3. /\ welcome' \in [Device -> OptEpoch] /\ welcome'[d] = NoEpoch
        /\ \A x \in Device : welcome'[x] \in {welcome[x], NoEpoch}
    BY <1>0, <2>1
  <2>. QED
    BY <1>0, <2>1, <2>2, <2>3, ClientInv
<1>4. CASE EnterRoster(d)
  <2>1. /\ members' \subseteq Device
        /\ UNCHANGED <<log, accepted, since, applied, held, welcome, pruner>>
    BY <1>0, <1>4 DEF EnterRoster, clientVars
  <2>2. TypeOK' /\ BelowHead' /\ WelcomeApart' /\ FloorBelowHead' /\ FloorSound'
    BY <2>1 DEF IInv, TypeOK, BelowHead, WelcomeApart, FloorBelowHead, FloorSound, tier2
  <2>. QED  BY <2>1, <2>2, TableUnchanged DEF IInv
<1>5. CASE LeaveRoster(d)
  <2>1. /\ members' \subseteq Device
        /\ UNCHANGED <<log, accepted, since, welcome, pruner>>
    BY <1>0, <1>5 DEF LeaveRoster
  <2>2. PICK e \in {applied[d], NoEpoch} : StandAt(d, e)
    BY <1>5 DEF LeaveRoster
  <2>. QED
    BY <1>0, <2>1, <2>2, ClientInv
<1>. QED
  BY <1>1, <1>2, <1>3, <1>4, <1>5 DEF DeviceStep

LEMMA NextInv == IInv /\ [Next]_vars => IInv'
<1>. SUFFICES ASSUME IInv, [Next]_vars PROVE IInv'
  OBVIOUS
<1>1. ASSUME NEW b \in 0 .. MaxEpoch, NEW c \in Commit,
             NEW added \in SUBSET Device, Submit(b, c, added)
      PROVE  IInv'
  BY <1>1, SubmitInv
<1>2. ASSUME NEW b \in 0 .. MaxEpoch, NEW c \in Commit,
             NEW d \in Device, ExternalJoin(d, b, c)
      PROVE  IInv'
  BY <1>2, ExternalJoinInv
<1>3. ASSUME NEW d \in Device, NEW s \in 0 .. MaxEpoch + MaxAhead,
             record_commit_since(d, s)
      PROVE  IInv'
  BY <1>3, RecordInv, BoundAssumption, AheadAssumption
<1>4. ASSUME NEW w \in Worker, PruneStep(w) PROVE IInv'
  BY <1>4, PruneStepInv
<1>5. ASSUME NEW d \in Device, DeviceStep(d) PROVE IInv'
  BY <1>5, DeviceStepInv
<1>6. CASE UNCHANGED vars
  BY <1>6 DEF vars, clientVars, IInv, TypeOK, GaplessSuffix, RowsAreWinners,
     EpochsWonInOrder, BelowHead, WelcomeApart, FloorBelowHead, FloorSound, tier2
<1>. QED
  BY <1>1, <1>2, <1>3, <1>4, <1>5, <1>6 DEF Next

-----------------------------------------------------------------------------
(* The inductive invariant holds in every reachable state.                 *)
THEOREM Invariance == Spec => []IInv
BY InitInv, NextInv, PTL DEF Spec

(* Every variable of the commit log and its clients keeps its type.        *)
THEOREM TypeCorrect == Spec => []TypeOK
BY Invariance, PTL DEF IInv

(* The retained rows of mls_commit_log are always the gapless end of what  *)
(* was accepted, the newest row included, and are the winners' commits,    *)
(* for any number of concurrent submits, reports and prunes.               *)
THEOREM LogIsGapless == Spec => [](GaplessSuffix /\ RowsAreWinners)
BY Invariance, PTL DEF IInv

(* submit_commit never answers Accepted twice for one epoch.               *)
THEOREM OneWinnerPerEpoch == Spec => []EpochsWonInOrder
BY Invariance, PTL DEF IInv

(* prune_commit_log never deletes a commit that a device of the roster it  *)
(* read may have yet to replay, but for the cap and for devices that fell  *)
(* back, for any number of prunes, submits and reports at once.            *)
THEOREM PruneSparesReadMembers == Spec => NoLossForReadMember
<1>1. IInv /\ [Next]_vars =>
        [\A w \in Worker : PruneDelete(w) =>
          \A d \in pruner[w].devices, e \in DOMAIN log \ DOMAIN log' :
             \/ \A n \in Needs(d) : e < n
             \/ e < tier2(pruner[w].head)
             \/ FellBack(d)]_vars
  <2>. SUFFICES ASSUME IInv, NEW w \in Worker, PruneDelete(w),
                       NEW d \in pruner[w].devices,
                       NEW e \in DOMAIN log \ DOMAIN log',
                       NEW n \in Needs(d), ~FellBack(d)
                PROVE  e < n \/ e < tier2(pruner[w].head)
    BY Zenon
  <2>1. /\ e \in Nat /\ d \in Device /\ pruner[w].head \in Nat
        /\ pruner[w].floor \in Nat
    BY DEF IInv, TypeOK, PruneState, Epoch
  <2>2. e < pruner[w].floor
    BY <2>1 DEF PruneDelete, Restrict
  <2>3. tier2(pruner[w].head) \in Nat
    BY <2>1, Tier2Facts
  <2>4. n \in Int /\ held[d] \in Int
    BY <2>1, Bounds DEF Needs
  <2>5. held[d] <= n
    BY <2>4 DEF FellBack
  <2>6. \/ pruner[w].floor <= held[d]
        \/ pruner[w].floor <= tier2(pruner[w].head)
    BY <2>1, <2>2 DEF IInv, FloorSound, PruneDelete
  <2>. QED
    BY <2>1, <2>2, <2>3, <2>4, <2>5, <2>6
<1>. QED
  BY <1>1, Invariance, PTL DEF Spec, NoLossForReadMember

-----------------------------------------------------------------------------
(* Neither epoch a device may go on from is below the highest it held.     *)
Upright(a, m, h) == (a = NoEpoch \/ h <= a) /\ (m = NoEpoch \/ h <= m)

FellBackIs ==
    \A d \in Device : ~FellBack(d) <=> Upright(applied[d], welcome[d], held[d])

LEMMA NotFellBack == IInv => FellBackIs
<1>. SUFFICES ASSUME IInv, NEW d \in Device
              PROVE  ~FellBack(d) <=> Upright(applied[d], welcome[d], held[d])
  BY DEF FellBackIs
<1>1. applied[d] \in Int /\ welcome[d] \in Int /\ held[d] \in Int
  BY Bounds
<1>. QED
  BY <1>1 DEF FellBack, Needs, Upright

(* A step of a device leaves it upright.                                   *)
LEMMA DeviceStaysUpright ==
    ASSUME IInv, NEW d \in Device, DeviceStep(d), NEW x \in Device,
           Upright(applied[x], welcome[x], held[x])
    PROVE  Upright(applied'[x], welcome'[x], held'[x])
<1>0. /\ applied[x] \in Int /\ welcome[x] \in Int /\ held[x] \in Int
      /\ applied[x] <= held[x] /\ NoEpoch \in OptEpoch /\ NoEpoch <= held[x]
      /\ applied[x] \in OptEpoch /\ welcome[x] \in OptEpoch
      /\ welcome \in [Device -> OptEpoch]
      /\ welcome[x] # NoEpoch => held[x] # welcome[x]
  BY Bounds DEF OptEpoch, NoEpoch
<1>1. ASSUME NEW e \in OptEpoch, StandAt(d, e), x # d
      PROVE  applied'[x] = applied[x] /\ held'[x] = held[x]
  BY <1>1, StandAtFacts
<1>2. ASSUME NEW e \in OptEpoch, StandAt(d, e), x = d
      PROVE  applied'[x] = e /\ held'[x] = IF held[x] >= e THEN held[x] ELSE e
  BY <1>2, StandAtFacts
<1>3. CASE Advance(d)
  <2>1. /\ applied[d] \in Nat /\ applied[d] + 1 # welcome[d]
        /\ StandAt(d, applied[d] + 1) /\ welcome' = welcome
    BY <1>3 DEF Advance, IInv, TypeOK, Epoch
  <2>2. applied[d] + 1 \in OptEpoch /\ applied[d] # NoEpoch
    BY <2>1 DEF OptEpoch, NoEpoch
  <2>3. CASE x # d
    BY <1>1, <2>1, <2>2, <2>3
  <2>4. CASE x = d
    BY <1>0, <1>2, <2>1, <2>2, <2>4 DEF Upright
  <2>. QED  BY <2>3, <2>4
<1>4. CASE DropGroup(d)
  <2>1. StandAt(d, NoEpoch) /\ welcome' = welcome
    BY <1>4 DEF DropGroup
  <2>. QED  BY <1>0, <1>1, <1>2, <2>1 DEF Upright
<1>5. CASE ApplyWelcome(d)
  <2>1. PICK e \in {welcome[d], applied[d], NoEpoch} : StandAt(d, e)
    BY <1>5 DEF ApplyWelcome
  <2>2. welcome' = [welcome EXCEPT ![d] = NoEpoch]
    BY <1>5 DEF ApplyWelcome
  <2>3. e \in OptEpoch
    BY <1>0, <2>1, Bounds
  <2>4. CASE x # d
    BY <1>0, <1>1, <2>1, <2>2, <2>3, <2>4
  <2>5. CASE x = d
    <3>1. welcome'[x] = NoEpoch /\ e \in {welcome[x], applied[x], NoEpoch}
      BY <1>0, <2>1, <2>2, <2>5
    <3>2. e \in Int
      BY <2>3 DEF OptEpoch, NoEpoch
    <3>. QED  BY <1>0, <1>2, <2>1, <2>3, <2>5, <3>1, <3>2 DEF Upright
  <2>. QED  BY <2>4, <2>5
<1>6. CASE EnterRoster(d)
  BY <1>6 DEF EnterRoster, clientVars
<1>7. CASE LeaveRoster(d)
  <2>1. PICK e \in {applied[d], NoEpoch} : StandAt(d, e)
    BY <1>7 DEF LeaveRoster
  <2>2. welcome' = welcome /\ e \in OptEpoch
    BY <1>7, <2>1, Bounds, <1>0 DEF LeaveRoster
  <2>3. CASE x # d
    BY <1>1, <2>1, <2>2, <2>3
  <2>4. CASE x = d
    <3>1. e \in {applied[x], NoEpoch}
      BY <2>1, <2>4
    <3>. QED  BY <1>0, <1>2, <2>1, <2>2, <2>4, <3>1 DEF Upright
  <2>. QED  BY <2>3, <2>4
<1>. QED
  BY <1>3, <1>4, <1>5, <1>6, <1>7 DEF DeviceStep

(* A device falls back only when its external join overtakes its Welcome;  *)
(* neither the re-adding of a device that still holds an old group nor a   *)
(* failed Welcome does it.                                                 *)
THEOREM OnlyOvertakingFallsBack == Spec => FallsBackByOvertaking
<1>1. IInv /\ FellBackIs /\ FellBackIs' /\ [Next]_vars =>
        [\A d \in Device : ~FellBack(d) /\ FellBack(d)' =>
          /\ welcome[d] # NoEpoch
          /\ \E b \in 0 .. MaxEpoch, c \in Commit : ExternalJoin(d, b, c)]_vars
  <2>. SUFFICES ASSUME IInv, FellBackIs, FellBackIs', [Next]_vars,
                       NEW x \in Device, ~FellBack(x), FellBack(x)'
                PROVE  /\ welcome[x] # NoEpoch
                       /\ \E b \in 0 .. MaxEpoch, c \in Commit :
                             ExternalJoin(x, b, c)
    OBVIOUS
  <2>1. Upright(applied[x], welcome[x], held[x])
    BY DEF FellBackIs
  <2>2. ~Upright(applied'[x], welcome'[x], held'[x])
    BY DEF FellBackIs
  <2>3. /\ Len(accepted) \in Nat /\ held[x] \in Int /\ held[x] <= Len(accepted)
        /\ applied \in [Device -> OptEpoch] /\ held \in [Device -> OptEpoch]
    BY Bounds
  <2>4. ASSUME UNCHANGED <<applied, welcome, held>> PROVE FALSE
    BY <2>1, <2>2, <2>4
  <2>5. ASSUME NEW b \in 0 .. MaxEpoch, NEW c \in Commit,
               NEW added \in SUBSET Device, Submit(b, c, added)
        PROVE  FALSE
    <3>1. b = Len(accepted) /\ applied' = applied /\ held' = held
      BY <2>5, InsertFacts DEF Submit
    <3>2. welcome'[x] = welcome[x] \/ welcome'[x] = Len(accepted) + 1
      BY <2>5, <3>1 DEF Submit
    <3>. QED  BY <2>1, <2>2, <2>3, <3>1, <3>2 DEF Upright
  <2>6. ASSUME NEW b \in 0 .. MaxEpoch, NEW c \in Commit, NEW d \in Device,
               ExternalJoin(d, b, c)
        PROVE  d = x /\ welcome[x] # NoEpoch
    <3>1. b = Len(accepted) /\ StandAt(d, b + 1) /\ welcome' = welcome
      BY <2>6, InsertFacts DEF ExternalJoin
    <3>2. b + 1 \in OptEpoch /\ b + 1 \in Nat
      BY <2>3, <3>1 DEF OptEpoch
    <3>3. CASE d # x
      <4>1. applied'[x] = applied[x] /\ held'[x] = held[x]
        BY <3>1, <3>2, <3>3, StandAtFacts
      <4>. QED  BY <2>1, <2>2, <3>1, <4>1
    <3>4. CASE d = x /\ welcome[x] = NoEpoch
      <4>1. /\ applied'[x] = b + 1
            /\ held'[x] = IF held[x] >= b + 1 THEN held[x] ELSE b + 1
        BY <3>1, <3>2, <3>4, StandAtFacts
      <4>2. held'[x] = b + 1 /\ welcome'[x] = NoEpoch
        BY <2>3, <3>1, <3>2, <3>4, <4>1
      <4>. QED  BY <2>2, <3>2, <4>1, <4>2 DEF Upright
    <3>. QED  BY <3>3, <3>4
  <2>7. ASSUME NEW d \in Device, NEW s \in 0 .. MaxEpoch + MaxAhead,
               record_commit_since(d, s)
        PROVE  FALSE
    BY <2>4, <2>7 DEF record_commit_since, clientVars
  <2>8. ASSUME NEW w \in Worker, PruneStep(w) PROVE FALSE
    BY <2>4, <2>8 DEF PruneStep, PruneReadHead, PruneReadMembers,
       PruneReadSince, PruneDelete, PruneAbandon, clientVars
  <2>9. ASSUME NEW d \in Device, DeviceStep(d) PROVE FALSE
    BY <2>1, <2>2, <2>9, DeviceStaysUpright
  <2>10. CASE UNCHANGED vars
    BY <2>4, <2>10 DEF vars, clientVars
  <2>. QED
    BY <2>5, <2>6, <2>7, <2>8, <2>9, <2>10 DEF Next
<1>. QED
  BY <1>1, Invariance, NotFellBack, PTL DEF Spec, FallsBackByOvertaking

-----------------------------------------------------------------------------
(* What the refinement mapping is once the invariant is known.             *)
ViewIsWinners ==
    /\ ChainView = [i \in 1 .. Len(accepted) |-> accepted[i].commit]
    /\ Len(accepted) \in Nat

LEMMA ChainViewIs == IInv => ViewIsWinners
<1>. SUFFICES ASSUME IInv PROVE ViewIsWinners
  OBVIOUS
<1>1. head_epoch = Len(accepted) /\ Len(accepted) \in Nat
  BY HeadIsLength DEF IInv
<1>2. ASSUME NEW i \in 1 .. Len(accepted), i - 1 \in DOMAIN log
      PROVE  log[i - 1] = accepted[i].commit
  BY <1>1, <1>2 DEF IInv, RowsAreWinners
<1>. QED
  BY <1>1, <1>2 DEF ChainView, ViewIsWinners

LEMMA ChainAppends ==
    ASSUME IInv, ViewIsWinners, ViewIsWinners',
           NEW b, NEW c \in Commit, InsertCommit(b, c)
    PROVE  ChainView' = Append(ChainView, c)
<1>. DEFINE n == Len(accepted)
            v == [i \in 1 .. n |-> accepted[i].commit]
            w == [i \in 1 .. n + 1 |-> accepted'[i].commit]
<1>1. n \in Nat /\ accepted \in Seq([epoch : Epoch, commit : Commit])
  BY DEF IInv, TypeOK
<1>2. /\ accepted' = Append(accepted, [epoch |-> b, commit |-> c])
      /\ Len(accepted') = n + 1
  BY InsertFacts DEF InsertCommit
<1>3. /\ \A i \in 1 .. n : accepted'[i] = accepted[i]
      /\ accepted'[n + 1].commit = c
  BY <1>1, <1>2
<1>4. ChainView = v /\ ChainView' = w
  BY <1>2 DEF ViewIsWinners
<1>5. \A i \in 1 .. n : accepted[i] \in [epoch : Epoch, commit : Commit]
  BY <1>1, ElementOfSeq
<1>6. v \in [1 .. n -> Commit]
  BY <1>5
<1>7. v \in Seq(Commit) /\ Len(v) = n
  <2>. HIDE DEF v
  <2>. QED  BY <1>1, <1>6
<1>8. /\ \A i \in 1 .. n : w[i] = v[i]
      /\ w[n + 1] = c
  BY <1>1, <1>3
<1>9. w \in [1 .. n + 1 -> Commit]
  <2>1. ASSUME NEW i \in 1 .. n + 1 PROVE w[i] \in Commit
    <3>1. CASE i \in 1 .. n
      BY <3>1, <1>6, <1>8
    <3>2. CASE i = n + 1
      BY <3>2, <1>8
    <3>. QED  BY <3>1, <3>2, <1>1
  <2>. QED  BY <2>1
<1>10. w \in Seq(Commit) /\ Len(w) = n + 1
  <2>. HIDE DEF w
  <2>. QED  BY <1>1, <1>9
<1>11. w = Append(v, c)
  <2>. HIDE DEF v, w, n
  <2>1. /\ Append(v, c) \in Seq(Commit) /\ Len(Append(v, c)) = n + 1
        /\ \A i \in 1 .. n : Append(v, c)[i] = v[i]
        /\ Append(v, c)[n + 1] = c
    BY <1>7
  <2>2. \A i \in 1 .. n + 1 : w[i] = Append(v, c)[i]
    BY <1>1, <1>8, <2>1
  <2>. QED
    BY <1>10, <2>1, <2>2, SeqEqual
<1>. QED
  BY <1>4, <1>11

(* The pruned table, seen through its head, is an append-only sequence of  *)
(* commits: no submit, report, prune or restart is ever visible as         *)
(* anything but the addition of one commit at the end.                     *)
THEOREM RefinesAppendLog == Spec => ImplementsAppendLog
<1>1. Init => Chain!Init
  <2>. SUFFICES ASSUME Init PROVE ChainView = << >>
    BY DEF Chain!Init
  <2>1. ChainView = [i \in 1 .. 0 |-> accepted[i].commit]
    BY InitInv, ChainViewIs DEF Init, ViewIsWinners
  <2>. QED  BY <2>1
<1>2. IInv /\ ViewIsWinners /\ ViewIsWinners' /\ [Next]_vars => [Chain!Next]_ChainView
  <2>. SUFFICES ASSUME IInv, ViewIsWinners, ViewIsWinners', [Next]_vars
                PROVE  Chain!Next \/ UNCHANGED ChainView
    OBVIOUS
  <2>1. ASSUME NEW b, NEW c \in Commit, InsertCommit(b, c) PROVE Chain!Next
    BY <2>1, ChainAppends DEF Chain!Next, Chain!Extend
  <2>2. ASSUME accepted' = accepted PROVE UNCHANGED ChainView
    BY <2>2 DEF ViewIsWinners
  <2>3. \/ accepted' = accepted
        \/ \E b \in 0 .. MaxEpoch, c \in Commit : InsertCommit(b, c)
    BY DEF Next, vars, Submit, ExternalJoin, record_commit_since, PruneStep,
       PruneReadHead, PruneReadMembers, PruneReadSince, PruneDelete, PruneAbandon,
       DeviceStep, Advance, DropGroup, ApplyWelcome, EnterRoster, LeaveRoster
  <2>. QED  BY <2>1, <2>2, <2>3
<1>. QED
  BY <1>1, <1>2, Invariance, ChainViewIs, PTL DEF Spec, ImplementsAppendLog, Chain!Spec
=============================================================================
