----------------------------- MODULE ForkProofs -----------------------------
(***************************************************************************)
(* What forks of the block tree cannot do: make nodes disagree on what is  *)
(* final, and make a node judge a branch by another branch's ledger.       *)
(*                                                                         *)
(* First, agreement on finality among any number of nodes, for every block *)
(* tree and every set of faulty delegates below a third.                   *)
(* Two globally final blocks have quorums of finality votes, and two       *)
(* quorums have a delegate in common that is not faulty.  As long as that  *)
(* delegate's node has dropped no local finality, what it has voted for    *)
(* lies on the chain of its locally final block (Keeps), so the two blocks *)
(* do.  FinalBlocksAgreeStrictly asks nothing of the nodes that drop one   *)
(* and counts them with the faulty ones instead.                           *)
(*                                                                         *)
(* Second, ForkCache: a ledger copy is right for a block when connecting   *)
(* or disconnecting keeps it so (ConnectedReads, DisconnectedReads), and   *)
(* the second needs undo records that are.  ProcessForkedChain may write   *)
(* wrong ones, but forgets them, off the active chain, in the same step.   *)
(***************************************************************************)
EXTENDS FinalityNet, ForkCache, FiniteSetTheorems, TLAPS

(* Less than a third of the delegates are faulty. *)
FewFaulty == 3 * Cardinality(Faulty) < Cardinality(Node \cup Faulty)

(***************************************************************************)
(* What each node keeps: the index holds whole chains; the locally final   *)
(* block is on the active chain; quorums are for indexed blocks; and until *)
(* a local finality is dropped, the blocks voted final and the blocks with *)
(* a quorum of confirm votes are on the chain of the locally final block.  *)
(***************************************************************************)
Keeps(s) ==
  /\ s.tip \in s.index /\ s.mostWork \in s.index
  /\ \A b \in s.index : Chain[b] \subseteq s.index
  /\ s.localFin \in Chain[s.tip]
  /\ \A kind \in {"confirm", "finality"}, b \in Block :
       <<kind, b>> \in s.counted => b \in s.index
  /\ s.loosened \/ \A b \in Block : <<"finality", b>> \in s.cast => b \in Chain[s.localFin]
  /\ s.loosened \/ \A b \in Block : Quorum(s, "confirm", b) => b \in Chain[s.localFin]

(* The nodes whose local finality has expired or been dropped. *)
Late == {m \in Node : node[m].stale \/ node[m].loosened}

(* A node in state t is late only if it was in state s. *)
NotLater(s, t) == t.stale \/ t.loosened => s.stale \/ s.loosened

(* A quorum of the delegates has voted for b. *)
Supported(kind, b) == Cardinality(Voters(kind, b)) >= Need

(* What the nodes keep together: quorums exist, and so do those of final blocks. *)
Backed ==
  /\ \A n \in Node : \A kind \in {"confirm", "finality"}, b \in Block :
       <<kind, b>> \in node[n].counted => Supported(kind, b)
  /\ \A n \in Node : \A b \in final[n] \cup {node[n].globalFin} :
       b # Genesis => Supported("finality", b)

NetInv == TypeOK /\ Backed /\ \A n \in Node : Keeps(node[n])
-----------------------------------------------------------------------------
(* A set of naturals that is not empty has a least element. *)
LEMMA LeastNatural ==
  ASSUME NEW T \in SUBSET Nat, T # {}
  PROVE  \E n \in T : \A m \in T : n <= m
<1>1. PICK n \in T : \A m \in T : <<m, n>> \notin OpToRel(<, Nat)
  BY WFMin, NatLessThanWellFounded, Zenon
<1>2. \A m \in T : ~(m < n)
  BY <1>1, Zenon DEF OpToRel
<1> QED
  BY <1>2

(* The search from the tip down finds a block if there is one. *)
LEMMA HighestFound ==
  ASSUME NEW t \in Block, NEW S \in SUBSET Chain[t], S # {}
  PROVE  Highest(S) \in S
<1> DEFINE T == {Height[t] - Height[c] : c \in S}
<1>1. \A c \in S : Height[c] \in Nat /\ Height[t] \in Nat /\ Height[c] <= Height[t]
  BY BlockTreeAssumption
<1>2. T \in SUBSET Nat /\ T # {}
  BY <1>1
<1>3. PICK n \in T : \A m \in T : n <= m
  BY <1>2, LeastNatural
<1>4. PICK c \in S : n = Height[t] - Height[c]
  BY <1>3
<1>5. \A d \in S : Height[d] <= Height[c]
  <2> SUFFICES ASSUME NEW d \in S PROVE Height[d] <= Height[c]
    OBVIOUS
  <2>1. n <= Height[t] - Height[d]
    BY <1>3
  <2> QED
    BY <1>1, <1>4, <2>1
<1> QED
  BY <1>5 DEF Highest

(* Two blocks of one chain are comparable. *)
LEMMA OneChain ==
  ASSUME NEW t \in Block, NEW b \in Chain[t], NEW c \in Chain[t]
  PROVE  Comparable(b, c)
<1>1. b \in Block /\ c \in Block
  BY BlockTreeAssumption
<1>2. Height[b] \in Nat /\ Height[c] \in Nat
  BY <1>1, BlockTreeAssumption
<1>3. CASE Height[b] <= Height[c]
  BY <1>3, BlockTreeAssumption DEF Comparable
<1>4. CASE Height[c] <= Height[b]
  BY <1>4, BlockTreeAssumption DEF Comparable
<1> QED
  BY <1>2, <1>3, <1>4

(* The delegates are finitely many, and a quorum is at least one of them. *)
LEMMA NeedType ==
  ASSUME NetAssumption
  PROVE  /\ IsFiniteSet(Node \cup Faulty)
         /\ Cardinality(Node \cup Faulty) \in Nat
         /\ Need \in Nat \ {0}
<1>1. IsFiniteSet(Node \cup Faulty)
  BY FS_Union DEF NetAssumption
<1>2. Cardinality(Node \cup Faulty) \in Nat
  BY <1>1, FS_CardinalityType
<1> QED
  BY <1>1, <1>2 DEF Need, NetAssumption

(* Voters are delegates. *)
LEMMA VotersFinite ==
  ASSUME NetAssumption, NEW kind, NEW b
  PROVE  /\ Voters(kind, b) \subseteq Node \cup Faulty
         /\ IsFiniteSet(Voters(kind, b))
         /\ Cardinality(Voters(kind, b)) \in Nat
<1>1. Voters(kind, b) \subseteq Node \cup Faulty
  BY DEF Voters
<1>2. IsFiniteSet(Voters(kind, b))
  BY <1>1, NeedType, FS_Subset
<1> QED
  BY <1>1, <1>2, FS_CardinalityType

(* Two quorums have a delegate in common that is not faulty. *)
LEMMA QuorumsMeet ==
  ASSUME NetAssumption, FewFaulty, NEW b, NEW c,
         Supported("finality", b), Supported("finality", c)
  PROVE  \E x \in Node : {<<"finality", b>>, <<"finality", c>>} \subseteq node[x].cast
<1> DEFINE All == Node \cup Faulty
           B == Voters("finality", b)
           C == Voters("finality", c)
<1>1. /\ IsFiniteSet(B) /\ IsFiniteSet(C) /\ B \cup C \subseteq All /\ IsFiniteSet(All)
      /\ Cardinality(B) \in Nat /\ Cardinality(C) \in Nat /\ Cardinality(All) \in Nat
  BY VotersFinite, NeedType
<1>2. /\ Cardinality(B \cup C) <= Cardinality(All) /\ IsFiniteSet(B \cup C)
      /\ Cardinality(B \cup C) = Cardinality(B) + Cardinality(C) - Cardinality(B \cap C)
  BY <1>1, FS_Subset, FS_Union
<1>3. /\ Cardinality(B \cup C) \in Nat
      /\ Cardinality(B \cap C) \in Nat /\ IsFiniteSet(B \cap C)
      /\ Cardinality(Faulty) \in Nat /\ IsFiniteSet(Faulty)
  BY <1>1, <1>2, FS_Intersection, FS_CardinalityType DEF NetAssumption
<1>4. Cardinality(B) >= Need /\ Cardinality(C) >= Need
  BY DEF Supported
<1> HIDE DEF All, B, C
<1>5. Cardinality(B \cap C) > Cardinality(Faulty)
  <2>1. Need = Cardinality(All) - Cardinality(All) \div 3 /\ 3 * Cardinality(Faulty) < Cardinality(All)
    BY DEF Need, FewFaulty, All
  <2> QED
    BY <1>1, <1>2, <1>3, <1>4, <2>1
<1>6. ~(B \cap C \subseteq Faulty)
  BY <1>3, <1>5, FS_Subset
<1>7. PICK x \in B \cap C : x \notin Faulty
  BY <1>6
<1> QED
  BY <1>7 DEF B, C, Voters
-----------------------------------------------------------------------------
(* The handlers of one node, as functions of its state. *)

(* A vote that is cast changes nothing else. *)
LEMMA VotedChanges ==
  ASSUME NEW s \in State, NEW kind \in {"confirm", "finality"}, NEW b \in Block
  PROVE  LET t == Voted(s, kind, b) IN
         /\ t \in State
         /\ s.cast \subseteq t.cast /\ t.cast \subseteq s.cast \cup {<<kind, b>>}
         /\ t = s \/ <<kind, b>> \in t.cast
         /\ NotLater(s, t)
         /\ t.index = s.index /\ t.mostWork = s.mostWork /\ t.tip = s.tip
         /\ t.localFin = s.localFin /\ t.globalFin = s.globalFin
         /\ t.miners = s.miners /\ t.counted = s.counted /\ t.loosened = s.loosened
BY DEF Voted, State, Ballot, NotLater

(* A local finality changes nothing else of what is kept. *)
LEMMA LocalFinChanges ==
  ASSUME NEW s \in State, NEW b \in Block, NEW t, t = WithLocalFin(s, b)
  PROVE  /\ t \in State /\ t.localFin = b /\ NotLater(s, t)
         /\ t.index = s.index /\ t.mostWork = s.mostWork /\ t.tip = s.tip
         /\ t.globalFin = s.globalFin /\ t.cast = s.cast
         /\ t.miners = s.miners /\ t.counted = s.counted /\ t.loosened = s.loosened
BY DEF WithLocalFin, State, NotLater

(* Nor does a global finality. *)
LEMMA GlobalFinChanges ==
  ASSUME NEW s \in State, NEW b \in Block, NEW t, t = WithGlobalFin(s, b)
  PROVE  /\ t \in State /\ t.globalFin \in {s.globalFin, b} /\ NotLater(s, t)
         /\ t.index = s.index /\ t.mostWork = s.mostWork /\ t.tip = s.tip
         /\ t.localFin = s.localFin /\ t.cast = s.cast
         /\ t.miners = s.miners /\ t.counted = s.counted /\ t.loosened = s.loosened
BY DEF WithGlobalFin, State, NotLater

(* A quorum that is counted changes nothing else. *)
LEMMA CountedChanges ==
  ASSUME NEW s \in State, NEW kind \in {"confirm", "finality"}, NEW t, t = Counted(s, kind)
  PROVE  /\ t \in State /\ t.counted = s.counted \cup {<<kind, s.tip>>} /\ NotLater(s, t)
         /\ t.index = s.index /\ t.mostWork = s.mostWork /\ t.tip = s.tip
         /\ t.localFin = s.localFin /\ t.cast = s.cast /\ t.globalFin = s.globalFin
         /\ t.miners = s.miners /\ t.loosened = s.loosened
BY DEF Counted, State, Ballot, NotLater

(***************************************************************************)
(* ActivateBestChain: the tip is the new block, the old tip or the target; *)
(* the local finality block stays on the chain or is dropped.              *)
(***************************************************************************)
LEMMA ActivateChanges ==
  ASSUME NEW s \in State, NEW b \in Block, s.tip \in s.index /\ s.mostWork \in s.index,
         s.localFin \in Chain[s.tip], NEW t, t = ActivateBestChain(s, b)
  PROVE  /\ t \in State /\ t.index = s.index \cup {b}
         /\ t.tip \in t.index /\ t.mostWork \in t.index
         /\ t.localFin \in Chain[t.tip]
         /\ s.loosened => t.loosened
         /\ NotLater(s, t)
         /\ t.localFin = s.localFin \/ t.loosened
         /\ t.globalFin = s.globalFin /\ t.cast = s.cast
         /\ t.miners = s.miners /\ t.counted = s.counted
<1> DEFINE target    == IF Height[b] > Height[s.mostWork] THEN b ELSE s.mostWork
           reverted  == Chain[s.tip] \ Chain[target]
           globalHit == s.globalFin \in reverted
           localHit  == /\ s.localFin \in reverted
                        /\ globalHit => Height[s.globalFin] <= Height[s.localFin]
           dropped   == localHit /\ s.stale
           refused   == globalHit \/ (localHit /\ ~s.stale)
           newTip    == IF refused /\ Parent[b] = s.tip THEN b
                        ELSE IF refused THEN s.tip ELSE target
<1>1. t = [s EXCEPT !.index    = @ \cup {b},
                    !.mostWork = target,
                    !.localFin = IF dropped THEN Genesis ELSE @,
                    !.stale    = @ /\ ~dropped,
                    !.loosened = @ \/ dropped,
                    !.tip      = newTip]
  BY Zenon DEF ActivateBestChain
<1>2. /\ s.tip \in Block /\ s.mostWork \in Block /\ s.index \subseteq Block
      /\ s.localFin \in Block /\ Genesis \in Block /\ s.stale \in BOOLEAN /\ s.loosened \in BOOLEAN
  BY BlockTreeAssumption DEF State
<1>3. target \in Block /\ target \in s.index \cup {b}
  BY <1>2
<1>4. newTip \in s.index \cup {b} /\ newTip \in Block
  BY <1>2, <1>3
<1>5. s.localFin \in Chain[newTip] \/ dropped
  <2>1. CASE refused
    <3>1. newTip = s.tip \/ (newTip = b /\ s.tip = Parent[b])
      BY <2>1
    <3>2. Parent[b] = s.tip => Chain[s.tip] \subseteq Chain[b]
      BY BlockTreeAssumption
    <3> QED
      BY <3>1, <3>2
  <2>2. CASE ~refused
    <3>1. newTip = target
      BY <2>2
    <3>2. s.localFin \notin reverted \/ dropped
      BY <2>2
    <3> QED
      BY <3>1, <3>2
  <2> QED
    BY <2>1, <2>2
<1>6. Genesis \in Chain[newTip] /\ (dropped => s.stale)
  BY <1>4, BlockTreeAssumption
<1> HIDE DEF target, dropped, newTip
<1>7. /\ t.index = s.index \cup {b} /\ t.mostWork = target /\ t.tip = newTip
      /\ t.localFin = (IF dropped THEN Genesis ELSE s.localFin)
      /\ t.loosened = (s.loosened \/ dropped) /\ t.stale = (s.stale /\ ~dropped)
      /\ t.globalFin = s.globalFin /\ t.cast = s.cast
      /\ t.miners = s.miners /\ t.counted = s.counted
  BY <1>1 DEF State
<1>8. t \in State
  <2> DEFINE fin   == IF dropped THEN Genesis ELSE s.localFin
             stale == s.stale /\ ~dropped
             loose == s.loosened \/ dropped
  <2>1. fin \in Block /\ stale \in BOOLEAN /\ loose \in BOOLEAN
    BY <1>2
  <2>2. t = [s EXCEPT !.index = @ \cup {b}, !.mostWork = target, !.localFin = fin,
                      !.stale = stale, !.loosened = loose, !.tip = newTip]
    BY <1>1
  <2> DEFINE indexed == s.index \cup {b}
  <2>3. indexed \in SUBSET Block
    BY <1>2
  <2>4. t = [s EXCEPT !.index = indexed, !.mostWork = target, !.localFin = fin,
                      !.stale = stale, !.loosened = loose, !.tip = newTip]
    BY <2>2
  <2> HIDE DEF fin, stale, loose, indexed
  <2> QED
    BY <1>3, <1>4, <2>1, <2>3, <2>4 DEF State
<1>9. NotLater(s, t)
  BY <1>6, <1>7 DEF NotLater
<1> QED
  BY <1>2, <1>3, <1>4, <1>5, <1>6, <1>7, <1>8, <1>9

(***************************************************************************)
(* What a handler may do to the other nodes: it takes back no vote, and    *)
(* only a block with a quorum becomes globally final.                      *)
(***************************************************************************)
Advances(s, t) ==
  /\ s.cast \subseteq t.cast
  /\ \/ t.globalFin = s.globalFin
     \/ t.globalFin \in Block /\ <<"finality", t.globalFin>> \in t.counted

(***************************************************************************)
(* The end of AcceptBlock keeps what a node keeps: until a local finality  *)
(* is dropped every confirmed block is final already, so its search finds  *)
(* nothing, and it votes for no block's finality.                          *)
(***************************************************************************)
LEMMA PostAcceptKeeps ==
  ASSUME NEW u \in State, Keeps(u), NEW b \in Block \ u.index, Parent[b] \in u.index,
         NEW s, s = ActivateBestChain(u, b), s.tip = b, NEW t, t = PostAccept(s)
  PROVE  /\ t \in State /\ Keeps(t) /\ Advances(s, t) /\ t.counted = s.counted
         /\ NotLater(s, t)
<1> DEFINE recorded  == [s EXCEPT !.miners = @ \cup {s.tip}]
           confirmed == Voted(recorded, "confirm", s.tip)
           locals    == Above(confirmed, "confirm", s.localFin)
           final1    == WithLocalFin(confirmed, Highest(locals))
           voted     == Voted(final1, "finality", s.tip)
           globals   == Above(voted, "finality", s.globalFin)
<1>1. /\ s \in State /\ s.index = u.index \cup {b} /\ s.tip \in s.index /\ s.mostWork \in s.index
      /\ s.localFin \in Chain[b]
      /\ s.localFin = u.localFin \/ s.loosened
      /\ u.loosened => s.loosened
      /\ s.globalFin = u.globalFin /\ s.cast = u.cast
      /\ s.miners = u.miners /\ s.counted = u.counted
  BY ActivateChanges DEF Keeps
<1>2. \A c \in s.index : Chain[c] \subseteq s.index
  <2>1. Chain[b] \subseteq s.index
    BY <1>1, BlockTreeAssumption DEF Keeps
  <2> QED
    BY <1>1, <2>1 DEF Keeps
<1>3. \A c \in u.index : Parent[c] # b
  <2> SUFFICES ASSUME NEW c \in u.index PROVE Parent[c] \in u.index
    OBVIOUS
  <2>1. c \in Block
    BY DEF State
  <2>2. Parent[c] \in Chain[c]
    BY <2>1, BlockTreeAssumption
  <2> QED
    BY <2>2 DEF Keeps
<1>4. /\ recorded \in State /\ recorded.miners = s.miners \cup {b}
      /\ recorded.index = s.index /\ recorded.mostWork = s.mostWork /\ recorded.tip = s.tip
      /\ recorded.localFin = s.localFin /\ recorded.globalFin = s.globalFin
      /\ recorded.cast = s.cast /\ recorded.counted = s.counted
      /\ recorded.loosened = s.loosened /\ recorded.stale = s.stale
  BY <1>1 DEF State
<1>5. /\ confirmed \in State /\ s.cast \subseteq confirmed.cast
      /\ confirmed.cast \subseteq s.cast \cup {<<"confirm", b>>}
      /\ confirmed.miners = s.miners \cup {b}
      /\ confirmed.index = s.index /\ confirmed.mostWork = s.mostWork /\ confirmed.tip = s.tip
      /\ confirmed.localFin = s.localFin /\ confirmed.globalFin = s.globalFin
      /\ confirmed.counted = s.counted /\ confirmed.loosened = s.loosened
      /\ NotLater(s, confirmed)
  <2>1. confirmed = Voted(recorded, "confirm", b) /\ b \in Block
    BY DEF confirmed
  <2> HIDE DEF recorded, confirmed
  <2>2. recorded \in State /\ "confirm" \in {"confirm", "finality"}
    BY <1>4
  <2>3. /\ confirmed \in State /\ recorded.cast \subseteq confirmed.cast
        /\ confirmed.cast \subseteq recorded.cast \cup {<<"confirm", b>>}
        /\ confirmed.miners = recorded.miners /\ confirmed.index = recorded.index
        /\ confirmed.mostWork = recorded.mostWork /\ confirmed.tip = recorded.tip
        /\ confirmed.localFin = recorded.localFin
        /\ confirmed.globalFin = recorded.globalFin
        /\ confirmed.counted = recorded.counted
        /\ confirmed.loosened = recorded.loosened
        /\ NotLater(recorded, confirmed)
    BY <2>1, <2>2 DEF Voted, State, Ballot, NotLater
  <2>4. NotLater(s, confirmed)
    BY <1>4, <2>3 DEF NotLater
  <2> QED
    BY <1>4, <2>3, <2>4
<1> HIDE DEF recorded, confirmed
<1>6. ASSUME ~s.loosened, NEW c \in Block, Quorum(confirmed, "confirm", c)
      PROVE  c \in Chain[s.localFin]
  <2>1. Parent[c] \in s.miners \cup {b} /\ <<"confirm", c>> \in u.counted
    BY <1>1, <1>5, <1>6 DEF Quorum
  <2>2. c \in u.index
    BY <2>1 DEF Keeps
  <2>3. Quorum(u, "confirm", c)
    BY <1>1, <1>3, <2>1, <2>2 DEF Quorum
  <2> QED
    BY <1>1, <1>6, <2>3 DEF Keeps
<1>7. CASE locals = {}
  <2>1. t = confirmed
    BY <1>7 DEF PostAccept, recorded, confirmed
  <2>2. \A kind \in {"confirm", "finality"}, c \in Block :
          <<kind, c>> \in t.counted => c \in t.index
    BY <1>1, <1>5, <2>1 DEF Keeps
  <2>3. t.loosened \/ \A c \in Block : <<"finality", c>> \in t.cast => c \in Chain[t.localFin]
    BY <1>1, <1>5, <2>1 DEF Keeps
  <2>4. t.loosened \/ \A c \in Block : Quorum(t, "confirm", c) => c \in Chain[t.localFin]
    BY <1>5, <1>6, <2>1
  <2>5. Keeps(t)
    <3>1. t.index = s.index /\ t.mostWork = s.mostWork /\ t.tip = b /\ t.localFin = s.localFin
      BY <1>5, <2>1
    <3>2. t.tip \in t.index /\ t.mostWork \in t.index
      BY <1>1, <3>1
    <3>3. t.localFin \in Chain[t.tip]
      BY <1>1, <3>1
    <3>4. \A c \in t.index : Chain[c] \subseteq t.index
      BY <1>2, <3>1
    <3> QED
      BY <2>2, <2>3, <2>4, <3>2, <3>3, <3>4, Zenon DEF Keeps
  <2> QED
    BY <1>5, <2>1, <2>5 DEF Advances
<1>8. CASE locals # {}
  <2>1. locals \subseteq Chain[b]
    BY <1>5 DEF Above
  <2>2. Highest(locals) \in Chain[b] /\ Highest(locals) \in Block
    <3> HIDE DEF locals
    <3>1. Highest(locals) \in locals
      BY <1>8, <2>1, HighestFound
    <3> QED
      BY <2>1, <3>1, BlockTreeAssumption
  <2>3. s.loosened
    <3> SUFFICES ASSUME ~s.loosened PROVE FALSE
      OBVIOUS
    <3>1. PICK c \in Chain[b] : Height[c] > Height[s.localFin] /\ Quorum(confirmed, "confirm", c)
      BY <1>5, <1>8 DEF Above
    <3>2. c \in Block /\ c \in Chain[s.localFin] /\ s.localFin \in Block
      BY <1>1, <1>6, <3>1, BlockTreeAssumption
    <3>3. Height[c] <= Height[s.localFin] /\ Height[c] \in Nat /\ Height[s.localFin] \in Nat
      BY <3>2, BlockTreeAssumption
    <3> QED
      BY <3>1, <3>3
  <2>4. /\ final1 \in State /\ final1.localFin = Highest(locals)
        /\ final1.index = s.index /\ final1.mostWork = s.mostWork /\ final1.tip = s.tip
        /\ final1.globalFin = s.globalFin /\ final1.cast = confirmed.cast
        /\ final1.counted = s.counted /\ final1.loosened = s.loosened
        /\ NotLater(confirmed, final1)
    <3> HIDE DEF locals
    <3> QED
      BY <1>5, <2>2, LocalFinChanges
  <2>5. /\ voted \in State /\ voted.localFin = Highest(locals)
        /\ voted.index = s.index /\ voted.mostWork = s.mostWork /\ voted.tip = s.tip
        /\ voted.globalFin = s.globalFin /\ s.cast \subseteq voted.cast
        /\ voted.counted = s.counted /\ voted.loosened = s.loosened
        /\ NotLater(final1, voted)
    <3>1. voted = Voted(final1, "finality", b) /\ b \in Block
      OBVIOUS
    <3> HIDE DEF final1, locals, voted
    <3>2. /\ voted \in State /\ voted.localFin = final1.localFin
          /\ voted.index = final1.index /\ voted.mostWork = final1.mostWork
          /\ voted.tip = final1.tip /\ voted.globalFin = final1.globalFin
          /\ final1.cast \subseteq voted.cast /\ voted.counted = final1.counted
          /\ voted.loosened = final1.loosened /\ NotLater(final1, voted)
      BY <2>4, <3>1 DEF Voted, State, Ballot, NotLater
    <3>3. s.cast \subseteq voted.cast
      BY <1>5, <2>4, <3>2
    <3> QED
      BY <2>4, <3>2, <3>3
  <2>6. t = voted \/ (globals # {} /\ t = WithGlobalFin(voted, Highest(globals)))
    BY <1>8 DEF PostAccept, recorded, confirmed
  <2> HIDE DEF final1, locals, voted
  <2>7. /\ t \in State /\ t.index = s.index /\ t.mostWork = s.mostWork /\ t.tip = s.tip
        /\ t.localFin = Highest(locals) /\ s.cast \subseteq t.cast
        /\ t.counted = s.counted /\ t.loosened = s.loosened
        /\ NotLater(voted, t)
        /\ \/ t.globalFin = s.globalFin
           \/ t.globalFin \in Block /\ <<"finality", t.globalFin>> \in t.counted
    <3>1. CASE t = voted
      BY <2>5, <3>1 DEF NotLater
    <3>2. CASE globals # {} /\ t = WithGlobalFin(voted, Highest(globals))
      <4>1. globals \subseteq Chain[b]
        BY <2>5 DEF Above
      <4>2. Highest(globals) \in globals /\ Highest(globals) \in Block
        <5> HIDE DEF globals
        <5>1. Highest(globals) \in globals
          BY <3>2, <4>1, HighestFound
        <5>2. Chain[b] \subseteq Block
          BY BlockTreeAssumption
        <5> QED
          BY <4>1, <5>1, <5>2
      <4>3. <<"finality", Highest(globals)>> \in voted.counted
        BY <4>2 DEF Above, Quorum
      <4> DEFINE h == Highest(globals)
      <4> HIDE DEF globals, h
      <4>4. voted \in State /\ h \in Block /\ t = WithGlobalFin(voted, h)
        BY <2>5, <3>2, <4>2 DEF h
      <4>5. /\ t \in State /\ t.globalFin \in {voted.globalFin, h} /\ NotLater(voted, t)
            /\ t.index = voted.index /\ t.mostWork = voted.mostWork /\ t.tip = voted.tip
            /\ t.localFin = voted.localFin /\ t.cast = voted.cast
            /\ t.counted = voted.counted /\ t.loosened = voted.loosened
        BY <4>4 DEF WithGlobalFin, State, NotLater
      <4>6. /\ t.index = s.index /\ t.mostWork = s.mostWork /\ t.tip = s.tip
            /\ t.localFin = Highest(locals) /\ s.cast \subseteq t.cast
            /\ t.counted = s.counted /\ t.loosened = s.loosened
        BY <2>5, <4>5
      <4>7. \/ t.globalFin = s.globalFin
            \/ t.globalFin \in Block /\ <<"finality", t.globalFin>> \in t.counted
        BY <2>5, <4>3, <4>4, <4>5 DEF h
      <4> QED
        BY <4>5, <4>6, <4>7
    <3> QED
      BY <2>6, <3>1, <3>2
  <2>8. Keeps(t)
    <3>1. \A kind \in {"confirm", "finality"}, c \in Block :
            <<kind, c>> \in t.counted => c \in t.index
      BY <1>1, <2>7 DEF Keeps
    <3> QED
      BY <1>1, <1>2, <2>2, <2>3, <2>7, <3>1 DEF Keeps
  <2>9. NotLater(s, t)
    BY <1>5, <2>4, <2>5, <2>7 DEF NotLater
  <2> QED
    BY <2>7, <2>8, <2>9 DEF Advances
<1> QED
  BY <1>7, <1>8

(* AcceptBlock keeps what a node keeps. *)
LEMMA AcceptKeeps ==
  ASSUME NEW u \in State, Keeps(u), NEW b \in Block \ u.index, Parent[b] \in u.index,
         NEW s, s = ActivateBestChain(u, b), NEW t, t = (IF s.tip = b THEN PostAccept(s) ELSE s)
  PROVE  /\ t \in State /\ Keeps(t) /\ Advances(u, t) /\ t.counted = u.counted
         /\ NotLater(u, t)
<1>1. /\ s \in State /\ s.index = u.index \cup {b} /\ NotLater(u, s)
      /\ s.tip \in s.index /\ s.mostWork \in s.index
      /\ s.localFin \in Chain[s.tip]
      /\ s.localFin = u.localFin \/ s.loosened
      /\ u.loosened => s.loosened
      /\ s.globalFin = u.globalFin /\ s.cast = u.cast
      /\ s.miners = u.miners /\ s.counted = u.counted
  BY ActivateChanges DEF Keeps
<1>2. CASE s.tip = b
  <2>1. t = PostAccept(s)
    BY <1>2
  <2>2. /\ t \in State /\ Keeps(t) /\ Advances(s, t) /\ t.counted = s.counted
        /\ NotLater(s, t)
    BY <1>2, <2>1, PostAcceptKeeps
  <2>3. NotLater(u, t)
    BY <1>1, <2>2 DEF NotLater
  <2> QED
    BY <1>1, <2>2, <2>3 DEF Advances
<1>3. CASE s.tip # b
  <2>1. t = s
    BY <1>3
  <2>2. \A c \in s.index : Chain[c] \subseteq s.index
    <3>1. Chain[b] \subseteq s.index
      BY <1>1, BlockTreeAssumption DEF Keeps
    <3> QED
      BY <1>1, <3>1 DEF Keeps
  <2>3. \A kind \in {"confirm", "finality"}, c \in Block :
          <<kind, c>> \in s.counted => c \in s.index
    BY <1>1 DEF Keeps
  <2>4. s.loosened \/ \A c \in Block : <<"finality", c>> \in s.cast => c \in Chain[s.localFin]
    BY <1>1 DEF Keeps
  <2>5. s.loosened \/ \A c \in Block : Quorum(s, "confirm", c) => c \in Chain[s.localFin]
    BY <1>1 DEF Keeps, Quorum
  <2>6. Keeps(s)
    BY <1>1, <2>2, <2>3, <2>4, <2>5, Zenon DEF Keeps
  <2> QED
    BY <1>1, <2>1, <2>6 DEF Advances
<1> QED
  BY <1>2, <1>3

(***************************************************************************)
(* UpdateLocalFinBlock(msg): a quorum for the tip makes it locally final,  *)
(* which then leaves no confirmed block above it, and the finality vote    *)
(* for it is for the locally final block.                                  *)
(***************************************************************************)
LEMMA ConfirmKeeps ==
  ASSUME NEW u \in State, Keeps(u), u.tip # Genesis, NEW s, s = Counted(u, "confirm")
  PROVE  /\ s \in State
         /\ ~(Height[s.tip] > Height[s.localFin] /\ Quorum(s, "confirm", s.tip)) => Keeps(s)
         /\ Keeps(WithLocalFin(s, s.tip))
<1>1. /\ s \in State /\ s.counted = u.counted \cup {<<"confirm", u.tip>>}
      /\ s.index = u.index /\ s.mostWork = u.mostWork /\ s.tip = u.tip
      /\ s.localFin = u.localFin /\ s.cast = u.cast /\ s.globalFin = u.globalFin
      /\ s.miners = u.miners /\ s.loosened = u.loosened
  BY CountedChanges
<1>2. /\ s.tip \in s.index /\ s.mostWork \in s.index /\ s.localFin \in Chain[s.tip]
      /\ \A c \in s.index : Chain[c] \subseteq s.index
  BY <1>1 DEF Keeps
<1>3. /\ s.tip \in Block /\ s.localFin \in Block
      /\ Height[s.tip] \in Nat /\ Height[s.localFin] \in Nat
  BY <1>1, BlockTreeAssumption DEF State
<1>4. \A kind \in {"confirm", "finality"}, c \in Block :
        <<kind, c>> \in s.counted => c \in s.index
  BY <1>1, <1>2 DEF Keeps
<1>5. \A c \in Block : Quorum(s, "confirm", c) => Quorum(u, "confirm", c) \/ c = s.tip
  BY <1>1 DEF Quorum
<1>6. ASSUME ~(Height[s.tip] > Height[s.localFin] /\ Quorum(s, "confirm", s.tip))
      PROVE  Keeps(s)
  <2>1. s.loosened \/ \A c \in Block : <<"finality", c>> \in s.cast => c \in Chain[s.localFin]
    BY <1>1 DEF Keeps
  <2>2. Quorum(s, "confirm", s.tip) => s.tip \in Chain[s.localFin]
    <3> SUFFICES ASSUME Height[s.tip] <= Height[s.localFin] PROVE s.tip \in Chain[s.localFin]
      BY <1>3, <1>6
    <3> QED
      BY <1>2, <1>3, BlockTreeAssumption
  <2>3. s.loosened \/ \A c \in Block : Quorum(s, "confirm", c) => c \in Chain[s.localFin]
    BY <1>1, <1>5, <2>2 DEF Keeps
  <2> QED
    BY <1>2, <1>4, <2>1, <2>3, Zenon DEF Keeps
<1>7. Keeps(WithLocalFin(s, s.tip))
  <2> DEFINE w == WithLocalFin(s, s.tip)
  <2>1. /\ w \in State /\ w.localFin = s.tip
        /\ w.index = s.index /\ w.mostWork = s.mostWork /\ w.tip = s.tip
        /\ w.cast = s.cast /\ w.miners = s.miners /\ w.counted = s.counted
        /\ w.loosened = s.loosened
    BY <1>1, <1>3, LocalFinChanges
  <2>2. Chain[s.localFin] \subseteq Chain[s.tip] /\ s.tip \in Chain[s.tip]
    BY <1>2, <1>3, BlockTreeAssumption
  <2> HIDE DEF w
  <2>3. w.loosened \/ \A c \in Block : <<"finality", c>> \in w.cast => c \in Chain[w.localFin]
    BY <1>1, <2>1, <2>2 DEF Keeps
  <2>4. w.loosened \/ \A c \in Block : Quorum(w, "confirm", c) => c \in Chain[w.localFin]
    <3>1. \A c \in Block : Quorum(w, "confirm", c) => Quorum(u, "confirm", c) \/ c = s.tip
      BY <1>5, <2>1 DEF Quorum
    <3> QED
      BY <1>1, <2>1, <2>2, <3>1 DEF Keeps
  <2>5. /\ w.tip \in w.index /\ w.mostWork \in w.index /\ w.localFin \in Chain[w.tip]
        /\ \A c \in w.index : Chain[c] \subseteq w.index
    BY <1>2, <2>1, <2>2
  <2>6. \A kind \in {"confirm", "finality"}, c \in Block :
          <<kind, c>> \in w.counted => c \in w.index
    BY <1>4, <2>1
  <2> QED
    BY <2>3, <2>4, <2>5, <2>6, Zenon DEF Keeps, w
<1> QED
  BY <1>1, <1>6, <1>7

(***************************************************************************)
(* Neither a new global finality nor a quorum of finality votes matters to *)
(* what is kept, nor does a vote for the finality of a tip that is final.  *)
(***************************************************************************)
LEMMA SameKept ==
  ASSUME NEW s \in State, Keeps(s), NEW t \in State,
         t.index = s.index, t.mostWork = s.mostWork, t.tip = s.tip,
         t.localFin = s.localFin, t.miners = s.miners, t.loosened = s.loosened,
         t.cast \subseteq s.cast \cup {<<"finality", s.tip>>},
         t.cast = s.cast \/ s.localFin = s.tip,
         t.counted \subseteq s.counted \cup {<<"finality", s.tip>>}
  PROVE  Keeps(t)
<1>1. /\ t.tip \in t.index /\ t.mostWork \in t.index /\ t.localFin \in Chain[t.tip]
      /\ \A c \in t.index : Chain[c] \subseteq t.index
  BY DEF Keeps
<1>2. \A kind \in {"confirm", "finality"}, c \in Block :
        <<kind, c>> \in t.counted => c \in t.index
  BY <1>1 DEF Keeps
<1>3. s.tip \in Block /\ s.tip \in Chain[s.tip]
  BY BlockTreeAssumption DEF State
<1>4. t.loosened \/ \A c \in Block : <<"finality", c>> \in t.cast => c \in Chain[t.localFin]
  BY <1>3 DEF Keeps
<1>5. t.loosened \/ \A c \in Block : Quorum(t, "confirm", c) => c \in Chain[t.localFin]
  BY DEF Keeps, Quorum
<1> QED
  BY <1>1, <1>2, <1>4, <1>5, Zenon DEF Keeps
-----------------------------------------------------------------------------
(* The network. *)

(* Votes are not taken back, so what has a quorum keeps it. *)
LEMMA SupportStays ==
  ASSUME NetAssumption, NetInv, NEW n \in Node, NEW t, Becomes(n, t),
         node[n].cast \subseteq t.cast, NEW kind, NEW b, Supported(kind, b)
  PROVE  Supported(kind, b)'
<1>1. node'[n] = t /\ \A m \in Node \ {n} : node'[m] = node[m]
  BY DEF NetInv, TypeOK, Becomes
<1>2. Voters(kind, b) \subseteq Voters(kind, b)' /\ Voters(kind, b)' \subseteq Node \cup Faulty
  BY <1>1 DEF Voters
<1>3. IsFiniteSet(Voters(kind, b)')
  BY <1>2, NeedType, FS_Subset
<1>4. /\ Cardinality(Voters(kind, b)) <= Cardinality(Voters(kind, b)')
      /\ Cardinality(Voters(kind, b)) \in Nat /\ Cardinality(Voters(kind, b)') \in Nat
  BY <1>2, <1>3, VotersFinite, FS_Subset, FS_CardinalityType
<1> QED
  BY <1>4, NeedType DEF Supported, Need

(* What a node's new state must satisfy for the invariant to stay. *)
LEMMA BecomesKeeps ==
  ASSUME NetAssumption, NetInv, NEW n \in Node, NEW t \in State, Becomes(n, t),
         Keeps(t), Advances(node[n], t),
         \A kind \in {"confirm", "finality"}, b \in Block :
           <<kind, b>> \in t.counted => <<kind, b>> \in node[n].counted \/ Supported(kind, b)'
  PROVE  NetInv'
<1>1. /\ node \in [Node -> State] /\ final \in [Node -> SUBSET Block]
      /\ node' = [node EXCEPT ![n] = t] /\ t.globalFin \in Block
      /\ final' = [final EXCEPT ![n] = @ \cup {t.globalFin}]
  BY DEF NetInv, TypeOK, Becomes, State
<1>2. TypeOK'
  BY <1>1 DEF TypeOK
<1>3. node'[n] = t /\ \A m \in Node \ {n} : node'[m] = node[m] /\ final'[m] = final[m]
  BY <1>1
<1>4. ASSUME NEW kind, NEW b, Supported(kind, b) PROVE Supported(kind, b)'
  BY <1>4, SupportStays DEF Advances
<1>5. ASSUME NEW m \in Node, NEW kind \in {"confirm", "finality"}, NEW b \in Block,
             <<kind, b>> \in node'[m].counted
      PROVE  Supported(kind, b)'
  <2>1. <<kind, b>> \in node[m].counted \/ Supported(kind, b)'
    BY <1>3, <1>5
  <2> QED
    BY <1>4, <2>1 DEF NetInv, Backed
<1>6. ASSUME NEW m \in Node, NEW b \in final'[m] \cup {node'[m].globalFin}, b # Genesis
      PROVE  Supported("finality", b)'
  <2>1. CASE b \in final[m] \cup {node[m].globalFin}
    BY <1>4, <1>6, <2>1 DEF NetInv, Backed
  <2>2. CASE m = n /\ b = t.globalFin /\ t.globalFin # node[n].globalFin
    <3>1. b \in Block /\ <<"finality", b>> \in node'[n].counted
      BY <1>3, <2>2 DEF Advances
    <3> QED
      BY <1>5, <3>1
  <2> QED
    BY <1>1, <1>3, <1>6, <2>1, <2>2
<1>7. Backed'
  BY <1>5, <1>6 DEF Backed
<1>8. \A m \in Node : Keeps(node'[m])
  BY <1>3 DEF NetInv
<1> QED
  BY <1>2, <1>7, <1>8 DEF NetInv

(* The quorum that a handler counts exists. *)
LEMMA ReachedIsSupported ==
  ASSUME NetAssumption, NEW n \in Node, NEW kind, QuorumReaches(n, kind)
  PROVE  Supported(kind, node[n].tip) /\ node[n].tip # Genesis
BY VotersFinite, NeedType DEF QuorumReaches, Supported

(* ProcessBlockConfirmMessage, with what follows of it. *)
LEMMA ConfirmStep ==
  ASSUME NetAssumption, NetInv, NEW n \in Node, ProcessBlockConfirmMessage(n),
         NEW u, u = node[n], NEW b, b = u.tip
  PROVE  NetInv'
<1> DEFINE s == Counted(u, "confirm")
           w == WithLocalFin(s, s.tip)
<1>1. u \in State /\ Keeps(u) /\ b \in Block /\ b # Genesis /\ Supported("confirm", b)
  BY ReachedIsSupported DEF NetInv, TypeOK, State, ProcessBlockConfirmMessage
<1>2. /\ s \in State /\ s.counted = u.counted \cup {<<"confirm", b>>} /\ s.tip = b
      /\ s.cast = u.cast /\ s.globalFin = u.globalFin
  BY <1>1, CountedChanges
<1>3. /\ ~(Height[s.tip] > Height[s.localFin] /\ Quorum(s, "confirm", s.tip)) => Keeps(s)
      /\ Keeps(w)
  BY <1>1, ConfirmKeeps
<1>4. /\ w \in State /\ w.localFin = b /\ w.tip = b /\ w.cast = u.cast
      /\ w.globalFin = u.globalFin /\ w.counted = u.counted \cup {<<"confirm", b>>}
  <2> HIDE DEF s
  <2> QED
    BY <1>1, <1>2, LocalFinChanges
<1>5. \/ Keeps(s) /\ Becomes(n, s)
      \/ \E t \in FinalityVotes(n, w) : Becomes(n, t)
  BY <1>3 DEF ProcessBlockConfirmMessage
<1> HIDE DEF s, w
<1>6. CASE Keeps(s) /\ Becomes(n, s)
  <2>1. Supported("confirm", b)'
    BY <1>1, <1>2, <1>6, SupportStays
  <2> QED
    BY <1>1, <1>2, <1>6, <2>1, BecomesKeeps DEF Advances
<1>7. ASSUME NEW t \in FinalityVotes(n, w), Becomes(n, t) PROVE NetInv'
  <2> DEFINE voted  == Voted(w, "finality", b)
             others == Voters("finality", b) \ {n}
  <2>1. /\ voted \in State /\ w.cast \subseteq voted.cast
        /\ voted.cast \subseteq w.cast \cup {<<"finality", b>>}
        /\ voted = w \/ <<"finality", b>> \in voted.cast
        /\ voted.index = w.index /\ voted.mostWork = w.mostWork /\ voted.tip = w.tip
        /\ voted.localFin = w.localFin /\ voted.globalFin = w.globalFin
        /\ voted.miners = w.miners /\ voted.counted = w.counted /\ voted.loosened = w.loosened
    BY <1>1, <1>4, VotedChanges
  <2>2. \/ t = voted
        \/ /\ voted # w /\ Cardinality(others) >= Need - 1
           /\ t = Counted(voted, "finality")
    BY <1>4, <1>7 DEF FinalityVotes
  <2> HIDE DEF voted
  <2>3. /\ t \in State /\ t.counted \subseteq w.counted \cup {<<"finality", b>>}
        /\ t.cast = voted.cast
        /\ t.index = w.index /\ t.mostWork = w.mostWork /\ t.tip = w.tip
        /\ t.localFin = w.localFin /\ t.globalFin = w.globalFin
        /\ t.miners = w.miners /\ t.loosened = w.loosened
    <3>1. CASE t = voted
      BY <2>1, <3>1
    <3>2. CASE t = Counted(voted, "finality")
      BY <1>4, <2>1, <3>2, CountedChanges
    <3> QED
      BY <2>2, <3>1, <3>2
  <2>4. Keeps(t)
    BY <1>3, <1>4, <2>1, <2>3, SameKept
  <2>5. Advances(u, t)
    BY <1>4, <2>1, <2>3 DEF Advances
  <2>6. Supported("confirm", b)'
    BY <1>1, <1>7, <2>5, SupportStays DEF Advances
  <2>7. <<"finality", b>> \in t.counted =>
          <<"finality", b>> \in u.counted \/ Supported("finality", b)'
    <3> SUFFICES ASSUME voted # w, Cardinality(others) >= Need - 1
                 PROVE  Supported("finality", b)'
      BY <1>4, <2>1, <2>2
    <3>1. <<"finality", b>> \in t.cast
      BY <2>1, <2>3
    <3>2. node'[n] = t /\ \A m \in Node \ {n} : node'[m] = node[m]
      BY <1>7 DEF NetInv, TypeOK, Becomes
    <3>3. others \cup {n} \subseteq Voters("finality", b)'
      BY <3>1, <3>2 DEF Voters
    <3>4. IsFiniteSet(others) /\ Cardinality(others) \in Nat /\ n \notin others
      BY VotersFinite, FS_Subset, FS_CardinalityType
    <3>5. IsFiniteSet(others \cup {n}) /\ Cardinality(others \cup {n}) = Cardinality(others) + 1
      BY <3>4, FS_AddElement
    <3>6. Voters("finality", b)' \subseteq Node \cup Faulty
      BY DEF Voters
    <3>7. IsFiniteSet(Voters("finality", b)')
      BY <3>6, NeedType, FS_Subset
    <3>8. /\ Cardinality(others \cup {n}) <= Cardinality(Voters("finality", b)')
          /\ Cardinality(Voters("finality", b)') \in Nat
      BY <3>3, <3>7, FS_Subset, FS_CardinalityType
    <3> HIDE DEF others
    <3> QED
      BY <3>4, <3>5, <3>8, NeedType DEF Supported, Need
  <2>8. ASSUME NEW kind \in {"confirm", "finality"}, NEW c \in Block, <<kind, c>> \in t.counted
        PROVE  <<kind, c>> \in u.counted \/ Supported(kind, c)'
    <3>1. \/ <<kind, c>> \in u.counted
          \/ kind = "confirm" /\ c = b
          \/ kind = "finality" /\ c = b
      BY <1>4, <2>3, <2>8
    <3> QED
      BY <2>6, <2>7, <2>8, <3>1
  <2> QED
    BY <1>7, <2>3, <2>4, <2>5, <2>8, BecomesKeeps
<1> QED
  BY <1>5, <1>6, <1>7

(* ProcessBlockFinalityMessage *)
LEMMA FinalityStep ==
  ASSUME NetAssumption, NetInv, NEW n \in Node, ProcessBlockFinalityMessage(n),
         NEW u, u = node[n], NEW b, b = u.tip
  PROVE  NetInv'
<1> DEFINE s == Counted(u, "finality")
<1>1. u \in State /\ Keeps(u) /\ b \in Block /\ Supported("finality", b)
  BY ReachedIsSupported DEF NetInv, TypeOK, State, ProcessBlockFinalityMessage
<1>2. /\ s \in State /\ s.counted = u.counted \cup {<<"finality", b>>} /\ s.tip = b
      /\ s.index = u.index /\ s.mostWork = u.mostWork
      /\ s.localFin = u.localFin /\ s.cast = u.cast /\ s.globalFin = u.globalFin
      /\ s.miners = u.miners /\ s.loosened = u.loosened
  BY <1>1, CountedChanges
<1>3. PICK t \in {s, WithGlobalFin(s, b)} : Becomes(n, t)
  BY <1>2 DEF ProcessBlockFinalityMessage
<1>4. /\ t \in State /\ t.globalFin \in {u.globalFin, b} /\ t.counted = s.counted
      /\ t.index = u.index /\ t.mostWork = u.mostWork /\ t.tip = u.tip
      /\ t.localFin = u.localFin /\ t.cast = u.cast
      /\ t.miners = u.miners /\ t.loosened = u.loosened
  <2> HIDE DEF s
  <2>1. CASE t = s
    BY <1>2, <2>1
  <2>2. CASE t = WithGlobalFin(s, b)
    BY <1>1, <1>2, <2>2, GlobalFinChanges
  <2> QED
    BY <1>3, <2>1, <2>2
<1> HIDE DEF s
<1>5. Keeps(t) /\ Advances(u, t)
  BY <1>1, <1>2, <1>4, SameKept DEF Advances
<1>6. Supported("finality", b)'
  BY <1>1, <1>3, <1>5, SupportStays DEF Advances
<1> QED
  BY <1>2, <1>3, <1>4, <1>5, <1>6, BecomesKeeps

(* AcceptBlock *)
LEMMA AcceptStep ==
  ASSUME NetAssumption, NetInv, NEW n \in Node, NEW b \in Block, AcceptBlock(n, b)
  PROVE  NetInv'
<1>1. node[n] \in State /\ Keeps(node[n]) /\ b \in Block \ node[n].index
  BY DEF NetInv, TypeOK, AcceptBlock
<1> DEFINE s == ActivateBestChain(node[n], b)
<1>2. PICK t : t = (IF s.tip = b THEN PostAccept(s) ELSE s) /\ Becomes(n, t)
  BY DEF AcceptBlock
<1>3. t \in State /\ Keeps(t) /\ Advances(node[n], t) /\ t.counted = node[n].counted
  BY <1>1, <1>2, AcceptKeeps DEF AcceptBlock
<1> QED
  BY <1>2, <1>3, BecomesKeeps

(* LocalFinExpires: a node may be slow to drop its local finality, no more. *)
LEMMA ExpireStep ==
  ASSUME NetAssumption, NetInv, NEW n \in Node, LocalFinExpires(n)
  PROVE  NetInv'
<1>1. node[n] \in State /\ Keeps(node[n])
  BY DEF NetInv, TypeOK
<1>2. PICK t : t = [node[n] EXCEPT !.stale = TRUE] /\ Becomes(n, t)
  BY DEF LocalFinExpires
<1>3. /\ t \in State /\ t.globalFin = node[n].globalFin /\ t.counted = node[n].counted
      /\ t.index = node[n].index /\ t.mostWork = node[n].mostWork /\ t.tip = node[n].tip
      /\ t.localFin = node[n].localFin /\ t.cast = node[n].cast
      /\ t.miners = node[n].miners /\ t.loosened = node[n].loosened
  BY <1>1, <1>2 DEF State
<1>4. Keeps(t)
  BY <1>1, <1>3, SameKept
<1> QED
  BY <1>2, <1>3, <1>4, BecomesKeeps DEF Advances

(* Nothing is counted or final at first. *)
LEMMA NetInvInit ==
  ASSUME NetAssumption, Init
  PROVE  NetInv
<1>1. ASSUME NEW f \in Block, Height[f] = 1 PROVE Started(f) \in State /\ Keeps(Started(f))
  <2> DEFINE s == Started(f)
  <2>1. /\ s.index = {c \in Block : Parent[c] = Genesis} /\ s.mostWork = f /\ s.tip = f
        /\ s.localFin = Genesis /\ s.counted = {} /\ s.cast = {<<"confirm", f>>}
    BY DEF Started
  <2>2. Parent[f] = Genesis /\ Genesis \in Block /\ Genesis \in Chain[f]
    <3>1. f # Genesis /\ Parent[f] \in Block
      BY <1>1, BlockTreeAssumption
    <3>2. Height[Parent[f]] = 0
      BY <1>1, <3>1, BlockTreeAssumption
    <3> QED
      BY <3>1, <3>2, BlockTreeAssumption
  <2>3. s \in State
    BY <2>2 DEF Started, State, Ballot
  <2> HIDE DEF s
  <2>4. \A c \in s.index : Chain[c] \subseteq s.index
    <3> SUFFICES ASSUME NEW c \in s.index PROVE Chain[c] \subseteq s.index
      OBVIOUS
    <3>1. c \in Block /\ Parent[c] = Genesis /\ Genesis \in s.index
      BY <2>1, BlockTreeAssumption
    <3>2. Chain[c] \subseteq {c, Genesis}
      BY <3>1, BlockTreeAssumption
    <3> QED
      BY <3>1, <3>2
  <2> QED
    BY <2>1, <2>2, <2>3, <2>4 DEF Keeps, Quorum, s
<1>2. TypeOK
  BY <1>1, BlockTreeAssumption DEF Init, TypeOK
<1>3. \A n \in Node : node[n].counted = {} /\ node[n].globalFin = Genesis /\ final[n] = {Genesis}
  BY DEF Init, Started
<1>4. \A n \in Node : Keeps(node[n])
  BY <1>1 DEF Init
<1> QED
  BY <1>2, <1>3, <1>4 DEF NetInv, Backed

(***************************************************************************)
(* What the nodes keep holds throughout, for any number of faulty nodes.   *)
(***************************************************************************)
THEOREM NetInvariance ==
  ASSUME NetAssumption
  PROVE  Spec => []NetInv
<1>1. Init => NetInv
  BY NetInvInit
<1>2. NetInv /\ [Next]_vars => NetInv'
  <2> SUFFICES ASSUME NetInv, [Next]_vars PROVE NetInv'
    OBVIOUS
  <2>1. CASE Next
    BY <2>1, AcceptStep, ConfirmStep, FinalityStep, ExpireStep DEF Next
  <2>2. CASE UNCHANGED vars
    <3>1. node' = node /\ final' = final
      BY <2>2 DEF vars
    <3> QED
      BY <3>1 DEF NetInv, TypeOK, Backed, Supported, Voters
  <2> QED
    BY <2>1, <2>2
<1> QED
  BY <1>1, <1>2, PTL DEF Spec

(***************************************************************************)
(* Blocks that are ever globally final in any two nodes are on one chain,  *)
(* unless a node that had dropped a local finality after 60 s voted for    *)
(* the finality of both: for any number of nodes, whatever blocks and      *)
(* votes each receives and in which order, with less than a third faulty.  *)
(***************************************************************************)
THEOREM FinalBlocksAgree ==
  ASSUME NetAssumption, FewFaulty
  PROVE  Spec => []Agreement
<1>1. NetInv => Agreement
  <2> SUFFICES ASSUME NetInv, NEW n \in Node, NEW m \in Node,
                      NEW b \in final[n], NEW c \in final[m], ~Comparable(b, c)
               PROVE  \E x \in Node : Reneged(x, b, c)
    BY DEF Agreement
  <2>1. b \in Block /\ c \in Block
    BY DEF NetInv, TypeOK
  <2>2. b # Genesis /\ c # Genesis
    BY <2>1, BlockTreeAssumption DEF Comparable
  <2>3. Supported("finality", b) /\ Supported("finality", c)
    BY <2>2 DEF NetInv, Backed
  <2>4. PICK x \in Node : {<<"finality", b>>, <<"finality", c>>} \subseteq node[x].cast
    BY <2>3, QuorumsMeet
  <2>5. node[x].loosened
    <3> SUFFICES ASSUME ~node[x].loosened PROVE FALSE
      OBVIOUS
    <3>1. /\ b \in Chain[node[x].localFin] /\ c \in Chain[node[x].localFin]
          /\ node[x].localFin \in Block
      BY <2>1, <2>4 DEF NetInv, Keeps, TypeOK, State
    <3> QED
      BY <3>1, OneChain
  <2> QED
    BY <2>4, <2>5 DEF Reneged
<1> QED
  BY <1>1, NetInvariance, PTL
-----------------------------------------------------------------------------
(***************************************************************************)
(* The nodes that are late are never more than the bound: no handler makes *)
(* a node late that was not, only the time does.                           *)
(***************************************************************************)
LateBounded == Cardinality(Late) <= MaxStale

(* A step that makes no node late keeps the bound. *)
LEMMA NoLater ==
  ASSUME NetAssumption, NetInv, LateBounded, NEW n \in Node, NEW t, Becomes(n, t),
         NotLater(node[n], t)
  PROVE  LateBounded'
<1>1. node'[n] = t /\ \A m \in Node \ {n} : node'[m] = node[m]
  BY DEF NetInv, TypeOK, Becomes
<1>2. Late' \subseteq Late
  BY <1>1 DEF Late, NotLater
<1>3. Late \subseteq Node
  BY DEF Late
<1>4. IsFiniteSet(Late) /\ IsFiniteSet(Late')
  BY <1>2, <1>3, FS_Subset DEF NetAssumption
<1>5. /\ Cardinality(Late') <= Cardinality(Late)
      /\ Cardinality(Late') \in Nat /\ Cardinality(Late) \in Nat
  BY <1>2, <1>4, FS_Subset, FS_CardinalityType
<1> QED
  BY <1>5 DEF LateBounded, NetAssumption

(* The handlers make no node late, and the clock observes the bound. *)
LEMMA LateStep ==
  ASSUME NetAssumption, NetInv, LateBounded, Next
  PROVE  LateBounded'
<1>1. ASSUME NEW n \in Node, NEW b \in Block, AcceptBlock(n, b) PROVE LateBounded'
  <2>1. node[n] \in State /\ Keeps(node[n]) /\ b \in Block \ node[n].index
    BY <1>1 DEF NetInv, TypeOK, AcceptBlock
  <2> DEFINE s == ActivateBestChain(node[n], b)
  <2>2. PICK t : t = (IF s.tip = b THEN PostAccept(s) ELSE s) /\ Becomes(n, t)
    BY <1>1 DEF AcceptBlock
  <2>3. NotLater(node[n], t)
    BY <1>1, <2>1, <2>2, AcceptKeeps DEF AcceptBlock
  <2> QED
    BY <2>2, <2>3, NoLater
<1>2. ASSUME NEW n \in Node, ProcessBlockConfirmMessage(n) PROVE LateBounded'
  <2> DEFINE s == Counted(node[n], "confirm")
             w == WithLocalFin(s, s.tip)
             v == Voted(w, "finality", w.tip)
  <2>1. node[n] \in State
    BY DEF NetInv, TypeOK
  <2>2. s \in State /\ NotLater(node[n], s) /\ s.tip \in Block
    BY <2>1, CountedChanges DEF State
  <2>3. \/ Becomes(n, s)
        \/ \E t \in FinalityVotes(n, w) : Becomes(n, t)
    BY <1>2 DEF ProcessBlockConfirmMessage
  <2> HIDE DEF s
  <2>4. w \in State /\ NotLater(s, w) /\ w.tip \in Block
    BY <2>2, LocalFinChanges DEF State
  <2>5. \A t \in FinalityVotes(n, w) : t \in {v, Counted(v, "finality")}
    BY DEF FinalityVotes
  <2> HIDE DEF w
  <2>6. v \in State /\ NotLater(w, v)
    BY <2>4, VotedChanges
  <2> HIDE DEF v
  <2>7. NotLater(v, Counted(v, "finality"))
    BY <2>6, CountedChanges
  <2>8. PICK t \in {s, v, Counted(v, "finality")} : Becomes(n, t)
    BY <2>3, <2>5
  <2>9. NotLater(node[n], t)
    BY <2>2, <2>4, <2>6, <2>7 DEF NotLater
  <2> QED
    BY <2>8, <2>9, NoLater
<1>3. ASSUME NEW n \in Node, ProcessBlockFinalityMessage(n) PROVE LateBounded'
  <2> DEFINE s == Counted(node[n], "finality")
             w == WithGlobalFin(s, s.tip)
  <2>1. node[n] \in State
    BY DEF NetInv, TypeOK
  <2>2. s \in State /\ NotLater(node[n], s) /\ s.tip \in Block
    BY <2>1, CountedChanges DEF State
  <2>3. PICK t \in {s, w} : Becomes(n, t)
    BY <1>3 DEF ProcessBlockFinalityMessage
  <2> HIDE DEF s
  <2>4. NotLater(s, w)
    BY <2>2, GlobalFinChanges
  <2>5. NotLater(node[n], t)
    BY <2>2, <2>3, <2>4 DEF NotLater
  <2> QED
    BY <2>3, <2>5, NoLater
<1>4. ASSUME NEW n \in Node, LocalFinExpires(n) PROVE LateBounded'
  <2>1. /\ node \in [Node -> State]
        /\ node' = [node EXCEPT ![n] = [node[n] EXCEPT !.stale = TRUE]]
        /\ Cardinality(Late \cup {n}) <= MaxStale
    BY <1>4 DEF NetInv, TypeOK, LocalFinExpires, Becomes, Late
  <2>2. /\ node'[n].loosened = node[n].loosened
        /\ \A m \in Node \ {n} : node'[m] = node[m]
    BY <2>1 DEF State
  <2>3. Late' \subseteq Late \cup {n} /\ Late \cup {n} \subseteq Node
    BY <2>2 DEF Late
  <2>4. IsFiniteSet(Late \cup {n}) /\ IsFiniteSet(Late')
    BY <2>3, FS_Subset DEF NetAssumption
  <2>5. /\ Cardinality(Late') <= Cardinality(Late \cup {n})
        /\ Cardinality(Late') \in Nat /\ Cardinality(Late \cup {n}) \in Nat
    BY <2>3, <2>4, FS_Subset, FS_CardinalityType
  <2> QED
    BY <2>1, <2>5 DEF LateBounded, NetAssumption
<1> QED
  BY <1>1, <1>2, <1>3, <1>4 DEF Next

(* Two quorums have a delegate in common that is neither faulty nor late. *)
LEMMA PunctualVoter ==
  ASSUME NetAssumption, 3 * (Cardinality(Faulty) + MaxStale) < Cardinality(Node \cup Faulty),
         LateBounded, NEW b, NEW c, Supported("finality", b), Supported("finality", c)
  PROVE  \E x \in Node \ Late : {<<"finality", b>>, <<"finality", c>>} \subseteq node[x].cast
<1> DEFINE All == Node \cup Faulty
           Bad == Faulty \cup Late
           B   == Voters("finality", b)
           C   == Voters("finality", c)
<1>1. IsFiniteSet(Late) /\ IsFiniteSet(Faulty) /\ Faulty \cap Late = {}
  <2>1. Late \subseteq Node
    BY DEF Late
  <2> QED
    BY <2>1, FS_Subset DEF NetAssumption
<1>2. /\ Cardinality(Late) \in Nat /\ Cardinality(Faulty) \in Nat /\ IsFiniteSet(Bad)
      /\ Cardinality(Bad) = Cardinality(Faulty) + Cardinality(Late)
  <2>1. Cardinality(Faulty \cap Late) = 0
    BY <1>1, FS_EmptySet
  <2>2. Cardinality(Late) \in Nat /\ Cardinality(Faulty) \in Nat
    BY <1>1, FS_CardinalityType
  <2> QED
    BY <1>1, <2>1, <2>2, FS_Union
<1>3. /\ IsFiniteSet(B) /\ IsFiniteSet(C) /\ B \cup C \subseteq All /\ IsFiniteSet(All)
      /\ Cardinality(B) \in Nat /\ Cardinality(C) \in Nat /\ Cardinality(All) \in Nat
  BY VotersFinite, NeedType
<1>4. /\ Cardinality(B \cup C) <= Cardinality(All) /\ IsFiniteSet(B \cup C)
      /\ Cardinality(B \cup C) = Cardinality(B) + Cardinality(C) - Cardinality(B \cap C)
  BY <1>3, FS_Subset, FS_Union
<1>5. /\ Cardinality(B \cup C) \in Nat
      /\ Cardinality(B \cap C) \in Nat /\ IsFiniteSet(B \cap C)
  BY <1>3, <1>4, FS_Intersection, FS_CardinalityType
<1>6. Cardinality(B) >= Need /\ Cardinality(C) >= Need
  BY DEF Supported
<1> HIDE DEF All, B, C, Bad
<1>7. Cardinality(B \cap C) > Cardinality(Bad)
  <2>1. /\ Need = Cardinality(All) - Cardinality(All) \div 3
        /\ 3 * (Cardinality(Faulty) + MaxStale) < Cardinality(All)
        /\ Cardinality(Late) <= MaxStale /\ MaxStale \in Nat
    BY DEF Need, All, LateBounded, NetAssumption
  <2> QED
    BY <1>2, <1>3, <1>4, <1>5, <1>6, <2>1
<1>8. ~(B \cap C \subseteq Bad)
  BY <1>2, <1>5, <1>7, FS_Subset, FS_CardinalityType
<1>9. PICK x \in B \cap C : x \notin Bad
  BY <1>8
<1> QED
  BY <1>9 DEF B, C, Bad, Voters

(***************************************************************************)
(* When the delegates that are faulty and the nodes whose local finality   *)
(* expires are together less than a third, any two blocks that are ever    *)
(* globally final, in any nodes, are on one chain: what the rule of 60 s   *)
(* in ActivateBestChain costs is exactly that it adds to the faulty.       *)
(***************************************************************************)
THEOREM FinalBlocksAgreeStrictly ==
  ASSUME NetAssumption,
         3 * (Cardinality(Faulty) + MaxStale) < Cardinality(Node \cup Faulty)
  PROVE  Spec => [](\A n, m \in Node : \A b \in final[n], c \in final[m] : Comparable(b, c))
<1> DEFINE Agreed == \A n, m \in Node : \A b \in final[n], c \in final[m] : Comparable(b, c)
<1>1. Init => LateBounded
  <2> SUFFICES ASSUME Init PROVE LateBounded
    OBVIOUS
  <2>1. Late = {}
    BY DEF Init, Started, Late
  <2> QED
    BY <2>1, FS_EmptySet DEF LateBounded, NetAssumption
<1>2. NetInv /\ LateBounded /\ [Next]_vars => LateBounded'
  <2> SUFFICES ASSUME NetInv, LateBounded, [Next]_vars PROVE LateBounded'
    OBVIOUS
  <2>1. CASE UNCHANGED vars
    BY <2>1 DEF vars, LateBounded, Late
  <2> QED
    BY <2>1, LateStep
<1>3. NetInv /\ LateBounded => Agreed
  <2> SUFFICES ASSUME NetInv, LateBounded, NEW n \in Node, NEW m \in Node,
                      NEW b \in final[n], NEW c \in final[m], ~Comparable(b, c)
               PROVE  FALSE
    OBVIOUS
  <2>1. b \in Block /\ c \in Block
    BY DEF NetInv, TypeOK
  <2>2. b # Genesis /\ c # Genesis
    BY <2>1, BlockTreeAssumption DEF Comparable
  <2>3. Supported("finality", b) /\ Supported("finality", c)
    BY <2>2 DEF NetInv, Backed
  <2>4. PICK x \in Node \ Late :
          {<<"finality", b>>, <<"finality", c>>} \subseteq node[x].cast
    BY <2>3, PunctualVoter
  <2>5. /\ b \in Chain[node[x].localFin] /\ c \in Chain[node[x].localFin]
        /\ node[x].localFin \in Block
    BY <2>1, <2>4 DEF NetInv, Keeps, TypeOK, State, Late
  <2> QED
    BY <2>5, OneChain
<1> HIDE DEF Agreed
<1>4. Spec => []Agreed
  BY <1>1, <1>2, <1>3, NetInvariance, PTL DEF Spec
<1> QED
  BY <1>4 DEF Agreed
-----------------------------------------------------------------------------
(* The ledger copies of ForkCache. *)

(* What is used of the chain that ends in b. *)
LEMMA ChainFacts ==
  ASSUME NEW b \in Block
  PROVE  /\ Chain[b] \subseteq Block /\ b \in Chain[b] /\ Genesis \in Chain[b]
         /\ Height[b] \in Nat
         /\ \A c \in Chain[b] : /\ Chain[c] \subseteq Chain[b]
                                /\ Height[c] \in Nat /\ Height[c] <= Height[b]
         /\ \A c \in Chain[b], d \in Chain[b] :
              /\ Height[c] <= Height[d] => c \in Chain[d]
              /\ Height[c] = Height[d] => c = d
BY BlockTreeAssumption

(* A block and its parent. *)
LEMMA ParentFacts ==
  ASSUME NEW b \in Block \ {Genesis}
  PROVE  /\ Parent[b] \in Block /\ Height[b] = Height[Parent[b]] + 1
         /\ Chain[b] = Chain[Parent[b]] \cup {b} /\ b \notin Chain[Parent[b]]
<1>1. /\ Parent[b] \in Block /\ Height[b] = Height[Parent[b]] + 1
      /\ Chain[b] = Chain[Parent[b]] \cup {b}
  BY BlockTreeAssumption
<1> QED
  BY <1>1, ChainFacts

(* The highest block of a part of a chain is the only one as high. *)
LEMMA HighestOne ==
  ASSUME NEW t \in Block, NEW S \in SUBSET Chain[t], S # {}
  PROVE  /\ HighestOf(S) \in S
         /\ \A d \in S : Height[d] <= Height[HighestOf(S)]
         /\ \A c \in S : (\A d \in S : Height[d] <= Height[c]) => c = HighestOf(S)
<1>1. Highest(S) \in S
  BY HighestFound
<1>2. \A d \in S : Height[d] \in Nat
  BY ChainFacts
<1> DEFINE P(c) == \A d \in S : Height[d] <= Height[c]
<1>3. \E c \in S : P(c)
  <2> DEFINE T == {Height[t] - Height[c] : c \in S}
  <2>1. \A c \in S : Height[c] \in Nat /\ Height[t] \in Nat /\ Height[c] <= Height[t]
    BY ChainFacts
  <2>2. T \in SUBSET Nat /\ T # {}
    BY <2>1
  <2>3. PICK n \in T : \A m \in T : n <= m
    BY <2>2, LeastNatural
  <2>4. PICK c \in S : n = Height[t] - Height[c]
    BY <2>3
  <2>5. ASSUME NEW d \in S PROVE Height[d] <= Height[c]
    <3>1. n <= Height[t] - Height[d]
      BY <2>3
    <3> QED
      BY <2>1, <2>4, <3>1
  <2> QED
    BY <2>5
<1>4. HighestOf(S) \in S /\ P(HighestOf(S))
  BY <1>3 DEF HighestOf
<1>5. ASSUME NEW c \in S, P(c) PROVE c = HighestOf(S)
  <2>1. Height[c] = Height[HighestOf(S)]
    BY <1>2, <1>4, <1>5
  <2> QED
    BY <1>4, <2>1, ChainFacts
<1> QED
  BY <1>4, <1>5

(* The lowest block of a part of a chain. *)
LEMMA LowestOne ==
  ASSUME NEW t \in Block, NEW S \in SUBSET Chain[t], S # {}
  PROVE  LowestOf(S) \in S /\ \A d \in S : Height[LowestOf(S)] <= Height[d]
<1> DEFINE T == {Height[c] : c \in S}
<1>1. T \in SUBSET Nat /\ T # {}
  BY ChainFacts
<1>2. PICK n \in T : \A m \in T : n <= m
  BY <1>1, LeastNatural
<1>3. PICK c \in S : n = Height[c]
  BY <1>2
<1>4. \A d \in S : Height[c] <= Height[d]
  BY <1>2, <1>3
<1> QED
  BY <1>4 DEF LowestOf

(* The blocks of a chain above one of its blocks f. *)
LEMMA AboveFork ==
  ASSUME NEW p \in Block, NEW f \in Chain[p], NEW c \in Chain[p] \ Chain[f]
  PROVE  /\ c \in Block \ {Genesis} /\ f \in Block
         /\ Height[f] \in Nat /\ Height[c] \in Nat /\ Height[f] < Height[c]
         /\ f \in Chain[Parent[c]] /\ Parent[c] \in Chain[p]
<1>1. c \in Block /\ f \in Block /\ c \in Chain[p] /\ Genesis \in Chain[f]
  BY ChainFacts
<1>2. c # Genesis /\ f # c
  BY <1>1, ChainFacts
<1>3. Height[f] \in Nat /\ Height[c] \in Nat /\ ~(Height[c] <= Height[f])
  BY <1>1, ChainFacts
<1>4. f \in Chain[c] /\ Chain[c] \subseteq Chain[p]
  BY <1>1, <1>3, ChainFacts
<1>5. Parent[c] \in Block /\ Chain[c] = Chain[Parent[c]] \cup {c}
  BY <1>1, <1>2, ParentFacts
<1>6. Parent[c] \in Chain[c]
  BY <1>5, ChainFacts
<1> QED
  BY <1>1, <1>2, <1>3, <1>4, <1>5, <1>6

(* The blocks of the chain of b that write k, and the value they leave. *)
Writers(b, k) == {c \in Chain[b] : k \in Writes[c]}

LEMMA LedgerReads ==
  ASSUME ForkCacheAssumption, NEW b \in Block, NEW k \in Key
  PROVE  /\ LedgerAt(b)[k] = HighestOf(Writers(b, k))
         /\ Writers(b, k) \subseteq Chain[b] /\ Writers(b, k) # {}
         /\ LedgerAt(b)[k] \in Writers(b, k)
         /\ LedgerAt(b)[k] \in Block /\ LedgerAt(b)[k] # Unset
<1>1. LedgerAt(b)[k] = HighestOf(Writers(b, k)) /\ Writers(b, k) \subseteq Chain[b]
  BY DEF LedgerAt, Writers
<1>2. Genesis \in Writers(b, k)
  BY ChainFacts DEF Writers, ForkCacheAssumption
<1>3. HighestOf(Writers(b, k)) \in Writers(b, k)
  BY <1>1, <1>2, HighestOne
<1>4. Writers(b, k) \subseteq Block
  BY <1>1, ChainFacts
<1>5. Unset \notin Block
  BY DEF ForkCacheAssumption
<1> QED
  BY <1>1, <1>2, <1>3, <1>4, <1>5

(* Where the blocks above f leave k alone, the ledger stays as it is at f. *)
LEMMA LedgerUntouched ==
  ASSUME NEW p \in Block, NEW f \in Chain[p], NEW k \in Key,
         \A c \in Chain[p] \ Chain[f] : k \notin Writes[c]
  PROVE  LedgerAt(p)[k] = LedgerAt(f)[k]
<1>1. Writers(p, k) = Writers(f, k)
  BY ChainFacts DEF Writers
<1> QED
  BY <1>1 DEF LedgerAt, Writers

(***************************************************************************)
(* ConnectBlock on a copy that is right for f: connecting the blocks up to *)
(* p leads to the ledger after p.                                          *)
(***************************************************************************)
LEMMA ConnectedReads ==
  ASSUME ForkCacheAssumption, NEW p \in Block, NEW f \in Chain[p], NEW o, NEW k \in Key,
         View(o)[k] = LedgerAt(f)[k]
  PROVE  View(Connected(o, Chain[p] \ Chain[f]))[k] = LedgerAt(p)[k]
<1> DEFINE path == Chain[p] \ Chain[f]
           w == {c \in path : k \in Writes[c]}
<1>1. Connected(o, path)[k] = IF w = {} THEN o[k] ELSE HighestOf(w)
  BY DEF Connected
<1>2. CASE w = {}
  <2>1. View(Connected(o, path))[k] = View(o)[k]
    BY <1>1, <1>2 DEF View
  <2>2. \A c \in path : k \notin Writes[c]
    BY <1>2
  <2>3. LedgerAt(p)[k] = LedgerAt(f)[k]
    BY <2>2, LedgerUntouched
  <2> QED
    BY <2>1, <2>3
<1>3. CASE w # {}
  <2>1. w \in SUBSET Chain[p]
    OBVIOUS
  <2>2. HighestOf(w) \in w /\ \A d \in w : Height[d] <= Height[HighestOf(w)]
    BY <1>3, <2>1, HighestOne
  <2>3. ASSUME NEW d \in Writers(p, k) PROVE Height[d] <= Height[HighestOf(w)]
    <3>1. d \in Chain[p] /\ k \in Writes[d]
      BY DEF Writers
    <3>2. CASE d \in w
      BY <2>2, <3>2
    <3>3. CASE d \notin w
      <4>1. d \in Chain[f]
        BY <3>1, <3>3
      <4>2. Height[f] \in Nat /\ Height[d] \in Nat /\ Height[d] <= Height[f]
        BY <4>1, ChainFacts
      <4>3. Height[HighestOf(w)] \in Nat /\ Height[f] < Height[HighestOf(w)]
        BY <2>2, AboveFork
      <4> QED
        BY <4>2, <4>3
    <3> QED
      BY <3>2, <3>3
  <2>4. HighestOf(w) \in Writers(p, k)
    BY <2>2 DEF Writers
  <2>5. Writers(p, k) \in SUBSET Chain[p] /\ Writers(p, k) # {}
    BY LedgerReads
  <2>6. HighestOf(w) = HighestOf(Writers(p, k))
    BY <2>3, <2>4, <2>5, HighestOne
  <2>7. HighestOf(w) = LedgerAt(p)[k] /\ HighestOf(w) # Unset
    BY <2>6, LedgerReads
  <2> QED
    BY <1>1, <1>3, <2>7 DEF View
<1> QED
  BY <1>2, <1>3

(***************************************************************************)
(* DisconnectBlock on a copy that is right for t: taking off the blocks    *)
(* above f, whose undo records are right, leads to the ledger after f.     *)
(***************************************************************************)
LEMMA DisconnectedReads ==
  ASSUME ForkCacheAssumption, NEW t \in Block, NEW f \in Chain[t], NEW o, NEW k \in Key,
         View(o)[k] = LedgerAt(t)[k],
         \A c \in Chain[t] \ Chain[f] : k \in Writes[c] => undo[c][k] = LedgerAt(Parent[c])[k]
  PROVE  View(Disconnected(o, Chain[t] \ Chain[f]))[k] = LedgerAt(f)[k]
<1> DEFINE path == Chain[t] \ Chain[f]
           w == {c \in path : k \in Writes[c]}
<1>1. Disconnected(o, path)[k] = IF w = {} THEN o[k] ELSE undo[LowestOf(w)][k]
  BY DEF Disconnected
<1>2. CASE w = {}
  <2>1. View(Disconnected(o, path))[k] = View(o)[k]
    BY <1>1, <1>2 DEF View
  <2>2. \A c \in path : k \notin Writes[c]
    BY <1>2
  <2>3. LedgerAt(t)[k] = LedgerAt(f)[k]
    BY <2>2, LedgerUntouched
  <2> QED
    BY <2>1, <2>3
<1>3. CASE w # {}
  <2> DEFINE l == LowestOf(w)
  <2>1. w \in SUBSET Chain[t]
    OBVIOUS
  <2>2. l \in w /\ \A d \in w : Height[l] <= Height[d]
    BY <1>3, <2>1, LowestOne
  <2> HIDE DEF l
  <2>3. /\ l \in Block \ {Genesis} /\ f \in Chain[Parent[l]] /\ Parent[l] \in Chain[t]
        /\ f \in Block
    BY <2>2, AboveFork
  <2>4. Parent[l] \in Block /\ Height[l] = Height[Parent[l]] + 1
    BY <2>3, ParentFacts
  <2>5. ASSUME NEW c \in Chain[Parent[l]] \ Chain[f], k \in Writes[c] PROVE FALSE
    <3>1. Height[c] \in Nat /\ Height[Parent[l]] \in Nat /\ Height[c] <= Height[Parent[l]]
      BY <2>4, ChainFacts
    <3>2. Chain[Parent[l]] \subseteq Chain[t]
      BY <2>3, ChainFacts
    <3>3. c \in w
      BY <2>5, <3>2
    <3> QED
      BY <2>2, <2>4, <3>1, <3>3
  <2>6. LedgerAt(Parent[l])[k] = LedgerAt(f)[k]
    BY <2>3, <2>4, <2>5, LedgerUntouched
  <2>7. undo[l][k] = LedgerAt(f)[k]
    BY <2>2, <2>6
  <2>8. LedgerAt(f)[k] # Unset
    BY <2>3, LedgerReads
  <2> QED
    BY <1>1, <1>3, <2>7, <2>8 DEF View, l
<1> QED
  BY <1>2, <1>3

-----------------------------------------------------------------------------
(* The index is closed, genesis is never flagged, and a block that is being *)
(* invalidated is not genesis.                                              *)
Indexed ==
  /\ \A b \in index : Chain[b] \subseteq index
  /\ \A i \in DOMAIN order : Height[order[i]] < i
  /\ Genesis \notin failed
  /\ pc = "invalidate" => bad \in Block \ {Genesis}

(* The keys under which the copies are right whatever is flushed. *)
SafeKey == IF InitialDownload THEN Key \ BlockKey ELSE Key

CachesRight == \A k \in Key : View(main)[k] = LedgerAt(tip)[k]
CopiesRight ==
  \A f \in DOMAIN forkCache, k \in SafeKey : View(forkCache[f])[k] = LedgerAt(f)[k]
(* An undo record that the index knows of is right, on the chain or off it. *)
RecordsRight ==
  \A c \in hasUndo : c # Genesis /\ \A k \in Writes[c] : undo[c][k] = LedgerAt(Parent[c])[k]
Undoable == Chain[tip] \ {Genesis} \subseteq hasUndo
(* Outside initial download nothing stays above the databases. *)
Flushed == InitialDownload \/ (~ibd /\ \A k \in Key : main[k] = Unset)

Ledgers == CachesRight /\ CopiesRight /\ RecordsRight /\ Undoable /\ Flushed

ForkInv == ForkTypeOK /\ Indexed /\ NoFailedCandidate /\ Ledgers
-----------------------------------------------------------------------------
LEMMA IndexedBlocks ==
  ASSUME ForkTypeOK
  PROVE  /\ index \subseteq Block /\ tip \in Block /\ mostWork \in Block
         /\ \A f \in DOMAIN forkCache : f \in Block /\ forkCache[f] \in Overlay
BY DEF ForkTypeOK, index

LEMMA IndexGrows ==
  ASSUME ForkTypeOK, NEW b \in Block, order' = Append(order, b)
  PROVE  /\ order' \in Seq(Block) /\ index' = index \cup {b}
         /\ DOMAIN order' = DOMAIN order \cup {Len(order) + 1} /\ order'[Len(order) + 1] = b
         /\ \A i \in DOMAIN order : order'[i] = order[i]
<1>1. order \in Seq(Block)
  BY DEF ForkTypeOK
<1>2. /\ order' \in Seq(Block) /\ Len(order') = Len(order) + 1
      /\ DOMAIN order = 1 .. Len(order) /\ DOMAIN order' = 1 .. Len(order) + 1
      /\ Len(order) \in Nat /\ order'[Len(order) + 1] = b
      /\ \A i \in DOMAIN order : order'[i] = order[i]
  BY <1>1
<1>3. DOMAIN order' = DOMAIN order \cup {Len(order) + 1}
  BY <1>2
<1>4. index' = index \cup {b}
  BY <1>2, <1>3 DEF index
<1> QED
  BY <1>2, <1>3, <1>4

(* Overlays stay overlays. *)
LEMMA OverlayTypes ==
  ASSUME ForkCacheAssumption, ForkTypeOK, NEW o \in Overlay, NEW p \in Block,
         NEW path \in SUBSET Chain[p]
  PROVE  /\ Connected(o, path) \in Overlay /\ Disconnected(o, path) \in Overlay
         /\ \A k \in Key : View(o)[k] \in Block
         /\ \A c \in Block : UndoOf(c, o, path) \in Overlay
<1> DEFINE w(S, k) == {c \in S : k \in Writes[c]}
<1>1. Chain[p] \subseteq Block
  BY ChainFacts
<1>2. ASSUME NEW S \in SUBSET path PROVE Connected(o, S) \in Overlay
  <2>1. ASSUME NEW k \in Key PROVE Connected(o, S)[k] \in Block \cup {Unset}
    <3>1. Connected(o, S)[k] = IF w(S, k) = {} THEN o[k] ELSE HighestOf(w(S, k))
      BY DEF Connected
    <3>2. w(S, k) \in SUBSET Chain[p]
      OBVIOUS
    <3>3. w(S, k) # {} => HighestOf(w(S, k)) \in Block
      BY <1>1, <3>2, HighestOne
    <3> QED
      BY <3>1, <3>3 DEF Overlay
  <2> HIDE DEF w
  <2>2. Connected(o, S) = [k \in Key |-> Connected(o, S)[k]]
    BY DEF Connected
  <2> QED
    BY <2>1, <2>2 DEF Overlay
<1>3. ASSUME NEW k \in Key PROVE Disconnected(o, path)[k] \in Block \cup {Unset}
  <2>1. Disconnected(o, path)[k] = IF w(path, k) = {} THEN o[k] ELSE undo[LowestOf(w(path, k))][k]
    BY DEF Disconnected
  <2>2. w(path, k) \in SUBSET Chain[p]
    OBVIOUS
  <2>3. w(path, k) # {} => LowestOf(w(path, k)) \in Block
    BY <1>1, <2>2, LowestOne
  <2>4. undo \in [Block -> Overlay]
    BY DEF ForkTypeOK
  <2> QED
    BY <2>1, <2>3, <2>4 DEF Overlay
<1>4. Disconnected(o, path) \in Overlay
  <2> HIDE DEF w
  <2>1. Disconnected(o, path) = [k \in Key |-> Disconnected(o, path)[k]]
    BY DEF Disconnected
  <2> QED
    BY <1>3, <2>1 DEF Overlay
<1>5. \A q \in Overlay : \A k \in Key : View(q)[k] \in Block
  BY DEF View, Overlay, ForkTypeOK
<1>6. ASSUME NEW c \in Block PROVE UndoOf(c, o, path) \in Overlay
  <2> DEFINE below == {d \in path : Height[d] < Height[c]}
  <2>1. Connected(o, below) \in Overlay
    BY <1>2
  <2>2. UndoOf(c, o, path)
          = [k \in Key |-> IF k \in Writes[c] THEN View(Connected(o, below))[k] ELSE Unset]
    BY DEF UndoOf
  <2> HIDE DEF below
  <2>3. \A k \in Key : View(Connected(o, below))[k] \in Block
    BY <1>5, <2>1
  <2> QED
    BY <2>2, <2>3 DEF Overlay
<1> QED
  BY <1>2, <1>4, <1>5, <1>6

(* The flush of WriteChainState, done or left out, changes no reading. *)
LEMMA StateWritten ==
  ASSUME ForkTypeOK, NEW o \in Overlay, WriteChainState(o)
  PROVE  /\ main' \in Overlay /\ db' \in [Key -> Block]
         /\ \A k \in Key : (View(main)[k])' = View(o)[k]
         /\ DOMAIN forkCache' \subseteq DOMAIN forkCache
         /\ \A f \in DOMAIN forkCache' :
              /\ forkCache'[f] = forkCache[f]
              /\ \A k \in Key : (View(forkCache[f])[k])' = View(forkCache[f])[k]
         /\ ~ibd => \A k \in Key : main'[k] = Unset
<1>1. \A k \in Key : View(o)[k] \in Block
  BY DEF View, Overlay, ForkTypeOK
<1>2. CASE FlushKeys(o, Key) /\ forkCache' = << >>
  <2>1. db' = [k \in Key |-> View(o)[k]] /\ main' = [k \in Key |-> Unset]
    BY <1>2 DEF FlushKeys
  <2>2. \A k \in Key : (View(main)[k])' = View(o)[k]
    BY <2>1 DEF View
  <2>3. DOMAIN forkCache' = {}
    BY <1>2
  <2> QED
    BY <1>1, <2>1, <2>2, <2>3 DEF Overlay
<1>3. CASE ibd /\ main' = o /\ UNCHANGED <<db, forkCache>>
  BY <1>3 DEF View, ForkTypeOK
<1> QED
  BY <1>2, <1>3 DEF WriteChainState

(* The block whose copy ProcessForkedChain starts from. *)
LEMMA CopyStart ==
  ASSUME ForkTypeOK, Indexed, NEW p \in index
  PROVE  /\ CopyBlock(p) \in Chain[p] /\ CopyBlock(p) \in index
         /\ (Chain[p] \ Chain[CopyBlock(p)]) \cap Chain[tip] = {}
         /\ CopyBlock(p) \notin DOMAIN forkCache => CopyBlock(p) \in Chain[tip]
<1> DEFINE cached == (Chain[p] \ Chain[tip]) \cap DOMAIN forkCache
           f == CopyBlock(p)
<1>1. p \in Block /\ tip \in Block /\ Chain[p] \subseteq index
  BY IndexedBlocks DEF Indexed
<1>2. CASE cached = {}
  <2> DEFINE common == Chain[tip] \cap Chain[p]
  <2>1. f = HighestOf(common)
    BY <1>2 DEF CopyBlock, ForkPoint, HighestOf
  <2>2. common \in SUBSET Chain[p] /\ common # {}
    BY <1>1, ChainFacts
  <2>3. f \in common /\ \A d \in common : Height[d] <= Height[f]
    BY <1>1, <2>1, <2>2, HighestOne
  <2> HIDE DEF f
  <2>4. ASSUME NEW d \in common PROVE d \in Chain[f]
    <3>1. d \in Chain[p] /\ f \in Chain[p] /\ Height[d] <= Height[f]
      BY <2>3
    <3> QED
      BY <1>1, <3>1, ChainFacts
  <2> QED
    BY <1>1, <2>3, <2>4 DEF f
<1>3. CASE cached # {}
  <2>1. f = HighestOf(cached) /\ cached \in SUBSET Chain[p]
    BY <1>3 DEF CopyBlock
  <2>2. f \in cached
    <3> HIDE DEF cached, f
    <3>1. HighestOf(cached) \in cached
      BY <1>1, <1>3, <2>1, HighestOne
    <3> QED
      BY <2>1, <3>1
  <2> HIDE DEF f
  <2>3. ASSUME NEW c \in Chain[p] \ Chain[f], c \in Chain[tip] PROVE FALSE
    <3>1. f \in Chain[p] /\ f \notin Chain[tip]
      BY <2>2
    <3>2. f \in Chain[c]
      BY <1>1, <3>1, AboveFork, ParentFacts
    <3>3. Chain[c] \subseteq Chain[tip]
      BY <1>1, <2>3, ChainFacts
    <3> QED
      BY <3>1, <3>2, <3>3
  <2> QED
    BY <1>1, <2>2, <2>3 DEF f
<1> QED
  BY <1>2, <1>3

(* The copy ProcessForkedChain starts from is right. *)
LEMMA CopyRight ==
  ASSUME ForkCacheAssumption, ForkInv, NEW p \in index
  PROVE  /\ CopyFor(CopyBlock(p)) \in Overlay
         /\ \A k \in SafeKey : View(CopyFor(CopyBlock(p)))[k] = LedgerAt(CopyBlock(p))[k]
<1> DEFINE f == CopyBlock(p)
<1>1. ForkTypeOK /\ Indexed /\ Ledgers /\ tip \in Block /\ main \in Overlay
  BY IndexedBlocks DEF ForkInv, ForkTypeOK
<1>2. CASE f \in DOMAIN forkCache
  <2>1. CopyFor(f) = forkCache[f] /\ forkCache[f] \in Overlay
    BY <1>1, <1>2, IndexedBlocks DEF CopyFor
  <2> QED
    BY <1>1, <1>2, <2>1 DEF Ledgers, CopiesRight
<1>3. CASE f \notin DOMAIN forkCache
  <2> DEFINE path == Chain[tip] \ Chain[f]
  <2>1. f \in Chain[tip]
    BY <1>1, <1>3, CopyStart
  <2>2. CopyFor(f) = Disconnected(main, path)
    BY <1>3 DEF CopyFor
  <2>3. path \in SUBSET Chain[tip]
    OBVIOUS
  <2>4. CopyFor(f) \in Overlay
    BY <1>1, <2>2, <2>3, OverlayTypes
  <2>5. ASSUME NEW k \in SafeKey PROVE View(CopyFor(f))[k] = LedgerAt(f)[k]
    <3>1. k \in Key
      BY DEF SafeKey
    <3>2. View(main)[k] = LedgerAt(tip)[k]
      BY <1>1, <3>1 DEF Ledgers, CachesRight
    <3>3. ASSUME NEW c \in path, k \in Writes[c] PROVE undo[c][k] = LedgerAt(Parent[c])[k]
      <4>1. c \in Chain[tip] \ {Genesis}
        BY <1>1, <2>1, AboveFork
      <4>2. c \in hasUndo
        BY <1>1, <4>1 DEF Ledgers, Undoable
      <4> QED
        BY <1>1, <3>3, <4>2 DEF Ledgers, RecordsRight
    <3> QED
      BY <1>1, <2>1, <2>2, <3>1, <3>2, <3>3, DisconnectedReads
  <2> QED
    BY <2>4, <2>5
<1> QED
  BY <1>2, <1>3

(***************************************************************************)
(* What ProcessForkedChain leaves: the records of the blocks it connected  *)
(* are forgotten, none of them on the active chain, and the copies it      *)
(* keeps are right.                                                        *)
(***************************************************************************)
LEMMA ForkProcessed ==
  ASSUME ForkCacheAssumption, ForkInv, NEW p \in index, ProcessForkedChain(p)
  PROVE  /\ undo' \in [Block -> Overlay]
         /\ \E good \in SUBSET (Chain[p] \ Chain[tip]) :
              /\ failed' = failed \ good /\ hasUndo' = hasUndo \ good
              /\ \A c \in Block \ (good \ hasUndo) : undo'[c] = undo[c]
              /\ \A c \in good :
                   Chain[c] \cap (Chain[p] \ Chain[CopyBlock(p)]) \cap Invalid = {}
         /\ DOMAIN forkCache' \subseteq index
         /\ \A d \in DOMAIN forkCache' :
              /\ forkCache'[d] \in Overlay
              /\ \A k \in SafeKey : View(forkCache'[d])[k] = LedgerAt(d)[k]
              /\ \/ d \in DOMAIN forkCache \cup {CopyBlock(p)}
                 \/ d = p /\ (Chain[p] \ Chain[CopyBlock(p)]) \cap Invalid = {}
<1> DEFINE f      == CopyBlock(p)
           copy   == CopyFor(f)
           path   == Chain[p] \ Chain[f]
           good   == {c \in path : Chain[c] \cap path \cap Invalid = {}}
           cached == Replace(forkCache, f, f, copy)
           next   == Connected(copy, path)
           right(o, d) == o \in Overlay /\ \A k \in SafeKey : View(o)[k] = LedgerAt(d)[k]
<1>1. ForkTypeOK /\ Indexed /\ Ledgers /\ p \in Block
  BY IndexedBlocks DEF ForkInv
<1>2. f \in Chain[p] /\ f \in index /\ path \cap Chain[tip] = {}
  BY <1>1, CopyStart
<1>3. right(copy, f)
  BY CopyRight
<1>4. path \in SUBSET Chain[p] /\ good \in SUBSET path
  OBVIOUS
<1>5. /\ WriteUndo(good, copy) /\ StatusReset(good)
      /\ forkCache' = IF good = path /\ path # {} THEN Replace(cached, f, p, next)
                                                  ELSE cached
  BY DEF ProcessForkedChain
<1>6. right(next, p)
  <2>1. next \in Overlay
    BY <1>1, <1>3, <1>4, OverlayTypes
  <2>2. ASSUME NEW k \in SafeKey PROVE View(next)[k] = LedgerAt(p)[k]
    BY <1>1, <1>2, <1>3, ConnectedReads DEF SafeKey
  <2> QED
    BY <2>1, <2>2
<1>7. \A d \in DOMAIN forkCache : right(forkCache[d], d)
  BY <1>1, IndexedBlocks DEF Ledgers, CopiesRight
<1>8. undo' \in [Block -> Overlay] /\ \A c \in Block \ (good \ hasUndo) : undo'[c] = undo[c]
  <2>1. good \in SUBSET Chain[p]
    BY <1>4
  <2> HIDE DEF f, copy, path, good
  <2>2. undo' = [c \in Block |-> IF c \in good \ hasUndo THEN UndoOf(c, copy, good) ELSE undo[c]]
    BY <1>5 DEF WriteUndo
  <2>3. \A c \in Block : UndoOf(c, copy, good) \in Overlay
    BY <1>1, <1>3, <2>1, OverlayTypes
  <2> QED
    BY <1>1, <2>2, <2>3 DEF ForkTypeOK
<1>9. failed' = failed \ good /\ hasUndo' = hasUndo \ good
  BY <1>5 DEF StatusReset
<1>10. good \in SUBSET (Chain[p] \ Chain[tip])
  BY <1>2
<1>11. good = path => path \cap Invalid = {}
  <2> SUFFICES ASSUME good = path, NEW c \in path PROVE c \notin Invalid
    OBVIOUS
  <2>1. Chain[c] \cap path \cap Invalid = {}
    OBVIOUS
  <2>2. c \in Chain[c]
    BY <1>1, ChainFacts
  <2> QED
    BY <2>1, <2>2
<1>12. \A c \in good : Chain[c] \cap path \cap Invalid = {}
  OBVIOUS
<1> HIDE DEF f, copy, path, good, next
<1>13. /\ DOMAIN cached = DOMAIN forkCache \cup {f}
       /\ \A d \in DOMAIN cached : right(cached[d], d)
  <2>1. cached = [d \in DOMAIN forkCache \cup {f} |-> IF d = f THEN copy ELSE forkCache[d]]
    BY DEF Replace
  <2> HIDE DEF cached, right
  <2> QED
    BY <1>3, <1>7, <2>1
<1> HIDE DEF cached
<1>14. /\ DOMAIN forkCache' \subseteq DOMAIN forkCache \cup {f, p}
       /\ \A d \in DOMAIN forkCache' :
            /\ right(forkCache'[d], d)
            /\ d \in DOMAIN forkCache \cup {f} \/ (d = p /\ path \cap Invalid = {})
  <2> HIDE DEF right
  <2>1. CASE forkCache' = cached
    BY <1>13, <2>1
  <2>2. CASE good = path /\ forkCache' = Replace(cached, f, p, next)
    <3>1. forkCache' = [d \in (DOMAIN cached \ {f}) \cup {p} |-> IF d = p THEN next ELSE cached[d]]
      BY <2>2 DEF Replace
    <3> QED
      BY <1>6, <1>11, <1>13, <2>2, <3>1
  <2> QED
    BY <1>5, <2>1, <2>2
<1>15. DOMAIN forkCache' \subseteq index
  BY <1>1, <1>2, <1>14 DEF ForkTypeOK
<1> QED
  BY <1>8, <1>9, <1>10, <1>12, <1>14, <1>15 DEF f, path

-----------------------------------------------------------------------------
(* The steps. *)

(* A step that leaves the ledgers and the records alone keeps them right. *)
LEMMA LedgersSame ==
  ASSUME Ledgers, UNCHANGED <<ledgerVars, hasUndo>>, ibd' = ibd \/ InitialDownload
  PROVE  Ledgers'
<1>1. /\ undo' = undo /\ tip' = tip /\ main' = main /\ db' = db /\ forkCache' = forkCache
      /\ hasUndo' = hasUndo
  BY DEF ledgerVars
<1>2. CachesRight'
  BY <1>1 DEF Ledgers, CachesRight, View, LedgerAt
<1>3. CopiesRight'
  <2>1. ASSUME NEW f \in DOMAIN forkCache, NEW k \in SafeKey
        PROVE  (View(forkCache[f])[k])' = LedgerAt(f)[k]
    <3>1. View(forkCache[f])[k] = LedgerAt(f)[k]
      BY DEF Ledgers, CopiesRight
    <3> QED
      BY <1>1, <3>1 DEF View
  <2> QED
    BY <1>1, <2>1 DEF CopiesRight, SafeKey
<1>4. RecordsRight' /\ Undoable'
  BY <1>1 DEF Ledgers, RecordsRight, Undoable, LedgerAt
<1>5. Flushed'
  BY <1>1 DEF Ledgers, Flushed
<1> QED
  BY <1>2, <1>3, <1>4, <1>5 DEF Ledgers

(* AcceptBlock, of a block on the tip and of one on a side branch. *)
LEMMA AcceptForkStep ==
  ASSUME ForkCacheAssumption, ForkInv, NEW b \in Block, AcceptForkBlock(b)
  PROVE  ForkInv'
<1>1. ForkTypeOK /\ Indexed /\ NoFailedCandidate /\ Ledgers
  BY DEF ForkInv
<1>2. /\ pc = "idle" /\ b \notin index /\ Parent[b] \in index
      /\ UNCHANGED <<tip, mostWork, main, db, ibd, bad, invalidated>>
  BY DEF AcceptForkBlock
<1>3. b # Genesis
  <2>1. Genesis \in index
    BY <1>1, IndexedBlocks, ChainFacts DEF Indexed, ForkTypeOK
  <2> QED
    BY <1>2, <2>1
<1>4. /\ Parent[b] \in Block /\ Height[b] = Height[Parent[b]] + 1
      /\ Chain[b] = Chain[Parent[b]] \cup {b}
  BY <1>3, ParentFacts
<1>5. /\ undo' \in [Block -> Overlay] /\ failed' \subseteq failed /\ hasUndo' \subseteq hasUndo
      /\ DOMAIN forkCache' \subseteq index
      /\ \A d \in DOMAIN forkCache' :
           /\ forkCache'[d] \in Overlay
           /\ \A k \in SafeKey : View(forkCache'[d])[k] = LedgerAt(d)[k]
      /\ \A c \in hasUndo' : undo'[c] = undo[c]
      /\ Undoable'
  <2>1. CASE UNCHANGED <<failed, hasUndo, undo, forkCache>>
    BY <1>1, <1>2, <2>1, IndexedBlocks DEF ForkTypeOK, Ledgers, CopiesRight, Undoable
  <2>2. CASE ProcessForkedChain(Parent[b])
    <3> DEFINE path == Chain[Parent[b]] \ Chain[tip]
    <3>1. PICK good \in SUBSET path :
            /\ failed' = failed \ good /\ hasUndo' = hasUndo \ good
            /\ \A c \in Block \ (good \ hasUndo) : undo'[c] = undo[c]
      BY <1>2, <2>2, ForkProcessed
    <3>2. hasUndo \subseteq Block
      BY <1>1, IndexedBlocks DEF ForkTypeOK
    <3>3. Undoable'
      BY <1>1, <1>2, <3>1 DEF Ledgers, Undoable
    <3>4. /\ undo' \in [Block -> Overlay] /\ DOMAIN forkCache' \subseteq index
          /\ \A d \in DOMAIN forkCache' :
               /\ forkCache'[d] \in Overlay
               /\ \A k \in SafeKey : View(forkCache'[d])[k] = LedgerAt(d)[k]
      BY <1>2, <2>2, ForkProcessed
    <3> QED
      BY <3>1, <3>2, <3>3, <3>4
  <2> QED
    BY <2>1, <2>2 DEF AcceptForkBlock
<1>6. \/ order' = Append(order, b) /\ valid' = valid \cup {b} /\ pc' = "find"
      \/ UNCHANGED <<order, valid, pc>>
  BY DEF AcceptForkBlock
<1>7. ForkTypeOK' /\ Indexed' /\ NoFailedCandidate'
  <2>1. CASE order' = Append(order, b) /\ valid' = valid \cup {b} /\ pc' = "find"
    <3>1. /\ order' \in Seq(Block) /\ index' = index \cup {b}
          /\ DOMAIN order' = DOMAIN order \cup {Len(order) + 1} /\ order'[Len(order) + 1] = b
          /\ \A i \in DOMAIN order : order'[i] = order[i]
      BY <1>1, <2>1, IndexGrows
    <3>2. PICK i \in DOMAIN order : Parent[b] = order[i]
      BY <1>2 DEF index
    <3>3. /\ DOMAIN order = 1 .. Len(order) /\ Len(order) \in Nat
          /\ Height[Parent[b]] \in Nat
      BY <1>1, <1>4, ChainFacts DEF ForkTypeOK
    <3>4. Height[b] < Len(order) + 1
      BY <1>1, <1>4, <3>2, <3>3 DEF Indexed
    <3>5. \A j \in DOMAIN order' : Height[order'[j]] < j
      BY <1>1, <3>1, <3>4 DEF Indexed
    <3>6. \A c \in index' : Chain[c] \subseteq index'
      BY <1>1, <1>2, <1>4, <3>1 DEF Indexed
    <3>7. Indexed'
      BY <1>1, <1>5, <2>1, <3>5, <3>6 DEF Indexed
    <3>8. ForkTypeOK'
      BY <1>1, <1>2, <1>5, <2>1, <3>1 DEF ForkTypeOK
    <3>9. b \notin failed
      BY <1>1, <1>2 DEF ForkTypeOK
    <3>10. NoFailedCandidate'
      BY <1>1, <1>5, <2>1, <3>9 DEF NoFailedCandidate
    <3> QED
      BY <3>7, <3>8, <3>10
  <2>2. CASE UNCHANGED <<order, valid, pc>>
    <3>1. index' = index
      BY <2>2 DEF index
    <3>2. Indexed'
      BY <1>1, <1>2, <1>5, <2>2, <3>1 DEF Indexed
    <3>3. ForkTypeOK'
      BY <1>1, <1>2, <1>5, <2>2, <3>1 DEF ForkTypeOK
    <3>4. NoFailedCandidate'
      BY <1>1, <1>5, <2>2 DEF NoFailedCandidate
    <3> QED
      BY <3>2, <3>3, <3>4
  <2> QED
    BY <1>6, <2>1, <2>2
<1>8. CachesRight' /\ Flushed'
  BY <1>1, <1>2 DEF Ledgers, CachesRight, Flushed, View, LedgerAt
<1>9. CopiesRight'
  <2>1. ASSUME NEW d \in DOMAIN forkCache', NEW k \in SafeKey
        PROVE  (View(forkCache[d])[k])' = LedgerAt(d)[k]
    <3>1. View(forkCache'[d])[k] = LedgerAt(d)[k]
      BY <1>5
    <3> QED
      BY <1>2, <3>1 DEF View
  <2> QED
    BY <2>1 DEF CopiesRight
<1>10. RecordsRight'
  <2>1. \A c \in hasUndo' : c \in hasUndo /\ undo'[c] = undo[c]
    BY <1>5
  <2> QED
    BY <1>1, <2>1 DEF Ledgers, RecordsRight
<1> QED
  BY <1>5, <1>7, <1>8, <1>9, <1>10 DEF ForkInv, Ledgers

(* chainMostWork without the failed blocks at its end is not empty. *)
LEMMA UnfailedFound ==
  ASSUME ForkTypeOK, Indexed
  PROVE  Unfailed \in Chain[mostWork] /\ Unfailed \in index
<1> DEFINE good == Chain[mostWork] \ failed
           ends == {c \in good : \A d \in Chain[mostWork] :
                                   Height[d] > Height[c] => d \in failed}
<1>1. mostWork \in Block /\ Chain[mostWork] \subseteq index
  BY IndexedBlocks DEF Indexed, ForkTypeOK
<1>2. good \in SUBSET Chain[mostWork] /\ good # {}
  BY <1>1, ChainFacts DEF Indexed
<1>3. HighestOf(good) \in good /\ \A d \in good : Height[d] <= Height[HighestOf(good)]
  BY <1>1, <1>2, HighestOne
<1>4. \A d \in Chain[mostWork] : Height[d] \in Nat
  BY <1>1, ChainFacts
<1>5. HighestOf(good) \in ends
  <2> SUFFICES ASSUME NEW d \in Chain[mostWork], Height[d] > Height[HighestOf(good)]
               PROVE  d \in failed
    BY <1>3
  <2>1. Height[d] \in Nat /\ Height[HighestOf(good)] \in Nat
    BY <1>3, <1>4
  <2> QED
    BY <1>3, <2>1
<1>6. ends \in SUBSET Chain[mostWork] /\ ends # {}
  BY <1>5
<1>7. Unfailed = HighestOf(ends)
  BY DEF Unfailed
<1>8. HighestOf(ends) \in ends
  BY <1>1, <1>6, HighestOne
<1> QED
  BY <1>1, <1>7, <1>8

(* CBlockIndexWorkComparator has a best block in every set of entries. *)
LEMMA BestFound ==
  ASSUME ForkTypeOK, Indexed, NEW S \in SUBSET index, S # {}
  PROVE  BestOf(S) \in S /\ \A d \in S : Height[d] <= Height[BestOf(S)]
<1>1. /\ DOMAIN order = 1 .. Len(order) /\ Len(order) \in Nat
      /\ \A i \in DOMAIN order : order[i] \in Block
  BY DEF ForkTypeOK
<1>2. \A c \in index : Position(c) \in DOMAIN order /\ order[Position(c)] = c
  BY DEF index, Position
<1>3. \A c \in index : Height[c] \in Nat /\ Height[c] <= Len(order)
  <2> TAKE c \in index
  <2>1. Height[c] < Position(c)
    BY <1>2 DEF Indexed
  <2>2. Height[c] \in Nat
    BY IndexedBlocks, ChainFacts
  <2> QED
    BY <1>1, <1>2, <2>1, <2>2
<1> DEFINE T == {Len(order) - Height[c] : c \in S}
<1>4. T \in SUBSET Nat /\ T # {}
  BY <1>1, <1>3
<1>5. PICK n \in T : \A m \in T : n <= m
  BY <1>4, LeastNatural
<1> DEFINE Top == {c \in S : Len(order) - Height[c] = n}
           U   == {Position(c) : c \in Top}
<1>6. U \in SUBSET Nat /\ U # {}
  BY <1>1, <1>2, <1>5
<1>7. PICK u \in U : \A m \in U : u <= m
  BY <1>6, LeastNatural
<1>8. PICK b \in Top : u = Position(b)
  BY <1>7
<1>9. ASSUME NEW d \in S \ {b} PROVE Better(b, d)
  <2>1. /\ Height[b] \in Nat /\ Height[d] \in Nat
        /\ Len(order) - Height[b] <= Len(order) - Height[d]
    BY <1>3, <1>5, <1>8
  <2>2. CASE Height[d] < Height[b]
    BY <2>1, <2>2 DEF Better
  <2>3. CASE Height[d] = Height[b]
    <3>1. d \in Top
      BY <1>8, <2>3
    <3>2. Position(b) <= Position(d)
      BY <1>7, <1>8, <3>1
    <3>3. Position(b) # Position(d) /\ Position(b) \in Nat /\ Position(d) \in Nat
      BY <1>1, <1>2, <1>8, <1>9
    <3> QED
      BY <2>3, <3>2, <3>3 DEF Better
  <2> QED
    BY <1>1, <2>1, <2>2, <2>3
<1>10. BestOf(S) \in S /\ \A d \in S \ {BestOf(S)} : Better(BestOf(S), d)
  <2>1. b \in S /\ \A d \in S \ {b} : Better(b, d)
    BY <1>8, <1>9
  <2> QED
    BY <2>1 DEF BestOf
<1>11. \A d \in S : Height[d] <= Height[BestOf(S)]
  BY <1>3, <1>10 DEF Better
<1> QED
  BY <1>10, <1>11

(***************************************************************************)
(* What FindMostWorkChain leaves: blocks above a failed one are flagged    *)
(* and taken out of the candidates, and what it has chosen is as high as   *)
(* every candidate that has no failed block on its path.                   *)
(***************************************************************************)
LEMMA MostWorkFound ==
  ASSUME ForkTypeOK, Indexed, FindMostWorkChain
  PROVE  /\ \E flagged \in SUBSET (index \ {Genesis}) :
              /\ failed' = failed \cup flagged /\ valid' = valid \ flagged
              /\ \A d \in flagged : Chain[d] \cap failed # {}
         /\ mostWork' \in index
         /\ \A c \in valid : FailedOnPath(c) = {} => Height[c] <= Height[mostWork']
<1> DEFINE clean   == {c \in valid : FailedOnPath(c) = {}}
           new     == IF clean = {} THEN Unfailed ELSE BestOf(clean)
           tried   == {c \in valid \ clean : clean = {} \/ Better(c, new)}
           flagged == UNION {FailedChildren(c) : c \in tried}
<1>1. /\ failed' = failed \cup flagged /\ valid' = valid \ flagged
      /\ mostWork' = IF Better(new, Unfailed) THEN new ELSE Unfailed
  BY DEF FindMostWorkChain
<1>2. valid \subseteq index /\ index \subseteq Block
  BY IndexedBlocks DEF ForkTypeOK
<1>3. clean \in SUBSET index
  BY <1>2
<1>4. new \in index /\ Unfailed \in index /\ \A c \in clean : Height[c] <= Height[new]
  BY <1>3, UnfailedFound, BestFound
<1>5. ASSUME NEW c \in tried, NEW d \in FailedChildren(c)
      PROVE  d \in index \ {Genesis} /\ Chain[d] \cap failed # {}
  <2>1. c \in index /\ c \in Block /\ FailedOnPath(c) # {}
    BY <1>2
  <2>2. FailedOnPath(c) \in SUBSET Chain[c]
    BY DEF FailedOnPath
  <2> DEFINE h == HighestOf(FailedOnPath(c))
  <2>3. h \in FailedOnPath(c)
    BY <2>1, <2>2, HighestOne
  <2>4. d \in Chain[c] /\ Height[d] > Height[h]
    BY DEF FailedChildren
  <2>5. h \in Chain[c] /\ h \in failed
    BY <2>3 DEF FailedOnPath
  <2> HIDE DEF h
  <2>6. Height[h] \in Nat /\ Height[d] \in Nat
    BY <2>1, <2>4, <2>5, ChainFacts
  <2>7. h \in Chain[d]
    BY <2>1, <2>4, <2>5, <2>6, ChainFacts
  <2>8. d # Genesis
    BY <2>4, <2>6, BlockTreeAssumption
  <2>9. d \in index
    BY <2>1, <2>4 DEF Indexed
  <2> QED
    BY <2>5, <2>7, <2>8, <2>9
<1> HIDE DEF new
<1>6. flagged \in SUBSET (index \ {Genesis}) /\ \A d \in flagged : Chain[d] \cap failed # {}
  BY <1>5
<1>7. mostWork' \in index
  BY <1>1, <1>4
<1>8. ASSUME NEW c \in clean PROVE Height[c] <= Height[mostWork']
  <2>1. /\ Height[c] \in Nat /\ Height[new] \in Nat /\ Height[Unfailed] \in Nat
        /\ Height[c] <= Height[new]
    BY <1>2, <1>4, ChainFacts
  <2>2. mostWork' = new \/ Height[new] <= Height[mostWork']
    BY <1>1, <2>1 DEF Better
  <2> QED
    BY <1>1, <2>1, <2>2
<1> QED
  BY <1>1, <1>6, <1>7, <1>8

LEMMA FindStep ==
  ASSUME ForkInv, FindMostWorkChain
  PROVE  ForkInv'
<1>1. ForkTypeOK /\ Indexed /\ NoFailedCandidate /\ Ledgers
  BY DEF ForkInv
<1>2. /\ UNCHANGED <<order, hasUndo, ledgerVars, ibd, bad, invalidated>>
      /\ pc' = "activate"
  BY DEF FindMostWorkChain
<1>3. Ledgers'
  BY <1>1, <1>2, LedgersSame
<1>4. PICK flagged \in SUBSET (index \ {Genesis}) :
        failed' = failed \cup flagged /\ valid' = valid \ flagged
  BY <1>1, MostWorkFound
<1>5. mostWork' \in index /\ index' = index
  BY <1>1, <1>2, MostWorkFound DEF index
<1>6. ForkTypeOK'
  BY <1>1, <1>2, <1>4, <1>5 DEF ForkTypeOK, ledgerVars
<1>7. Indexed'
  BY <1>1, <1>2, <1>4, <1>5 DEF Indexed
<1>8. NoFailedCandidate'
  BY <1>1, <1>4 DEF NoFailedCandidate
<1> QED
  BY <1>3, <1>6, <1>7, <1>8 DEF ForkInv

(* DisconnectTip: the caches go back to the ledger after the parent. *)
LEMMA TipDisconnected ==
  ASSUME ForkCacheAssumption, ForkInv, tip # Genesis, DisconnectTip
  PROVE  /\ Ledgers'
         /\ undo' \in [Block -> Overlay] /\ tip' \in index
         /\ main' \in Overlay /\ db' \in [Key -> Block]
         /\ DOMAIN forkCache' \subseteq index
         /\ \A f \in DOMAIN forkCache' : forkCache'[f] \in Overlay
<1>1. /\ ForkTypeOK /\ Indexed /\ Ledgers /\ tip \in Block /\ tip \in index
      /\ main \in Overlay
  BY IndexedBlocks DEF ForkInv, ForkTypeOK
<1>2. /\ tip' = Parent[tip] /\ UNCHANGED <<order, hasUndo, undo, mostWork, ibd, invalidated>>
      /\ WriteChainState(Disconnected(main, {tip}))
  BY DEF DisconnectTip
<1>3. /\ Parent[tip] \in Block /\ Chain[tip] = Chain[Parent[tip]] \cup {tip}
      /\ tip \notin Chain[Parent[tip]]
  BY <1>1, ParentFacts
<1>4. Parent[tip] \in Chain[tip] /\ Chain[tip] \ Chain[Parent[tip]] = {tip}
  BY <1>3, ChainFacts
<1>5. {tip} \in SUBSET Chain[tip]
  BY <1>3
<1> DEFINE o == Disconnected(main, {tip})
<1>6. o \in Overlay
  BY <1>1, <1>5, OverlayTypes
<1>7. ASSUME NEW k \in Key PROVE View(o)[k] = LedgerAt(Parent[tip])[k]
  <2>1. View(main)[k] = LedgerAt(tip)[k]
    BY <1>1 DEF Ledgers, CachesRight
  <2>2. tip \in hasUndo
    BY <1>1, <1>3 DEF Ledgers, Undoable
  <2>3. k \in Writes[tip] => undo[tip][k] = LedgerAt(Parent[tip])[k]
    BY <1>1, <2>2 DEF Ledgers, RecordsRight
  <2> QED
    BY <1>1, <1>4, <2>1, <2>3, DisconnectedReads
<1> HIDE DEF o
<1>8. /\ main' \in Overlay /\ db' \in [Key -> Block]
      /\ \A k \in Key : (View(main)[k])' = View(o)[k]
      /\ DOMAIN forkCache' \subseteq DOMAIN forkCache
      /\ \A f \in DOMAIN forkCache' :
           /\ forkCache'[f] = forkCache[f]
           /\ \A k \in Key : (View(forkCache[f])[k])' = View(forkCache[f])[k]
      /\ ~ibd => \A k \in Key : main'[k] = Unset
  BY <1>1, <1>2, <1>6, StateWritten DEF o
<1>9. CachesRight'
  BY <1>2, <1>7, <1>8 DEF CachesRight
<1>10. CopiesRight'
  <2>1. ASSUME NEW f \in DOMAIN forkCache', NEW k \in SafeKey
        PROVE  (View(forkCache[f])[k])' = LedgerAt(f)[k]
    <3>1. k \in Key
      BY DEF SafeKey
    <3>2. View(forkCache[f])[k] = LedgerAt(f)[k]
      BY <1>1, <1>8 DEF Ledgers, CopiesRight
    <3> QED
      BY <1>8, <3>1, <3>2
  <2> QED
    BY <2>1 DEF CopiesRight
<1>11. RecordsRight'
  BY <1>1, <1>2 DEF Ledgers, RecordsRight
<1>12. Undoable' /\ Flushed'
  BY <1>1, <1>2, <1>3, <1>8 DEF Ledgers, Undoable, Flushed
<1>13. tip' \in index /\ undo' \in [Block -> Overlay]
  BY <1>1, <1>2, <1>4 DEF Indexed, ForkTypeOK
<1>14. DOMAIN forkCache' \subseteq index /\ \A f \in DOMAIN forkCache' : forkCache'[f] \in Overlay
  BY <1>1, <1>8, IndexedBlocks DEF ForkTypeOK
<1> QED
  BY <1>8, <1>9, <1>10, <1>11, <1>12, <1>13, <1>14 DEF Ledgers

LEMMA DisconnectStep ==
  ASSUME ForkCacheAssumption, ForkInv, Disconnect
  PROVE  ForkInv'
<1>1. ForkTypeOK /\ Indexed /\ NoFailedCandidate
  BY DEF ForkInv
<1>2. /\ DisconnectTip /\ tip \notin Chain[mostWork]
      /\ UNCHANGED <<order, failed, valid, hasUndo, mostWork, ibd, pc, bad, invalidated>>
  BY DEF Disconnect, DisconnectTip, ChainContains
<1>3. tip # Genesis
  BY <1>1, <1>2, IndexedBlocks, ChainFacts
<1>4. /\ Ledgers'
      /\ undo' \in [Block -> Overlay] /\ tip' \in index
      /\ main' \in Overlay /\ db' \in [Key -> Block]
      /\ DOMAIN forkCache' \subseteq index
      /\ \A f \in DOMAIN forkCache' : forkCache'[f] \in Overlay
  BY <1>2, <1>3, TipDisconnected
<1>5. index' = index
  BY <1>2 DEF index
<1>6. ForkTypeOK'
  BY <1>1, <1>2, <1>4, <1>5 DEF ForkTypeOK
<1>7. Indexed' /\ NoFailedCandidate'
  BY <1>1, <1>2, <1>5 DEF Indexed, NoFailedCandidate
<1> QED
  BY <1>4, <1>6, <1>7 DEF ForkInv

(* The loop of InvalidateBlock ends above genesis. *)
LEMMA InvalidateTipStep ==
  ASSUME ForkCacheAssumption, ForkInv, InvalidateTip
  PROVE  ForkInv'
<1>1. ForkTypeOK /\ Indexed /\ NoFailedCandidate
  BY DEF ForkInv
<1>2. /\ DisconnectTip /\ bad \in Chain[tip] /\ pc = "invalidate"
      /\ failed' = failed \cup {tip} /\ valid' = valid \ {tip}
      /\ UNCHANGED <<order, hasUndo, mostWork, ibd, pc, bad, invalidated>>
  BY DEF InvalidateTip, DisconnectTip, MarkInvalid, ChainContains
<1>3. tip # Genesis
  BY <1>1, <1>2, BlockTreeAssumption DEF Indexed
<1>4. /\ Ledgers'
      /\ undo' \in [Block -> Overlay] /\ tip' \in index
      /\ main' \in Overlay /\ db' \in [Key -> Block]
      /\ DOMAIN forkCache' \subseteq index
      /\ \A f \in DOMAIN forkCache' : forkCache'[f] \in Overlay
  BY <1>2, <1>3, TipDisconnected
<1>5. index' = index
  BY <1>2 DEF index
<1>6. ForkTypeOK'
  BY <1>1, <1>2, <1>4, <1>5 DEF ForkTypeOK
<1>7. Indexed' /\ NoFailedCandidate'
  BY <1>1, <1>2, <1>3, <1>5 DEF Indexed, NoFailedCandidate
<1> QED
  BY <1>4, <1>6, <1>7 DEF ForkInv

(* The block that ConnectTip connects is the child of the tip. *)
LEMMA NextBlock ==
  ASSUME NEW t \in Block, NEW m \in Block, t \in Chain[m], t # m
  PROVE  /\ At(m, Height[t] + 1) \in Chain[m] /\ At(m, Height[t] + 1) \in Block \ {Genesis}
         /\ Parent[At(m, Height[t] + 1)] = t
<1> DEFINE n == At(m, Height[t] + 1)
<1>1. Height[t] \in Nat /\ Height[m] \in Nat /\ Height[t] <= Height[m] /\ Height[t] # Height[m]
  BY ChainFacts
<1>2. Height[t] + 1 \in 0 .. Height[m]
  BY <1>1
<1>3. \E c \in Chain[m] : Height[c] = Height[t] + 1
  BY <1>2, BlockTreeAssumption
<1>4. n \in Chain[m] /\ Height[n] = Height[t] + 1
  BY <1>3 DEF At
<1> HIDE DEF n
<1>5. n \in Block
  BY <1>4, ChainFacts
<1>6. n \notin Chain[t]
  <2> SUFFICES ASSUME n \in Chain[t] PROVE FALSE
    OBVIOUS
  <2>1. Height[n] <= Height[t]
    BY ChainFacts
  <2> QED
    BY <1>1, <1>4, <2>1
<1>7. n \in Block \ {Genesis} /\ Parent[n] \in Chain[m]
  BY <1>4, <1>6, AboveFork
<1>8. Parent[n] \in Block /\ Height[n] = Height[Parent[n]] + 1
  BY <1>7, ParentFacts
<1>9. Height[Parent[n]] = Height[t]
  <2>1. Height[Parent[n]] \in Nat
    BY <1>8, ChainFacts
  <2> QED
    BY <1>1, <1>4, <1>8, <2>1
<1>10. Parent[n] = t
  BY <1>7, <1>9, ChainFacts
<1> QED
  BY <1>4, <1>7, <1>10 DEF n

(* ConnectTip, of a block that is bad and of one that is connected. *)
LEMMA ConnectStep ==
  ASSUME ForkCacheAssumption, ForkInv, ConnectTip
  PROVE  ForkInv'
<1> DEFINE next == At(mostWork, Height[tip] + 1)
<1>1. /\ ForkTypeOK /\ Indexed /\ NoFailedCandidate /\ Ledgers
      /\ tip \in Block /\ mostWork \in Block /\ main \in Overlay
      /\ hasUndo \subseteq index /\ index \subseteq Block
  BY IndexedBlocks DEF ForkInv, ForkTypeOK
<1>2. /\ pc = "activate" /\ tip \in Chain[mostWork] /\ tip # mostWork
      /\ UNCHANGED <<order, mostWork, ibd, bad, invalidated>>
      /\ \/ /\ MarkInvalid(next) /\ pc' = "find"
            /\ UNCHANGED <<hasUndo, ledgerVars>>
         \/ /\ WriteUndo({next}, main) /\ hasUndo' = hasUndo \cup {next}
            /\ WriteChainState(Connected(main, {next})) /\ tip' = next
            /\ UNCHANGED <<failed, valid, pc>>
  BY DEF ConnectTip, ChainContains
<1>3. next \in Chain[mostWork] /\ next \in Block \ {Genesis} /\ Parent[next] = tip
  BY <1>1, <1>2, NextBlock
<1> HIDE DEF next
<1>4. next \in index /\ index' = index
  BY <1>1, <1>2, <1>3 DEF Indexed, ForkTypeOK, index
<1>5. CASE MarkInvalid(next) /\ pc' = "find" /\ UNCHANGED <<hasUndo, ledgerVars>>
  <2>1. Ledgers'
    BY <1>1, <1>2, <1>5, LedgersSame
  <2>2. failed' = failed \cup {next} /\ valid' = valid \ {next}
    BY <1>5 DEF MarkInvalid
  <2>3. ForkTypeOK'
    BY <1>1, <1>2, <1>4, <1>5, <2>2 DEF ForkTypeOK, ledgerVars
  <2>4. Indexed'
    BY <1>1, <1>2, <1>3, <1>4, <1>5, <2>2 DEF Indexed
  <2>5. NoFailedCandidate'
    BY <1>1, <2>2 DEF NoFailedCandidate
  <2> QED
    BY <2>1, <2>3, <2>4, <2>5 DEF ForkInv
<1>6. CASE /\ WriteUndo({next}, main) /\ hasUndo' = hasUndo \cup {next}
           /\ WriteChainState(Connected(main, {next})) /\ tip' = next
           /\ UNCHANGED <<failed, valid, pc>>
  <2> DEFINE o == Connected(main, {next})
  <2>1. /\ Chain[next] = Chain[tip] \cup {next} /\ next \notin Chain[tip]
        /\ Height[next] \in Nat
    BY <1>3, ParentFacts, ChainFacts
  <2>2. tip \in Chain[next] /\ Chain[next] \ Chain[tip] = {next} /\ {next} \in SUBSET Chain[next]
    BY <1>1, <2>1, ChainFacts
  <2>3. o \in Overlay /\ \A c \in Block : UndoOf(c, main, {next}) \in Overlay
    BY <1>1, <1>3, <2>2, OverlayTypes
  <2>4. ASSUME NEW k \in Key PROVE View(o)[k] = LedgerAt(next)[k]
    <3>1. View(main)[k] = LedgerAt(tip)[k]
      BY <1>1 DEF Ledgers, CachesRight
    <3> QED
      BY <1>3, <2>2, <3>1, ConnectedReads
  <2>5. \A c \in Block : undo'[c] = IF c \in {next} \ hasUndo THEN UndoOf(c, main, {next})
                                                             ELSE undo[c]
    BY <1>6 DEF WriteUndo
  <2>6. undo' \in [Block -> Overlay]
    <3>1. undo' = [c \in Block |-> IF c \in {next} \ hasUndo THEN UndoOf(c, main, {next})
                                                           ELSE undo[c]]
      BY <1>6 DEF WriteUndo
    <3> QED
      BY <1>1, <2>3, <3>1 DEF ForkTypeOK
  <2>7. ASSUME NEW k \in Writes[next] PROVE UndoOf(next, main, {next})[k] = LedgerAt(tip)[k]
    <3>1. k \in Key
      BY <1>3 DEF ForkCacheAssumption
    <3>2. {d \in {next} : Height[d] < Height[next]} = {}
      BY <2>1
    <3>3. UndoOf(next, main, {next})[k] = View(Connected(main, {}))[k]
      BY <3>1, <3>2 DEF UndoOf
    <3>4. Connected(main, {})[k] = main[k]
      BY <3>1 DEF Connected
    <3>5. View(Connected(main, {}))[k] = View(main)[k]
      BY <3>1, <3>4 DEF View
    <3> QED
      BY <1>1, <3>1, <3>3, <3>5 DEF Ledgers, CachesRight
  <2> HIDE DEF o
  <2>8. /\ main' \in Overlay /\ db' \in [Key -> Block]
        /\ \A k \in Key : (View(main)[k])' = View(o)[k]
        /\ DOMAIN forkCache' \subseteq DOMAIN forkCache
        /\ \A f \in DOMAIN forkCache' :
             /\ forkCache'[f] = forkCache[f]
             /\ \A k \in Key : (View(forkCache[f])[k])' = View(forkCache[f])[k]
        /\ ~ibd => \A k \in Key : main'[k] = Unset
    BY <1>1, <1>6, <2>3, StateWritten DEF o
  <2>9. CachesRight'
    BY <1>6, <2>4, <2>8 DEF CachesRight
  <2>10. CopiesRight'
    <3>1. ASSUME NEW f \in DOMAIN forkCache', NEW k \in SafeKey
          PROVE  (View(forkCache[f])[k])' = LedgerAt(f)[k]
      <4>1. k \in Key
        BY DEF SafeKey
      <4>2. View(forkCache[f])[k] = LedgerAt(f)[k]
        BY <1>1, <2>8 DEF Ledgers, CopiesRight
      <4> QED
        BY <2>8, <4>1, <4>2
    <3> QED
      BY <3>1 DEF CopiesRight
  <2>11. RecordsRight'
    <3> SUFFICES ASSUME NEW c \in hasUndo'
                 PROVE  c # Genesis /\ \A k \in Writes[c] : undo'[c][k] = LedgerAt(Parent[c])[k]
      BY DEF RecordsRight
    <3>1. CASE c \in hasUndo
      BY <1>1, <2>5, <3>1 DEF Ledgers, RecordsRight
    <3>2. CASE c = next /\ c \notin hasUndo
      BY <1>3, <2>5, <2>7, <3>2
    <3> QED
      BY <1>6, <3>1, <3>2
  <2>12. Undoable' /\ Flushed'
    BY <1>1, <1>2, <1>6, <2>1, <2>8 DEF Ledgers, Undoable, Flushed
  <2>13. DOMAIN forkCache' \subseteq index /\ \A f \in DOMAIN forkCache' : forkCache'[f] \in Overlay
    BY <1>1, <2>8, IndexedBlocks DEF ForkTypeOK
  <2>14. ForkTypeOK'
    BY <1>1, <1>2, <1>4, <1>6, <2>6, <2>8, <2>13 DEF ForkTypeOK
  <2>15. Indexed' /\ NoFailedCandidate'
    BY <1>1, <1>2, <1>4, <1>6 DEF Indexed, NoFailedCandidate
  <2> QED
    BY <2>9, <2>10, <2>11, <2>12, <2>14, <2>15 DEF ForkInv, Ledgers
<1> QED
  BY <1>2, <1>5, <1>6

(***************************************************************************)
(* The block cache is flushed alone: it changes what copies read of its    *)
(* keys only when the caches above it hold something.                      *)
(***************************************************************************)
LEMMA ActivatedStep ==
  ASSUME ForkCacheAssumption, ForkInv, Activated
  PROVE  ForkInv'
<1>1. ForkTypeOK /\ Indexed /\ NoFailedCandidate /\ Ledgers
  BY DEF ForkInv
<1>2. /\ FlushKeys(main, BlockKey) /\ pc' = "idle"
      /\ UNCHANGED <<order, failed, valid, hasUndo, undo, tip, forkCache, mostWork, ibd, bad,
                     invalidated>>
  BY DEF Activated, indexVars
<1>3. /\ db' = [k \in Key |-> IF k \in BlockKey THEN View(main)[k] ELSE db[k]]
      /\ main' = [k \in Key |-> IF k \in BlockKey THEN Unset ELSE main[k]]
  BY <1>2 DEF FlushKeys
<1>4. \A k \in Key : View(main)[k] \in Block
  BY <1>1 DEF View, Overlay, ForkTypeOK
<1>5. main' \in Overlay /\ db' \in [Key -> Block]
  BY <1>1, <1>3, <1>4 DEF Overlay, ForkTypeOK
<1>6. \A k \in Key : (View(main)[k])' = View(main)[k]
  BY <1>3 DEF View
<1>7. \A k \in SafeKey : k \in Key /\ db'[k] = db[k]
  <2> TAKE k \in SafeKey
  <2>1. k \in Key
    BY DEF SafeKey
  <2>2. CASE InitialDownload
    BY <1>3, <2>1, <2>2 DEF SafeKey
  <2>3. CASE ~InitialDownload
    <3>1. main[k] = Unset
      BY <1>1, <2>1, <2>3 DEF Ledgers, Flushed
    <3>2. View(main)[k] = db[k]
      BY <2>1, <3>1 DEF View
    <3> QED
      BY <1>3, <2>1, <3>2
  <2> QED
    BY <2>2, <2>3
<1>8. CachesRight'
  BY <1>1, <1>2, <1>6 DEF Ledgers, CachesRight
<1>9. CopiesRight'
  <2>1. ASSUME NEW f \in DOMAIN forkCache', NEW k \in SafeKey
        PROVE  (View(forkCache[f])[k])' = LedgerAt(f)[k]
    <3>1. View(forkCache[f])[k] = LedgerAt(f)[k]
      BY <1>1, <1>2 DEF Ledgers, CopiesRight
    <3> QED
      BY <1>2, <1>7, <3>1 DEF View
  <2> QED
    BY <2>1 DEF CopiesRight
<1>10. RecordsRight' /\ Undoable'
  BY <1>1, <1>2 DEF Ledgers, RecordsRight, Undoable
<1>11. Flushed'
  BY <1>1, <1>2, <1>3 DEF Ledgers, Flushed
<1>12. index' = index
  BY <1>2 DEF index
<1>13. ForkTypeOK'
  BY <1>1, <1>2, <1>5, <1>12 DEF ForkTypeOK
<1>14. Indexed' /\ NoFailedCandidate'
  BY <1>1, <1>2, <1>12 DEF Indexed, NoFailedCandidate
<1> QED
  BY <1>8, <1>9, <1>10, <1>11, <1>13, <1>14 DEF ForkInv, Ledgers

(* The operator's commands touch flags and candidates alone. *)
LEMMA CommandStep ==
  ASSUME ForkCacheAssumption, ForkInv,
         \/ \E b \in Block : InvalidateBlock(b)
         \/ Invalidated
         \/ \E b \in Block, children \in BOOLEAN : ReconsiderBlock(b, children)
  PROVE  ForkInv'
<1>1. ForkTypeOK /\ Indexed /\ NoFailedCandidate /\ Ledgers
  BY DEF ForkInv
<1>2. UNCHANGED <<order, hasUndo, undo, tip, main, db, forkCache, mostWork, ibd>>
  BY DEF InvalidateBlock, Invalidated, ReconsiderBlock, ledgerVars, indexVars
<1>3. Ledgers'
  BY <1>1, <1>2, LedgersSame DEF ledgerVars
<1>4. index' = index
  BY <1>2 DEF index
<1>5. /\ failed' \subseteq index /\ Genesis \notin failed' /\ valid' \subseteq index
      /\ valid' \cap failed' = {} /\ invalidated' \subseteq index
      /\ pc' \in {"find", "invalidate"} /\ bad' \in Block \cup {Unset}
      /\ pc' = "invalidate" => bad' \in Block \ {Genesis}
  <2>1. CASE \E b \in Block : InvalidateBlock(b)
    <3>1. PICK b \in Block : InvalidateBlock(b)
      BY <2>1
    <3>2. b \in index /\ b # Genesis
      BY <3>1 DEF InvalidateBlock, ForkCacheAssumption
    <3> QED
      BY <1>1, <3>1, <3>2 DEF InvalidateBlock, MarkInvalid, ForkTypeOK, Indexed, NoFailedCandidate
  <2>2. CASE Invalidated
    BY <1>1, <2>2 DEF Invalidated, indexVars, ForkTypeOK, Indexed, NoFailedCandidate
  <2>3. CASE \E b \in Block, children \in BOOLEAN : ReconsiderBlock(b, children)
    <3>1. PICK b \in Block, children \in BOOLEAN : ReconsiderBlock(b, children)
      BY <2>3
    <3>2. PICK cleared \in SUBSET failed :
            /\ failed' = failed \ cleared /\ valid' = valid \cup cleared
            /\ invalidated' = invalidated \ cleared
      BY <3>1 DEF ReconsiderBlock
    <3>3. pc' = "find" /\ bad' = bad
      BY <3>1 DEF ReconsiderBlock
    <3> QED
      BY <1>1, <3>2, <3>3 DEF ForkTypeOK, Indexed, NoFailedCandidate
  <2> QED
    BY <2>1, <2>2, <2>3
<1>6. ForkTypeOK'
  BY <1>1, <1>2, <1>4, <1>5 DEF ForkTypeOK
<1>7. Indexed' /\ NoFailedCandidate'
  BY <1>1, <1>2, <1>4, <1>5 DEF Indexed, NoFailedCandidate
<1> QED
  BY <1>3, <1>6, <1>7 DEF ForkInv

(* Initial download comes and goes, or nothing happens. *)
LEMMA QuietStep ==
  ASSUME ForkCacheAssumption, ForkInv, InitialDownloadChanges \/ UNCHANGED forkVars
  PROVE  ForkInv'
<1>1. ForkTypeOK /\ Indexed /\ NoFailedCandidate /\ Ledgers
  BY DEF ForkInv
<1>2. UNCHANGED <<order, failed, valid, hasUndo, undo, tip, main, db, forkCache, mostWork, pc,
                  bad, invalidated>>
  BY DEF InitialDownloadChanges, forkVars, indexVars, ledgerVars
<1>3. ibd' = ibd \/ (InitialDownload /\ ibd' = ~ibd)
  BY DEF InitialDownloadChanges, forkVars
<1>4. Ledgers'
  BY <1>1, <1>2, <1>3, LedgersSame DEF ledgerVars
<1>5. index' = index
  BY <1>2 DEF index
<1>6. ForkTypeOK'
  BY <1>1, <1>2, <1>3, <1>5 DEF ForkTypeOK
<1>7. Indexed' /\ NoFailedCandidate'
  BY <1>1, <1>2, <1>5 DEF Indexed, NoFailedCandidate
<1> QED
  BY <1>4, <1>6, <1>7 DEF ForkInv

(* The node starts with genesis, in the databases. *)
LEMMA ForkInvInit ==
  ASSUME ForkCacheAssumption, ForkInit
  PROVE  ForkInv
<1>1. Genesis \in Block /\ Chain[Genesis] = {Genesis} /\ Height[Genesis] = 0
  BY BlockTreeAssumption
<1>2. order = <<Genesis>> /\ DOMAIN order = {1} /\ order[1] = Genesis /\ index = {Genesis}
  BY DEF ForkInit, index
<1>3. DOMAIN forkCache = {}
  BY DEF ForkInit
<1>4. ForkTypeOK
  BY <1>1, <1>2, <1>3 DEF ForkInit, ForkTypeOK, Overlay, ForkCacheAssumption
<1>5. Indexed /\ NoFailedCandidate
  BY <1>1, <1>2 DEF ForkInit, Indexed, NoFailedCandidate
<1>6. CachesRight
  <2> SUFFICES ASSUME NEW k \in Key PROVE View(main)[k] = LedgerAt(Genesis)[k]
    BY DEF CachesRight, ForkInit
  <2>1. View(main)[k] = Genesis
    BY DEF ForkInit, View
  <2>2. LedgerAt(Genesis)[k] = Genesis
    BY <1>1, LedgerReads
  <2> QED
    BY <2>1, <2>2
<1>7. CopiesRight
  BY <1>3 DEF CopiesRight
<1>8. RecordsRight /\ Undoable /\ Flushed
  BY <1>1 DEF ForkInit, RecordsRight, Undoable, Flushed, ForkCacheAssumption
<1> QED
  BY <1>4, <1>5, <1>6, <1>7, <1>8 DEF ForkInv, Ledgers

LEMMA ForkInvNext ==
  ASSUME ForkCacheAssumption, ForkInv, [ForkNext]_forkVars
  PROVE  ForkInv'
<1>1. CASE \E b \in Block : AcceptForkBlock(b)
  BY <1>1, AcceptForkStep
<1>2. CASE ActivationNext
  BY <1>2, FindStep, DisconnectStep, ConnectStep, ActivatedStep DEF ActivationNext
<1>3. CASE OperatorNext
  BY <1>3, CommandStep, InvalidateTipStep DEF OperatorNext
<1>4. CASE InitialDownloadChanges \/ UNCHANGED forkVars
  BY <1>4, QuietStep
<1> QED
  BY <1>1, <1>2, <1>3, <1>4 DEF ForkNext

-----------------------------------------------------------------------------
(***************************************************************************)
(* While no operator interferes: every flag stands for an invalid block at *)
(* or below it, nothing that is connected or copied has one, every entry   *)
(* without a flag is a candidate, and what was chosen last is the highest  *)
(* of them.                                                                *)
(***************************************************************************)
Candidates ==
  /\ \A c \in failed : Chain[c] \cap Invalid # {}
  /\ \A c \in {tip} \cup DOMAIN forkCache : Chain[c] \cap Invalid = {}
  /\ index \ failed \subseteq valid
  /\ pc # "invalidate"
  /\ pc # "find" =>
       \A c \in index : Chain[c] \cap failed = {} => Height[c] <= Height[mostWork]
  /\ pc = "idle" => tip = mostWork

LEMMA CandidatesAccept ==
  ASSUME ForkCacheAssumption, ForkInv, Candidates, NEW b \in Block, AcceptForkBlock(b)
  PROVE  Candidates'
<1>1. ForkTypeOK /\ Indexed /\ tip \in Block
  BY IndexedBlocks DEF ForkInv
<1>2. pc = "idle" /\ Parent[b] \in index /\ UNCHANGED <<tip, mostWork>>
  BY DEF AcceptForkBlock
<1>3. failed' = failed /\ \A d \in DOMAIN forkCache' : Chain[d] \cap Invalid = {}
  <2>1. CASE UNCHANGED <<failed, hasUndo, undo, forkCache>>
    BY <2>1 DEF Candidates
  <2>2. CASE ProcessForkedChain(Parent[b])
    <3> DEFINE p == Parent[b]
               f == CopyBlock(p)
               path == Chain[p] \ Chain[f]
    <3>1. PICK good \in SUBSET (Chain[p] \ Chain[tip]) :
            /\ failed' = failed \ good
            /\ \A c \in good : Chain[c] \cap path \cap Invalid = {}
      BY <1>2, <2>2, ForkProcessed DEF ForkInv
    <3>2. \A d \in DOMAIN forkCache' : \/ d \in DOMAIN forkCache \cup {f}
                                       \/ d = p /\ path \cap Invalid = {}
      BY <1>2, <2>2, ForkProcessed DEF ForkInv
    <3>3. p \in Block /\ f \in Block /\ f \in DOMAIN forkCache \cup Chain[tip]
      BY <1>1, <1>2, CopyStart, IndexedBlocks
    <3> HIDE DEF f
    <3>4. Chain[f] \cap Invalid = {}
      <4>1. CASE f \in DOMAIN forkCache
        BY <4>1 DEF Candidates
      <4>2. CASE f \in Chain[tip]
        BY <1>1, <4>2, ChainFacts DEF Candidates
      <4> QED
        BY <3>3, <4>1, <4>2
    <3>5. ASSUME NEW c \in good PROVE c \notin failed
      <4>1. Chain[c] \subseteq Chain[p]
        BY <3>3, ChainFacts
      <4>2. Chain[c] \cap Invalid = {}
        BY <3>1, <3>4, <4>1
      <4> QED
        BY <4>2 DEF Candidates
    <3>6. ASSUME NEW d \in DOMAIN forkCache' PROVE Chain[d] \cap Invalid = {}
      <4>1. CASE d \in DOMAIN forkCache
        BY <4>1 DEF Candidates
      <4>2. CASE d = f
        BY <3>4, <4>2
      <4>3. CASE d = p /\ path \cap Invalid = {}
        BY <3>4, <4>3
      <4> QED
        BY <3>2, <4>1, <4>2, <4>3
    <3> QED
      BY <3>1, <3>5, <3>6
  <2> QED
    BY <2>1, <2>2 DEF AcceptForkBlock
<1>4. CASE order' = Append(order, b) /\ valid' = valid \cup {b} /\ pc' = "find"
  <2>1. index' = index \cup {b}
    BY <1>1, <1>4, IndexGrows
  <2> QED
    BY <1>2, <1>3, <1>4, <2>1 DEF Candidates
<1>5. CASE UNCHANGED <<order, valid, pc>>
  <2>1. index' = index
    BY <1>5 DEF index
  <2> QED
    BY <1>2, <1>3, <1>5, <2>1 DEF Candidates
<1> QED
  BY <1>4, <1>5 DEF AcceptForkBlock

LEMMA CandidatesFind ==
  ASSUME ForkInv, Candidates, FindMostWorkChain
  PROVE  Candidates'
<1>1. ForkTypeOK /\ Indexed
  BY DEF ForkInv
<1>2. index \subseteq Block
  BY <1>1, IndexedBlocks
<1>3. PICK flagged \in SUBSET (index \ {Genesis}) :
        /\ failed' = failed \cup flagged /\ valid' = valid \ flagged
        /\ \A d \in flagged : Chain[d] \cap failed # {}
  BY <1>1, MostWorkFound
<1>4. \A c \in valid : FailedOnPath(c) = {} => Height[c] <= Height[mostWork']
  BY <1>1, MostWorkFound
<1>5. UNCHANGED <<order, tip, forkCache>> /\ pc' = "activate"
  BY DEF FindMostWorkChain, ledgerVars
<1>6. index' = index
  BY <1>5 DEF index
<1>7. ASSUME NEW c \in failed' PROVE Chain[c] \cap Invalid # {}
  <2>1. CASE c \in failed
    BY <2>1 DEF Candidates
  <2>2. CASE c \in flagged
    <3>1. PICK x \in Chain[c] : x \in failed
      BY <1>3, <2>2
    <3>2. Chain[x] \subseteq Chain[c]
      BY <1>2, <2>2, ChainFacts
    <3> QED
      BY <3>1, <3>2 DEF Candidates
  <2> QED
    BY <1>3, <2>1, <2>2
<1>8. ASSUME NEW c \in index, Chain[c] \cap failed' = {} PROVE Height[c] <= Height[mostWork']
  <2>1. Chain[c] \cap failed = {} /\ c \in Chain[c]
    BY <1>2, <1>3, <1>8, ChainFacts
  <2>2. c \in valid
    BY <2>1 DEF Candidates
  <2>3. FailedOnPath(c) = {}
    BY <2>1 DEF FailedOnPath
  <2> QED
    BY <1>4, <2>2, <2>3
<1>9. index' \ failed' \subseteq valid'
  BY <1>3, <1>6 DEF Candidates
<1> QED
  BY <1>5, <1>6, <1>7, <1>8, <1>9 DEF Candidates

LEMMA CandidatesConnect ==
  ASSUME ForkInv, Candidates, ConnectTip
  PROVE  Candidates'
<1> DEFINE next == At(mostWork, Height[tip] + 1)
<1>1. ForkTypeOK /\ Indexed /\ tip \in Block /\ mostWork \in Block
  BY IndexedBlocks DEF ForkInv
<1>2. /\ pc = "activate" /\ tip \in Chain[mostWork] /\ tip # mostWork
      /\ UNCHANGED <<order, mostWork>>
  BY DEF ConnectTip, ChainContains
<1>3. next \in Block \ {Genesis} /\ Parent[next] = tip
  BY <1>1, <1>2, NextBlock
<1>4. \/ /\ next \in Invalid /\ MarkInvalid(next) /\ pc' = "find"
         /\ UNCHANGED <<tip, forkCache>>
      \/ /\ next \notin Invalid /\ tip' = next /\ UNCHANGED <<failed, valid, pc>>
         /\ WriteChainState(Connected(main, {next}))
  BY DEF ConnectTip, ledgerVars
<1> HIDE DEF next
<1>5. index' = index
  BY <1>2 DEF index
<1>6. CASE /\ next \in Invalid /\ MarkInvalid(next) /\ pc' = "find"
           /\ UNCHANGED <<tip, forkCache>>
  <2>1. failed' = failed \cup {next} /\ valid' = valid \ {next}
    BY <1>6 DEF MarkInvalid
  <2>2. next \in Chain[next]
    BY <1>3, ChainFacts
  <2> QED
    BY <1>2, <1>5, <1>6, <2>1, <2>2 DEF Candidates
<1>7. CASE /\ next \notin Invalid /\ tip' = next /\ UNCHANGED <<failed, valid, pc>>
           /\ WriteChainState(Connected(main, {next}))
  <2>1. Chain[next] = Chain[tip] \cup {next}
    BY <1>3, ParentFacts
  <2>2. Chain[next] \cap Invalid = {}
    BY <1>7, <2>1 DEF Candidates
  <2>3. DOMAIN forkCache' \subseteq DOMAIN forkCache
    <3>1. forkCache' = << >> \/ forkCache' = forkCache
      BY <1>7 DEF WriteChainState
    <3> QED
      BY <3>1
  <2> QED
    BY <1>2, <1>5, <1>7, <2>2, <2>3 DEF Candidates
<1> QED
  BY <1>4, <1>6, <1>7

LEMMA CandidatesNext ==
  ASSUME ForkCacheAssumption, Disputed = {}, ForkInv, Candidates, [ForkNext]_forkVars
  PROVE  Candidates'
<1>1. ForkTypeOK /\ Indexed /\ tip \in Block
  BY IndexedBlocks DEF ForkInv
<1>2. CASE \E b \in Block : AcceptForkBlock(b)
  BY <1>2, CandidatesAccept
<1>3. CASE FindMostWorkChain
  BY <1>3, CandidatesFind
<1>4. CASE Disconnect
  <2>1. /\ tip \notin Chain[mostWork] /\ tip' = Parent[tip] /\ pc = "activate"
        /\ UNCHANGED <<order, failed, valid, mostWork, pc>>
        /\ WriteChainState(Disconnected(main, {tip}))
    BY <1>4 DEF Disconnect, DisconnectTip, ChainContains
  <2>2. tip # Genesis
    BY <1>1, <2>1, IndexedBlocks, ChainFacts
  <2>3. Chain[Parent[tip]] \subseteq Chain[tip]
    BY <1>1, <2>2, ParentFacts
  <2>4. DOMAIN forkCache' \subseteq DOMAIN forkCache
    <3>1. forkCache' = << >> \/ forkCache' = forkCache
      BY <2>1 DEF WriteChainState
    <3> QED
      BY <3>1
  <2>5. index' = index
    BY <2>1 DEF index
  <2> QED
    BY <2>1, <2>3, <2>4, <2>5 DEF Candidates
<1>5. CASE ConnectTip
  BY <1>5, CandidatesConnect
<1>6. CASE Activated
  <2>1. /\ tip = mostWork /\ pc = "activate" /\ pc' = "idle"
        /\ UNCHANGED <<order, failed, valid, tip, forkCache, mostWork>>
    BY <1>6 DEF Activated, indexVars
  <2>2. index' = index
    BY <2>1 DEF index
  <2> QED
    BY <2>1, <2>2 DEF Candidates
<1>7. ~OperatorNext
  BY DEF OperatorNext, InvalidateBlock, InvalidateTip, Invalidated, ReconsiderBlock, Candidates
<1>8. CASE InitialDownloadChanges \/ UNCHANGED forkVars
  <2>1. UNCHANGED <<order, failed, valid, tip, forkCache, mostWork, pc>>
    BY <1>8 DEF InitialDownloadChanges, forkVars, indexVars, ledgerVars
  <2>2. index' = index
    BY <2>1 DEF index
  <2> QED
    BY <2>1, <2>2 DEF Candidates
<1> QED
  BY <1>2, <1>3, <1>4, <1>5, <1>6, <1>7, <1>8 DEF ForkNext, ActivationNext

LEMMA CandidatesInit ==
  ASSUME ForkCacheAssumption, ForkInit
  PROVE  Candidates
<1>1. Genesis \in Block /\ Chain[Genesis] = {Genesis} /\ Height[Genesis] = 0
  BY BlockTreeAssumption
<1>2. index = {Genesis} /\ DOMAIN forkCache = {}
  BY DEF ForkInit, index
<1> QED
  BY <1>1, <1>2 DEF ForkInit, Candidates, ForkCacheAssumption

-----------------------------------------------------------------------------
(* The promises follow from the invariants. *)
LEMMA ForkPromises ==
  ASSUME ForkCacheAssumption, ForkInv, Disputed = {} => Candidates
  PROVE  ForksAreJudgedRight
<1>1. ForkTypeOK /\ NoFailedCandidate /\ Ledgers /\ tip \in Block
  BY IndexedBlocks DEF ForkInv
<1>2. MainLedgerRight
  <2>1. \A k \in Key : View(main)[k] = LedgerAt(tip)[k]
    BY <1>1 DEF Ledgers, CachesRight
  <2> QED
    BY <2>1 DEF MainLedgerRight, View, LedgerAt
<1>3. UndoLeadsBack
  BY <1>1 DEF Ledgers, RecordsRight, Undoable, UndoLeadsBack
<1>4. ForkAccountsRight
  BY <1>1 DEF Ledgers, CopiesRight, SafeKey, ForkAccountsRight, ForkCacheAssumption
<1>5. InitialDownload \/ ForkLedgerRight
  <2> SUFFICES ASSUME ~InitialDownload, NEW f \in DOMAIN forkCache
               PROVE  View(forkCache[f]) = LedgerAt(f)
    BY DEF ForkLedgerRight
  <2>1. \A k \in Key : View(forkCache[f])[k] = LedgerAt(f)[k]
    BY <1>1 DEF Ledgers, CopiesRight, SafeKey
  <2> QED
    BY <2>1 DEF View, LedgerAt
<1>6. Disputed # {} \/ BestChainActive
  <2> SUFFICES ASSUME Candidates, pc = "idle", NEW c \in index, FailedOnPath(c) = {}
               PROVE  Height[c] <= Height[tip]
    BY DEF BestChainActive
  <2>1. Chain[tip] \cap failed = {}
    BY <1>1, ChainFacts DEF Candidates
  <2>2. Chain[c] \cap failed = {}
    BY <2>1 DEF FailedOnPath
  <2> QED
    BY <2>2 DEF Candidates
<1> QED
  BY <1>1, <1>2, <1>3, <1>4, <1>5, <1>6 DEF ForksAreJudgedRight

(***************************************************************************)
(* ProcessForkedChain judges every side branch by its own ledger, in every *)
(* tree of blocks, whatever they write, whatever is invalid and whatever   *)
(* the operator invalidates: the copies in mapForkCache and the caches of  *)
(* the active chain read as the replay of their chains, in initial         *)
(* download but for the keys that AddToBlockIndex flushes under them; undo *)
(* records lead back; no failed block is a candidate; and while there are  *)
(* no commands the active chain is as high as any without a failed block.  *)
(***************************************************************************)
THEOREM ForksAlwaysJudgedRight ==
  ASSUME ForkCacheAssumption
  PROVE  ForkSpec => []ForksAreJudgedRight
<1> DEFINE Inv == ForkInv /\ (Disputed = {} => Candidates)
<1>1. ForkInit => Inv
  BY ForkInvInit, CandidatesInit
<1>2. Inv /\ [ForkNext]_forkVars => Inv'
  BY ForkInvNext, CandidatesNext
<1>3. Inv => ForksAreJudgedRight
  BY ForkPromises
<1> HIDE DEF Inv
<1> QED
  BY <1>1, <1>2, <1>3, PTL DEF ForkSpec
=============================================================================
