---------------------------- MODULE FinalityNet ----------------------------
(***************************************************************************)
(* Finality among several nodes.  Each node has the key of one delegate;   *)
(* blocks and votes reach it in any order, late, or never.  It goes        *)
(* through the handlers of FinalityNode one at a time (one thread), with   *)
(* no restart, and votes for every new tip: none is older than 60 s.       *)
(* Every delegate is on the list of every block, no block is invalid, and  *)
(* the chains are shorter than the windows in which finality is looked     *)
(* for.  Genesis is the last block that all nodes have in common and whose *)
(* list they have recorded.  Faulty delegates vote for everything.         *)
(***************************************************************************)
EXTENDS FinalityAgreement, FiniteSets

CONSTANTS
  Faulty,   \* the delegates that keep no rule
  MaxStale  \* bound on the nodes whose local finality has expired or been dropped

NetAssumption ==
  /\ IsFiniteSet(Node) /\ IsFiniteSet(Faulty)
  /\ Node \cap Faulty = {}
  /\ Cardinality(Node \cup Faulty) > 1
  /\ MaxStale \in Nat

vars == <<node, final>>

Ballot == {"confirm", "finality"} \X Block

State ==
  [index     : SUBSET Block,   \* mapBlockIndex
   mostWork  : Block,          \* chainMostWork.Tip()
   tip       : Block,          \* chainActive.Tip()
   localFin  : Block,          \* localFinIndex, Genesis for nullptr
   stale     : BOOLEAN,        \* more than 60 s since localFinLastUpdate
   globalFin : Block,          \* globalFinIndex, Genesis for nullptr
   miners    : SUBSET Block,   \* keys of blockMinerListMap
   cast      : SUBSET Ballot,  \* the votes of its own delegate
   counted   : SUBSET Ballot,  \* blockMessagesMap has a quorum of votes
   loosened  : BOOLEAN]        \* history: a local finality was dropped

TypeOK == node \in [Node -> State] /\ final \in [Node -> SUBSET Block]

-----------------------------------------------------------------------------
(* Mutant: one vote less. *)
NeedOneLess == LET n == Cardinality(Node \cup Faulty) IN n - n \div 3 - 1

(* GetFinalBlockMinerCount *)
Need == LET n == Cardinality(Node \cup Faulty) IN n - n \div 3

Voters(kind, b) == {n \in Node : <<kind, b>> \in node[n].cast} \cup Faulty

(* The state s has the votes of a quorum, and a list to count them against. *)
Quorum(s, kind, b) == Parent[b] \in s.miners /\ <<kind, b>> \in s.counted

(* BroadcastBlockConfirm and BroadcastBlockFinality; a repeated vote is one vote. *)
Voted(s, kind, b) ==
  IF b # Genesis /\ Parent[b] \in s.miners
    THEN [s EXCEPT !.cast = @ \cup {<<kind, b>>}] ELSE s

(***************************************************************************)
(* AddToBlockIndex and ActivateBestChain for the new block b.  The target  *)
(* is the highest block, of equals the first.  The walk down the blocks to *)
(* be reverted stops at a final one, at a local one only for 60 s; then    *)
(* only a block on the tip is connected (ConnectBlockOnFinChain).          *)
(***************************************************************************)
ActivateBestChain(s, b) ==
  LET target    == IF Height[b] > Height[s.mostWork] THEN b ELSE s.mostWork
      reverted  == Chain[s.tip] \ Chain[target]
      globalHit == s.globalFin \in reverted
      localHit  == /\ s.localFin \in reverted
                   /\ globalHit => Height[s.globalFin] <= Height[s.localFin]
      dropped   == localHit /\ s.stale
      refused   == globalHit \/ (localHit /\ ~s.stale)
  IN  [s EXCEPT !.index    = @ \cup {b},
                !.mostWork = target,
                !.localFin = IF dropped THEN Genesis ELSE @,
                !.stale    = @ /\ ~dropped,
                !.loosened = @ \/ dropped,
                !.tip      = IF refused /\ Parent[b] = @ THEN b
                             ELSE IF refused THEN @ ELSE target]

(* The blocks above fin on the active chain that have a quorum. *)
Above(s, kind, fin) ==
  {c \in Chain[s.tip] : Height[c] > Height[fin] /\ Quorum(s, kind, c)}

Highest(S) == CHOOSE c \in S : \A d \in S : Height[d] <= Height[c]

(* UpdateLocalFinBlock(height) *)
WithLocalFin(s, b) == [s EXCEPT !.localFin = b, !.stale = FALSE]

(* UpdateGlobalFinBlock(height): not above the local one, nor off its chain. *)
WithGlobalFin(s, b) ==
  IF Height[b] <= Height[s.localFin] /\ ChainContains(s.tip, s.globalFin)
    THEN [s EXCEPT !.globalFin = b] ELSE s

(***************************************************************************)
(* The end of AcceptBlock, when the new block is the tip: record its list, *)
(* vote to confirm it, and if a block has become locally final, vote for   *)
(* the finality of the tip and look for a block that has become globally   *)
(* final.                                                                  *)
(***************************************************************************)
PostAccept(s) ==
  LET recorded  == [s EXCEPT !.miners = @ \cup {s.tip}]
      confirmed == Voted(recorded, "confirm", s.tip)
      locals    == Above(confirmed, "confirm", s.localFin)
      voted     == Voted(WithLocalFin(confirmed, Highest(locals)), "finality", s.tip)
      globals   == Above(voted, "finality", s.globalFin)
  IN  IF locals = {} THEN confirmed
      ELSE IF globals = {} THEN voted
      ELSE WithGlobalFin(voted, Highest(globals))

(* Node n goes to state s. *)
Becomes(n, s) ==
  /\ node' = [node EXCEPT ![n] = s]
  /\ final' = [final EXCEPT ![n] = @ \cup {s.globalFin}]

AcceptBlock(n, b) ==
  /\ b \notin node[n].index
  /\ Parent[b] \in node[n].index
  /\ LET s == ActivateBestChain(node[n], b)
     IN  Becomes(n, IF s.tip = b THEN PostAccept(s) ELSE s)

-----------------------------------------------------------------------------
(***************************************************************************)
(* A vote reaches node n that makes a quorum for the tip, or comes on top  *)
(* of one.  Votes before it are only stored, and votes for other blocks    *)
(* are not taken at all (CheckPBFTMessage; OnlyTipVotes in FinalityNode).  *)
(***************************************************************************)
QuorumReaches(n, kind) ==
  LET b     == node[n].tip
      known == IF <<kind, b>> \in node[n].counted THEN Need ELSE Need - 1
  IN  b # Genesis /\ Cardinality(Voters(kind, b)) > known

Counted(s, kind) == [s EXCEPT !.counted = @ \cup {<<kind, s.tip>>}]

(* BroadcastBlockFinality: the node's own vote may be what makes the quorum, *)
(* and nothing follows from that until another vote or block comes.          *)
FinalityVotes(n, s) ==
  LET voted  == Voted(s, "finality", s.tip)
      others == Voters("finality", s.tip) \ {n}
  IN  {voted} \cup (IF voted # s /\ Cardinality(others) >= Need - 1
                      THEN {Counted(voted, "finality")} ELSE {})

ProcessBlockConfirmMessage(n) ==
  /\ QuorumReaches(n, "confirm")
  /\ LET s == Counted(node[n], "confirm")
     IN  IF Height[s.tip] > Height[s.localFin] /\ Quorum(s, "confirm", s.tip)
           THEN \E t \in FinalityVotes(n, WithLocalFin(s, s.tip)) : Becomes(n, t)
           ELSE Becomes(n, s)

ProcessBlockFinalityMessage(n) ==
  /\ QuorumReaches(n, "finality")
  /\ LET s == Counted(node[n], "finality")
     IN  Becomes(n, IF Height[s.tip] > Height[s.globalFin] /\ Quorum(s, "finality", s.tip)
                      THEN WithGlobalFin(s, s.tip) ELSE s)

(* Sixty seconds pass after an update of the local finality. *)
LocalFinExpires(n) ==
  /\ ~node[n].stale /\ node[n].localFin # Genesis
  /\ Cardinality({m \in Node : node[m].stale \/ node[m].loosened} \cup {n}) <= MaxStale
  /\ Becomes(n, [node[n] EXCEPT !.stale = TRUE])

(* Genesis and its children have arrived, f as the first of these. *)
Started(f) ==
  [index |-> {c \in Block : Parent[c] = Genesis}, mostWork |-> f, tip |-> f,
   localFin |-> Genesis, stale |-> FALSE, globalFin |-> Genesis, miners |-> {Genesis, f},
   cast |-> {<<"confirm", f>>}, counted |-> {}, loosened |-> FALSE]

(* Competing blocks of one height are out, and each node has taken one. *)
Init ==
  /\ node \in [Node -> {Started(f) : f \in {c \in Block : Height[c] = 1}}]
  /\ final = [n \in Node |-> {Genesis}]

Next ==
  \E n \in Node :
    \/ \E b \in Block : AcceptBlock(n, b)
    \/ ProcessBlockConfirmMessage(n)
    \/ ProcessBlockFinalityMessage(n)
    \/ LocalFinExpires(n)

Spec == Init /\ [][Next]_vars
=============================================================================
