----------------------------- MODULE Delegates -----------------------------
(***************************************************************************)
(* Votes for delegates and the list of delegates that produce blocks.      *)
(*                                                                         *)
(* A vote transaction moves an account's coins between free and voted and  *)
(* changes the votes its candidates have received; an index orders the     *)
(* candidates by votes.  At the end of every block ProcessBlockDelegates   *)
(* counts the votes when a counting slot is reached, keeps the result as   *)
(* the pending list and makes it the active list after a delay.  The rules *)
(* change at three heights: up to V2 a coin votes for every candidate at   *)
(* once, from V3 there are slots and a delay, from V35 votes can only be   *)
(* revoked and the minimum of votes is gone.                               *)
(*                                                                         *)
(* Accounts are numbered as their CRegIDs are ordered, and the two kinds   *)
(* of user id an account may be named by are one.  A list of delegates is  *)
(* the set of its entries: they are pairs of votes and delegate, and the   *)
(* order of the index puts them in one order only.  Interest on votes,     *)
(* fees and the undo of a block are left out.                              *)
(***************************************************************************)
EXTENDS Integers, FiniteSets, FiniteSetsExt, Sequences, SequencesExt

CONSTANTS
  Account,        \* accounts, as numbers
  Voter,          \* those that send vote transactions
  Registered,     \* those that have a CRegID in the beginning
  Coins,          \* free coins of a voter in the beginning
  V2, V3, V35,    \* nVer2ForkHeight, nVer3ForkHeight, nVer3_5ForkHeight
  CountInterval,  \* COUNT_VOTE_INTERVAL_AFTER_V3
  Delay,          \* ACTIVATE_DELEGATE_DELAY_AFTER_V3
  BpsSize,        \* the number of delegates in the beginning
  NewBpsSize,     \* numbers that a proposal may ask for
  MinVotes,       \* values of BP_DELEGATE_VOTE_MIN, the first one the least
  MaxOps,         \* bound on the votes of a transaction
  MaxVoteCandidateNum, \* bound in the code on the candidates of a voter
  MaxTxs,         \* bound on the transactions of the chain
  MaxHeight       \* bound on the height of the chain

(* The delay and the interval are both 100 (const.h).                       *)
DelegatesAssumption ==
  /\ IsFiniteSet(Account) /\ Account \subseteq Nat
  /\ Voter \subseteq Registered /\ Registered \subseteq Account
  /\ {Coins, V2, V3, V35, CountInterval, Delay, BpsSize, MaxOps, MaxTxs, MaxHeight}
       \subseteq Nat
  /\ V2 < V3 /\ V3 < V35 /\ CountInterval > 0 /\ Delay <= CountInterval /\ BpsSize > 0
  /\ NewBpsSize \subseteq Nat \ {0} /\ MinVotes \subseteq Nat

VARIABLES
  height,      \* the tip
  registered,  \* accounts with a CRegID
  free,        \* free_amount of the bcoins of an account
  voted,       \* voted_amount of the same
  votes,       \* regId2VoteCache: the votes an account has given
  received,    \* received_votes of an account
  index,       \* voteRegIdCache: pairs of votes and candidate
  lastVote,    \* last_vote_height_cache
  pending,     \* pending_delegates_cache
  active,      \* active_delegates_cache, {} when it holds nothing
  bps,         \* current and new total_bps_size, and its height
  minVote,     \* BP_DELEGATE_VOTE_MIN
  txs,         \* transactions executed in all, for the bound
  settled      \* history: the top list, and for how many blocks it is the same

accounts == <<registered, free, voted, votes, received, index>>
params   == <<bps, minVote>>
delegateVars ==
  <<height, accounts, lastVote, pending, active, params, txs, settled>>

AddBcoin   == "ADD_BCOIN"
MinusBcoin == "MINUS_BCOIN"

Candidates(given) == {c \in Account : given[c] > 0}

(* What a voter has to lock: the sum of its votes, its largest vote in R1. *)
TotalVotes(given, h) ==
  IF h >= V2 THEN SumFunctionOnSet(given, Account)
  ELSE Max({given[c] : c \in Account} \cup {0})

-----------------------------------------------------------------------------
(* CheckTx of one vote: no new votes after V35, no unregistered candidate   *)
(* after V2.                                                                *)
VoteAllowed(op, h) ==
  /\ op.n > 0
  /\ op.type = AddBcoin => h < V35
  /\ h >= V2 => op.cand \in registered

(* One vote of ProcessCandidateVotes; a revocation needs the votes.         *)
ApplyVote(state, op) ==
  LET given == state.given IN
  IF op.type = AddBcoin
  THEN [ok |-> state.ok /\ (\/ given[op.cand] > 0
                            \/ Cardinality(Candidates(given)) # MaxVoteCandidateNum),
        given |-> [given EXCEPT ![op.cand] = @ + op.n]]
  ELSE [ok |-> state.ok /\ given[op.cand] >= op.n,
        given |-> [given EXCEPT ![op.cand] = @ - op.n]]

(* StakeVoteBcoins on the shared copy of the candidate's account.           *)
Staked(rec, op) ==
  IF op.type = AddBcoin THEN [rec EXCEPT ![op.cand] = @ + op.n]
                        ELSE [rec EXCEPT ![op.cand] = @ - op.n]

(* SetDelegateVotes and EraseDelegateVotes, void without a CRegID.          *)
Reindexed(idx, c, old, new) ==
  IF c \in registered THEN (idx \cup {<<new, c>>}) \ {<<old, c>>} ELSE idx

ReceiveVote(state, op) ==
  LET rec == Staked(state.rec, op) IN
  [rec |-> rec,
   idx |-> Reindexed(state.idx, op.cand, state.rec[op.cand], rec[op.cand])]

(* OperateBalance VOTE or UNVOTE by the difference of the totals.           *)
Lock(v, total) ==
  /\ total - voted[v] <= free[v]
  /\ free' = [free EXCEPT ![v] = @ + voted[v] - total]
  /\ voted' = [voted EXCEPT ![v] = total]

VoteOp == [type : {AddBcoin, MinusBcoin}, cand : Account, n : 1 .. Coins]

(* CDelegateVoteTx: ExecuteFullTx registers the voter's public key, then    *)
(* ExecuteTx; nothing is left of a transaction that fails.                  *)
VoteTx(v, ops) ==
  LET h     == height + 1
      given == FoldLeft(ApplyVote, [ok |-> TRUE, given |-> votes[v]], ops)
      taken == FoldLeft(ReceiveVote, [rec |-> received, idx |-> index], ops)
  IN
  /\ txs < MaxTxs /\ v \in registered
  /\ \A k \in DOMAIN ops : VoteAllowed(ops[k], h)
  /\ given.ok
  /\ Lock(v, TotalVotes(given.given, h))
  /\ votes' = [votes EXCEPT ![v] = given.given]
  /\ received' = taken.rec
  /\ index' = taken.idx
  /\ lastVote' = h
  /\ txs' = txs + 1
  /\ UNCHANGED <<height, registered, pending, active, params, settled>>

(* RegisterAccountPubKey: the first transaction an account signs with its   *)
(* public key gives it a CRegID.  Its received votes enter the index later. *)
RegisterAccountPubKey(a) ==
  /\ txs < MaxTxs /\ a \notin registered
  /\ registered' = registered \cup {a}
  /\ txs' = txs + 1
  /\ UNCHANGED <<height, free, voted, votes, received, index, lastVote,
                 pending, active, params, settled>>

-----------------------------------------------------------------------------
TotalBpsSize(h) == IF bps.new > 0 /\ h >= bps.from THEN bps.new ELSE bps.current

(* CGovBpSizeProposal::ExecuteProposal.                                     *)
ExecuteBpSize(n, from) ==
  /\ txs < MaxTxs /\ height + 1 >= V3
  /\ bps' = [current |-> TotalBpsSize(height + 1), new |-> n, from |-> from]
  /\ txs' = txs + 1
  /\ UNCHANGED <<height, accounts, lastVote, pending, active, minVote, settled>>

(* Mutant: the parameter is stored and nothing else.                        *)
ExecuteMinVoteSilently(m) ==
  /\ txs < MaxTxs /\ height + 1 >= V3
  /\ minVote' = m
  /\ txs' = txs + 1
  /\ UNCHANGED <<height, accounts, lastVote, pending, active, bps, settled>>

(* CGovSysParamProposal::ExecuteProposal of BP_DELEGATE_VOTE_MIN: it counts *)
(* as a vote, for the next count to look at the votes again.                *)
ExecuteMinVote(m) ==
  /\ txs < MaxTxs /\ height + 1 >= V3
  /\ minVote' = m
  /\ lastVote' = height + 1
  /\ txs' = txs + 1
  /\ UNCHANGED <<height, accounts, pending, active, bps, settled>>

-----------------------------------------------------------------------------
Before(x, y) == x[1] > y[1] \/ (x[1] = y[1] /\ x[2] < y[2])

Ahead(idx, e) == {f \in idx : Before(f, e)}

(* From V3 to V35 a delegate needs the minimum of votes.                    *)
Eligible(idx, h) == IF h >= V3 /\ h < V35 THEN {e \in idx : e[1] >= minVote} ELSE idx

(* The first n of the index in its order, as far as they are eligible.      *)
Leading(idx, n, h) == {e \in Eligible(idx, h) : Cardinality(Ahead(idx, e)) < n}

(* GetTopVoteDelegates: up to the wanted number.                            *)
TopVoteDelegates(idx, h) == Leading(idx, TotalBpsSize(h), h)

(* Mutant: an empty list is a list like any other.                          *)
GenPendingDelegatesOfNone(idx, h) ==
  LET top == TopVoteDelegates(idx, h) IN
  [state |-> IF active # {} /\ top = active THEN pending.state ELSE "PENDING",
   counted |-> h,
   top |-> top]

GenPendingDelegates(idx, h) ==
  LET top == TopVoteDelegates(idx, h) IN
  [state |-> IF top = {} \/ (active # {} /\ top = active)
             THEN pending.state ELSE "PENDING",
   counted |-> h,
   top |-> IF top = {} THEN pending.top ELSE top]

(* The slots, and the reasons to count in one.                              *)
CountingDue(lv, h) ==
  /\ pending.state # "PENDING"
  /\ h < V3 \/ h % CountInterval = 0
  /\ \/ pending.counted = 0
     \/ lv > pending.counted
     \/ Cardinality(active) # TotalBpsSize(h)

(* ProcessBlockDelegates, on the votes that the block leaves.               *)
ProcessBlockDelegates(idx, lv, h) ==
  LET gen == IF CountingDue(lv, h) THEN GenPendingDelegates(idx, h) ELSE pending
      due == /\ gen.state # "ACTIVATED"
             /\ h - gen.counted >= (IF h < V3 THEN 0 ELSE Delay)
  IN /\ active'  = IF due THEN gen.top ELSE active
     /\ pending' = IF due THEN [gen EXCEPT !.state = "ACTIVATED"] ELSE gen

SettleTop(idx, h) ==
  LET top == TopVoteDelegates(idx, h) IN
  settled' = [top |-> top,
              for |-> IF top = settled.top
                      THEN Min({settled.for + 1, MaxHeight}) ELSE 0]

(* Mutant: the revocation comes with the first block of V2.                 *)
RevocationLate(h) == h = V2

(* ConnectBlock calls ComputeVoteStakingInterestAndRevokeVotes once.        *)
Revocation(h) == h + 1 = V2

(* The first of a voter's votes, the largest, is kept.                      *)
Kept(v, c) ==
  /\ c \in Candidates(votes[v])
  /\ \A d \in Account : votes[v][d] <= votes[v][c]

(* Votes to revoke: all but the kept one.                                   *)
Revoked(keep) ==
  [v \in Account |-> [c \in Account |->
     IF v \in DOMAIN keep /\ keep[v] # c THEN votes[v][c] ELSE 0]]

(* Mutant: only the entries that are there are set anew.                    *)
EntriesReplaced(rec) ==
  {IF rec[e[2]] # received[e[2]] THEN <<rec[e[2]], e[2]>> ELSE e : e \in index}

(* SetDelegateVotes and EraseDelegateVotes of every candidate whose votes   *)
(* have changed: one that was voted for before it registered is put in.     *)
EntriesSet(rec) ==
  LET changed == {c \in registered : rec[c] # received[c]} IN
  (index \cup {<<rec[c], c>> : c \in changed}) \ {<<received[c], c>> : c \in changed}

(* ComputeVoteStakingInterestAndRevokeVotes; the totals that are locked     *)
(* follow from the rule of the height.                                      *)
RevokeVotes(keep, h) ==
  LET gone == Revoked(keep)
      rest(v) == [c \in Account |-> votes[v][c] - gone[v][c]]
      rec  == [c \in Account |->
                 received[c] - SumFunctionOnSet([v \in Account |-> gone[v][c]], Account)]
      idx  == EntriesSet(rec)
      lock == [v \in Account |-> IF v \in DOMAIN keep
                                 THEN TotalVotes(rest(v), h) ELSE voted[v]]
  IN
  /\ votes' = [v \in Account |-> rest(v)]
  /\ received' = rec
  /\ index' = idx
  /\ voted' = lock
  /\ free' = [v \in Account |-> free[v] + voted[v] - lock[v]]
  /\ lastVote' = h
  /\ ProcessBlockDelegates(idx, h, h)
  /\ SettleTop(idx, h)

(* The end of ConnectBlock.                                                 *)
EndBlock ==
  LET h == height + 1
      givers == {v \in Account : Candidates(votes[v]) # {}}
  IN
  /\ height < MaxHeight
  /\ height' = h
  /\ UNCHANGED <<registered, params, txs>>
  /\ \/ /\ Revocation(h)
        /\ \E keep \in [givers -> Account] :
             /\ \A v \in givers : Kept(v, keep[v])
             /\ RevokeVotes(keep, h)
     \/ /\ ~Revocation(h)
        /\ ProcessBlockDelegates(index, lastVote, h)
        /\ SettleTop(index, h)
        /\ UNCHANGED <<free, voted, votes, received, index, lastVote>>

(* The genesis block: each voter's coins vote for the voter, and the list   *)
(* is counted and activated at height 0.                                    *)
DelegatesInit ==
  LET nobody == [a \in Account |-> 0]
      first  == {<<IF a \in Voter THEN Coins ELSE 0, a>> : a \in Voter}
      top    == {e \in first : Cardinality(Ahead(first, e)) < BpsSize}
  IN
  /\ height = 0
  /\ registered = Registered
  /\ free = nobody
  /\ voted = [a \in Account |-> IF a \in Voter THEN Coins ELSE 0]
  /\ votes = [a \in Account |-> IF a \in Voter THEN [nobody EXCEPT ![a] = Coins]
                                               ELSE nobody]
  /\ received = [a \in Account |-> IF a \in Voter THEN Coins ELSE 0]
  /\ index = first
  /\ lastVote = 0
  /\ pending = [state |-> "ACTIVATED", counted |-> 0, top |-> top]
  /\ active = top
  /\ bps = [current |-> BpsSize, new |-> 0, from |-> 0]
  /\ minVote \in MinVotes
  /\ txs = 0
  /\ settled = [top |-> top, for |-> 0]

DelegatesNext ==
  \/ \E v \in Voter, k \in 1 .. MaxOps : \E ops \in [1 .. k -> VoteOp] : VoteTx(v, ops)
  \/ \E a \in Account : RegisterAccountPubKey(a)
  \/ \E n \in NewBpsSize, d \in 0 .. CountInterval : ExecuteBpSize(n, height + 1 + d)
  \/ \E m \in MinVotes : ExecuteMinVote(m)
  \/ EndBlock

DelegatesSpec == DelegatesInit /\ [][DelegatesNext]_delegateVars

-----------------------------------------------------------------------------
(* No amount is ever negative, and the coins of an account are those it     *)
(* began with; nobody gives a candidate more votes than he has coins.       *)
AmountsOK ==
  /\ free \in [Account -> Nat] /\ voted \in [Account -> Nat]
  /\ received \in [Account -> Nat]
  /\ \A a \in Account : free[a] + voted[a] = IF a \in Voter THEN Coins ELSE 0
  /\ votes \in [Account -> [Account -> 0 .. Coins]]

(* Types of the lists and the counts.                                       *)
ListsOK ==
  /\ height \in 0 .. MaxHeight /\ txs \in Nat
  /\ registered \subseteq Account
  /\ index \subseteq Nat \X Account
  /\ lastVote \in 0 .. MaxHeight + 1
  /\ pending.state \in {"PENDING", "ACTIVATED"}
  /\ pending.counted \in 0 .. MaxHeight
  /\ active \subseteq Nat \X Account /\ pending.top \subseteq Nat \X Account

(* What candidates have received is what voters have given: a revocation    *)
(* can never fail in the second loop of CDelegateVoteTx::ExecuteTx.         *)
VotesConserved ==
  \A c \in Account :
    received[c] = SumFunctionOnSet([v \in Account |-> votes[v][c]], Account)

(* The coins an account has locked are the total of its votes by the rule   *)
(* of the next block, so the rule changes at V2 without moving any coins.   *)
VotedIsTotal ==
  \A v \in Account : voted[v] = TotalVotes(votes[v], height + 1)

(* The order of candidates that GetTopVoteDelegates reads agrees with the   *)
(* accounts: only registered candidates have entries, and each only one,    *)
(* with the votes it has received.                                          *)
IndexIsReceived ==
  \A e \in index :
    /\ e[2] \in registered
    /\ e[1] = received[e[2]]

Listed(c) == \E e \in index : e[2] = c

(* A registered candidate that is in the order, or that a step gives or     *)
(* takes votes, is in it afterwards with the votes it then has.  Votes it   *)
(* got before it registered do not count in elections until such a step.    *)
CandidatesStayListed ==
  \A c \in registered :
    Listed(c) \/ received'[c] # received[c] => <<received'[c], c>> \in index'

(* Elections see every vote: a registered candidate whose votes change, by  *)
(* a transaction with several votes for it or by the revocation at V2, is   *)
(* in the order GetTopVoteDelegates reads from then on, also if it was      *)
(* voted for before it had a CRegID (SetDelegateVotes).                     *)
ElectionsSeeVotes == [][CandidatesStayListed]_delegateVars

(* What is known of votes from three sides, the voter, his coins and the    *)
(* candidate, agrees.                                                       *)
VotesAgree == AmountsOK /\ VotesConserved /\ VotedIsTotal /\ IndexIsReceived

(* A list that has been the top list for two counting intervals and the     *)
(* delay, and so has the last vote or change of the minimum, is the active  *)
(* list.  A vote cast before V3 may have been counted without the minimum;  *)
(* one cast before V35 may have been counted when nobody had it.            *)
ActiveIsFresh ==
  /\ lastVote >= V3 /\ (height < V35 \/ lastVote >= V35)
  /\ Min({settled.for, height - lastVote}) >= 2 * CountInterval + Delay
  /\ settled.top # {}
  => active = settled.top

(* Votes take effect, in slots and after a delay, whatever proposals change *)
(* the number of delegates and the minimum (CalcNextDelegates).             *)
ListsAreFresh == ListsOK /\ ActiveIsFresh

(* A chain that has active delegates never loses them all.                  *)
SomeStayActive == active # {} => active' # {}

(* sysparams.h calls BP_DELEGATE_VOTE_MIN "the min votes of delegate to be  *)
(* bp": once the rule has been in force for two intervals and the delay,    *)
(* nobody below it is an active delegate.                                   *)
ActiveHaveMinimum ==
  /\ height \in V3 + 2 * CountInterval + Delay .. V35 - 1
  /\ height - lastVote >= 2 * CountInterval + Delay
  => \A e \in active : e[1] >= minVote

=============================================================================
