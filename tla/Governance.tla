----------------------------- MODULE Governance -----------------------------
(***************************************************************************)
(* Proposals of the on-chain government.  Anyone may request one; it is    *)
(* checked, and stored with the height it expires at and the number of     *)
(* approvals it needs, two thirds of the voters of that moment.  Voters    *)
(* approve it one transaction each; the approval that completes the number *)
(* checks the proposal once more and carries it out.  In between, other    *)
(* proposals may have changed the voters and all that was checked.         *)
(*                                                                         *)
(* Modelled are the proposals that depend on each other: who governs, the  *)
(* ratios of one CDP coin pair, transfers, swaps of one mirrored coin in   *)
(* from and out to another chain, and what is switched on and off: its     *)
(* swap pair, exchange operators, pairs that prices are fed for.  The      *)
(* others (fees, permissions) set one value each; the number of block      *)
(* producers is in Delegates.  A transaction that fails leaves no trace,   *)
(* so its error paths are guards.  Ratios are per mille.                   *)
(***************************************************************************)
EXTENDS Integers, Sequences, FiniteSets, FiniteSetsExt, SequencesExt, Functions

CONSTANTS
  RegId,         \* the accounts
  ProposalId,
  Genesis,       \* the account that governs while no governor is stored
  Gateway,       \* the account of AXC_SWAP_GATEWAY_REGID
  StoredGovernors, \* the lists of governors that may be stored at first
  Switch,        \* what proposals switch on and off, the swap pair among it
  Elections,     \* the sets of active delegates there may be, the first one first
  Inputs,        \* the proposals that may be requested
  FeeRatio,      \* AXC_SWAP_FEE_RATIO
  ExpireBlocks,  \* blocks a proposal may be approved for
  MaxSupply,     \* MAX_ASSET_TOTAL_SUPPLY
  InitialRatios, \* the defaults of scoin.h
  MaxHeight      \* bound on the height

(* The proposals that may be requested, with parameters of their kind.      *)
Turned == {"enable", "disable"}

Proposal ==
  [kind : {"bpmc"}, op : Turned, regid : RegId]
    \cup [kind : {"cdp"}, params : Seq([type : DOMAIN InitialRatios, value : Nat])]
    \cup [kind : {"transfer"}, from : RegId, to : RegId, amount : Nat]
    \cup [kind : {"switch"}, op : Turned, name : Switch]
    \cup [kind : {"axcin"}, tx : STRING, to : RegId, amount : Nat]
    \cup [kind : {"axcout"}, from : RegId, amount : Nat]

(* No proposal changes two ratios; one that does may leave them unordered,  *)
(* each being checked with the stored value of the other.                   *)
SingleRatios == \A p \in Inputs : p.kind = "cdp" => Len(p.params) = 1

Ordered(r) ==
  /\ r.start > r.liquidate /\ r.liquidate > r.force
  /\ r.force * r.discount >= 1000 * 1000

GovernanceAssumption ==
  /\ IsFiniteSet(RegId) /\ {Genesis, Gateway} \subseteq RegId /\ "swap" \in Switch
  /\ Elections \in Seq((SUBSET RegId) \ {{}}) /\ Len(Elections) > 0
  /\ StoredGovernors \subseteq SUBSET RegId /\ Inputs \subseteq Proposal
  /\ {FeeRatio, ExpireBlocks, MaxSupply, MaxHeight} \subseteq Nat /\ FeeRatio <= 1000
  /\ InitialRatios \in [{"start", "liquidate", "force", "discount"} -> Nat]
  /\ Ordered(InitialRatios)

VARIABLES
  governors, \* governors_cache
  delegates, \* the active delegates
  proposals, \* proposals_cache
  approvals, \* approvals_cache
  ratios,    \* cdp_param_cache: start, liquidate, force, discount
  on,        \* the status of what is switched
  minted,    \* axc_swapin_cache: the peer transactions that were minted for
  supply,    \* total_supply of the mirrored coin
  balance,   \* free amount of it of each account
  height

effects == <<governors, ratios, on, minted, supply, balance>>
governanceVars == <<effects, delegates, proposals, approvals, height>>

----------------------------------------------------------------------------
Governors == IF governors = {} THEN {Genesis} ELSE governors

Voters(kind) == IF kind \in {"bpmc", "transfer"} THEN delegates ELSE Governors

ApprovalMinCount(kind) ==
  LET n == Cardinality(Voters(kind)) IN n - n \div 3

Updated(r, param) == [r EXCEPT ![param.type] = param.value]

IsMinted(tx) == tx \in minted

(* CheckProposal of each kind, but for its conditions on the request.  Each *)
(* parameter is checked together with the stored values of the others.     *)
GovernorsMayChange(p) == (p.op = "enable") # (p.regid \in Governors)

RatiosMayChange(p) == \A param \in Range(p.params) : Ordered(Updated(ratios, param))

MayBeTurned(p) == (p.op = "enable") # on[p.name]

MaySwapIn(p) == on["swap"] /\ ~IsMinted(p.tx) /\ supply + p.amount <= MaxSupply

MaySwapOut(p) == on["swap"] /\ balance[p.from] >= p.amount

Acceptable(p) ==
  /\ p.kind = "bpmc" => GovernorsMayChange(p)
  /\ p.kind = "cdp" => RatiosMayChange(p)
  /\ p.kind = "switch" => MayBeTurned(p)
  /\ p.kind = "axcin" => MaySwapIn(p)
  /\ p.kind = "axcout" => MaySwapOut(p)

(* Mutant: what was acceptable when it was requested is carried out.        *)
StillTrusted(p) == TRUE

StillAcceptable(p) == Acceptable(p)

----------------------------------------------------------------------------
(* ExecuteProposal of each kind.                                            *)

ChangeGovernors(p) ==
  /\ governors' = IF p.op = "enable" THEN governors \cup {p.regid} ELSE governors \ {p.regid}
  /\ UNCHANGED <<ratios, on, minted, supply, balance>>

ChangeRatios(p) ==
  /\ ratios' = FoldLeft(Updated, ratios, p.params)
  /\ UNCHANGED <<governors, on, minted, supply, balance>>

CoinTransfer(p) ==
  /\ balance[p.from] >= p.amount
  /\ balance' = [[balance EXCEPT ![p.from] = @ - p.amount] EXCEPT ![p.to] = @ + p.amount]
  /\ UNCHANGED <<governors, ratios, on, minted, supply>>

TurnOnOrOff(p) ==
  /\ on' = [on EXCEPT ![p.name] = (p.op = "enable")]
  /\ UNCHANGED <<governors, ratios, minted, supply, balance>>

GatewayFee(fees, share, n) == fees - share * n

(* ProcessAxcInFee pays those who approved, and the gateway.                *)
SwapIn(p, approvers) ==
  LET fees  == (FeeRatio * p.amount) \div 1000
      n     == Len(approvers)
      share == fees \div (n + 3)
      gains(a) == (IF a \in Range(approvers) THEN share ELSE 0)
                    + (IF a = Gateway THEN GatewayFee(fees, share, n) ELSE 0)
                    + (IF a = p.to THEN p.amount - fees ELSE 0)
  IN  /\ balance' = [a \in RegId |-> balance[a] + gains(a)]
      /\ minted' = minted \cup {p.tx}
      /\ supply' = supply + p.amount
      /\ UNCHANGED <<governors, ratios, on>>

SwapOut(p) ==
  /\ balance[p.from] >= p.amount /\ supply >= p.amount
  /\ balance' = [balance EXCEPT ![p.from] = @ - p.amount]
  /\ supply' = supply - p.amount
  /\ UNCHANGED <<governors, ratios, on, minted>>

ExecuteProposal(p, approvers) ==
  \/ p.kind = "bpmc" /\ ChangeGovernors(p)
  \/ p.kind = "cdp" /\ ChangeRatios(p)
  \/ p.kind = "transfer" /\ CoinTransfer(p)
  \/ p.kind = "switch" /\ TurnOnOrOff(p)
  \/ p.kind = "axcin" /\ SwapIn(p, approvers)
  \/ p.kind = "axcout" /\ SwapOut(p)

----------------------------------------------------------------------------
(* CProposalRequestTx.  Who requests a swap out gives up his own coins.     *)
Request(author, id, input) ==
  LET p == IF input.kind = "axcout" THEN [input EXCEPT !.from = author] ELSE input
  IN  /\ id \notin DOMAIN proposals
      /\ Acceptable(p)
      /\ p.kind = "transfer" => author # p.from
      /\ proposals' = [i \in DOMAIN proposals \cup {id} |->
                         IF i # id THEN proposals[i]
                         ELSE [what |-> p, expiry |-> height + ExpireBlocks,
                               needed |-> ApprovalMinCount(p.kind), signatures |-> 0]]
      /\ approvals' = [i \in DOMAIN proposals' |-> IF i = id THEN <<>> ELSE approvals[i]]
      /\ UNCHANGED <<effects, delegates, height>>

HasApproved(voter, id) == voter \in Range(approvals[id])

Completes(count, needed) == count = needed

(* CProposalApprovalTx; with the approval of a swap out comes a signature  *)
(* for the other chain.                                                    *)
Approve(voter, id) ==
  LET entry == proposals[id]
      p     == entry.what
      given == Append(approvals[id], voter)
  IN  /\ voter \in Voters(p.kind)
      /\ Len(approvals[id]) < entry.needed
      /\ entry.expiry >= height
      /\ ~HasApproved(voter, id)
      /\ approvals' = [approvals EXCEPT ![id] = given]
      /\ IF Completes(Len(given), entry.needed)
         THEN StillAcceptable(p) /\ ExecuteProposal(p, given)
         ELSE UNCHANGED effects
      /\ proposals' = IF p.kind = "axcout"
                      THEN [proposals EXCEPT ![id].signatures = @ + 1] ELSE proposals
      /\ UNCHANGED <<delegates, height>>

NextBlock == height < MaxHeight /\ height' = height + 1

(* The delegates are chosen by votes (Delegates).                           *)
Elect ==
  /\ delegates' \in Range(Elections) \ {delegates}
  /\ UNCHANGED <<effects, proposals, approvals>>

(* The list of governors is empty, or earlier proposals have filled it; the *)
(* swap pair exists.                                                        *)
GovernanceInit ==
  /\ governors \in StoredGovernors /\ delegates = Elections[1]
  /\ proposals = <<>> /\ approvals = <<>>
  /\ ratios = InitialRatios
  /\ on = [name \in Switch |-> name = "swap"]
  /\ minted = {} /\ supply = 0 /\ balance = [a \in RegId |-> 0]
  /\ height = 0

GovernanceNext ==
  \/ \E author \in RegId, id \in ProposalId, input \in Inputs : Request(author, id, input)
  \/ \E voter \in RegId, id \in DOMAIN proposals : Approve(voter, id)
  \/ NextBlock /\ (Elect \/ UNCHANGED <<effects, delegates, proposals, approvals>>)

GovernanceSpec == GovernanceInit /\ [][GovernanceNext]_governanceVars

----------------------------------------------------------------------------
Executed == {id \in DOMAIN proposals : Len(approvals[id]) >= proposals[id].needed}

Amount(ids) == SumFunctionOnSet([id \in ids |-> proposals[id].what.amount], ids)

SwapIns == {id \in DOMAIN proposals : proposals[id].what.kind = "axcin"}

(* The types; and a proposal is never approved twice by the same account,  *)
(* nor after it was executed.                                              *)
GovernanceTypeOK ==
  /\ governors \subseteq RegId /\ delegates \in Range(Elections)
  /\ DOMAIN proposals \subseteq ProposalId /\ DOMAIN approvals = DOMAIN proposals
  /\ \A id \in DOMAIN proposals :
       /\ proposals[id].needed \in 1 .. Cardinality(RegId)
       /\ IsInjective(approvals[id]) /\ Range(approvals[id]) \subseteq RegId
       /\ Len(approvals[id]) <= proposals[id].needed
  /\ DOMAIN ratios = DOMAIN InitialRatios /\ Range(ratios) \subseteq Nat
  /\ on \in [Switch -> BOOLEAN] /\ supply \in Nat /\ balance \in [RegId -> Nat]
  /\ height \in 0 .. MaxHeight

(* The ratios of the pair keep the relation that liquidations rely on: a   *)
(* position closed at a discount still pays its debt.                      *)
RatiosOrdered == Ordered(ratios)

(* No peer transaction is minted for twice, whoever proposes it how often. *)
MintedOnce ==
  \A i, j \in Executed \cap SwapIns : proposals[i].what.tx = proposals[j].what.tx => i = j

(* The supply of the mirrored coin is what the accounts hold: approvers,   *)
(* gateway and receiver share what is minted without a remainder.          *)
SupplyIsHeld == supply = SumFunctionOnSet(balance, RegId)

(* Coins that enough governors have signed for on the other chain are      *)
(* burnt here, and no others are.                                          *)
SignedIsBurnt ==
  LET signed == {id \in DOMAIN proposals : /\ proposals[id].what.kind = "axcout"
                                           /\ proposals[id].signatures >= proposals[id].needed}
  IN  supply = Amount(Executed \cap SwapIns) - Amount(signed)

(* Whatever single ratios governors change, in whatever order proposals     *)
(* pass, a position closed at a discount still pays its debt.  No peer      *)
(* transaction is minted for twice, approvers, gateway and receiver share   *)
(* what is minted without remainder, and coins that are signed for on the   *)
(* other chain are burnt, and no others.                                    *)
ProposalsActRight ==
  GovernanceTypeOK /\ RatiosOrdered /\ MintedOnce /\ SupplyIsHeld /\ SignedIsBurnt
=============================================================================
