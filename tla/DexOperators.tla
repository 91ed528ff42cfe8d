---------------------------- MODULE DexOperators ----------------------------
(***************************************************************************)
(* The operators of the exchange: who owns one, who is paid its fees, the  *)
(* fees and the openness its orders have by default.  Operator 0 exists    *)
(* without being stored until it is first changed, and its first owner is  *)
(* found without an entry in the map of owners.  Registering and updating  *)
(* cost a fee that goes to the risk reserve and the active delegates.      *)
(*                                                                         *)
(* A transaction that fails leaves no trace, so its error paths are        *)
(* guards.  Names and memos are left out.                                  *)
(***************************************************************************)
EXTENDS Integers, Sequences, FiniteSets, FiniteSetsExt, SequencesExt, Functions

CONSTANTS
  Account,
  Fcoin,          \* the genesis account of the fcoin, which holds the reserve
  Dex0Owner,      \* the owner of operator 0 while it is not stored
  Delegates,      \* the active delegates, the topmost first
  MaxDexId,       \* bound on the operators registered
  OperatorFee,    \* DEX_OPERATOR_REGISTER_FEE and DEX_OPERATOR_UPDATE_FEE
  RiskFeeRatio,   \* DEX_OPERATOR_RISK_FEE_RATIO, of RatioBoost
  RatioBoost,     \* RATIO_BOOST
  DefaultTerms,   \* the terms of operator 0
  Registrations,  \* the operators that may be registered
  Changes,        \* the fields and values that may be updated
  InitialFree     \* what each account has of each token

Token == {"coin", "asset", "WICC"}
DexId == 0..MaxDexId

(* The terms of an order: who may deal with it, the fees of both sides.     *)
Terms == [open : {"public", "private"}, maker : Nat, taker : Nat]

DexOperator == [owner : Account, receiver : Account, activated : BOOLEAN,
                terms : Terms, shared : SUBSET DexId]

ChangeValues(field) ==
  CASE field \in {"owner", "receiver"} -> Account
    [] field = "terms"  -> Terms
    [] field = "shared" -> SUBSET DexId
    [] OTHER            -> {}

DexOperatorsAssumption ==
  /\ IsFiniteSet(Account) /\ {Fcoin, Dex0Owner} \subseteq Account
  /\ Delegates \in Seq(Account) /\ Len(Delegates) > 0
  /\ {OperatorFee, RiskFeeRatio, MaxDexId} \subseteq Nat
  /\ RatioBoost \in Nat \ {0} /\ RiskFeeRatio <= RatioBoost
  /\ InitialFree \in [Account -> [Token -> Nat]]
  /\ DefaultTerms \in Terms /\ Registrations \subseteq DexOperator
  /\ \A change \in Changes : change.value \in ChangeValues(change.field)

VARIABLES
  operators, \* operator_detail_cache
  owners,    \* operator_owner_map_cache
  lastId,    \* operator_last_id_cache
  free       \* free_amount of each account and token

operatorVars == <<operators, owners, lastId>>

----------------------------------------------------------------------------
Dex0 == [owner |-> Dex0Owner, receiver |-> Dex0Owner, activated |-> TRUE,
         terms |-> DefaultTerms, shared |-> {}]

HaveDexOperator(id) == id = 0 \/ id \in DOMAIN operators

GetDexOperator(id) == IF id \in DOMAIN operators THEN operators[id] ELSE Dex0

(* IncDexID.                                                                *)
NextDexId == lastId + 1

HasDexOperatorByOwner(a) ==
  a \in DOMAIN owners \/ (a = Dex0Owner /\ GetDexOperator(0).owner = a)

(* The operator GetDexOperatorByOwner finds, none if there is none.         *)
GetDexOperatorByOwner(a) ==
  IF a \in DOMAIN owners THEN {owners[a]}
  ELSE {id \in {0} : a = Dex0Owner /\ GetDexOperator(0).owner = a}

----------------------------------------------------------------------------
(* Money moves as a set of movements; nobody ends up below zero.            *)

Move(a, token, amount) == [account |-> a, token |-> token, amount |-> amount]

Sum(moves, a, t) ==
  SumFunction([i \in DOMAIN moves |->
                 IF moves[i].account = a /\ moves[i].token = t THEN moves[i].amount ELSE 0])

Moved(holdings, moves) ==
  [a \in Account |-> [t \in Token |-> holdings[a][t] + Sum(moves, a, t)]]

RiskFee == (OperatorFee * RiskFeeRatio) \div RatioBoost

(* What the i-th delegate is given; the topmost also gets the dust.         *)
MinerFee(i) ==
  LET total == OperatorFee - RiskFee IN
    total \div Len(Delegates) + (IF i = 1 THEN total % Len(Delegates) ELSE 0)

ProcessDexOperatorFee(payer) ==
  /\ free[payer]["WICC"] >= OperatorFee
  /\ free' = Moved(free,
       <<Move(payer, "WICC", -OperatorFee), Move(Fcoin, "WICC", RiskFee)>>
         \o [i \in DOMAIN Delegates |-> Move(Delegates[i], "WICC", MinerFee(i))])

(* Function f with e at x, in its domain or not.                            *)
Put(f, x, e) == [y \in DOMAIN f \cup {x} |-> IF y = x THEN e ELSE f[y]]

(* The map of owners after UpdateDexOperator.                               *)
WithNewOwner(id, old, new) ==
  IF old.owner = new.owner THEN owners
  ELSE Put(Restrict(owners, DOMAIN owners \ {old.owner}), new.owner, id)

----------------------------------------------------------------------------
(* CDEXOperatorRegisterTx: payer registers what may be owned by another.    *)
RegisterOperator(payer, reg) ==
  /\ NextDexId \in DexId
  /\ \A id \in reg.shared : HaveDexOperator(id)
  /\ ~HasDexOperatorByOwner(reg.owner)
  /\ ProcessDexOperatorFee(payer)
  /\ lastId' = NextDexId
  /\ lastId' \notin DOMAIN operators
  /\ operators' = Put(operators, lastId', [reg EXCEPT !.activated = FALSE])
  /\ owners' = Put(owners, reg.owner, lastId')

ChangeAllowed(id, change) ==
  CASE change.field = "owner"  -> ~HasDexOperatorByOwner(change.value)
    [] change.field = "shared" -> \A d \in change.value : d # id /\ HaveDexOperator(d)
    [] change.field = "terms"  -> change.value # GetDexOperator(id).terms
    [] OTHER                   -> TRUE

(* UpdateDexOperator.                                                       *)
StoreOperator(id, new) ==
  /\ operators' = Put(operators, id, new)
  /\ owners' = WithNewOwner(id, GetDexOperator(id), new)
  /\ UNCHANGED lastId

(* CDEXOperatorUpdateTx of the owner: one field.                            *)
UpdateOperator(id, change) ==
  LET old == GetDexOperator(id) IN
    /\ HaveDexOperator(id)
    /\ ChangeAllowed(id, change)
    /\ ProcessDexOperatorFee(old.owner)
    /\ StoreOperator(id, [old EXCEPT ![change.field] = change.value])

(* CGovDexOpProposal: governors turn an operator on or off, never 0.        *)
TurnOperator(id) ==
  /\ id # 0 /\ HaveDexOperator(id)
  /\ StoreOperator(id, [GetDexOperator(id) EXCEPT !.activated = ~@])
  /\ UNCHANGED free

OperatorsInit ==
  /\ operators = << >> /\ owners = << >> /\ lastId = 0
  /\ free = InitialFree

OperatorsNext ==
  \/ \E payer \in Account, reg \in Registrations : RegisterOperator(payer, reg)
  \/ \E id \in DexId, change \in Changes : UpdateOperator(id, change)
  \/ \E id \in DexId : TurnOperator(id)

OperatorsSpec == OperatorsInit /\ [][OperatorsNext]_<<operatorVars, free>>

----------------------------------------------------------------------------
(* Every stored operator is an operator, and every id in use was given.     *)
OperatorsTypeOK ==
  /\ DOMAIN operators \subseteq DexId /\ lastId \in DexId
  /\ 1..lastId = DOMAIN operators \ {0}
  /\ DOMAIN owners \subseteq Account /\ Range(owners) \subseteq DOMAIN operators
  /\ free \in [Account -> [Token -> Nat]]

(* An account owns at most one operator, and is found as its owner however  *)
(* the operator came to it: the first owner of operator 0 too, who may      *)
(* give it away, register another, and be given operator 0 back.            *)
OwnersAreFound ==
  \A a \in Account :
    GetDexOperatorByOwner(a) = {id \in DexId : HaveDexOperator(id) /\ GetDexOperator(id).owner = a}

(* The fees of operators and of deals change hands: none is lost or made    *)
(* (amounts that are not free are added by the modules that use this one).  *)
FeesArePaidOut ==
  SumFunction([a \in Account |-> free[a]["WICC"]])
    = SumFunction([a \in Account |-> InitialFree[a]["WICC"]])
=============================================================================
