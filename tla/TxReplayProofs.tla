--------------------------- MODULE TxReplayProofs ---------------------------
(***************************************************************************)
(* Replay protection for every length of the cache, every set of           *)
(* transactions with any valid heights and chains of any height: what is   *)
(* proved of TxReplay.  The heart is FreshIsNew: a transaction that may be *)
(* included and is not in the cache is nowhere on the chain, because the   *)
(* range of IsValidHeight is no wider than the cache is long.              *)
(***************************************************************************)
EXTENDS TxReplay, SequenceTheorems, TLAPS

Chains == Seq(SUBSET Tx)

(* Each transaction of block h was valid at the height below h. *)
ValidChain(c) == \A h \in DOMAIN c : \A t \in c[h] : IsValidHeight(t, h - 1)

Unrepeated(c) == \A i, j \in DOMAIN c : i # j => c[i] \cap c[j] = {}

Covers(c, tc) == LastBlocks(c, TxCacheHeight) \subseteq tc

(* What replay protection rests on; nothing in it survives a lost cache. *)
IInv ==
  /\ TypeOK
  /\ ValidChain(chain)
  /\ Unrepeated(chain)
  /\ Covers(chain, txCache)
  /\ PoolUnconfirmed

(* Before the cache is loaded it holds nothing from outside the window. *)
CacheWithin == ~started => txCache \subseteq LastBlocks(chain, TxCacheHeight)

-----------------------------------------------------------------------------
(* Chains and windows. *)

(* The window test reaches back no further than the cache. *)
LEMMA HalfRangeBound ==
  HalfRange \in Nat /\ 2 * HalfRange <= TxCacheHeight
BY ReplayAssumption DEF HalfRange

(* The domain of a chain, and its blocks. *)
LEMMA ChainDomain ==
  ASSUME NEW c \in Chains
  PROVE  /\ Len(c) \in Nat
         /\ DOMAIN c = 1 .. Len(c)
         /\ \A h \in DOMAIN c : c[h] \in SUBSET Tx
BY LenProperties, ElementOfSeq DEF Chains

(* A block appended to a chain. *)
LEMMA Appended ==
  ASSUME NEW c \in Chains, NEW b \in SUBSET Tx
  PROVE  /\ Append(c, b) \in Chains
         /\ Len(Append(c, b)) = Len(c) + 1
         /\ DOMAIN Append(c, b) = 1 .. Len(c) + 1
         /\ Append(c, b)[Len(c) + 1] = b
         /\ \A h \in 1 .. Len(c) : Append(c, b)[h] = c[h]
BY AppendProperties, ChainDomain DEF Chains

(* The last block taken off a chain. *)
LEMMA Shortened ==
  ASSUME NEW c \in Chains, Len(c) > 0
  PROVE  /\ Front(c) \in Chains
         /\ Len(Front(c)) = Len(c) - 1
         /\ DOMAIN Front(c) = 1 .. Len(c) - 1
         /\ \A h \in 1 .. Len(c) - 1 : Front(c)[h] = c[h]
<1>1. 1 \in 1 .. Len(c) + 1 /\ Len(c) - 1 \in 1 - 1 .. Len(c)
  BY ChainDomain
<1>2. \A i \in 1 .. Len(c) - 1 : c[i] \in SUBSET Tx
  BY ChainDomain
<1>3. Front(c) = [i \in 1 .. Len(c) - 1 |-> c[i]]
  BY <1>1, ChainDomain DEF Front
<1>4. Front(c) \in Chains
  BY <1>2, <1>3, IsASeq, ChainDomain DEF Chains
<1>5. QED
  BY <1>3, <1>4, ChainDomain

(* What the last blocks of a chain hold. *)
LEMMA InLastBlocks ==
  ASSUME NEW c \in Chains, NEW n \in Int, NEW t
  PROVE  t \in LastBlocks(c, n)
           <=> \E h \in 1 .. Len(c) : h > Len(c) - n /\ t \in c[h]
BY ChainDomain DEF LastBlocks

(* The same for a chain with a block more, and with a block less. *)
LEMMA InLastBlocksAppended ==
  ASSUME NEW c \in Chains, NEW b \in SUBSET Tx, NEW n \in Int, NEW t
  PROVE  t \in LastBlocks(Append(c, b), n)
           <=> \E h \in 1 .. Len(c) + 1 :
                 h > Len(c) + 1 - n /\ t \in Append(c, b)[h]
<1> DEFINE d == Append(c, b)
<1>1. d \in Chains /\ Len(d) = Len(c) + 1
  BY Appended
<1> HIDE DEF d
<1>2. t \in LastBlocks(d, n) <=> \E h \in 1 .. Len(d) : h > Len(d) - n /\ t \in d[h]
  BY <1>1, InLastBlocks
<1>3. t \in LastBlocks(d, n)
        <=> \E h \in 1 .. Len(c) + 1 : h > Len(c) + 1 - n /\ t \in d[h]
  BY <1>1, <1>2
<1>4. QED
  BY <1>3 DEF d

(* The same for a chain without its tip. *)
LEMMA InLastBlocksShortened ==
  ASSUME NEW c \in Chains, Len(c) > 0, NEW n \in Int, NEW t
  PROVE  t \in LastBlocks(Front(c), n)
           <=> \E h \in 1 .. Len(c) - 1 : h > Len(c) - 1 - n /\ t \in c[h]
<1> DEFINE d == Front(c)
<1>1. d \in Chains /\ Len(d) = Len(c) - 1 /\ \A h \in 1 .. Len(c) - 1 : d[h] = c[h]
  BY Shortened
<1> HIDE DEF d
<1>2. t \in LastBlocks(d, n) <=> \E h \in 1 .. Len(d) : h > Len(d) - n /\ t \in d[h]
  BY <1>1, InLastBlocks
<1>3. t \in LastBlocks(d, n)
        <=> \E h \in 1 .. Len(c) - 1 : h > Len(c) - 1 - n /\ t \in c[h]
  BY <1>1, <1>2
<1>4. QED
  BY <1>3 DEF d

(* A transaction that may be included and is not in the cache is new. *)
LEMMA FreshIsNew ==
  ASSUME NEW c \in Chains, NEW tc, ValidChain(c), Covers(c, tc),
         NEW t \in Tx, t \notin tc,
         NEW k \in {Len(c), Len(c) + 1}, IsValidHeight(t, k)
  PROVE  t \notin ChainTxs(c)
<1> SUFFICES ASSUME NEW h \in 1 .. Len(c), t \in c[h] PROVE FALSE
  BY ChainDomain DEF ChainTxs
<1>1. ValidHeight[t] \in Int /\ TxCacheHeight \in Int
  BY ReplayAssumption
<1>2. ValidHeight[t] \in (h - 1 - HalfRange) .. (h - 1 + HalfRange)
  BY ChainDomain DEF ValidChain, IsValidHeight
<1>3. ValidHeight[t] \in (k - HalfRange) .. (k + HalfRange)
  BY DEF IsValidHeight
<1>4. h > Len(c) - TxCacheHeight
  BY <1>1, <1>2, <1>3, HalfRangeBound, ChainDomain
<1>5. QED
  BY <1>1, <1>4, InLastBlocks DEF Covers

-----------------------------------------------------------------------------
(* The two operations on the chain and its cache. *)

(* Connecting a block that passes the tests keeps the chain without repeats. *)
LEMMA ConnectedChain ==
  ASSUME NEW c \in Chains, NEW tc, NEW b \in SUBSET Tx,
         ValidChain(c), Unrepeated(c), Covers(c, tc),
         \A t \in b : t \notin tc /\ IsValidHeight(t, Len(c))
  PROVE  ValidChain(Append(c, b)) /\ Unrepeated(Append(c, b))
<1> DEFINE d == Append(c, b)
<1>1. \A t \in b : t \notin ChainTxs(c)
  BY FreshIsNew
<1>2. ValidChain(d)
  <2> SUFFICES ASSUME NEW h \in 1 .. Len(c) + 1, NEW t \in d[h]
               PROVE  IsValidHeight(t, h - 1)
    BY Appended DEF ValidChain
  <2>1. CASE h = Len(c) + 1
    BY <2>1, Appended, ChainDomain
  <2>2. CASE h \in 1 .. Len(c)
    BY <2>2, Appended, ChainDomain DEF ValidChain
  <2>3. QED
    BY <2>1, <2>2, ChainDomain
<1>3. Unrepeated(d)
  <2> SUFFICES ASSUME NEW i \in 1 .. Len(c) + 1, NEW j \in 1 .. Len(c) + 1,
                      i # j, NEW t, t \in d[i], t \in d[j]
               PROVE  FALSE
    BY Appended DEF Unrepeated
  <2>1. CASE i \in 1 .. Len(c) /\ j \in 1 .. Len(c)
    BY <2>1, Appended, ChainDomain DEF Unrepeated
  <2>2. CASE i = Len(c) + 1
    <3>1. j \in 1 .. Len(c) /\ t \in b /\ t \in c[j]
      BY <2>2, Appended, ChainDomain
    <3>2. QED
      BY <3>1, <1>1, ChainDomain DEF ChainTxs
  <2>3. CASE j = Len(c) + 1
    <3>1. i \in 1 .. Len(c) /\ t \in b /\ t \in c[i]
      BY <2>3, Appended, ChainDomain
    <3>2. QED
      BY <3>1, <1>1, ChainDomain DEF ChainTxs
  <2>4. QED
    BY <2>1, <2>2, <2>3, ChainDomain
<1>4. QED
  BY <1>2, <1>3

(* The block that leaves the window takes nothing else out of the cache. *)
LEMMA ConnectedCovers ==
  ASSUME NEW c \in Chains, NEW tc, NEW b \in SUBSET Tx,
         Unrepeated(Append(c, b)), Covers(c, tc)
  PROVE  Covers(Append(c, b), CacheConnected(tc, c, b))
<1> DEFINE d == Append(c, b)
           n == TxCacheHeight
<1>0. n \in Nat \ {0}
  BY ReplayAssumption
<1> SUFFICES ASSUME NEW t \in LastBlocks(d, n)
             PROVE  t \in CacheConnected(tc, c, b)
  BY DEF Covers
<1> PICK h \in 1 .. Len(c) + 1 : h > Len(c) + 1 - n /\ t \in d[h]
  BY <1>0, InLastBlocksAppended
<1>1. t \in tc \cup b
  <2>1. CASE h = Len(c) + 1
    BY <2>1, Appended
  <2>2. CASE h \in 1 .. Len(c)
    BY <2>2, <1>0, Appended, ChainDomain, InLastBlocks DEF Covers
  <2>3. QED
    BY <2>1, <2>2, ChainDomain
<1>2. t \notin BlockTxs(c, Len(c) + 1 - n)
  <2> SUFFICES ASSUME Len(c) + 1 - n \in 1 .. Len(c), t \in c[Len(c) + 1 - n]
               PROVE  FALSE
    BY ChainDomain DEF BlockTxs
  <2>1. t \in d[Len(c) + 1 - n] /\ h # Len(c) + 1 - n
    BY <1>0, Appended, ChainDomain
  <2>2. QED
    BY <2>1, <1>0, Appended, ChainDomain DEF Unrepeated
<1>3. QED
  BY <1>1, <1>2 DEF CacheConnected

(* Disconnecting the last block keeps both, and fills the window from below. *)
LEMMA Disconnected ==
  ASSUME NEW c \in Chains, NEW tc, Len(c) > 0,
         ValidChain(c), Unrepeated(c), Covers(c, tc)
  PROVE  /\ ValidChain(Front(c))
         /\ Unrepeated(Front(c))
         /\ Covers(Front(c), CacheDisconnected(tc, c))
<1> DEFINE n == TxCacheHeight
<1>0. n \in Nat \ {0}
  BY ReplayAssumption
<1>1. ValidChain(Front(c))
  BY Shortened, ChainDomain DEF ValidChain
<1>2. Unrepeated(Front(c))
  BY Shortened, ChainDomain DEF Unrepeated
<1>3. ASSUME NEW h \in 1 .. Len(c) - 1, h > Len(c) - 1 - n, NEW t \in c[h]
      PROVE  t \in CacheDisconnected(tc, c)
  <2>1. CASE h > Len(c) - n
    <3>1. t \in tc
      BY <2>1, <1>0, <1>3, ChainDomain, InLastBlocks DEF Covers
    <3>2. t \notin c[Len(c)]
      BY <1>3, ChainDomain DEF Unrepeated
    <3>3. QED
      BY <3>1, <3>2 DEF CacheDisconnected
  <2>2. CASE h = Len(c) - n
    BY <2>2, <1>3, ChainDomain DEF CacheDisconnected, BlockTxs
  <2>3. QED
    BY <2>1, <2>2, <1>0, <1>3, ChainDomain
<1>4. Covers(Front(c), CacheDisconnected(tc, c))
  BY <1>0, <1>3, InLastBlocksShortened DEF Covers
<1>5. QED
  BY <1>1, <1>2, <1>4
(* Nothing from outside the window enters a cache that holds nothing else. *)
LEMMA ConnectedWithin ==
  ASSUME NEW c \in Chains, NEW b \in SUBSET Tx,
         NEW tc \in SUBSET LastBlocks(c, TxCacheHeight)
  PROVE  CacheConnected(tc, c, b) \subseteq LastBlocks(Append(c, b), TxCacheHeight)
<1> DEFINE d == Append(c, b)
           n == TxCacheHeight
<1>0. n \in Nat \ {0}
  BY ReplayAssumption
<1> SUFFICES ASSUME NEW t \in CacheConnected(tc, c, b)
             PROVE  \E h \in 1 .. Len(c) + 1 : h > Len(c) + 1 - n /\ t \in d[h]
  BY <1>0, InLastBlocksAppended
<1>1. CASE t \in b
  <2>1. Len(c) + 1 \in 1 .. Len(c) + 1 /\ Len(c) + 1 > Len(c) + 1 - n
    BY <1>0, ChainDomain
  <2>2. t \in d[Len(c) + 1]
    BY <1>1, Appended
  <2>3. QED
    BY <2>1, <2>2
<1>2. CASE t \in tc
  <2>1. PICK h \in 1 .. Len(c) : h > Len(c) - n /\ t \in c[h]
    BY <1>0, <1>2, InLastBlocks
  <2>2. h # Len(c) + 1 - n
    BY <2>1, ChainDomain DEF CacheConnected, BlockTxs
  <2>3. QED
    BY <1>0, <2>1, <2>2, Appended, ChainDomain
<1>3. QED
  BY <1>1, <1>2 DEF CacheConnected

(* A cache within its window stays so when the tip is disconnected. *)
LEMMA DisconnectedWithin ==
  ASSUME NEW c \in Chains, Len(c) > 0,
         NEW tc \in SUBSET LastBlocks(c, TxCacheHeight)
  PROVE  CacheDisconnected(tc, c) \subseteq LastBlocks(Front(c), TxCacheHeight)
<1> DEFINE n == TxCacheHeight
<1>0. n \in Nat \ {0}
  BY ReplayAssumption
<1> SUFFICES ASSUME NEW t \in CacheDisconnected(tc, c)
             PROVE  \E h \in 1 .. Len(c) - 1 : h > Len(c) - 1 - n /\ t \in c[h]
  BY <1>0, InLastBlocksShortened
<1>1. CASE t \in tc \ c[Len(c)]
  <2>1. PICK h \in 1 .. Len(c) : h > Len(c) - n /\ t \in c[h]
    BY <1>0, <1>1, InLastBlocks
  <2>2. QED
    BY <1>0, <1>1, <2>1, ChainDomain
<1>2. CASE t \in BlockTxs(c, Len(c) - n)
  <2>1. Len(c) - n \in 1 .. Len(c) /\ t \in c[Len(c) - n]
    BY <1>2, ChainDomain DEF BlockTxs
  <2>2. QED
    BY <1>0, <2>1, ChainDomain
<1>3. QED
  BY <1>1, <1>2 DEF CacheDisconnected

(* What is in the cache stays on the chain. *)
LEMMA WindowOnChain ==
  ASSUME NEW c \in Chains, NEW n \in Int
  PROVE  LastBlocks(c, n) \subseteq ChainTxs(c) /\ ChainTxs(c) \subseteq Tx
BY ChainDomain DEF LastBlocks, ChainTxs

(* A connected block brings its transactions and no others. *)
LEMMA ConnectedOnChain ==
  ASSUME NEW c \in Chains, NEW b \in SUBSET Tx
  PROVE  /\ ChainTxs(Append(c, b)) = ChainTxs(c) \cup b
         /\ \A tc \in SUBSET ChainTxs(c) :
              CacheConnected(tc, c, b) \subseteq ChainTxs(Append(c, b))
<1>1. ChainTxs(Append(c, b)) = ChainTxs(c) \cup b
  <2>1. ASSUME NEW t \in ChainTxs(Append(c, b)) PROVE t \in ChainTxs(c) \cup b
    BY <2>1, Appended, ChainDomain DEF ChainTxs
  <2>2. ASSUME NEW t \in ChainTxs(c) PROVE t \in ChainTxs(Append(c, b))
    BY <2>2, Appended, ChainDomain DEF ChainTxs
  <2>3. b \subseteq ChainTxs(Append(c, b))
    <3>1. Len(c) + 1 \in DOMAIN Append(c, b) /\ Append(c, b)[Len(c) + 1] = b
      BY Appended, ChainDomain
    <3>2. QED
      BY <3>1 DEF ChainTxs
  <2>4. QED
    BY <2>1, <2>2, <2>3
<1>2. QED
  BY <1>1 DEF CacheConnected

(* A disconnected tip takes its own along. *)
LEMMA DisconnectedOnChain ==
  ASSUME NEW c \in Chains, Len(c) > 0
  PROVE  /\ ChainTxs(c) = ChainTxs(Front(c)) \cup c[Len(c)]
         /\ \A tc \in SUBSET ChainTxs(c) :
              CacheDisconnected(tc, c) \subseteq ChainTxs(Front(c))
<1>1. ChainTxs(c) = ChainTxs(Front(c)) \cup c[Len(c)]
  <2>1. ASSUME NEW t \in ChainTxs(c) PROVE t \in ChainTxs(Front(c)) \cup c[Len(c)]
    <3>1. PICK h \in 1 .. Len(c) : t \in c[h]
      BY <2>1, ChainDomain DEF ChainTxs
    <3>2. h = Len(c) \/ h \in 1 .. Len(c) - 1
      BY ChainDomain
    <3>3. QED
      BY <3>1, <3>2, Shortened DEF ChainTxs
  <2>2. ASSUME NEW t \in ChainTxs(Front(c)) PROVE t \in ChainTxs(c)
    <3>1. PICK h \in 1 .. Len(c) - 1 : t \in c[h]
      BY <2>2, Shortened DEF ChainTxs
    <3>2. QED
      BY <3>1, ChainDomain DEF ChainTxs
  <2>3. c[Len(c)] \subseteq ChainTxs(c)
    <3>1. Len(c) \in DOMAIN c
      BY ChainDomain
    <3>2. QED
      BY <3>1 DEF ChainTxs
  <2>4. QED
    BY <2>1, <2>2, <2>3
<1>2. BlockTxs(c, Len(c) - TxCacheHeight) \subseteq ChainTxs(Front(c))
  <2> SUFFICES ASSUME Len(c) - TxCacheHeight \in 1 .. Len(c)
               PROVE  c[Len(c) - TxCacheHeight] \subseteq ChainTxs(Front(c))
    BY ChainDomain DEF BlockTxs
  <2>1. Len(c) - TxCacheHeight \in 1 .. Len(c) - 1
    BY ReplayAssumption, ChainDomain
  <2>2. QED
    BY <2>1, Shortened, ChainDomain DEF ChainTxs
<1>3. QED
  BY <1>1, <1>2 DEF CacheDisconnected

(* What AcceptBlock and FindMostWorkChain may choose is a chain's blocks. *)
LEMMA BranchType ==
  Branches \subseteq Chains
BY IsASeq DEF Branches, BoundedSeq, SeqOf, BlockContent, Chains
-----------------------------------------------------------------------------
(* Type correctness. *)

(* The node starts with an empty chain and an empty cache. *)
LEMMA InitType ==
  Init => TypeOK /\ CacheOnChain
<1> SUFFICES ASSUME Init PROVE TypeOK /\ CacheOnChain
  OBVIOUS
<1>1. <<>> \in Seq(SUBSET Tx) /\ Len(<<>>) = 0
  BY EmptySeq
<1>2. chain = <<>> /\ branch = <<>> /\ fork \in 0 .. Len(chain)
  BY <1>1 DEF Init
<1>3. chain \in Seq(SUBSET Tx) /\ branch \in Seq(SUBSET Tx)
  BY <1>1, <1>2
<1>4. TypeOK
  BY <1>2, <1>3 DEF Init, TypeOK, ChainHeight
<1>5. CacheOnChain
  BY DEF Init, CacheOnChain
<1>6. QED
  BY <1>4, <1>5

(* What one step does to the variables that hold chains. *)
LEMMA NextType ==
  ASSUME TypeOK, [Next]_vars
  PROVE  TypeOK'
<1> USE DEF TypeOK, ChainHeight
<1>0. chain \in Chains /\ branch \in Chains
  BY DEF Chains
<1>1. ASSUME NEW f \in 0 .. ChainHeight, NEW bs \in Branches, AcceptBlock(f, bs)
      PROVE  TypeOK'
  BY <1>1, BranchType DEF AcceptBlock, Chains
<1>2. CASE DisconnectTip
  <2>1. Len(chain) > 0
    BY <1>0, <1>2, ChainDomain DEF DisconnectTip, OffMostWork
  <2>2. chain' \in Chains /\ Len(chain') = Len(chain) - 1
    BY <1>0, <1>2, <2>1, Shortened DEF DisconnectTip
  <2>3. txCache' \subseteq Tx
    BY <1>0, <1>2, ChainDomain DEF DisconnectTip, CacheDisconnected, BlockTxs
  <2>4. memPool' \subseteq Tx
    <3>1. PICK back \in SUBSET {t \in Last(chain) \ memPool :
                                  MayEnterPool(t, chain', txCache')} :
            \/ memPool' \in ReScanned((memPool \ Last(chain)) \cup back,
                                      chain', txCache')
            \/ memPool' = (memPool \ Last(chain)) \cup back
      BY <1>2 DEF DisconnectTip
    <3>2. Last(chain) \subseteq Tx
      BY <1>0, <2>1, ChainDomain DEF Last
    <3>3. QED
      BY <3>1, <3>2 DEF ReScanned
  <2>5. fork' \in 0 .. Len(chain')
    BY <1>0, <1>2, <2>2, ChainDomain DEF DisconnectTip, OffMostWork
  <2>6. UNCHANGED <<branch, phase, started>>
    BY <1>2 DEF DisconnectTip
  <2>7. QED
    BY <2>2, <2>3, <2>4, <2>5, <2>6 DEF Chains
<1>3. CASE ConnectTip
  <2>1. Head(branch) \in SUBSET Tx /\ Tail(branch) \in Chains
    BY <1>0, <1>3, HeadTailProperties DEF ConnectTip, Chains
  <2>2. chain' \in Chains /\ Len(chain') = Len(chain) + 1
    BY <1>0, <1>3, <2>1, Appended DEF ConnectTip
  <2>3. txCache' \subseteq Tx
    BY <1>3, <2>1 DEF ConnectTip, CacheConnected
  <2>4. memPool' \subseteq Tx /\ phase' \in {"idle", "find", "activate"}
    BY <1>3 DEF ConnectTip, ReScanned
  <2>5. fork' \in 0 .. Len(chain') /\ branch' \in Chains
    BY <1>0, <1>3, <2>1, <2>2, ChainDomain DEF ConnectTip
  <2>6. started' = started
    BY <1>3 DEF ConnectTip
  <2>7. QED
    BY <2>2, <2>3, <2>4, <2>5, <2>6 DEF Chains
<1>4. CASE ConnectTipFails
  <2>1. <<>> \in Seq(SUBSET Tx)
    BY EmptySeq
  <2>2. QED
    BY <1>4, <2>1 DEF ConnectTipFails
<1>5. ASSUME NEW f \in 0 .. ChainHeight, NEW bs \in Branches, FindMostWorkChain(f, bs)
      PROVE  TypeOK'
  BY <1>5, BranchType DEF FindMostWorkChain, Chains
<1>6. CASE ActivationEnds
  BY <1>0, <1>6, ChainDomain DEF ActivationEnds, ReScanned
<1>7. ASSUME NEW t \in Tx, AcceptToMemoryPool(t) PROVE TypeOK'
  BY <1>7 DEF AcceptToMemoryPool
<1>8. ASSUME NEW t \in Tx, DropTxFromMemPool(t) PROVE TypeOK'
  BY <1>8 DEF DropTxFromMemPool, ReScanned
<1>9. CASE ReloadTxCache
  BY <1>0, <1>9, WindowOnChain, ReplayAssumption DEF ReloadTxCache
<1>10. CASE Restart
  BY <1>10 DEF Restart
<1>11. CASE LoadTxCache
  BY <1>0, <1>11, WindowOnChain, ReplayAssumption DEF LoadTxCache
<1>12. CASE UNCHANGED vars
  BY <1>12 DEF vars
<1>13. QED
  BY <1>1, <1>2, <1>3, <1>4, <1>5, <1>6, <1>7, <1>8, <1>9, <1>10, <1>11, <1>12
     DEF Next, ActivateNext, PoolNext

(***************************************************************************)
(* The variables keep their types, restarts included: in particular the    *)
(* height at which the branch leaves the active chain never exceeds it     *)
(* (ActivateBestChain disconnects before it connects).                     *)
(***************************************************************************)
THEOREM TypeCorrect == Spec => []TypeOK
<1>1. Init => TypeOK
  BY InitType
<1>2. TypeOK /\ [Next]_vars => TypeOK'
  BY NextType
<1>3. QED
  BY <1>1, <1>2, PTL DEF Spec

-----------------------------------------------------------------------------
(* What holds although the cache is lost in a restart. *)

(* The actions that leave both the chain and its cache alone. *)
Bystander ==
  \/ \E f \in 0 .. ChainHeight, bs \in Branches :
       AcceptBlock(f, bs) \/ FindMostWorkChain(f, bs)
  \/ ConnectTipFails
  \/ ActivationEnds
  \/ \E t \in Tx : AcceptToMemoryPool(t) \/ DropTxFromMemPool(t)
  \/ UNCHANGED vars

(* The steps that touch the chain or the cache, and the others. *)
LEMMA StepKinds ==
  ASSUME [Next]_vars
  PROVE  \/ DisconnectTip \/ ConnectTip \/ ReloadTxCache
         \/ Restart \/ LoadTxCache \/ Bystander
BY DEF Next, ActivateNext, PoolNext, Bystander

(* The others touch neither. *)
LEMMA BystanderKeeps ==
  ASSUME Bystander
  PROVE  UNCHANGED <<chain, txCache, started>>
BY DEF Bystander, AcceptBlock, FindMostWorkChain, ConnectTipFails, ActivationEnds,
       AcceptToMemoryPool, DropTxFromMemPool, vars

(* The block that ConnectTip takes, and a block for DisconnectTip to take. *)
LEMMA ConnectTipBlock ==
  ASSUME TypeOK, ConnectTip
  PROVE  Head(branch) \in SUBSET Tx
<1>1. branch \in Seq(SUBSET Tx) /\ branch # <<>>
  BY DEF TypeOK, ConnectTip
<1>2. QED
  BY <1>1, HeadTailProperties

(* There is a block to disconnect. *)
LEMMA DisconnectTipBlock ==
  ASSUME TypeOK, DisconnectTip
  PROVE  Len(chain) > 0
<1>1. chain \in Chains /\ fork \in 0 .. Len(chain) /\ Len(chain) > fork
  BY DEF TypeOK, DisconnectTip, OffMostWork, ChainHeight, Chains
<1>2. QED
  BY <1>1, ChainDomain

(* The cache holds nothing but what is on the chain. *)
LEMMA NextCacheOnChain ==
  ASSUME TypeOK, CacheOnChain, [Next]_vars
  PROVE  CacheOnChain'
<1> USE DEF CacheOnChain
<1>0. chain \in Chains
  BY DEF TypeOK, Chains
<1>1. CASE DisconnectTip
  BY <1>0, <1>1, DisconnectTipBlock, DisconnectedOnChain DEF DisconnectTip
<1>2. CASE ConnectTip
  BY <1>0, <1>2, ConnectTipBlock, ConnectedOnChain DEF ConnectTip
<1>3. CASE ReloadTxCache
  BY <1>0, <1>3, WindowOnChain, ReplayAssumption DEF ReloadTxCache
<1>4. CASE Restart
  BY <1>4 DEF Restart
<1>5. CASE LoadTxCache
  BY <1>0, <1>5, WindowOnChain, ReplayAssumption DEF LoadTxCache
<1>6. CASE Bystander
  BY <1>6, BystanderKeeps
<1>7. QED
  BY <1>1, <1>2, <1>3, <1>4, <1>5, <1>6, StepKinds

(***************************************************************************)
(* A transaction that a reorganisation has undone is not taken for a       *)
(* duplicate: CTxMemCache holds nothing that is off the active chain, in   *)
(* spite of reloadtxcache's extra block and of restarts.                   *)
(***************************************************************************)
THEOREM CacheNeverStale == Spec => []CacheOnChain
<1>1. Init => CacheOnChain
  BY InitType
<1>2. TypeOK /\ CacheOnChain /\ [Next]_vars => CacheOnChain'
  BY NextCacheOnChain
<1>3. QED
  BY <1>1, <1>2, TypeCorrect, PTL DEF Spec

(* A cache that is not loaded stays within its window. *)
LEMMA NextCacheWithin ==
  ASSUME TypeOK, CacheWithin, [Next]_vars
  PROVE  CacheWithin'
<1> USE DEF CacheWithin
<1>0. chain \in Chains
  BY DEF TypeOK, Chains
<1>1. CASE DisconnectTip
  BY <1>0, <1>1, DisconnectTipBlock, DisconnectedWithin DEF DisconnectTip
<1>2. CASE ConnectTip
  BY <1>0, <1>2, ConnectTipBlock, ConnectedWithin DEF ConnectTip
<1>3. CASE ReloadTxCache
  BY <1>3 DEF ReloadTxCache
<1>4. CASE Restart
  BY <1>4 DEF Restart
<1>5. CASE LoadTxCache
  BY <1>5 DEF LoadTxCache
<1>6. CASE Bystander
  BY <1>6, BystanderKeeps
<1>7. QED
  BY <1>1, <1>2, <1>3, <1>4, <1>5, <1>6, StepKinds

(***************************************************************************)
(* However the process was stopped and whatever start-up connected or      *)
(* disconnected on an empty cache, AppInit ends with exactly the last      *)
(* TxCacheHeight blocks in it.                                             *)
(***************************************************************************)
THEOREM RestartIsExact == Spec => RestartRestoresCache
<1>1. Init => CacheWithin
  BY DEF Init, CacheWithin
<1>2. TypeOK /\ CacheWithin /\ [Next]_vars => CacheWithin'
  BY NextCacheWithin
<1>3. CacheWithin /\ [Next]_vars
        => (~started /\ started' => txCache' = LastBlocks(chain', TxCacheHeight))
  <2> SUFFICES ASSUME CacheWithin, [Next]_vars, ~started, started'
               PROVE  txCache' = LastBlocks(chain', TxCacheHeight)
    OBVIOUS
  <2>1. LoadTxCache
    BY StepKinds, BystanderKeeps DEF DisconnectTip, ConnectTip, ReloadTxCache, Restart
  <2>2. QED
    BY <2>1 DEF LoadTxCache, CacheWithin
<1>4. QED
  BY <1>1, <1>2, <1>3, TypeCorrect, PTL DEF Spec, RestartRestoresCache
-----------------------------------------------------------------------------
(* Replay protection of a node that is not restarted. *)

(* The invariant holds at first. *)
LEMMA InitIInv ==
  Init => IInv
<1> SUFFICES ASSUME Init PROVE IInv
  OBVIOUS
<1>1. TypeOK
  BY InitType
<1>2. Len(chain) = 0 /\ chain \in Chains /\ DOMAIN chain = {}
  <2>1. Len(chain) = 0 /\ chain \in Chains
    BY <1>1, EmptySeq DEF Init, TypeOK, Chains
  <2>2. QED
    BY <2>1, ChainDomain
<1>3. ValidChain(chain) /\ Unrepeated(chain) /\ Covers(chain, txCache)
  BY <1>2 DEF ValidChain, Unrepeated, Covers, LastBlocks
<1>4. QED
  BY <1>1, <1>3 DEF IInv, PoolUnconfirmed, Init

(* What a rescan leaves in the pool was in the pool. *)
LEMMA ReScannedIsSmaller ==
  ASSUME NEW p, NEW c, NEW tc, NEW q \in ReScanned(p, c, tc)
  PROVE  q \subseteq p
BY DEF ReScanned

(* A transaction that may enter the pool is not confirmed. *)
LEMMA EntersUnconfirmed ==
  ASSUME NEW c \in Chains, NEW tc, ValidChain(c), Covers(c, tc),
         NEW t \in Tx, MayEnterPool(t, c, tc)
  PROVE  t \notin ChainTxs(c)
BY FreshIsNew DEF MayEnterPool

(* Disconnecting the tip keeps it. *)
LEMMA DisconnectTipIInv ==
  ASSUME IInv, DisconnectTip, TypeOK'
  PROVE  IInv'
<1>0. chain \in Chains /\ Len(chain) > 0 /\ Last(chain) = chain[Len(chain)]
  BY DisconnectTipBlock DEF IInv, TypeOK, Chains, Last
<1>1. chain' = Front(chain) /\ txCache' = CacheDisconnected(txCache, chain)
  BY DEF DisconnectTip
<1>2. ValidChain(chain') /\ Unrepeated(chain') /\ Covers(chain', txCache')
  BY <1>0, <1>1, Disconnected DEF IInv
<1>3. chain' \in Chains /\ ChainTxs(chain') \subseteq ChainTxs(chain)
  BY <1>0, <1>1, Shortened, DisconnectedOnChain
<1>4. PICK back \in SUBSET {t \in Last(chain) \ memPool :
                              MayEnterPool(t, chain', txCache')} :
        memPool' \subseteq (memPool \ Last(chain)) \cup back
  BY ReScannedIsSmaller DEF DisconnectTip
<1>5. \A t \in back : t \notin ChainTxs(chain')
  <2>1. Last(chain) \subseteq Tx
    BY <1>0, ChainDomain
  <2>2. QED
    BY <2>1, <1>2, <1>3, <1>4, EntersUnconfirmed
<1>6. PoolUnconfirmed'
  BY <1>3, <1>4, <1>5 DEF IInv, PoolUnconfirmed
<1>7. QED
  BY <1>2, <1>6 DEF IInv

(* Connecting a block keeps it. *)
LEMMA ConnectTipIInv ==
  ASSUME IInv, ConnectTip, TypeOK'
  PROVE  IInv'
<1> DEFINE b == Head(branch)
<1>0. chain \in Chains /\ b \in SUBSET Tx
  BY ConnectTipBlock DEF IInv, TypeOK, Chains
<1>1. chain' = Append(chain, b) /\ txCache' = CacheConnected(txCache, chain, b)
  BY DEF ConnectTip
<1>2. \A t \in b : t \notin txCache /\ IsValidHeight(t, Len(chain))
  BY DEF ConnectTip, PassesReplayTests, ChainHeight
<1>3. ValidChain(chain') /\ Unrepeated(chain')
  BY <1>0, <1>1, <1>2, ConnectedChain DEF IInv
<1>4. Covers(chain', txCache')
  BY <1>0, <1>1, <1>3, ConnectedCovers DEF IInv
<1>5. memPool' \subseteq memPool \ b
  BY ReScannedIsSmaller DEF ConnectTip
<1>6. ChainTxs(chain') = ChainTxs(chain) \cup b
  BY <1>0, <1>1, ConnectedOnChain
<1>7. PoolUnconfirmed'
  BY <1>5, <1>6 DEF IInv, PoolUnconfirmed
<1>8. QED
  BY <1>3, <1>4, <1>7 DEF IInv

(* The cache grows, or is rebuilt with a block more than the window. *)
LEMMA CacheLoadIInv ==
  ASSUME IInv, ReloadTxCache \/ LoadTxCache, TypeOK'
  PROVE  IInv'
<1>0. chain \in Chains /\ TxCacheHeight \in Nat
  BY ReplayAssumption DEF IInv, TypeOK, Chains
<1>1. UNCHANGED <<chain, memPool>>
  BY DEF ReloadTxCache, LoadTxCache
<1>2. LastBlocks(chain, TxCacheHeight) \subseteq LastBlocks(chain, TxCacheHeight + 1)
  BY <1>0, ChainDomain DEF LastBlocks
<1>3. Covers(chain, txCache')
  BY <1>2 DEF Covers, ReloadTxCache, LoadTxCache
<1>4. QED
  BY <1>1, <1>3 DEF IInv, PoolUnconfirmed

(* The pool takes in a transaction or is rescanned; nothing else changes. *)
LEMMA BystanderIInv ==
  ASSUME IInv, Bystander, TypeOK'
  PROVE  IInv'
<1>0. chain \in Chains /\ UNCHANGED <<chain, txCache>>
  BY BystanderKeeps DEF IInv, TypeOK, Chains
<1>1. memPool' \subseteq memPool
        \/ \E t \in Tx : MayEnterPool(t, chain, txCache) /\ memPool' = memPool \cup {t}
  BY ReScannedIsSmaller
     DEF Bystander, AcceptBlock, FindMostWorkChain, ConnectTipFails, ActivationEnds,
         AcceptToMemoryPool, DropTxFromMemPool, ReScanned, vars
<1>2. PoolUnconfirmed'
  BY <1>0, <1>1, EntersUnconfirmed DEF IInv, PoolUnconfirmed
<1>3. QED
  BY <1>0, <1>2 DEF IInv

(* Every step does, unless the node is restarted. *)
LEMMA NextIInv ==
  ASSUME ~CrashAllowed, IInv, [Next]_vars
  PROVE  IInv'
<1>1. TypeOK'
  BY NextType DEF IInv
<1>2. ~Restart
  BY DEF Restart
<1>3. QED
  BY <1>1, <1>2, StepKinds, DisconnectTipIInv, ConnectTipIInv, CacheLoadIInv,
     BystanderIInv

(* The inductive invariant of a node that is not restarted. *)
THEOREM Invariance ==
  ASSUME ~CrashAllowed
  PROVE  Spec => []IInv
<1>1. Init => IInv
  BY InitIInv
<1>2. IInv /\ [Next]_vars => IInv'
  BY NextIInv
<1>3. QED
  BY <1>1, <1>2, PTL DEF Spec

(***************************************************************************)
(* No transaction is confirmed twice on the active chain, for any cache    *)
(* length and any reorganisation, as long as the cache is not lost:        *)
(* ConnectBlock's two tests are enough although the cache forgets.         *)
(***************************************************************************)
THEOREM NeverReplayed ==
  ASSUME ~CrashAllowed
  PROVE  Spec => []NoReplay
<1>1. IInv => NoReplay
  BY DEF IInv, Unrepeated, NoReplay
<1>2. QED
  BY <1>1, Invariance, PTL

(* The transaction cache covers the last TxCacheHeight blocks at all times. *)
THEOREM CacheComplete ==
  ASSUME ~CrashAllowed
  PROVE  Spec => []CacheCoversWindow
<1>1. IInv => CacheCoversWindow
  BY DEF IInv, Covers, CacheCoversWindow
<1>2. QED
  BY <1>1, Invariance, PTL

(***************************************************************************)
(* No confirmed transaction is in the memory pool, in particular none that *)
(* DisconnectTip put back there and the new branch confirmed again.        *)
(***************************************************************************)
THEOREM PoolNeverConfirmed ==
  ASSUME ~CrashAllowed
  PROVE  Spec => []PoolUnconfirmed
<1>1. IInv => PoolUnconfirmed
  BY DEF IInv
<1>2. QED
  BY <1>1, Invariance, PTL
=============================================================================
