------------------------- MODULE PriceWindowProofs -------------------------
(***************************************************************************)
(* The price window for every set of feeders and prices, every range of    *)
(* the window and chains of any height: what is proved of PriceWindow.     *)
(* The invariant is PricesOnChain with WindowComplete: the first makes the *)
(* height of a new block empty, so that its feeds are never refused, and   *)
(* lets a block that comes back into the window find its own feeds or      *)
(* none.  With finitely many feeders a list of prices has a middle, and    *)
(* the median of a block is bounded by the prices fed.                     *)
(***************************************************************************)
EXTENDS PriceWindow, SequenceTheorems, FiniteSetTheorems, WellFoundedInduction, TLAPS

(* Blocks whose medians are in M; what the medians are does not matter. *)
BlockOf(M) == [feeds : Feeds, median : M, window : Window]

Shape ==
  /\ \E M : chain \in Seq(BlockOf(M))
  /\ Len(chain) <= MaxHeight
  /\ prices \in [Heights -> Feeds]

IInv == Shape /\ PricesOnChain /\ WindowComplete

-----------------------------------------------------------------------------
(* Chains. *)

(* The domain of a chain, its blocks and the window after it. *)
LEMMA ChainFacts ==
  ASSUME NEW M, NEW c \in Seq(BlockOf(M))
  PROVE  /\ Len(c) \in Nat
         /\ DOMAIN c = 1 .. Len(c)
         /\ \A k \in DOMAIN c : c[k].feeds \in Feeds /\ c[k].window \in Window
         /\ WindowOf(c) \in Nat \ {0}
<1>1. Len(c) \in Nat /\ DOMAIN c = 1 .. Len(c)
  BY LenProperties
<1>2. \A k \in DOMAIN c : c[k] \in BlockOf(M)
  BY <1>1, ElementOfSeq
<1>3. \A k \in DOMAIN c : c[k].feeds \in Feeds /\ c[k].window \in Window
  BY <1>2 DEF BlockOf
<1>4. WindowOf(c) \in Nat \ {0}
  <2>1. CASE c = <<>>
    BY <2>1, PriceAssumption DEF WindowOf
  <2>2. CASE c # <<>>
    <3>1. Len(c) \in DOMAIN c
      BY <1>1, <2>2, EmptySeq
    <3>2. QED  BY <2>2, <3>1, <1>3, PriceAssumption DEF WindowOf, Last
  <2>3. QED  BY <2>1, <2>2
<1>5. QED  BY <1>1, <1>3, <1>4

(* A block appended to a chain. *)
LEMMA Appended ==
  ASSUME NEW M, NEW c \in Seq(BlockOf(M)),
         NEW b, b.feeds \in Feeds, b.window \in Window,
         b = [feeds |-> b.feeds, median |-> b.median, window |-> b.window]
  PROVE  LET d == Append(c, b)
         IN  /\ \E N : d \in Seq(BlockOf(N))
             /\ Len(d) = Len(c) + 1
             /\ \A k \in DOMAIN c : d[k] = c[k]
             /\ d[Len(c) + 1] = b
             /\ WindowOf(d) = b.window
<1> DEFINE N == M \cup {b.median}
           d == Append(c, b)
<1>1. BlockOf(M) \subseteq BlockOf(N) /\ b \in BlockOf(N)
  BY DEF BlockOf
<1> HIDE DEF N
<1>2. c \in Seq(BlockOf(N))
  BY <1>1, SeqMonotonic
<1>3. /\ d \in Seq(BlockOf(N))
      /\ Len(d) = Len(c) + 1
      /\ \A k \in 1 .. Len(c) : d[k] = c[k]
      /\ d[Len(c) + 1] = b
  BY <1>1, <1>2, AppendProperties
<1> HIDE DEF d
<1>4. WindowOf(d) = b.window
  <2>1. Len(c) \in Nat /\ d # <<>>
    BY <1>3, ChainFacts, EmptySeq
  <2>2. QED  BY <1>3, <2>1 DEF WindowOf, Last
<1>5. QED  BY <1>3, <1>4, ChainFacts DEF d

(* The last block taken off a chain. *)
LEMMA Shortened ==
  ASSUME NEW M, NEW c \in Seq(BlockOf(M)), Len(c) > 0
  PROVE  /\ Front(c) \in Seq(BlockOf(M))
         /\ Len(Front(c)) = Len(c) - 1
         /\ \A k \in 1 .. Len(c) - 1 : Front(c)[k] = c[k]
<1>1. Len(c) \in Nat \ {0} /\ Len(c) - 1 \in 1 - 1 .. Len(c)
  BY ChainFacts
<1>2. \A i \in 1 .. Len(c) - 1 : c[i] \in BlockOf(M)
  BY ChainFacts, ElementOfSeq
<1>3. Front(c) = [i \in 1 .. Len(c) - 1 |-> c[i]]
  BY <1>1 DEF Front
<1>4. Front(c) \in Seq(BlockOf(M))
  BY <1>1, <1>2, <1>3, IsASeq
<1>5. QED
  BY <1>1, <1>3, <1>4

-----------------------------------------------------------------------------
(* The layers of the cache. *)

(* Feeds at a height that is empty below and untouched above are all new. *)
LEMMA AllNew ==
  ASSUME NEW base, NEW h \in Heights, base[h] = {}, NEW F \in Feeds
  PROVE  NewFeeds(NoOverlay, base, h, F) = F
BY DEF NewFeeds, Seen, NoOverlay, Users

(***************************************************************************)
(* A block connected at an empty height h: its feeds are there, the height *)
(* that leaves is erased if it held the feeds of its block, and the others *)
(* keep theirs.                                                            *)
(***************************************************************************)
LEMMA Pushed ==
  ASSUME NEW base \in [Heights -> Feeds], NEW h \in Heights, base[h] = {},
         NEW F \in Feeds, NEW old \in Heights, old # h, NEW G,
         base[old] \in {{}, G}
  PROVE  LET over == AddPrice(NoOverlay, base, h, F)
             next == BatchWrite(base, DeleteBlock(over, old, G))
         IN  /\ next \in [Heights -> Feeds]
             /\ next[h] = F
             /\ next[old] = {}
             /\ \A k \in Heights \ {h, old} : next[k] = base[k]
<1>1. NewFeeds(NoOverlay, base, h, F) = F
  BY AllNew
<1>2. CASE F = {}
  BY <1>1, <1>2 DEF AddPrice, NoOverlay, DeleteBlock, With, BatchWrite, Users,
                    Feeds
<1>3. CASE F # {}
  BY <1>1, <1>3 DEF AddPrice, NoOverlay, DeleteBlock, With, BatchWrite, Users,
                    Feeds
<1>4. QED  BY <1>2, <1>3

(* What the block's median transaction sees at height k: its own feeds. *)
LEMMA SeenOwn ==
  ASSUME NEW base \in [Heights -> Feeds], NEW h \in Heights, base[h] = {},
         NEW F \in Feeds, NEW k \in Heights
  PROVE  Seen(AddPrice(NoOverlay, base, h, F), base)[k]
           = IF k = h THEN F ELSE base[k]
<1>1. NewFeeds(NoOverlay, base, h, F) = F
  BY AllNew
<1>2. CASE F = {}
  BY <1>1, <1>2 DEF AddPrice, NoOverlay, Seen
<1>3. CASE F # {}
  BY <1>1, <1>3 DEF AddPrice, NoOverlay, With, Seen
<1>4. QED  BY <1>2, <1>3

(* The median depends on the feeds in the window only. *)
LEMMA SameMedian ==
  ASSUME NEW ps, NEW qs, NEW h, NEW w, NEW last,
         \A k \in Heights : h - w < k /\ k <= h => ps[k] = qs[k]
  PROVE  GetMedianPrice(ps, h, w, last) = GetMedianPrice(qs, h, w, last)
<1>1. InWindow(ps, h, w) = InWindow(qs, h, w)
  BY DEF InWindow
<1>2. QED  BY <1>1 DEF GetMedianPrice

(* The same while the chain is not longer than the window. *)
LEMMA Added ==
  ASSUME NEW base \in [Heights -> Feeds], NEW h \in Heights, base[h] = {},
         NEW F \in Feeds
  PROVE  LET next == BatchWrite(base, AddPrice(NoOverlay, base, h, F))
         IN  /\ next \in [Heights -> Feeds]
             /\ next[h] = F
             /\ \A k \in Heights \ {h} : next[k] = base[k]
<1>1. NewFeeds(NoOverlay, base, h, F) = F
  BY AllNew
<1>2. QED  BY <1>1 DEF AddPrice, NoOverlay, With, BatchWrite, Users, Feeds

(* A block disconnected from height h, whose feeds G are below or not.     *)
LEMMA Deleted ==
  ASSUME NEW base \in [Heights -> Feeds], NEW h \in Heights,
         NEW G \in Feeds, base[h] \in {{}, G}
  PROVE  LET next == BatchWrite(base, DeleteBlock(NoOverlay, h, G))
         IN  /\ next \in [Heights -> Feeds]
             /\ next[h] = {}
             /\ \A k \in Heights \ {h} : next[k] = base[k]
BY DEF DeleteBlock, NoOverlay, With, BatchWrite, Users, Feeds

(* ... and the block at height back, with feeds F, comes into the window.  *)
LEMMA Refilled ==
  ASSUME NEW base \in [Heights -> Feeds], NEW h \in Heights,
         NEW G \in Feeds, base[h] \in {{}, G},
         NEW back \in Heights, back # h, NEW F \in Feeds, base[back] \in {{}, F},
         NEW k \in Heights
  PROVE  LET over == DeleteBlock(NoOverlay, h, G)
             next == BatchWrite(base, AddPrice(over, base, back, F))
         IN  /\ next \in [Heights -> Feeds]
             /\ next[k] = IF k = h THEN {} ELSE IF k = back THEN F ELSE base[k]
<1> DEFINE over == DeleteBlock(NoOverlay, h, G)
           new == NewFeeds(over, base, back, F)
<1>1. /\ DOMAIN over \subseteq {h}
      /\ back \notin DOMAIN over
      /\ h \in DOMAIN over => over[h] = {}
      /\ h \notin DOMAIN over => base[h] = {}
  BY DEF DeleteBlock, NoOverlay, With
<1>2. Seen(over, base)[back] = base[back]
  BY <1>1 DEF Seen
<1>3. base[back] = F => new = {}
  BY <1>2 DEF NewFeeds, Users
<1>4. base[back] = {} => new = F
  BY <1>2 DEF NewFeeds, Users
<1>5. CASE base[back] = F
  BY <1>1, <1>3, <1>5 DEF AddPrice, BatchWrite, Feeds
<1>6. CASE base[back] = {} /\ F # {}
  <2>1. AddPrice(over, base, back, F) = With(over, back, F)
    BY <1>1, <1>4, <1>6 DEF AddPrice
  <2>2. QED  BY <2>1, <1>1, <1>6 DEF With, BatchWrite, Users, Feeds
<1>7. QED  BY <1>5, <1>6

-----------------------------------------------------------------------------
(* The steps. *)

(* A node that has just made its genesis block. *)
LEMMA InitHolds == Init => IInv
<1> SUFFICES ASSUME Init
             PROVE  IInv
  OBVIOUS
<1>1. chain = <<>> /\ Len(chain) = 0 /\ DOMAIN chain = {}
  BY EmptySeq, LenProperties DEF Init
<1>2. \E M : chain \in Seq(BlockOf(M))
  BY <1>1, EmptySeq
<1>3. QED
  BY <1>1, <1>2, PriceAssumption
  DEF Init, IInv, Shape, PricesOnChain, WindowComplete, Feeds

(* The height of the next block is empty: its feeds are all new. *)
LEMMA NextHeightEmpty ==
  ASSUME IInv, Height < MaxHeight
  PROVE  /\ Height \in Nat
         /\ Height + 1 \in Heights
         /\ prices[Height + 1] = {}
<1>1. PICK M : chain \in Seq(BlockOf(M))
  BY DEF IInv, Shape
<1>2. Len(chain) \in Nat /\ DOMAIN chain = 1 .. Len(chain)
  BY <1>1, ChainFacts
<1>3. QED
  BY <1>2, PriceAssumption DEF IInv, PricesOnChain, Height, Heights

(* A block connected. *)
LEMMA ConnectKeeps ==
  ASSUME IInv, NEW feeds \in BlockFeeds, NEW w \in Window,
         ConnectTip(feeds, w)
  PROVE  IInv'
<1> DEFINE n == Len(chain)
           b == NextBlock(feeds, w)
           c == Append(chain, b)
<1>1. PICK M : chain \in Seq(BlockOf(M))
  BY DEF IInv, Shape
<1>2. /\ n \in Nat
      /\ DOMAIN chain = 1 .. n
      /\ \A k \in 1 .. n : chain[k].feeds \in Feeds
      /\ WindowOf(chain) \in Nat \ {0}
  BY <1>1, ChainFacts
<1>3. b.feeds = feeds /\ b.window = w /\ feeds \in Feeds
      /\ b = [feeds |-> b.feeds, median |-> b.median, window |-> b.window]
  BY DEF NextBlock, BlockFeeds
<1>4. /\ \E N : c \in Seq(BlockOf(N))
      /\ Len(c) = n + 1
      /\ \A k \in 1 .. n : c[k] = chain[k]
      /\ c[n + 1].feeds = feeds
      /\ WindowOf(c) = w
  <2> HIDE DEF b
  <2>1. QED  BY <1>1, <1>2, <1>3, Appended
<1>5. DOMAIN c = 1 .. n + 1
  BY <1>4, LenProperties
<1>6. n + 1 \in Heights /\ n < MaxHeight /\ prices[n + 1] = {}
  BY NextHeightEmpty DEF ConnectTip, Height
<1>7. w \in Nat \ {0} /\ MaxHeight \in Nat
  BY PriceAssumption
<1>8. /\ chain' = c
      /\ prices' = BatchWrite(prices, PushBlock(Executed(feeds), c))
      /\ ~gap' => ~gap /\ ~Grows(WindowOf(chain), w)
      /\ loaded' => loaded
  BY DEF ConnectTip
<1> HIDE DEF c, b
<1>9. prices \in [Heights -> Feeds]
  BY DEF IInv, Shape
<1>10. /\ prices' \in [Heights -> Feeds]
       /\ prices'[n + 1] = feeds
       /\ \A k \in Heights \ {n + 1} :
            prices'[k] = IF k = n + 1 - w THEN {} ELSE prices[k]
  <2>1. CASE n + 1 > w
    <3> DEFINE old == n + 1 - w
    <3>1. old \in Heights /\ old \in 1 .. n
      BY <1>2, <1>6, <1>7, <2>1 DEF Heights
    <3>2. prices[old] \in {{}, chain[old].feeds}
      BY <3>1, <1>2 DEF IInv, PricesOnChain
    <3>3. prices' = BatchWrite(prices, DeleteBlock(
                      AddPrice(NoOverlay, prices, n + 1, feeds),
                      old, chain[old].feeds))
      <4>1. Executed(feeds) = AddPrice(NoOverlay, prices, n + 1, feeds)
        BY DEF Executed, Height
      <4>2. c[old] = chain[old]
        BY <1>4, <3>1
      <4>3. Len(c) > WindowOf(c) /\ Len(c) - WindowOf(c) = old
        BY <1>2, <1>4, <1>7, <2>1
      <4>4. PushBlock(Executed(feeds), c)
              = DeleteBlock(Executed(feeds), old, c[old].feeds)
        BY <4>3, Zenon DEF PushBlock
      <4>5. QED  BY <1>8, <4>1, <4>2, <4>4
    <3>4. old # n + 1
      BY <3>1, <1>2
    <3> HIDE DEF old
    <3>5. /\ prices' \in [Heights -> Feeds]
          /\ prices'[n + 1] = feeds
          /\ prices'[old] = {}
          /\ \A k \in Heights \ {n + 1, old} : prices'[k] = prices[k]
      BY <3>1, <3>2, <3>3, <3>4, <1>3, <1>6, <1>9, Pushed
    <3>6. QED  BY <3>5 DEF old
  <2>2. CASE ~(n + 1 > w)
    <3>1. prices' = BatchWrite(prices,
                               AddPrice(NoOverlay, prices, n + 1, feeds))
      BY <1>4, <1>8, <2>2 DEF PushBlock, Executed, Height
    <3>2. n + 1 - w \notin Heights
      BY <1>2, <1>7, <2>2 DEF Heights
    <3>3. QED  BY <3>1, <3>2, <1>3, <1>6, <1>9, Added
  <2>3. QED  BY <2>1, <2>2
<1>11. Shape'
  <2>1. \E N : chain' \in Seq(BlockOf(N))
    BY <1>4, <1>8
  <2>2. Len(chain') <= MaxHeight
    BY <1>2, <1>4, <1>6, <1>7, <1>8
  <2>3. QED  BY <2>1, <2>2, <1>10 DEF Shape
<1>12. PricesOnChain'
  <2> SUFFICES ASSUME NEW k \in Heights, prices'[k] # {}
               PROVE  k \in 1 .. n + 1 /\ prices'[k] = c[k].feeds
    BY <1>5, <1>8 DEF PricesOnChain
  <2>1. CASE k = n + 1
    BY <2>1, <1>2, <1>4, <1>10
  <2>2. CASE k # n + 1
    <3>1. prices'[k] = prices[k]
      BY <2>2, <1>10
    <3>2. k \in 1 .. n /\ prices[k] = chain[k].feeds
      BY <3>1, <1>2 DEF IInv, PricesOnChain
    <3>3. QED  BY <3>1, <3>2, <1>2, <1>4
  <2>3. QED  BY <2>1, <2>2
<1>13. WindowComplete'
  <2>a. /\ Height' = n + 1
        /\ WindowOf(chain') = w
        /\ DOMAIN chain' = 1 .. n + 1
        /\ \A k \in 1 .. n + 1 : chain'[k] = c[k]
    BY <1>4, <1>5, <1>8 DEF Height
  <2>b. SUFFICES ASSUME loaded', ~gap',
                        NEW k \in DOMAIN chain', k > Height' - WindowOf(chain')
                 PROVE  prices'[k] = chain'[k].feeds
    BY DEF WindowComplete
  <2>c. /\ loaded /\ ~gap /\ ~Grows(WindowOf(chain), w)
        /\ k \in 1 .. n + 1 /\ k > n + 1 - w
        /\ chain'[k] = c[k]
    <3>1. loaded /\ ~gap /\ ~Grows(WindowOf(chain), w)
      BY <1>8, <2>b, Zenon
    <3>2. k \in 1 .. n + 1
      BY <2>a, <2>b, Zenon
    <3>3. k > n + 1 - w
      <4>1. Height' = n + 1 /\ WindowOf(chain') = w
        BY <2>a
      <4>2. k > Height' - WindowOf(chain')
        BY <2>b
      <4>3. QED  BY <4>1, <4>2, <3>2, <1>2, <1>7
    <3>4. chain'[k] = c[k]
      BY <2>a, <3>2, Zenon
    <3>5. QED  BY <3>1, <3>2, <3>3, <3>4
  <2>d. w <= WindowOf(chain)
    BY <2>c, <1>2, <1>7 DEF Grows
  <2>1. CASE k = n + 1
    BY <2>1, <2>c, <1>4, <1>10
  <2>2. CASE k # n + 1
    <3>1. k \in 1 .. n /\ k > n - WindowOf(chain) /\ k # n + 1 - w
      BY <2>2, <2>d, <2>c, <1>2, <1>7
    <3>2. k \in Heights
      BY <3>1, <1>2, <1>6, <1>7 DEF Heights
    <3>3. prices'[k] = prices[k]
      BY <2>2, <3>1, <3>2, <1>10
    <3>4. prices[k] = chain[k].feeds
      BY <2>c, <3>1, <1>2 DEF IInv, WindowComplete, Height
    <3>5. QED  BY <2>c, <3>1, <3>3, <3>4, <1>4
  <2>3. QED  BY <2>1, <2>2
<1>14. QED  BY <1>11, <1>12, <1>13 DEF IInv

(* A block disconnected. *)
LEMMA DisconnectKeeps == IInv /\ DisconnectTip => IInv'
<1> SUFFICES ASSUME IInv, DisconnectTip
             PROVE  IInv'
  OBVIOUS
<1> DEFINE n == Len(chain)
           c == Front(chain)
           w == WindowOf(c)
<1>1. PICK M : chain \in Seq(BlockOf(M))
  BY DEF IInv, Shape
<1>2. /\ n \in Nat
      /\ n > 0
      /\ DOMAIN chain = 1 .. n
      /\ \A k \in 1 .. n : chain[k].feeds \in Feeds
      /\ WindowOf(chain) \in Nat \ {0}
  BY <1>1, ChainFacts DEF DisconnectTip, Height
<1>3. /\ c \in Seq(BlockOf(M))
      /\ Len(c) = n - 1
      /\ \A k \in 1 .. n - 1 : c[k] = chain[k]
  BY <1>1, <1>2, Shortened
<1>4. DOMAIN c = 1 .. n - 1 /\ w \in Nat \ {0}
  BY <1>3, ChainFacts
<1>5. MaxHeight \in Nat /\ n <= MaxHeight /\ n \in Heights
  BY <1>2, PriceAssumption DEF IInv, Shape, Heights
<1>6. /\ chain' = c
      /\ prices' = BatchWrite(prices, UndoBlock(NoOverlay, prices, chain))
      /\ ~gap' => ~gap /\ ~Grows(WindowOf(chain), w)
      /\ loaded' => loaded
  BY DEF DisconnectTip
<1>7. prices \in [Heights -> Feeds]
  BY DEF IInv, Shape
<1>8. Last(chain) = chain[n]
  BY DEF Last
<1>9. \A k \in 1 .. n : k \in Heights /\ prices[k] \in {{}, chain[k].feeds}
  <2>1. \A k \in 1 .. n : k \in Heights
    BY <1>2, <1>5 DEF Heights
  <2>2. QED  BY <2>1 DEF IInv, PricesOnChain
<1> HIDE DEF c, w
<1>10. /\ prices' \in [Heights -> Feeds]
       /\ prices'[n] = {}
       /\ \A k \in Heights \ {n} :
            prices'[k] = IF k = n - w THEN chain[k].feeds ELSE prices[k]
  <2>1. CASE n > w
    <3> DEFINE back == n - w
    <3>1. back \in 1 .. n /\ back # n /\ back \in Heights
      <4>1. back \in 1 .. n /\ back # n
        <5>1. n \in Nat /\ w \in Nat \ {0} /\ n > w
          BY <1>2, <1>4, <2>1, Zenon
        <5> HIDE DEF n
        <5>2. QED  BY <5>1
      <4>2. QED  BY <4>1, <1>9
    <3>2. UndoBlock(NoOverlay, prices, chain)
            = AddPrice(DeleteBlock(NoOverlay, n, chain[n].feeds), prices, back,
                       chain[back].feeds)
      BY <1>8, <2>1 DEF UndoBlock, w, c
    <3> HIDE DEF back
    <3>3. /\ prices' \in [Heights -> Feeds]
          /\ prices'[n] = {}
          /\ prices'[back] = chain[back].feeds
          /\ \A k \in Heights \ {n, back} : prices'[k] = prices[k]
      <4>1. /\ chain[n].feeds \in Feeds
            /\ chain[back].feeds \in Feeds
            /\ prices[n] \in {{}, chain[n].feeds}
            /\ prices[back] \in {{}, chain[back].feeds}
        <5>1. n \in 1 .. n
          BY <1>2
        <5>2. QED  BY <5>1, <1>2, <1>9, <3>1
      <4>2. prices' = BatchWrite(prices,
                        AddPrice(DeleteBlock(NoOverlay, n, chain[n].feeds),
                                 prices, back, chain[back].feeds))
        BY <1>6, <3>2
      <4>3. /\ back \in Heights /\ back # n /\ n \in Heights
            /\ prices \in [Heights -> Feeds]
        BY <3>1, <1>5, <1>7
      <4> SUFFICES ASSUME NEW k \in Heights
                   PROVE  /\ prices' \in [Heights -> Feeds]
                          /\ prices'[k] = IF k = n THEN {}
                                         ELSE IF k = back THEN chain[back].feeds
                                         ELSE prices[k]
        BY <4>3, Zenon
      <4> DEFINE next == BatchWrite(prices,
                           AddPrice(DeleteBlock(NoOverlay, n, chain[n].feeds),
                                    prices, back, chain[back].feeds))
      <4> HIDE DEF n
      <4>4. next \in [Heights -> Feeds]
        BY <4>1, <4>3, Refilled
      <4>5. next[k] = IF k = n THEN {}
                      ELSE IF k = back THEN chain[back].feeds ELSE prices[k]
        BY <4>1, <4>3, Refilled
      <4>6. QED  BY <4>2, <4>4, <4>5
    <3>4. QED  BY <3>3 DEF back
  <2>2. CASE ~(n > w)
    <3>1. UndoBlock(NoOverlay, prices, chain)
            = DeleteBlock(NoOverlay, n, chain[n].feeds)
      BY <1>8, <2>2 DEF UndoBlock, w, c
    <3>2. n - w \notin Heights
      BY <1>2, <1>4, <2>2 DEF Heights
    <3>3. chain[n].feeds \in Feeds /\ prices[n] \in {{}, chain[n].feeds}
      BY <1>2, <1>9
    <3>4. /\ prices' \in [Heights -> Feeds]
          /\ prices'[n] = {}
          /\ \A k \in Heights \ {n} : prices'[k] = prices[k]
      <4>1. prices' = BatchWrite(prices, DeleteBlock(NoOverlay, n, chain[n].feeds))
        BY <1>6, <3>1
      <4> DEFINE next == BatchWrite(prices,
                                    DeleteBlock(NoOverlay, n, chain[n].feeds))
      <4>2. /\ next \in [Heights -> Feeds]
            /\ next[n] = {}
            /\ \A k \in Heights \ {n} : next[k] = prices[k]
        BY <3>3, <1>5, <1>7, Deleted
      <4>3. QED  BY <4>1, <4>2
    <3>5. QED  BY <3>2, <3>4
  <2>3. QED  BY <2>1, <2>2
<1>11. Shape'
  <2>1. \E N : chain' \in Seq(BlockOf(N))
    BY <1>3, <1>6
  <2>2. Len(chain') <= MaxHeight
    BY <1>2, <1>3, <1>5, <1>6
  <2>3. QED  BY <2>1, <2>2, <1>10 DEF Shape
<1>12. PricesOnChain'
  <2> SUFFICES ASSUME NEW k \in Heights, prices'[k] # {}
               PROVE  k \in 1 .. n - 1 /\ prices'[k] = c[k].feeds
    BY <1>4, <1>6 DEF PricesOnChain
  <2>1. k # n
    BY <1>10
  <2>2. k \in 1 .. n /\ prices'[k] = chain[k].feeds
    <3>1. CASE k = n - w
      <4>1. k \in 1 .. n
        BY <3>1, <1>2, <1>4 DEF Heights
      <4>2. QED  BY <3>1, <4>1, <2>1, <1>10
    <3>2. CASE k # n - w
      BY <3>2, <2>1, <1>2, <1>10 DEF IInv, PricesOnChain
    <3>3. QED  BY <3>1, <3>2
  <2>3. k \in 1 .. n - 1
    BY <2>1, <2>2, <1>2
  <2>4. QED  BY <2>2, <2>3, <1>3
<1>13. WindowComplete'
  <2>a. /\ Height' = n - 1
        /\ WindowOf(chain') = w
        /\ DOMAIN chain' = 1 .. n - 1
        /\ \A k \in 1 .. n - 1 : chain'[k] = c[k]
    BY <1>3, <1>4, <1>6 DEF Height, w
  <2>b. SUFFICES ASSUME loaded', ~gap',
                        NEW k \in DOMAIN chain', k > Height' - WindowOf(chain')
                 PROVE  prices'[k] = chain'[k].feeds
    BY DEF WindowComplete
  <2>c. loaded /\ ~gap /\ ~Grows(WindowOf(chain), w)
    BY <1>6, <2>b, Zenon
  <2>d. k \in 1 .. n - 1 /\ k > n - 1 - w /\ chain'[k] = c[k]
    BY <2>a, <2>b, Zenon
  <2>e. k \in 1 .. n /\ k # n /\ k \in Heights /\ c[k] = chain[k]
    BY <2>d, <1>2, <1>3, <1>9
  <2>1. CASE k = n - w
    BY <2>1, <2>d, <2>e, <1>10
  <2>2. CASE k # n - w
    <3>1. w <= WindowOf(chain)
      BY <2>c, <1>2, <1>4 DEF Grows
    <3>2. k > n - WindowOf(chain)
      BY <3>1, <2>2, <2>d, <2>e, <1>2, <1>4
    <3>3. prices[k] = chain[k].feeds
      BY <3>2, <2>c, <2>e, <1>2 DEF IInv, WindowComplete, Height
    <3>4. QED  BY <3>3, <2>2, <2>d, <2>e, <1>10
  <2>3. QED  BY <2>1, <2>2
<1>14. QED  BY <1>11, <1>12, <1>13 DEF IInv

(* A restart: nothing is in the cache. *)
LEMMA RestartKeeps ==
  ASSUME IInv, NEW h \in 0 .. Height, Restart(h)
  PROVE  IInv'
<1>1. PICK M : chain \in Seq(BlockOf(M))
  BY DEF IInv, Shape
<1>2. Len(chain) \in Nat /\ DOMAIN chain = 1 .. Len(chain)
  BY <1>1, ChainFacts
<1>3. chain' = [i \in 1 .. h |-> chain[i]] /\ h \in Nat /\ h <= Len(chain)
  <2>1. 1 \in 1 .. Len(chain) + 1 /\ h \in 1 - 1 .. Len(chain)
    BY <1>2 DEF Height
  <2>2. SubSeq(chain, 1, h) = [i \in 1 .. h |-> chain[i]]
    BY <1>2, <2>1
  <2>3. QED  BY <2>1, <2>2 DEF Restart
<1>4. chain' \in Seq(BlockOf(M)) /\ Len(chain') = h
  <2>1. \A i \in 1 .. h : chain[i] \in BlockOf(M)
    BY <1>1, <1>2, <1>3, ElementOfSeq
  <2>2. QED  BY <1>3, <2>1, IsASeq
<1>5. Shape'
  BY <1>2, <1>3, <1>4, PriceAssumption DEF IInv, Shape, Restart, Feeds
<1>6. PricesOnChain'
  BY DEF PricesOnChain, Restart
<1>7. WindowComplete'
  BY DEF WindowComplete, Restart
<1>8. QED  BY <1>5, <1>6, <1>7 DEF IInv

(* The cache loaded: what is there already is what is loaded. *)
LEMMA ReleadKeeps == IInv /\ ReleadBlocks => IInv'
<1> SUFFICES ASSUME IInv, ReleadBlocks
             PROVE  IInv'
  OBVIOUS
<1>1. PICK M : chain \in Seq(BlockOf(M))
  BY DEF IInv, Shape
<1>2. /\ Len(chain) \in Nat
      /\ DOMAIN chain = 1 .. Len(chain)
      /\ \A k \in DOMAIN chain : chain[k].feeds \in Feeds
  BY <1>1, ChainFacts
<1>3. chain' = chain /\ prices' = Reloaded(chain)
  BY DEF ReleadBlocks
<1>4. prices \in [Heights -> Feeds] /\ DOMAIN chain \subseteq Heights
  BY <1>2, PriceAssumption DEF IInv, Shape, Heights
<1>5. \A k \in DOMAIN chain :
        prices[k] \cup {x \in chain[k].feeds : x[1] \notin Users(prices[k])}
          = chain[k].feeds
  <2> SUFFICES ASSUME NEW k \in DOMAIN chain
               PROVE  prices[k]
                        \cup {x \in chain[k].feeds : x[1] \notin Users(prices[k])}
                        = chain[k].feeds
    OBVIOUS
  <2>1. prices[k] \in {{}, chain[k].feeds}
    BY <1>4 DEF IInv, PricesOnChain
  <2>2. QED  BY <2>1 DEF Users
<1>6. \A k \in Heights :
        prices'[k] = IF k \in DOMAIN chain /\ k > Len(chain) - WindowOf(chain)
                     THEN chain[k].feeds ELSE prices[k]
  BY <1>3, <1>5 DEF Reloaded
<1>7. prices' \in [Heights -> Feeds]
  <2>1. prices' = [k \in Heights |-> prices'[k]]
    BY <1>3 DEF Reloaded
  <2>2. \A k \in Heights : prices'[k] \in Feeds
    BY <1>2, <1>4, <1>6
  <2>3. QED  BY <2>1, <2>2
<1>8. Shape'
  BY <1>1, <1>3, <1>7 DEF IInv, Shape
<1>9. PricesOnChain'
  BY <1>3, <1>6 DEF IInv, PricesOnChain
<1>10. WindowComplete'
  <2>1. \A k \in DOMAIN chain :
          k > Height - WindowOf(chain) => prices'[k] = chain[k].feeds
    BY <1>4, <1>6 DEF Height
  <2>2. Height' = Height
    BY <1>3 DEF Height
  <2>3. QED  BY <1>3, <2>1, <2>2 DEF WindowComplete
<1>11. QED  BY <1>8, <1>9, <1>10 DEF IInv

(* A block refused, and a step that changes nothing. *)
LEMMA SameKeeps ==
  IInv /\ UNCHANGED <<chain, prices, loaded, gap>> => IInv'
BY DEF IInv, Shape, PricesOnChain, WindowComplete, Height

(* Every step keeps the invariant. *)
LEMMA StepHolds == IInv /\ [Next]_vars => IInv'
<1> SUFFICES ASSUME IInv, [Next]_vars
             PROVE  IInv'
  OBVIOUS
<1>1. CASE \E feeds \in BlockFeeds, w \in Window : ConnectTip(feeds, w)
  BY <1>1, ConnectKeeps
<1>2. CASE \E feeds \in BlockFeeds, w \in Window : ConnectTipFails(feeds, w)
  BY <1>2, SameKeeps DEF ConnectTipFails
<1>3. CASE DisconnectTip
  BY <1>3, DisconnectKeeps
<1>4. CASE \E h \in 0 .. Height : Restart(h)
  BY <1>4, RestartKeeps
<1>5. CASE ReleadBlocks
  BY <1>5, ReleadKeeps
<1>6. CASE UNCHANGED vars
  BY <1>6, SameKeeps DEF vars
<1>7. QED  BY <1>1, <1>2, <1>3, <1>4, <1>5, <1>6 DEF Next

(* The invariant the theorems below are parts of. *)
THEOREM InvariantHolds == Spec => []IInv
<1>1. Init => IInv
  BY InitHolds
<1>2. IInv /\ [Next]_vars => IInv'
  BY StepHolds
<1>3. QED  BY <1>1, <1>2, PTL DEF Spec

-----------------------------------------------------------------------------
(* What follows. *)

(***************************************************************************)
(* DisconnectBlock, BatchWrite, ReleadBlocks: the price cache never holds  *)
(* a feed that the active chain does not, restarts and any changes of the  *)
(* window included.                                                        *)
(***************************************************************************)
THEOREM CacheNeverAhead == Spec => []PricesOnChain
<1>1. IInv => PricesOnChain
  BY DEF IInv
<1>2. QED  BY <1>1, InvariantHolds, PTL

(***************************************************************************)
(* PushBlock, UndoBlock: once loaded, the cache holds every feed of the    *)
(* window through reorganisations of any depth, while the window does not  *)
(* grow.                                                                   *)
(***************************************************************************)
THEOREM WindowKept == Spec => []WindowComplete
<1>1. IInv => WindowComplete
  BY DEF IInv
<1>2. QED  BY <1>1, InvariantHolds, PTL

(* A loaded node whose window has not grown accepts what the chain implies. *)
LEMMA NothingRefused ==
  ASSUME IInv, loaded, ~gap,
         NEW feeds \in BlockFeeds, NEW w \in Window, Height < MaxHeight
  PROVE  Accepted(NextBlock(feeds, w))
<1> DEFINE h == Height + 1
           v == WindowOf(chain)
           cached == Seen(Executed(feeds), prices)
<1>1. PICK M : chain \in Seq(BlockOf(M))
  BY DEF IInv, Shape
<1>2. Height \in Nat /\ DOMAIN chain = 1 .. Height /\ v \in Nat \ {0}
  BY <1>1, ChainFacts DEF Height
<1>3. h \in Heights /\ prices[h] = {} /\ prices \in [Heights -> Feeds]
  BY NextHeightEmpty DEF IInv, Shape
<1>4. feeds \in Feeds
  BY DEF BlockFeeds
<1>5. NewFeeds(NoOverlay, prices, h, feeds) = feeds
  BY <1>3, <1>4, AllNew
<1>6. \A k \in Heights :
        h - v < k /\ k <= h => ChainPrices(chain, feeds)[k] = cached[k]
  <2> SUFFICES ASSUME NEW k \in Heights, h - v < k, k <= h
               PROVE  ChainPrices(chain, feeds)[k] = cached[k]
    OBVIOUS
  <2>1. cached[k] = IF k = h THEN feeds ELSE prices[k]
    BY <1>3, <1>4, SeenOwn DEF Executed
  <2>2. CASE k = h
    <3>1. k \notin DOMAIN chain /\ k = Len(chain) + 1
      BY <1>2, <2>2 DEF Height
    <3>2. QED  BY <2>1, <2>2, <3>1 DEF ChainPrices
  <2>3. CASE k # h
    <3>1. k \in DOMAIN chain /\ k > Height - v
      BY <1>2, <2>3 DEF Heights
    <3>2. prices[k] = chain[k].feeds
      BY <3>1 DEF IInv, WindowComplete
    <3>3. QED  BY <2>1, <2>3, <3>1, <3>2 DEF ChainPrices
  <2>4. QED  BY <2>2, <2>3
<1> HIDE DEF cached, v
<1>7. GetMedianPrice(ChainPrices(chain, feeds), h, v, MedianOf(chain))
        = GetMedianPrice(cached, h, v, MedianOf(chain))
  BY <1>6, SameMedian
<1>8. NextBlock(feeds, w).feeds = feeds
      /\ NextBlock(feeds, w).median
           = GetMedianPrice(ChainPrices(chain, feeds), h, v, MedianOf(chain))
  BY DEF NextBlock, v
<1>9. QED  BY <1>5, <1>7, <1>8 DEF Accepted, cached, v

(***************************************************************************)
(* ConnectTip, EqualToCalculatedPrices: a node that has loaded the cache   *)
(* computes, for whatever feeds and after any reorganisations, the median  *)
(* that follows from the chain, and rejects no valid block for its median, *)
(* unless the window has grown.                                            *)
(***************************************************************************)
THEOREM MediansAgree == Spec => RejectsOnlyAfterGap
<1>1. IInv /\ [Next]_vars => [loaded /\ ~gap => rejected' = rejected]_vars
  <2> SUFFICES ASSUME IInv, [Next]_vars, loaded, ~gap
               PROVE  rejected' = rejected
    OBVIOUS
  <2>1. CASE \E feeds \in BlockFeeds, w \in Window : ConnectTip(feeds, w)
    BY <2>1 DEF ConnectTip
  <2>2. CASE \E feeds \in BlockFeeds, w \in Window : ConnectTipFails(feeds, w)
    BY <2>2, NothingRefused DEF ConnectTipFails
  <2>3. CASE DisconnectTip
    BY <2>3 DEF DisconnectTip
  <2>4. CASE \E h \in 0 .. Height : Restart(h)
    BY <2>4 DEF Restart
  <2>5. CASE ReleadBlocks
    BY <2>5 DEF ReleadBlocks
  <2>6. CASE UNCHANGED vars
    BY <2>6 DEF vars
  <2>7. QED  BY <2>1, <2>2, <2>3, <2>4, <2>5, <2>6 DEF Next
<1>2. QED  BY <1>1, InvariantHolds, PTL DEF Spec, RejectsOnlyAfterGap

-----------------------------------------------------------------------------
(* The median. *)

(* A set of naturals that is not empty has a least element. *)
LEMMA LeastOfAll ==
  ASSUME NEW T \in SUBSET Nat, T # {}
  PROVE  \E n \in T : \A m \in T : n <= m
<1>1. PICK n \in T : \A m \in T : <<m, n>> \notin OpToRel(<, Nat)
  BY WFMin, NatLessThanWellFounded, Zenon
<1>2. \A m \in T : ~(m < n)
  BY <1>1, Zenon DEF OpToRel
<1>3. QED  BY <1>2

Entries == Heights \X Feeder \X Price

(* An entry's price is a price. *)
LEMMA EntryPrice ==
  ASSUME NEW S \in SUBSET Entries, NEW e \in S
  PROVE  e[3] \in Price /\ e[3] \in Nat
BY PriceAssumption DEF Entries

(* Of finitely many entries, not none, one has the highest price: the one   *)
(* that the fewest are above.                                               *)
LEMMA Dearest ==
  ASSUME NEW S \in SUBSET Entries, IsFiniteSet(S), S # {}
  PROVE  \E e \in S : \A x \in S : x[3] <= e[3]
<1> DEFINE Above(e) == {x \in S : x[3] > e[3]}
           Counts == {Cardinality(Above(e)) : e \in S}
<1>1. \A e \in S : IsFiniteSet(Above(e)) /\ Cardinality(Above(e)) \in Nat
  BY FS_Subset, FS_CardinalityType
<1>2. PICK n \in Counts : \A m \in Counts : n <= m
  <2>1. Counts \in SUBSET Nat /\ Counts # {}
    BY <1>1
  <2> HIDE DEF Counts
  <2>2. QED  BY <2>1, LeastOfAll
<1>3. PICK e \in S : n = Cardinality(Above(e))
  OBVIOUS
<1>4. SUFFICES ASSUME NEW x \in S, ~(x[3] <= e[3])
               PROVE  FALSE
  OBVIOUS
<1>5. e[3] \in Nat /\ x[3] \in Nat
  BY EntryPrice
<1>6. Above(x) \subseteq Above(e)
  BY <1>4, <1>5, EntryPrice
<1>7. x \in Above(e) /\ x \notin Above(x)
  BY <1>4, <1>5
<1>8. Cardinality(Above(x)) < Cardinality(Above(e))
  <2> HIDE DEF Above
  <2>1. Above(x) # Above(e) /\ Above(x) \in SUBSET Above(e)
    BY <1>6, <1>7
  <2>2. Cardinality(Above(x)) <= Cardinality(Above(e))
    BY <2>1, <1>1, FS_Subset
  <2>3. Cardinality(Above(x)) # Cardinality(Above(e))
    BY <2>1, <1>1, FS_Subset
  <2>4. QED  BY <2>2, <2>3, <1>1
<1>9. QED
  <2>1. x \in S
    BY <1>4
  <2> HIDE DEF Above
  <2>2. Cardinality(Above(x)) \in Counts
    BY <2>1
  <2> HIDE DEF Counts
  <2>3. QED  BY <2>1, <2>2, <1>1, <1>2, <1>3, <1>8

(* Those of the entries S that are below price p, or not above it. *)
Cheaper(S, p) == {e \in S : e[3] < p}
UpTo(S, p)    == {e \in S : e[3] <= p}

LEMMA Counted ==
  ASSUME NEW S \in SUBSET Entries, IsFiniteSet(S), NEW p
  PROVE  /\ IsFiniteSet(Cheaper(S, p)) /\ Cardinality(Cheaper(S, p)) \in Nat
         /\ IsFiniteSet(UpTo(S, p)) /\ Cardinality(UpTo(S, p)) \in Nat
         /\ Cheaper(S, p) \in SUBSET Entries
<1>1. Cheaper(S, p) \in SUBSET S /\ UpTo(S, p) \in SUBSET S
  BY DEF Cheaper, UpTo
<1>2. QED  BY <1>1, FS_Subset, FS_CardinalityType

(* The k-th smallest price of finitely many entries is a price. *)
LEMMA RankedIsPrice ==
  ASSUME NEW S \in SUBSET Entries, IsFiniteSet(S),
         NEW k \in 1 .. Cardinality(S)
  PROVE  Ranked(S, k) \in Price
<1>0. Cardinality(S) \in Nat /\ S # {}
  BY FS_CardinalityType, FS_EmptySet
<1> DEFINE Enough == {p \in Price : Cardinality(UpTo(S, p)) >= k}
<1>1. Enough # {}
  <2>1. PICK e \in S : \A x \in S : x[3] <= e[3]
    BY <1>0, Dearest
  <2>2. UpTo(S, e[3]) = S
    BY <2>1 DEF UpTo
  <2>3. e[3] \in Price
    BY EntryPrice
  <2>4. e[3] \in Enough
    BY <2>2, <2>3, <1>0
  <2>5. QED  BY <2>4
<1>2. Enough \in SUBSET Nat
  BY PriceAssumption
<1>3. PICK p \in Enough : \A q \in Enough : p <= q
  <2> HIDE DEF Enough
  <2>1. QED  BY <1>1, <1>2, LeastOfAll
<1>4. p \in Nat /\ p \in Price
  BY <1>2
<1>5. Cardinality(Cheaper(S, p)) < k
  <2>1. SUFFICES ASSUME Cardinality(Cheaper(S, p)) >= k
                 PROVE  FALSE
    BY Counted
  <2>2. Cheaper(S, p) # {}
    <3>1. Cardinality(Cheaper(S, p)) # 0
      BY <2>1, Counted
    <3>2. QED  BY <3>1, FS_EmptySet
  <2>3. PICK e \in Cheaper(S, p) : \A x \in Cheaper(S, p) : x[3] <= e[3]
    BY <2>2, Counted, Dearest
  <2>4. e \in S /\ e[3] < p /\ e[3] \in Price /\ e[3] \in Nat
    BY EntryPrice DEF Cheaper
  <2>5. Cheaper(S, p) \in SUBSET UpTo(S, e[3])
    BY <2>3 DEF Cheaper, UpTo
  <2>6. Cardinality(Cheaper(S, p)) <= Cardinality(UpTo(S, e[3]))
    BY <2>5, Counted, FS_Subset
  <2>7. Cardinality(UpTo(S, e[3])) >= k
    BY <2>1, <2>6, Counted
  <2>8. e[3] \in Enough
    BY <2>4, <2>7
  <2>9. QED  BY <2>4, <2>8, <1>3, <1>4
<1>6. \E q \in Price :
        /\ Cardinality({e \in S : e[3] < q}) < k
        /\ Cardinality({e \in S : e[3] <= q}) >= k
  BY <1>3, <1>4, <1>5 DEF Cheaper, UpTo
<1>7. QED  BY <1>6 DEF Ranked

(* The mean of two numbers, rounded down, lies between them.                *)
LEMMA MeanBetween ==
  ASSUME NEW a \in Nat, NEW b \in Nat, NEW m, m = (a + b) \div 2
  PROVE  m \in Nat /\ ((a <= m /\ m <= b) \/ (b <= m /\ m <= a))
OBVIOUS

Between(m) == \E p, q \in Price : p <= m /\ m <= q

(* The median of finitely many entries, not none, lies between two prices. *)
LEMMA MedianBetween ==
  ASSUME NEW S \in SUBSET Entries, IsFiniteSet(S), S # {}
  PROVE  ComputeMedianNumber(S) \in Nat /\ Between(ComputeMedianNumber(S))
<1> DEFINE n == Cardinality(S)
           a == Ranked(S, (n + 1) \div 2)
           b == Ranked(S, n \div 2 + 1)
<1>1. n \in Nat \ {0}
  BY FS_CardinalityType, FS_EmptySet
<1>2. (n + 1) \div 2 \in 1 .. n /\ n \div 2 + 1 \in 1 .. n
  <2> HIDE DEF n
  <2>1. QED  BY <1>1
<1>3. a \in Price /\ b \in Price
  BY <1>2, RankedIsPrice
<1>4. ComputeMedianNumber(S) = (a + b) \div 2
  BY DEF ComputeMedianNumber
<1> HIDE DEF a, b
<1>5. a \in Nat /\ b \in Nat
  BY <1>3, PriceAssumption
<1>6. QED  BY <1>3, <1>4, <1>5, MeanBetween DEF Between

(***************************************************************************)
(* The chain's own feeds: no feeder twice in a block, so a window has      *)
(* finitely many entries, whatever the prices are.                         *)
(***************************************************************************)
LEMMA WindowIsFinite ==
  ASSUME NEW ps, NEW h, NEW w, \A k \in Heights : ps[k] \in BlockFeeds
  PROVE  /\ InWindow(ps, h, w) \in SUBSET Entries
         /\ IsFiniteSet(InWindow(ps, h, w))
<1> DEFINE S == InWindow(ps, h, w)
           f == [e \in S |-> <<e[1], e[2]>>]
<1>1. S \in SUBSET Entries
  BY DEF InWindow, Entries
<1>2. IsFiniteSet(Heights \X Feeder)
  <2>1. IsFiniteSet(Heights)
    BY PriceAssumption, FS_Interval DEF Heights
  <2>2. QED  BY <2>1, PriceAssumption, FS_Product
<1>3. \A x, y \in S : x[1] = y[1] /\ x[2] = y[2] => x = y
  <2> SUFFICES ASSUME NEW x \in S, NEW y \in S, x[1] = y[1], x[2] = y[2]
               PROVE  x = y
    OBVIOUS
  <2>1. x \in Entries /\ y \in Entries
    BY <1>1
  <2>2. <<x[2], x[3]>> \in ps[x[1]] /\ <<y[2], y[3]>> \in ps[x[1]]
    BY DEF InWindow
  <2>3. x[1] \in Heights
    BY <2>1 DEF Entries
  <2>4. \A u, v \in ps[x[1]] : u[1] = v[1] => u = v
    BY <2>3 DEF BlockFeeds
  <2>5. <<x[2], x[3]>> = <<y[2], y[3]>>
    BY <2>2, <2>4
  <2>6. x[3] = y[3]
    BY <2>5
  <2>7. QED  BY <2>1, <2>6 DEF Entries
<1>4. f \in Injection(S, Heights \X Feeder)
  <2>1. f \in [S -> Heights \X Feeder]
    BY <1>1 DEF Entries
  <2>2. \A x, y \in S : f[x] = f[y] => x = y
    BY <1>3
  <2> HIDE DEF f, S
  <2>3. QED  BY <2>1, <2>2 DEF Injection, IsInjective
<1>5. IsFiniteSet(S)
  <2> HIDE DEF f, S
  <2>1. QED  BY <1>2, <1>4, FS_Injection
<1>6. QED  BY <1>1, <1>5

(* A median is 0, before there is any price, or between two prices.         *)
Plausible(m) == m \in Nat /\ (m = 0 \/ Between(m))

LEMMA NextIsPlausible ==
  ASSUME NEW ps, \A k \in Heights : ps[k] \in BlockFeeds,
         NEW h, NEW w, NEW last, Plausible(last)
  PROVE  Plausible(GetMedianPrice(ps, h, w, last))
<1> DEFINE S == InWindow(ps, h, w)
<1>1. S \in SUBSET Entries /\ IsFiniteSet(S)
  BY WindowIsFinite
<1>2. CASE S = {}
  BY <1>2 DEF GetMedianPrice
<1>3. CASE S # {}
  <2>1. GetMedianPrice(ps, h, w, last) = ComputeMedianNumber(S)
    BY <1>3 DEF GetMedianPrice
  <2> HIDE DEF S
  <2>2. QED  BY <2>1, <1>1, <1>3, MedianBetween DEF Plausible
<1>4. QED  BY <1>2, <1>3

ProperBlock == {b \in Block : b.feeds \in BlockFeeds /\ Plausible(b.median)}

Typed ==
  /\ chain \in Seq(ProperBlock)
  /\ Len(chain) <= MaxHeight
  /\ prices \in [Heights -> Feeds]
  /\ loaded \in BOOLEAN
  /\ gap \in BOOLEAN
  /\ rejected \in BOOLEAN

LEMMA TypedTypes == Typed => TypeOK
<1> SUFFICES ASSUME Typed
             PROVE  TypeOK
  OBVIOUS
<1>1. \A k \in DOMAIN chain : chain[k] \in ProperBlock
  BY ElementOfSeq, LenProperties DEF Typed
<1>2. chain \in Seq(Block)
  <2>1. Len(chain) \in Nat /\ DOMAIN chain = 1 .. Len(chain)
    BY LenProperties DEF Typed
  <2>2. \A i \in 1 .. Len(chain) : chain[i] \in Block
    BY <1>1, <2>1 DEF ProperBlock
  <2>3. chain = [i \in 1 .. Len(chain) |-> chain[i]]
    BY <2>1 DEF Typed
  <2>4. QED  BY <2>1, <2>2, <2>3, IsASeq
<1>3. \A k \in DOMAIN chain :
        \/ chain[k].median = 0
        \/ \E p, q \in Price : p <= chain[k].median /\ chain[k].median <= q
  BY <1>1 DEF ProperBlock, Plausible, Between
<1>4. QED  BY <1>2, <1>3 DEF Typed, TypeOK

(* The next block is a proper one.                                          *)
LEMMA NextIsProper ==
  ASSUME Typed, NEW feeds \in BlockFeeds, NEW w \in Window
  PROVE  NextBlock(feeds, w) \in ProperBlock
<1> DEFINE ps == ChainPrices(chain, feeds)
<1>1. \A k \in DOMAIN chain : chain[k] \in ProperBlock
  BY ElementOfSeq, LenProperties DEF Typed
<1>2. \A k \in Heights : ps[k] \in BlockFeeds
  BY <1>1 DEF ChainPrices, ProperBlock, BlockFeeds, Feeds
<1>3. Plausible(MedianOf(chain))
  <2>1. CASE chain = <<>>
    BY <2>1 DEF MedianOf, Plausible
  <2>2. CASE chain # <<>>
    <3>1. Last(chain) \in ProperBlock
      <4>1. Len(chain) \in DOMAIN chain
        BY <2>2, EmptySeq, LenProperties DEF Typed
      <4>2. QED  BY <4>1, <1>1 DEF Last
    <3>2. QED  BY <2>2, <3>1 DEF MedianOf, ProperBlock
  <2>3. QED  BY <2>1, <2>2
<1>4. Plausible(NextBlock(feeds, w).median)
  <2> HIDE DEF ps
  <2>1. Plausible(GetMedianPrice(ps, Height + 1, WindowOf(chain), MedianOf(chain)))
    BY <1>2, <1>3, NextIsPlausible
  <2>2. QED  BY <2>1 DEF NextBlock, ps
<1>5. NextBlock(feeds, w) \in Block
  BY <1>4 DEF NextBlock, Block, BlockFeeds, Plausible
<1>6. NextBlock(feeds, w).feeds = feeds
  BY DEF NextBlock
<1>7. QED  BY <1>4, <1>5, <1>6 DEF ProperBlock

LEMMA TypedKept == Typed /\ IInv /\ IInv' /\ [Next]_vars => Typed'
<1> SUFFICES ASSUME Typed, IInv, IInv', [Next]_vars
             PROVE  Typed'
  OBVIOUS
<1>1. Len(chain)' <= MaxHeight /\ prices' \in [Heights -> Feeds]
  BY DEF IInv, Shape
<1>2. CASE \E feeds \in BlockFeeds, w \in Window : ConnectTip(feeds, w)
  <2>1. PICK feeds \in BlockFeeds, w \in Window : ConnectTip(feeds, w)
    BY <1>2
  <2>2. chain' \in Seq(ProperBlock)
    BY <2>1, NextIsProper, AppendProperties DEF ConnectTip, Typed
  <2>3. gap' \in BOOLEAN
    BY <2>1, Zenon DEF ConnectTip
  <2>4. QED  BY <1>1, <2>1, <2>2, <2>3 DEF ConnectTip, Typed
<1>3. CASE \E feeds \in BlockFeeds, w \in Window : ConnectTipFails(feeds, w)
  BY <1>1, <1>3 DEF ConnectTipFails, Typed
<1>4. CASE DisconnectTip
  <2>1. chain' \in Seq(ProperBlock)
    <3>1. chain' = Front(chain) /\ Len(chain) > 0
      BY <1>4 DEF DisconnectTip, Height
    <3>2. chain # <<>>
      BY <3>1, EmptySeq, LenProperties
    <3>3. Len(chain) \in Nat \ {0} /\ Len(chain) - 1 \in 1 - 1 .. Len(chain)
      BY <3>1, LenProperties DEF Typed
    <3>4. \A i \in 1 .. Len(chain) - 1 : chain[i] \in ProperBlock
      BY <3>3, ElementOfSeq, LenProperties DEF Typed
    <3>5. Front(chain) = [i \in 1 .. Len(chain) - 1 |-> chain[i]]
      BY <3>3 DEF Front
    <3>6. QED  BY <3>1, <3>3, <3>4, <3>5, IsASeq
  <2>2. gap' \in BOOLEAN
    BY <1>4, Zenon DEF DisconnectTip
  <2>3. QED  BY <1>1, <1>4, <2>1, <2>2 DEF DisconnectTip, Typed
<1>5. CASE \E h \in 0 .. Height : Restart(h)
  <2>1. PICK h \in 0 .. Height : Restart(h)
    BY <1>5
  <2>2. chain' \in Seq(ProperBlock)
    BY <2>1, SubSeqProperties, LenProperties DEF Restart, Typed, Height
  <2>3. QED  BY <1>1, <2>1, <2>2 DEF Restart, Typed
<1>6. CASE ReleadBlocks
  BY <1>1, <1>6 DEF ReleadBlocks, Typed
<1>7. CASE UNCHANGED vars
  BY <1>7 DEF vars, Typed
<1>8. QED  BY <1>2, <1>3, <1>4, <1>5, <1>6, <1>7 DEF Next

(***************************************************************************)
(* ComputeBlockMedianPrice: after whatever blocks, reorganisations and     *)
(* restarts, the median of every block is 0, while no price was ever fed,  *)
(* or lies between two prices that can be fed, and is a natural number;    *)
(* every variable has its type.                                            *)
(***************************************************************************)
THEOREM MediansAreBounded == Spec => []TypeOK
<1>1. Init => Typed
  <2>1. Init => chain \in Seq(ProperBlock) /\ Len(chain) <= MaxHeight
    BY EmptySeq, LenProperties, PriceAssumption DEF Init
  <2>2. QED  BY <2>1 DEF Init, Typed, Feeds
<1>2. IInv /\ IInv' /\ Typed /\ [Next]_vars => Typed'
  BY TypedKept
<1>3. Typed => TypeOK
  BY TypedTypes
<1>4. QED  BY <1>1, <1>2, <1>3, InvariantHolds, PTL DEF Spec
=============================================================================
