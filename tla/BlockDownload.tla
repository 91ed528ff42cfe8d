--------------------------- MODULE BlockDownload ---------------------------
(***************************************************************************)
(* Which peer a block is fetched from.  A peer announces a block with inv; *)
(* the message thread queues it with that peer, SendMessages asks for it,  *)
(* and a block nobody has delivered in time is queued with the next peer   *)
(* that announces it.  Every block being fetched is listed with one peer   *)
(* (CNodeState) and has an entry in one of two global maps that names the  *)
(* peer.                                                                   *)
(*                                                                         *)
(* Two threads take part: the message thread serves the peers one after    *)
(* another, and the socket thread destroys peers that have disconnected.   *)
(* Both change the maps under cs_mapNodeState, but AddBlockToQueue looks   *)
(* at them before it takes that lock, so it is split into its steps here.  *)
(* Times are not counted: an entry is new until its timeout has passed.    *)
(***************************************************************************)
EXTENDS Integers, FiniteSets, Sequences, SequencesExt, Functions

CONSTANTS
  Peer,          \* the peers
  Hash,          \* the blocks they have
  Honest,        \* peers that stay connected and answer every request
  MaxInTransit,  \* MAX_BLOCKS_IN_TRANSIT_PER_PEER
  RaceAllowed,   \* TRUE: a peer may be destroyed while AddBlockToQueue runs
  Nobody         \* the peer of an entry that operator[] has made

DownloadAssumption ==
  /\ Honest \subseteq Peer /\ Nobody \notin Peer
  /\ MaxInTransit \in Nat \ {0}
  /\ RaceAllowed \in BOOLEAN

VARIABLES
  connected,      \* peers the message thread serves
  closing,        \* disconnected, not yet destroyed
  toDownload,     \* vBlocksToDownload of each peer, nBlocksToDownload its length
  inFlight,       \* vBlocksInFlight, nBlocksInFlight its length
  mapToDownload,  \* mapBlocksToDownload: peer and age of some blocks
  mapInFlight,    \* mapBlocksInFlight
  asked,          \* getdata messages under way or unanswered
  have,           \* blocks that are indexed or held as orphans
  thread,         \* where the message thread is
  crashed         \* an entry without a list position was used

maps  == <<mapToDownload, mapInFlight>>
lists == <<toDownload, inFlight>>
downloadVars ==
  <<connected, closing, lists, maps, asked, have, thread, crashed>>

Idle  == [at |-> "idle"]
Ghost == [peer |-> Nobody, late |-> TRUE]
New(p) == [peer |-> p, late |-> FALSE]

Serving(p) == p \in connected /\ thread = Idle

-----------------------------------------------------------------------------
(* MarkBlockAsReceived, one map and the list of the peer its entry names.   *)
Unlisted(list, map, b) ==
  IF b \in DOMAIN map /\ map[b].peer # Nobody
  THEN [list EXCEPT ![map[b].peer] = RemoveFirst(@, b)] ELSE list

Unmapped(map, b) == Restrict(map, DOMAIN map \ {b})

(* An entry made by operator[] has no list and no position to erase.        *)
Dangling(b) ==
  \/ b \in DOMAIN mapToDownload /\ mapToDownload[b].peer = Nobody
  \/ b \in DOMAIN mapInFlight /\ mapInFlight[b].peer = Nobody

Listed(map, b, p) ==
  [x \in DOMAIN map \cup {b} |-> IF x = b THEN New(p) ELSE map[x]]

-----------------------------------------------------------------------------
(* ProcessInvMessage: a block that is not known goes to AddBlockToQueue.    *)
Inv(p, b) ==
  /\ Serving(p) /\ b \notin have
  /\ thread' = [at |-> "countQueue", peer |-> p, hash |-> b]
  /\ UNCHANGED <<connected, closing, lists, maps, asked, have, crashed>>

Go(at) ==
  /\ thread' = [thread EXCEPT !.at = at]
  /\ UNCHANGED <<connected, closing, lists, asked, have, crashed>>

Ignore ==
  /\ thread' = Idle
  /\ UNCHANGED <<connected, closing, lists, maps, asked, have, crashed>>

(* mapBlocksToDownload.count(hash)                                          *)
CountQueue ==
  /\ thread.at = "countQueue"
  /\ IF thread.hash \in DOMAIN mapToDownload THEN Go("readQueue") ELSE Go("countFlight")
  /\ UNCHANGED maps

(* Mutant: a block that is queued is never queued again.                    *)
NewEntryForEver(map, b) == b \in DOMAIN map

NewEntry(map, b) == b \in DOMAIN map /\ ~map[b].late

(* operator[]: an entry that has gone in between is made again, time 0.     *)
Touched(map, b) == [x \in DOMAIN map \cup {b} |-> IF x \in DOMAIN map THEN map[x] ELSE Ghost]

(* Mutant: times count from the start of the node, so time 0 is new.        *)
ReadQueueFromStart ==
  /\ thread.at = "readQueue"
  /\ IF NewEntry(mapToDownload, thread.hash) \/ thread.hash \notin DOMAIN mapToDownload
     THEN /\ thread' = Idle
          /\ UNCHANGED <<connected, closing, lists, asked, have, crashed>>
     ELSE Go("countFlight")
  /\ mapToDownload' = Touched(mapToDownload, thread.hash)
  /\ UNCHANGED mapInFlight

ReadQueue ==
  /\ thread.at = "readQueue"
  /\ IF NewEntry(mapToDownload, thread.hash) THEN Ignore
     ELSE /\ Go("countFlight")
          /\ mapToDownload' = Touched(mapToDownload, thread.hash)
          /\ UNCHANGED mapInFlight

CountFlight ==
  /\ thread.at = "countFlight"
  /\ IF thread.hash \in DOMAIN mapInFlight THEN Go("readFlight") ELSE Go("lock")
  /\ UNCHANGED maps

ReadFlight ==
  /\ thread.at = "readFlight"
  /\ IF NewEntry(mapInFlight, thread.hash) THEN Ignore
     ELSE /\ Go("lock")
          /\ mapInFlight' = Touched(mapInFlight, thread.hash)
          /\ UNCHANGED mapToDownload

(* The rest of AddBlockToQueue, under cs_mapNodeState.                      *)
Enqueue ==
  LET b == thread.hash
      p == thread.peer
  IN
  /\ thread.at = "lock"
  /\ toDownload' = [Unlisted(toDownload, mapToDownload, b) EXCEPT ![p] = Append(@, b)]
  /\ mapToDownload' = Listed(Unmapped(mapToDownload, b), b, p)
  /\ inFlight' = Unlisted(inFlight, mapInFlight, b)
  /\ mapInFlight' = Unmapped(mapInFlight, b)
  /\ crashed' = (crashed \/ Dangling(b))
  /\ thread' = Idle
  /\ UNCHANGED <<connected, closing, asked, have>>

Room(p) == MaxInTransit - Len(inFlight[p])

(* SendMessages: getdata for the blocks in the queue while there is room,   *)
(* MarkBlockAsInFlight for each.                                            *)
SendMessages(p) ==
  LET n     == IF Len(toDownload[p]) < Room(p) THEN Len(toDownload[p]) ELSE Room(p)
      taken == SubSeq(toDownload[p], 1, n)
      new   == ToSet(taken)
  IN
  /\ Serving(p) /\ n > 0
  /\ toDownload' = [toDownload EXCEPT ![p] = SubSeq(@, n + 1, Len(@))]
  /\ inFlight' = [inFlight EXCEPT ![p] = @ \o taken]
  /\ mapToDownload' = Restrict(mapToDownload, DOMAIN mapToDownload \ new)
  /\ mapInFlight' = [x \in DOMAIN mapInFlight \cup new |->
                       IF x \in new THEN New(p) ELSE mapInFlight[x]]
  /\ asked' = asked \cup {<<p, b>> : b \in new}
  /\ UNCHANGED <<connected, closing, have, thread, crashed>>

(* ProcessBlockMessage: the block may come from the peer it is listed with, *)
(* from one that was asked earlier, or unasked.                             *)
Receive(p, b) ==
  /\ Serving(p)
  /\ toDownload' = Unlisted(toDownload, mapToDownload, b)
  /\ mapToDownload' = Unmapped(mapToDownload, b)
  /\ inFlight' = Unlisted(inFlight, mapInFlight, b)
  /\ mapInFlight' = Unmapped(mapInFlight, b)
  /\ asked' = asked \ {<<p, b>>}
  /\ have' = have \cup {b}
  /\ crashed' = (crashed \/ Dangling(b))
  /\ UNCHANGED <<connected, closing, thread>>

(* The timeouts of the two maps pass, for a miner or for another node.      *)
Timeout(b) ==
  /\ \/ /\ NewEntry(mapToDownload, b)
        /\ mapToDownload' = [mapToDownload EXCEPT ![b].late = TRUE]
        /\ UNCHANGED mapInFlight
     \/ /\ NewEntry(mapInFlight, b)
        /\ mapInFlight' = [mapInFlight EXCEPT ![b].late = TRUE]
        /\ UNCHANGED mapToDownload
  /\ UNCHANGED <<connected, closing, lists, asked, have, thread, crashed>>

(* A peer goes, or is dropped for stalling the download.  The message       *)
(* thread holds a reference until it has served every peer.                 *)
Disconnect(p) ==
  /\ Serving(p) /\ p \notin Honest
  /\ connected' = connected \ {p}
  /\ closing' = closing \cup {p}
  /\ UNCHANGED <<lists, maps, asked, have, thread, crashed>>

(* Mutant: only what is in flight is taken back.                            *)
FinalizeFlights(p) ==
  /\ p \in closing
  /\ RaceAllowed \/ thread = Idle
  /\ mapInFlight' = Restrict(mapInFlight, DOMAIN mapInFlight \ ToSet(inFlight[p]))
  /\ toDownload' = [toDownload EXCEPT ![p] = <<>>]
  /\ inFlight' = [inFlight EXCEPT ![p] = <<>>]
  /\ closing' = closing \ {p}
  /\ asked' = {a \in asked : a[1] # p}
  /\ UNCHANGED <<connected, mapToDownload, have, thread, crashed>>

(* ThreadSocketHandler deletes the peer: FinalizeNode.                      *)
FinalizeNode(p) ==
  /\ p \in closing
  /\ RaceAllowed \/ thread = Idle
  /\ mapInFlight' = Restrict(mapInFlight, DOMAIN mapInFlight \ ToSet(inFlight[p]))
  /\ mapToDownload' = Restrict(mapToDownload, DOMAIN mapToDownload \ ToSet(toDownload[p]))
  /\ toDownload' = [toDownload EXCEPT ![p] = <<>>]
  /\ inFlight' = [inFlight EXCEPT ![p] = <<>>]
  /\ closing' = closing \ {p}
  /\ asked' = {a \in asked : a[1] # p}
  /\ UNCHANGED <<connected, have, thread, crashed>>

(* InitializeNode.                                                          *)
Connect(p) ==
  /\ p \notin connected \cup closing
  /\ connected' = connected \cup {p}
  /\ UNCHANGED <<closing, lists, maps, asked, have, thread, crashed>>

DownloadInit ==
  /\ connected = Peer /\ closing = {}
  /\ toDownload = [p \in Peer |-> <<>>] /\ inFlight = [p \in Peer |-> <<>>]
  /\ mapToDownload = <<>> /\ mapInFlight = <<>>
  /\ asked = {} /\ have = {}
  /\ thread = Idle
  /\ crashed = FALSE

AddBlockToQueue == CountQueue \/ ReadQueue \/ CountFlight \/ ReadFlight \/ Enqueue

(* Undefined behaviour ends what the model says of the process.             *)
DownloadNext ==
  /\ ~crashed
  /\ \/ AddBlockToQueue
     \/ \E p \in Peer : \/ SendMessages(p) \/ Connect(p)
                        \/ Disconnect(p) \/ FinalizeNode(p)
     \/ \E p \in Peer, b \in Hash : Inv(p, b) \/ Receive(p, b)
     \/ \E b \in Hash : Timeout(b)

DownloadSpec == DownloadInit /\ [][DownloadNext]_downloadVars

(* A block that is not being fetched, or for too long.                      *)
Wanted(b) == ~NewEntry(mapToDownload, b) /\ ~NewEntry(mapInFlight, b)

(* Every peer is polled; timeouts pass, and not always while an             *)
(* announcement is being handled; an honest peer answers.  It announces a   *)
(* block again and again, because every new block makes the node send       *)
(* getblocks, and not always while the block is being fetched.  Peers are   *)
(* polled within a tenth of a second and timeouts are seconds, so a queue   *)
(* is not always robbed before it is sent.                                  *)
Fairness ==
  /\ WF_downloadVars(AddBlockToQueue)
  /\ \A b \in Hash : SF_downloadVars(Timeout(b) /\ thread = Idle)
  /\ \A p \in Honest :
       /\ SF_downloadVars(SendMessages(p))
       /\ \A b \in Hash : /\ SF_downloadVars(Inv(p, b) /\ Wanted(b))
                          /\ SF_downloadVars(Receive(p, b) /\ <<p, b>> \in asked)

FairSpec == DownloadSpec /\ Fairness

-----------------------------------------------------------------------------
Entry == [peer : Peer \cup {Nobody}, late : BOOLEAN]

(* Types, and a peer is never both served and being destroyed.              *)
DownloadTypeOK ==
  /\ connected \subseteq Peer /\ closing \subseteq Peer \ connected
  /\ toDownload \in [Peer -> Seq(Hash)] /\ inFlight \in [Peer -> Seq(Hash)]
  /\ DOMAIN mapToDownload \subseteq Hash /\ DOMAIN mapInFlight \subseteq Hash
  /\ \A b \in DOMAIN mapToDownload : mapToDownload[b] \in Entry
  /\ \A b \in DOMAIN mapInFlight : mapInFlight[b] \in Entry
  /\ asked \subseteq Peer \X Hash /\ have \subseteq Hash
  /\ \A p \in Peer : Len(inFlight[p]) <= MaxInTransit

Mirrors(map, list) ==
  /\ \A b \in DOMAIN map : map[b].peer # Nobody /\ Contains(list[map[b].peer], b)
  /\ \A p \in Peer : \A i, j \in DOMAIN list[p] :
       /\ list[p][i] = list[p][j] => i = j
       /\ list[p][i] \in DOMAIN map /\ map[list[p][i]].peer = p

(* The maps and the lists of the peers say the same: every block is listed  *)
(* once, with the peer its entry names, in the queue or in flight, and that *)
(* peer has not been destroyed.  "Make sure it's not listed somewhere       *)
(* already" is what MarkBlockAsReceived is called for.                      *)
MapsMirrorLists ==
  /\ Mirrors(mapToDownload, toDownload)
  /\ Mirrors(mapInFlight, inFlight)
  /\ DOMAIN mapToDownload \cap DOMAIN mapInFlight = {}
  /\ \A p \in Peer \ (connected \cup closing) :
       toDownload[p] = <<>> /\ inFlight[p] = <<>>

(* Nothing the node has is fetched again, whoever delivered it.             *)
HeldIsNotFetched == have \cap (DOMAIN mapToDownload \cup DOMAIN mapInFlight) = {}

(* What the queues of all peers and the two maps owe each other.            *)
QueuesAgree == DownloadTypeOK /\ MapsMirrorLists /\ HeldIsNotFetched

(* MarkBlockAsReceived only ever meets entries that have a position in the  *)
(* list of their peer.                                                      *)
NoDanglingEntry == ~crashed

(* From the first look at the maps to the lock of AddBlockToQueue.          *)
Announced(b) == thread # Idle /\ thread.hash = b

WithPlace(map) == Restrict(map, {b \in DOMAIN map : map[b].peer # Nobody})

(* A peer may be destroyed at any moment, also between count() and          *)
(* operator[] of AddBlockToQueue.  Then an entry without a place in a list  *)
(* is made, but for no other block than the one that is being announced,    *)
(* and the same call replaces it: no other handler ever meets one.  All     *)
(* other entries and all lists agree.                                       *)
RaceHitsOneBlock ==
  /\ \A b \in Hash : Dangling(b) => Announced(b)
  /\ Mirrors(WithPlace(mapToDownload), toDownload)
  /\ Mirrors(WithPlace(mapInFlight), inFlight)
  /\ DOMAIN mapToDownload \cap DOMAIN mapInFlight = {}
  /\ HeldIsNotFetched

(* A peer that stalls, or leaves with a block in its queue, delays a block  *)
(* but never keeps it away: it is fetched from an honest peer in the end.   *)
EveryBlockArrives == Honest # {} => \A b \in Hash : <>(b \in have)

=============================================================================
