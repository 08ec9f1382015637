---------------------- MODULE SubscriptionGatewayProofs ----------------------
(****************************************************************************)
(* Proofs about SubscriptionGateway, for any consumers and symbols, any     *)
(* sizes of the batch and of the stream, and any number of changes, crashes *)
(* and faults.                                                              *)
(*                                                                          *)
(* The wire.  What the provider remembers is what the owners ask for, and   *)
(* a live socket carries what it remembers (FeedInv).                       *)
(*                                                                          *)
(* The owners.  The ids of a batch are consecutive (BatchInv), and every    *)
(* event between the loop's offset and the head of the batch is of a        *)
(* consumer that is written off as skipped or missed (GapInv): the owners   *)
(* of all others are those of the moment before the head.  Between the      *)
(* write of the hash and the rest of the application, the hash is the       *)
(* owners with the head applied (SavedInv).                                 *)
(****************************************************************************)
EXTENDS SubscriptionGateway, WellFoundedInduction, TLAPS

FeedInv ==
  /\ IF at = "down" THEN ~feed.on
                    ELSE feed.quotes = AskedQ(owners) /\ feed.trades = owners[Warning]
  /\ feed.on => feed.wireQ = feed.quotes /\ feed.wireT = feed.quotes \cup feed.trades

BatchInv ==
  /\ \A k \in 1..Len(batch) : /\ batch[k] = batch[1] + k - 1
                              /\ offset < batch[k] /\ batch[k] <= Len(stream)
  /\ at = "saved" => batch # <<>>

GapInv ==
  at # "down" /\ batch # <<>> =>
    \A i \in (offset + 1)..(batch[1] - 1) : stream[i].consumer \in skipped \cup missed

SavedInv ==
  at = "saved" => /\ skipped \subseteq missed
                  /\ hash.done => hash.id = Head(batch) /\ hash.owners = Applied

\* The inductive invariant.
GatewayInv == TypeOK /\ FeedInv /\ BatchInv /\ GapInv /\ SavedInv /\ OwnersReplayed

------------------------------------------------------------------------------
(* The last announcement of a consumer.                                     *)

\* A nonempty set of naturals has a least member.
LEMMA LeastNat ==
  ASSUME NEW T, T \subseteq Nat, T # {}
  PROVE  \E x \in T : \A y \in T : x <= y
<1>1. PICK x \in T : \A y \in T : ~(<<y, x>> \in OpToRel(<, Nat))
  BY NatLessThanWellFounded, WFMin
<1>2. \A y \in T : ~(y < x)  BY <1>1 DEF OpToRel
<1>3. \A y \in T : x <= y  BY <1>2
<1> QED  BY <1>3

\* A nonempty set of ids has a greatest one.
LEMMA MaxOf ==
  ASSUME NEW n \in Nat, NEW S, S \subseteq 1..n, S # {}
  PROVE  Max(S) \in S /\ \A y \in S : y <= Max(S)
<1> DEFINE T == {n - s : s \in S}
<1>1. T \subseteq Nat /\ T # {}
  <2>1. \A s \in S : n - s \in Nat  OBVIOUS
  <2>2. PICK s \in S : TRUE  OBVIOUS
  <2>3. n - s \in T  OBVIOUS
  <2> QED  BY <2>1, <2>3
<1>2. PICK k \in T : \A y \in T : k <= y
  <2> HIDE DEF T
  <2> QED  BY <1>1, LeastNat
<1>3. PICK m \in S : k = n - m  OBVIOUS
<1>4. \A y \in S : m >= y
  <2> TAKE y \in S
  <2>1. n - m <= n - y  BY <1>2, <1>3
  <2>2. y \in Int /\ m \in Int  OBVIOUS
  <2> QED  BY <2>1, <2>2
<1> HIDE DEF T
<1>5. Max(S) \in S /\ \A y \in S : Max(S) >= y  BY <1>4 DEF Max
<1> QED  BY <1>5

\* The greatest id of a set is the one no other exceeds.
LEMMA MaxIs ==
  ASSUME NEW n \in Nat, NEW S, S \subseteq 1..n, NEW m \in S, \A y \in S : y <= m
  PROVE  Max(S) = m
<1>1. Max(S) \in S /\ \A y \in S : y <= Max(S)  BY MaxOf
<1>2. Max(S) <= m /\ m <= Max(S)  BY <1>1
<1>3. \A y \in S : y \in Int  OBVIOUS
<1>4. \A x \in Int : x <= m /\ m <= x => x = m  BY <1>3
<1>5. Max(S) \in Int  BY <1>1, <1>3
<1> QED  BY <1>2, <1>4, <1>5

\* An announcement changes nothing about the past.
LEMMA LatestKept ==
  ASSUME NEW c, NEW n \in Nat, n <= Len(stream), stream \in Seq(Event),
         \A i \in 1..Len(stream) : stream'[i] = stream[i]
  PROVE  Latest(c, 0, n, {})' = Latest(c, 0, n, {})
<1>1. \A i \in (0 + 1)..n : stream'[i] = stream[i]  OBVIOUS
<1>2. Said(c, 0, n)' = Said(c, 0, n)  BY <1>1 DEF Said
<1>3. Said(c, 0, n) # {} => Max(Said(c, 0, n)) \in (0 + 1)..n
  <2>1. Said(c, 0, n) \subseteq 1..n  BY DEF Said
  <2> QED  BY <2>1, MaxOf
<1> QED  BY <1>1, <1>2, <1>3 DEF Latest

\* What a consumer said last is a set of symbols.
LEMMA LatestType ==
  ASSUME NEW c, NEW a \in Nat, NEW b \in Nat, b <= Len(stream), stream \in Seq(Event),
         NEW before \in SUBSET Symbols
  PROVE  Latest(c, a, b, before) \in SUBSET Symbols
<1>1. Said(c, a, b) \subseteq 1..b  BY DEF Said
<1>2. CASE Said(c, a, b) = {}  BY <1>2 DEF Latest
<1>3. CASE Said(c, a, b) # {}
  <2>1. Max(Said(c, a, b)) \in 1..b  BY <1>1, <1>3, MaxOf
  <2>2. stream[Max(Said(c, a, b))] \in Event  BY <2>1
  <2> QED  BY <1>3, <2>2 DEF Latest, Event
<1> QED  BY <1>2, <1>3

\* The consumer of the event h said last what the event says ...
LEMMA LatestAt ==
  ASSUME NEW c, NEW h \in Nat \ {0}, stream[h].consumer = c
  PROVE  Latest(c, 0, h, {}) = stream[h].symbols
<1>1. Said(c, 0, h) \subseteq 1..h /\ h \in Said(c, 0, h)  BY DEF Said
<1>2. Max(Said(c, 0, h)) = h  BY <1>1, MaxIs
<1> QED  BY <1>1, <1>2 DEF Latest

\* ... and events of others change nothing.
LEMMA LatestSkip ==
  ASSUME NEW c, NEW a \in Nat, NEW b \in Nat, a <= b,
         \A i \in (a + 1)..b : stream[i].consumer # c
  PROVE  Latest(c, 0, b, {}) = Latest(c, 0, a, {})
<1>1. \A i \in (0 + 1)..b : i \in (0 + 1)..a \/ i \in (a + 1)..b  OBVIOUS
<1>2. \A i \in (0 + 1)..a : i \in (0 + 1)..b  OBVIOUS
<1>3. Said(c, 0, b) = Said(c, 0, a)  BY <1>1, <1>2 DEF Said
<1> QED  BY <1>3 DEF Latest

\* Replaying the events after a onto what was last at a gives what was last at b.
LEMMA LatestJoin ==
  ASSUME NEW c, NEW a \in Nat, NEW b \in Nat, a <= b
  PROVE  Latest(c, a, b, Latest(c, 0, a, {})) = Latest(c, 0, b, {})
<1>1. CASE Said(c, a, b) = {}
  <2>1. \A i \in (a + 1)..b : stream[i].consumer # c  BY <1>1 DEF Said
  <2>2. Latest(c, 0, b, {}) = Latest(c, 0, a, {})  BY <2>1, LatestSkip
  <2> QED  BY <1>1, <2>2 DEF Latest
<1>2. CASE Said(c, a, b) # {}
  <2> DEFINE m == Max(Said(c, a, b))
  <2>1. Said(c, a, b) \subseteq 1..b /\ Said(c, 0, b) \subseteq 1..b  BY DEF Said
  <2>2. m \in Said(c, a, b) /\ \A y \in Said(c, a, b) : y <= m  BY <1>2, <2>1, MaxOf
  <2> HIDE DEF m
  <2>3. m \in Said(c, 0, b)  BY <2>2 DEF Said
  <2>4. m \in (a + 1)..b  BY <2>2 DEF Said
  <2>5. ASSUME NEW y \in Said(c, 0, b)  PROVE y <= m
    <3>1. y \in 1..b /\ stream[y].consumer = c  BY DEF Said
    <3>2. CASE y \in (a + 1)..b  BY <2>2, <3>1, <3>2 DEF Said
    <3>3. CASE y \notin (a + 1)..b  BY <2>4, <3>1, <3>3
    <3> QED  BY <3>2, <3>3
  <2>6. Max(Said(c, 0, b)) = m  BY <2>1, <2>3, <2>5, MaxIs
  <2> QED  BY <1>2, <2>3, <2>6 DEF Latest, m
<1> QED  BY <1>1, <1>2

\* The owners with the head of the batch applied, but for consumers written off.
LEMMA AppliedLatest ==
  ASSUME TypeOK, BatchInv, GapInv, OwnersReplayed, at # "down", batch # <<>>
  PROVE  /\ Head(batch) \in Nat \ {0} /\ offset < Head(batch) /\ Head(batch) <= Len(stream)
         /\ Head(batch) = batch[1]
         /\ stream[Head(batch)] \in Event /\ Applied \in Owners
         /\ Applied[stream[Head(batch)].consumer] = Latest(stream[Head(batch)].consumer, 0, Head(batch), {})
         /\ \A c \in Consumers \ (skipped \cup missed) : Applied[c] = Latest(c, 0, Head(batch), {})
<1> DEFINE h == Head(batch)
           e == stream[h]
<1>1. h = batch[1] /\ 1 \in 1..Len(batch) /\ h \in Nat /\ offset \in Nat  BY DEF TypeOK
<1>2. offset < h /\ h <= Len(stream) /\ h \in Nat \ {0}  BY <1>1 DEF BatchInv
<1>3. e \in Event  BY <1>2 DEF TypeOK
<1>4. e.consumer \in Consumers /\ e.symbols \in SUBSET Symbols  BY <1>3 DEF Event
<1>5. Applied = [owners EXCEPT ![e.consumer] = e.symbols]  BY DEF Applied
<1> HIDE DEF h, e
<1>6. Applied \in Owners /\ Applied[e.consumer] = e.symbols
      /\ \A c \in Consumers : c # e.consumer => Applied[c] = owners[c]
  BY <1>4, <1>5 DEF TypeOK, Owners
<1>7. Applied[e.consumer] = Latest(e.consumer, 0, h, {})
  BY <1>2, <1>6, LatestAt DEF e
<1>8. ASSUME NEW c \in Consumers \ (skipped \cup missed), c # e.consumer
      PROVE  Applied[c] = Latest(c, 0, h, {})
  <2>1. owners[c] = Latest(c, 0, offset, {})  BY DEF OwnersReplayed
  <2>2. \A i \in (offset + 1)..h : stream[i].consumer # c
    <3> TAKE i \in (offset + 1)..h
    <3>1. CASE i = h  BY <1>8, <3>1 DEF e
    <3>2. CASE i # h
      <4>1. i \in (offset + 1)..(h - 1)  BY <1>1, <3>2
      <4> QED  BY <1>1, <4>1 DEF GapInv
    <3> QED  BY <3>1, <3>2
  <2>3. Latest(c, 0, h, {}) = Latest(c, 0, offset, {})  BY <1>1, <1>2, <2>2, LatestSkip
  <2> QED  BY <1>6, <1>8, <2>1, <2>3
<1> QED  BY <1>1, <1>2, <1>3, <1>6, <1>7, <1>8 DEF h, e

------------------------------------------------------------------------------
(* The provider.                                                            *)

\* What the owners ask for are symbols.
LEMMA AskedType ==
  ASSUME NEW o \in Owners
  PROVE  AskedQ(o) \in SUBSET Symbols /\ o[Warning] \in SUBSET Symbols /\ AskedT(o) = AskedQ(o) \cup o[Warning]
<1>1. \A c \in Consumers : o[c] \in SUBSET Symbols  BY DEF Owners
<1>2. Regular \subseteq Consumers /\ Warning \in Consumers  BY DEF Consumers
<1> QED  BY <1>1, <1>2 DEF AskedQ, AskedT

\* The differences that are subscribed lead from the old sets to the new ones.
LEMMA SyncedWire ==
  ASSUME NEW f \in Feed, NEW o \in Owners,
         f.on => f.wireQ = f.quotes /\ f.wireT = f.quotes \cup f.trades
  PROVE  /\ Synced(f, o) \in Feed /\ Synced(f, o).on = f.on
         /\ Synced(f, o).quotes = AskedQ(o) /\ Synced(f, o).trades = o[Warning]
         /\ f.on => /\ Synced(f, o).wireQ = AskedQ(o)
                    /\ Synced(f, o).wireT = AskedQ(o) \cup o[Warning]
<1> DEFINE new == AskedQ(o)
           regular == (f.wireT \ ((f.quotes \cup f.trades) \ (new \cup f.trades)))
                        \cup ((new \cup f.trades) \ (f.quotes \cup f.trades))
           all == (regular \ ((new \cup f.trades) \ AskedT(o))) \cup (AskedT(o) \ (new \cup f.trades))
           quoted == (f.wireQ \ (f.quotes \ new)) \cup (new \ f.quotes)
<1>1. Synced(f, o) = [f EXCEPT !.quotes = new, !.trades = o[Warning],
                               !.wireQ = IF f.on THEN quoted ELSE @, !.wireT = IF f.on THEN all ELSE @]
  BY DEF Synced
<1>2. new \in SUBSET Symbols /\ o[Warning] \in SUBSET Symbols /\ AskedT(o) = new \cup o[Warning]  BY AskedType
<1>3. /\ f.wireQ \in SUBSET Symbols /\ f.wireT \in SUBSET Symbols /\ f.on \in BOOLEAN
      /\ f.quotes \in SUBSET Symbols /\ f.trades \in SUBSET Symbols
  BY DEF Feed
<1> HIDE DEF new
<1>4. f.on => quoted = new
  <2> SUFFICES ASSUME f.on PROVE quoted = new  OBVIOUS
  <2> QED  OBVIOUS
<1>5. f.on => regular = new \cup f.trades
  <2> SUFFICES ASSUME f.on PROVE regular = new \cup f.trades  OBVIOUS
  <2> QED  OBVIOUS
<1>6. quoted \in SUBSET Symbols /\ regular \in SUBSET Symbols  BY <1>2, <1>3
<1> HIDE DEF regular, quoted
<1>7. f.on => all = new \cup o[Warning]
  <2> SUFFICES ASSUME f.on PROVE all = new \cup o[Warning]  OBVIOUS
  <2>1. all = ((new \cup f.trades) \ ((new \cup f.trades) \ (new \cup o[Warning])))
                \cup ((new \cup o[Warning]) \ (new \cup f.trades))
    BY <1>2, <1>5
  <2> QED  BY <2>1
<1>8. all \in SUBSET Symbols  BY <1>2, <1>6
<1> HIDE DEF all
<1>9. Synced(f, o) \in Feed  BY <1>1, <1>2, <1>3, <1>6, <1>8 DEF Feed
<1>10. /\ Synced(f, o).on = f.on /\ Synced(f, o).quotes = new /\ Synced(f, o).trades = o[Warning]
       /\ f.on => Synced(f, o).wireQ = quoted /\ Synced(f, o).wireT = all
  BY <1>1 DEF Feed
<1> QED  BY <1>4, <1>7, <1>9, <1>10 DEF new

------------------------------------------------------------------------------
(* The steps.                                                               *)

\* Steps that leave the gateway and the hash alone: an announcement at most.
LEMMA StreamGrows ==
  ASSUME GatewayInv, want' \in Owners,
         stream' = stream \/ \E e \in Event : stream' = Append(stream, e),
         UNCHANGED <<hash, owners, offset, batch, at, feed, skipped, missed>>
  PROVE  GatewayInv'
<1> USE DEF GatewayInv
<1>1. /\ stream' \in Seq(Event) /\ Len(stream) <= Len(stream')
      /\ \A i \in 1..Len(stream) : stream'[i] = stream[i]
      /\ stream \in Seq(Event)
  <2>1. stream \in Seq(Event)  BY DEF TypeOK
  <2>2. CASE stream' = stream  BY <2>1, <2>2
  <2>3. ASSUME NEW e \in Event, stream' = Append(stream, e)
        PROVE  /\ stream' \in Seq(Event) /\ Len(stream) <= Len(stream')
               /\ \A i \in 1..Len(stream) : stream'[i] = stream[i]
    BY <2>1, <2>3
  <2> QED  BY <2>1, <2>2, <2>3
<1>2. TypeOK'
  <2>1. Len(stream) \in Nat /\ Len(stream') \in Nat  BY <1>1
  <2> QED  BY <1>1, <2>1 DEF TypeOK
<1>3. FeedInv'  BY DEF FeedInv, AskedQ
<1>4. BatchInv'
  <2>1. \A k \in 1..Len(batch) : batch[k] \in Nat  BY DEF TypeOK
  <2>2. Len(stream) \in Nat /\ Len(stream') \in Nat  BY <1>1
  <2> QED  BY <1>1, <2>1, <2>2 DEF BatchInv
<1>5. at # "down" /\ batch # <<>> =>
        /\ Head(batch) \in Nat \ {0} /\ Head(batch) <= Len(stream) /\ Head(batch) = batch[1]
        /\ Applied' = Applied
  <2> SUFFICES ASSUME at # "down", batch # <<>>
               PROVE  /\ Head(batch) \in Nat \ {0} /\ Head(batch) <= Len(stream) /\ Head(batch) = batch[1]
                      /\ Applied' = Applied
    OBVIOUS
  <2>1. Head(batch) \in Nat \ {0} /\ Head(batch) <= Len(stream) /\ Head(batch) = batch[1]  BY AppliedLatest
  <2>2. Head(batch) \in 1..Len(stream)  BY <1>1, <2>1
  <2>3. stream'[Head(batch)] = stream[Head(batch)]  BY <1>1, <2>2
  <2> QED  BY <2>1, <2>3 DEF Applied
<1>6. GapInv'
  <2> SUFFICES ASSUME at # "down", batch # <<>>, NEW i \in (offset + 1)..(batch[1] - 1)
               PROVE  stream'[i].consumer \in skipped \cup missed
    BY DEF GapInv
  <2>1. i \in 1..Len(stream)  BY <1>1, <1>5 DEF TypeOK
  <2> QED  BY <1>1, <2>1 DEF GapInv
<1>7. SavedInv'  BY <1>5 DEF SavedInv, BatchInv
<1>8. OwnersReplayed'
  <2>1. \A c \in Consumers : /\ Latest(c, 0, offset, {})' = Latest(c, 0, offset, {})
                             /\ Latest(c, 0, hash.id, {})' = Latest(c, 0, hash.id, {})
    <3> TAKE c \in Consumers
    <3>1. offset \in Nat /\ offset <= Len(stream) /\ hash.id \in Nat /\ hash.id <= Len(stream)  BY DEF TypeOK
    <3>2. Latest(c, 0, offset, {})' = Latest(c, 0, offset, {})  BY <1>1, <3>1, LatestKept DEF Latest, Said
    <3>3. Latest(c, 0, hash.id, {})' = Latest(c, 0, hash.id, {})  BY <1>1, <3>1, LatestKept DEF Latest, Said
    <3> QED  BY <3>2, <3>3
  <2> QED  BY <2>1 DEF OwnersReplayed
<1> QED  BY <1>2, <1>3, <1>4, <1>6, <1>7, <1>8

\* The services.
LEMMA GatewayService ==
  ASSUME GatewayInv, NEW c \in Consumers, Service(c)
  PROVE  GatewayInv'
<1>1. UNCHANGED <<hash, owners, offset, batch, at, feed, skipped, missed>>
  BY DEF Service, Announce, AnnounceLost, Restart, Change, redis, gateway, history
<1>2. want' \in Owners
  BY DEF GatewayInv, TypeOK, Owners, Service, Announce, AnnounceLost, Restart, Change
<1>3. [consumer |-> c, symbols |-> want[c]] \in Event
  BY DEF GatewayInv, TypeOK, Owners, Event
<1>4. stream' = stream \/ stream' = Append(stream, [consumer |-> c, symbols |-> want[c]])
  BY DEF Service, Announce, AnnounceLost, Announced, Restart, Change, redis
<1> QED  BY <1>1, <1>2, <1>3, <1>4, StreamGrows

\* The socket comes and goes, and the hash may be lost.
LEMMA GatewayOutside ==
  ASSUME GatewayInv, Outside
  PROVE  GatewayInv'
<1> USE DEF GatewayInv
<1>1. UNCHANGED <<want, stream, owners, offset, batch, at, skipped, missed>>
  BY DEF Outside, Connect, Disconnect, Evict, redis, gateway, history
<1>2. \A c \in Consumers : \A n \in Nat : Latest(c, 0, n, {})' = Latest(c, 0, n, {})
  BY <1>1 DEF Latest, Said
<1>3. CASE Connect
  <2>1. /\ hash' = hash /\ at # "down"
        /\ feed' = [feed EXCEPT !.on = TRUE, !.wireQ = feed.quotes, !.wireT = feed.quotes \cup feed.trades]
    BY <1>3 DEF Connect, redis
  <2>2. feed \in Feed  BY DEF TypeOK
  <2>3. /\ feed' \in Feed /\ feed'.quotes = feed.quotes /\ feed'.trades = feed.trades
        /\ feed'.wireQ = feed.quotes /\ feed'.wireT = feed.quotes \cup feed.trades
    BY <2>1, <2>2 DEF Feed
  <2>4. TypeOK' /\ BatchInv' /\ GapInv'  BY <1>1, <2>1, <2>3 DEF TypeOK, BatchInv, GapInv
  <2>5. FeedInv'  BY <1>1, <2>1, <2>3 DEF FeedInv, AskedQ
  <2>6. SavedInv'  BY <1>1, <2>1 DEF SavedInv, Applied
  <2>7. OwnersReplayed'  BY <1>1, <1>2, <2>1 DEF OwnersReplayed, TypeOK
  <2> QED  BY <2>4, <2>5, <2>6, <2>7
<1>4. CASE Disconnect
  <2>1. hash' = hash /\ feed.on /\ feed' = [feed EXCEPT !.on = FALSE, !.wireQ = {}, !.wireT = {}]
    BY <1>4 DEF Disconnect, redis
  <2>2. feed \in Feed  BY DEF TypeOK
  <2>3. feed' \in Feed /\ feed'.quotes = feed.quotes /\ feed'.trades = feed.trades /\ ~feed'.on
    BY <2>1, <2>2 DEF Feed
  <2>4. TypeOK' /\ BatchInv' /\ GapInv'  BY <1>1, <2>1, <2>3 DEF TypeOK, BatchInv, GapInv
  <2>5. FeedInv'  BY <1>1, <2>3 DEF FeedInv, AskedQ
  <2>6. SavedInv'  BY <1>1, <2>1 DEF SavedInv, Applied
  <2>7. OwnersReplayed'  BY <1>1, <1>2, <2>1 DEF OwnersReplayed, TypeOK
  <2> QED  BY <2>4, <2>5, <2>6, <2>7
<1>5. CASE Evict
  <2>1. hash' = NoHash /\ feed' = feed  BY <1>5 DEF Evict
  <2>2. hash' \in [done : BOOLEAN, id : Nat, owners : Owners] /\ ~hash'.done /\ hash'.id = 0
    BY <2>1 DEF NoHash, Nobody, Owners
  <2>3. TypeOK' /\ BatchInv' /\ GapInv'  BY <1>1, <2>1, <2>2 DEF TypeOK, BatchInv, GapInv
  <2>4. FeedInv'  BY <1>1, <2>1 DEF FeedInv, AskedQ
  <2>5. SavedInv'  BY <1>1, <2>2 DEF SavedInv
  <2>6. OwnersReplayed'  BY <1>1, <1>2, <2>2 DEF OwnersReplayed, TypeOK
  <2> QED  BY <2>3, <2>4, <2>5, <2>6
<1> QED  BY <1>3, <1>4, <1>5 DEF Outside

\* A restart restores the checkpoint and replays what the stream still has.
LEMMA GatewayBoot ==
  ASSUME GatewayInv, Boot
  PROVE  GatewayInv'
<1> USE DEF GatewayInv
<1> DEFINE from == IF hash.done THEN hash ELSE NoHash
           n == Len(stream)
           top == IF from.id > Trimmed THEN from.id ELSE Trimmed
<1>1. /\ stream' = stream /\ want' = want /\ batch' = <<>> /\ at' = "idle" /\ skipped' = {}
      /\ owners' = Replayed(from.owners, from.id) /\ missed' = missed \cup Dropped(from.id)
      /\ hash' = IF n > from.id \/ ~hash.done
                 THEN [done |-> TRUE, id |-> IF n > from.id THEN n ELSE from.id, owners |-> owners']
                 ELSE hash
      /\ offset' = hash'.id /\ feed' = Synced(NoFeed, owners')
  BY DEF Boot
<1>2. /\ from.id \in Nat /\ from.id <= n /\ n \in Nat /\ n = Len(stream) /\ from.owners \in Owners
      /\ hash.done => from = hash
      /\ ~hash.done => from.id = 0 /\ \A c \in Consumers : from.owners[c] = {}
      /\ stream \in Seq(Event)
  BY DEF TypeOK, NoHash, Nobody, Owners
<1> HIDE DEF from, n
<1>3. /\ Trimmed \in Nat /\ Trimmed <= n /\ top \in Nat /\ from.id <= top /\ Trimmed <= top /\ top <= n
      /\ top > from.id => top = Trimmed
  <2>1. Trimmed \in Nat /\ Trimmed <= n  BY <1>2, GatewayConstants DEF Trimmed
  <2> QED  BY <1>2, <2>1
<1>4. owners' = [c \in Consumers |-> Latest(c, top, n, from.owners[c])]  BY <1>1, <1>2 DEF Replayed
<1> HIDE DEF top
<1>5. owners' \in Owners
  <2>1. \A c \in Consumers : from.owners[c] \in SUBSET Symbols  BY <1>2 DEF Owners
  <2>2. \A c \in Consumers : Latest(c, top, n, from.owners[c]) \in SUBSET Symbols
    BY <1>2, <1>3, <2>1, LatestType
  <2> QED  BY <1>4, <2>2 DEF Owners
<1>6. ASSUME NEW c \in Consumers \ missed'  PROVE owners'[c] = Latest(c, 0, n, {})
  <2>1. from.owners[c] = Latest(c, 0, from.id, {})
    <3>1. CASE hash.done  BY <1>1, <1>2, <3>1 DEF OwnersReplayed
    <3>2. CASE ~hash.done
      <4>1. from.owners[c] = {} /\ from.id = 0  BY <1>2, <3>2
      <4>2. Said(c, 0, 0) = {}  BY DEF Said
      <4> QED  BY <4>1, <4>2 DEF Latest
    <3> QED  BY <3>1, <3>2
  <2>2. \A i \in (from.id + 1)..top : stream[i].consumer # c
    <3> TAKE i \in (from.id + 1)..top
    <3>1. i \in (from.id + 1)..Trimmed  BY <1>2, <1>3
    <3>2. stream[i].consumer \in Dropped(from.id)  BY <3>1 DEF Dropped
    <3> QED  BY <1>1, <3>2
  <2>3. Latest(c, 0, top, {}) = Latest(c, 0, from.id, {})  BY <1>2, <1>3, <2>2, LatestSkip
  <2>4. Latest(c, top, n, Latest(c, 0, top, {})) = Latest(c, 0, n, {})  BY <1>2, <1>3, LatestJoin
  <2>5. owners'[c] = Latest(c, top, n, from.owners[c])  BY <1>4
  <2> QED  BY <2>1, <2>3, <2>4, <2>5
<1>7. /\ hash' \in [done : BOOLEAN, id : Nat, owners : Owners] /\ hash'.id = n /\ offset' = n
      /\ hash'.owners = owners' \/ (hash' = hash /\ hash.done)
  <2>1. CASE n > from.id \/ ~hash.done  BY <1>1, <1>2, <1>5, <2>1
  <2>2. CASE ~(n > from.id \/ ~hash.done)  BY <1>1, <1>2, <2>2 DEF TypeOK
  <2> QED  BY <2>1, <2>2
<1>8. /\ feed' \in Feed /\ ~feed'.on /\ feed'.quotes = AskedQ(owners') /\ feed'.trades = owners'[Warning]
  <2>1. NoFeed \in Feed /\ ~NoFeed.on  BY DEF NoFeed, Feed
  <2> QED  BY <1>1, <1>5, <2>1, SyncedWire
<1>9. TypeOK'  BY <1>1, <1>2, <1>5, <1>7, <1>8 DEF TypeOK
<1>10. FeedInv'  BY <1>1, <1>8 DEF FeedInv, AskedQ
<1>11. BatchInv' /\ GapInv' /\ SavedInv'  BY <1>1 DEF BatchInv, GapInv, SavedInv
<1>12. OwnersReplayed'
  <2>1. \A c \in Consumers : \A m \in Nat : Latest(c, 0, m, {})' = Latest(c, 0, m, {})
    BY <1>1 DEF Latest, Said
  <2>2. ASSUME NEW c \in Consumers \ missed'
        PROVE  owners'[c] = Latest(c, 0, n, {}) /\ hash'.owners[c] = Latest(c, 0, n, {})
    <3>1. owners'[c] = Latest(c, 0, n, {})  BY <1>6
    <3>2. CASE hash'.owners = owners'  BY <3>1, <3>2
    <3>3. CASE hash' = hash /\ hash.done
      <4>1. c \in Consumers \ missed  BY <1>1
      <4>2. hash.owners[c] = Latest(c, 0, hash.id, {})  BY <3>3, <4>1 DEF OwnersReplayed
      <4> QED  BY <1>7, <3>1, <3>3, <4>2
    <3> QED  BY <1>7, <3>1, <3>2, <3>3
  <2> QED  BY <1>2, <1>7, <2>1, <2>2 DEF OwnersReplayed
<1> QED  BY <1>9, <1>10, <1>11, <1>12

\* The process dies.
LEMMA GatewayCrash ==
  ASSUME GatewayInv, Crash
  PROVE  GatewayInv'
<1> USE DEF GatewayInv
<1>1. /\ at' = "down" /\ owners' = Nobody /\ offset' = 0 /\ batch' = <<>> /\ feed' = NoFeed /\ skipped' = {}
      /\ want' = want /\ stream' = stream /\ hash' = hash /\ missed' = missed
  BY DEF Crash, redis
<1>2. owners' \in Owners /\ feed' \in Feed /\ ~feed'.on
  BY <1>1 DEF Nobody, Owners, NoFeed, Feed
<1>3. TypeOK'  BY <1>1, <1>2 DEF TypeOK
<1>4. FeedInv' /\ BatchInv' /\ GapInv' /\ SavedInv'  BY <1>1, <1>2 DEF FeedInv, BatchInv, GapInv, SavedInv
<1>5. \A c \in Consumers : \A m \in Nat : Latest(c, 0, m, {})' = Latest(c, 0, m, {})
  BY <1>1 DEF Latest, Said
<1>6. OwnersReplayed'  BY <1>1, <1>5 DEF OwnersReplayed, TypeOK
<1> QED  BY <1>3, <1>4, <1>6

\* The next batch: what the stream dropped before it was read is written off.
LEMMA GatewayRead ==
  ASSUME GatewayInv, Read
  PROVE  GatewayInv'
<1> USE DEF GatewayInv
<1> DEFINE from == IF offset > Trimmed THEN offset ELSE Trimmed
           to == IF from + BatchSize < Len(stream) THEN from + BatchSize ELSE Len(stream)
<1>1. /\ at = "idle" /\ offset < Len(stream) /\ batch' = [i \in 1..(to - from) |-> from + i]
      /\ missed' = missed \cup Dropped(offset) /\ skipped' = {}
      /\ UNCHANGED <<want, stream, hash, owners, offset, at, feed>>
  BY DEF Read, redis
<1>2. offset \in Nat /\ Len(stream) \in Nat  BY DEF TypeOK
<1>3. /\ Trimmed \in Nat /\ Trimmed < Len(stream) /\ from \in Nat /\ offset <= from /\ from < Len(stream)
      /\ from > offset => from = Trimmed
  BY <1>1, <1>2, GatewayConstants DEF Trimmed
<1>4. to \in Nat /\ from < to /\ to <= Len(stream)  BY <1>2, <1>3, GatewayConstants
<1> HIDE DEF from, to
<1>5. to - from \in Nat \ {0} /\ \A i \in 1..(to - from) : from + i \in Nat  BY <1>3, <1>4
<1>6. batch' \in Seq(Nat) /\ Len(batch') = to - from /\ \A k \in 1..(to - from) : batch'[k] = from + k
  BY <1>1, <1>5
<1>7. TypeOK'  BY <1>1, <1>6 DEF TypeOK
<1>8. FeedInv'  BY <1>1 DEF FeedInv, AskedQ
<1>9. BatchInv'
  <2>1. 1 \in 1..(to - from) /\ batch'[1] = from + 1  BY <1>5, <1>6
  <2>2. ASSUME NEW k \in 1..(to - from)
        PROVE  batch'[k] = batch'[1] + k - 1 /\ offset < batch'[k] /\ batch'[k] <= Len(stream)
    BY <1>2, <1>3, <1>4, <1>6, <2>1
  <2> QED  BY <1>1, <1>6, <2>2 DEF BatchInv
<1>10. GapInv'
  <2>1. batch'[1] = from + 1  BY <1>5, <1>6
  <2>2. ASSUME NEW i \in (offset + 1)..from  PROVE stream[i].consumer \in missed'
    <3>1. i \in (offset + 1)..Trimmed  BY <1>2, <1>3
    <3> QED  BY <1>1, <3>1 DEF Dropped
  <2>3. batch'[1] - 1 = from  BY <1>3, <2>1
  <2> QED  BY <1>1, <2>2, <2>3 DEF GapInv
<1>11. SavedInv'  BY <1>1 DEF SavedInv
<1>12. \A c \in Consumers : \A m \in Nat : Latest(c, 0, m, {})' = Latest(c, 0, m, {})
  BY <1>1 DEF Latest, Said
<1>13. OwnersReplayed'  BY <1>1, <1>12 DEF OwnersReplayed, TypeOK
<1> QED  BY <1>7, <1>8, <1>9, <1>10, <1>11, <1>13

\* The hash with the head applied, when those skipped before it are written off.
LEMMA WrittenReplayed ==
  ASSUME GatewayInv, at = "idle", batch # <<>>, Written,
         NEW c \in Consumers \ (missed \cup skipped)
  PROVE  hash'.owners[c] = Latest(c, 0, hash'.id, {})
<1>1. hash'.owners = Applied /\ hash'.id = Head(batch)  BY DEF Written
<1> QED  BY <1>1, AppliedLatest DEF GatewayInv

\* The hash that is written has its type.
LEMMA WrittenType ==
  ASSUME GatewayInv, at = "idle", batch # <<>>, Written
  PROVE  /\ hash' \in [done : BOOLEAN, id : Nat, owners : Owners] /\ hash'.id <= Len(stream)
         /\ hash'.id = Head(batch) /\ hash'.owners = Applied
BY AppliedLatest DEF Written, GatewayInv

\* The write of the hash.
LEMMA GatewaySave ==
  ASSUME GatewayInv, Save
  PROVE  GatewayInv'
<1> USE DEF GatewayInv
<1>1. /\ at = "idle" /\ batch # <<>> /\ Written /\ at' = "saved" /\ missed' = missed \cup skipped
      /\ UNCHANGED <<want, stream, owners, offset, batch, feed, skipped>>
  BY DEF Save
<1>2. TypeOK'  BY <1>1, WrittenType DEF TypeOK
<1>3. FeedInv'  BY <1>1 DEF FeedInv, AskedQ
<1>4. BatchInv' /\ GapInv'  BY <1>1 DEF BatchInv, GapInv
<1>5. SavedInv'  BY <1>1, WrittenType DEF SavedInv, Applied
<1>6. \A c \in Consumers : \A m \in Nat : Latest(c, 0, m, {})' = Latest(c, 0, m, {})
  BY <1>1 DEF Latest, Said
<1>7. OwnersReplayed'
  <2>1. ASSUME NEW c \in Consumers \ missed'
        PROVE  owners[c] = Latest(c, 0, offset, {}) /\ hash'.owners[c] = Latest(c, 0, hash'.id, {})
    BY <1>1, WrittenReplayed DEF OwnersReplayed
  <2>2. hash'.id \in Nat /\ offset \in Nat  BY <1>2 DEF TypeOK
  <2> QED  BY <1>1, <1>6, <2>1, <2>2 DEF OwnersReplayed
<1> QED  BY <1>2, <1>3, <1>4, <1>5, <1>7

\* The rest of a batch is a batch that starts one later.
LEMMA TailBatch ==
  ASSUME TypeOK, BatchInv, batch # <<>>
  PROVE  /\ Tail(batch) \in Seq(Nat) /\ Len(Tail(batch)) = Len(batch) - 1 /\ Len(batch) \in Nat \ {0}
         /\ Head(batch) = batch[1] /\ Head(batch) \in Nat /\ offset < Head(batch) /\ Head(batch) <= Len(stream)
         /\ \A k \in 1..Len(Tail(batch)) : /\ Tail(batch)[k] = Head(batch) + k
                                           /\ Tail(batch)[k] <= Len(stream)
<1>1. batch \in Seq(Nat) /\ Len(batch) \in Nat \ {0}  BY DEF TypeOK
<1>2. /\ Tail(batch) \in Seq(Nat) /\ Len(Tail(batch)) = Len(batch) - 1 /\ Head(batch) = batch[1]
      /\ \A k \in 1..(Len(batch) - 1) : Tail(batch)[k] = batch[k + 1]
      /\ Head(batch) \in Nat
  BY <1>1
<1>3. 1 \in 1..Len(batch)  BY <1>1
<1>4. offset < Head(batch) /\ Head(batch) <= Len(stream)  BY <1>2, <1>3 DEF BatchInv
<1>5. ASSUME NEW k \in 1..(Len(batch) - 1)
      PROVE  Tail(batch)[k] = Head(batch) + k /\ Tail(batch)[k] <= Len(stream)
  <2>1. k + 1 \in 1..Len(batch)  BY <1>1
  <2>2. batch[k + 1] = batch[1] + (k + 1) - 1 /\ batch[k + 1] <= Len(stream)  BY <2>1 DEF BatchInv
  <2> QED  BY <1>2, <2>2
<1> QED  BY <1>1, <1>2, <1>4, <1>5

\* An application that raised: its event is skipped, and its consumer noted.
LEMMA Skips ==
  ASSUME GatewayInv, at # "down", batch # <<>>, Skip, missed \subseteq missed',
         hash' \in [done : BOOLEAN, id : Nat, owners : Owners], hash'.id <= Len(stream),
         \A c \in Consumers \ missed' : hash'.done => hash'.owners[c] = Latest(c, 0, hash'.id, {})
  PROVE  GatewayInv'
<1> USE DEF GatewayInv
<1>1. /\ batch' = Tail(batch) /\ at' = "idle" /\ skipped' = skipped \cup {stream[Head(batch)].consumer}
      /\ UNCHANGED <<want, stream, owners, offset, feed>>
  BY DEF Skip
<1>2. /\ batch' \in Seq(Nat) /\ Len(batch') \in Nat /\ Head(batch) = batch[1] /\ Head(batch) \in Nat
      /\ offset < Head(batch) /\ offset \in Nat
      /\ \A k \in 1..Len(batch') : batch'[k] = Head(batch) + k /\ batch'[k] <= Len(stream)
  BY <1>1, TailBatch DEF TypeOK
<1>3. TypeOK'  BY <1>1, <1>2 DEF TypeOK
<1>4. FeedInv'  BY <1>1 DEF FeedInv, AskedQ
<1>5. BatchInv'
  <2>1. ASSUME NEW k \in 1..Len(batch')
        PROVE  batch'[k] = batch'[1] + k - 1 /\ offset < batch'[k] /\ batch'[k] <= Len(stream)
    <3>1. 1 \in 1..Len(batch')  BY <1>2
    <3>2. batch'[1] = Head(batch) + 1  BY <1>2, <3>1
    <3>3. batch'[k] = Head(batch) + k /\ batch'[k] <= Len(stream) /\ k \in Nat /\ k > 0  BY <1>2
    <3>4. offset \in Nat /\ Head(batch) \in Nat /\ offset < Head(batch)  BY <1>2
    <3>5. Head(batch) + k = (Head(batch) + 1) + k - 1 /\ offset < Head(batch) + k  BY <3>3, <3>4
    <3> QED  BY <3>2, <3>3, <3>5
  <2> QED  BY <1>1, <2>1 DEF BatchInv
<1>6. GapInv'
  <2> SUFFICES ASSUME batch' # <<>>, NEW i \in (offset + 1)..(batch'[1] - 1)
               PROVE  stream[i].consumer \in skipped' \cup missed'
    BY <1>1 DEF GapInv
  <2>1. 1 \in 1..Len(batch')  BY <1>2
  <2>2. batch'[1] = Head(batch) + 1  BY <1>2, <2>1
  <2>3. CASE i = Head(batch)  BY <1>1, <2>3
  <2>4. CASE i # Head(batch)
    <3>1. i \in (offset + 1)..(batch[1] - 1)  BY <1>2, <2>2, <2>4
    <3> QED  BY <1>1, <3>1 DEF GapInv
  <2> QED  BY <2>3, <2>4
<1>7. SavedInv'  BY <1>1 DEF SavedInv
<1>8. \A c \in Consumers : \A m \in Nat : Latest(c, 0, m, {})' = Latest(c, 0, m, {})
  BY <1>1 DEF Latest, Said
<1>9. OwnersReplayed'
  <2>1. \A c \in Consumers \ missed' : owners[c] = Latest(c, 0, offset, {})  BY DEF OwnersReplayed
  <2> QED  BY <1>1, <1>2, <1>8, <2>1 DEF OwnersReplayed
<1> QED  BY <1>3, <1>4, <1>5, <1>6, <1>7, <1>9

\* hset() raised.
LEMMA GatewaySaveLost ==
  ASSUME GatewayInv, SaveLost
  PROVE  GatewayInv'
<1>1. at = "idle" /\ batch # <<>> /\ Skip  BY DEF SaveLost
<1>2. CASE Written /\ missed' = missed \cup skipped
  <2>1. \A c \in Consumers \ missed' : hash'.owners[c] = Latest(c, 0, hash'.id, {})
    BY <1>1, <1>2, WrittenReplayed
  <2> QED  BY <1>1, <1>2, <2>1, WrittenType, Skips
<1>3. CASE UNCHANGED <<hash, missed>>
  <2>1. \A c \in Consumers \ missed' : hash'.done => hash'.owners[c] = Latest(c, 0, hash'.id, {})
    BY <1>3 DEF GatewayInv, OwnersReplayed
  <2>2. hash' \in [done : BOOLEAN, id : Nat, owners : Owners] /\ hash'.id <= Len(stream)
    BY <1>3 DEF GatewayInv, TypeOK
  <2> QED  BY <1>1, <1>3, <2>1, <2>2, Skips
<1> QED  BY <1>2, <1>3 DEF SaveLost

\* The provider raised.
LEMMA GatewaySyncLost ==
  ASSUME GatewayInv, SyncLost
  PROVE  GatewayInv'
<1>1. at = "saved" /\ batch # <<>> /\ Skip /\ hash' = hash /\ missed' = missed
  BY DEF SyncLost, GatewayInv, BatchInv
<1>2. \A c \in Consumers \ missed' : hash'.done => hash'.owners[c] = Latest(c, 0, hash'.id, {})
  BY <1>1 DEF GatewayInv, OwnersReplayed
<1>3. hash' \in [done : BOOLEAN, id : Nat, owners : Owners] /\ hash'.id <= Len(stream)
  BY <1>1 DEF GatewayInv, TypeOK
<1> QED  BY <1>1, <1>2, <1>3, Skips

\* The rest of the application: the consumer of the event is up to date again.
LEMMA GatewaySync ==
  ASSUME GatewayInv, Sync
  PROVE  GatewayInv'
<1> USE DEF GatewayInv
<1> DEFINE h == Head(batch)
           d == stream[h].consumer
<1>1. /\ at = "saved" /\ batch # <<>> /\ owners' = Applied /\ feed' = Synced(feed, Applied)
      /\ offset' = h /\ batch' = Tail(batch) /\ at' = "idle"
      /\ skipped' = skipped \ {d} /\ missed' = missed \ {d}
      /\ UNCHANGED <<want, stream, hash>>
  BY DEF Sync, redis, BatchInv
<1>2. /\ h \in Nat \ {0} /\ h <= Len(stream) /\ Applied \in Owners
      /\ Applied[d] = Latest(d, 0, h, {})
      /\ \A c \in Consumers \ (skipped \cup missed) : Applied[c] = Latest(c, 0, h, {})
  BY <1>1, AppliedLatest
<1>3. /\ batch' \in Seq(Nat) /\ Len(batch') \in Nat
      /\ \A k \in 1..Len(batch') : batch'[k] = h + k /\ batch'[k] <= Len(stream)
  BY <1>1, TailBatch
<1> HIDE DEF h, d
<1>4. skipped \subseteq missed /\ (hash.done => hash.id = h /\ hash.owners = Applied)
  BY <1>1 DEF SavedInv, h
<1>5. /\ feed' \in Feed /\ feed'.on = feed.on /\ feed'.quotes = AskedQ(Applied)
      /\ feed'.trades = Applied[Warning]
      /\ feed.on => feed'.wireQ = AskedQ(Applied) /\ feed'.wireT = AskedQ(Applied) \cup Applied[Warning]
  <2>1. feed \in Feed /\ (feed.on => feed.wireQ = feed.quotes /\ feed.wireT = feed.quotes \cup feed.trades)
    BY DEF TypeOK, FeedInv
  <2> QED  BY <1>1, <1>2, <2>1, SyncedWire
<1>6. TypeOK'  BY <1>1, <1>2, <1>3, <1>5 DEF TypeOK
<1>7. FeedInv'
  <2>1. AskedQ(owners)' = AskedQ(Applied)  BY <1>1 DEF AskedQ
  <2> QED  BY <1>1, <1>5, <2>1 DEF FeedInv
<1>8. \A k \in 1..Len(batch') : batch'[1] = h + 1 /\ batch'[k] = h + k /\ batch'[k] <= Len(stream)
  BY <1>3
<1>9. BatchInv'  BY <1>1, <1>2, <1>3, <1>8 DEF BatchInv
<1>10. GapInv'
  <2> SUFFICES ASSUME batch' # <<>>, NEW i \in (h + 1)..(batch'[1] - 1)  PROVE FALSE
    BY <1>1 DEF GapInv
  <2>1. 1 \in 1..Len(batch')  BY <1>3
  <2>2. batch'[1] = h + 1  BY <1>8, <2>1
  <2> QED  BY <1>2, <2>2
<1>11. SavedInv'  BY <1>1 DEF SavedInv
<1>12. \A c \in Consumers : \A m \in Nat : Latest(c, 0, m, {})' = Latest(c, 0, m, {})
  BY <1>1 DEF Latest, Said
<1>13. OwnersReplayed'
  <2>1. \A c \in Consumers \ missed' : Applied[c] = Latest(c, 0, h, {})  BY <1>1, <1>2, <1>4
  <2> QED  BY <1>1, <1>2, <1>4, <1>12, <2>1 DEF OwnersReplayed
<1> QED  BY <1>6, <1>7, <1>9, <1>10, <1>11, <1>13

------------------------------------------------------------------------------
(* The theorems.                                                            *)

\* The gateway is down and nothing was announced.
LEMMA GatewayInit == Init => GatewayInv
<1> SUFFICES ASSUME Init PROVE GatewayInv  OBVIOUS
<1>1. Nobody \in Owners  BY DEF Nobody, Owners
<1>2. hash \in [done : BOOLEAN, id : Nat, owners : Owners] /\ hash.id = 0 /\ ~hash.done
  BY <1>1 DEF Init, NoHash
<1>3. feed \in Feed /\ ~feed.on  BY DEF Init, NoFeed, Feed
<1>4. TypeOK  BY <1>1, <1>2, <1>3 DEF Init, TypeOK
<1>5. FeedInv /\ BatchInv /\ GapInv /\ SavedInv  BY <1>3 DEF Init, FeedInv, BatchInv, GapInv, SavedInv
<1>6. OwnersReplayed  BY <1>2 DEF Init, OwnersReplayed
<1> QED  BY <1>4, <1>5, <1>6 DEF GatewayInv

\* The inductive invariant holds in every state of the gateway.
THEOREM GatewayInductive == Spec => []GatewayInv
<1>1. Init => GatewayInv  BY GatewayInit
<1>2. GatewayInv /\ [Next]_vars => GatewayInv'
  <2> SUFFICES ASSUME GatewayInv, [Next]_vars PROVE GatewayInv'  OBVIOUS
  <2>1. ASSUME NEW c \in Consumers, Service(c)  PROVE GatewayInv'  BY <2>1, GatewayService
  <2>2. CASE Gateway
    BY <2>2, GatewayBoot, GatewayCrash, GatewayRead, GatewaySave, GatewaySaveLost, GatewaySync,
       GatewaySyncLost DEF Gateway
  <2>3. CASE Outside  BY <2>3, GatewayOutside
  <2>4. CASE UNCHANGED vars
    <3>1. UNCHANGED <<want, stream, hash, owners, offset, batch, at, feed, skipped, missed>>
      BY <2>4 DEF vars, redis, gateway, history
    <3> QED  BY <3>1, StreamGrows DEF GatewayInv, TypeOK
  <2> QED  BY <2>1, <2>2, <2>3, <2>4 DEF Next
<1> QED  BY <1>1, <1>2, PTL DEF Spec

\* Memory and checkpoint are what the stream says up to their ids, for every consumer that
\* was not written off (_restore_subscription_state, apply_subscription_event), through any
\* number of crashes, failed writes, failed syncs and lost hashes.
THEOREM GatewayOwnersReplayed == Spec => []OwnersReplayed
<1>1. GatewayInv => OwnersReplayed  BY DEF GatewayInv
<1> QED  BY <1>1, GatewayInductive, PTL

\* A live socket carries exactly what the owners ask for (sync_subscriptions and
\* sync_warning_trade_symbols), however the sets of the consumers overlap.
THEOREM GatewayWireServesOwners == Spec => []WireServesOwners
<1>1. GatewayInv => WireServesOwners
  <2> SUFFICES ASSUME GatewayInv, at = "idle", feed.on
               PROVE  feed.wireQ = AskedQ(owners) /\ feed.wireT = AskedT(owners)
    BY DEF WireServesOwners
  <2>1. AskedT(owners) = AskedQ(owners) \cup owners[Warning]  BY DEF AskedT
  <2> QED  BY <2>1 DEF GatewayInv, FeedInv
<1> QED  BY <1>1, GatewayInductive, PTL
==============================================================================
