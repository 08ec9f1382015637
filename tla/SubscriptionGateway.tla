-------------------------- MODULE SubscriptionGateway --------------------------
(****************************************************************************)
(* How the symbols a service needs reach the market-data socket             *)
(* (market_data/gateway.py, massive_provider.py and the publishers of       *)
(* services/): every service announces its whole set on a Redis stream and  *)
(* announces again only when the set changes; the gateway keeps the owners  *)
(* of every symbol, checkpoints them in a hash with the id of the event it  *)
(* applied last, and subscribes the provider's socket to their union.       *)
(*                                                                          *)
(* A step of the gateway is the code between two awaits: the read of a      *)
(* batch, the write of the hash, the rest of the application.  The steps of *)
(* the provider hold no await.  An announcement is one step: nothing of its *)
(* service depends on when Redis answers, only on whether it does.          *)
(****************************************************************************)
EXTENDS Integers, Sequences, SequencesExt, FiniteSetsExt

CONSTANTS
  Regular,     \* consumers that own trades and quotes of their symbols
  Warning,     \* the consumer that owns trades only, momentum-warning
  Symbols,
  Unsure,      \* of a publisher: nothing announced, or the answer was lost
  BatchSize,   \* entries per read (50 in the code)
  Retained,    \* entries the stream keeps (about 250 in the code)
  MaxChanges,  \* bound: changes of what the services want
  MaxCrashes,  \* bound: restarts of services and gateway
  MaxFaults    \* bound: failed calls, lost answers, lost sockets and lost hashes

Consumers == Regular \cup {Warning}

ASSUME GatewayConstants ==
  /\ Warning \notin Regular
  /\ \A s \in SUBSET Symbols : s # Unsure
  /\ BatchSize \in Nat \ {0} /\ Retained \in Nat \ {0}
  /\ MaxChanges \in Nat /\ MaxCrashes \in Nat /\ MaxFaults \in Nat

VARIABLES
  want,     \* of every service: the symbols it needs
  told,     \* of every service: what it announced and Redis acknowledged, or Unsure
  stream,   \* Redis: every event ever added; only the last ones are retained
  hash,     \* Redis: the owners checkpointed, and the id they were applied to
  owners,   \* the gateway: _desired_symbols_by_consumer
  offset,   \* the gateway: id the next read starts after
  batch,    \* the gateway: ids of the read that are still to be applied
  at,       \* the gateway: down, between two events, or between hash and provider
  feed,     \* the provider: the symbols asked of it and its socket's subscriptions
  skipped,  \* history: consumers with an event of this batch that failed
  missed,   \* history: consumers with an event that nobody will apply any more
  budget    \* changes, crashes and faults so far

redis   == <<stream, hash>>
gateway == <<owners, offset, batch, at>>
history == <<skipped, missed>>
vars    == <<want, told, redis, gateway, feed, history, budget>>

Owners == [Consumers -> SUBSET Symbols]
Nobody == [c \in Consumers |-> {}]
NoHash == [done |-> FALSE, id |-> 0, owners |-> Nobody]
NoFeed == [quotes |-> {}, trades |-> {}, on |-> FALSE, wireQ |-> {}, wireT |-> {}]

Event == [consumer : Consumers, symbols : SUBSET Symbols]
Feed == [quotes : SUBSET Symbols, trades : SUBSET Symbols, on : BOOLEAN,
         wireQ : SUBSET Symbols, wireT : SUBSET Symbols]

TypeOK ==
  /\ want \in Owners
  /\ stream \in Seq(Event)
  /\ hash \in [done : BOOLEAN, id : Nat, owners : Owners] /\ hash.id <= Len(stream)
  /\ owners \in Owners
  /\ offset \in Nat /\ offset <= Len(stream)
  /\ batch \in Seq(Nat)
  /\ at \in {"down", "idle", "saved"}
  /\ feed \in Feed

Init ==
  /\ want \in Owners /\ told = [c \in Consumers |-> Unsure]
  /\ stream = <<>> /\ hash = NoHash
  /\ owners = Nobody /\ offset = 0 /\ batch = <<>> /\ at = "down"
  /\ feed = NoFeed
  /\ skipped = {} /\ missed = {}
  /\ budget = [changes |-> 0, crashes |-> 0, faults |-> 0]

Crashed == budget.crashes < MaxCrashes /\ budget' = [budget EXCEPT !.crashes = @ + 1]
Faulted == budget.faults < MaxFaults /\ budget' = [budget EXCEPT !.faults = @ + 1]

------------------------------------------------------------------------------
(* The services.                                                            *)

\* A watchlist or a holding changes.
Change(c, s) ==
  /\ budget.changes < MaxChanges /\ budget' = [budget EXCEPT !.changes = @ + 1]
  /\ s # want[c] /\ want' = [want EXCEPT ![c] = s]
  /\ UNCHANGED <<told, redis, gateway, feed, history>>

Announced(c) == stream' = Append(stream, [consumer |-> c, symbols |-> want[c]])

\* A first, changed or uncertain set is announced whole ...
Announce(c) ==
  /\ told[c] # want[c]
  /\ Announced(c)
  /\ told' = [told EXCEPT ![c] = want[c]]
  /\ UNCHANGED <<want, hash, gateway, feed, history, budget>>

\* Mutation: the debounce advances before Redis has answered.
AnnounceLostTold(c) ==
  /\ told[c] # want[c]
  /\ Faulted
  /\ Announced(c) \/ UNCHANGED stream
  /\ told' = [told EXCEPT ![c] = want[c]]
  /\ UNCHANGED <<want, hash, gateway, feed, history>>

\* ... and when xadd() raises, Redis may have taken it or not.
AnnounceLost(c) ==
  /\ told[c] # want[c]
  /\ Faulted
  /\ Announced(c) \/ UNCHANGED stream
  /\ told' = [told EXCEPT ![c] = Unsure]
  /\ UNCHANGED <<want, hash, gateway, feed, history>>

\* A restarted service has announced nothing.
Restart(c) ==
  /\ told[c] # Unsure /\ Crashed
  /\ told' = [told EXCEPT ![c] = Unsure]
  /\ UNCHANGED <<want, redis, gateway, feed, history>>

------------------------------------------------------------------------------
(* The provider.                                                            *)

AskedQ(o) == UNION {o[c] : c \in Regular}
AskedT(o) == AskedQ(o) \cup o[Warning]

\* Mutation: a symbol no regular consumer owns any more loses its trades, too.
SyncedBlind(f, o) ==
  LET new == AskedQ(o)
      gone == f.quotes \ new
  IN [f EXCEPT !.quotes = new, !.trades = o[Warning],
               !.wireQ = IF f.on THEN new ELSE @,
               !.wireT = IF f.on THEN (@ \ gone) \cup new \cup (o[Warning] \ f.trades) ELSE @]

\* sync_subscriptions() and sync_warning_trade_symbols(): on a live socket the difference
\* is subscribed, first for the regular symbols with the old trades-only set, then
\* for the trades-only set; without one the sets are only remembered.
Synced(f, o) ==
  LET new == AskedQ(o)
      regular == (f.wireT \ ((f.quotes \cup f.trades) \ (new \cup f.trades)))
                   \cup ((new \cup f.trades) \ (f.quotes \cup f.trades))
      all == (regular \ ((new \cup f.trades) \ AskedT(o))) \cup (AskedT(o) \ (new \cup f.trades))
      quoted == (f.wireQ \ (f.quotes \ new)) \cup (new \ f.quotes)
  IN [f EXCEPT !.quotes = new, !.trades = o[Warning],
               !.wireQ = IF f.on THEN quoted ELSE @, !.wireT = IF f.on THEN all ELSE @]

\* _run_loop(): a new client starts with everything that is asked for.
Connect ==
  /\ at # "down" /\ ~feed.on
  /\ feed' = [feed EXCEPT !.on = TRUE, !.wireQ = feed.quotes, !.wireT = feed.quotes \cup feed.trades]
  /\ UNCHANGED <<want, told, redis, gateway, history, budget>>

Disconnect ==
  /\ feed.on /\ Faulted
  /\ feed' = [feed EXCEPT !.on = FALSE, !.wireQ = {}, !.wireT = {}]
  /\ UNCHANGED <<want, told, redis, gateway, history>>

------------------------------------------------------------------------------
(* The gateway.                                                             *)

\* The first entry the stream still has, less one.
Trimmed == IF Len(stream) > Retained THEN Len(stream) - Retained ELSE 0

\* Consumers with an event after id that the stream has dropped.
Dropped(id) == {stream[i].consumer : i \in (id + 1)..Trimmed}

\* The events of a consumer between two ids, and the set it announced last.
Said(c, from, to) == {i \in (from + 1)..to : stream[i].consumer = c}
Latest(c, from, to, before) ==
  IF Said(c, from, to) = {} THEN before ELSE stream[Max(Said(c, from, to))].symbols

\* Replays the retained events after id onto the owners.
Replayed(o, id) ==
  [c \in Consumers |-> Latest(c, IF id > Trimmed THEN id ELSE Trimmed, Len(stream), o[c])]

\* Mutation: a restart trusts the hash and reads what is new from now on.
BootAtEnd ==
  /\ at = "down"
  /\ owners' = hash.owners /\ hash' = [hash EXCEPT !.done = TRUE, !.id = Len(stream)]
  /\ offset' = Len(stream) /\ batch' = <<>> /\ at' = "idle"
  /\ feed' = Synced(NoFeed, owners')
  /\ skipped' = {} /\ missed' = missed \cup Dropped(hash.id)
  /\ UNCHANGED <<want, told, stream, budget>>

\* _restore_subscription_state(), then start() and the first sync of the provider.  A
\* hash without its mark is ignored, and all retained events are replayed.
Boot ==
  /\ at = "down"
  /\ LET from == IF hash.done THEN hash ELSE NoHash
     IN /\ owners' = Replayed(from.owners, from.id)
        /\ missed' = missed \cup Dropped(from.id)
        /\ hash' = IF Len(stream) > from.id \/ ~hash.done
                   THEN [done |-> TRUE, id |-> IF Len(stream) > from.id THEN Len(stream) ELSE from.id,
                         owners |-> owners']
                   ELSE hash
        /\ offset' = hash'.id
  /\ batch' = <<>> /\ at' = "idle" /\ skipped' = {}
  /\ feed' = Synced(NoFeed, owners')
  /\ UNCHANGED <<want, told, stream, budget>>

Crash ==
  /\ at # "down" /\ Crashed
  /\ at' = "down" /\ owners' = Nobody /\ offset' = 0 /\ batch' = <<>> /\ feed' = NoFeed
  /\ skipped' = {}
  /\ UNCHANGED <<want, told, redis, missed>>

\* _subscription_loop(): the next batch.
Read ==
  /\ at = "idle" /\ batch = <<>> /\ offset < Len(stream)
  /\ LET from == IF offset > Trimmed THEN offset ELSE Trimmed
         to   == IF from + BatchSize < Len(stream) THEN from + BatchSize ELSE Len(stream)
     IN batch' = [i \in 1..(to - from) |-> from + i]
  /\ missed' = missed \cup Dropped(offset) /\ skipped' = {}
  /\ UNCHANGED <<want, told, redis, owners, offset, at, feed, budget>>

\* The owners with the event of the batch applied: every mode in use is a replacement.
Applied == LET e == stream[Head(batch)] IN [owners EXCEPT ![e.consumer] = e.symbols]
Written == hash' = [done |-> TRUE, id |-> Head(batch), owners |-> Applied]

\* apply_subscription_event(), up to the write of the hash.  What failed earlier in the
\* batch is behind the checkpoint from here on.
Save ==
  /\ at = "idle" /\ batch # <<>>
  /\ Written
  /\ at' = "saved"
  /\ missed' = missed \cup skipped
  /\ UNCHANGED <<want, told, stream, owners, offset, batch, feed, skipped, budget>>

\* The application raised: it is logged, and the loop goes on with the next entry.
Skip ==
  /\ batch' = Tail(batch) /\ at' = "idle"
  /\ skipped' = skipped \cup {stream[Head(batch)].consumer}
  /\ UNCHANGED <<want, told, stream, owners, offset, feed>>

\* hset() raised; Redis may have done it.
SaveLost ==
  /\ at = "idle" /\ batch # <<>>
  /\ Faulted
  /\ \/ Written /\ missed' = missed \cup skipped
     \/ UNCHANGED <<hash, missed>>
  /\ Skip

\* The rest of the application: provider, owners, and the offset of the loop.
Sync ==
  /\ at = "saved"
  /\ owners' = Applied
  /\ feed' = Synced(feed, Applied)
  /\ offset' = Head(batch) /\ batch' = Tail(batch) /\ at' = "idle"
  /\ skipped' = skipped \ {stream[Head(batch)].consumer}
  /\ missed' = missed \ {stream[Head(batch)].consumer}
  /\ UNCHANGED <<want, told, redis, budget>>

\* The provider raised before it changed anything.
SyncLost ==
  /\ at = "saved" /\ Faulted
  /\ feed.on /\ Synced(feed, Applied) # feed
  /\ Skip
  /\ UNCHANGED <<hash, missed>>

\* Redis keeps nothing on disk and may evict the hash.
Evict ==
  /\ hash.done /\ Faulted
  /\ hash' = NoHash
  /\ UNCHANGED <<want, told, stream, gateway, feed, history>>

------------------------------------------------------------------------------

Service(c) == Announce(c) \/ AnnounceLost(c) \/ Restart(c) \/ \E s \in SUBSET Symbols : Change(c, s)
Gateway == Boot \/ Crash \/ Read \/ Save \/ SaveLost \/ Sync \/ SyncLost
Outside == Connect \/ Disconnect \/ Evict

Next == (\E c \in Consumers : Service(c)) \/ Gateway \/ Outside

Spec == Init /\ [][Next]_vars

\* The services sync on every pass of their loops, the process is restarted, and the
\* gateway's and the provider's loops run on.  Faults are bounded, so outages end.
FairSpec ==
  /\ Spec
  /\ \A c \in Consumers : WF_vars(Announce(c))
  /\ WF_vars(Boot) /\ WF_vars(Read) /\ WF_vars(Save) /\ WF_vars(Sync) /\ WF_vars(Connect)

------------------------------------------------------------------------------
(* Properties.                                                              *)

\* Memory and checkpoint are what the stream says up to their ids, consumer by consumer,
\* through crashes, retries and a lost hash.  A consumer's set can be behind only if
\* an event of its own failed and a later one of the same batch was applied, or if
\* the stream was cut before the event was read.
OwnersReplayed ==
  \A c \in Consumers \ missed :
    /\ at # "down" => owners[c] = Latest(c, 0, offset, {})
    /\ hash.done => hash.owners[c] = Latest(c, 0, hash.id, {})

\* No update is lost by an application that failed: the loop comes back to it.
FailedIsRetried ==
  at # "down" => \A c \in Consumers : owners[c] = Latest(c, 0, offset, {})

\* A live socket is subscribed to the quotes of all regular symbols and to the trades of
\* all symbols, and to nothing else, however owners overlap and sockets come and go.
WireServesOwners ==
  at = "idle" /\ feed.on => feed.wireQ = AskedQ(owners) /\ feed.wireT = AskedT(owners)

\* What a service needs is on the wire in the end: after lost answers, restarts of either
\* side, retries and reconnects, unless its event was missed for good.
Covered ==
  <>[](\A c \in Consumers \ missed :
         want[c] \subseteq (IF c = Warning THEN feed.wireT ELSE feed.wireQ))
==============================================================================
