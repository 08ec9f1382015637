------------------------------ MODULE LiveHandoff ------------------------------
(****************************************************************************)
(* The hand-off of live momentum detections (momentum_live/handoff.py,      *)
(* class LiveHandoff) composed with the ledger of the OMS that receives     *)
(* them.  The producer keeps a ledger of its own and one emit worker, the   *)
(* OMS reads the Redis stream, admits into its ledger and publishes a       *)
(* snapshot every second, and the producer folds that snapshot into its own *)
(* ledger.  Both ledgers are values of EpisodeLedger.                       *)
(*                                                                          *)
(* The entry and owned lanes of the OMS are the subject of LiveAdmission;   *)
(* here an OMS episode is opened, merged, saved and ends.  A refusal that   *)
(* depends on prices, routes, ages, the cooldown or a switch may happen to  *)
(* any detection, in the producer and in the OMS.  A logical id contains    *)
(* the decision time, so no detection is offered twice.                     *)
(****************************************************************************)
EXTENDS EpisodeLedger, Sequences

CONSTANTS
  Detections,    \* the sealed detections of the session, in decision order
  QueueLimit,    \* bound of the producer's queue (64 in the code)
  MaxLost,       \* bound on publications that never reach the stream
  MaxCrashes     \* bound on restarts, of the producer and of the OMS together

ASSUME HandoffConstants ==
  /\ Detections \in Seq(Signal)
  /\ QueueLimit \in Nat /\ MaxLost \in Nat /\ MaxCrashes \in Nat
  /\ \A i, j \in DOMAIN Detections : i < j =>
       /\ Detections[i].source # Detections[j].source
       /\ Detections[i].hi <= Detections[j].hi

VARIABLES
  next,      \* the next detection of the paper engine
  prod,      \* ledger of the producer
  queue,     \* its queue of entries for the emit worker
  wire,      \* the stream, from the OMS's offset on
  book,      \* ledger of the OMS
  rows,      \* its durable rows
  state,     \* the newest published snapshot: the rows of the OMS ledger
  lost,      \* publications that never reached the stream
  dropped,   \* history: episodes opened by this producer that the OMS refused or skipped
  crashes

vars == <<next, prod, queue, wire, book, rows, state, lost, dropped, crashes>>

NoRows == [id \in Ids |-> Absent]
NotReady == [EmptyLedger EXCEPT !.ready = FALSE]

\* What travels: the detection, and whether the producer opened an episode for it.
Entry == [sig : Signal, opens : BOOLEAN]

TypeOK ==
  /\ next \in 1..(Len(Detections) + 1)
  /\ prod \in Ledger /\ book \in Ledger
  /\ queue \in Seq(Entry) /\ Len(queue) <= QueueLimit
  /\ wire \in Seq(Entry)
  /\ rows \in [Ids -> Episode]
  /\ state \in [Ids -> Episode]
  /\ lost \subseteq Ids /\ dropped \subseteq Ids
  /\ crashes \in 0..MaxCrashes

Init ==
  /\ next = 1 /\ prod = NotReady /\ queue = <<>> /\ wire = <<>>
  /\ book = EmptyLedger /\ rows = NoRows /\ state = NoRows
  /\ lost = {} /\ dropped = {} /\ crashes = 0

------------------------------------------------------------------------------
(* The producer.                                                            *)

Room == Len(queue) < QueueLimit
Detected == next <= Len(Detections)
Sig == Detections[next]

\* The cooldown has run out; one that has not is a refusal.
Rested == Cooldown

\* offer() returns before the claim, or the claim refuses.
OfferRefused ==
  /\ Detected
  /\ next' = next + 1
  /\ UNCHANGED <<prod, queue, wire, book, rows, state, lost, dropped, crashes>>

\* offer(), a new source of a known move: queued as an update if there is room.
OfferMerged ==
  /\ Detected
  /\ Merges(prod, Sig)
  /\ next' = next + 1
  /\ prod' = Merged(prod, Sig)
  /\ queue' = IF Room THEN Append(queue, [sig |-> Sig, opens |-> FALSE]) ELSE queue
  /\ UNCHANGED <<wire, book, rows, state, lost, dropped, crashes>>

\* offer(), a fresh episode.
OfferOpened ==
  /\ Detected
  /\ Opens(prod, Sig, Rested)
  /\ Room
  /\ next' = next + 1
  /\ prod' = Opened(prod, Sig)
  /\ queue' = Append(queue, [sig |-> Sig, opens |-> TRUE])
  /\ UNCHANGED <<wire, book, rows, state, lost, dropped, crashes>>

\* Mutation: a full queue keeps the reservation of the episode it did not take.
OfferFullKeeps ==
  /\ Detected
  /\ Opens(prod, Sig, Rested)
  /\ ~Room
  /\ next' = next + 1
  /\ prod' = Opened(prod, Sig)
  /\ UNCHANGED <<queue, wire, book, rows, state, lost, dropped, crashes>>

\* offer(), a fresh episode and a full queue: the reservation is released again.
OfferFull ==
  /\ Detected
  /\ Opens(prod, Sig, Rested)
  /\ ~Room
  /\ next' = next + 1
  /\ prod' = Reconciled(Opened(prod, Sig), IdOfSignal(Sig), 0, 0, TRUE, FALSE, 0)
  /\ UNCHANGED <<queue, wire, book, rows, state, lost, dropped, crashes>>

\* Mutation: an entry overtakes what the OMS has not read yet.
EmitAhead ==
  /\ queue # <<>>
  /\ queue' = Tail(queue)
  /\ wire' = <<Head(queue)>> \o wire
  /\ UNCHANGED <<next, prod, book, rows, state, lost, dropped, crashes>>

\* _emit(): the entry reaches the stream, whether or not the reply comes back.
Emit ==
  /\ queue # <<>>
  /\ queue' = Tail(queue)
  /\ wire' = Append(wire, Head(queue))
  /\ UNCHANGED <<next, prod, book, rows, state, lost, dropped, crashes>>

Opener(entry) == IF entry.opens THEN {IdOfSignal(entry.sig)} ELSE {}
Openers(entries) == UNION {Opener(entries[i]) : i \in DOMAIN entries}

\* _emit(): the publication fails.  The claim is kept and nothing is sent again.
EmitLost ==
  /\ queue # <<>>
  /\ Cardinality(lost) < MaxLost
  /\ lost' = lost \cup {IdOfSignal(Head(queue).sig)}
  /\ dropped' = dropped \cup Opener(Head(queue))
  /\ queue' = Tail(queue)
  /\ UNCHANGED <<next, prod, wire, book, rows, state, crashes>>

\* Mutation: the published rows replace the producer's own.
FoldedIncoming(own, incoming) == incoming

\* Mutation: the producer's own row wins over the published one.
FoldedOwn(own, incoming) ==
  [id \in Ids |-> IF own[id].state # "absent" THEN own[id] ELSE incoming[id]]

\* observe_state(): a published row wins, an own row that is not published stays.
Folded(own, incoming) ==
  [id \in Ids |-> IF incoming[id].state # "absent" THEN incoming[id] ELSE own[id]]

\* _feedback(), a fresh snapshot that restore() accepts.
Observe ==
  /\ Restorable(Folded(prod.episodes, state))
  /\ prod' = Restored(Folded(prod.episodes, state))
  /\ UNCHANGED <<next, queue, wire, book, rows, state, lost, dropped, crashes>>

\* _feedback(): an old snapshot, one restore() refuses, or a lost read.
ObserveUnknown ==
  /\ prod' = [prod EXCEPT !.ready = FALSE]
  /\ UNCHANGED <<next, queue, wire, book, rows, state, lost, dropped, crashes>>

\* A restarted producer has nothing but an empty ledger that is not ready.
CrashProducer ==
  /\ crashes < MaxCrashes
  /\ crashes' = crashes + 1
  /\ prod' = NotReady
  /\ queue' = <<>> /\ lost' = {} /\ dropped' = {}
  /\ wire' = [i \in DOMAIN wire |-> [wire[i] EXCEPT !.opens = FALSE]]
  /\ UNCHANGED <<next, book, rows, state>>

------------------------------------------------------------------------------
(* The OMS.                                                                 *)

Arrived == wire # <<>>
Got == Head(wire).sig

\* The intent is dropped: no actor, switched off, inbox full, or admit() refuses it.
Refuse ==
  /\ Arrived
  /\ wire' = Tail(wire)
  /\ dropped' = dropped \cup Opener(Head(wire))
  /\ UNCHANGED <<next, prod, queue, book, rows, state, lost, crashes>>

\* admit(): the detection belongs to a move the OMS holds.
AdmitMerged ==
  /\ Arrived
  /\ Merges(book, Got)
  /\ wire' = Tail(wire)
  /\ book' = Merged(book, Got)
  /\ dropped' = dropped \cup Opener(Head(wire))
  /\ UNCHANGED <<next, prod, queue, rows, state, lost, crashes>>

\* admit(): the detection opens an episode, under an identity of its own.
AdmitOpened ==
  /\ Arrived
  /\ Opens(book, Got, Rested)
  /\ wire' = Tail(wire)
  /\ book' = Opened(book, Got)
  /\ UNCHANGED <<next, prod, queue, rows, state, lost, dropped, crashes>>

\* durable_claim() and save_episode(): the row follows the ledger.
Save(id) ==
  /\ book.episodes[id] # rows[id]
  /\ rows' = [rows EXCEPT ![id] = book.episodes[id]]
  /\ UNCHANGED <<next, prod, queue, wire, book, state, lost, dropped, crashes>>

\* The episode ends, without a fill or flat again.
End(id, filled) ==
  /\ book.episodes[id].state \in ActiveStates
  /\ book' = Reconciled(book, id, filled, filled, TRUE, FALSE, 0)
  /\ UNCHANGED <<next, prod, queue, wire, rows, state, lost, dropped, crashes>>

\* _feedback() of the OMS.
Publish ==
  /\ state' = book.episodes
  /\ UNCHANGED <<next, prod, queue, wire, book, rows, lost, dropped, crashes>>

\* start() releases a durable claim that was never submitted.
BootRows == [id \in Ids |-> IF rows[id].state = "claimed"
                            THEN [rows[id] EXCEPT !.state = "terminal_no_fill"]
                            ELSE rows[id]]

\* Claims of the OMS that are not durable yet.
Unsaved == Present(book.episodes) \ Present(rows)

\* A restarted OMS reads the stream from its end, restores its durable rows and
\* publishes them.
CrashOms ==
  /\ crashes < MaxCrashes
  /\ Restorable(BootRows)
  /\ crashes' = crashes + 1
  /\ rows' = BootRows
  /\ book' = Restored(BootRows)
  /\ wire' = <<>>
  /\ dropped' = dropped \cup Openers(wire) \cup (Unsaved \cap ActiveIds(prod.episodes))
  /\ state' = BootRows
  /\ UNCHANGED <<next, prod, queue, lost>>

Producer == OfferRefused \/ OfferMerged \/ OfferOpened \/ OfferFull
            \/ Emit \/ EmitLost \/ Observe \/ ObserveUnknown \/ CrashProducer
Oms == \/ Refuse \/ AdmitMerged \/ AdmitOpened \/ Publish \/ CrashOms
       \/ \E id \in Ids : Save(id) \/ \E filled \in 0..1 : End(id, filled)

Next == Producer \/ Oms

Spec == Init /\ [][Next]_vars

\* Both feedback loops run every second for as long as their process lives.
FairSpec == Spec /\ WF_vars(Publish) /\ WF_vars(Observe)

------------------------------------------------------------------------------
(* Properties.                                                              *)

\* Episodes this producer opened that the OMS has not decided about yet.
InFlight == Openers(queue) \cup Openers(wire)

\* The hand-off keeps what LiveAdmission assumes of it (InOrder): the next detection
\* the OMS takes from the stream never lies wholly before a move of the same symbol
\* that the OMS holds, in its ledger or durably.  One emit worker, no retry.
DeliveredInOrder ==
  Arrived => \A id \in Ids : KeyOf(id) = KeyOfSignal(Got) =>
    /\ book.episodes[id].state # "absent" => Got.hi >= book.episodes[id].lo
    /\ rows[id].state # "absent" => Got.hi >= rows[id].lo

\* A reservation of the producer stands for something: an entry under way, an episode
\* of the OMS, or a detection that was published once and then lost or refused.  A
\* full queue leaves none behind.
SlotAccounted ==
  ActiveIds(prod.episodes) \subseteq InFlight \cup dropped
                                     \cup Present(book.episodes) \cup Present(state)

\* A claim keeps its slot until the OMS has answered for it: however old the snapshots
\* are that the producer folds, an episode it has under way, lost on the way or refused
\* stays reserved, so no more are ever under way than there are reservations.
ClaimRetained ==
  /\ InFlight \cup dropped \subseteq ActiveIds(prod.episodes)
  /\ Cardinality(ActiveIds(prod.episodes)) <= Capacity

\* A source that both ledgers know belongs to the same episode in both: the identity
\* the producer emits is the identity the OMS trades under.
SameEpisode ==
  \A k \in Ids : prod.sources[k] # NoId /\ book.sources[k] # NoId
                  => prod.sources[k] = book.sources[k]

\* What the OMS has finished does not occupy the producer for ever: the reservation
\* is released by a later snapshot, or by a restart, as long as the two ledgers agree
\* on the identity of every move (once they do not, restore() refuses all snapshots).
SlotReleased ==
  \A id \in Ids :
    (id \in ActiveIds(prod.episodes) /\ book.episodes[id].state \in TerminalStates)
      ~> (id \notin ActiveIds(prod.episodes) \/ id \notin Present(book.episodes) \/ ~SameEpisode)
================================================================================
