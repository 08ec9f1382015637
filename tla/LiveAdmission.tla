------------------------------ MODULE LiveAdmission ------------------------------
(****************************************************************************)
(* The OMS side of live admission: one in-memory EpisodeLedger shared by    *)
(* the entry lane (execution.py, LiveEntryExecutor.admit, driven by         *)
(* actor.py, _entries) and the owned lane (actor.py, _service_owned, which  *)
(* runs under state_lock), and the durable rows both lanes write through    *)
(* persistence.py.                                                          *)
(*                                                                          *)
(* Every database unit runs on a worker thread (oms/service.py, _run_db):   *)
(* the snapshot it writes is taken on the event loop when the call is made  *)
(* and committed later, so the units of the two lanes commit in either      *)
(* order, and a value read before an await is used after it.  A step of     *)
(* this module is one stretch of event-loop code between two awaits, or one *)
(* commit.  A crash loses the ledger and every uncommitted unit; a restart  *)
(* rebuilds the ledger from the rows.                                       *)
(****************************************************************************)
EXTENDS EpisodeLedger

CONSTANTS
  Signals,       \* the signals the producer may deliver, repeatedly
  MaxClock,      \* bound on time
  MaxQty,        \* bound on shares filled
  MaxCrashes,    \* bound on crashes
  BotControl     \* the setting bot_control_enabled: STOP is obeyed

ASSUME AdmissionConstants ==
  /\ Signals \subseteq Signal
  /\ MaxClock \in Nat /\ MaxQty \in Nat /\ MaxCrashes \in Nat
  /\ BotControl \in BOOLEAN

VARIABLES
  book,     \* the in-memory ledger
  rows,     \* durable momlive_episode of every TradeIntent, "absent" if none
  order,    \* durable entry order of every episode, with "posted" for one whose
            \* transport has started: the broker may hold it
  truth,    \* what the broker's reports say of the episode's own orders
  entry,    \* entry lane: [stage, id, snap]; snap is the row it will write
  owned,    \* owned lane: [stage, id, snap, obs]; obs is what it has read
  stop,     \* a STOP of the strategy is in force
  clock,
  boot,     \* "up", or "refused" when start() raised and live trading is off
  crashes

vars == <<book, rows, order, truth, entry, owned, stop, clock, boot, crashes>>

EntryStages == {"idle", "claiming", "quoting", "prepared", "submitting", "sent",
                "settling", "saving"}
OwnedStages == {"idle", "observed", "saving", "saved", "closing", "abandoned", "retired"}
OrderStates == {"none", "prepared", "posted", "aborted", "marked", "retired"}
Observation == [filled : Nat, exited : Nat, terminal : BOOLEAN, outstanding : BOOLEAN]

Idle == [stage |-> "idle", id |-> NoId, snap |-> Absent]
NothingSeen == [filled |-> 0, exited |-> 0, terminal |-> FALSE, outstanding |-> FALSE]
Flat == [NothingSeen EXCEPT !.terminal = TRUE]
Resting == [stage |-> "idle", id |-> NoId, snap |-> Absent, obs |-> NothingSeen]

TypeOK ==
  /\ book \in Ledger
  /\ rows \in [Ids -> Episode]
  /\ order \in [Ids -> OrderStates]
  /\ truth \in [Ids -> Observation]
  /\ entry \in [stage : EntryStages, id : Ids \cup {NoId}, snap : Episode]
  /\ owned \in [stage : OwnedStages, id : Ids \cup {NoId}, snap : Episode, obs : Observation]
  /\ entry.stage # "idle" => entry.id \in Ids
  /\ owned.stage # "idle" => owned.id \in Ids
  /\ stop \in BOOLEAN
  /\ clock \in Nat
  /\ boot \in {"up", "refused"}
  /\ crashes \in Nat

Init ==
  /\ book = EmptyLedger
  /\ rows = [id \in Ids |-> Absent]
  /\ order = [id \in Ids |-> "none"]
  /\ truth = [id \in Ids |-> NothingSeen]
  /\ entry = Idle
  /\ owned = Resting
  /\ stop = FALSE
  /\ clock = 1
  /\ boot = "up"
  /\ crashes = 0

Up == boot = "up"
\* The entry lane continues at a stage with the snapshot it will write.
At(stage, id, L) == [stage |-> stage, id |-> id, snap |-> L.episodes[id]]

\* A claimed reservation that has not begun its submission.
QuotePending(e) == e.state = "claimed" /\ e.submitted = NoTime /\ e.filled = 0

\* A claim proven unsent (or broker-absent) is released: reconcile(0, 0, terminal).
Release(L, id) == Reconciled(L, id, 0, 0, TRUE, FALSE, clock)

------------------------------------------------------------------------------
(* Entry lane.                                                              *)

\* Detections of one symbol are handed over in the order of their moves: a
\* signal never lies wholly before a move the ledger or the rows already hold.
InOrder(sig) ==
  \A id \in Ids : KeyOf(id) = KeyOfSignal(sig) =>
     /\ book.episodes[id].state # "absent" => sig.hi >= book.episodes[id].lo
     /\ rows[id].state # "absent" => sig.hi >= rows[id].lo

\* _entries takes an open intent only while entries are enabled.
MayAdmit(sig) == Up /\ entry = Idle /\ ~stop /\ InOrder(sig)

\* admit(), a source that already has an episode: save and return.
ClaimKnown(sig) ==
  /\ MayAdmit(sig)
  /\ book.ready /\ Known(book, sig)
  /\ entry' = At("saving", book.sources[IdOfSignal(sig)], book)
  /\ UNCHANGED <<book, rows, order, truth, owned, stop, clock, boot, crashes>>

\* admit(), a new source of a known move: widen its episode, save and return.
ClaimMerged(sig) ==
  /\ MayAdmit(sig)
  /\ Merges(book, sig)
  /\ book' = Merged(book, sig)
  /\ entry' = At("saving", Prior(book, sig), book')
  /\ UNCHANGED <<rows, order, truth, owned, stop, clock, boot, crashes>>

\* admit(), a fresh claim: reserved in memory, durable_claim in flight.
ClaimOpened(sig) ==
  /\ MayAdmit(sig)
  /\ Opens(book, sig, clock)
  /\ book' = Opened(book, sig)
  /\ entry' = At("claiming", IdOfSignal(sig), book')
  /\ UNCHANGED <<rows, order, truth, owned, stop, clock, boot, crashes>>

\* LivePersistence.claim: refused when the episode is already durable, the
\* durable reservations are full, or the account has a foreign owner.  A refusal
\* ends admit(); the in-memory reservation stays.
ClaimAdmissible(id) ==
  /\ rows[id].state = "absent"
  /\ Cardinality(ActiveIds(rows)) < Capacity

DurableClaim ==
  /\ Up /\ entry.stage = "claiming"
  /\ \/ /\ ClaimAdmissible(entry.id)
        /\ rows' = [rows EXCEPT ![entry.id] = entry.snap]
        /\ entry' = [entry EXCEPT !.stage = "quoting"]
     \/ /\ entry' = Idle
        /\ UNCHANGED rows
  /\ UNCHANGED <<book, order, truth, owned, stop, clock, boot, crashes>>

\* No usable quote before the signal expired: proven unsent, released.
QuoteExpired ==
  /\ Up /\ entry.stage = "quoting"
  /\ book' = Release(book, entry.id)
  /\ entry' = At("saving", entry.id, book')
  /\ UNCHANGED <<rows, order, truth, owned, stop, clock, boot, crashes>>

\* prepare_order: the only order of a row that is still claimed; else a Refusal.
PrepareOrder ==
  /\ Up /\ entry.stage = "quoting"
  /\ IF rows[entry.id].state = "claimed" /\ rows[entry.id].submitted = NoTime
        /\ order[entry.id] = "none"
     THEN /\ order' = [order EXCEPT ![entry.id] = "prepared"]
          /\ entry' = [entry EXCEPT !.stage = "prepared"]
     ELSE /\ entry' = Idle
          /\ UNCHANGED order
  /\ UNCHANGED <<book, rows, truth, owned, stop, clock, boot, crashes>>

\* Mutation: the order is handed to the adapter before its submission is durable.
BeginSubmitUncommitted ==
  /\ Up /\ entry.stage = "prepared"
  /\ MaySubmit(book, entry.id)
  /\ book' = Submitted(book, entry.id, clock)
  /\ entry' = At("sent", entry.id, book')
  /\ UNCHANGED <<rows, order, truth, owned, stop, clock, boot, crashes>>

\* begin_submit on the ledger; the committing reprice unit is in flight.
BeginSubmit ==
  /\ Up /\ entry.stage = "prepared"
  /\ MaySubmit(book, entry.id)
  /\ book' = Submitted(book, entry.id, clock)
  /\ entry' = At("submitting", entry.id, book')
  /\ UNCHANGED <<rows, order, truth, owned, stop, clock, boot, crashes>>

\* reprice_unsent_entry(episode): the row must still be the claimed one, its
\* order unsent.
Unsent(id) == rows[id].state = "claimed" /\ rows[id].submitted = NoTime

CommitSubmitting ==
  /\ Up /\ entry.stage = "submitting"
  /\ Unsent(entry.id) /\ order[entry.id] = "prepared"
  /\ rows' = [rows EXCEPT ![entry.id] = entry.snap]
  /\ entry' = [entry EXCEPT !.stage = "sent"]
  /\ UNCHANGED <<book, order, truth, owned, stop, clock, boot, crashes>>

\* UnsentEntryConflict from a reprice unit (the row moved on, a foreign owner
\* appeared): ownership is retained, and mark_refused_pre_submit records that
\* this attempt was never sent, unless the order is not pending any more or the
\* marking itself fails.
AsCancelRequested(e) == IF e.state = "claimed" /\ e.submitted = NoTime
                        THEN [e EXCEPT !.state = "cancel_requested", !.cancel = TRUE] ELSE e

RepriceConflict ==
  /\ Up /\ entry.stage \in {"prepared", "submitting"}
  /\ entry' = Idle
  /\ \/ /\ order[entry.id] = "prepared"
        /\ order' = [order EXCEPT ![entry.id] = "marked"]
        /\ rows' = [rows EXCEPT ![entry.id] = AsCancelRequested(@)]
        /\ book' = [book EXCEPT !.episodes[entry.id] = AsCancelRequested(@)]
     \/ UNCHANGED <<book, rows, order>>
  /\ UNCHANGED <<truth, owned, stop, clock, boot, crashes>>

\* A refusal before the wire: a fresh check of the prepared or submitting entry
\* (refuse_unsent_entry), or the guard in the adapter before its first transport
\* (refuse_local_entry).  The row and the order are settled first, the ledger
\* after; a row the owned lane has moved on is not settled.
RefuseBeforeWire ==
  /\ Up /\ entry.stage \in {"prepared", "submitting", "sent"}
  /\ order[entry.id] # "posted"
  /\ IF rows[entry.id].state \in {"claimed", "submitting"} /\ order[entry.id] = "prepared"
     THEN /\ rows' = [rows EXCEPT ![entry.id].state = "terminal_no_fill"]
          /\ order' = [order EXCEPT ![entry.id] = "aborted"]
          /\ entry' = [entry EXCEPT !.stage = "settling"]
     ELSE /\ entry' = Idle
          /\ UNCHANGED <<rows, order>>
  /\ UNCHANGED <<book, truth, owned, stop, clock, boot, crashes>>

SettleRefusal ==
  /\ Up /\ entry.stage = "settling"
  /\ book' = Release(book, entry.id)
  /\ entry' = At("saving", entry.id, book')
  /\ UNCHANGED <<rows, order, truth, owned, stop, clock, boot, crashes>>

\* The adapter's permit is granted for a pending order and its transport starts.
Dispatch ==
  /\ Up /\ entry.stage = "sent" /\ order[entry.id] = "prepared"
  /\ order' = [order EXCEPT ![entry.id] = "posted"]
  /\ UNCHANGED <<book, rows, truth, entry, owned, stop, clock, boot, crashes>>

\* submit() returned reports: record_route saves a snapshot taken now.
RecordRoute ==
  /\ Up /\ entry.stage = "sent" /\ order[entry.id] = "posted"
  /\ entry' = At("saving", entry.id, book)
  /\ UNCHANGED <<book, rows, order, truth, owned, stop, clock, boot, crashes>>

\* submit() raised (no permit, timeout, unknown ACK): nothing is saved or freed.
SubmitFailed ==
  /\ Up /\ entry.stage = "sent"
  /\ entry' = Idle
  /\ UNCHANGED <<book, rows, order, truth, owned, stop, clock, boot, crashes>>

\* LivePersistence.save overwrites the row; a missing row is a Refusal, and a row
\* retired as broker-absent is not reopened and keeps its closing time.
Stored(id, snap) ==
  IF rows[id].state = "absent" THEN rows
  ELSE IF order[id] = "retired" /\ rows[id].state = "terminal_no_fill"
  THEN IF snap.state = "terminal_no_fill" /\ snap.filled = 0
       THEN [rows EXCEPT ![id] = [snap EXCEPT !.closed = rows[id].closed]] ELSE rows
  ELSE [rows EXCEPT ![id] = snap]

EntrySave ==
  /\ Up /\ entry.stage = "saving"
  /\ rows' = Stored(entry.id, entry.snap)
  /\ entry' = Idle
  /\ UNCHANGED <<book, order, truth, owned, stop, clock, boot, crashes>>

------------------------------------------------------------------------------
(* Owned lane: one servicing of an episode under state_lock.                *)

\* The work queue holds owners of the by-symbol index only (_refresh_owners).
Serviced(id) == /\ id \in book.active[SymbolOf(id)]
                /\ book.episodes[id].state \in ActiveStates
                /\ ~QuotePending(book.episodes[id])

\* _observe: what the durable orders and the broker say now; the result is used
\* after the await.
Observe(id) ==
  /\ Up /\ owned.stage = "idle"
  /\ Serviced(id)
  /\ owned' = [stage |-> "observed", id |-> id, snap |-> Absent,
               obs |-> IF order[id] \in {"aborted", "retired"} THEN Flat ELSE truth[id]]
  /\ UNCHANGED <<book, rows, order, truth, entry, stop, clock, boot, crashes>>

\* _observe of an entry whose cancel is due and that was proven never sent:
\* retire_broker_absent_entry commits, then the ledger releases it.  Not while
\* the entry lane works on the symbol.
RetireCommit(id) ==
  /\ Up /\ owned.stage = "idle"
  /\ Serviced(id)
  /\ book.episodes[id].cancel /\ order[id] = "marked"
  /\ entry.id \in Ids => SymbolOf(entry.id) # SymbolOf(id)
  /\ rows[id].state \in {"submitting", "cancel_requested", "unknown"} /\ rows[id].filled = 0
  /\ rows' = [rows EXCEPT ![id].state = "terminal_no_fill", ![id].closed = clock]
  /\ order' = [order EXCEPT ![id] = "retired"]
  /\ owned' = [Resting EXCEPT !.stage = "retired", !.id = id, !.obs = Flat]
  /\ UNCHANGED <<book, truth, entry, stop, clock, boot, crashes>>

RetireSettle ==
  /\ Up /\ owned.stage = "retired"
  /\ book' = [Release(book, owned.id) EXCEPT !.episodes[owned.id].closed = rows[owned.id].closed]
  /\ owned' = [owned EXCEPT !.stage = "observed"]
  /\ UNCHANGED <<rows, order, truth, entry, stop, clock, boot, crashes>>

\* reconcile() with the observation, then the save is in flight.
Reconcile ==
  /\ Up /\ owned.stage = "observed"
  /\ Reconcilable(book, owned.id, owned.obs.filled, owned.obs.exited)
  /\ book' = Reconciled(book, owned.id, owned.obs.filled, owned.obs.exited,
                        owned.obs.terminal, owned.obs.outstanding, clock)
  /\ owned' = [owned EXCEPT !.stage = "saving", !.snap = book'.episodes[owned.id]]
  /\ UNCHANGED <<rows, order, truth, entry, stop, clock, boot, crashes>>

\* The save returned; the first one of a servicing is followed by the cancel check.
OwnedSave ==
  /\ Up /\ owned.stage \in {"saving", "closing"}
  /\ rows' = Stored(owned.id, owned.snap)
  /\ owned' = IF owned.stage = "saving" THEN [owned EXCEPT !.stage = "saved"] ELSE Resting
  /\ UNCHANGED <<book, order, truth, entry, stop, clock, boot, crashes>>

\* STOP forces a cancel on the observation alone; otherwise cancel_due() decides.
ForcedCancel == /\ stop /\ ~owned.obs.terminal
                /\ ~book.episodes[owned.id].cancel

CancelEntry ==
  /\ Up /\ owned.stage = "saved"
  /\ IF ForcedCancel \/ IsCancelDue(book, owned.id, clock)
     THEN /\ book' = CancelRequested(book, owned.id)
          /\ owned' = [owned EXCEPT !.stage = "closing", !.snap = book'.episodes[owned.id]]
     ELSE /\ owned' = Resting
          /\ UNCHANGED book
  /\ UNCHANGED <<rows, order, truth, entry, stop, clock, boot, crashes>>

\* abandon_unsent_entry under STOP: a reservation that never began to submit.
AbandonCommit(id) ==
  /\ Up /\ owned.stage = "idle" /\ stop
  /\ QuotePending(book.episodes[id])
  /\ Unsent(id) /\ order[id] \in {"none", "prepared"}
  /\ rows' = [rows EXCEPT ![id].state = "terminal_no_fill"]
  /\ order' = [order EXCEPT ![id] = IF @ = "prepared" THEN "aborted" ELSE @]
  /\ owned' = [Resting EXCEPT !.stage = "abandoned", !.id = id]
  /\ UNCHANGED <<book, truth, entry, stop, clock, boot, crashes>>

AbandonSettle ==
  /\ Up /\ owned.stage = "abandoned"
  /\ book' = Release(book, owned.id)
  /\ owned' = [owned EXCEPT !.stage = "closing", !.snap = book'.episodes[owned.id]]
  /\ UNCHANGED <<rows, order, truth, entry, stop, clock, boot, crashes>>

------------------------------------------------------------------------------
(* The broker, the operator, time, crash and restart.                       *)

Settled(o) == o.terminal /\ o.filled = o.exited /\ ~o.outstanding

\* Cumulative reports of an entry that was posted, and of its exits.
BrokerReport(id) ==
  /\ order[id] = "posted" /\ ~Settled(truth[id])
  /\ \E filled \in truth[id].filled .. MaxQty, terminal, outstanding \in BOOLEAN :
       \E exited \in truth[id].exited .. filled :
         /\ truth[id].terminal => terminal /\ filled = truth[id].filled
         /\ outstanding => filled > 0
         /\ truth' = [truth EXCEPT ![id] = [filled |-> filled, exited |-> exited,
                                            terminal |-> terminal, outstanding |-> outstanding]]
         /\ truth' # truth
  /\ UNCHANGED <<book, rows, order, entry, owned, stop, clock, boot, crashes>>

\* STOP and ON of the strategy arrive from bot control.
Operator ==
  /\ BotControl
  /\ stop' = ~stop
  /\ UNCHANGED <<book, rows, order, truth, entry, owned, clock, boot, crashes>>

Tick ==
  /\ clock < MaxClock
  /\ clock' = clock + 1
  /\ UNCHANGED <<book, rows, order, truth, entry, owned, stop, boot, crashes>>

\* start(): a claimed row without submission is released when it has no order,
\* and refuses the whole boot when it has one.
BootRefused == ~Restorable(rows) \/ \E id \in Ids : Unsent(id) /\ order[id] # "none"
\* Mutation: boot also takes a row in submission for unsent.
BootRowsSubmitting ==
  [id \in Ids |-> IF rows[id].state \in {"claimed", "submitting"}
                  THEN [rows[id] EXCEPT !.state = "terminal_no_fill"] ELSE rows[id]]

BootRows == [id \in Ids |-> IF Unsent(id) THEN [rows[id] EXCEPT !.state = "terminal_no_fill"]
                                          ELSE rows[id]]

\* A crash with the restart that follows it.
Restart ==
  /\ crashes < MaxCrashes
  /\ crashes' = crashes + 1
  /\ entry' = Idle
  /\ owned' = Resting
  /\ IF BootRefused
     THEN /\ boot' = "refused"
          /\ book' = [EmptyLedger EXCEPT !.ready = FALSE]
          /\ UNCHANGED rows
     ELSE /\ boot' = "up"
          /\ rows' = BootRows
          /\ book' = Restored(BootRows)
  /\ UNCHANGED <<order, truth, stop, clock>>

EntryLane ==
  \/ \E sig \in Signals : ClaimKnown(sig) \/ ClaimMerged(sig) \/ ClaimOpened(sig)
  \/ DurableClaim \/ QuoteExpired \/ PrepareOrder \/ BeginSubmit \/ CommitSubmitting
  \/ RepriceConflict \/ RefuseBeforeWire \/ SettleRefusal
  \/ Dispatch \/ RecordRoute \/ SubmitFailed \/ EntrySave

OwnedLane ==
  \/ \E id \in Ids : Observe(id) \/ RetireCommit(id) \/ AbandonCommit(id)
  \/ RetireSettle \/ Reconcile \/ OwnedSave \/ CancelEntry \/ AbandonSettle

Environment == (\E id \in Ids : BrokerReport(id)) \/ Operator \/ Tick \/ Restart

Next == EntryLane \/ OwnedLane \/ Environment

Spec == Init /\ [][Next]_vars

------------------------------------------------------------------------------
(* Properties.                                                              *)

\* The broker may still act for the episode: its entry was sent and its orders
\* are not known to be terminal and flat.
Exposed(id) == order[id] = "posted" /\ ~Settled(truth[id])

\* claim(), admit() and restore() together keep at most one episode per symbol exposed
\* at the broker, whatever the interleaving of the two lanes and however often the
\* process crashes.
OneExposedPerSymbol ==
  \A a, b \in Ids : Exposed(a) /\ Exposed(b) /\ SymbolOf(a) = SymbolOf(b) => a = b

\* An exposed episode is never forgotten: its durable row is active, so a crash at
\* any moment restores it, and while the process is up it is in the index that the
\* owned lane is driven from.  No settlement path (expiry, refusal before the wire,
\* STOP, broker-absent retirement, boot release) releases a sent entry, so that never
\* more are exposed than were reserved.
ExposureTracked ==
  /\ \A id \in Ids : Exposed(id) =>
       /\ rows[id].state \in ActiveStates
       /\ Up => id \in book.active[SymbolOf(id)]
  /\ Cardinality({id \in Ids : Exposed(id)}) <= Capacity

\* The counter and the by-symbol index of the ledger agree with each other and hold
\* only episodes that are active, through every claim, reconcile and restore.
IndexAgrees == LedgerAgrees(book)

\* IndexAgrees is not inductive: reconcile() adjusts the counter by the change of
\* the episode's state, which is the change of the index only for an episode that is
\* indexed whenever it is active.  That holds of a fresh claim, of the episode the
\* entry lane is still working on, and of the one the owned lane has just read; the
\* forced cancel breaks it only for an episode no lane reconciles any more.
Indexed(id) == id \in book.active[SymbolOf(id)]
Listed(id) == book.episodes[id].state \in ActiveStates => Indexed(id)
Working == entry.stage \in EntryStages \ {"idle", "saving"}

IndexInv ==
  /\ IndexAgrees
  /\ \A id \in Ids : book.episodes[id].state = "claimed" => Indexed(id)
  /\ Working => Listed(entry.id)
  /\ owned.stage \in {"observed", "retired", "abandoned"} => Listed(owned.id)
  /\ /\ owned.stage \in {"saving", "saved"} /\ ~owned.obs.terminal
     /\ Working /\ entry.id = owned.id
     => Indexed(owned.id)

\* A source never has two owners: the source index of the ledger and the source
\* lists of the episodes say the same, so a redelivered detection finds the episode
\* it already has.
SourcesAgree ==
  \A k \in Ids : Holders(book.episodes, k) =
                   IF book.sources[k] = NoId THEN {} ELSE {book.sources[k]}

\* Detections of one symbol belong to separate moves: those that overlap a common one
\* overlap each other.
Apart ==
  \A a, b, c \in Signals :
    /\ KeyOfSignal(a) = KeyOfSignal(b) /\ KeyOfSignal(b) = KeyOfSignal(c)
    /\ Overlaps(a, b) /\ Overlaps(b, c)
    => Overlaps(a, c)

\* A ledger rebuilt from the episodes decides every next signal as the running one:
\* restore() recomputes _latest from the intervals, claim() keeps the last opened.
RestartNeutral ==
  LET again == Restored(book.episodes)
  IN Up => \A sig \in Signals : InOrder(sig) =>
             /\ Prior(again, sig) = Prior(book, sig)
             /\ Known(again, sig) = Known(book, sig)

\* So it is while the moves of a symbol are separate.  A detection that spans two moves
\* merges into the first and lets it end after the second, which claim() opened last.
RestartEquivalent == Apart => RestartNeutral

\* claim() opens a new episode only when every episode of that symbol and session in the
\* ledger closed at least Cooldown ago.
CoolsDown ==
  \A id \in Ids : book.episodes[id].state = "absent" /\ book'.episodes[id].state = "claimed" =>
    \A old \in Ids : KeyOf(old) = KeyOf(id) /\ book.episodes[old].closed # NoTime
                       => clock - book.episodes[old].closed >= Cooldown

\* A symbol rests after a close: claim() asks only the latest episode of the symbol, which
\* is enough as long as no restart has revived an earlier one beside it.
CooldownRespected == [][crashes = 0 => CoolsDown]_vars

\* With restarts it is not: the revived episode closes anew, and the latest one is not it.
CooldownAfterRestart == [][CoolsDown]_vars

\* One entry per episode: an order is sent only out of its own committed submission,
\* and what was settled as never sent is never sent.
SentOnce ==
  [][\A id \in Ids : order'[id] = "posted" /\ order[id] # "posted" =>
       /\ rows[id].submitted # NoTime
       /\ rows[id].state \in ActiveStates
       /\ id \in book.active[SymbolOf(id)]]_vars

\* runtime.py says of the owned lane that it must never "reopen a just-retired
\* reservation": within one process an episode that is released stays released.
RetiredNotReopened ==
  [][crashes' = crashes =>
       \A id \in Ids : book.episodes[id].state \in TerminalStates
                         => book'.episodes[id].state \in TerminalStates]_vars

\* A durable terminal is not resurrected: with no unit in flight, an episode the
\* ledger has released is not active in its row.
NoResurrectedRow ==
  Up /\ entry = Idle /\ owned = Resting =>
    \A id \in Ids : book.episodes[id].state \in TerminalStates
                      => rows[id].state \notin ActiveStates
==============================================================================
