-------------------------- MODULE LiveAdmissionProofs --------------------------
(****************************************************************************)
(* Proofs about LiveAdmission for any number of days, symbols, sources and  *)
(* signals, any capacity and any number of crashes, in six layers:          *)
(* type correctness; the agreement of the ledger's counter and by-symbol    *)
(* index (IndexInv); the ownership of sources (OriginInv); the path of an   *)
(* entry from its claim to the broker (ExposureInv), which gives that what  *)
(* was sent is tracked, bounded, one per symbol and sent once; the order of *)
(* the moves of a symbol (MovesInv), which gives that a restart changes no  *)
(* decision; and the closes of the episodes of one process (CooledInv),     *)
(* which gives the cooldown.                                                *)
(****************************************************************************)
EXTENDS LiveAdmission, FiniteSetTheorems, TLAPS

------------------------------------------------------------------------------
(* The ledger operators preserve the type of a ledger.                      *)

\* Every id names a key and a symbol.
LEMMA IdFacts ==
  ASSUME NEW id \in Ids
  PROVE  KeyOf(id) \in Keys /\ SymbolOf(id) \in Symbols
  BY DEF Ids, Keys, KeyOf, SymbolOf

\* A signal's identity is the id of the episode it opens.
LEMMA SignalFacts ==
  ASSUME NEW sig \in Signal
  PROVE  /\ IdOfSignal(sig) \in Ids
         /\ KeyOfSignal(sig) \in Keys
         /\ sig.symbol \in Symbols
         /\ SymbolOf(IdOfSignal(sig)) = sig.symbol
         /\ sig.lo \in Nat /\ sig.hi \in Nat /\ sig.source \in Sources
  BY DEF Signal, IdOfSignal, KeyOfSignal, Ids, Keys, SymbolOf

\* Absent is a well-formed episode.
LEMMA AbsentType == Absent \in Episode
  BY DEF Absent, Episode, Times, NoTime

\* Replacing the episodes of a ledger.
LEMMA LedgerPut ==
  ASSUME NEW L \in Ledger, NEW eps \in [Ids -> Episode]
  PROVE  [L EXCEPT !.episodes = eps] \in Ledger
  BY DEF Ledger

\* The parts of a ledger have their types.
LEMMA LedgerFields ==
  ASSUME NEW L \in Ledger
  PROVE  /\ L.episodes \in [Ids -> Episode]
         /\ L.latest \in [Keys -> Ids \cup {NoId}]
         /\ L.sources \in [Ids -> Ids \cup {NoId}]
         /\ L.active \in [Symbols -> SUBSET Ids]
         /\ L.count \in Int
         /\ L.ready \in BOOLEAN
  BY DEF Ledger

\* Writing one episode.
LEMMA PutEpisode ==
  ASSUME NEW L \in Ledger, NEW id \in Ids, NEW e \in Episode
  PROVE  [L.episodes EXCEPT ![id] = e] \in [Ids -> Episode]
  BY LedgerFields

\* The episode a new source merges into is one of the ledger's ids.
LEMMA PriorType ==
  ASSUME NEW L \in Ledger, NEW sig \in Signal, Prior(L, sig) # NoId
  PROVE  Prior(L, sig) \in Ids
<1>1. L.active[sig.symbol] \subseteq Ids
  BY SignalFacts DEF Ledger
<1>2. Overlapping(L, sig) \subseteq Ids
  BY <1>1 DEF Overlapping
<1>3. L.latest[KeyOfSignal(sig)] \in Ids \cup {NoId}
  BY SignalFacts DEF Ledger
<1> QED
  BY <1>2, <1>3 DEF Prior

\* claim() keeps a ledger well-formed.
LEMMA OpenedType ==
  ASSUME NEW L \in Ledger, NEW sig \in Signal
  PROVE  Opened(L, sig) \in Ledger
<1> DEFINE id == IdOfSignal(sig)
<1> DEFINE e == [Absent EXCEPT !.state = "claimed", !.lo = sig.lo,
                               !.hi = sig.hi, !.sources = {sig.source}]
<1>1. e \in Episode
  BY SignalFacts, AbsentType DEF Episode, ActiveStates
<1> DEFINE eps == [L.episodes EXCEPT ![id] = e]
           last == [L.latest EXCEPT ![KeyOfSignal(sig)] = id]
           src == [L.sources EXCEPT ![id] = id]
           act == [L.active EXCEPT ![sig.symbol] = @ \cup {id}]
<1>2. Opened(L, sig) = [L EXCEPT !.episodes = eps, !.latest = last, !.sources = src,
                                 !.active = act, !.count = L.count + 1]
  BY DEF Opened, Ledger
<1>3. eps \in [Ids -> Episode]
  BY <1>1, PutEpisode, SignalFacts
<1>4. act \in [Symbols -> SUBSET Ids]
  BY SignalFacts, LedgerFields
<1>5. last \in [Keys -> Ids \cup {NoId}] /\ src \in [Ids -> Ids \cup {NoId}]
  BY SignalFacts, LedgerFields
<1>6. L.count + 1 \in Int
  BY LedgerFields
<1> HIDE DEF eps, last, src, act
<1>7. [L EXCEPT !.episodes = eps, !.latest = last, !.sources = src,
                !.active = act, !.count = L.count + 1] \in Ledger
  BY <1>3, <1>4, <1>5, <1>6 DEF Ledger
<1> QED
  BY <1>2, <1>7

\* claim() of a new source of a known move keeps a ledger well-formed.
LEMMA MergedType ==
  ASSUME NEW L \in Ledger, NEW sig \in Signal, SameMove(L, sig)
  PROVE  Merged(L, sig) \in Ledger
<1> DEFINE id == Prior(L, sig)
<1> DEFINE e == L.episodes[id]
<1> DEFINE f == [e EXCEPT !.lo = Smaller(e.lo, sig.lo), !.hi = Larger(e.hi, sig.hi),
                          !.sources = e.sources \cup {sig.source}]
<1>1. id \in Ids
  BY PriorType DEF SameMove
<1>2. e \in Episode
  BY <1>1 DEF Ledger
<1>3. f \in Episode
  BY <1>2, SignalFacts DEF Episode, Smaller, Larger
<1> DEFINE eps == [L.episodes EXCEPT ![id] = f]
           src == [L.sources EXCEPT ![IdOfSignal(sig)] = id]
<1>4. Merged(L, sig) = [L EXCEPT !.episodes = eps, !.sources = src]
  BY DEF Merged, Ledger
<1>5. eps \in [Ids -> Episode]
  BY <1>1, <1>3, PutEpisode
<1>6. src \in [Ids -> Ids \cup {NoId}]
  BY <1>1, SignalFacts, LedgerFields
<1> HIDE DEF eps, src
<1>7. [L EXCEPT !.episodes = eps, !.sources = src] \in Ledger
  BY <1>5, <1>6 DEF Ledger
<1> QED
  BY <1>4, <1>7

\* begin_submit() keeps a ledger well-formed.
LEMMA SubmittedType ==
  ASSUME NEW L \in Ledger, NEW id \in Ids, NEW now \in Nat
  PROVE  Submitted(L, id, now) \in Ledger
<1> DEFINE e == [L.episodes[id] EXCEPT !.state = "submitting", !.submitted = now]
           eps == [L.episodes EXCEPT ![id] = e]
<1>0. L.episodes[id] \in Episode
  BY LedgerFields
<1>1. e \in Episode
  BY <1>0 DEF Episode, ActiveStates, Times
<1>2. Submitted(L, id, now) = [L EXCEPT !.episodes = eps]
  BY DEF Submitted, Ledger, Episode
<1>3. eps \in [Ids -> Episode]
  BY <1>1, PutEpisode
<1> HIDE DEF eps
<1> QED
  BY <1>2, <1>3, LedgerPut

\* cancel_due() keeps a ledger well-formed.
LEMMA CancelRequestedType ==
  ASSUME NEW L \in Ledger, NEW id \in Ids
  PROVE  CancelRequested(L, id) \in Ledger
<1> DEFINE e == [L.episodes[id] EXCEPT !.state = "cancel_requested", !.cancel = TRUE]
           eps == [L.episodes EXCEPT ![id] = e]
<1>0. L.episodes[id] \in Episode
  BY LedgerFields
<1>1. e \in Episode
  BY <1>0 DEF Episode, ActiveStates
<1>2. CancelRequested(L, id) = [L EXCEPT !.episodes = eps]
  BY DEF CancelRequested, Ledger, Episode
<1>3. eps \in [Ids -> Episode]
  BY <1>1, PutEpisode
<1> HIDE DEF eps
<1> QED
  BY <1>2, <1>3, LedgerPut

\* reconcile() keeps a ledger well-formed.
LEMMA ReconciledType ==
  ASSUME NEW L \in Ledger, NEW id \in Ids, NEW filled \in Nat, NEW exited \in Nat,
         NEW terminal \in BOOLEAN, NEW outstanding \in BOOLEAN, NEW now \in Nat
  PROVE  Reconciled(L, id, filled, exited, terminal, outstanding, now) \in Ledger
<1> DEFINE e == L.episodes[id]
<1> DEFINE f == ReconciledEpisode(e, filled, exited, terminal, outstanding, now)
<1>1. e \in Episode
  BY DEF Ledger
<1>2. ReconciledState(e, filled, exited, terminal, outstanding)
        \in ActiveStates \cup TerminalStates \cup {"absent"}
  BY <1>1 DEF ReconciledState, Episode, ActiveStates, TerminalStates
<1>3. f \in Episode
  BY <1>1, <1>2 DEF ReconciledEpisode, Episode, Times
<1> HIDE DEF f
<1> DEFINE n == L.count + One(f.state \in ActiveStates) - One(e.state \in ActiveStates)
           act == [L.active EXCEPT ![SymbolOf(id)] = IF f.state \in ActiveStates
                                                     THEN @ \cup {id} ELSE @ \ {id}]
           eps == [L.episodes EXCEPT ![id] = f]
<1>4. Reconciled(L, id, filled, exited, terminal, outstanding, now)
        = [L EXCEPT !.episodes = eps, !.count = n, !.active = act]
  BY DEF Reconciled, Ledger, f
<1>5. n \in Int
  BY LedgerFields DEF One
<1>6. act \in [Symbols -> SUBSET Ids]
  BY IdFacts, LedgerFields
<1>7. eps \in [Ids -> Episode]
  BY <1>3, PutEpisode
<1> HIDE DEF n, act, eps
<1>8. [L EXCEPT !.episodes = eps, !.count = n, !.active = act] \in Ledger
  BY <1>5, <1>6, <1>7 DEF Ledger
<1> QED
  BY <1>4, <1>8

\* The active episodes of any set of rows are finitely many.
LEMMA ActiveIdsFinite ==
  ASSUME NEW eps
  PROVE  IsFiniteSet(ActiveIds(eps)) /\ Cardinality(ActiveIds(eps)) \in Nat
  BY LedgerConstants, FS_Subset, FS_CardinalityType DEF ActiveIds

\* restore() builds a well-formed ledger from well-formed rows.
LEMMA RestoredType ==
  ASSUME NEW eps \in [Ids -> Episode]
  PROVE  Restored(eps) \in Ledger
<1>1. [key \in Keys |-> LatestRow(eps, key)] \in [Keys -> Ids \cup {NoId}]
  <2>1. ASSUME NEW key \in Keys
        PROVE  LatestRow(eps, key) \in Ids \cup {NoId}
    BY DEF LatestRow, Present
  <2> QED
    BY <2>1
<1>2. [k \in Ids |-> IF Holders(eps, k) = {} THEN NoId
                     ELSE CHOOSE id \in Holders(eps, k) : TRUE] \in [Ids -> Ids \cup {NoId}]
  BY DEF Holders
<1>3. [s \in Symbols |-> ActiveOn(eps, s)] \in [Symbols -> SUBSET Ids]
  BY DEF ActiveOn, ActiveIds
<1> QED
  BY <1>1, <1>2, <1>3, ActiveIdsFinite DEF Restored, Ledger

\* The ledger of a first start is well-formed.
LEMMA EmptyLedgerType == EmptyLedger \in Ledger
  BY AbsentType, RestoredType DEF EmptyLedger

\* The episode a lane snapshots, and the value a release or a save produces.
LEMMA ReleaseType ==
  ASSUME TypeOK, NEW L \in Ledger, NEW id \in Ids
  PROVE  Release(L, id) \in Ledger
  BY ReconciledType DEF Release, TypeOK

\* save() writes a well-formed row or none.
LEMMA StoredType ==
  ASSUME TypeOK, NEW id \in Ids, NEW snap \in Episode
  PROVE  Stored(id, snap) \in [Ids -> Episode]
<1>1. rows[id] \in Episode
  BY DEF TypeOK
<1>2. [snap EXCEPT !.closed = rows[id].closed] \in Episode
  BY <1>1 DEF Episode
<1> QED
  BY <1>2 DEF Stored, TypeOK

\* mark_refused_pre_submit() keeps an episode well-formed.
LEMMA AsCancelRequestedType ==
  ASSUME NEW e \in Episode
  PROVE  AsCancelRequested(e) \in Episode
  BY DEF AsCancelRequested, Episode, ActiveStates

\* A lane that takes a snapshot of an episode of the ledger is well-formed.
LEMMA AtType ==
  ASSUME NEW L \in Ledger, NEW id \in Ids, NEW stage \in EntryStages
  PROVE  /\ At(stage, id, L) \in [stage : EntryStages, id : Ids \cup {NoId}, snap : Episode]
         /\ At(stage, id, L).id = id
  BY LedgerFields DEF At

\* Both lanes are well-formed at rest.
LEMMA IdleTypes ==
  /\ Idle \in [stage : EntryStages, id : Ids \cup {NoId}, snap : Episode]
  /\ Resting \in [stage : OwnedStages, id : Ids \cup {NoId}, snap : Episode, obs : Observation]
  /\ Flat \in Observation /\ NothingSeen \in Observation
  /\ Idle.stage = "idle" /\ Resting.stage = "idle"
  BY AbsentType DEF Idle, Resting, Flat, NothingSeen, Observation, EntryStages, OwnedStages

------------------------------------------------------------------------------
(* Type correctness.                                                        *)

\* The first state has the declared types.
LEMMA TypeInit == Init => TypeOK
<1> SUFFICES ASSUME Init PROVE TypeOK
  OBVIOUS
<1>1. book \in Ledger
  BY EmptyLedgerType DEF Init
<1>2. rows \in [Ids -> Episode] /\ truth \in [Ids -> Observation] /\ order \in [Ids -> OrderStates]
  BY AbsentType, IdleTypes DEF Init, OrderStates
<1>3. /\ entry \in [stage : EntryStages, id : Ids \cup {NoId}, snap : Episode]
      /\ owned \in [stage : OwnedStages, id : Ids \cup {NoId}, snap : Episode, obs : Observation]
      /\ entry.stage = "idle" /\ owned.stage = "idle"
  BY IdleTypes DEF Init
<1>4. stop \in BOOLEAN /\ clock \in Nat /\ boot \in {"up", "refused"} /\ crashes \in Nat
  BY DEF Init
<1> QED
  BY <1>1, <1>2, <1>3, <1>4 DEF TypeOK

\* Every step of the entry lane keeps the types.
LEMMA TypeEntry == TypeOK /\ EntryLane => TypeOK'
<1> SUFFICES ASSUME TypeOK, EntryLane PROVE TypeOK'
  OBVIOUS
<1>1. ASSUME NEW sig \in Signals, ClaimKnown(sig) PROVE TypeOK'
  <2>1. book.sources[IdOfSignal(sig)] \in Ids
    BY <1>1, SignalFacts, LedgerFields, AdmissionConstants DEF ClaimKnown, Known, TypeOK
  <2> QED
    BY <1>1, <2>1, AtType DEF ClaimKnown, TypeOK, EntryStages
<1>2. ASSUME NEW sig \in Signals, ClaimMerged(sig) PROVE TypeOK'
  <2>1. Prior(book, sig) \in Ids /\ book' \in Ledger
    BY <1>2, PriorType, MergedType, AdmissionConstants DEF ClaimMerged, Merges, SameMove, TypeOK
  <2> QED
    BY <1>2, <2>1, AtType DEF ClaimMerged, TypeOK, EntryStages
<1>3. ASSUME NEW sig \in Signals, ClaimOpened(sig) PROVE TypeOK'
  <2>1. IdOfSignal(sig) \in Ids /\ book' \in Ledger
    BY <1>3, SignalFacts, OpenedType, AdmissionConstants DEF ClaimOpened, TypeOK
  <2> QED
    BY <1>3, <2>1, AtType DEF ClaimOpened, TypeOK, EntryStages
<1>4. CASE DurableClaim
  <2>1. entry.id \in Ids /\ entry.snap \in Episode
    BY <1>4 DEF DurableClaim, TypeOK
  <2>2. rows' \in [Ids -> Episode]
    BY <1>4, <2>1 DEF DurableClaim, TypeOK
  <2> QED
    BY <1>4, <2>1, <2>2, IdleTypes DEF DurableClaim, TypeOK, EntryStages
<1>5. CASE QuoteExpired
  <2>1. entry.id \in Ids /\ book' \in Ledger
    BY <1>5, ReleaseType DEF QuoteExpired, TypeOK
  <2> QED
    BY <1>5, <2>1, AtType DEF QuoteExpired, TypeOK, EntryStages
<1>6. CASE PrepareOrder
  BY <1>6, IdleTypes DEF PrepareOrder, TypeOK, EntryStages, OrderStates
<1>7. CASE BeginSubmit
  <2>1. entry.id \in Ids /\ book' \in Ledger
    BY <1>7, SubmittedType DEF BeginSubmit, TypeOK
  <2> QED
    BY <1>7, <2>1, AtType DEF BeginSubmit, TypeOK, EntryStages
<1>8. CASE CommitSubmitting
  <2>1. entry.id \in Ids /\ rows' \in [Ids -> Episode]
    BY <1>8 DEF CommitSubmitting, TypeOK
  <2> QED
    BY <1>8, <2>1 DEF CommitSubmitting, TypeOK, EntryStages
<1>9. CASE RepriceConflict
  <2>1. entry.id \in Ids
    BY <1>9 DEF RepriceConflict, TypeOK
  <2>2. rows[entry.id] \in Episode /\ book.episodes[entry.id] \in Episode
    BY <2>1, LedgerFields DEF TypeOK
  <2>3. [book EXCEPT !.episodes[entry.id] = AsCancelRequested(@)] \in Ledger
    <3> DEFINE e == AsCancelRequested(book.episodes[entry.id])
    <3>1. e \in Episode
      BY <2>2, AsCancelRequestedType
    <3> HIDE DEF e
    <3> DEFINE eps == [book.episodes EXCEPT ![entry.id] = e]
    <3>2. eps \in [Ids -> Episode]
      BY <2>1, <3>1, PutEpisode DEF TypeOK
    <3>3. [book EXCEPT !.episodes[entry.id] = AsCancelRequested(@)] = [book EXCEPT !.episodes = eps]
      BY DEF TypeOK, Ledger, e
    <3> HIDE DEF eps
    <3> QED
      BY <3>2, <3>3, LedgerPut DEF TypeOK
  <2>4. rows' \in [Ids -> Episode] /\ book' \in Ledger /\ order' \in [Ids -> OrderStates]
    BY <1>9, <2>1, <2>2, <2>3, AsCancelRequestedType DEF RepriceConflict, TypeOK, OrderStates
  <2> QED
    BY <1>9, <2>4, IdleTypes DEF RepriceConflict, TypeOK
<1>10. CASE RefuseBeforeWire
  <2>1. [rows[entry.id] EXCEPT !.state = "terminal_no_fill"] \in Episode
    BY <1>10 DEF RefuseBeforeWire, TypeOK, Episode, TerminalStates
  <2>2. rows' \in [Ids -> Episode]
    BY <1>10, <2>1 DEF RefuseBeforeWire, TypeOK
  <2> QED
    BY <1>10, <2>2, IdleTypes DEF RefuseBeforeWire, TypeOK, EntryStages, OrderStates
<1>11. CASE SettleRefusal
  <2>1. entry.id \in Ids /\ book' \in Ledger
    BY <1>11, ReleaseType DEF SettleRefusal, TypeOK
  <2> QED
    BY <1>11, <2>1, AtType DEF SettleRefusal, TypeOK, EntryStages
<1>12. CASE Dispatch
  BY <1>12 DEF Dispatch, TypeOK, OrderStates
<1>13. CASE RecordRoute
  <2>1. entry.id \in Ids
    BY <1>13 DEF RecordRoute, TypeOK
  <2> QED
    BY <1>13, <2>1, AtType DEF RecordRoute, TypeOK, EntryStages
<1>14. CASE SubmitFailed
  BY <1>14, IdleTypes DEF SubmitFailed, TypeOK
<1>15. CASE EntrySave
  BY <1>15, IdleTypes, StoredType DEF EntrySave, TypeOK
<1> QED
  BY <1>1, <1>2, <1>3, <1>4, <1>5, <1>6, <1>7, <1>8, <1>9, <1>10, <1>11, <1>12, <1>13,
     <1>14, <1>15 DEF EntryLane

\* Every step of the owned lane keeps the types.
LEMMA TypeOwned == TypeOK /\ OwnedLane => TypeOK'
<1> SUFFICES ASSUME TypeOK, OwnedLane PROVE TypeOK'
  OBVIOUS
<1>1. ASSUME NEW id \in Ids, Observe(id) PROVE TypeOK'
  BY <1>1, AbsentType, IdleTypes DEF Observe, TypeOK, OwnedStages
<1>2. ASSUME NEW id \in Ids, RetireCommit(id) PROVE TypeOK'
  <2> DEFINE e == [rows[id] EXCEPT !.state = "terminal_no_fill", !.closed = clock]
  <2>1. e \in Episode
    BY DEF TypeOK, Episode, TerminalStates, Times
  <2>2. rows' = [rows EXCEPT ![id] = e]
    BY <1>2 DEF RetireCommit, TypeOK, Episode
  <2>3. owned' \in [stage : OwnedStages, id : Ids \cup {NoId}, snap : Episode, obs : Observation]
    BY <1>2, IdleTypes, AbsentType DEF RetireCommit, Resting, OwnedStages
  <2>4. owned'.id \in Ids /\ order' \in [Ids -> OrderStates]
    BY <1>2 DEF RetireCommit, Resting, TypeOK, OrderStates
  <2> HIDE DEF e
  <2>5. rows' \in [Ids -> Episode]
    BY <2>1, <2>2 DEF TypeOK
  <2> QED
    BY <1>2, <2>3, <2>4, <2>5 DEF RetireCommit, TypeOK
<1>3. ASSUME NEW id \in Ids, AbandonCommit(id) PROVE TypeOK'
  <2> DEFINE e == [rows[id] EXCEPT !.state = "terminal_no_fill"]
  <2>1. e \in Episode
    BY DEF TypeOK, Episode, TerminalStates
  <2>2. rows' = [rows EXCEPT ![id] = e]
    BY <1>3 DEF AbandonCommit, TypeOK
  <2>3. owned' \in [stage : OwnedStages, id : Ids \cup {NoId}, snap : Episode, obs : Observation]
    BY <1>3, IdleTypes, AbsentType DEF AbandonCommit, Resting, OwnedStages
  <2>4. owned'.id \in Ids /\ order' \in [Ids -> OrderStates]
    BY <1>3 DEF AbandonCommit, Resting, TypeOK, OrderStates
  <2> HIDE DEF e
  <2>5. rows' \in [Ids -> Episode]
    BY <2>1, <2>2 DEF TypeOK
  <2> QED
    BY <1>3, <2>3, <2>4, <2>5 DEF AbandonCommit, TypeOK
<1>4. CASE RetireSettle
  <2> DEFINE L == Release(book, owned.id)
             e == [L.episodes[owned.id] EXCEPT !.closed = rows[owned.id].closed]
             eps == [L.episodes EXCEPT ![owned.id] = e]
  <2>1. owned.id \in Ids
    BY <1>4 DEF RetireSettle, TypeOK
  <2>2. L \in Ledger
    BY <2>1, ReleaseType DEF TypeOK
  <2> HIDE DEF L
  <2>3. L.episodes[owned.id] \in Episode /\ rows[owned.id] \in Episode
    BY <2>1, <2>2, LedgerFields DEF TypeOK
  <2>4. e \in Episode
    BY <2>3 DEF Episode
  <2>5. book' = [L EXCEPT !.episodes = eps]
    BY <1>4, <2>2 DEF RetireSettle, Ledger, L
  <2>6. eps \in [Ids -> Episode]
    BY <2>1, <2>2, <2>4, PutEpisode
  <2> HIDE DEF eps
  <2>7. book' \in Ledger
    BY <2>2, <2>5, <2>6, LedgerPut
  <2> QED
    BY <1>4, <2>7 DEF RetireSettle, TypeOK, OwnedStages
<1>5. CASE Reconcile
  <2>1. owned.id \in Ids /\ book' \in Ledger
    BY <1>5, ReconciledType DEF Reconcile, TypeOK, Observation
  <2>2. book'.episodes[owned.id] \in Episode
    BY <2>1, LedgerFields
  <2> QED
    BY <1>5, <2>1, <2>2 DEF Reconcile, TypeOK, OwnedStages
<1>6. CASE OwnedSave
  <2>1. owned.id \in Ids /\ owned.snap \in Episode
    BY <1>6 DEF OwnedSave, TypeOK
  <2>2. rows' \in [Ids -> Episode]
    BY <1>6, <2>1, StoredType DEF OwnedSave
  <2> QED
    BY <1>6, <2>2, IdleTypes DEF OwnedSave, TypeOK, OwnedStages
<1>7. CASE CancelEntry
  <2>1. owned.id \in Ids /\ book' \in Ledger
    BY <1>7, CancelRequestedType DEF CancelEntry, TypeOK
  <2>2. book'.episodes[owned.id] \in Episode
    BY <2>1, LedgerFields
  <2> QED
    BY <1>7, <2>1, <2>2, IdleTypes DEF CancelEntry, TypeOK, OwnedStages
<1>8. CASE AbandonSettle
  <2>1. owned.id \in Ids /\ book' \in Ledger
    BY <1>8, ReleaseType DEF AbandonSettle, TypeOK
  <2>2. book'.episodes[owned.id] \in Episode
    BY <2>1, LedgerFields
  <2> QED
    BY <1>8, <2>1, <2>2 DEF AbandonSettle, TypeOK, OwnedStages
<1> QED
  BY <1>1, <1>2, <1>3, <1>4, <1>5, <1>6, <1>7, <1>8 DEF OwnedLane

\* The rows after the boot release are well-formed.
LEMMA BootRowsType == TypeOK => BootRows \in [Ids -> Episode]
<1> SUFFICES ASSUME TypeOK, NEW id \in Ids
             PROVE  [rows[id] EXCEPT !.state = "terminal_no_fill"] \in Episode
                    /\ rows[id] \in Episode
  BY DEF BootRows
<1> QED
  BY DEF TypeOK, Episode, TerminalStates

\* Broker reports, the operator, time and restarts keep the types.
LEMMA TypeEnvironment == TypeOK /\ Environment => TypeOK'
<1> SUFFICES ASSUME TypeOK, Environment PROVE TypeOK'
  OBVIOUS
<1>1. ASSUME NEW id \in Ids, BrokerReport(id) PROVE TypeOK'
  <2>1. truth[id].filled \in Nat /\ truth[id].exited \in Nat /\ MaxQty \in Nat
    BY AdmissionConstants DEF TypeOK, Observation
  <2>2. PICK filled \in truth[id].filled .. MaxQty, terminal \in BOOLEAN, outstanding \in BOOLEAN :
          \E exited \in truth[id].exited .. filled :
            truth' = [truth EXCEPT ![id] = [filled |-> filled, exited |-> exited,
                                            terminal |-> terminal, outstanding |-> outstanding]]
    BY <1>1 DEF BrokerReport
  <2>3. PICK exited \in truth[id].exited .. filled :
          truth' = [truth EXCEPT ![id] = [filled |-> filled, exited |-> exited,
                                          terminal |-> terminal, outstanding |-> outstanding]]
    BY <2>2
  <2>4. [filled |-> filled, exited |-> exited, terminal |-> terminal, outstanding |-> outstanding]
          \in Observation
    BY <2>1 DEF Observation
  <2>5. truth' \in [Ids -> Observation]
    BY <2>3, <2>4 DEF TypeOK
  <2> QED
    BY <1>1, <2>5 DEF BrokerReport, TypeOK
<1>2. CASE Operator
  BY <1>2 DEF Operator, TypeOK
<1>3. CASE Tick
  BY <1>3 DEF Tick, TypeOK
<1>4. CASE Restart
  <2>1. EmptyLedger \in Ledger /\ Restored(BootRows) \in Ledger /\ BootRows \in [Ids -> Episode]
    BY EmptyLedgerType, BootRowsType, RestoredType
  <2>2. [EmptyLedger EXCEPT !.ready = FALSE] \in Ledger
    BY <2>1 DEF Ledger
  <2>3. book' \in Ledger /\ rows' \in [Ids -> Episode] /\ boot' \in {"up", "refused"}
    BY <1>4, <2>1, <2>2 DEF Restart, TypeOK
  <2> QED
    BY <1>4, <2>3, IdleTypes DEF Restart, TypeOK
<1> QED
  BY <1>1, <1>2, <1>3, <1>4 DEF Environment

\* Every variable of the admission protocol keeps its type.
THEOREM TypeCorrect == Spec => []TypeOK
<1>1. TypeOK /\ UNCHANGED vars => TypeOK'
  BY DEF TypeOK, vars
<1> QED
  BY <1>1, TypeInit, TypeEntry, TypeOwned, TypeEnvironment, PTL DEF Spec, Next

------------------------------------------------------------------------------
(* The counter and the by-symbol index: one lemma per ledger operator.      *)

\* The by-symbol index is finite, so its size is a number.
LEMMA IndexedFinite ==
  ASSUME NEW L
  PROVE  IsFiniteSet(IndexedIds(L)) /\ Cardinality(IndexedIds(L)) \in Nat
  BY LedgerConstants, FS_Subset, FS_CardinalityType DEF IndexedIds

\* A restored ledger indexes exactly its active episodes.
LEMMA RestoredAgrees ==
  ASSUME NEW eps \in [Ids -> Episode]
  PROVE  /\ LedgerAgrees(Restored(eps))
         /\ \A id \in Ids : eps[id].state \in ActiveStates
                             => id \in Restored(eps).active[SymbolOf(id)]
<1>1. \A s \in Symbols : Restored(eps).active[s] = ActiveOn(eps, s)
  BY DEF Restored
<1>2. \A id \in Ids : id \in Restored(eps).active[SymbolOf(id)] <=> id \in ActiveIds(eps)
  BY <1>1, IdFacts DEF ActiveOn, ActiveIds
<1>3. IndexedIds(Restored(eps)) = ActiveIds(eps)
  BY <1>2 DEF IndexedIds, ActiveIds
<1>4. Restored(eps).episodes = eps /\ Restored(eps).count = Cardinality(ActiveIds(eps))
  BY DEF Restored
<1> QED
  BY <1>1, <1>2, <1>3, <1>4 DEF LedgerAgrees, ActiveIds

\* Rewriting episodes without ending any leaves the index in agreement.
LEMMA RewriteAgrees ==
  ASSUME NEW L \in Ledger, LedgerAgrees(L), NEW R \in Ledger,
         R.active = L.active, R.count = L.count,
         \A id \in Ids : L.episodes[id].state \in ActiveStates
                         => R.episodes[id].state \in ActiveStates
  PROVE  LedgerAgrees(R)
<1>1. IndexedIds(R) = IndexedIds(L)
  BY DEF IndexedIds
<1> QED
  BY <1>1 DEF LedgerAgrees, ActiveOn, ActiveIds

\* claim() indexes the episode it opens and counts it once.
LEMMA OpenedAgrees ==
  ASSUME NEW L \in Ledger, LedgerAgrees(L), NEW sig \in Signal, L.active[sig.symbol] = {}
  PROVE  /\ LedgerAgrees(Opened(L, sig))
         /\ IdOfSignal(sig) \in Opened(L, sig).active[sig.symbol]
         /\ \A other \in Ids : other # IdOfSignal(sig) =>
              /\ Opened(L, sig).episodes[other] = L.episodes[other]
              /\ other \in Opened(L, sig).active[SymbolOf(other)]
                   <=> other \in L.active[SymbolOf(other)]
<1> DEFINE id == IdOfSignal(sig)
           R == Opened(L, sig)
<1>1. id \in Ids /\ SymbolOf(id) = sig.symbol /\ sig.symbol \in Symbols
  BY SignalFacts
<1>2. /\ R.active = [L.active EXCEPT ![sig.symbol] = @ \cup {id}]
      /\ R.count = L.count + 1
      /\ \A other \in Ids : other # id => R.episodes[other] = L.episodes[other]
      /\ R.episodes[id].state = "claimed"
  BY <1>1, AbsentType DEF Opened, Ledger, Episode
<1>3. \A other \in Ids : other # id =>
        (other \in R.active[SymbolOf(other)] <=> other \in L.active[SymbolOf(other)])
  BY <1>1, <1>2, IdFacts, LedgerFields
<1>4. id \in R.active[SymbolOf(id)] /\ id \notin L.active[SymbolOf(id)]
  BY <1>1, <1>2, LedgerFields
<1>5. IndexedIds(R) = IndexedIds(L) \cup {id} /\ id \notin IndexedIds(L)
  BY <1>1, <1>3, <1>4 DEF IndexedIds
<1>6. Cardinality(IndexedIds(R)) = Cardinality(IndexedIds(L)) + 1
  BY <1>5, IndexedFinite, FS_AddElement
<1>7. \A s \in Symbols : R.active[s] \subseteq ActiveOn(R.episodes, s)
  <2> SUFFICES ASSUME NEW s \in Symbols, NEW other \in R.active[s]
               PROVE  other \in ActiveOn(R.episodes, s)
    OBVIOUS
  <2>1. CASE other = id /\ s = sig.symbol
    BY <2>1, <1>1, <1>2 DEF ActiveOn, ActiveIds, ActiveStates
  <2>2. CASE ~(other = id /\ s = sig.symbol)
    <3>1. other \in L.active[s]
      BY <2>2, <1>1, <1>2, LedgerFields
    <3>2. other \in ActiveOn(L.episodes, s)
      BY <3>1 DEF LedgerAgrees
    <3>3. other # id
      BY <3>1, <3>2, <1>1 DEF ActiveOn
    <3> QED
      BY <3>2, <3>3, <1>2 DEF ActiveOn, ActiveIds
  <2> QED
    BY <2>1, <2>2
<1> HIDE DEF R
<1> QED
  BY <1>1, <1>2, <1>3, <1>4, <1>6, <1>7 DEF LedgerAgrees, R

\* reconcile() moves the counter exactly as it moves the index, for an episode that
\* is indexed if it is active; afterwards it is indexed if and only if it is active.
LEMMA ReconciledAgrees ==
  ASSUME NEW L \in Ledger, LedgerAgrees(L), NEW id \in Ids,
         L.episodes[id].state \in ActiveStates => id \in L.active[SymbolOf(id)],
         NEW filled \in Nat, NEW exited \in Nat,
         NEW terminal \in BOOLEAN, NEW outstanding \in BOOLEAN, NEW now \in Nat
  PROVE  LET R == Reconciled(L, id, filled, exited, terminal, outstanding, now)
         IN /\ LedgerAgrees(R)
            /\ R.episodes[id].state \in ActiveStates <=> id \in R.active[SymbolOf(id)]
            /\ R.episodes[id].state
                 = ReconciledState(L.episodes[id], filled, exited, terminal, outstanding)
            /\ \A other \in Ids : other # id =>
                 /\ R.episodes[other] = L.episodes[other]
                 /\ other \in R.active[SymbolOf(other)] <=> other \in L.active[SymbolOf(other)]
<1> DEFINE R == Reconciled(L, id, filled, exited, terminal, outstanding, now)
           e == L.episodes[id]
           f == ReconciledEpisode(e, filled, exited, terminal, outstanding, now)
<1>1. e \in Episode /\ SymbolOf(id) \in Symbols
  BY IdFacts, LedgerFields
<1>2. f.state = ReconciledState(e, filled, exited, terminal, outstanding)
  BY <1>1 DEF ReconciledEpisode, Episode
<1> HIDE DEF f
<1>3. /\ R.active = [L.active EXCEPT ![SymbolOf(id)] = IF f.state \in ActiveStates
                                                       THEN @ \cup {id} ELSE @ \ {id}]
      /\ R.count = L.count + One(f.state \in ActiveStates) - One(e.state \in ActiveStates)
      /\ R.episodes = [L.episodes EXCEPT ![id] = f]
  BY DEF Reconciled, Ledger, f
<1> HIDE DEF R
<1>4. /\ R.episodes[id] = f
      /\ \A other \in Ids : other # id => R.episodes[other] = L.episodes[other]
  BY <1>3, LedgerFields
<1>5. \A other \in Ids : other # id =>
        (other \in R.active[SymbolOf(other)] <=> other \in L.active[SymbolOf(other)])
  BY <1>1, <1>3, IdFacts, LedgerFields
<1>6. f.state \in ActiveStates <=> id \in R.active[SymbolOf(id)]
  BY <1>1, <1>3, LedgerFields
<1>7. e.state \in ActiveStates <=> id \in IndexedIds(L)
  BY <1>1 DEF LedgerAgrees, IndexedIds, ActiveOn, ActiveIds
<1>8. \A s \in Symbols : R.active[s] \subseteq ActiveOn(R.episodes, s)
  <2> SUFFICES ASSUME NEW s \in Symbols, NEW other \in R.active[s]
               PROVE  other \in ActiveOn(R.episodes, s)
    OBVIOUS
  <2>1. CASE other = id
    <3>1. s = SymbolOf(id)
      BY <2>1, <1>1, <1>3, LedgerFields DEF LedgerAgrees, ActiveOn
    <3> QED
      BY <2>1, <3>1, <1>4, <1>6 DEF ActiveOn, ActiveIds
  <2>2. CASE other # id
    <3>1. other \in L.active[s]
      BY <2>2, <1>1, <1>3, LedgerFields
    <3> QED
      BY <2>2, <3>1, <1>4 DEF LedgerAgrees, ActiveOn, ActiveIds
  <2> QED
    BY <2>1, <2>2
<1>9. R.count = Cardinality(IndexedIds(R))
  <2>1. CASE f.state \in ActiveStates
    <3>1. IndexedIds(R) = IndexedIds(L) \cup {id}
      BY <2>1, <1>5, <1>6 DEF IndexedIds
    <3>2. Cardinality(IndexedIds(R))
            = IF id \in IndexedIds(L) THEN Cardinality(IndexedIds(L)) ELSE Cardinality(IndexedIds(L)) + 1
      BY <3>1, IndexedFinite, FS_AddElement
    <3> QED
      BY <2>1, <3>2, <1>3, <1>7, IndexedFinite DEF LedgerAgrees, One
  <2>2. CASE f.state \notin ActiveStates
    <3>1. IndexedIds(R) = IndexedIds(L) \ {id}
      BY <2>2, <1>5, <1>6 DEF IndexedIds
    <3>2. Cardinality(IndexedIds(R))
            = IF id \in IndexedIds(L) THEN Cardinality(IndexedIds(L)) - 1 ELSE Cardinality(IndexedIds(L))
      BY <3>1, IndexedFinite, FS_RemoveElement
    <3> QED
      BY <2>2, <3>2, <1>3, <1>7, IndexedFinite DEF LedgerAgrees, One
  <2> QED
    BY <2>1, <2>2
<1> QED
  BY <1>2, <1>4, <1>5, <1>6, <1>8, <1>9 DEF LedgerAgrees, R

------------------------------------------------------------------------------
(* The inductive invariant of the index.                                    *)

\* Only the entry lane moved, and it works on an episode it already worked on.
LEMMA IndexEntryMoves ==
  ASSUME IndexInv, book' = book, owned' = owned,
         Working' => Working /\ entry'.id = entry.id
  PROVE  IndexInv'
  BY DEF IndexInv, IndexAgrees, Indexed, Listed

\* Only the owned lane moved, onto an episode that is indexed if it is active.
LEMMA IndexOwnedMoves ==
  ASSUME IndexInv, book' = book, entry' = entry,
         owned'.stage \in {"observed", "retired", "abandoned"} => Listed(owned'.id),
         owned'.stage \in {"saving", "saved"} => owned.stage = "saving" /\ owned'.id = owned.id
                                                  /\ owned'.obs = owned.obs
  PROVE  IndexInv'
  BY DEF IndexInv, IndexAgrees, Indexed, Listed, Working

\* The first ledger is in agreement.
LEMMA IndexInit == Init => IndexInv
<1> SUFFICES ASSUME Init PROVE IndexInv
  OBVIOUS
<1>1. [id \in Ids |-> Absent] \in [Ids -> Episode]
  BY AbsentType
<1>2. LedgerAgrees(book)
  BY <1>1, RestoredAgrees DEF Init, EmptyLedger
<1>3. \A id \in Ids : book.episodes[id].state = "absent"
  BY DEF Init, EmptyLedger, Restored, Absent
<1>4. entry.stage = "idle" /\ owned.stage = "idle"
  BY IdleTypes DEF Init
<1> QED
  BY <1>2, <1>3, <1>4 DEF IndexInv, IndexAgrees, Working

\* An episode rewritten in place keeps the invariant as long as it stays active.
LEMMA IndexRewrite ==
  ASSUME TypeOK, IndexInv, NEW id \in Ids, book' \in Ledger,
         book'.active = book.active, book'.count = book.count,
         \A other \in Ids \ {id} : book'.episodes[other].state = book.episodes[other].state,
         book.episodes[id].state \in ActiveStates => book'.episodes[id].state \in ActiveStates,
         Indexed(id) \/ book'.episodes[id].state = book.episodes[id].state,
         owned' = owned,
         Working' => Working /\ entry'.id = entry.id
  PROVE  IndexInv'
<1>1. \A other \in Ids : book.episodes[other].state \in ActiveStates
                          => book'.episodes[other].state \in ActiveStates
  OBVIOUS
<1>2. LedgerAgrees(book')
  BY <1>1, RewriteAgrees DEF IndexInv, IndexAgrees, TypeOK
<1>3. \A other \in Ids : Indexed(other)' <=> Indexed(other)
  BY DEF Indexed
<1>4. \A other \in Ids : Listed(other) => Listed(other)'
  BY <1>3 DEF Listed, Indexed
<1>5. (\A other \in Ids : book.episodes[other].state = "claimed" => Indexed(other))'
  BY <1>3 DEF IndexInv
<1>6. Working => entry.id \in Ids
  BY DEF Working, TypeOK
<1>7. owned.stage # "idle" => owned.id \in Ids
  BY DEF TypeOK
<1> QED
  BY <1>2, <1>3, <1>4, <1>5, <1>6, <1>7 DEF IndexInv, IndexAgrees

\* reconcile() of an episode that is indexed if it is active keeps the index in
\* agreement, and every other episode where it was.
LEMMA IndexReconcile ==
  ASSUME TypeOK, IndexInv, NEW id \in Ids, Listed(id),
         NEW filled \in Nat, NEW exited \in Nat,
         NEW terminal \in BOOLEAN, NEW outstanding \in BOOLEAN,
         book' \in Ledger,
         book'.active = Reconciled(book, id, filled, exited, terminal, outstanding, clock).active,
         book'.count = Reconciled(book, id, filled, exited, terminal, outstanding, clock).count,
         \A other \in Ids : book'.episodes[other].state
           = Reconciled(book, id, filled, exited, terminal, outstanding, clock).episodes[other].state
  PROVE  /\ IndexAgrees'
         /\ \A other \in Ids : Listed(other) => Listed(other)'
         /\ \A other \in Ids : Indexed(other) /\ other # id => Indexed(other)'
         /\ \A other \in Ids : book'.episodes[other].state = "claimed" => Indexed(other)'
         /\ book'.episodes[id].state
              = ReconciledState(book.episodes[id], filled, exited, terminal, outstanding)
         /\ book'.episodes[id].state \in ActiveStates => Indexed(id)'
<1> DEFINE R == Reconciled(book, id, filled, exited, terminal, outstanding, clock)
<1> HIDE DEF R
<1>r. /\ book'.active = R.active /\ book'.count = R.count
      /\ \A other \in Ids : book'.episodes[other].state = R.episodes[other].state
  BY DEF R
<1>1. book \in Ledger /\ clock \in Nat /\ LedgerAgrees(book)
  BY DEF TypeOK, IndexInv, IndexAgrees
<1>2. book.episodes[id].state \in ActiveStates => id \in book.active[SymbolOf(id)]
  BY DEF Listed, Indexed
<1>3. /\ LedgerAgrees(R)
      /\ R.episodes[id].state \in ActiveStates <=> id \in R.active[SymbolOf(id)]
      /\ R.episodes[id].state
           = ReconciledState(book.episodes[id], filled, exited, terminal, outstanding)
      /\ \A other \in Ids : other # id =>
           /\ R.episodes[other] = book.episodes[other]
           /\ other \in R.active[SymbolOf(other)] <=> other \in book.active[SymbolOf(other)]
  BY <1>1, <1>2, ReconciledAgrees DEF R
<1>4. R \in Ledger
  BY <1>1, ReconciledType DEF R
<1>5. LedgerAgrees(book')
  BY <1>r, <1>3, <1>4, RewriteAgrees
<1>6. \A other \in Ids : book.episodes[other].state = "claimed" => other \in book.active[SymbolOf(other)]
  BY DEF IndexInv, Indexed
<1> QED
  BY <1>r, <1>2, <1>3, <1>5, <1>6 DEF IndexAgrees, Indexed, Listed, ActiveStates

\* A claim that a lane releases: the ledger and the lane that does it.
LEMMA IndexRelease ==
  ASSUME TypeOK, IndexInv, TypeOK', NEW id \in Ids, Listed(id),
         book' = Release(book, id), ~Working' \/ entry' = entry,
         owned' = owned \/ owned'.stage = "closing",
         Working' /\ owned'.stage \in {"saving", "saved"} => entry.id # id
  PROVE  IndexInv'
<1>1. book' = Reconciled(book, id, 0, 0, TRUE, FALSE, clock) /\ book' \in Ledger
  BY DEF Release, TypeOK
<1>2. /\ IndexAgrees'
      /\ \A other \in Ids : Listed(other) => Listed(other)'
      /\ \A other \in Ids : Indexed(other) /\ other # id => Indexed(other)'
      /\ \A other \in Ids : book'.episodes[other].state = "claimed" => Indexed(other)'
  BY <1>1, IndexReconcile
<1>3. (entry.stage # "idle" => entry.id \in Ids) /\ (owned.stage # "idle" => owned.id \in Ids)
  BY DEF TypeOK
<1>4. (Working => Listed(entry.id))'
  BY <1>2, <1>3 DEF IndexInv, Working
<1>5. (owned.stage \in {"observed", "retired", "abandoned"} => Listed(owned.id))'
  BY <1>2, <1>3 DEF IndexInv
<1>6. (/\ owned.stage \in {"saving", "saved"} /\ ~owned.obs.terminal
       /\ Working /\ entry.id = owned.id
       => Indexed(owned.id))'
  BY <1>2, <1>3 DEF IndexInv, Working
<1>7. (\A other \in Ids : book.episodes[other].state = "claimed" => Indexed(other))'
  BY <1>2
<1> QED
  BY <1>2, <1>4, <1>5, <1>6, <1>7 DEF IndexInv

\* Every step of the entry lane keeps the index invariant.
LEMMA IndexEntry == TypeOK /\ TypeOK' /\ IndexInv /\ EntryLane => IndexInv'
<1> SUFFICES ASSUME TypeOK, TypeOK', IndexInv, EntryLane PROVE IndexInv'
  OBVIOUS
<1>a. entry.stage # "idle" => entry.id \in Ids
  BY DEF TypeOK
<1>b. book \in Ledger /\ book' \in Ledger
  BY DEF TypeOK
<1>1. ASSUME NEW sig \in Signals, ClaimKnown(sig) PROVE IndexInv'
  BY <1>1, IndexEntryMoves DEF ClaimKnown, At, Working
<1>2. ASSUME NEW sig \in Signals, ClaimMerged(sig) PROVE IndexInv'
  <2>1. Prior(book, sig) \in Ids
    BY <1>2, PriorType, AdmissionConstants DEF ClaimMerged, Merges, SameMove, TypeOK
  <2>2. book.episodes[Prior(book, sig)] \in Episode
    BY <1>b, <2>1, LedgerFields
  <2>3. /\ book'.active = book.active /\ book'.count = book.count
        /\ \A other \in Ids : book'.episodes[other].state = book.episodes[other].state
    BY <1>2, <1>b, <2>1, <2>2 DEF ClaimMerged, Merged, Ledger, Episode
  <2>4. ~Working'
    BY <1>2 DEF ClaimMerged, At, Working
  <2> QED
    BY <1>2, <1>b, <2>1, <2>3, <2>4, IndexRewrite DEF ClaimMerged
<1>3. ASSUME NEW sig \in Signals, ClaimOpened(sig) PROVE IndexInv'
  <2> DEFINE id == IdOfSignal(sig)
  <2>1. sig \in Signal /\ id \in Ids /\ SymbolOf(id) = sig.symbol
    BY AdmissionConstants, SignalFacts
  <2>2. book.active[sig.symbol] = {} /\ book' = Opened(book, sig) /\ owned' = owned
    BY <1>3 DEF ClaimOpened, Opens
  <2>3. /\ LedgerAgrees(book')
        /\ id \in book'.active[sig.symbol]
        /\ \A other \in Ids : other # id =>
             /\ book'.episodes[other] = book.episodes[other]
             /\ other \in book'.active[SymbolOf(other)] <=> other \in book.active[SymbolOf(other)]
    BY <1>b, <2>1, <2>2, OpenedAgrees DEF IndexInv, IndexAgrees
  <2>4. Indexed(id)' /\ entry'.id = id
    BY <1>3, <2>1, <2>3 DEF Indexed, ClaimOpened, At
  <2>5. \A other \in Ids : Listed(other) => Listed(other)'
    BY <2>3, <2>4 DEF Listed, Indexed
  <2>6. (\A other \in Ids : book.episodes[other].state = "claimed" => Indexed(other))'
    BY <2>3, <2>4 DEF IndexInv, Indexed
  <2>7. owned.stage # "idle" => owned.id \in Ids
    BY DEF TypeOK
  <2>8. Listed(id)'
    BY <2>4 DEF Listed
  <2> HIDE DEF id
  <2> QED
    BY <2>2, <2>3, <2>4, <2>5, <2>6, <2>7, <2>8 DEF IndexInv, IndexAgrees
<1>4. CASE DurableClaim
  BY <1>4, IndexEntryMoves DEF DurableClaim, Idle, Working, EntryStages, TypeOK
<1>5. CASE QuoteExpired
  BY <1>5, <1>a, IndexRelease DEF QuoteExpired, At, Working, EntryStages, IndexInv
<1>6. CASE PrepareOrder
  BY <1>6, IndexEntryMoves DEF PrepareOrder, Idle, Working, EntryStages, TypeOK
<1>7. CASE BeginSubmit
  <2>1. entry.id \in Ids /\ book.episodes[entry.id] \in Episode
    BY <1>7, <1>a, <1>b, LedgerFields DEF BeginSubmit
  <2>2. book.episodes[entry.id].state = "claimed" /\ Indexed(entry.id)
    BY <1>7, <2>1 DEF BeginSubmit, MaySubmit, IndexInv
  <2>3. /\ book'.active = book.active /\ book'.count = book.count
        /\ \A other \in Ids \ {entry.id} : book'.episodes[other].state = book.episodes[other].state
        /\ book'.episodes[entry.id].state = "submitting"
    BY <1>7, <1>b, <2>1 DEF BeginSubmit, Submitted, Ledger, Episode
  <2>4. Working /\ entry'.id = entry.id /\ owned' = owned
    BY <1>7 DEF BeginSubmit, At, Working, EntryStages
  <2> QED
    BY <1>b, <2>1, <2>2, <2>3, <2>4, IndexRewrite DEF ActiveStates
<1>8. CASE CommitSubmitting
  BY <1>8, IndexEntryMoves DEF CommitSubmitting, Working, EntryStages, TypeOK
<1>9. CASE RepriceConflict
  <2>1. entry.id \in Ids /\ book.episodes[entry.id] \in Episode
    BY <1>9, <1>a, <1>b, LedgerFields DEF RepriceConflict
  <2>2. ~Working' /\ owned' = owned
    BY <1>9 DEF RepriceConflict, Idle, Working
  <2>3. CASE book' = book
    BY <2>2, <2>3, IndexEntryMoves
  <2>4. CASE book' = [book EXCEPT !.episodes[entry.id] = AsCancelRequested(@)]
    <3>1. /\ book'.active = book.active /\ book'.count = book.count
          /\ \A other \in Ids \ {entry.id} : book'.episodes[other] = book.episodes[other]
          /\ book'.episodes[entry.id] = AsCancelRequested(book.episodes[entry.id])
      BY <2>4, <1>b, <2>1 DEF Ledger
    <3>2. /\ book.episodes[entry.id].state \in ActiveStates
               => book'.episodes[entry.id].state \in ActiveStates
          /\ book.episodes[entry.id].state = "claimed"
               \/ book'.episodes[entry.id].state = book.episodes[entry.id].state
      BY <2>1, <3>1 DEF AsCancelRequested, Episode, ActiveStates
    <3>3. Indexed(entry.id) \/ book'.episodes[entry.id].state = book.episodes[entry.id].state
      BY <2>1, <3>2 DEF IndexInv
    <3> QED
      BY <1>b, <2>1, <2>2, <3>1, <3>2, <3>3, IndexRewrite
  <2> QED
    BY <1>9, <2>3, <2>4 DEF RepriceConflict
<1>10. CASE RefuseBeforeWire
  BY <1>10, IndexEntryMoves DEF RefuseBeforeWire, Idle, Working, EntryStages, TypeOK
<1>11. CASE SettleRefusal
  BY <1>11, <1>a, IndexRelease DEF SettleRefusal, At, Working, EntryStages, IndexInv
<1>12. CASE Dispatch
  BY <1>12, IndexEntryMoves DEF Dispatch, Working
<1>13. CASE RecordRoute
  BY <1>13, IndexEntryMoves DEF RecordRoute, At, Working
<1>14. CASE SubmitFailed
  BY <1>14, IndexEntryMoves DEF SubmitFailed, Idle, Working
<1>15. CASE EntrySave
  BY <1>15, IndexEntryMoves DEF EntrySave, Idle, Working
<1> QED
  BY <1>1, <1>2, <1>3, <1>4, <1>5, <1>6, <1>7, <1>8, <1>9, <1>10, <1>11, <1>12, <1>13,
     <1>14, <1>15 DEF EntryLane

\* Every step of the owned lane keeps the index invariant.
LEMMA IndexOwned == TypeOK /\ TypeOK' /\ IndexInv /\ OwnedLane => IndexInv'
<1> SUFFICES ASSUME TypeOK, TypeOK', IndexInv, OwnedLane PROVE IndexInv'
  OBVIOUS
<1>a. (entry.stage # "idle" => entry.id \in Ids) /\ (owned.stage # "idle" => owned.id \in Ids)
  BY DEF TypeOK
<1>b. book \in Ledger /\ book' \in Ledger
  BY DEF TypeOK
<1>1. ASSUME NEW id \in Ids, Observe(id) PROVE IndexInv'
  BY <1>1, IndexOwnedMoves DEF Observe, Serviced, Listed, Indexed
<1>2. ASSUME NEW id \in Ids, RetireCommit(id) PROVE IndexInv'
  BY <1>2, IndexOwnedMoves DEF RetireCommit, Serviced, Listed, Indexed, Resting
<1>3. ASSUME NEW id \in Ids, AbandonCommit(id) PROVE IndexInv'
  <2>1. Listed(id)
    BY <1>3 DEF AbandonCommit, QuotePending, IndexInv, Listed
  <2> QED
    BY <1>3, <2>1, IndexOwnedMoves DEF AbandonCommit, Resting
<1>4. CASE RetireSettle
  <2> DEFINE R == Release(book, owned.id)
  <2>1. owned.id \in Ids /\ Listed(owned.id) /\ entry' = entry
    BY <1>4, <1>a DEF RetireSettle, IndexInv
  <2>2. R \in Ledger
    BY <2>1, <1>b, ReleaseType
  <2>3. /\ book'.active = R.active /\ book'.count = R.count
        /\ \A other \in Ids : book'.episodes[other].state = R.episodes[other].state
    <3> HIDE DEF R
    <3>1. book' = [R EXCEPT !.episodes[owned.id].closed = rows[owned.id].closed]
      BY <1>4 DEF RetireSettle, R
    <3>2. R.episodes[owned.id] \in Episode
      BY <2>1, <2>2, LedgerFields
    <3> QED
      BY <2>1, <2>2, <3>1, <3>2 DEF Ledger, Episode
  <2>4. PICK terminal \in BOOLEAN, outstanding \in BOOLEAN :
          R = Reconciled(book, owned.id, 0, 0, terminal, outstanding, clock)
    BY DEF Release
  <2> HIDE DEF R
  <2>5. /\ IndexAgrees'
        /\ \A other \in Ids : Listed(other) => Listed(other)'
        /\ (\A other \in Ids : book.episodes[other].state = "claimed" => Indexed(other))'
    BY <1>b, <2>1, <2>3, <2>4, IndexReconcile
  <2>6. owned'.stage = "observed" /\ owned'.id = owned.id
    BY <1>4 DEF RetireSettle, TypeOK
  <2> QED
    BY <1>a, <2>1, <2>5, <2>6 DEF IndexInv, Working
<1>5. CASE Reconcile
  <2>1. owned.id \in Ids /\ Listed(owned.id) /\ entry' = entry
    BY <1>5, <1>a DEF Reconcile, IndexInv
  <2>2. /\ owned.obs.filled \in Nat /\ owned.obs.exited \in Nat
        /\ owned.obs.terminal \in BOOLEAN /\ owned.obs.outstanding \in BOOLEAN
    BY DEF TypeOK, Observation
  <2>3. book' = Reconciled(book, owned.id, owned.obs.filled, owned.obs.exited,
                           owned.obs.terminal, owned.obs.outstanding, clock)
    BY <1>5 DEF Reconcile
  <2>4. /\ IndexAgrees'
        /\ \A other \in Ids : Listed(other) => Listed(other)'
        /\ (\A other \in Ids : book.episodes[other].state = "claimed" => Indexed(other))'
        /\ book'.episodes[owned.id].state
             = ReconciledState(book.episodes[owned.id], owned.obs.filled, owned.obs.exited,
                               owned.obs.terminal, owned.obs.outstanding)
        /\ book'.episodes[owned.id].state \in ActiveStates
             => owned.id \in book'.active[SymbolOf(owned.id)]
    BY <1>b, <2>1, <2>2, <2>3, IndexReconcile DEF Indexed
  <2>5. owned'.stage = "saving" /\ owned'.id = owned.id /\ owned'.obs = owned.obs
    BY <1>5 DEF Reconcile, TypeOK
  <2>6. ~owned.obs.terminal => owned.id \in book'.active[SymbolOf(owned.id)]
    BY <2>2, <2>4 DEF ReconciledState, ActiveStates
  <2>7. (owned.stage \in {"saving", "saved"} /\ ~owned.obs.terminal => Indexed(owned.id))'
    BY <2>5, <2>6 DEF Indexed
  <2>8. (Working => Listed(entry.id))'
    BY <1>a, <2>1, <2>4 DEF IndexInv, Working
  <2> QED
    BY <2>4, <2>5, <2>7, <2>8 DEF IndexInv
<1>6. CASE OwnedSave
  BY <1>6, IndexOwnedMoves DEF OwnedSave, Resting, TypeOK
<1>7. CASE CancelEntry
  <2>1. owned.id \in Ids /\ book.episodes[owned.id] \in Episode /\ entry' = entry
    BY <1>7, <1>a, <1>b, LedgerFields DEF CancelEntry
  <2>2. CASE ~(ForcedCancel \/ IsCancelDue(book, owned.id, clock))
    BY <1>7, <2>2, IndexOwnedMoves DEF CancelEntry, Resting
  <2>3. CASE ForcedCancel \/ IsCancelDue(book, owned.id, clock)
    <3>1. /\ book'.active = book.active /\ book'.count = book.count
          /\ \A other \in Ids \ {owned.id} : book'.episodes[other] = book.episodes[other]
          /\ book'.episodes[owned.id].state = "cancel_requested"
      <4>1. book' = CancelRequested(book, owned.id)
        BY <1>7, <2>3 DEF CancelEntry
      <4> QED
        BY <1>b, <2>1, <4>1 DEF CancelRequested, Ledger, Episode
    <3>2. owned'.stage = "closing"
      BY <1>7, <2>3 DEF CancelEntry, TypeOK
    <3>3. LedgerAgrees(book')
      BY <1>b, <2>1, <3>1, RewriteAgrees DEF IndexInv, IndexAgrees, ActiveStates
    <3>4. Working /\ entry.id = owned.id => Indexed(owned.id)
      <4>1. CASE owned.obs.terminal
        BY <1>7, <2>3, <4>1
           DEF CancelEntry, ForcedCancel, IsCancelDue, IndexInv, Listed, ActiveStates
      <4>2. CASE ~owned.obs.terminal
        BY <1>7, <4>2 DEF CancelEntry, IndexInv
      <4> QED
        BY <4>1, <4>2
    <3>5. Working => Listed(entry.id)'
      BY <1>a, <2>1, <3>1, <3>4 DEF IndexInv, Listed, Indexed, Working
    <3>6. (\A other \in Ids : book.episodes[other].state = "claimed" => Indexed(other))'
      BY <2>1, <3>1 DEF IndexInv, Indexed
    <3> QED
      BY <2>1, <3>2, <3>3, <3>5, <3>6 DEF IndexInv, IndexAgrees, Working
  <2> QED
    BY <2>2, <2>3
<1>8. CASE AbandonSettle
  <2>1. owned.id \in Ids /\ Listed(owned.id) /\ book' = Release(book, owned.id) /\ entry' = entry
    BY <1>8, <1>a DEF AbandonSettle, IndexInv
  <2>2. owned'.stage = "closing"
    BY <1>8 DEF AbandonSettle, TypeOK
  <2> QED
    BY <2>1, <2>2, IndexRelease
<1> QED
  BY <1>1, <1>2, <1>3, <1>4, <1>5, <1>6, <1>7, <1>8 DEF OwnedLane

\* A restart rebuilds the index; nothing else outside the lanes touches it.
LEMMA IndexEnvironment == TypeOK /\ IndexInv /\ Environment => IndexInv'
<1> SUFFICES ASSUME TypeOK, IndexInv, Environment PROVE IndexInv'
  OBVIOUS
<1>1. CASE UNCHANGED <<book, entry, owned>>
  BY <1>1 DEF IndexInv, IndexAgrees, Indexed, Listed, Working
<1>2. CASE Restart
  <2>1. entry'.stage = "idle" /\ owned'.stage = "idle"
    BY <1>2, IdleTypes DEF Restart
  <2>2. CASE BootRefused
    <3>1. [id \in Ids |-> Absent] \in [Ids -> Episode]
      BY AbsentType
    <3>2. LedgerAgrees(EmptyLedger) /\ EmptyLedger \in Ledger
      BY <3>1, RestoredAgrees, EmptyLedgerType DEF EmptyLedger
    <3>3. /\ book' = [EmptyLedger EXCEPT !.ready = FALSE]
          /\ \A id \in Ids : EmptyLedger.episodes[id].state = "absent"
      BY <1>2, <2>2 DEF Restart, EmptyLedger, Restored, Absent
    <3>4. /\ book' \in Ledger /\ book'.active = EmptyLedger.active
          /\ book'.count = EmptyLedger.count /\ book'.episodes = EmptyLedger.episodes
      BY <3>2, <3>3 DEF Ledger
    <3>5. LedgerAgrees(book')
      BY <3>2, <3>4, RewriteAgrees
    <3> QED
      BY <2>1, <3>3, <3>4, <3>5 DEF IndexInv, IndexAgrees, Working
  <2>3. CASE ~BootRefused
    <3>1. book' = Restored(BootRows) /\ BootRows \in [Ids -> Episode]
      BY <1>2, <2>3, BootRowsType DEF Restart
    <3>2. book'.episodes = BootRows
      BY <3>1 DEF Restored
    <3>3. /\ LedgerAgrees(book')
          /\ \A id \in Ids : book'.episodes[id].state \in ActiveStates
                              => id \in book'.active[SymbolOf(id)]
      BY <3>1, <3>2, RestoredAgrees
    <3> QED
      BY <2>1, <3>3 DEF IndexInv, IndexAgrees, Working, Indexed, ActiveStates
  <2> QED
    BY <2>2, <2>3
<1> QED
  BY <1>1, <1>2 DEF Environment, BrokerReport, Operator, Tick

\* The admission count that claim() compares with the capacity is the number of
\* indexed episodes, all of them active: EpisodeLedger's incremental counter and
\* index survive every interleaving of the two lanes, STOP, crash and restart.
THEOREM IndexCorrect == Spec => []IndexAgrees
<1>1. IndexInv /\ UNCHANGED vars => IndexInv'
  BY DEF IndexInv, IndexAgrees, Indexed, Listed, Working, vars
<1>2. TypeOK /\ TypeOK' /\ IndexInv /\ [Next]_vars => IndexInv'
  BY <1>1, IndexEntry, IndexOwned, IndexEnvironment DEF Next
<1>3. IndexInv => IndexAgrees
  BY DEF IndexInv
<1> QED
  BY <1>2, <1>3, IndexInit, TypeCorrect, PTL DEF Spec

------------------------------------------------------------------------------
(* Sources: who owns a detection.                                           *)

\* An episode lists the source it is named after, and an absent one lists none.
Rooted(id, e) == IF e.state = "absent" THEN e.sources = {} ELSE id[3] \in e.sources

\* The source index is that of the episodes, and the latest episode of a key is one of its
\* own.  No lane holds an id the ledger does not know, and while the process is up no row
\* is unknown to the ledger either: a signal that the ledger does not know is new.
OriginInv ==
  /\ SourcesAgree
  /\ \A id \in Ids : Rooted(id, book.episodes[id]) /\ Rooted(id, rows[id])
  /\ \A key \in Keys : book.latest[key] # NoId =>
       KeyOf(book.latest[key]) = key /\ book.episodes[book.latest[key]].state # "absent"
  /\ Up => \A id \in Ids : rows[id].state # "absent" => book.episodes[id].state # "absent"
  /\ entry.stage # "idle" => /\ book.episodes[entry.id].state # "absent"
                             /\ entry.snap.state # "absent" /\ Rooted(entry.id, entry.snap)
  /\ owned.stage # "idle" => book.episodes[owned.id].state # "absent"
  /\ owned.stage \in {"saving", "closing"} =>
       owned.snap.state # "absent" /\ Rooted(owned.id, owned.snap)

------------------------------------------------------------------------------
(* Exposure: where an entry is between its claim and the broker.            *)

\* Its submission is on record and it is not over.
ActiveSent(e) == e.state \in ActiveStates /\ e.submitted # NoTime

\* The owned lane does not work on the episode.
Away(id) == owned.stage # "idle" => owned.id # id

\* The owned lane is not about to release the episode or to write it as released.
Keeps(id) ==
  owned.stage # "idle" /\ owned.id = id =>
    /\ owned.stage \notin {"retired", "abandoned"}
    /\ owned.stage = "observed" => ~Settled(owned.obs)
    /\ owned.stage \in {"saving", "closing"} => ActiveSent(owned.snap)

\* In memory the episode is still the fresh claim, or it is submitted and stays so.
Untouched(id) == QuotePending(book.episodes[id]) /\ Indexed(id) /\ Away(id)
Kept(id) == ActiveSent(book.episodes[id]) /\ Indexed(id) /\ Keeps(id)

\* STOP has abandoned the reservation, of which no order will be prepared any more.
Abandoned(id) ==
  /\ ~Unsent(id)
  /\ \/ owned.stage = "abandoned" /\ owned.id = id
     \/ /\ book.episodes[id].state \in TerminalStates
        /\ owned.stage # "idle" /\ owned.id = id =>
             owned.stage = "closing" /\ owned.snap.state \in TerminalStates

\* The stages of the entry lane.
StageInv ==
  LET id == entry.id IN
  /\ entry.stage = "claiming" => /\ rows[id].state = "absent" /\ Untouched(id)
                                 /\ QuotePending(entry.snap)
  /\ entry.stage = "quoting" => /\ order[id] = "none" /\ rows[id].state # "absent"
                                /\ (Unsent(id) /\ Untouched(id)) \/ Abandoned(id)
  /\ entry.stage = "prepared" => /\ order[id] \in {"prepared", "aborted"}
                                 /\ order[id] = "prepared" => Unsent(id) /\ Untouched(id)
  /\ entry.stage = "submitting" => /\ order[id] \in {"prepared", "aborted"}
                                   /\ ActiveSent(entry.snap)
                                   /\ order[id] = "prepared" => Kept(id)
  /\ entry.stage = "sent" => /\ order[id] \in {"prepared", "posted"}
                             /\ order[id] = "prepared" => ActiveSent(rows[id]) /\ Kept(id)
  /\ entry.stage = "settling" => order[id] = "aborted"

\* What holds of an episode the broker may act for.
Tracked(id) ==
  /\ ActiveSent(rows[id])
  /\ Up => Kept(id)
  /\ entry.stage # "idle" /\ entry.id = id =>
       entry.stage = "sent" \/ (entry.stage = "saving" /\ ActiveSent(entry.snap))

\* Exposed, or on its way there.
Reserved(id) == Exposed(id) \/ (Working /\ entry.id = id)

ExposureInv ==
  /\ \A id \in Ids : order[id] # "posted" => truth[id] = NothingSeen
  /\ \A id \in Ids : rows[id].state = "absent" => order[id] = "none"
  /\ ~Up => entry.stage = "idle" /\ owned.stage = "idle"
  /\ StageInv
  /\ \A id \in Ids : Exposed(id) => Tracked(id)
  /\ \A a, b \in Ids : Reserved(a) /\ Reserved(b) /\ SymbolOf(a) = SymbolOf(b) => a = b
  /\ Cardinality({id \in Ids : Reserved(id)}) <= Capacity

------------------------------------------------------------------------------
(* What each ledger operator changes.                                       *)

\* claim() of a new source changes the interval and the sources of one episode.
LEMMA MergedFacts ==
  ASSUME NEW L \in Ledger, NEW sig \in Signal, SameMove(L, sig)
  PROVE  LET R == Merged(L, sig)
             p == Prior(L, sig)
         IN /\ p \in Ids
            /\ R.active = L.active /\ R.latest = L.latest
            /\ R.sources = [L.sources EXCEPT ![IdOfSignal(sig)] = p]
            /\ \A other \in Ids : other # p => R.episodes[other] = L.episodes[other]
            /\ R.episodes[p].sources = L.episodes[p].sources \cup {sig.source}
            /\ R.episodes[p].state = L.episodes[p].state
            /\ R.episodes[p].submitted = L.episodes[p].submitted
            /\ R.episodes[p].filled = L.episodes[p].filled
<1>1. Prior(L, sig) \in Ids
  BY PriorType DEF SameMove
<1>2. L.episodes[Prior(L, sig)] \in Episode
  BY <1>1, LedgerFields
<1> QED
  BY <1>1, <1>2 DEF Merged, Ledger, Episode

\* claim() of a move nobody owns writes one episode and indexes it everywhere.
LEMMA OpenedFacts ==
  ASSUME NEW L \in Ledger, NEW sig \in Signal
  PROVE  LET R == Opened(L, sig)
             id == IdOfSignal(sig)
         IN /\ R.active = [L.active EXCEPT ![sig.symbol] = @ \cup {id}]
            /\ R.latest = [L.latest EXCEPT ![KeyOfSignal(sig)] = id]
            /\ R.sources = [L.sources EXCEPT ![id] = id]
            /\ \A other \in Ids : other # id => R.episodes[other] = L.episodes[other]
            /\ R.episodes[id].sources = {sig.source}
            /\ R.episodes[id].state = "claimed"
            /\ QuotePending(R.episodes[id])
  BY SignalFacts, AbsentType DEF Opened, Ledger, Episode, QuotePending, Absent

\* begin_submit() changes one episode.
LEMMA SubmittedFacts ==
  ASSUME NEW L \in Ledger, NEW id \in Ids, NEW now \in Nat
  PROVE  LET R == Submitted(L, id, now)
         IN /\ R.active = L.active /\ R.latest = L.latest /\ R.sources = L.sources
            /\ \A other \in Ids : other # id => R.episodes[other] = L.episodes[other]
            /\ R.episodes[id].sources = L.episodes[id].sources
            /\ R.episodes[id].state = "submitting"
            /\ R.episodes[id].submitted = now
<1>1. L.episodes[id] \in Episode
  BY LedgerFields
<1> QED
  BY <1>1 DEF Submitted, Ledger, Episode

\* cancel_due() changes one episode.
LEMMA CancelFacts ==
  ASSUME NEW L \in Ledger, NEW id \in Ids
  PROVE  LET R == CancelRequested(L, id)
         IN /\ R.active = L.active /\ R.latest = L.latest /\ R.sources = L.sources
            /\ \A other \in Ids : other # id => R.episodes[other] = L.episodes[other]
            /\ R.episodes[id].sources = L.episodes[id].sources
            /\ R.episodes[id].state = "cancel_requested"
            /\ R.episodes[id].submitted = L.episodes[id].submitted
<1>1. L.episodes[id] \in Episode
  BY LedgerFields
<1> QED
  BY <1>1 DEF CancelRequested, Ledger, Episode

\* reconcile() changes one episode and its place in the by-symbol index.
LEMMA ReconciledFacts ==
  ASSUME NEW L \in Ledger, NEW id \in Ids, NEW filled, NEW exited,
         NEW terminal, NEW outstanding, NEW now,
         NEW R, R = Reconciled(L, id, filled, exited, terminal, outstanding, now)
  PROVE  /\ R.latest = L.latest /\ R.sources = L.sources
         /\ \A other \in Ids : other # id =>
              /\ R.episodes[other] = L.episodes[other]
              /\ other \in R.active[SymbolOf(other)] <=> other \in L.active[SymbolOf(other)]
         /\ R.episodes[id].sources = L.episodes[id].sources
         /\ R.episodes[id].submitted = L.episodes[id].submitted
         /\ R.episodes[id].state
              = ReconciledState(L.episodes[id], filled, exited, terminal, outstanding)
         /\ R.episodes[id].state \in ActiveStates <=> id \in R.active[SymbolOf(id)]
<1> DEFINE e == L.episodes[id]
           f == ReconciledEpisode(e, filled, exited, terminal, outstanding, now)
<1>1. e \in Episode /\ SymbolOf(id) \in Symbols
  BY IdFacts, LedgerFields
<1>2. /\ f.state = ReconciledState(e, filled, exited, terminal, outstanding)
      /\ f.sources = e.sources /\ f.submitted = e.submitted
  BY <1>1 DEF ReconciledEpisode, Episode
<1> HIDE DEF f
<1>3. /\ R.active = [L.active EXCEPT ![SymbolOf(id)] = IF f.state \in ActiveStates
                                                       THEN @ \cup {id} ELSE @ \ {id}]
      /\ R.episodes = [L.episodes EXCEPT ![id] = f]
      /\ R.latest = L.latest /\ R.sources = L.sources
  BY DEF Reconciled, Ledger, f
<1>4. /\ R.episodes[id] = f
      /\ \A other \in Ids : other # id => R.episodes[other] = L.episodes[other]
  BY <1>3, LedgerFields
<1>5. \A other \in Ids : other # id =>
        (other \in R.active[SymbolOf(other)] <=> other \in L.active[SymbolOf(other)])
  BY <1>1, <1>3, IdFacts, LedgerFields
<1>6. f.state \in ActiveStates <=> id \in R.active[SymbolOf(id)]
  BY <1>1, <1>3, LedgerFields
<1> QED
  BY <1>2, <1>3, <1>4, <1>5, <1>6

\* reconcile() with an observation.
LEMMA ObservedFacts ==
  ASSUME TypeOK, NEW id \in Ids, NEW obs \in Observation,
         NEW R, R = Reconciled(book, id, obs.filled, obs.exited, obs.terminal, obs.outstanding, clock)
  PROVE  /\ R.latest = book.latest /\ R.sources = book.sources
         /\ \A other \in Ids : other # id =>
              /\ R.episodes[other] = book.episodes[other]
              /\ other \in R.active[SymbolOf(other)] <=> other \in book.active[SymbolOf(other)]
         /\ R.episodes[id].sources = book.episodes[id].sources
         /\ R.episodes[id].submitted = book.episodes[id].submitted
         /\ R.episodes[id].state = ReconciledState(book.episodes[id], obs.filled, obs.exited,
                                                   obs.terminal, obs.outstanding)
         /\ R.episodes[id].state \in ActiveStates <=> id \in R.active[SymbolOf(id)]
<1>1. book \in Ledger /\ clock \in Nat
  BY DEF TypeOK
<1>2. /\ obs.filled \in Nat /\ obs.exited \in Nat
      /\ obs.terminal \in BOOLEAN /\ obs.outstanding \in BOOLEAN
  BY DEF Observation
<1> QED
  BY <1>1, <1>2, ReconciledFacts

\* A release ends the episode: nothing was bought.
LEMMA ReleaseFacts ==
  ASSUME TypeOK, NEW id \in Ids, NEW R, R = Release(book, id)
  PROVE  /\ R.latest = book.latest /\ R.sources = book.sources
         /\ \A other \in Ids : other # id =>
              /\ R.episodes[other] = book.episodes[other]
              /\ other \in R.active[SymbolOf(other)] <=> other \in book.active[SymbolOf(other)]
         /\ R.episodes[id].sources = book.episodes[id].sources
         /\ R.episodes[id].state = "terminal_no_fill"
<1>1. ReconciledState(book.episodes[id], 0, 0, TRUE, FALSE) = "terminal_no_fill"
  BY DEF ReconciledState
<1>2. Flat.filled = 0 /\ Flat.exited = 0 /\ Flat.terminal = TRUE /\ Flat.outstanding = FALSE
  BY DEF Flat, NothingSeen
<1>3. R = Reconciled(book, id, Flat.filled, Flat.exited, Flat.terminal, Flat.outstanding, clock)
  BY <1>2 DEF Release
<1>4. ReconciledState(book.episodes[id], Flat.filled, Flat.exited, Flat.terminal, Flat.outstanding)
        = "terminal_no_fill"
  BY <1>1, <1>2
<1> QED
  BY <1>3, <1>4, IdleTypes, ObservedFacts

\* reconcile() never takes a present episode out of the ledger, and it ends one only on
\* an observation that is settled.
LEMMA ReconciledStateFacts ==
  ASSUME NEW e \in Episode, NEW obs \in Observation
  PROVE  LET s == ReconciledState(e, obs.filled, obs.exited, obs.terminal, obs.outstanding)
         IN /\ e.state # "absent" => s # "absent"
            /\ e.state \in ActiveStates /\ ~Settled(obs) => s \in ActiveStates
  BY DEF ReconciledState, Settled, Episode, Observation, ActiveStates, TerminalStates

------------------------------------------------------------------------------
(* The invariant of the sources.                                            *)

\* The id of a signal has the signal's key and source.
LEMMA SignalId ==
  ASSUME NEW sig \in Signal
  PROVE  KeyOf(IdOfSignal(sig)) = KeyOfSignal(sig) /\ IdOfSignal(sig)[3] = sig.source
  BY DEF KeyOf, IdOfSignal, KeyOfSignal

\* An id is its key and its source.
LEMMA SameId ==
  ASSUME NEW a \in Ids, NEW b \in Ids, KeyOf(a) = KeyOf(b), a[3] = b[3]
  PROVE  a = b
  BY DEF Ids, KeyOf

\* The episode a signal merges into is a present one of the signal's own key.
LEMMA PriorOrigin ==
  ASSUME TypeOK, IndexAgrees, OriginInv, NEW sig \in Signal, Prior(book, sig) # NoId
  PROVE  /\ Prior(book, sig) \in Ids
         /\ KeyOf(Prior(book, sig)) = KeyOfSignal(sig)
         /\ book.episodes[Prior(book, sig)].state # "absent"
<1>1. book \in Ledger
  BY DEF TypeOK
<1>2. Prior(book, sig) \in Ids
  BY <1>1, PriorType
<1>3. CASE Overlapping(book, sig) # {}
  <2>1. Prior(book, sig) \in Overlapping(book, sig)
    BY <1>3 DEF Prior
  <2>2. Prior(book, sig) \in book.active[sig.symbol] /\ Prior(book, sig)[1] = sig.day
    BY <2>1 DEF Overlapping
  <2>3. Prior(book, sig) \in ActiveOn(book.episodes, sig.symbol)
    BY <2>2, SignalFacts DEF IndexAgrees, LedgerAgrees
  <2> QED
    BY <1>2, <2>2, <2>3 DEF ActiveOn, ActiveIds, ActiveStates, SymbolOf, KeyOf, KeyOfSignal
<1>4. CASE Overlapping(book, sig) = {}
  BY <1>2, <1>4, SignalFacts DEF Prior, OriginInv
<1> QED
  BY <1>2, <1>3, <1>4

\* A merged source gets exactly one owner.
LEMMA MergedSources ==
  ASSUME TypeOK, IndexAgrees, OriginInv, NEW sig \in Signal, Merges(book, sig),
         book' = Merged(book, sig)
  PROVE  SourcesAgree'
<1> DEFINE p == Prior(book, sig)
           new == IdOfSignal(sig)
<1>1. book \in Ledger /\ SameMove(book, sig) /\ ~Known(book, sig) /\ p # NoId
  BY DEF TypeOK, Merges, SameMove
<1>2. p \in Ids /\ KeyOf(p) = KeyOf(new) /\ new \in Ids /\ new[3] = sig.source
  BY <1>1, PriorOrigin, SignalFacts, SignalId
<1>3. /\ book'.sources = [book.sources EXCEPT ![new] = p]
      /\ \A other \in Ids : other # p => book'.episodes[other] = book.episodes[other]
      /\ book'.episodes[p].sources = book.episodes[p].sources \cup {sig.source}
  BY <1>1, MergedFacts
<1>4. book.sources \in [Ids -> Ids \cup {NoId}] /\ book.sources[new] = NoId
  BY <1>1, LedgerFields DEF Known
<1>5. Holders(book.episodes, new) = {}
  BY <1>2, <1>4 DEF OriginInv, SourcesAgree
<1> SUFFICES ASSUME NEW k \in Ids
             PROVE  Holders(book'.episodes, k) = IF book'.sources[k] = NoId THEN {} ELSE {book'.sources[k]}
  BY DEF SourcesAgree
<1> HIDE DEF p, new
<1>6. CASE k = new
  <2>1. \A id \in Ids : id \in Holders(book'.episodes, new) <=> id = p
    BY <1>2, <1>3, <1>5 DEF Holders
  <2>2. Holders(book'.episodes, new) = {p}
    BY <1>2, <2>1 DEF Holders
  <2> QED
    BY <1>2, <1>3, <1>4, <1>6, <2>2, LedgerConstants
<1>7. CASE k # new
  <2>1. KeyOf(p) = KeyOf(k) => k[3] # sig.source
    BY <1>2, <1>7, SameId
  <2>2. Holders(book'.episodes, k) = Holders(book.episodes, k)
    BY <1>2, <1>3, <2>1 DEF Holders
  <2> QED
    BY <1>3, <1>4, <1>7, <2>2 DEF OriginInv, SourcesAgree
<1> QED
  BY <1>6, <1>7

\* An opened episode owns the source it is named after, and nothing else does.
LEMMA OpenedSources ==
  ASSUME TypeOK, OriginInv, NEW sig \in Signal, ~Known(book, sig),
         book' = Opened(book, sig)
  PROVE  SourcesAgree' /\ book.episodes[IdOfSignal(sig)].state = "absent"
<1> DEFINE new == IdOfSignal(sig)
<1>1. book \in Ledger
  BY DEF TypeOK
<1>2. new \in Ids /\ new[3] = sig.source
  BY SignalFacts, SignalId
<1>3. /\ book'.sources = [book.sources EXCEPT ![new] = new]
      /\ \A other \in Ids : other # new => book'.episodes[other] = book.episodes[other]
      /\ book'.episodes[new].sources = {sig.source}
  BY <1>1, OpenedFacts
<1>4. book.sources \in [Ids -> Ids \cup {NoId}] /\ book.sources[new] = NoId
  BY <1>1, LedgerFields DEF Known
<1>5. Holders(book.episodes, new) = {}
  BY <1>2, <1>4 DEF OriginInv, SourcesAgree
<1>6. new[3] \notin book.episodes[new].sources
  BY <1>2, <1>5 DEF Holders
<1>7. book.episodes[new].state = "absent" /\ book.episodes[new].sources = {}
  BY <1>2, <1>6 DEF OriginInv, Rooted
<1> HIDE DEF new
<1>8. ASSUME NEW k \in Ids
      PROVE  Holders(book'.episodes, k) = IF book'.sources[k] = NoId THEN {} ELSE {book'.sources[k]}
  <2>1. CASE k = new
    <3>1. \A id \in Ids : id \in Holders(book'.episodes, new) <=> id = new
      BY <1>2, <1>3, <1>5 DEF Holders
    <3>2. Holders(book'.episodes, new) = {new}
      BY <1>2, <3>1 DEF Holders
    <3> QED
      BY <1>2, <1>3, <1>4, <2>1, <3>2, LedgerConstants
  <2>2. CASE k # new
    <3>1. KeyOf(new) = KeyOf(k) => k[3] # sig.source
      BY <1>2, <2>2, SameId
    <3>2. Holders(book'.episodes, k) = Holders(book.episodes, k)
      BY <1>2, <1>3, <1>7, <3>1 DEF Holders
    <3> QED
      BY <1>3, <1>4, <2>2, <3>2 DEF OriginInv, SourcesAgree
  <2> QED
    BY <2>1, <2>2
<1> QED
  BY <1>7, <1>8 DEF SourcesAgree, new

\* A restored ledger gives every source its only holder, and every key a row of its own.
LEMMA RestoredSources ==
  ASSUME NEW eps \in [Ids -> Episode], \A k \in Ids : Cardinality(Holders(eps, k)) <= 1
  PROVE  /\ \A k \in Ids : Holders(eps, k)
               = IF Restored(eps).sources[k] = NoId THEN {} ELSE {Restored(eps).sources[k]}
         /\ \A key \in Keys : Restored(eps).latest[key] # NoId =>
              /\ KeyOf(Restored(eps).latest[key]) = key
              /\ eps[Restored(eps).latest[key]].state # "absent"
<1>1. ASSUME NEW k \in Ids
      PROVE  Holders(eps, k)
               = IF Restored(eps).sources[k] = NoId THEN {} ELSE {Restored(eps).sources[k]}
  <2> DEFINE H == Holders(eps, k)
             one == CHOOSE id \in H : TRUE
  <2>1. Restored(eps).sources[k] = IF H = {} THEN NoId ELSE one
    BY DEF Restored
  <2>2. IsFiniteSet(H) /\ H \subseteq Ids /\ Cardinality(H) <= 1 /\ Cardinality(H) \in Nat
    BY LedgerConstants, FS_Subset, FS_CardinalityType DEF Holders
  <2>3. CASE H = {}
    BY <2>1, <2>3
  <2>4. CASE H # {}
    <3>1. one \in H
      BY <2>4
    <3>2. Cardinality(H) = 1
      BY <2>2, <2>4, FS_EmptySet
    <3>3. PICK x : H = {x}
      BY <2>2, <3>2, FS_Singleton
    <3>4. H = {one} /\ one \in Ids
      BY <2>2, <3>1, <3>3
    <3> QED
      BY <2>1, <2>4, <3>4, LedgerConstants
  <2> QED
    BY <2>3, <2>4
<1>2. ASSUME NEW key \in Keys, Restored(eps).latest[key] # NoId
      PROVE  /\ KeyOf(Restored(eps).latest[key]) = key
             /\ eps[Restored(eps).latest[key]].state # "absent"
  <2>1. Restored(eps).latest[key] = LatestRow(eps, key)
    BY DEF Restored
  <2> DEFINE own == {id \in Present(eps) : KeyOf(id) = key}
             last == {id \in own : \A other \in own : Later(eps[id], eps[other])}
  <2>2. LatestRow(eps, key) = IF last = {} THEN NoId ELSE CHOOSE id \in last : TRUE
    BY DEF LatestRow
  <2>3. LatestRow(eps, key) \in last
    BY <1>2, <2>1, <2>2
  <2> QED
    BY <2>1, <2>3 DEF Present
<1> QED
  BY <1>1, <1>2

\* Steps that leave the source lists of the ledger alone.
LEMMA OriginFrame ==
  ASSUME TypeOK, OriginInv, boot' = boot, book' \in Ledger,
         book'.sources = book.sources, book'.latest = book.latest,
         \A id \in Ids : /\ book'.episodes[id].sources = book.episodes[id].sources
                         /\ book'.episodes[id].state = "absent" <=> book.episodes[id].state = "absent",
         \A id \in Ids : /\ Rooted(id, rows'[id])
                         /\ rows'[id].state # "absent" => rows[id].state # "absent"
                                                          \/ book.episodes[id].state # "absent",
         entry'.stage # "idle" => /\ entry'.id \in Ids /\ book.episodes[entry'.id].state # "absent"
                                  /\ entry'.snap.state # "absent" /\ Rooted(entry'.id, entry'.snap),
         owned'.stage # "idle" => owned'.id \in Ids /\ book.episodes[owned'.id].state # "absent",
         owned'.stage \in {"saving", "closing"} =>
           owned'.snap.state # "absent" /\ Rooted(owned'.id, owned'.snap)
  PROVE  OriginInv'
<1>1. SourcesAgree'
  BY DEF SourcesAgree, OriginInv, Holders
<1>2. \A id \in Ids : Rooted(id, book'.episodes[id])
  BY DEF OriginInv, Rooted
<1>3. book.latest \in [Keys -> Ids \cup {NoId}]
  BY LedgerFields DEF TypeOK
<1> QED
  BY <1>1, <1>2, <1>3 DEF OriginInv, Up

\* save() keeps the row of an episode rooted, and writes no row that is not there.
LEMMA StoredOrigin ==
  ASSUME TypeOK, \A id \in Ids : Rooted(id, rows[id]),
         NEW id \in Ids, NEW snap \in Episode, snap.state # "absent", Rooted(id, snap),
         rows' = Stored(id, snap)
  PROVE  \A other \in Ids : /\ Rooted(other, rows'[other])
                            /\ rows'[other].state # "absent" => rows[other].state # "absent"
<1>1. [snap EXCEPT !.closed = rows[id].closed].state = snap.state
      /\ [snap EXCEPT !.closed = rows[id].closed].sources = snap.sources
  BY DEF Episode
<1>2. rows \in [Ids -> Episode]
  BY DEF TypeOK
<1> QED
  BY <1>1, <1>2 DEF Stored, Rooted

\* The types of what the lanes work on.
LEMMA LaneIds ==
  ASSUME TypeOK
  PROVE  /\ entry.stage # "idle" => entry.id \in Ids
         /\ owned.stage # "idle" => owned.id \in Ids
         /\ entry.snap \in Episode /\ owned.snap \in Episode /\ owned.obs \in Observation
         /\ rows \in [Ids -> Episode] /\ book \in Ledger /\ clock \in Nat
         /\ book.episodes \in [Ids -> Episode]
  BY LedgerFields DEF TypeOK

\* Every step of the entry lane keeps the sources in agreement.
LEMMA OriginEntry == TypeOK /\ TypeOK' /\ IndexAgrees /\ OriginInv /\ EntryLane => OriginInv'
<1> SUFFICES ASSUME TypeOK, TypeOK', IndexAgrees, OriginInv, EntryLane PROVE OriginInv'
  OBVIOUS
<1>t. /\ book \in Ledger /\ book' \in Ledger /\ clock \in Nat
      /\ entry.stage # "idle" => entry.id \in Ids
      /\ owned.stage # "idle" => owned.id \in Ids
      /\ entry.snap \in Episode /\ rows \in [Ids -> Episode]
      /\ book.episodes \in [Ids -> Episode] /\ book'.episodes \in [Ids -> Episode]
  BY LaneIds, LedgerFields DEF TypeOK
<1>r. \A id \in Ids : Rooted(id, rows[id]) /\ Rooted(id, book.episodes[id])
  BY DEF OriginInv
<1>e. entry.stage # "idle" => /\ book.episodes[entry.id].state # "absent"
                              /\ entry.snap.state # "absent" /\ Rooted(entry.id, entry.snap)
  BY DEF OriginInv
<1>o. /\ owned.stage # "idle" => book.episodes[owned.id].state # "absent"
      /\ owned.stage \in {"saving", "closing"} =>
           owned.snap.state # "absent" /\ Rooted(owned.id, owned.snap)
  BY DEF OriginInv
<1>1. ASSUME NEW sig \in Signals, ClaimKnown(sig) PROVE OriginInv'
  <2>1. sig \in Signal
    BY AdmissionConstants
  <2> DEFINE id == book.sources[IdOfSignal(sig)]
  <2>2. id \in Ids /\ IdOfSignal(sig) \in Ids
    BY <1>1, <1>t, <2>1, SignalFacts, LedgerFields DEF ClaimKnown, Known
  <2>3. Holders(book.episodes, IdOfSignal(sig)) = {id}
    BY <1>1, <2>2 DEF OriginInv, SourcesAgree, ClaimKnown, Known
  <2>4. IdOfSignal(sig)[3] \in book.episodes[id].sources
    BY <2>3 DEF Holders
  <2>5. book.episodes[id].state # "absent"
    BY <2>2, <2>4, <1>r DEF Rooted
  <2>6. entry' = [stage |-> "saving", id |-> id, snap |-> book.episodes[id]]
    BY <1>1 DEF ClaimKnown, At
  <2> HIDE DEF id
  <2> QED
    BY <1>1, <1>t, <1>r, <1>o, <2>2, <2>5, <2>6, OriginFrame DEF ClaimKnown
<1>2. ASSUME NEW sig \in Signals, ClaimMerged(sig) PROVE OriginInv'
  <2>1. sig \in Signal /\ Merges(book, sig) /\ book' = Merged(book, sig)
    BY <1>2, AdmissionConstants DEF ClaimMerged
  <2>0. book \in Ledger /\ SameMove(book, sig)
    BY <2>1, <1>t DEF Merges
  <2> DEFINE p == Prior(book, sig)
  <2>2. SourcesAgree'
    BY <2>1, MergedSources
  <2>3. p \in Ids /\ book.episodes[p].state # "absent"
    BY <2>1, PriorOrigin DEF Merges, SameMove
  <2>4. /\ book'.latest = book.latest
        /\ \A other \in Ids : other # p => book'.episodes[other] = book.episodes[other]
        /\ book'.episodes[p].sources = book.episodes[p].sources \cup {sig.source}
        /\ book'.episodes[p].state = book.episodes[p].state
    BY <2>0, <2>1, MergedFacts
  <2>5. entry' = [stage |-> "saving", id |-> p, snap |-> book'.episodes[p]]
    BY <1>2 DEF ClaimMerged, At
  <2> HIDE DEF p
  <2>6. \A id \in Ids : /\ Rooted(id, book'.episodes[id])
                        /\ book'.episodes[id].state = "absent" <=> book.episodes[id].state = "absent"
    BY <1>r, <2>3, <2>4 DEF Rooted
  <2>7. rows' = rows /\ owned' = owned /\ boot' = boot
    BY <1>2 DEF ClaimMerged
  <2>8. book.latest \in [Keys -> Ids \cup {NoId}]
    BY <1>t, LedgerFields
  <2> QED
    BY <1>t, <1>r, <1>o, <2>2, <2>3, <2>4, <2>5, <2>6, <2>7, <2>8 DEF OriginInv, Up
<1>3. ASSUME NEW sig \in Signals, ClaimOpened(sig) PROVE OriginInv'
  <2>1. sig \in Signal /\ ~Known(book, sig) /\ book' = Opened(book, sig)
    BY <1>3, AdmissionConstants DEF ClaimOpened, Opens
  <2>0. book \in Ledger
    BY <1>t
  <2> DEFINE new == IdOfSignal(sig)
  <2>2. SourcesAgree' /\ book.episodes[new].state = "absent"
    BY <2>1, OpenedSources
  <2>3. new \in Ids /\ KeyOf(new) = KeyOfSignal(sig) /\ new[3] = sig.source
        /\ KeyOfSignal(sig) \in Keys
    BY <2>1, SignalFacts, SignalId
  <2>4. /\ book'.latest = [book.latest EXCEPT ![KeyOfSignal(sig)] = new]
        /\ \A other \in Ids : other # new => book'.episodes[other] = book.episodes[other]
        /\ book'.episodes[new].sources = {sig.source}
        /\ book'.episodes[new].state = "claimed"
    BY <2>0, <2>1, OpenedFacts
  <2>5. entry' = [stage |-> "claiming", id |-> new, snap |-> book'.episodes[new]]
    BY <1>3 DEF ClaimOpened, At
  <2> HIDE DEF new
  <2>6. \A id \in Ids : /\ Rooted(id, book'.episodes[id])
                        /\ book.episodes[id].state # "absent" => book'.episodes[id].state # "absent"
    BY <1>r, <2>3, <2>4 DEF Rooted
  <2>7. rows' = rows /\ owned' = owned /\ boot' = boot
    BY <1>3 DEF ClaimOpened
  <2>8. book.latest \in [Keys -> Ids \cup {NoId}]
    BY <1>t, LedgerFields
  <2>9. \A key \in Keys : book'.latest[key] # NoId =>
          KeyOf(book'.latest[key]) = key /\ book'.episodes[book'.latest[key]].state # "absent"
    BY <2>3, <2>4, <2>6, <2>8 DEF OriginInv
  <2> QED
    BY <1>t, <1>r, <1>o, <2>2, <2>3, <2>4, <2>5, <2>6, <2>7, <2>9 DEF OriginInv, Up
<1>4. CASE DurableClaim
  <2>1. \A id \in Ids : /\ Rooted(id, rows'[id])
                        /\ rows'[id].state # "absent" => rows[id].state # "absent"
                                                         \/ book.episodes[id].state # "absent"
    BY <1>4, <1>t, <1>r, <1>e DEF DurableClaim
  <2>2. entry'.stage # "idle" => entry'.id = entry.id /\ entry'.snap = entry.snap /\ entry.stage # "idle"
    BY <1>4, IdleTypes DEF DurableClaim, TypeOK
  <2> QED
    BY <1>4, <1>t, <1>e, <1>o, <2>1, <2>2, OriginFrame DEF DurableClaim
<1>5. CASE QuoteExpired \/ SettleRefusal
  <2>1. entry.id \in Ids /\ entry.stage # "idle"
    BY <1>5, <1>t DEF QuoteExpired, SettleRefusal
  <2>2. book' = Release(book, entry.id)
    BY <1>5 DEF QuoteExpired, SettleRefusal
  <2>3. /\ book'.latest = book.latest /\ book'.sources = book.sources
        /\ \A other \in Ids : other # entry.id => book'.episodes[other] = book.episodes[other]
        /\ book'.episodes[entry.id].sources = book.episodes[entry.id].sources
        /\ book'.episodes[entry.id].state = "terminal_no_fill"
    BY <2>1, <2>2, ReleaseFacts
  <2>4. entry' = [stage |-> "saving", id |-> entry.id, snap |-> book'.episodes[entry.id]]
    BY <1>5 DEF QuoteExpired, SettleRefusal, At
  <2>5. Rooted(entry.id, book'.episodes[entry.id])
    BY <1>r, <1>e, <2>1, <2>3 DEF Rooted
  <2>6. rows' = rows /\ owned' = owned /\ boot' = boot
    BY <1>5 DEF QuoteExpired, SettleRefusal
  <2> QED
    BY <1>t, <1>r, <1>e, <1>o, <2>1, <2>3, <2>4, <2>5, <2>6, OriginFrame
<1>6. CASE PrepareOrder \/ SubmitFailed \/ Dispatch
  <2>1. entry'.stage # "idle" => entry'.id = entry.id /\ entry'.snap = entry.snap /\ entry.stage # "idle"
    BY <1>6, IdleTypes DEF PrepareOrder, SubmitFailed, Dispatch, TypeOK
  <2>2. book' = book /\ rows' = rows /\ owned' = owned /\ boot' = boot
    BY <1>6 DEF PrepareOrder, SubmitFailed, Dispatch
  <2> QED
    BY <1>t, <1>r, <1>e, <1>o, <2>1, <2>2, OriginFrame
<1>7. CASE BeginSubmit
  <2>1. entry.id \in Ids /\ entry.stage # "idle"
    BY <1>7, <1>t DEF BeginSubmit
  <2>2. /\ book'.latest = book.latest /\ book'.sources = book.sources
        /\ \A other \in Ids : other # entry.id => book'.episodes[other] = book.episodes[other]
        /\ book'.episodes[entry.id].sources = book.episodes[entry.id].sources
        /\ book'.episodes[entry.id].state = "submitting"
    BY <1>7, <1>t, <2>1, SubmittedFacts DEF BeginSubmit
  <2>3. entry' = [stage |-> "submitting", id |-> entry.id, snap |-> book'.episodes[entry.id]]
    BY <1>7 DEF BeginSubmit, At
  <2>4. Rooted(entry.id, book'.episodes[entry.id])
    BY <1>r, <1>e, <2>1, <2>2 DEF Rooted
  <2>5. rows' = rows /\ owned' = owned /\ boot' = boot
    BY <1>7 DEF BeginSubmit
  <2> QED
    BY <1>t, <1>r, <1>e, <1>o, <2>1, <2>2, <2>3, <2>4, <2>5, OriginFrame
<1>8. CASE CommitSubmitting
  <2>1. \A id \in Ids : /\ Rooted(id, rows'[id])
                        /\ rows'[id].state # "absent" => rows[id].state # "absent"
                                                         \/ book.episodes[id].state # "absent"
    BY <1>8, <1>t, <1>r, <1>e DEF CommitSubmitting
  <2>2. entry'.id = entry.id /\ entry'.snap = entry.snap /\ entry.stage # "idle"
    BY <1>8 DEF CommitSubmitting, TypeOK
  <2> QED
    BY <1>8, <1>t, <1>e, <1>o, <2>1, <2>2, OriginFrame DEF CommitSubmitting
<1>9. CASE RepriceConflict
  <2>1. entry.id \in Ids /\ entry'.stage = "idle"
    BY <1>9, <1>t, IdleTypes DEF RepriceConflict
  <2>2. ASSUME NEW e \in Episode
        PROVE  /\ AsCancelRequested(e).sources = e.sources
               /\ AsCancelRequested(e).state = "absent" <=> e.state = "absent"
    BY DEF AsCancelRequested, Episode
  <2>3. rows[entry.id] \in Episode /\ book.episodes[entry.id] \in Episode
    BY <1>t, <2>1
  <2>4. \/ book' = book /\ rows' = rows
        \/ /\ rows' = [rows EXCEPT ![entry.id] = AsCancelRequested(rows[entry.id])]
           /\ book' = [book EXCEPT !.episodes[entry.id] = AsCancelRequested(book.episodes[entry.id])]
    BY <1>9 DEF RepriceConflict
  <2>5. /\ book'.latest = book.latest /\ book'.sources = book.sources
        /\ \A other \in Ids : other # entry.id => book'.episodes[other] = book.episodes[other]
        /\ \/ book'.episodes[entry.id] = book.episodes[entry.id]
           \/ book'.episodes[entry.id] = AsCancelRequested(book.episodes[entry.id])
    BY <1>t, <2>1, <2>4 DEF Ledger
  <2>6. \A id \in Ids : /\ book'.episodes[id].sources = book.episodes[id].sources
                        /\ book'.episodes[id].state = "absent" <=> book.episodes[id].state = "absent"
    BY <2>2, <2>3, <2>5
  <2>7. \A id \in Ids : /\ rows'[id].sources = rows[id].sources
                        /\ rows'[id].state = "absent" <=> rows[id].state = "absent"
    BY <1>t, <2>1, <2>2, <2>3, <2>4
  <2>8. \A id \in Ids : Rooted(id, rows'[id])
    BY <1>r, <2>7 DEF Rooted
  <2>9. owned' = owned /\ boot' = boot
    BY <1>9 DEF RepriceConflict
  <2> QED
    BY <1>t, <1>o, <2>1, <2>5, <2>6, <2>7, <2>8, <2>9, OriginFrame
<1>10. CASE RefuseBeforeWire
  <2>1. entry.id \in Ids /\ entry.stage # "idle"
    BY <1>10, <1>t DEF RefuseBeforeWire
  <2>2. [rows[entry.id] EXCEPT !.state = "terminal_no_fill"].sources = rows[entry.id].sources
        /\ [rows[entry.id] EXCEPT !.state = "terminal_no_fill"].state = "terminal_no_fill"
    BY <1>t, <2>1 DEF Episode
  <2>3. \/ rows' = rows
        \/ /\ rows' = [rows EXCEPT ![entry.id] = [rows[entry.id] EXCEPT !.state = "terminal_no_fill"]]
           /\ rows[entry.id].state # "absent"
    BY <1>10, <1>t, <2>1 DEF RefuseBeforeWire
  <2>4. \A id \in Ids : /\ Rooted(id, rows'[id])
                        /\ rows'[id].state # "absent" => rows[id].state # "absent"
    BY <1>t, <1>r, <2>1, <2>2, <2>3 DEF Rooted
  <2>5. entry'.stage # "idle" => entry'.id = entry.id /\ entry'.snap = entry.snap
    BY <1>10, IdleTypes DEF RefuseBeforeWire, TypeOK
  <2> QED
    BY <1>10, <1>t, <1>e, <1>o, <2>1, <2>4, <2>5, OriginFrame DEF RefuseBeforeWire
<1>11. CASE RecordRoute
  <2>1. entry' = [stage |-> "saving", id |-> entry.id, snap |-> book.episodes[entry.id]]
    BY <1>11 DEF RecordRoute, At
  <2>2. entry.stage # "idle" /\ book' = book /\ rows' = rows /\ owned' = owned /\ boot' = boot
    BY <1>11 DEF RecordRoute
  <2> QED
    BY <1>t, <1>r, <1>e, <1>o, <2>1, <2>2, OriginFrame
<1>12. CASE EntrySave
  <2>1. entry.id \in Ids /\ rows' = Stored(entry.id, entry.snap) /\ entry.stage # "idle"
    BY <1>12, <1>t DEF EntrySave
  <2>2. \A id \in Ids : /\ Rooted(id, rows'[id])
                        /\ rows'[id].state # "absent" => rows[id].state # "absent"
    BY <1>t, <1>r, <1>e, <2>1, StoredOrigin
  <2> QED
    BY <1>12, <1>t, <1>o, <2>2, IdleTypes, OriginFrame DEF EntrySave
<1> QED
  BY <1>1, <1>2, <1>3, <1>4, <1>5, <1>6, <1>7, <1>8, <1>9, <1>10, <1>11, <1>12 DEF EntryLane

\* Every step of the owned lane keeps the sources in agreement.
LEMMA OriginOwned == TypeOK /\ TypeOK' /\ OriginInv /\ OwnedLane => OriginInv'
<1> SUFFICES ASSUME TypeOK, TypeOK', OriginInv, OwnedLane PROVE OriginInv'
  OBVIOUS
<1>t. /\ book \in Ledger /\ book' \in Ledger /\ clock \in Nat
      /\ entry.stage # "idle" => entry.id \in Ids
      /\ owned.stage # "idle" => owned.id \in Ids
      /\ owned.snap \in Episode /\ owned.obs \in Observation /\ rows \in [Ids -> Episode]
      /\ book.episodes \in [Ids -> Episode] /\ book'.episodes \in [Ids -> Episode]
  BY LaneIds, LedgerFields DEF TypeOK
<1>r. \A id \in Ids : Rooted(id, rows[id]) /\ Rooted(id, book.episodes[id])
  BY DEF OriginInv
<1>e. entry.stage # "idle" => /\ book.episodes[entry.id].state # "absent"
                              /\ entry.snap.state # "absent" /\ Rooted(entry.id, entry.snap)
  BY DEF OriginInv
<1>o. /\ owned.stage # "idle" => book.episodes[owned.id].state # "absent"
      /\ owned.stage \in {"saving", "closing"} =>
           owned.snap.state # "absent" /\ Rooted(owned.id, owned.snap)
  BY DEF OriginInv
<1>1. ASSUME NEW id \in Ids, Observe(id) PROVE OriginInv'
  <2>1. book.episodes[id].state # "absent"
    BY <1>1 DEF Observe, Serviced, ActiveStates
  <2>2. owned'.id = id /\ owned'.stage = "observed"
    BY <1>1 DEF Observe
  <2>3. book' = book /\ rows' = rows /\ entry' = entry /\ boot' = boot
    BY <1>1 DEF Observe
  <2> QED
    BY <1>t, <1>r, <1>e, <2>1, <2>2, <2>3, OriginFrame
<1>2. ASSUME NEW id \in Ids, RetireCommit(id) PROVE OriginInv'
  <2>1. book.episodes[id].state # "absent" /\ rows[id].state # "absent"
    BY <1>2 DEF RetireCommit, Serviced, ActiveStates
  <2>2. owned'.id = id /\ owned'.stage = "retired"
    BY <1>2 DEF RetireCommit, Resting
  <2>3. rows'[id].sources = rows[id].sources /\ rows'[id].state = "terminal_no_fill"
        /\ \A other \in Ids : other # id => rows'[other] = rows[other]
    BY <1>2, <1>t DEF RetireCommit, Episode
  <2>4. \A other \in Ids : Rooted(other, rows'[other])
    BY <1>r, <2>1, <2>3 DEF Rooted
  <2>5. book' = book /\ entry' = entry /\ boot' = boot
    BY <1>2 DEF RetireCommit
  <2> QED
    BY <1>t, <1>e, <2>1, <2>2, <2>3, <2>4, <2>5, OriginFrame
<1>3. ASSUME NEW id \in Ids, AbandonCommit(id) PROVE OriginInv'
  <2>1. book.episodes[id].state # "absent" /\ rows[id].state # "absent"
    BY <1>3 DEF AbandonCommit, QuotePending, Unsent
  <2>2. owned'.id = id /\ owned'.stage = "abandoned"
    BY <1>3 DEF AbandonCommit, Resting
  <2>3. rows'[id].sources = rows[id].sources /\ rows'[id].state = "terminal_no_fill"
        /\ \A other \in Ids : other # id => rows'[other] = rows[other]
    BY <1>3, <1>t DEF AbandonCommit, Episode
  <2>4. \A other \in Ids : Rooted(other, rows'[other])
    BY <1>r, <2>1, <2>3 DEF Rooted
  <2>5. book' = book /\ entry' = entry /\ boot' = boot
    BY <1>3 DEF AbandonCommit
  <2> QED
    BY <1>t, <1>e, <2>1, <2>2, <2>3, <2>4, <2>5, OriginFrame
<1>4. CASE RetireSettle
  <2>1. owned.id \in Ids /\ owned.stage = "retired"
    BY <1>4, <1>t DEF RetireSettle
  <2> DEFINE R == Release(book, owned.id)
  <2>2. R \in Ledger
    BY <2>1, <1>t, ReleaseType
  <2>3. /\ R.latest = book.latest /\ R.sources = book.sources
        /\ \A other \in Ids : other # owned.id => R.episodes[other] = book.episodes[other]
        /\ R.episodes[owned.id].sources = book.episodes[owned.id].sources
        /\ R.episodes[owned.id].state = "terminal_no_fill"
    BY <2>1, ReleaseFacts
  <2>4. book' = [R EXCEPT !.episodes[owned.id].closed = rows[owned.id].closed]
    BY <1>4 DEF RetireSettle
  <2> HIDE DEF R
  <2>5. R.episodes[owned.id] \in Episode
    BY <2>1, <2>2, LedgerFields
  <2>6. /\ book'.latest = R.latest /\ book'.sources = R.sources
        /\ \A other \in Ids : other # owned.id => book'.episodes[other] = R.episodes[other]
        /\ book'.episodes[owned.id].sources = R.episodes[owned.id].sources
        /\ book'.episodes[owned.id].state = R.episodes[owned.id].state
    BY <2>1, <2>2, <2>4, <2>5 DEF Ledger, Episode
  <2>7. owned'.id = owned.id /\ owned'.stage = "observed"
    BY <1>4 DEF RetireSettle, TypeOK
  <2>8. rows' = rows /\ entry' = entry /\ boot' = boot
    BY <1>4 DEF RetireSettle
  <2> QED
    BY <1>t, <1>r, <1>e, <1>o, <2>1, <2>3, <2>6, <2>7, <2>8, OriginFrame
<1>5. CASE Reconcile
  <2>1. owned.id \in Ids /\ owned.stage = "observed"
    BY <1>5, <1>t DEF Reconcile
  <2> DEFINE obs == owned.obs
  <2>2. obs.filled \in Nat /\ obs.exited \in Nat /\ obs.terminal \in BOOLEAN /\ obs.outstanding \in BOOLEAN
    BY <1>t DEF Observation
  <2>3. book' = Reconciled(book, owned.id, obs.filled, obs.exited, obs.terminal, obs.outstanding, clock)
    BY <1>5 DEF Reconcile
  <2>0. book \in Ledger /\ clock \in Nat
    BY <1>t
  <2> HIDE DEF obs
  <2>4. /\ book'.latest = book.latest /\ book'.sources = book.sources
        /\ \A other \in Ids : other # owned.id => book'.episodes[other] = book.episodes[other]
        /\ book'.episodes[owned.id].sources = book.episodes[owned.id].sources
        /\ book'.episodes[owned.id].state
             = ReconciledState(book.episodes[owned.id], obs.filled, obs.exited, obs.terminal, obs.outstanding)
    BY <1>t, <2>1, <2>3, ObservedFacts DEF obs
  <2>5. book.episodes[owned.id] \in Episode
    BY <1>t, <2>1
  <2>6. book'.episodes[owned.id].state # "absent"
    BY <1>t, <1>o, <2>1, <2>4, <2>5, ReconciledStateFacts DEF obs
  <2>7. Rooted(owned.id, book'.episodes[owned.id])
    BY <1>r, <1>o, <2>1, <2>4, <2>6 DEF Rooted
  <2>8. owned'.id = owned.id /\ owned'.stage = "saving" /\ owned'.snap = book'.episodes[owned.id]
    BY <1>5 DEF Reconcile, TypeOK
  <2>9. rows' = rows /\ entry' = entry /\ boot' = boot
    BY <1>5 DEF Reconcile
  <2> QED
    BY <1>t, <1>r, <1>e, <1>o, <2>1, <2>4, <2>6, <2>7, <2>8, <2>9, OriginFrame
<1>6. CASE OwnedSave
  <2>1. owned.id \in Ids /\ rows' = Stored(owned.id, owned.snap) /\ owned.stage \in {"saving", "closing"}
    BY <1>6, <1>t DEF OwnedSave
  <2>2. \A id \in Ids : /\ Rooted(id, rows'[id])
                        /\ rows'[id].state # "absent" => rows[id].state # "absent"
    BY <1>t, <1>r, <1>o, <2>1, StoredOrigin
  <2>3. owned'.stage \in {"saved", "idle"} /\ (owned'.stage # "idle" => owned'.id = owned.id)
    BY <1>6, IdleTypes DEF OwnedSave, TypeOK
  <2> QED
    BY <1>6, <1>t, <1>e, <1>o, <2>1, <2>2, <2>3, OriginFrame DEF OwnedSave
<1>7. CASE CancelEntry
  <2>1. owned.id \in Ids /\ owned.stage = "saved"
    BY <1>7, <1>t DEF CancelEntry
  <2>2. rows' = rows /\ entry' = entry /\ boot' = boot
    BY <1>7 DEF CancelEntry
  <2>3. CASE book' = book /\ owned' = Resting
    BY <1>t, <1>r, <1>e, <2>2, <2>3, IdleTypes, OriginFrame
  <2>4. CASE /\ book' = CancelRequested(book, owned.id)
             /\ owned' = [owned EXCEPT !.stage = "closing", !.snap = book'.episodes[owned.id]]
    <3>1. /\ book'.latest = book.latest /\ book'.sources = book.sources
          /\ \A other \in Ids : other # owned.id => book'.episodes[other] = book.episodes[other]
          /\ book'.episodes[owned.id].sources = book.episodes[owned.id].sources
          /\ book'.episodes[owned.id].state = "cancel_requested"
      BY <1>t, <2>1, <2>4, CancelFacts
    <3>2. Rooted(owned.id, book'.episodes[owned.id])
      BY <1>r, <1>o, <2>1, <3>1 DEF Rooted
    <3>3. owned'.id = owned.id /\ owned'.snap = book'.episodes[owned.id]
      BY <2>4 DEF TypeOK
    <3> QED
      BY <1>t, <1>r, <1>e, <1>o, <2>1, <2>2, <3>1, <3>2, <3>3, OriginFrame
  <2> QED
    BY <1>7, <2>3, <2>4 DEF CancelEntry
<1>8. CASE AbandonSettle
  <2>1. owned.id \in Ids /\ owned.stage = "abandoned" /\ book' = Release(book, owned.id)
    BY <1>8, <1>t DEF AbandonSettle
  <2>2. /\ book'.latest = book.latest /\ book'.sources = book.sources
        /\ \A other \in Ids : other # owned.id => book'.episodes[other] = book.episodes[other]
        /\ book'.episodes[owned.id].sources = book.episodes[owned.id].sources
        /\ book'.episodes[owned.id].state = "terminal_no_fill"
    BY <2>1, ReleaseFacts
  <2>3. Rooted(owned.id, book'.episodes[owned.id])
    BY <1>r, <1>o, <2>1, <2>2 DEF Rooted
  <2>4. owned'.id = owned.id /\ owned'.snap = book'.episodes[owned.id]
    BY <1>8 DEF AbandonSettle, TypeOK
  <2>5. rows' = rows /\ entry' = entry /\ boot' = boot
    BY <1>8 DEF AbandonSettle
  <2> QED
    BY <1>t, <1>r, <1>e, <1>o, <2>1, <2>2, <2>3, <2>4, <2>5, OriginFrame
<1> QED
  BY <1>1, <1>2, <1>3, <1>4, <1>5, <1>6, <1>7, <1>8 DEF OwnedLane

\* A ledger without episodes knows no source.
LEMMA EmptySources ==
  /\ \A id \in Ids : EmptyLedger.episodes[id] = Absent
  /\ \A k \in Ids : Holders(EmptyLedger.episodes, k) = {} /\ EmptyLedger.sources[k] = NoId
  /\ \A key \in Keys : EmptyLedger.latest[key] = NoId
<1> DEFINE eps == [id \in Ids |-> Absent]
<1>1. EmptyLedger.episodes = eps
  BY DEF EmptyLedger, Restored
<1>2. \A k \in Ids : Holders(eps, k) = {}
  BY DEF Holders, Absent
<1>3. \A k \in Ids : EmptyLedger.sources[k] = NoId
  BY <1>2 DEF EmptyLedger, Restored
<1>4. Present(eps) = {}
  BY DEF Present, Absent
<1>5. \A key \in Keys : LatestRow(eps, key) = NoId
  BY <1>4 DEF LatestRow
<1>6. \A key \in Keys : EmptyLedger.latest[key] = NoId
  BY <1>5 DEF EmptyLedger, Restored
<1> QED
  BY <1>1, <1>2, <1>3, <1>6

\* The boot release changes states only, and makes no row present or absent.
LEMMA BootRowsFacts ==
  ASSUME TypeOK, NEW id \in Ids
  PROVE  /\ BootRows[id].sources = rows[id].sources
         /\ BootRows[id].state = "absent" <=> rows[id].state = "absent"
         /\ ~Unsent(id) => BootRows[id] = rows[id]
<1>1. rows[id] \in Episode
  BY DEF TypeOK
<1> QED
  BY <1>1 DEF BootRows, Unsent, Episode

\* Restarts, reports, the operator and time keep the sources in agreement.
LEMMA OriginEnvironment == TypeOK /\ TypeOK' /\ OriginInv /\ Environment => OriginInv'
<1> SUFFICES ASSUME TypeOK, TypeOK', OriginInv, Environment PROVE OriginInv'
  OBVIOUS
<1>1. CASE Restart
  <2>1. entry'.stage = "idle" /\ owned'.stage = "idle"
    BY <1>1, IdleTypes DEF Restart
  <2>2. CASE BootRefused
    <3>1. rows' = rows /\ boot' = "refused" /\ book' = [EmptyLedger EXCEPT !.ready = FALSE]
      BY <1>1, <2>2 DEF Restart
    <3>2. /\ book'.episodes = EmptyLedger.episodes /\ book'.sources = EmptyLedger.sources
          /\ book'.latest = EmptyLedger.latest
      BY <3>1, EmptyLedgerType DEF Ledger
    <3>3. SourcesAgree'
      BY <3>2, EmptySources DEF SourcesAgree
    <3>4. \A id \in Ids : Rooted(id, book'.episodes[id])
      BY <3>2, EmptySources DEF Rooted, Absent
    <3> QED
      BY <2>1, <3>1, <3>2, <3>3, <3>4, EmptySources DEF OriginInv, Up
  <2>3. CASE ~BootRefused
    <3>1. rows' = BootRows /\ boot' = "up" /\ book' = Restored(BootRows)
      BY <1>1, <2>3 DEF Restart
    <3>2. BootRows \in [Ids -> Episode] /\ book'.episodes = BootRows
      BY <3>1, BootRowsType DEF Restored
    <3>3. \A k \in Ids : Holders(BootRows, k) = Holders(rows, k)
      BY BootRowsFacts DEF Holders
    <3>4. \A k \in Ids : Cardinality(Holders(BootRows, k)) <= 1
      BY <2>3, <3>3 DEF BootRefused, Restorable
    <3>5. /\ SourcesAgree'
          /\ \A key \in Keys : book'.latest[key] # NoId =>
               KeyOf(book'.latest[key]) = key /\ book'.episodes[book'.latest[key]].state # "absent"
      BY <3>1, <3>2, <3>4, RestoredSources DEF SourcesAgree
    <3>6. \A id \in Ids : Rooted(id, rows'[id])
      BY <3>1, BootRowsFacts DEF OriginInv, Rooted
    <3> QED
      BY <2>1, <3>1, <3>2, <3>5, <3>6 DEF OriginInv
  <2> QED
    BY <2>2, <2>3
<1>2. CASE ~Restart
  <2>1. book' = book /\ rows' = rows /\ entry' = entry /\ owned' = owned /\ boot' = boot
    BY <1>2 DEF Environment, BrokerReport, Operator, Tick
  <2> QED
    BY <2>1 DEF OriginInv, SourcesAgree, Up
<1> QED
  BY <1>1, <1>2

\* The first ledger has no sources.
LEMMA OriginInit == Init => OriginInv
<1> SUFFICES ASSUME Init PROVE OriginInv
  OBVIOUS
<1>1. book = EmptyLedger /\ \A id \in Ids : rows[id] = Absent
  BY DEF Init
<1>2. entry.stage = "idle" /\ owned.stage = "idle"
  BY IdleTypes DEF Init
<1>3. SourcesAgree
  BY <1>1, EmptySources DEF SourcesAgree
<1>4. \A id \in Ids : Rooted(id, Absent) /\ Absent.state = "absent"
  BY DEF Rooted, Absent
<1> QED
  BY <1>1, <1>2, <1>3, <1>4, EmptySources DEF OriginInv

\* The index invariant, the types and the sources together.
THEOREM OriginInductive == Spec => [](TypeOK /\ IndexInv /\ OriginInv)
<1>1. OriginInv /\ UNCHANGED vars => OriginInv'
  BY DEF OriginInv, SourcesAgree, Up, vars
<1>2. IndexInv /\ UNCHANGED vars => IndexInv'
  BY DEF IndexInv, IndexAgrees, Indexed, Listed, Working, vars
<1>3. TypeOK /\ TypeOK' /\ IndexInv /\ [Next]_vars => IndexInv'
  BY <1>2, IndexEntry, IndexOwned, IndexEnvironment DEF Next
<1>4. IndexInv => IndexAgrees
  BY DEF IndexInv
<1>5. TypeOK /\ TypeOK' /\ IndexInv /\ OriginInv /\ [Next]_vars => OriginInv'
  BY <1>1, <1>4, OriginEntry, OriginOwned, OriginEnvironment DEF Next
<1> QED
  BY <1>3, <1>5, IndexInit, OriginInit, TypeCorrect, PTL DEF Spec

\* A source has one owner for ever: the source index that claim() consults and the source
\* lists that are saved and restored say the same, whatever is merged, saved or restarted.
THEOREM SourcesCorrect == Spec => []SourcesAgree
<1>1. OriginInv => SourcesAgree
  BY DEF OriginInv
<1> QED
  BY <1>1, OriginInductive, PTL

------------------------------------------------------------------------------
(* The invariant of the exposure.                                           *)

\* Reservations that only shrink stay within the capacity and one per symbol.
LEMMA ReservedShrinks ==
  ASSUME ExposureInv, \A id \in Ids : Reserved(id)' => Reserved(id)
  PROVE  /\ (\A a, b \in Ids : Reserved(a) /\ Reserved(b) /\ SymbolOf(a) = SymbolOf(b) => a = b)'
         /\ (Cardinality({id \in Ids : Reserved(id)}) <= Capacity)'
<1> DEFINE S == {id \in Ids : Reserved(id)}
           T == {id \in Ids : Reserved(id)'}
<1>1. IsFiniteSet(S) /\ T \subseteq S
  BY LedgerConstants, FS_Subset
<1>2. IsFiniteSet(T) /\ Cardinality(T) <= Cardinality(S)
  BY <1>1, FS_Subset
<1>3. Cardinality(S) \in Nat /\ Cardinality(T) \in Nat /\ Capacity \in Nat
  BY <1>1, <1>2, FS_CardinalityType, LedgerConstants
<1>4. Cardinality(S) <= Capacity
  BY DEF ExposureInv
<1>5. Cardinality(T) <= Capacity
  BY <1>2, <1>3, <1>4
<1>6. \A a, b \in Ids : Reserved(a)' /\ Reserved(b)' /\ SymbolOf(a) = SymbolOf(b) => a = b
  BY DEF ExposureInv
<1> QED
  BY <1>5, <1>6

\* A step without a broker report that reserves nothing: what is left to show is the stage
\* of the entry lane and what holds of the exposed episodes.
LEMMA ExposureFrame ==
  ASSUME ExposureInv, truth' = truth,
         \A id \in Ids : order'[id] # "posted" => order[id] # "posted",
         \A id \in Ids : rows'[id].state = "absent" => order'[id] = "none",
         (~Up => entry.stage = "idle" /\ owned.stage = "idle")',
         StageInv', \A id \in Ids : Exposed(id)' => Tracked(id)',
         \A id \in Ids : Reserved(id)' => Reserved(id)
  PROVE  ExposureInv'
<1>1. /\ (\A a, b \in Ids : Reserved(a) /\ Reserved(b) /\ SymbolOf(a) = SymbolOf(b) => a = b)'
      /\ (Cardinality({id \in Ids : Reserved(id)}) <= Capacity)'
  BY ReservedShrinks
<1>2. (\A id \in Ids : order[id] # "posted" => truth[id] = NothingSeen)'
  BY DEF ExposureInv
<1>3. (\A id \in Ids : rows[id].state = "absent" => order[id] = "none")'
  OBVIOUS
<1> QED
  BY <1>1, <1>2, <1>3 DEF ExposureInv

\* A step in which orders, rows and reports stay, and the entry lane goes on with the
\* episode it works on or works on none.
LEMMA ExposureMemory ==
  ASSUME ExposureInv, Up, boot' = boot, truth' = truth, order' = order, rows' = rows,
         StageInv', \A id \in Ids : Exposed(id) => Tracked(id)',
         Working' => Working /\ entry'.id = entry.id
  PROVE  ExposureInv'
<1>1. \A id \in Ids : Exposed(id)' => Exposed(id)
  BY DEF Exposed
<1>2. \A id \in Ids : Reserved(id)' => Reserved(id)
  BY <1>1 DEF Reserved
<1>3. (~Up => entry.stage = "idle" /\ owned.stage = "idle")'
  BY DEF Up
<1>4. \A id \in Ids : rows'[id].state = "absent" => order'[id] = "none"
  BY DEF ExposureInv
<1> QED
  BY <1>1, <1>2, <1>3, <1>4, ExposureFrame

\* What the invariant says of an exposed episode while the process is up.
LEMMA ExposedFacts ==
  ASSUME ExposureInv, Up, NEW id \in Ids, Exposed(id)
  PROVE  /\ ActiveSent(rows[id]) /\ ActiveSent(book.episodes[id]) /\ Indexed(id) /\ Keeps(id)
         /\ entry.stage # "idle" /\ entry.id = id =>
              entry.stage = "sent" \/ (entry.stage = "saving" /\ ActiveSent(entry.snap))
  BY DEF ExposureInv, Tracked, Kept

\* The stages that make no claim about the ledger.
LEMMA StageQuiet ==
  ASSUME entry'.stage \in {"idle", "saving"}
  PROVE  StageInv'
  BY DEF StageInv

\* A fresh claim takes a free reservation: the symbol has none, and the count is the size
\* of an index that holds all that is exposed.
LEMMA ExposureOpened ==
  ASSUME TypeOK, TypeOK', IndexAgrees, OriginInv, ExposureInv,
         NEW sig \in Signals, ClaimOpened(sig)
  PROVE  ExposureInv'
<1> DEFINE new == IdOfSignal(sig)
<1>1. sig \in Signal /\ ~Known(book, sig) /\ book' = Opened(book, sig) /\ book \in Ledger
  BY AdmissionConstants DEF ClaimOpened, Opens, TypeOK
<1>2. new \in Ids /\ SymbolOf(new) = sig.symbol /\ sig.symbol \in Symbols
  BY <1>1, SignalFacts
<1>3. book.episodes[new].state = "absent"
  BY <1>1, OpenedSources
<1>4. /\ book'.active = [book.active EXCEPT ![sig.symbol] = @ \cup {new}]
      /\ \A other \in Ids : other # new => book'.episodes[other] = book.episodes[other]
      /\ QuotePending(book'.episodes[new])
  BY <1>1, OpenedFacts
<1>5. /\ entry = Idle /\ Up /\ book.active[sig.symbol] = {} /\ book.count < Capacity
      /\ rows' = rows /\ order' = order /\ truth' = truth /\ owned' = owned /\ boot' = boot
      /\ entry' = [stage |-> "claiming", id |-> new, snap |-> book'.episodes[new]]
  BY DEF ClaimOpened, MayAdmit, Opens, At
<1> HIDE DEF new
<1>6. book.active \in [Symbols -> SUBSET Ids]
  BY <1>1, LedgerFields
<1>7. \A other \in Ids : other # new => (Indexed(other)' <=> Indexed(other))
  BY <1>2, <1>4, <1>6, IdFacts DEF Indexed
<1>8. Indexed(new)'
  BY <1>2, <1>4, <1>6 DEF Indexed
<1>9. rows[new].state = "absent" /\ Away(new)
  BY <1>2, <1>3, <1>5 DEF OriginInv, Away
<1>10. ~Exposed(new)
  BY <1>2, <1>3, <1>5, ExposedFacts DEF ActiveSent, ActiveStates
<1>11. StageInv'
  BY <1>4, <1>5, <1>8, <1>9 DEF StageInv, Untouched, Away
<1>12. \A id \in Ids : Exposed(id)' <=> Exposed(id)
  BY <1>5 DEF Exposed
<1>13. ASSUME NEW id \in Ids, Exposed(id) PROVE Tracked(id)'
  <2>1. id # new /\ book'.episodes[id] = book.episodes[id] /\ Indexed(id)'
    BY <1>4, <1>5, <1>7, <1>10, <1>13, ExposedFacts
  <2>2. ActiveSent(rows[id]) /\ ActiveSent(book.episodes[id]) /\ Keeps(id)
    BY <1>5, <1>13, ExposedFacts
  <2>3. Keeps(id)'
    BY <2>2, <1>5 DEF Keeps
  <2> QED
    BY <1>5, <2>1, <2>2, <2>3 DEF Tracked, Kept
<1>14. \A id \in Ids : Reserved(id)' <=> Exposed(id) \/ id = new
  BY <1>5, <1>12 DEF Reserved, Working, EntryStages
<1>15. (\A a, b \in Ids : Reserved(a) /\ Reserved(b) /\ SymbolOf(a) = SymbolOf(b) => a = b)'
  <2>1. \A id \in Ids : Exposed(id) => SymbolOf(id) # sig.symbol
    BY <1>5, ExposedFacts DEF Indexed
  <2>2. \A id \in Ids : Exposed(id) => Reserved(id)
    BY DEF Reserved
  <2>3. \A a, b \in Ids : Exposed(a) /\ Exposed(b) /\ SymbolOf(a) = SymbolOf(b) => a = b
    BY <2>2 DEF ExposureInv
  <2> QED
    BY <1>2, <1>14, <2>1, <2>3
<1>16. (Cardinality({id \in Ids : Reserved(id)}) <= Capacity)'
  <2> DEFINE E == {id \in Ids : Exposed(id)}
             T == {id \in Ids : Reserved(id)'}
  <2>1. E \subseteq IndexedIds(book)
    BY <1>5, ExposedFacts DEF IndexedIds, Indexed
  <2>2. IsFiniteSet(E) /\ Cardinality(E) <= Cardinality(IndexedIds(book))
    BY <2>1, IndexedFinite, FS_Subset
  <2>3. T = E \cup {new}
    BY <1>2, <1>14
  <2>4. new \notin E
    BY <1>10
  <2>5. Cardinality(T) = Cardinality(E) + 1
    BY <2>2, <2>3, <2>4, FS_AddElement
  <2>6. Cardinality(IndexedIds(book)) < Capacity
    BY <1>5 DEF IndexAgrees, LedgerAgrees
  <2>7. Cardinality(E) \in Nat /\ Cardinality(IndexedIds(book)) \in Nat /\ Capacity \in Nat
    BY <2>2, FS_CardinalityType, IndexedFinite, LedgerConstants
  <2>8. Cardinality(T) <= Capacity
    BY <2>2, <2>5, <2>6, <2>7
  <2> QED
    BY <2>8
<1>17. /\ (\A id \in Ids : order[id] # "posted" => truth[id] = NothingSeen)'
       /\ (\A id \in Ids : rows[id].state = "absent" => order[id] = "none")'
       /\ (~Up => entry.stage = "idle" /\ owned.stage = "idle")'
  BY <1>5 DEF ExposureInv, Up
<1> QED
  BY <1>11, <1>12, <1>13, <1>15, <1>16, <1>17 DEF ExposureInv

\* Every other step of the entry lane keeps the exposure invariant.
LEMMA ExposureEntry ==
  TypeOK /\ TypeOK' /\ IndexAgrees /\ OriginInv /\ ExposureInv /\ EntryLane => ExposureInv'
<1> SUFFICES ASSUME TypeOK, TypeOK', IndexAgrees, OriginInv, ExposureInv, EntryLane
             PROVE  ExposureInv'
  OBVIOUS
<1>t. /\ book \in Ledger /\ clock \in Nat
      /\ entry.stage # "idle" => entry.id \in Ids
      /\ entry.snap \in Episode /\ rows \in [Ids -> Episode] /\ order \in [Ids -> OrderStates]
      /\ book.episodes \in [Ids -> Episode]
  BY LaneIds DEF TypeOK
<1>s. StageInv
  BY DEF ExposureInv
<1>b. \A id \in Ids : rows[id].state = "absent" => order[id] = "none"
  BY DEF ExposureInv
<1>1. ASSUME NEW sig \in Signals, ClaimKnown(sig) PROVE ExposureInv'
  <2> DEFINE id == book.sources[IdOfSignal(sig)]
  <2>1. entry' = [stage |-> "saving", id |-> id, snap |-> book.episodes[id]]
    BY <1>1 DEF ClaimKnown, At
  <2> HIDE DEF id
  <2>2. Up /\ book' = book /\ rows' = rows /\ order' = order /\ truth' = truth /\ owned' = owned
        /\ boot' = boot
    BY <1>1 DEF ClaimKnown, MayAdmit
  <2>3. ASSUME NEW x \in Ids, Exposed(x) PROVE Tracked(x)'
    BY <2>1, <2>2, <2>3, ExposedFacts DEF Tracked, Kept, Keeps, Indexed
  <2> QED
    BY <2>1, <2>2, <2>3, StageQuiet, ExposureMemory DEF Working
<1>2. ASSUME NEW sig \in Signals, ClaimMerged(sig) PROVE ExposureInv'
  <2> DEFINE p == Prior(book, sig)
  <2>0. sig \in Signal /\ SameMove(book, sig) /\ book' = Merged(book, sig)
    BY <1>2, AdmissionConstants DEF ClaimMerged, Merges
  <2>1. /\ book'.active = book.active /\ p \in Ids
        /\ \A other \in Ids : other # p => book'.episodes[other] = book.episodes[other]
        /\ book'.episodes[p].state = book.episodes[p].state
        /\ book'.episodes[p].submitted = book.episodes[p].submitted
    BY <1>t, <2>0, MergedFacts
  <2>2. entry' = [stage |-> "saving", id |-> p, snap |-> book'.episodes[p]]
    BY <1>2 DEF ClaimMerged, At
  <2> HIDE DEF p
  <2>3. Up /\ rows' = rows /\ order' = order /\ truth' = truth /\ owned' = owned /\ boot' = boot
    BY <1>2 DEF ClaimMerged, MayAdmit
  <2>4. ASSUME NEW x \in Ids, Exposed(x) PROVE Tracked(x)'
    <3>1. ActiveSent(book'.episodes[x]) /\ ActiveSent(rows[x]) /\ Indexed(x) /\ Keeps(x)
      BY <2>1, <2>3, <2>4, ExposedFacts DEF ActiveSent
    <3> QED
      BY <2>1, <2>2, <2>3, <3>1 DEF Tracked, Kept, Keeps, Indexed
  <2> QED
    BY <2>2, <2>3, <2>4, StageQuiet, ExposureMemory DEF Working
<1>3. ASSUME NEW sig \in Signals, ClaimOpened(sig) PROVE ExposureInv'
  BY <1>3, ExposureOpened
<1>4. CASE DurableClaim
  <2>1. /\ Up /\ entry.stage = "claiming" /\ entry.id \in Ids
        /\ book' = book /\ order' = order /\ truth' = truth /\ owned' = owned /\ boot' = boot
    BY <1>4, <1>t DEF DurableClaim
  <2>2. rows[entry.id].state = "absent" /\ Untouched(entry.id) /\ QuotePending(entry.snap)
        /\ order[entry.id] = "none"
    BY <2>1, <1>s, <1>b DEF StageInv
  <2>3. \/ rows' = [rows EXCEPT ![entry.id] = entry.snap] /\ entry' = [entry EXCEPT !.stage = "quoting"]
        \/ rows' = rows /\ entry' = Idle
    BY <1>4 DEF DurableClaim
  <2>4. /\ entry'.stage \in {"quoting", "idle"}
        /\ entry'.stage = "quoting" =>
             entry'.id = entry.id /\ rows' = [rows EXCEPT ![entry.id] = entry.snap]
        /\ \A id \in Ids : id # entry.id => rows'[id] = rows[id]
    BY <2>1, <2>3, <1>t, IdleTypes DEF TypeOK
  <2>5. StageInv'
    <3>1. entry'.stage = "quoting" => Unsent(entry.id)' /\ rows'[entry.id].state # "absent"
      BY <2>1, <2>2, <2>4, <1>t DEF Unsent, QuotePending
    <3>2. entry'.stage = "quoting" => Untouched(entry.id)'
      BY <2>1, <2>2, <2>4 DEF Untouched, Indexed, Away
    <3> QED
      BY <2>1, <2>2, <2>4, <3>1, <3>2 DEF StageInv
  <2>6. \A id \in Ids : Exposed(id)' => Exposed(id) /\ id # entry.id
    BY <2>1, <2>2 DEF Exposed
  <2>7. ASSUME NEW x \in Ids, Exposed(x)' PROVE Tracked(x)'
    <3>1. Exposed(x) /\ x # entry.id
      BY <2>6, <2>7
    <3>2. ActiveSent(rows[x]) /\ ActiveSent(book.episodes[x]) /\ Indexed(x) /\ Keeps(x)
      BY <2>1, <3>1, ExposedFacts
    <3> QED
      BY <2>1, <2>4, <3>1, <3>2 DEF Tracked, Kept, Keeps, Indexed
  <2>8. \A id \in Ids : Reserved(id)' => Reserved(id)
    BY <2>1, <2>4, <2>6 DEF Reserved, Working, EntryStages
  <2>9. \A id \in Ids : rows'[id].state = "absent" => order'[id] = "none"
    BY <1>b, <2>1, <2>2, <2>4
  <2> QED
    BY <2>1, <2>5, <2>7, <2>8, <2>9, ExposureFrame DEF Up
<1>5. CASE QuoteExpired \/ SettleRefusal
  <2>1. /\ Up /\ entry.stage \in {"quoting", "settling"} /\ entry.id \in Ids
        /\ book' = Release(book, entry.id)
        /\ rows' = rows /\ order' = order /\ truth' = truth /\ owned' = owned /\ boot' = boot
        /\ entry'.stage = "saving" /\ entry'.id = entry.id
    BY <1>5, <1>t DEF QuoteExpired, SettleRefusal, At
  <2>2. ~Exposed(entry.id)
    BY <2>1, <1>s DEF StageInv, Exposed
  <2>3. \A other \in Ids : other # entry.id =>
          /\ book'.episodes[other] = book.episodes[other]
          /\ other \in book'.active[SymbolOf(other)] <=> other \in book.active[SymbolOf(other)]
    BY <2>1, ReleaseFacts
  <2>4. ASSUME NEW x \in Ids, Exposed(x) PROVE Tracked(x)'
    <3>1. ActiveSent(rows[x]) /\ ActiveSent(book.episodes[x]) /\ Indexed(x) /\ Keeps(x) /\ x # entry.id
      BY <2>1, <2>2, <2>4, ExposedFacts
    <3> QED
      BY <2>1, <2>3, <3>1 DEF Tracked, Kept, Keeps, Indexed
  <2> QED
    BY <2>1, <2>4, StageQuiet, ExposureMemory DEF Working
<1>6. CASE PrepareOrder
  <2>1. /\ Up /\ entry.stage = "quoting" /\ entry.id \in Ids
        /\ book' = book /\ rows' = rows /\ truth' = truth /\ owned' = owned /\ boot' = boot
    BY <1>6, <1>t DEF PrepareOrder
  <2>2. /\ order[entry.id] = "none" /\ rows[entry.id].state # "absent"
        /\ (Unsent(entry.id) /\ Untouched(entry.id)) \/ Abandoned(entry.id)
    BY <2>1, <1>s DEF StageInv
  <2>3. \/ /\ Unsent(entry.id) /\ order' = [order EXCEPT ![entry.id] = "prepared"]
           /\ entry' = [entry EXCEPT !.stage = "prepared"]
        \/ order' = order /\ entry' = Idle
    BY <1>6 DEF PrepareOrder, Unsent
  <2>4. /\ entry'.stage \in {"prepared", "idle"}
        /\ entry'.stage = "prepared" =>
             entry'.id = entry.id /\ order'[entry.id] = "prepared" /\ Unsent(entry.id)
        /\ \A id \in Ids : id # entry.id => order'[id] = order[id]
        /\ order'[entry.id] # "posted"
    BY <2>1, <2>2, <2>3, <1>t, IdleTypes DEF TypeOK
  <2>5. StageInv'
    <3>1. entry'.stage = "prepared" => Unsent(entry.id)' /\ Untouched(entry.id)'
      BY <2>1, <2>2, <2>4 DEF Unsent, Untouched, Indexed, Away, Abandoned
    <3> QED
      BY <2>4, <3>1 DEF StageInv
  <2>6. \A id \in Ids : Exposed(id)' => Exposed(id) /\ id # entry.id
    BY <2>1, <2>4 DEF Exposed
  <2>7. ASSUME NEW x \in Ids, Exposed(x)' PROVE Tracked(x)'
    <3>1. Exposed(x) /\ x # entry.id
      BY <2>6, <2>7
    <3>2. ActiveSent(rows[x]) /\ ActiveSent(book.episodes[x]) /\ Indexed(x) /\ Keeps(x)
      BY <2>1, <3>1, ExposedFacts
    <3> QED
      BY <2>1, <2>4, <3>1, <3>2 DEF Tracked, Kept, Keeps, Indexed
  <2>8. \A id \in Ids : Reserved(id)' => Reserved(id)
    BY <2>1, <2>4, <2>6 DEF Reserved, Working, EntryStages
  <2>9. /\ \A id \in Ids : rows'[id].state = "absent" => order'[id] = "none"
        /\ \A id \in Ids : order'[id] # "posted" => order[id] # "posted"
    BY <1>b, <2>1, <2>2, <2>4
  <2> QED
    BY <2>1, <2>5, <2>7, <2>8, <2>9, ExposureFrame DEF Up
<1>7. CASE BeginSubmit
  <2>1. /\ Up /\ entry.stage = "prepared" /\ entry.id \in Ids
        /\ book' = Submitted(book, entry.id, clock)
        /\ rows' = rows /\ order' = order /\ truth' = truth /\ owned' = owned /\ boot' = boot
        /\ entry' = [stage |-> "submitting", id |-> entry.id, snap |-> book'.episodes[entry.id]]
    BY <1>7, <1>t DEF BeginSubmit, At
  <2>2. /\ order[entry.id] \in {"prepared", "aborted"}
        /\ order[entry.id] = "prepared" => Untouched(entry.id)
    BY <2>1, <1>s DEF StageInv
  <2>3. /\ book'.active = book.active
        /\ \A other \in Ids : other # entry.id => book'.episodes[other] = book.episodes[other]
        /\ book'.episodes[entry.id].state = "submitting"
        /\ book'.episodes[entry.id].submitted = clock
    BY <1>t, <2>1, SubmittedFacts
  <2>4. ActiveSent(book'.episodes[entry.id])
    BY <1>t, <2>3 DEF ActiveSent, ActiveStates, NoTime
  <2>5. order[entry.id] = "prepared" => Kept(entry.id)'
    BY <2>1, <2>2, <2>3, <2>4 DEF Untouched, Kept, Keeps, Away, Indexed
  <2>6. StageInv'
    BY <2>1, <2>2, <2>4, <2>5 DEF StageInv
  <2>7. ASSUME NEW x \in Ids, Exposed(x) PROVE Tracked(x)'
    <3>1. /\ ActiveSent(rows[x]) /\ ActiveSent(book.episodes[x]) /\ Indexed(x) /\ Keeps(x)
          /\ x # entry.id
      BY <2>1, <2>7, ExposedFacts
    <3> QED
      BY <2>1, <2>3, <3>1 DEF Tracked, Kept, Keeps, Indexed
  <2> QED
    BY <2>1, <2>6, <2>7, ExposureMemory DEF Working, EntryStages
<1>8. CASE CommitSubmitting
  <2>1. /\ Up /\ entry.stage = "submitting" /\ entry.id \in Ids /\ order[entry.id] = "prepared"
        /\ rows' = [rows EXCEPT ![entry.id] = entry.snap]
        /\ book' = book /\ order' = order /\ truth' = truth /\ owned' = owned /\ boot' = boot
        /\ entry' = [entry EXCEPT !.stage = "sent"]
    BY <1>8, <1>t DEF CommitSubmitting
  <2>2. ActiveSent(entry.snap) /\ Kept(entry.id)
    BY <2>1, <1>s DEF StageInv
  <2>3. entry'.stage = "sent" /\ entry'.id = entry.id
    BY <2>1 DEF TypeOK
  <2>4. /\ rows'[entry.id] = entry.snap
        /\ \A other \in Ids : other # entry.id => rows'[other] = rows[other]
    BY <2>1, <1>t
  <2>5. StageInv'
    <3>1. Kept(entry.id)'
      BY <2>1, <2>2 DEF Kept, Keeps, Indexed
    <3> QED
      BY <2>1, <2>2, <2>3, <2>4, <3>1 DEF StageInv
  <2>6. \A id \in Ids : Exposed(id)' => Exposed(id) /\ id # entry.id
    BY <2>1 DEF Exposed
  <2>7. ASSUME NEW x \in Ids, Exposed(x)' PROVE Tracked(x)'
    <3>1. Exposed(x) /\ x # entry.id
      BY <2>6, <2>7
    <3>2. ActiveSent(rows[x]) /\ ActiveSent(book.episodes[x]) /\ Indexed(x) /\ Keeps(x)
      BY <2>1, <3>1, ExposedFacts
    <3> QED
      BY <2>1, <2>3, <2>4, <3>1, <3>2 DEF Tracked, Kept, Keeps, Indexed
  <2>8. \A id \in Ids : Reserved(id)' => Reserved(id)
    BY <2>1, <2>3, <2>6 DEF Reserved, Working, EntryStages
  <2>9. \A id \in Ids : rows'[id].state = "absent" => order'[id] = "none"
    <3>1. entry.snap.state # "absent"
      BY <2>2 DEF ActiveSent, ActiveStates
    <3> QED
      BY <1>b, <2>1, <2>4, <3>1
  <2> QED
    BY <2>1, <2>5, <2>7, <2>8, <2>9, ExposureFrame DEF Up
<1>9. CASE RepriceConflict
  <2>1. /\ Up /\ entry.stage \in {"prepared", "submitting"} /\ entry.id \in Ids
        /\ truth' = truth /\ owned' = owned /\ boot' = boot
        /\ entry'.stage = "idle"
    BY <1>9, <1>t, IdleTypes DEF RepriceConflict
  <2>2. \/ book' = book /\ rows' = rows /\ order' = order
        \/ /\ rows' = [rows EXCEPT ![entry.id] = AsCancelRequested(rows[entry.id])]
           /\ book' = [book EXCEPT !.episodes[entry.id] = AsCancelRequested(book.episodes[entry.id])]
           /\ order' = [order EXCEPT ![entry.id] = "marked"]
           /\ order[entry.id] = "prepared"
    BY <1>9 DEF RepriceConflict
  <2>3. rows[entry.id] \in Episode /\ order[entry.id] \in {"prepared", "aborted"}
    BY <1>t, <1>s, <2>1 DEF StageInv
  <2>4. AsCancelRequested(rows[entry.id]).state = "absent" => rows[entry.id].state = "absent"
    BY <2>3 DEF AsCancelRequested, Episode
  <2>5. /\ book'.active = book.active
        /\ \A other \in Ids : other # entry.id => /\ book'.episodes[other] = book.episodes[other]
                                                  /\ rows'[other] = rows[other]
                                                  /\ order'[other] = order[other]
        /\ order'[entry.id] # "posted"
        /\ rows'[entry.id].state = "absent" => rows[entry.id].state = "absent"
    BY <1>t, <2>1, <2>2, <2>3, <2>4 DEF Ledger
  <2>6. \A id \in Ids : Exposed(id)' => Exposed(id) /\ id # entry.id
    BY <2>1, <2>5 DEF Exposed
  <2>7. ASSUME NEW x \in Ids, Exposed(x)' PROVE Tracked(x)'
    <3>1. Exposed(x) /\ x # entry.id
      BY <2>6, <2>7
    <3>2. ActiveSent(rows[x]) /\ ActiveSent(book.episodes[x]) /\ Indexed(x) /\ Keeps(x)
      BY <2>1, <3>1, ExposedFacts
    <3> QED
      BY <2>1, <2>5, <3>1, <3>2 DEF Tracked, Kept, Keeps, Indexed
  <2>8. \A id \in Ids : Reserved(id)' => Reserved(id)
    BY <2>1, <2>6 DEF Reserved, Working
  <2>9. /\ \A id \in Ids : rows'[id].state = "absent" => order'[id] = "none"
        /\ \A id \in Ids : order'[id] # "posted" => order[id] # "posted"
    BY <1>b, <2>1, <2>3, <2>5
  <2> QED
    BY <2>1, <2>7, <2>8, <2>9, StageQuiet, ExposureFrame DEF Up
<1>10. CASE RefuseBeforeWire
  <2>1. /\ Up /\ entry.stage \in {"prepared", "submitting", "sent"} /\ entry.id \in Ids
        /\ book' = book /\ truth' = truth /\ owned' = owned /\ boot' = boot
        /\ order[entry.id] # "posted"
    BY <1>10, <1>t DEF RefuseBeforeWire
  <2>2. \/ /\ rows' = [rows EXCEPT ![entry.id].state = "terminal_no_fill"]
           /\ order' = [order EXCEPT ![entry.id] = "aborted"]
           /\ entry' = [entry EXCEPT !.stage = "settling"]
        \/ entry' = Idle /\ rows' = rows /\ order' = order
    BY <1>10 DEF RefuseBeforeWire
  <2>3. /\ \A other \in Ids : other # entry.id => rows'[other] = rows[other] /\ order'[other] = order[other]
        /\ order'[entry.id] # "posted"
        /\ rows'[entry.id].state = "absent" => rows'[entry.id] = rows[entry.id] /\ order' = order
        /\ entry'.stage \in {"settling", "idle"}
        /\ entry'.stage = "settling" => entry'.id = entry.id /\ order'[entry.id] = "aborted"
    BY <1>t, <2>1, <2>2, IdleTypes DEF TypeOK, Episode
  <2>4. StageInv'
    BY <2>3 DEF StageInv
  <2>6. \A id \in Ids : Exposed(id)' => Exposed(id) /\ id # entry.id
    BY <2>1, <2>3 DEF Exposed
  <2>7. ASSUME NEW x \in Ids, Exposed(x)' PROVE Tracked(x)'
    <3>1. Exposed(x) /\ x # entry.id
      BY <2>6, <2>7
    <3>2. ActiveSent(rows[x]) /\ ActiveSent(book.episodes[x]) /\ Indexed(x) /\ Keeps(x)
      BY <2>1, <3>1, ExposedFacts
    <3> QED
      BY <2>1, <2>3, <3>1, <3>2 DEF Tracked, Kept, Keeps, Indexed
  <2>8. \A id \in Ids : Reserved(id)' => Reserved(id)
    BY <2>1, <2>3, <2>6 DEF Reserved, Working, EntryStages
  <2>9. /\ \A id \in Ids : rows'[id].state = "absent" => order'[id] = "none"
        /\ \A id \in Ids : order'[id] # "posted" => order[id] # "posted"
    BY <1>b, <2>1, <2>3
  <2> QED
    BY <2>1, <2>4, <2>7, <2>8, <2>9, ExposureFrame DEF Up
<1>11. CASE Dispatch
  <2>1. /\ Up /\ entry.stage = "sent" /\ entry.id \in Ids /\ order[entry.id] = "prepared"
        /\ order' = [order EXCEPT ![entry.id] = "posted"]
        /\ book' = book /\ rows' = rows /\ truth' = truth /\ owned' = owned /\ boot' = boot
        /\ entry' = entry
    BY <1>11, <1>t DEF Dispatch
  <2>2. ActiveSent(rows[entry.id]) /\ Kept(entry.id)
    BY <2>1, <1>s DEF StageInv
  <2>3. order'[entry.id] = "posted" /\ \A other \in Ids : other # entry.id => order'[other] = order[other]
    BY <1>t, <2>1
  <2>4. StageInv'
    BY <2>1, <2>3 DEF StageInv
  <2>5. \A id \in Ids : Exposed(id)' => Exposed(id) \/ id = entry.id
    BY <2>1, <2>3 DEF Exposed
  <2>6. ASSUME NEW x \in Ids, Exposed(x)' PROVE Tracked(x)'
    <3>1. CASE x = entry.id
      BY <2>1, <2>2, <3>1 DEF Tracked, Kept, Keeps, Indexed
    <3>2. CASE x # entry.id
      <4>1. ActiveSent(rows[x]) /\ ActiveSent(book.episodes[x]) /\ Indexed(x) /\ Keeps(x)
        BY <2>1, <2>5, <2>6, <3>2, ExposedFacts
      <4> QED
        BY <2>1, <3>2, <4>1 DEF Tracked, Kept, Keeps, Indexed
    <3> QED
      BY <3>1, <3>2
  <2>7. \A id \in Ids : Reserved(id)' => Reserved(id)
    BY <2>1, <2>5 DEF Reserved, Working, EntryStages
  <2>8. /\ \A id \in Ids : rows'[id].state = "absent" => order'[id] = "none"
        /\ \A id \in Ids : order'[id] # "posted" => order[id] # "posted"
    BY <1>b, <2>1, <2>3
  <2> QED
    BY <2>1, <2>4, <2>6, <2>7, <2>8, ExposureFrame DEF Up
<1>12. CASE RecordRoute \/ SubmitFailed
  <2>1. /\ Up /\ book' = book /\ rows' = rows /\ order' = order /\ truth' = truth
        /\ owned' = owned /\ boot' = boot /\ entry'.stage \in {"saving", "idle"}
        /\ entry'.stage = "saving" => entry'.snap = book.episodes[entry'.id]
    BY <1>12, IdleTypes DEF RecordRoute, SubmitFailed, At
  <2>2. ASSUME NEW x \in Ids, Exposed(x) PROVE Tracked(x)'
    <3>1. ActiveSent(rows[x]) /\ ActiveSent(book.episodes[x]) /\ Indexed(x) /\ Keeps(x)
      BY <2>1, <2>2, ExposedFacts
    <3> QED
      BY <2>1, <3>1 DEF Tracked, Kept, Keeps, Indexed
  <2> QED
    BY <2>1, <2>2, StageQuiet, ExposureMemory DEF Working
<1>13. CASE EntrySave
  <2>1. /\ Up /\ entry.stage = "saving" /\ entry.id \in Ids /\ rows' = Stored(entry.id, entry.snap)
        /\ book' = book /\ order' = order /\ truth' = truth /\ owned' = owned /\ boot' = boot
        /\ entry'.stage = "idle"
    BY <1>13, <1>t, IdleTypes DEF EntrySave
  <2>2. entry.snap.state # "absent"
    BY <2>1 DEF OriginInv
  <2>3. /\ \A other \in Ids : other # entry.id => rows'[other] = rows[other]
        /\ rows'[entry.id].state = "absent" => rows[entry.id].state = "absent"
        /\ order[entry.id] = "posted" => rows'[entry.id] = rows[entry.id] \/ rows'[entry.id] = entry.snap
    BY <1>t, <2>1, <2>2 DEF Stored, Episode
  <2>4. \A id \in Ids : Exposed(id)' => Exposed(id)
    BY <2>1 DEF Exposed
  <2>5. ASSUME NEW x \in Ids, Exposed(x)' PROVE Tracked(x)'
    <3>1. /\ ActiveSent(rows[x]) /\ ActiveSent(book.episodes[x]) /\ Indexed(x) /\ Keeps(x)
          /\ x = entry.id => ActiveSent(entry.snap) /\ order[x] = "posted"
      BY <2>1, <2>4, <2>5, ExposedFacts DEF Exposed
    <3>2. ActiveSent(rows'[x])
      BY <2>3, <3>1
    <3> QED
      BY <2>1, <3>1, <3>2 DEF Tracked, Kept, Keeps, Indexed
  <2>6. \A id \in Ids : Reserved(id)' => Reserved(id)
    BY <2>1, <2>4 DEF Reserved, Working
  <2>7. \A id \in Ids : rows'[id].state = "absent" => order'[id] = "none"
    BY <1>b, <2>1, <2>3
  <2> QED
    BY <2>1, <2>5, <2>6, <2>7, StageQuiet, ExposureFrame DEF Up
<1> QED
  BY <1>1, <1>2, <1>3, <1>4, <1>5, <1>6, <1>7, <1>8, <1>9, <1>10, <1>11, <1>12, <1>13
     DEF EntryLane

\* A step of the owned lane on the episode w leaves the other episodes, and the stage of
\* an entry lane that works on another one, as they are.
LEMMA OwnedElsewhere ==
  ASSUME ExposureInv, Up, NEW w \in Ids, boot' = boot, truth' = truth, entry' = entry,
         entry.stage # "idle" => entry.id \in Ids,
         owned.stage # "idle" => owned.id = w,
         owned'.stage # "idle" => owned'.id = w,
         \A other \in Ids : other # w => /\ book'.episodes[other] = book.episodes[other]
                                         /\ Indexed(other)' <=> Indexed(other)
                                         /\ rows'[other] = rows[other]
                                         /\ order'[other] = order[other],
         order'[w] = "posted" <=> order[w] = "posted",
         rows'[w].state = "absent" => order'[w] = "none",
         entry.stage # "idle" /\ entry.id = w => StageInv',
         Exposed(w) => Tracked(w)'
  PROVE  ExposureInv'
<1>1. StageInv'
  <2>1. CASE entry.stage = "idle"
    BY <2>1 DEF StageInv
  <2>2. CASE entry.stage # "idle" /\ entry.id # w
    <3> DEFINE id == entry.id
    <3>1. /\ id \in Ids /\ book'.episodes[id] = book.episodes[id] /\ (Indexed(id)' <=> Indexed(id))
          /\ rows'[id] = rows[id] /\ order'[id] = order[id]
      BY <2>2
    <3>2. Away(id) /\ Away(id)' /\ Keeps(id)'
      BY <2>2 DEF Away, Keeps
    <3>3. (Untouched(id) => Untouched(id)') /\ (Kept(id) => Kept(id)') /\ (Unsent(id)' <=> Unsent(id))
      BY <3>1, <3>2 DEF Untouched, Kept, Unsent
    <3>4. Abandoned(id) => Abandoned(id)'
      BY <2>2, <3>1, <3>3 DEF Abandoned
    <3> QED
      BY <3>1, <3>3, <3>4 DEF StageInv, ExposureInv
  <2> QED
    BY <2>1, <2>2
<1>2. \A id \in Ids : Exposed(id)' <=> Exposed(id)
  BY DEF Exposed
<1>3. ASSUME NEW x \in Ids, Exposed(x)' PROVE Tracked(x)'
  <2>1. CASE x = w
    BY <1>2, <1>3, <2>1
  <2>2. CASE x # w
    <3>1. /\ ActiveSent(rows[x]) /\ ActiveSent(book.episodes[x]) /\ Indexed(x) /\ Keeps(x)
          /\ entry.stage # "idle" /\ entry.id = x =>
               entry.stage = "sent" \/ (entry.stage = "saving" /\ ActiveSent(entry.snap))
      BY <1>2, <1>3, ExposedFacts
    <3>2. Keeps(x)'
      BY <2>2 DEF Keeps
    <3> QED
      BY <2>2, <3>1, <3>2 DEF Tracked, Kept
  <2> QED
    BY <2>1, <2>2
<1>4. \A id \in Ids : Reserved(id)' => Reserved(id)
  BY <1>2 DEF Reserved, Working
<1>5. /\ \A id \in Ids : rows'[id].state = "absent" => order'[id] = "none"
      /\ \A id \in Ids : order'[id] # "posted" => order[id] # "posted"
      /\ (~Up => entry.stage = "idle" /\ owned.stage = "idle")'
  BY DEF ExposureInv, Up
<1> QED
  BY <1>1, <1>3, <1>4, <1>5, ExposureFrame

\* An observation of what was never posted is not settled.
LEMMA NothingSettled == ~Settled(NothingSeen)
  BY DEF Settled, NothingSeen

\* Every step of the owned lane keeps the exposure invariant.
LEMMA ExposureOwned == TypeOK /\ TypeOK' /\ OriginInv /\ ExposureInv /\ OwnedLane => ExposureInv'
<1> SUFFICES ASSUME TypeOK, TypeOK', OriginInv, ExposureInv, OwnedLane PROVE ExposureInv'
  OBVIOUS
<1>t. /\ book \in Ledger /\ clock \in Nat
      /\ entry.stage # "idle" => entry.id \in Ids
      /\ owned.stage # "idle" => owned.id \in Ids
      /\ owned.snap \in Episode /\ owned.obs \in Observation
      /\ rows \in [Ids -> Episode] /\ order \in [Ids -> OrderStates]
      /\ book.episodes \in [Ids -> Episode]
  BY LaneIds DEF TypeOK
<1>s. StageInv
  BY DEF ExposureInv
<1>b. \A id \in Ids : rows[id].state = "absent" => order[id] = "none"
  BY DEF ExposureInv
<1>1. ASSUME NEW w \in Ids, Observe(w) PROVE ExposureInv'
  <2>1. /\ Up /\ owned.stage = "idle" /\ ~QuotePending(book.episodes[w])
        /\ book.episodes[w].state \in ActiveStates
        /\ book' = book /\ rows' = rows /\ order' = order /\ truth' = truth /\ entry' = entry
        /\ boot' = boot /\ owned'.stage = "observed" /\ owned'.id = w
        /\ order[w] \notin {"aborted", "retired"} => owned'.obs = truth[w]
    BY <1>1 DEF Observe, Serviced
  <2>2. order[w] = "prepared" => Keeps(w)'
    BY <2>1, NothingSettled DEF ExposureInv, Keeps
  <2>3. ASSUME entry.stage # "idle", entry.id = w PROVE StageInv'
    <3>1. entry.stage # "claiming"
      BY <1>s, <2>1, <2>3 DEF StageInv, Untouched
    <3>2. entry.stage # "quoting"
      BY <1>s, <2>1, <2>3 DEF StageInv, Untouched, Abandoned, ActiveStates, TerminalStates
    <3>3. entry.stage = "prepared" => order[w] = "aborted"
      BY <1>s, <2>1, <2>3 DEF StageInv, Untouched
    <3>4. Kept(w) /\ order[w] = "prepared" => Kept(w)'
      BY <2>1, <2>2 DEF Kept, Indexed
    <3> QED
      BY <1>s, <2>1, <2>3, <3>1, <3>2, <3>3, <3>4 DEF StageInv
  <2>4. ASSUME Exposed(w) PROVE Tracked(w)'
    <3>1. /\ ActiveSent(rows[w]) /\ ActiveSent(book.episodes[w]) /\ Indexed(w)
          /\ entry.stage # "idle" /\ entry.id = w =>
               entry.stage = "sent" \/ (entry.stage = "saving" /\ ActiveSent(entry.snap))
      BY <2>1, <2>4, ExposedFacts
    <3>2. Keeps(w)'
      BY <2>1, <2>4 DEF Keeps, Exposed
    <3> QED
      BY <2>1, <3>1, <3>2 DEF Tracked, Kept, Indexed
  <2> QED
    BY <1>t, <1>b, <2>1, <2>3, <2>4, OwnedElsewhere DEF Indexed
<1>2. ASSUME NEW w \in Ids, RetireCommit(w) PROVE ExposureInv'
  <2>1. /\ Up /\ owned.stage = "idle" /\ order[w] = "marked"
        /\ book' = book /\ truth' = truth /\ entry' = entry /\ boot' = boot
        /\ owned'.stage = "retired" /\ owned'.id = w
        /\ entry.id \in Ids => SymbolOf(entry.id) # SymbolOf(w)
    BY <1>2 DEF RetireCommit, Resting
  <2>2. /\ \A other \in Ids : other # w => rows'[other] = rows[other] /\ order'[other] = order[other]
        /\ rows'[w].state = "terminal_no_fill" /\ order'[w] = "retired"
    BY <1>2, <1>t DEF RetireCommit, Episode
  <2>3. entry.stage # "idle" => entry.id # w
    BY <1>t, <2>1
  <2>4. ~Exposed(w)
    BY <2>1 DEF Exposed
  <2> QED
    BY <1>t, <2>1, <2>2, <2>3, <2>4, OwnedElsewhere DEF Indexed
<1>3. ASSUME NEW w \in Ids, AbandonCommit(w) PROVE ExposureInv'
  <2>1. /\ Up /\ owned.stage = "idle" /\ QuotePending(book.episodes[w]) /\ Unsent(w)
        /\ order[w] \in {"none", "prepared"}
        /\ book' = book /\ truth' = truth /\ entry' = entry /\ boot' = boot
        /\ owned'.stage = "abandoned" /\ owned'.id = w
    BY <1>3 DEF AbandonCommit, Resting
  <2>2. /\ \A other \in Ids : other # w => rows'[other] = rows[other] /\ order'[other] = order[other]
        /\ rows'[w].state = "terminal_no_fill"
        /\ order'[w] = IF order[w] = "prepared" THEN "aborted" ELSE order[w]
    BY <1>3, <1>t DEF AbandonCommit, Episode
  <2>3. ASSUME entry.stage # "idle", entry.id = w PROVE StageInv'
    <3>1. entry.stage \notin {"claiming", "settling"}
      BY <1>s, <2>1, <2>3 DEF StageInv, Unsent
    <3>2. entry.stage \notin {"submitting", "sent"}
      BY <1>s, <2>1, <2>3 DEF StageInv, Kept, ActiveSent, QuotePending
    <3>3. Abandoned(w)'
      BY <2>1, <2>2 DEF Abandoned, Unsent
    <3> QED
      BY <1>s, <2>1, <2>2, <2>3, <3>1, <3>2, <3>3 DEF StageInv
  <2>4. ~Exposed(w) /\ order'[w] # "posted" /\ order[w] # "posted"
    BY <2>1, <2>2 DEF Exposed
  <2> QED
    BY <1>t, <2>1, <2>2, <2>3, <2>4, OwnedElsewhere DEF Indexed
<1>4. CASE RetireSettle
  <2> DEFINE w == owned.id
             R == Release(book, w)
  <2>1. /\ Up /\ owned.stage = "retired" /\ w \in Ids
        /\ rows' = rows /\ order' = order /\ truth' = truth /\ entry' = entry /\ boot' = boot
        /\ owned'.stage = "observed" /\ owned'.id = w
    BY <1>4, <1>t DEF RetireSettle, TypeOK
  <2>2. book' = [R EXCEPT !.episodes[w].closed = rows[w].closed]
    BY <1>4 DEF RetireSettle
  <2>3. R \in Ledger
    BY <1>t, <2>1, ReleaseType
  <2>4. \A other \in Ids : other # w =>
          /\ R.episodes[other] = book.episodes[other]
          /\ other \in R.active[SymbolOf(other)] <=> other \in book.active[SymbolOf(other)]
    BY <2>1, ReleaseFacts
  <2> HIDE DEF R
  <2>5. book'.active = R.active /\ \A other \in Ids : other # w => book'.episodes[other] = R.episodes[other]
    BY <2>1, <2>2, <2>3 DEF Ledger
  <2>6. ASSUME entry.stage # "idle", entry.id = w PROVE StageInv'
    <3>1. entry.stage \notin {"claiming", "quoting"}
      BY <1>s, <2>1, <2>6 DEF StageInv, Untouched, Away, Abandoned
    <3>2. entry.stage = "prepared" => order[w] = "aborted"
      BY <1>s, <2>1, <2>6 DEF StageInv, Untouched, Away
    <3>3. entry.stage \in {"submitting", "sent"} => order[w] # "prepared"
      BY <1>s, <2>1, <2>6 DEF StageInv, Kept, Keeps
    <3> QED
      BY <1>s, <2>1, <2>6, <3>1, <3>2, <3>3 DEF StageInv
  <2>7. ~Exposed(w)
    BY <2>1, ExposedFacts DEF Keeps
  <2> QED
    BY <1>t, <1>b, <2>1, <2>4, <2>5, <2>6, <2>7, OwnedElsewhere DEF Indexed
<1>5. CASE Reconcile
  <2> DEFINE w == owned.id
             obs == owned.obs
  <2>1. /\ Up /\ owned.stage = "observed" /\ w \in Ids
        /\ book' = Reconciled(book, w, obs.filled, obs.exited, obs.terminal, obs.outstanding, clock)
        /\ rows' = rows /\ order' = order /\ truth' = truth /\ entry' = entry /\ boot' = boot
        /\ owned'.stage = "saving" /\ owned'.id = w /\ owned'.snap = book'.episodes[w]
    BY <1>5, <1>t DEF Reconcile, TypeOK
  <2>2. /\ \A other \in Ids : other # w =>
             /\ book'.episodes[other] = book.episodes[other]
             /\ other \in book'.active[SymbolOf(other)] <=> other \in book.active[SymbolOf(other)]
        /\ book'.episodes[w].submitted = book.episodes[w].submitted
        /\ book'.episodes[w].state = ReconciledState(book.episodes[w], obs.filled, obs.exited,
                                                     obs.terminal, obs.outstanding)
        /\ book'.episodes[w].state \in ActiveStates <=> w \in book'.active[SymbolOf(w)]
    BY <1>t, <2>1, ObservedFacts
  <2>3. book.episodes[w].state \in ActiveStates /\ ~Settled(obs) => book'.episodes[w].state \in ActiveStates
    <3>1. book.episodes[w] \in Episode /\ obs \in Observation
      BY <1>t, <2>1
    <3> QED
      BY <2>2, <3>1, ReconciledStateFacts
  <2>4. ActiveSent(book.episodes[w]) /\ ~Settled(obs) =>
          ActiveSent(book'.episodes[w]) /\ Indexed(w)' /\ Keeps(w)'
    BY <2>1, <2>2, <2>3 DEF ActiveSent, Indexed, Keeps
  <2>5. Kept(w) => Kept(w)'
    BY <2>1, <2>4 DEF Kept, Keeps
  <2>6. ASSUME entry.stage # "idle", entry.id = w PROVE StageInv'
    <3>1. entry.stage \notin {"claiming", "quoting"}
      BY <1>s, <2>1, <2>6 DEF StageInv, Untouched, Away, Abandoned
    <3>2. entry.stage = "prepared" => order[w] = "aborted"
      BY <1>s, <2>1, <2>6 DEF StageInv, Untouched, Away
    <3> QED
      BY <1>s, <2>1, <2>5, <2>6, <3>1, <3>2 DEF StageInv
  <2>7. ASSUME Exposed(w) PROVE Tracked(w)'
    <3>1. /\ ActiveSent(rows[w]) /\ Kept(w)
          /\ entry.stage # "idle" /\ entry.id = w =>
               entry.stage = "sent" \/ (entry.stage = "saving" /\ ActiveSent(entry.snap))
      BY <2>1, <2>7, ExposedFacts DEF Kept
    <3> QED
      BY <2>1, <2>5, <3>1 DEF Tracked
  <2> QED
    BY <1>t, <1>b, <2>1, <2>2, <2>6, <2>7, OwnedElsewhere DEF Indexed
<1>6. CASE OwnedSave
  <2>0. PICK w \in Ids : w = owned.id
    BY <1>6, <1>t DEF OwnedSave
  <2>1. /\ Up /\ owned.stage \in {"saving", "closing"} /\ owned.id = w /\ rows' = Stored(w, owned.snap)
        /\ book' = book /\ order' = order /\ truth' = truth /\ entry' = entry /\ boot' = boot
        /\ owned'.stage \in {"saved", "idle"} /\ (owned'.stage = "saved" => owned'.id = w)
        /\ owned.stage = "closing" => owned'.stage = "idle"
    BY <1>6, <1>t, <2>0, IdleTypes DEF OwnedSave, TypeOK
  <2>2. owned.snap.state # "absent"
    BY <2>1 DEF OriginInv
  <2>3. /\ \A other \in Ids : other # w => rows'[other] = rows[other]
        /\ rows'[w].state = "absent" => rows[w].state = "absent"
        /\ order[w] # "retired" /\ rows[w].state # "absent" => rows'[w] = owned.snap
    BY <1>t, <2>1, <2>2 DEF Stored, Episode
  <2>4. Kept(w) => Kept(w)'
    BY <2>1 DEF Kept, Keeps, Indexed
  <2>5. Keeps(w) /\ ActiveSent(rows[w]) /\ order[w] # "retired" => ActiveSent(rows'[w])
    BY <2>1, <2>3 DEF Keeps, ActiveSent, ActiveStates
  <2>6. ASSUME entry.stage # "idle", entry.id = w PROVE StageInv'
    <3>1. entry.stage # "claiming"
      BY <1>s, <2>1, <2>6 DEF StageInv, Untouched, Away
    <3>2. ASSUME entry.stage = "quoting" PROVE Abandoned(w)' /\ order[w] = "none" /\ rows'[w].state # "absent"
      <4>1. order[w] = "none" /\ rows[w].state # "absent" /\ Abandoned(w)
        BY <1>s, <2>1, <2>6, <3>2 DEF StageInv, Untouched, Away
      <4>2. owned.stage = "closing" /\ owned.snap.state \in TerminalStates
            /\ book.episodes[w].state \in TerminalStates
        BY <2>1, <4>1 DEF Abandoned
      <4>3. rows'[w] = owned.snap
        BY <2>3, <4>1
      <4> QED
        BY <2>1, <4>1, <4>2, <4>3 DEF Abandoned, Unsent, TerminalStates
    <3>3. entry.stage = "prepared" => order[w] = "aborted"
      BY <1>s, <2>1, <2>6 DEF StageInv, Untouched, Away
    <3>4. entry.stage = "sent" /\ order[w] = "prepared" => ActiveSent(rows'[w])
      BY <1>s, <2>5, <2>6 DEF StageInv, Kept
    <3> QED
      BY <1>s, <2>1, <2>4, <2>6, <3>1, <3>2, <3>3, <3>4 DEF StageInv
  <2>7. ASSUME Exposed(w) PROVE Tracked(w)'
    <3>1. /\ ActiveSent(rows[w]) /\ Kept(w) /\ Keeps(w) /\ order[w] # "retired"
          /\ entry.stage # "idle" /\ entry.id = w =>
               entry.stage = "sent" \/ (entry.stage = "saving" /\ ActiveSent(entry.snap))
      BY <2>1, <2>7, ExposedFacts DEF Kept, Exposed
    <3> QED
      BY <2>1, <2>4, <2>5, <3>1 DEF Tracked
  <2> QED
    BY <1>t, <1>b, <2>1, <2>3, <2>6, <2>7, OwnedElsewhere DEF Indexed
<1>7. CASE CancelEntry
  <2>0. PICK w \in Ids : w = owned.id
    BY <1>7, <1>t DEF CancelEntry
  <2>1. /\ Up /\ owned.stage = "saved" /\ owned.id = w
        /\ rows' = rows /\ order' = order /\ truth' = truth /\ entry' = entry /\ boot' = boot
    BY <1>7, <1>t, <2>0 DEF CancelEntry
  <2>2. \/ book' = book /\ owned'.stage = "idle"
        \/ /\ book' = CancelRequested(book, w)
           /\ owned'.stage = "closing" /\ owned'.id = w /\ owned'.snap = book'.episodes[w]
    BY <1>7, <2>0, IdleTypes DEF CancelEntry, TypeOK
  <2>3. /\ book'.active = book.active
        /\ \A other \in Ids : other # w => book'.episodes[other] = book.episodes[other]
        /\ book'.episodes[w].submitted = book.episodes[w].submitted
        /\ book'.episodes[w].state \in {book.episodes[w].state, "cancel_requested"}
    BY <1>t, <2>1, <2>2, CancelFacts
  <2>4. Kept(w) => Kept(w)'
    BY <2>2, <2>3 DEF Kept, Keeps, Indexed, ActiveSent, ActiveStates
  <2>5. ASSUME entry.stage # "idle", entry.id = w PROVE StageInv'
    <3>1. entry.stage \notin {"claiming", "quoting"}
      BY <1>s, <2>1, <2>5 DEF StageInv, Untouched, Away, Abandoned
    <3>2. entry.stage = "prepared" => order[w] = "aborted"
      BY <1>s, <2>1, <2>5 DEF StageInv, Untouched, Away
    <3> QED
      BY <1>s, <2>1, <2>4, <2>5, <3>1, <3>2 DEF StageInv
  <2>6. ASSUME Exposed(w) PROVE Tracked(w)'
    <3>1. /\ ActiveSent(rows[w]) /\ Kept(w)
          /\ entry.stage # "idle" /\ entry.id = w =>
               entry.stage = "sent" \/ (entry.stage = "saving" /\ ActiveSent(entry.snap))
      BY <2>1, <2>6, ExposedFacts DEF Kept
    <3> QED
      BY <2>1, <2>4, <3>1 DEF Tracked
  <2> QED
    BY <1>t, <1>b, <2>1, <2>2, <2>3, <2>5, <2>6, OwnedElsewhere DEF Indexed
<1>8. CASE AbandonSettle
  <2> DEFINE w == owned.id
  <2>1. /\ Up /\ owned.stage = "abandoned" /\ w \in Ids /\ book' = Release(book, w)
        /\ rows' = rows /\ order' = order /\ truth' = truth /\ entry' = entry /\ boot' = boot
        /\ owned'.stage = "closing" /\ owned'.id = w /\ owned'.snap = book'.episodes[w]
    BY <1>8, <1>t DEF AbandonSettle, TypeOK
  <2>2. /\ \A other \in Ids : other # w =>
             /\ book'.episodes[other] = book.episodes[other]
             /\ other \in book'.active[SymbolOf(other)] <=> other \in book.active[SymbolOf(other)]
        /\ book'.episodes[w].state = "terminal_no_fill"
    BY <2>1, ReleaseFacts
  <2>3. ASSUME entry.stage # "idle", entry.id = w PROVE StageInv'
    <3>1. entry.stage # "claiming"
      BY <1>s, <2>1, <2>3 DEF StageInv, Untouched, Away
    <3>2. entry.stage = "quoting" => Abandoned(w)'
      <4>1. entry.stage = "quoting" => Abandoned(w)
        BY <1>s, <2>1, <2>3 DEF StageInv, Untouched, Away
      <4> QED
        BY <2>1, <2>2, <4>1 DEF Abandoned, Unsent, TerminalStates
    <3>3. entry.stage = "prepared" => order[w] = "aborted"
      BY <1>s, <2>1, <2>3 DEF StageInv, Untouched, Away
    <3>4. entry.stage \in {"submitting", "sent"} => order[w] # "prepared"
      BY <1>s, <2>1, <2>3 DEF StageInv, Kept, Keeps
    <3> QED
      BY <1>s, <2>1, <2>3, <3>1, <3>2, <3>3, <3>4 DEF StageInv
  <2>4. ~Exposed(w)
    BY <2>1, ExposedFacts DEF Keeps
  <2> QED
    BY <1>t, <1>b, <2>1, <2>2, <2>3, <2>4, OwnedElsewhere DEF Indexed
<1> QED
  BY <1>1, <1>2, <1>3, <1>4, <1>5, <1>6, <1>7, <1>8 DEF OwnedLane

\* A restart finds every exposed episode in its row, and indexes it unless it refuses to boot.
LEMMA ExposureRestart == TypeOK /\ ExposureInv /\ Restart => ExposureInv'
<1> SUFFICES ASSUME TypeOK, ExposureInv, Restart PROVE ExposureInv'
  OBVIOUS
<1>1. entry'.stage = "idle" /\ owned'.stage = "idle" /\ order' = order /\ truth' = truth
  BY IdleTypes DEF Restart
<1>2. \A id \in Ids : Exposed(id)' <=> Exposed(id)
  BY <1>1 DEF Exposed
<1>3. \A id \in Ids : Reserved(id)' => Reserved(id)
  BY <1>1, <1>2 DEF Reserved, Working
<1>4. \A id \in Ids : Exposed(id) => ActiveSent(rows[id])
  BY DEF ExposureInv, Tracked
<1>5. \A id \in Ids : Keeps(id)'
  BY <1>1 DEF Keeps
<1>6. /\ \A id \in Ids : rows'[id].state = "absent" => rows[id].state = "absent"
      /\ \A id \in Ids : Exposed(id) => Tracked(id)'
  <2>1. CASE BootRefused
    <3>1. rows' = rows /\ ~Up'
      BY <2>1 DEF Restart, Up
    <3> QED
      BY <1>1, <1>4, <3>1 DEF Tracked
  <2>2. CASE ~BootRefused
    <3>1. rows' = BootRows /\ book' = Restored(BootRows) /\ BootRows \in [Ids -> Episode]
      BY <2>2, BootRowsType DEF Restart
    <3>2. book'.episodes = BootRows
      BY <3>1 DEF Restored
    <3>3. ASSUME NEW id \in Ids, Exposed(id) PROVE Tracked(id)'
      <4>1. BootRows[id] = rows[id]
        BY <1>4, <3>3, BootRowsFacts DEF ActiveSent, Unsent
      <4>2. ActiveSent(BootRows[id])
        BY <1>4, <3>3, <4>1
      <4>3. Indexed(id)'
        BY <3>1, <4>2, RestoredAgrees DEF Indexed, ActiveSent
      <4> QED
        BY <1>1, <1>5, <3>1, <3>2, <4>2, <4>3 DEF Tracked, Kept
    <3> QED
      BY <3>1, <3>3, BootRowsFacts
  <2> QED
    BY <2>1, <2>2
<1>7. /\ \A id \in Ids : rows'[id].state = "absent" => order'[id] = "none"
      /\ \A id \in Ids : order'[id] # "posted" => order[id] # "posted"
  BY <1>1, <1>6 DEF ExposureInv
<1> QED
  BY <1>1, <1>2, <1>3, <1>6, <1>7, StageQuiet, ExposureFrame

\* Reports, the operator, time and restarts keep the exposure invariant.
LEMMA ExposureEnvironment == TypeOK /\ ExposureInv /\ Environment => ExposureInv'
<1> SUFFICES ASSUME TypeOK, ExposureInv, Environment PROVE ExposureInv'
  OBVIOUS
<1>1. ASSUME NEW w \in Ids, BrokerReport(w) PROVE ExposureInv'
  <2>1. /\ order[w] = "posted" /\ ~Settled(truth[w])
        /\ book' = book /\ rows' = rows /\ order' = order /\ entry' = entry /\ owned' = owned
        /\ boot' = boot
    BY <1>1 DEF BrokerReport
  <2>2. \A other \in Ids : other # w => truth'[other] = truth[other]
    BY <1>1 DEF BrokerReport, TypeOK
  <2>3. \A id \in Ids : Exposed(id)' => Exposed(id)
    BY <2>1, <2>2 DEF Exposed
  <2>4. \A id \in Ids : Reserved(id)' => Reserved(id)
    BY <2>1, <2>3 DEF Reserved, Working
  <2>5. \A id \in Ids : Tracked(id) => Tracked(id)'
    BY <2>1 DEF Tracked, Kept, Keeps, Indexed, Up
  <2>6. \A id \in Ids : order'[id] # "posted" => truth'[id] = NothingSeen
    BY <2>1, <2>2 DEF ExposureInv
  <2>7. /\ (\A a, b \in Ids : Reserved(a) /\ Reserved(b) /\ SymbolOf(a) = SymbolOf(b) => a = b)'
        /\ (Cardinality({id \in Ids : Reserved(id)}) <= Capacity)'
    BY <2>4, ReservedShrinks
  <2>8. StageInv'
    BY <2>1 DEF ExposureInv, StageInv, Untouched, Kept, Keeps, Away, Indexed, Abandoned, Unsent
  <2> QED
    BY <2>1, <2>3, <2>5, <2>6, <2>7, <2>8 DEF ExposureInv, Up
<1>2. CASE Operator \/ Tick
  <2>1. /\ book' = book /\ rows' = rows /\ order' = order /\ entry' = entry /\ owned' = owned
        /\ boot' = boot /\ truth' = truth
    BY <1>2 DEF Operator, Tick
  <2> QED
    BY <2>1 DEF ExposureInv, StageInv, Untouched, Kept, Keeps, Away, Indexed,
                Abandoned, Unsent, Tracked, Exposed, Reserved, Working, Up
<1> QED
  BY <1>1, <1>2, ExposureRestart DEF Environment

\* Nothing is reserved at first.
LEMMA ExposureInit == Init => ExposureInv
<1> SUFFICES ASSUME Init PROVE ExposureInv
  OBVIOUS
<1>1. /\ entry.stage = "idle" /\ owned.stage = "idle"
      /\ \A id \in Ids : order[id] = "none" /\ truth[id] = NothingSeen
  BY IdleTypes DEF Init
<1>2. \A id \in Ids : ~Exposed(id) /\ ~Reserved(id)
  BY <1>1 DEF Exposed, Reserved, Working
<1>3. {id \in Ids : Reserved(id)} = {}
  BY <1>2
<1>4. Cardinality({id \in Ids : Reserved(id)}) <= Capacity
  BY <1>3, FS_EmptySet, LedgerConstants
<1>5. StageInv
  BY <1>1 DEF StageInv
<1> QED
  BY <1>1, <1>2, <1>4, <1>5 DEF ExposureInv

\* The exposure invariant holds in every reachable state.
THEOREM ExposureInductive == Spec => [](TypeOK /\ IndexInv /\ OriginInv /\ ExposureInv)
<1>1. ExposureInv /\ UNCHANGED vars => ExposureInv'
  BY DEF vars, ExposureInv, StageInv, Untouched, Kept, Keeps, Away, Indexed,
         Abandoned, Unsent, Tracked, Exposed, Reserved, Working, Up
<1>2. IndexInv => IndexAgrees
  BY DEF IndexInv
<1>3. /\ TypeOK /\ IndexInv /\ OriginInv
      /\ TypeOK'
      /\ ExposureInv /\ [Next]_vars
      => ExposureInv'
  BY <1>1, <1>2, ExposureEntry, ExposureOwned, ExposureEnvironment DEF Next
<1> QED
  BY <1>3, ExposureInit, OriginInductive, PTL DEF Spec

\* An entry that was sent is never forgotten, and never more are exposed than the capacity:
\* no interleaving of the two lanes, no STOP, refusal, expiry or crash releases the
\* reservation or the row of an order the broker may still act on.
THEOREM ExposureCorrect == Spec => []ExposureTracked
<1>1. ExposureInv => ExposureTracked
  <2> SUFFICES ASSUME ExposureInv PROVE ExposureTracked
    OBVIOUS
  <2> DEFINE E == {id \in Ids : Exposed(id)}
             S == {id \in Ids : Reserved(id)}
  <2>1. E \subseteq S /\ IsFiniteSet(S)
    BY LedgerConstants, FS_Subset DEF Reserved
  <2>2. Cardinality(E) <= Cardinality(S) /\ IsFiniteSet(E)
    BY <2>1, FS_Subset
  <2>3. Cardinality(S) <= Capacity
    BY DEF ExposureInv
  <2>4. Cardinality(E) \in Nat /\ Cardinality(S) \in Nat /\ Capacity \in Nat
    BY <2>1, <2>2, FS_CardinalityType, LedgerConstants
  <2>5. Cardinality(E) <= Capacity
    BY <2>2, <2>3, <2>4
  <2>6. \A id \in Ids : Exposed(id) => /\ rows[id].state \in ActiveStates
                                       /\ Up => id \in book.active[SymbolOf(id)]
    BY DEF ExposureInv, Tracked, Kept, ActiveSent, Indexed
  <2> QED
    BY <2>5, <2>6 DEF ExposureTracked
<1> QED
  BY <1>1, ExposureInductive, PTL

\* At most one episode of a symbol is exposed at the broker, across lanes and restarts.
THEOREM OneExposedCorrect == Spec => []OneExposedPerSymbol
<1>1. ExposureInv => OneExposedPerSymbol
  BY DEF ExposureInv, Reserved, OneExposedPerSymbol
<1> QED
  BY <1>1, ExposureInductive, PTL

\* An order reaches the transport only out of its own committed submission, while its row
\* is active and its reservation is in the index; what was settled as unsent is never sent.
THEOREM SentOnceCorrect == Spec => SentOnce
<1>1. TypeOK /\ ExposureInv /\ [Next]_vars =>
        [\A id \in Ids : order'[id] = "posted" /\ order[id] # "posted" =>
           /\ rows[id].submitted # NoTime
           /\ rows[id].state \in ActiveStates
           /\ id \in book.active[SymbolOf(id)]]_vars
  <2> SUFFICES ASSUME TypeOK, ExposureInv, Next, NEW id \in Ids,
                      order'[id] = "posted", order[id] # "posted"
               PROVE  /\ rows[id].submitted # NoTime
                      /\ rows[id].state \in ActiveStates
                      /\ id \in book.active[SymbolOf(id)]
    OBVIOUS
  <2>1. order \in [Ids -> OrderStates]
    BY DEF TypeOK
  <2>2. ~OwnedLane
    BY <2>1 DEF OwnedLane, Observe, RetireCommit, AbandonCommit, RetireSettle, Reconcile, OwnedSave,
                CancelEntry, AbandonSettle
  <2>3. ~Environment
    BY DEF Environment, BrokerReport, Operator, Tick, Restart
  <2>4. Dispatch
    BY <2>1, <2>2, <2>3 DEF Next, EntryLane, ClaimKnown, ClaimMerged, ClaimOpened, DurableClaim,
         QuoteExpired, PrepareOrder, BeginSubmit, CommitSubmitting, RepriceConflict,
         RefuseBeforeWire, SettleRefusal, RecordRoute, SubmitFailed, EntrySave
  <2>5. id = entry.id /\ entry.stage = "sent" /\ order[entry.id] = "prepared"
    BY <2>1, <2>4 DEF Dispatch
  <2> QED
    BY <2>5 DEF ExposureInv, StageInv, Kept, ActiveSent, Indexed
<1> QED
  BY <1>1, ExposureInductive, PTL DEF Spec, SentOnce

------------------------------------------------------------------------------
(* Moves: the intervals of the episodes of a key.                           *)

\* The interval of an episode runs from the start of one detection of its move to the
\* end of another.
Spanned(id, e) ==
  e.state # "absent" =>
    \E a, b \in Signals : /\ KeyOfSignal(a) = KeyOf(id) /\ KeyOfSignal(b) = KeyOf(id)
                          /\ Overlaps(a, b) /\ e.lo = a.lo /\ e.hi = b.hi

\* Every other episode of the key ends before this one begins.
EndsLast(eps, id) ==
  /\ eps[id].state # "absent"
  /\ \A other \in Ids : other # id /\ KeyOf(other) = KeyOf(id) /\ eps[other].state # "absent"
                          => eps[other].hi < eps[id].lo

\* No two episodes of a key overlap.
SeparateIn(eps) ==
  \A a, b \in Ids : /\ a # b /\ KeyOf(a) = KeyOf(b)
                    /\ eps[a].state # "absent" /\ eps[b].state # "absent"
                    => ~Overlaps(eps[a], eps[b])

\* What a row or a snapshot says of an episode is an earlier interval of its move.
CopyIn(eps, id, e) == e.state # "absent" => eps[id].state # "absent" /\ Overlaps(e, eps[id])
Copy(id, e) == CopyIn(book.episodes, id, e)

\* The latest episode of a key, in memory and among the rows, is the one that ends last,
\* and rows and snapshots are of the same moves as the ledger's episodes.
MovesInv ==
  /\ \A id \in Ids : Spanned(id, book.episodes[id]) /\ Spanned(id, rows[id])
  /\ SeparateIn(book.episodes) /\ SeparateIn(rows)
  /\ \A key \in Keys : IF book.latest[key] = NoId
                       THEN \A id \in Ids : KeyOf(id) = key => book.episodes[id].state = "absent"
                       ELSE EndsLast(book.episodes, book.latest[key])
  /\ \A key \in Keys : \/ \A id \in Ids : KeyOf(id) = key => rows[id].state = "absent"
                       \/ \E id \in Ids : KeyOf(id) = key /\ EndsLast(rows, id)
  /\ Up => \A id \in Ids : Copy(id, rows[id])
  /\ entry.stage # "idle" => Spanned(entry.id, entry.snap) /\ Copy(entry.id, entry.snap)
  /\ owned.stage \in {"saving", "closing"} =>
       Spanned(owned.id, owned.snap) /\ Copy(owned.id, owned.snap)
  /\ entry.stage = "claiming" => book.latest[KeyOf(entry.id)] = entry.id

\* The bounds of a signal are natural numbers in order.
LEMMA SignalSpan ==
  ASSUME NEW s \in Signals
  PROVE  s \in Signal /\ s.lo \in Nat /\ s.hi \in Nat /\ s.lo <= s.hi
  BY AdmissionConstants DEF Signal

\* Of separate moves, a detection that overlaps one of two overlapping detections
\* overlaps the other.
LEMMA ApartStep ==
  ASSUME Apart, NEW a \in Signals, NEW b \in Signals, NEW c \in Signals,
         KeyOfSignal(a) = KeyOfSignal(b), KeyOfSignal(b) = KeyOfSignal(c),
         Overlaps(a, b), Overlaps(b, c)
  PROVE  Overlaps(a, c)
  BY DEF Apart

\* Overlapping is symmetric.
LEMMA OverlapsBack ==
  ASSUME NEW x, NEW y, x.lo \in Nat, x.hi \in Nat, y.lo \in Nat, y.hi \in Nat, Overlaps(x, y)
  PROVE  Overlaps(y, x)
  BY DEF Overlaps

\* Two hulls of overlapping pairs meet only within one move.
LEMMA HullsMeet ==
  ASSUME Apart, NEW a \in Signals, NEW b \in Signals, NEW c \in Signals, NEW d \in Signals,
         KeyOfSignal(a) = KeyOfSignal(b), KeyOfSignal(b) = KeyOfSignal(c),
         KeyOfSignal(c) = KeyOfSignal(d),
         Overlaps(a, b), Overlaps(c, d), a.lo <= d.hi, b.hi >= c.lo
  PROVE  Overlaps(a, c)
<1>1. /\ a.lo \in Nat /\ a.hi \in Nat /\ b.lo \in Nat /\ b.hi \in Nat
      /\ c.lo \in Nat /\ c.hi \in Nat /\ d.lo \in Nat /\ d.hi \in Nat
  BY SignalSpan
<1>2. CASE Overlaps(a, d)
  <2>1. Overlaps(d, c)
    BY <1>1, OverlapsBack
  <2> QED
    BY <1>2, <2>1, ApartStep
<1>3. CASE Overlaps(b, c)
  BY <1>3, ApartStep
<1>4. CASE ~Overlaps(a, d) /\ ~Overlaps(b, c)
  <2>1. a.hi < d.lo /\ b.lo > c.hi
    BY <1>1, <1>4 DEF Overlaps
  <2>2. b.lo <= a.hi /\ d.lo <= c.hi
    BY <1>1 DEF Overlaps
  <2> QED
    BY <1>1, <2>1, <2>2
<1> QED
  BY <1>2, <1>3, <1>4

\* Hulls within one move meet.
LEMMA HullsJoin ==
  ASSUME Apart, NEW a \in Signals, NEW b \in Signals, NEW c \in Signals, NEW d \in Signals,
         KeyOfSignal(a) = KeyOfSignal(b), KeyOfSignal(b) = KeyOfSignal(c),
         KeyOfSignal(c) = KeyOfSignal(d),
         Overlaps(a, b), Overlaps(c, d), Overlaps(a, c)
  PROVE  a.lo <= d.hi /\ b.hi >= c.lo
<1>1. /\ a.lo \in Nat /\ a.hi \in Nat /\ b.lo \in Nat /\ b.hi \in Nat
      /\ c.lo \in Nat /\ c.hi \in Nat /\ d.lo \in Nat /\ d.hi \in Nat
  BY SignalSpan
<1>2. Overlaps(a, d)
  BY ApartStep
<1>3. Overlaps(b, a)
  BY <1>1, OverlapsBack
<1>4. Overlaps(b, c)
  BY <1>3, ApartStep
<1> QED
  BY <1>1, <1>2, <1>4 DEF Overlaps

\* Episodes of a key that overlap a common one overlap each other.
LEMMA SpansJoin ==
  ASSUME Apart, NEW i \in Ids, NEW j \in Ids, NEW k \in Ids, KeyOf(i) = KeyOf(j), KeyOf(j) = KeyOf(k),
         NEW e, NEW f, NEW g, Spanned(i, e), Spanned(j, f), Spanned(k, g),
         e.state # "absent", f.state # "absent", g.state # "absent",
         Overlaps(e, f), Overlaps(f, g)
  PROVE  Overlaps(e, g)
<1>1. PICK a, b \in Signals : /\ KeyOfSignal(a) = KeyOf(i) /\ KeyOfSignal(b) = KeyOf(i)
                              /\ Overlaps(a, b) /\ e.lo = a.lo /\ e.hi = b.hi
  BY DEF Spanned
<1>2. PICK c, d \in Signals : /\ KeyOfSignal(c) = KeyOf(j) /\ KeyOfSignal(d) = KeyOf(j)
                              /\ Overlaps(c, d) /\ f.lo = c.lo /\ f.hi = d.hi
  BY DEF Spanned
<1>3. PICK p, q \in Signals : /\ KeyOfSignal(p) = KeyOf(k) /\ KeyOfSignal(q) = KeyOf(k)
                              /\ Overlaps(p, q) /\ g.lo = p.lo /\ g.hi = q.hi
  BY DEF Spanned
<1>4. a.lo <= d.hi /\ b.hi >= c.lo /\ c.lo <= q.hi /\ d.hi >= p.lo
  BY <1>1, <1>2, <1>3 DEF Overlaps
<1>5. Overlaps(a, c) /\ Overlaps(c, p)
  BY <1>1, <1>2, <1>3, <1>4, HullsMeet
<1>6. Overlaps(a, p)
  BY <1>1, <1>2, <1>3, <1>5, ApartStep
<1>7. a.lo <= q.hi /\ b.hi >= p.lo
  BY <1>1, <1>3, <1>6, HullsJoin
<1> QED
  BY <1>1, <1>3, <1>7 DEF Overlaps

\* What comes first of two moves comes first in every interval of them.
LEMMA SpansOrder ==
  ASSUME Apart, NEW i \in Ids, NEW j \in Ids, KeyOf(i) = KeyOf(j),
         NEW e, NEW f, NEW e2, NEW f2,
         Spanned(i, e), Spanned(i, e2), Spanned(j, f), Spanned(j, f2),
         e.state # "absent", f.state # "absent", e2.state # "absent", f2.state # "absent",
         Overlaps(e2, e), Overlaps(f2, f), e.hi < f.lo
  PROVE  e2.hi < f2.lo
<1>1. PICK a, b \in Signals : /\ KeyOfSignal(a) = KeyOf(i) /\ KeyOfSignal(b) = KeyOf(i)
                              /\ Overlaps(a, b) /\ e.lo = a.lo /\ e.hi = b.hi
  BY DEF Spanned
<1>2. PICK c, d \in Signals : /\ KeyOfSignal(c) = KeyOf(j) /\ KeyOfSignal(d) = KeyOf(j)
                              /\ Overlaps(c, d) /\ f.lo = c.lo /\ f.hi = d.hi
  BY DEF Spanned
<1>3. PICK a2, b2 \in Signals : /\ KeyOfSignal(a2) = KeyOf(i) /\ KeyOfSignal(b2) = KeyOf(i)
                                /\ Overlaps(a2, b2) /\ e2.lo = a2.lo /\ e2.hi = b2.hi
  BY DEF Spanned
<1>4. PICK c2, d2 \in Signals : /\ KeyOfSignal(c2) = KeyOf(j) /\ KeyOfSignal(d2) = KeyOf(j)
                                /\ Overlaps(c2, d2) /\ f2.lo = c2.lo /\ f2.hi = d2.hi
  BY DEF Spanned
<1>5. /\ a.lo \in Nat /\ a.hi \in Nat /\ b.lo \in Nat /\ b.hi \in Nat
      /\ c.lo \in Nat /\ c.hi \in Nat /\ d.lo \in Nat /\ d.hi \in Nat
      /\ a2.lo \in Nat /\ a2.hi \in Nat /\ b2.lo \in Nat /\ b2.hi \in Nat
      /\ c2.lo \in Nat /\ c2.hi \in Nat /\ d2.lo \in Nat /\ d2.hi \in Nat
  BY SignalSpan
<1>6. /\ a2.lo <= b.hi /\ b2.hi >= a.lo /\ c2.lo <= d.hi /\ d2.hi >= c.lo
  BY <1>1, <1>2, <1>3, <1>4 DEF Overlaps
<1>7. Overlaps(e, e2)
  BY <1>1, <1>3, <1>5, <1>6 DEF Overlaps
<1>8. SUFFICES ASSUME e2.hi >= f2.lo PROVE FALSE
  BY <1>3, <1>4, <1>5
<1>9. CASE e2.lo <= f2.hi
  <2>1. Overlaps(e2, f2)
    BY <1>8, <1>9 DEF Overlaps
  <2>2. Overlaps(e, f2)
    BY <1>7, <2>1, SpansJoin
  <2>3. Overlaps(e, f)
    BY <2>2, SpansJoin
  <2> QED
    BY <1>1, <1>2, <1>5, <2>3 DEF Overlaps
<1>10. CASE e2.lo > f2.hi
  <2>1. a2.lo > d2.hi /\ b.hi < c.lo /\ c.lo <= d2.hi /\ a2.lo <= b.hi
    BY <1>1, <1>2, <1>3, <1>4, <1>6, <1>10
  <2> QED
    BY <1>5, <2>1
<1> QED
  BY <1>3, <1>4, <1>5, <1>9, <1>10

\* The interval of a present episode has natural bounds in order.
LEMMA SpannedBounds ==
  ASSUME NEW id \in Ids, NEW e, Spanned(id, e), e.state # "absent"
  PROVE  e.lo \in Nat /\ e.hi \in Nat /\ e.lo <= e.hi
<1>1. PICK a, b \in Signals : Overlaps(a, b) /\ e.lo = a.lo /\ e.hi = b.hi
  BY DEF Spanned
<1> QED
  BY <1>1, SignalSpan DEF Overlaps

\* An interval of a move overlaps what overlaps it, and itself.
LEMMA SpannedBack ==
  ASSUME NEW id \in Ids, NEW e, NEW f, Spanned(id, e), Spanned(id, f),
         e.state # "absent", f.state # "absent", Overlaps(e, f)
  PROVE  Overlaps(f, e) /\ Overlaps(e, e)
<1>1. /\ e.lo \in Nat /\ e.hi \in Nat /\ f.lo \in Nat /\ f.hi \in Nat /\ e.lo <= e.hi
  BY SpannedBounds
<1> QED
  BY <1>1 DEF Overlaps

\* A set of rows that are intervals of the same moves is as separate, and its episodes
\* follow each other in the same order.
LEMMA SpansCarry ==
  ASSUME Apart, NEW eps, NEW new,
         \A id \in Ids : Spanned(id, eps[id]) /\ Spanned(id, new[id]),
         \A id \in Ids : new[id].state # "absent" =>
           eps[id].state # "absent" /\ Overlaps(new[id], eps[id]),
         SeparateIn(eps)
  PROVE  /\ SeparateIn(new)
         /\ \A id \in Ids : EndsLast(eps, id) /\ new[id].state # "absent" => EndsLast(new, id)
<1>1. ASSUME NEW a \in Ids, NEW b \in Ids, a # b, KeyOf(a) = KeyOf(b),
             new[a].state # "absent", new[b].state # "absent", Overlaps(new[a], new[b])
      PROVE  FALSE
  <2>1. /\ eps[a].state # "absent" /\ Overlaps(new[a], eps[a])
        /\ eps[b].state # "absent" /\ Overlaps(new[b], eps[b])
    BY <1>1
  <2>2. Overlaps(eps[a], new[a])
    BY <2>1, <1>1, SpannedBack
  <2>3. Overlaps(eps[a], new[b])
    BY <1>1, <2>1, <2>2, SpansJoin
  <2>4. Overlaps(eps[a], eps[b])
    BY <1>1, <2>1, <2>3, SpansJoin
  <2> QED
    BY <1>1, <2>1, <2>4 DEF SeparateIn
<1>2. ASSUME NEW id \in Ids, EndsLast(eps, id), new[id].state # "absent"
      PROVE  EndsLast(new, id)
  <2>1. ASSUME NEW other \in Ids, other # id, KeyOf(other) = KeyOf(id), new[other].state # "absent"
        PROVE  new[other].hi < new[id].lo
    <3>1. /\ eps[other].state # "absent" /\ Overlaps(new[other], eps[other])
          /\ eps[id].state # "absent" /\ Overlaps(new[id], eps[id])
      BY <1>2, <2>1
    <3>2. eps[other].hi < eps[id].lo
      BY <1>2, <2>1, <3>1 DEF EndsLast
    <3> QED
      BY <1>2, <2>1, <3>1, <3>2, SpansOrder
  <2> QED
    BY <1>2, <2>1 DEF EndsLast
<1> QED
  BY <1>1, <1>2 DEF SeparateIn

\* A signal in order meets no episode of its key but the one that ends last.
LEMMA MeetsLast ==
  ASSUME Apart, NEW eps \in [Ids -> Episode], NEW sig \in Signals, NEW last \in Ids, NEW id \in Ids,
         \A k \in Ids : Spanned(k, eps[k]),
         KeyOf(last) = KeyOfSignal(sig), KeyOf(id) = KeyOfSignal(sig),
         EndsLast(eps, last), eps[id].state # "absent",
         sig.hi >= eps[last].lo, Overlaps(sig, eps[id])
  PROVE  id = last
<1> SUFFICES ASSUME id # last PROVE FALSE
  OBVIOUS
<1>1. PICK a, b \in Signals : /\ KeyOfSignal(a) = KeyOf(id) /\ KeyOfSignal(b) = KeyOf(id)
                              /\ Overlaps(a, b) /\ eps[id].lo = a.lo /\ eps[id].hi = b.hi
  BY DEF Spanned
<1>2. PICK c, d \in Signals : /\ KeyOfSignal(c) = KeyOf(last) /\ KeyOfSignal(d) = KeyOf(last)
                              /\ Overlaps(c, d) /\ eps[last].lo = c.lo /\ eps[last].hi = d.hi
  BY DEF Spanned, EndsLast
<1>3. /\ a.lo \in Nat /\ a.hi \in Nat /\ b.lo \in Nat /\ b.hi \in Nat
      /\ c.lo \in Nat /\ c.hi \in Nat /\ d.lo \in Nat /\ d.hi \in Nat
      /\ sig.lo \in Nat /\ sig.hi \in Nat /\ sig.lo <= sig.hi /\ d.lo <= d.hi /\ c.lo <= c.hi
  BY SignalSpan
<1>4. eps[id].hi < eps[last].lo
  BY DEF EndsLast
<1>5. c.lo <= d.hi
  BY <1>2, <1>3 DEF Overlaps
<1>6. /\ sig.lo <= b.hi /\ sig.hi >= a.lo /\ sig.lo <= d.hi /\ sig.hi >= c.lo
  BY <1>1, <1>2, <1>3, <1>4, <1>5 DEF Overlaps
<1>7. Overlaps(sig, sig)
  BY <1>3 DEF Overlaps
<1>8. Overlaps(sig, a) /\ Overlaps(sig, c)
  BY <1>1, <1>2, <1>6, <1>7, HullsMeet
<1>9. Overlaps(a, sig)
  BY <1>3, <1>8, OverlapsBack
<1>10. Overlaps(a, c)
  BY <1>1, <1>2, <1>8, <1>9, ApartStep
<1>11. b.hi >= c.lo
  BY <1>1, <1>2, <1>10, HullsJoin
<1> QED
  BY <1>1, <1>2, <1>3, <1>4, <1>11

\* restore() finds the episode that ends last.
LEMMA LatestEndsLast ==
  ASSUME NEW eps \in [Ids -> Episode], NEW key \in Keys, NEW last \in Ids, KeyOf(last) = key,
         EndsLast(eps, last), eps[last].lo <= eps[last].hi
  PROVE  LatestRow(eps, key) = last
<1> DEFINE own == {id \in Present(eps) : KeyOf(id) = key}
           top == {id \in own : \A other \in own : Later(eps[id], eps[other])}
<1>1. \A id \in Ids : eps[id].lo \in Nat /\ eps[id].hi \in Nat
  BY DEF Episode
<1>2. last \in own
  BY DEF Present, EndsLast
<1>3. \A other \in own : other # last => eps[other].hi < eps[last].lo
  BY DEF Present, EndsLast
<1>4. \A other \in own : other \in Ids
  BY DEF Present
<1>5. last \in top
  <2>1. ASSUME NEW other \in own PROVE Later(eps[last], eps[other])
    <3>1. CASE other = last
      BY <1>1, <3>1 DEF Later
    <3>2. CASE other # last
      BY <1>1, <1>3, <1>4, <3>2 DEF Later
    <3> QED
      BY <3>1, <3>2
  <2> QED
    BY <1>2, <2>1
<1>6. ASSUME NEW id \in top, id # last PROVE FALSE
  <2>1. Later(eps[id], eps[last]) /\ id \in own
    BY <1>2
  <2>2. eps[id].hi < eps[last].lo /\ id \in Ids
    BY <1>3, <1>4, <1>6, <2>1
  <2> QED
    BY <1>1, <2>1, <2>2 DEF Later
<1>7. top = {last}
  BY <1>5, <1>6
<1>8. LatestRow(eps, key) = IF top = {} THEN NoId ELSE CHOOSE id \in top : TRUE
  BY DEF LatestRow
<1> HIDE DEF top
<1> QED
  BY <1>7, <1>8

\* A ledger of the running one's episodes decides a signal in order by the latest episode
\* of its key alone.
LEMMA PriorIsLatest ==
  ASSUME TypeOK, OriginInv, MovesInv, Apart, NEW sig \in Signals, InOrder(sig),
         NEW L, L.episodes = book.episodes,
         L.active[sig.symbol] \subseteq ActiveOn(book.episodes, sig.symbol),
         L.latest[KeyOfSignal(sig)] = book.latest[KeyOfSignal(sig)]
  PROVE  Prior(L, sig) = book.latest[KeyOfSignal(sig)]
<1> DEFINE key == KeyOfSignal(sig)
           last == book.latest[key]
           met == Overlapping(L, sig)
<1>1. sig \in Signal /\ key \in Keys /\ sig.symbol \in Symbols
  BY SignalSpan, SignalFacts
<1>2. book.episodes \in [Ids -> Episode] /\ last \in Ids \cup {NoId}
  BY <1>1, LaneIds, LedgerFields
<1>3. ASSUME NEW id \in met
      PROVE  /\ id \in Ids /\ KeyOf(id) = key /\ book.episodes[id].state # "absent"
             /\ Overlaps(sig, book.episodes[id])
  <2>1. id \in L.active[sig.symbol] /\ id[1] = sig.day /\ Overlaps(sig, book.episodes[id])
    BY DEF Overlapping
  <2>2. id \in ActiveOn(book.episodes, sig.symbol)
    BY <2>1
  <2> QED
    BY <2>1, <2>2 DEF ActiveOn, ActiveIds, ActiveStates, SymbolOf, KeyOf, KeyOfSignal
<1>4. Prior(L, sig) = IF met # {} THEN CHOOSE id \in met : TRUE ELSE last
  BY DEF Prior
<1> HIDE DEF met
<1>5. CASE last = NoId
  <2>1. \A id \in Ids : KeyOf(id) = key => book.episodes[id].state = "absent"
    BY <1>1, <1>5 DEF MovesInv
  <2>2. met = {}
    BY <1>3, <2>1
  <2> QED
    BY <1>4, <2>2
<1>6. CASE last # NoId
  <2>1. last \in Ids /\ KeyOf(last) = key /\ EndsLast(book.episodes, last)
    BY <1>1, <1>2, <1>6 DEF MovesInv, OriginInv
  <2>2. sig.hi >= book.episodes[last].lo
    BY <2>1 DEF InOrder, EndsLast
  <2>3. \A k \in Ids : Spanned(k, book.episodes[k])
    BY DEF MovesInv
  <2>4. ASSUME NEW id \in met PROVE id = last
    BY <1>2, <1>3, <2>1, <2>2, <2>3, MeetsLast
  <2>5. CASE met = {}
    BY <1>4, <2>5
  <2>6. CASE met # {}
    <3>1. (CHOOSE id \in met : TRUE) \in met
      BY <2>6
    <3> QED
      BY <1>4, <2>4, <2>6, <3>1
  <2> QED
    BY <2>5, <2>6
<1> QED
  BY <1>5, <1>6

\* The running ledger and one rebuilt from it have the same latest episodes.
LEMMA SameLatest ==
  ASSUME TypeOK, OriginInv, MovesInv, NEW key \in Keys
  PROVE  LatestRow(book.episodes, key) = book.latest[key]
<1>1. book.episodes \in [Ids -> Episode] /\ book.latest[key] \in Ids \cup {NoId}
  BY LaneIds, LedgerFields
<1>2. CASE book.latest[key] = NoId
  <2>1. \A id \in Ids : KeyOf(id) = key => book.episodes[id].state = "absent"
    BY <1>2 DEF MovesInv
  <2>2. {id \in Present(book.episodes) : KeyOf(id) = key} = {}
    BY <2>1 DEF Present
  <2> QED
    BY <1>2, <2>2 DEF LatestRow
<1>3. CASE book.latest[key] # NoId
  <2> DEFINE last == book.latest[key]
  <2>1. last \in Ids /\ KeyOf(last) = key /\ EndsLast(book.episodes, last)
    BY <1>1, <1>3 DEF MovesInv, OriginInv
  <2>2. Spanned(last, book.episodes[last]) /\ book.episodes[last].state # "absent"
    BY <2>1 DEF MovesInv, EndsLast
  <2>3. book.episodes[last].lo <= book.episodes[last].hi
    BY <2>1, <2>2, SpannedBounds
  <2> QED
    BY <1>1, <2>1, <2>3, LatestEndsLast
<1> QED
  BY <1>2, <1>3

\* While moves are separate, a restart changes no decision about a signal.
LEMMA NeutralFromMoves ==
  ASSUME TypeOK, IndexAgrees, OriginInv, MovesInv, Apart
  PROVE  RestartNeutral
<1> DEFINE again == Restored(book.episodes)
<1> SUFFICES ASSUME NEW sig \in Signals, InOrder(sig)
             PROVE  Prior(again, sig) = Prior(book, sig) /\ Known(again, sig) = Known(book, sig)
  BY DEF RestartNeutral
<1>1. sig \in Signal /\ KeyOfSignal(sig) \in Keys /\ sig.symbol \in Symbols /\ IdOfSignal(sig) \in Ids
  BY SignalSpan, SignalFacts
<1>2. /\ again.episodes = book.episodes
      /\ again.active[sig.symbol] = ActiveOn(book.episodes, sig.symbol)
      /\ again.latest[KeyOfSignal(sig)] = LatestRow(book.episodes, KeyOfSignal(sig))
      /\ again.sources[IdOfSignal(sig)]
           = IF Holders(book.episodes, IdOfSignal(sig)) = {} THEN NoId
             ELSE CHOOSE id \in Holders(book.episodes, IdOfSignal(sig)) : TRUE
  BY <1>1 DEF Restored
<1> HIDE DEF again
<1>3. again.latest[KeyOfSignal(sig)] = book.latest[KeyOfSignal(sig)]
  BY <1>1, <1>2, SameLatest
<1>4. Prior(again, sig) = book.latest[KeyOfSignal(sig)]
  BY <1>2, <1>3, PriorIsLatest
<1>5. book.active[sig.symbol] \subseteq ActiveOn(book.episodes, sig.symbol)
  BY <1>1 DEF IndexAgrees, LedgerAgrees
<1>6. Prior(book, sig) = book.latest[KeyOfSignal(sig)]
  BY <1>5, PriorIsLatest
<1>7. again.sources[IdOfSignal(sig)] = NoId <=> book.sources[IdOfSignal(sig)] = NoId
  <2> DEFINE H == Holders(book.episodes, IdOfSignal(sig))
  <2>1. H = IF book.sources[IdOfSignal(sig)] = NoId THEN {} ELSE {book.sources[IdOfSignal(sig)]}
    BY <1>1 DEF OriginInv, SourcesAgree
  <2>2. H \subseteq Ids
    BY DEF Holders
  <2>3. CASE H = {}
    BY <1>2, <2>1, <2>3
  <2>4. CASE H # {}
    <3>1. (CHOOSE id \in H : TRUE) \in H
      BY <2>4
    <3>2. again.sources[IdOfSignal(sig)] \in Ids
      BY <1>2, <2>2, <2>4, <3>1
    <3> QED
      BY <2>1, <2>4, <3>2, LedgerConstants
  <2> QED
    BY <2>3, <2>4
<1> QED
  BY <1>4, <1>6, <1>7 DEF Known

\* The same interval, of an episode present in both or in neither.
SameSpan(e, f) == /\ e.lo = f.lo /\ e.hi = f.hi
                  /\ e.state = "absent" <=> f.state = "absent"

\* The interval is all that counts.
LEMMA SameSpanFacts ==
  ASSUME NEW id, NEW e, NEW f, SameSpan(e, f)
  PROVE  /\ Spanned(id, f) => Spanned(id, e)
         /\ Copy(id, f) => Copy(id, e)
  BY DEF SameSpan, Spanned, Copy, CopyIn, Overlaps

\* An episode of the ledger is its own copy.
LEMMA OwnCopy ==
  ASSUME MovesInv, NEW id \in Ids
  PROVE  Spanned(id, book.episodes[id]) /\ Copy(id, book.episodes[id])
<1>1. Spanned(id, book.episodes[id])
  BY DEF MovesInv
<1>2. book.episodes[id].state # "absent" => Overlaps(book.episodes[id], book.episodes[id])
  BY <1>1, SpannedBounds DEF Overlaps
<1> QED
  BY <1>1, <1>2 DEF Copy, CopyIn

\* Steps that open nothing: the intervals of the ledger stay in their moves, and what is
\* saved or snapshot is an interval of the episode's own move.
LEMMA MovesFrame ==
  ASSUME Apart, TypeOK, MovesInv, Up, boot' = boot, book'.latest = book.latest,
         \A id \in Ids : /\ Spanned(id, book'.episodes[id]) /\ Copy(id, book'.episodes[id])
                         /\ book.episodes[id].state # "absent" => book'.episodes[id].state # "absent",
         \A id \in Ids : /\ Spanned(id, rows'[id]) /\ Copy(id, rows'[id])
                         /\ rows'[id].state = "absent" <=> rows[id].state = "absent",
         entry'.stage # "idle" => /\ entry'.id \in Ids
                                  /\ Spanned(entry'.id, entry'.snap) /\ Copy(entry'.id, entry'.snap),
         owned'.stage \in {"saving", "closing"} =>
           /\ owned'.id \in Ids
           /\ Spanned(owned'.id, owned'.snap) /\ Copy(owned'.id, owned'.snap),
         entry'.stage = "claiming" => entry' = entry
  PROVE  MovesInv'
<1>1. \A id \in Ids : Spanned(id, book.episodes[id]) /\ Spanned(id, rows[id]) /\ Copy(id, rows[id])
  BY DEF MovesInv
<1>2. ASSUME NEW id \in Ids, NEW e, Spanned(id, e), Copy(id, e)
      PROVE  CopyIn(book'.episodes, id, e)
  <2>1. ASSUME e.state # "absent"
        PROVE  book'.episodes[id].state # "absent" /\ Overlaps(e, book'.episodes[id])
    <3>1. book.episodes[id].state # "absent" /\ Overlaps(e, book.episodes[id])
      BY <1>2, <2>1 DEF Copy, CopyIn
    <3>2. book'.episodes[id].state # "absent" /\ Overlaps(book'.episodes[id], book.episodes[id])
      BY <3>1 DEF Copy, CopyIn
    <3>3. Overlaps(book.episodes[id], book'.episodes[id])
      BY <1>1, <3>1, <3>2, SpannedBack
    <3>4. Overlaps(e, book'.episodes[id])
      BY <1>1, <1>2, <2>1, <3>1, <3>2, <3>3, SpansJoin
    <3> QED
      BY <3>2, <3>4
  <2> QED
    BY <2>1 DEF Copy, CopyIn
<1>3. /\ SeparateIn(book'.episodes)
      /\ \A id \in Ids : EndsLast(book.episodes, id) => EndsLast(book'.episodes, id)
  <2>1. \A id \in Ids : book'.episodes[id].state # "absent" =>
          book.episodes[id].state # "absent" /\ Overlaps(book'.episodes[id], book.episodes[id])
    BY DEF Copy, CopyIn
  <2>2. SeparateIn(book.episodes)
    BY DEF MovesInv
  <2>3. /\ SeparateIn(book'.episodes)
        /\ \A id \in Ids : EndsLast(book.episodes, id) /\ book'.episodes[id].state # "absent"
                             => EndsLast(book'.episodes, id)
    BY <1>1, <2>1, <2>2, SpansCarry
  <2> QED
    BY <2>3 DEF EndsLast
<1>4. /\ SeparateIn(rows')
      /\ \A id \in Ids : EndsLast(rows, id) => EndsLast(rows', id)
  <2>1. ASSUME NEW id \in Ids, rows'[id].state # "absent"
        PROVE  rows[id].state # "absent" /\ Overlaps(rows'[id], rows[id])
    <3>1. /\ rows[id].state # "absent" /\ book.episodes[id].state # "absent"
          /\ Overlaps(rows[id], book.episodes[id]) /\ Overlaps(rows'[id], book.episodes[id])
      BY <1>1, <2>1 DEF Copy, CopyIn
    <3>2. Overlaps(book.episodes[id], rows[id])
      BY <1>1, <3>1, SpannedBack
    <3>3. Overlaps(rows'[id], rows[id])
      BY <1>1, <2>1, <3>1, <3>2, SpansJoin
    <3> QED
      BY <3>1, <3>3
  <2>2. SeparateIn(rows)
    BY DEF MovesInv
  <2>3. /\ SeparateIn(rows')
        /\ \A id \in Ids : EndsLast(rows, id) /\ rows'[id].state # "absent" => EndsLast(rows', id)
    BY <1>1, <2>1, <2>2, SpansCarry
  <2> QED
    BY <2>3 DEF EndsLast
<1>5. book.latest \in [Keys -> Ids \cup {NoId}]
  BY LaneIds, LedgerFields
<1>6. ASSUME NEW key \in Keys
      PROVE  IF book'.latest[key] = NoId
             THEN \A id \in Ids : KeyOf(id) = key => book'.episodes[id].state = "absent"
             ELSE EndsLast(book'.episodes, book'.latest[key])
  <2>1. CASE book.latest[key] = NoId
    <3>1. \A id \in Ids : KeyOf(id) = key => book.episodes[id].state = "absent"
      BY <2>1 DEF MovesInv
    <3> QED
      BY <2>1, <3>1 DEF Copy, CopyIn
  <2>2. CASE book.latest[key] # NoId
    <3>1. EndsLast(book.episodes, book.latest[key]) /\ book.latest[key] \in Ids
      BY <1>5, <2>2 DEF MovesInv
    <3> QED
      BY <1>3, <2>2, <3>1
  <2> QED
    BY <2>1, <2>2
<1>7. ASSUME NEW key \in Keys
      PROVE  \/ \A id \in Ids : KeyOf(id) = key => rows'[id].state = "absent"
             \/ \E id \in Ids : KeyOf(id) = key /\ EndsLast(rows', id)
  <2>1. CASE \A id \in Ids : KeyOf(id) = key => rows[id].state = "absent"
    BY <2>1
  <2>2. CASE \E id \in Ids : KeyOf(id) = key /\ EndsLast(rows, id)
    BY <1>4, <2>2
  <2> QED
    BY <2>1, <2>2 DEF MovesInv
<1>8. \A id \in Ids : CopyIn(book'.episodes, id, rows'[id])
  BY <1>2
<1>9. entry'.stage # "idle" => CopyIn(book'.episodes, entry'.id, entry'.snap)
  BY <1>2
<1>10. owned'.stage \in {"saving", "closing"} => CopyIn(book'.episodes, owned'.id, owned'.snap)
  BY <1>2
<1>11. entry'.stage = "claiming" => book'.latest[KeyOf(entry'.id)] = entry'.id
  BY DEF MovesInv
<1> QED
  BY <1>3, <1>4, <1>6, <1>7, <1>8, <1>9, <1>10, <1>11 DEF MovesInv, Copy

\* A snapshot of an episode of the ledger.
LEMMA TakenSnap ==
  ASSUME MovesInv, NEW id \in Ids, NEW e, SameSpan(e, book.episodes[id])
  PROVE  Spanned(id, e) /\ Copy(id, e)
  BY OwnCopy, SameSpanFacts

\* Steps that move no interval of the ledger.
LEMMA MovesSame ==
  ASSUME Apart, TypeOK, MovesInv, Up, boot' = boot, book'.latest = book.latest,
         \A id \in Ids : SameSpan(book'.episodes[id], book.episodes[id]),
         \A id \in Ids : \/ SameSpan(rows'[id], rows[id])
                         \/ /\ rows[id].state # "absent" /\ rows'[id].state # "absent"
                            /\ Spanned(id, rows'[id]) /\ Copy(id, rows'[id]),
         entry'.stage # "idle" => /\ entry'.id \in Ids
                                  /\ Spanned(entry'.id, entry'.snap) /\ Copy(entry'.id, entry'.snap),
         owned'.stage \in {"saving", "closing"} =>
           /\ owned'.id \in Ids
           /\ Spanned(owned'.id, owned'.snap) /\ Copy(owned'.id, owned'.snap),
         entry'.stage = "claiming" => entry' = entry
  PROVE  MovesInv'
<1>1. ASSUME NEW id \in Ids
      PROVE  /\ Spanned(id, book'.episodes[id]) /\ Copy(id, book'.episodes[id])
             /\ book.episodes[id].state # "absent" => book'.episodes[id].state # "absent"
  BY TakenSnap DEF SameSpan
<1>2. ASSUME NEW id \in Ids
      PROVE  /\ Spanned(id, rows'[id]) /\ Copy(id, rows'[id])
             /\ rows'[id].state = "absent" <=> rows[id].state = "absent"
  <2>1. Spanned(id, rows[id]) /\ Copy(id, rows[id])
    BY DEF MovesInv
  <2> QED
    BY <2>1, SameSpanFacts DEF SameSpan
<1> QED
  BY <1>1, <1>2, MovesFrame

\* Nothing moves where nothing is written.
LEMMA SpanSelf == \A e : SameSpan(e, e)
  BY DEF SameSpan

\* reconcile() of a present episode, and a release, move no interval.
LEMMA ObservedSpan ==
  ASSUME TypeOK, NEW id \in Ids, NEW obs \in Observation, book.episodes[id].state # "absent",
         NEW R, R = Reconciled(book, id, obs.filled, obs.exited, obs.terminal, obs.outstanding, clock)
  PROVE  R.latest = book.latest /\ \A k \in Ids : SameSpan(R.episodes[k], book.episodes[k])
<1>1. /\ R.latest = book.latest
      /\ \A other \in Ids : other # id => R.episodes[other] = book.episodes[other]
      /\ R.episodes[id].state = ReconciledState(book.episodes[id], obs.filled, obs.exited,
                                                obs.terminal, obs.outstanding)
  BY ObservedFacts
<1>2. book.episodes[id] \in Episode /\ book \in Ledger
  BY LaneIds
<1>3. R.episodes[id].state # "absent"
  BY <1>1, <1>2, ReconciledStateFacts
<1>4. R.episodes[id] = ReconciledEpisode(book.episodes[id], obs.filled, obs.exited,
                                         obs.terminal, obs.outstanding, clock)
  BY <1>2 DEF Reconciled, Ledger
<1>5. R.episodes[id].lo = book.episodes[id].lo /\ R.episodes[id].hi = book.episodes[id].hi
  BY <1>2, <1>4 DEF ReconciledEpisode, Episode
<1> QED
  BY <1>1, <1>3, <1>5, SpanSelf DEF SameSpan

\* A release moves no interval.
LEMMA ReleaseSpan ==
  ASSUME TypeOK, NEW id \in Ids, book.episodes[id].state # "absent", NEW R, R = Release(book, id)
  PROVE  R.latest = book.latest /\ \A k \in Ids : SameSpan(R.episodes[k], book.episodes[k])
<1>1. Flat.filled = 0 /\ Flat.exited = 0 /\ Flat.terminal = TRUE /\ Flat.outstanding = FALSE
  BY DEF Flat, NothingSeen
<1>2. R = Reconciled(book, id, Flat.filled, Flat.exited, Flat.terminal, Flat.outstanding, clock)
  BY <1>1 DEF Release
<1> QED
  BY <1>2, IdleTypes, ObservedSpan

\* save() writes an interval of the episode's own move, or none.
LEMMA StoredSpan ==
  ASSUME TypeOK, NEW id \in Ids, NEW snap \in Episode, snap.state # "absent",
         Spanned(id, snap), Copy(id, snap), rows' = Stored(id, snap)
  PROVE  \A k \in Ids : \/ SameSpan(rows'[k], rows[k])
                        \/ /\ rows[k].state # "absent" /\ rows'[k].state # "absent"
                           /\ Spanned(k, rows'[k]) /\ Copy(k, rows'[k])
<1>1. rows \in [Ids -> Episode]
  BY LaneIds
<1> DEFINE late == [snap EXCEPT !.closed = rows[id].closed]
<1>2. SameSpan(late, snap) /\ late.state = snap.state
  BY DEF SameSpan, Episode
<1>3. Spanned(id, late) /\ Copy(id, late)
  BY <1>2, SameSpanFacts
<1> HIDE DEF late
<1>4. \/ rows' = rows
      \/ rows[id].state # "absent" /\ rows' = [rows EXCEPT ![id] = late]
      \/ rows[id].state # "absent" /\ rows' = [rows EXCEPT ![id] = snap]
  BY DEF Stored, late
<1>5. CASE rows' = rows
  BY <1>5, SpanSelf
<1>6. CASE rows[id].state # "absent" /\ rows' = [rows EXCEPT ![id] = late]
  BY <1>1, <1>2, <1>3, <1>6, SpanSelf
<1>7. CASE rows[id].state # "absent" /\ rows' = [rows EXCEPT ![id] = snap]
  BY <1>1, <1>7, SpanSelf
<1> QED
  BY <1>4, <1>5, <1>6, <1>7

\* A widened episode is still an interval of its move.
LEMMA MergedSpan ==
  ASSUME Apart, TypeOK, NEW sig \in Signals, NEW id \in Ids, KeyOf(id) = KeyOfSignal(sig),
         NEW e \in Episode, e.state # "absent", Spanned(id, e), Overlaps(sig, e),
         NEW f, f.state # "absent", f.lo = Smaller(e.lo, sig.lo), f.hi = Larger(e.hi, sig.hi)
  PROVE  Spanned(id, f) /\ Overlaps(f, e)
<1>1. PICK a, b \in Signals : /\ KeyOfSignal(a) = KeyOf(id) /\ KeyOfSignal(b) = KeyOf(id)
                              /\ Overlaps(a, b) /\ e.lo = a.lo /\ e.hi = b.hi
  BY DEF Spanned
<1>2. /\ a.lo \in Nat /\ a.hi \in Nat /\ b.lo \in Nat /\ b.hi \in Nat
      /\ sig.lo \in Nat /\ sig.hi \in Nat /\ sig.lo <= sig.hi
  BY SignalSpan
<1>3. a.lo <= b.hi
  BY <1>1, SpannedBounds
<1>4. Overlaps(sig, sig) /\ sig.lo <= b.hi /\ sig.hi >= a.lo
  BY <1>1, <1>2 DEF Overlaps
<1>5. Overlaps(sig, a)
  BY <1>1, <1>4, HullsMeet
<1>6. Overlaps(sig, b)
  BY <1>1, <1>5, ApartStep
<1>7. Overlaps(a, sig)
  BY <1>2, <1>5, OverlapsBack
<1>8. Spanned(id, f)
  <2>1. CASE e.lo <= sig.lo /\ e.hi >= sig.hi
    BY <1>1, <2>1 DEF Spanned, Smaller, Larger
  <2>2. CASE e.lo <= sig.lo /\ ~(e.hi >= sig.hi)
    BY <1>1, <1>7, <2>2 DEF Spanned, Smaller, Larger
  <2>3. CASE ~(e.lo <= sig.lo) /\ e.hi >= sig.hi
    BY <1>1, <1>6, <2>3 DEF Spanned, Smaller, Larger
  <2>4. CASE ~(e.lo <= sig.lo) /\ ~(e.hi >= sig.hi)
    BY <1>1, <1>4, <2>4 DEF Spanned, Smaller, Larger
  <2> QED
    BY <2>1, <2>2, <2>3, <2>4
<1>9. f.lo <= e.hi /\ f.hi >= e.lo
  BY <1>1, <1>2, <1>3 DEF Smaller, Larger
<1> QED
  BY <1>8, <1>9 DEF Overlaps

\* A fresh claim follows every episode of its key.
LEMMA MovesOpened ==
  ASSUME Apart, TypeOK, IndexAgrees, OriginInv, MovesInv, NEW sig \in Signals, ClaimOpened(sig)
  PROVE  MovesInv'
<1> DEFINE new == IdOfSignal(sig)
           key == KeyOfSignal(sig)
           last == book.latest[key]
<1>1. sig \in Signal /\ ~Known(book, sig) /\ book' = Opened(book, sig) /\ book \in Ledger
      /\ ~SameMove(book, sig) /\ InOrder(sig) /\ Up /\ entry.stage = "idle"
  BY IdleTypes, AdmissionConstants DEF ClaimOpened, MayAdmit, Opens, TypeOK
<1>2. /\ new \in Ids /\ KeyOf(new) = key /\ key \in Keys /\ sig.symbol \in Symbols
  BY <1>1, SignalFacts, SignalId
<1>3. book.episodes[new].state = "absent"
  BY <1>1, OpenedSources
<1>4. /\ book'.latest = [book.latest EXCEPT ![key] = new]
      /\ \A other \in Ids : other # new => book'.episodes[other] = book.episodes[other]
      /\ book'.episodes[new].state = "claimed"
  BY <1>1, OpenedFacts
<1>5. book'.episodes[new].lo = sig.lo /\ book'.episodes[new].hi = sig.hi
  BY <1>1, <1>2, LedgerFields, AbsentType DEF Opened, Ledger, Absent
<1>6. /\ rows' = rows /\ owned' = owned /\ boot' = boot
      /\ entry' = [stage |-> "claiming", id |-> new, snap |-> book'.episodes[new]]
  BY DEF ClaimOpened, At
<1>7. book.latest \in [Keys -> Ids \cup {NoId}] /\ book.episodes \in [Ids -> Episode]
  BY <1>1, LedgerFields
<1>8. Prior(book, sig) = last
  <2>1. book.active[sig.symbol] \subseteq ActiveOn(book.episodes, sig.symbol)
    BY <1>2 DEF IndexAgrees, LedgerAgrees
  <2> QED
    BY <1>1, <2>1, PriorIsLatest
<1>9. sig.lo \in Nat /\ sig.hi \in Nat /\ sig.lo <= sig.hi
  BY SignalSpan
<1> HIDE DEF new, key
<1>10. ASSUME NEW other \in Ids, KeyOf(other) = key, book.episodes[other].state # "absent"
       PROVE  book.episodes[other].hi < sig.lo
  <2>1. last # NoId
    BY <1>2, <1>10 DEF MovesInv
  <2>2. last \in Ids /\ KeyOf(last) = key /\ EndsLast(book.episodes, last)
    BY <1>2, <1>7, <2>1 DEF MovesInv, OriginInv
  <2>3. sig.hi >= book.episodes[last].lo
    BY <1>1, <2>2 DEF InOrder, EndsLast, key
  <2>4. ~Overlaps(sig, book.episodes[last])
    BY <1>1, <1>8, <2>1 DEF SameMove
  <2>5. book.episodes[last] \in Episode /\ book.episodes[other] \in Episode
    BY <1>7, <2>2
  <2>6. /\ book.episodes[last].lo \in Nat /\ book.episodes[last].hi \in Nat
        /\ book.episodes[other].lo \in Nat /\ book.episodes[other].hi \in Nat
    BY <2>5 DEF Episode
  <2>7. book.episodes[last].hi < sig.lo
    BY <1>9, <2>3, <2>4, <2>6 DEF Overlaps
  <2>8. book.episodes[last].lo <= book.episodes[last].hi
    BY <2>2, SpannedBounds DEF MovesInv, EndsLast
  <2>9. CASE other = last
    BY <2>7, <2>9
  <2>10. CASE other # last
    <3>1. book.episodes[other].hi < book.episodes[last].lo
      BY <1>10, <2>2, <2>10 DEF EndsLast
    <3> QED
      BY <1>9, <2>6, <2>7, <2>8, <3>1
  <2> QED
    BY <2>9, <2>10
<1>11. EndsLast(book'.episodes, new)
  BY <1>2, <1>4, <1>5, <1>10 DEF EndsLast
<1>12. Spanned(new, book'.episodes[new])
  BY <1>2, <1>5, <1>9 DEF Spanned, Overlaps, key
<1>13. SeparateIn(book'.episodes)
  <2>1. ASSUME NEW a \in Ids, NEW b \in Ids, a # b, KeyOf(a) = KeyOf(b),
               book'.episodes[a].state # "absent", book'.episodes[b].state # "absent"
        PROVE  ~Overlaps(book'.episodes[a], book'.episodes[b])
    <3>1. CASE a # new /\ b # new
      BY <1>4, <2>1, <3>1 DEF MovesInv, SeparateIn
    <3>2. CASE a = new
      <4>1. book'.episodes[b].hi < sig.lo /\ book'.episodes[b].hi \in Nat
        BY <1>2, <1>4, <1>7, <1>10, <2>1, <3>2 DEF Episode
      <4> QED
        BY <1>5, <1>9, <3>2, <4>1 DEF Overlaps
    <3>3. CASE b = new
      <4>1. book'.episodes[a].hi < sig.lo /\ book'.episodes[a].hi \in Nat
        BY <1>2, <1>4, <1>7, <1>10, <2>1, <3>3 DEF Episode
      <4> QED
        BY <1>5, <1>9, <3>3, <4>1 DEF Overlaps
    <3> QED
      BY <3>1, <3>2, <3>3
  <2> QED
    BY <2>1 DEF SeparateIn
<1>14. ASSUME NEW k \in Keys
       PROVE  IF book'.latest[k] = NoId
              THEN \A id \in Ids : KeyOf(id) = k => book'.episodes[id].state = "absent"
              ELSE EndsLast(book'.episodes, book'.latest[k])
  <2>1. CASE k = key
    BY <1>2, <1>4, <1>7, <1>11, <2>1, LedgerConstants
  <2>2. CASE k # key
    <3>1. book'.latest[k] = book.latest[k]
      BY <1>4, <1>7, <2>2
    <3>2. CASE book.latest[k] = NoId
      BY <1>2, <1>4, <2>2, <3>1, <3>2 DEF MovesInv
    <3>3. CASE book.latest[k] # NoId
      <4>1. /\ EndsLast(book.episodes, book.latest[k]) /\ book.latest[k] \in Ids
            /\ KeyOf(book.latest[k]) = k
        BY <1>7, <3>3 DEF MovesInv, OriginInv
      <4>2. EndsLast(book'.episodes, book.latest[k])
        BY <1>2, <1>4, <2>2, <4>1 DEF EndsLast
      <4> QED
        BY <3>1, <3>3, <4>2
    <3> QED
      BY <3>2, <3>3
  <2> QED
    BY <2>1, <2>2
<1>15. ASSUME NEW id \in Ids, NEW e, Copy(id, e)
       PROVE  CopyIn(book'.episodes, id, e)
  BY <1>3, <1>4, <1>15 DEF Copy, CopyIn
<1>16. \A id \in Ids : Spanned(id, book'.episodes[id]) /\ Spanned(id, rows'[id])
  BY <1>4, <1>6, <1>12 DEF MovesInv
<1>17. \A id \in Ids : CopyIn(book'.episodes, id, rows'[id])
  BY <1>1, <1>6, <1>15 DEF MovesInv
<1>18. CopyIn(book'.episodes, new, book'.episodes[new])
  BY <1>5, <1>9 DEF CopyIn, Overlaps
<1>19. owned'.stage \in {"saving", "closing"} =>
         Spanned(owned'.id, owned'.snap) /\ CopyIn(book'.episodes, owned'.id, owned'.snap)
  BY <1>6, <1>15, LaneIds DEF MovesInv
<1>20. entry'.id = new /\ entry'.snap = book'.episodes[new] /\ entry'.stage = "claiming"
  BY <1>6
<1>21. book'.latest[KeyOf(new)] = new
  BY <1>2, <1>4, <1>7
<1>22. /\ SeparateIn(rows')
       /\ \A k \in Keys : \/ \A id \in Ids : KeyOf(id) = k => rows'[id].state = "absent"
                          \/ \E id \in Ids : KeyOf(id) = k /\ EndsLast(rows', id)
  BY <1>6 DEF MovesInv
<1> QED
  BY <1>12, <1>13, <1>14, <1>16, <1>17, <1>18, <1>19, <1>20, <1>21, <1>22 DEF MovesInv, Copy

\* A merged source stays in the move of the episode it joins.
LEMMA MovesMerged ==
  ASSUME Apart, TypeOK, IndexAgrees, OriginInv, MovesInv, NEW sig \in Signals, ClaimMerged(sig)
  PROVE  MovesInv'
<1> DEFINE p == Prior(book, sig)
<1>1. /\ sig \in Signal /\ book \in Ledger /\ SameMove(book, sig) /\ book' = Merged(book, sig) /\ Up
      /\ p # NoId /\ Overlaps(sig, book.episodes[p])
  BY AdmissionConstants DEF ClaimMerged, MayAdmit, Merges, SameMove, TypeOK
<1>2. p \in Ids /\ KeyOf(p) = KeyOfSignal(sig) /\ book.episodes[p].state # "absent"
  BY <1>1, PriorOrigin
<1>3. /\ book'.latest = book.latest
      /\ \A other \in Ids : other # p => book'.episodes[other] = book.episodes[other]
      /\ book'.episodes[p].state = book.episodes[p].state
  BY <1>1, MergedFacts
<1>4. book.episodes[p] \in Episode /\ book.episodes \in [Ids -> Episode]
  BY <1>1, <1>2, LedgerFields
<1>5. /\ book'.episodes[p].lo = Smaller(book.episodes[p].lo, sig.lo)
      /\ book'.episodes[p].hi = Larger(book.episodes[p].hi, sig.hi)
  BY <1>1, <1>2, <1>4 DEF Merged, Ledger, Episode
<1>6. /\ rows' = rows /\ owned' = owned /\ boot' = boot
      /\ entry' = [stage |-> "saving", id |-> p, snap |-> book'.episodes[p]]
  BY DEF ClaimMerged, At
<1> HIDE DEF p
<1>7. Spanned(p, book.episodes[p])
  BY <1>2 DEF MovesInv
<1>8. Spanned(p, book'.episodes[p]) /\ Overlaps(book'.episodes[p], book.episodes[p])
  BY <1>1, <1>2, <1>3, <1>4, <1>5, <1>7, MergedSpan
<1>9. \A id \in Ids : /\ Spanned(id, book'.episodes[id]) /\ Copy(id, book'.episodes[id])
                      /\ book.episodes[id].state # "absent" => book'.episodes[id].state # "absent"
  BY <1>2, <1>3, <1>8, OwnCopy DEF Copy, CopyIn
<1>10. \A id \in Ids : /\ Spanned(id, rows'[id]) /\ Copy(id, rows'[id])
                       /\ rows'[id].state = "absent" <=> rows[id].state = "absent"
  BY <1>1, <1>6 DEF MovesInv
<1>11. owned'.stage \in {"saving", "closing"} =>
         /\ owned'.id \in Ids
         /\ Spanned(owned'.id, owned'.snap) /\ Copy(owned'.id, owned'.snap)
  BY <1>6, LaneIds DEF MovesInv
<1>12. entry'.id = p /\ entry'.snap = book'.episodes[p] /\ entry'.stage = "saving"
  BY <1>6
<1> QED
  BY <1>1, <1>2, <1>3, <1>6, <1>9, <1>10, <1>11, <1>12, MovesFrame

\* A fresh claim is written behind all the rows of its key.
LEMMA MovesClaimed ==
  ASSUME Apart, TypeOK, OriginInv, MovesInv, DurableClaim
  PROVE  MovesInv'
<1>1. /\ Up /\ entry.stage = "claiming" /\ entry.id \in Ids
      /\ book' = book /\ owned' = owned /\ boot' = boot
      /\ rows \in [Ids -> Episode]
  BY LaneIds DEF DurableClaim
<1>2. /\ Spanned(entry.id, entry.snap) /\ Copy(entry.id, entry.snap) /\ entry.snap.state # "absent"
      /\ book.latest[KeyOf(entry.id)] = entry.id
  BY <1>1 DEF MovesInv, OriginInv
<1>3. EndsLast(book.episodes, entry.id)
  BY <1>1, <1>2, IdFacts, LedgerConstants DEF MovesInv
<1>4. entry'.stage # "claiming"
      /\ (entry'.stage # "idle" => entry'.id = entry.id /\ entry'.snap = entry.snap)
  BY <1>1, IdleTypes DEF DurableClaim, TypeOK
<1>5. CASE rows' = rows
  BY <1>1, <1>2, <1>4, <1>5 DEF MovesInv, Up, Copy
<1>6. CASE rows' = [rows EXCEPT ![entry.id] = entry.snap]
  <2>1. rows'[entry.id] = entry.snap /\ \A id \in Ids : id # entry.id => rows'[id] = rows[id]
    BY <1>1, <1>6
  <2>2. \A id \in Ids : Spanned(id, rows'[id]) /\ Copy(id, rows'[id])
    BY <1>1, <1>2, <2>1 DEF MovesInv
  <2>3. /\ \A id \in Ids : Spanned(id, book.episodes[id])
        /\ SeparateIn(book.episodes)
    BY DEF MovesInv
  <2>4. \A id \in Ids : rows'[id].state # "absent" =>
          book.episodes[id].state # "absent" /\ Overlaps(rows'[id], book.episodes[id])
    BY <2>2 DEF Copy, CopyIn
  <2>5. SeparateIn(rows') /\ EndsLast(rows', entry.id)
    <3> DEFINE new == rows'
               eps == book.episodes
    <3>1. /\ \A id \in Ids : Spanned(id, eps[id]) /\ Spanned(id, new[id])
          /\ \A id \in Ids : new[id].state # "absent" =>
               eps[id].state # "absent" /\ Overlaps(new[id], eps[id])
          /\ SeparateIn(eps)
      BY <2>2, <2>3, <2>4
    <3>2. EndsLast(eps, entry.id) /\ new[entry.id].state # "absent"
      BY <1>2, <1>3, <2>1
    <3> HIDE DEF new, eps
    <3>3. SeparateIn(new) /\ EndsLast(new, entry.id)
      BY <1>1, <3>1, <3>2, SpansCarry
    <3> QED
      BY <3>3 DEF new
  <2>6. ASSUME NEW key \in Keys
        PROVE  \/ \A id \in Ids : KeyOf(id) = key => rows'[id].state = "absent"
               \/ \E id \in Ids : KeyOf(id) = key /\ EndsLast(rows', id)
    <3>1. CASE key = KeyOf(entry.id)
      BY <1>1, <2>5, <3>1
    <3>2. CASE key # KeyOf(entry.id)
      <4>1. \A id \in Ids : KeyOf(id) = key => rows'[id] = rows[id]
        BY <2>1, <3>2
      <4>2. CASE \A id \in Ids : KeyOf(id) = key => rows[id].state = "absent"
        BY <4>1, <4>2
      <4>3. CASE \E id \in Ids : KeyOf(id) = key /\ EndsLast(rows, id)
        <5>1. PICK id \in Ids : KeyOf(id) = key /\ EndsLast(rows, id)
          BY <4>3
        <5>2. EndsLast(rows', id)
          BY <4>1, <5>1 DEF EndsLast
        <5> QED
          BY <5>1, <5>2
      <4> QED
        BY <4>2, <4>3 DEF MovesInv
    <3> QED
      BY <3>1, <3>2
  <2> QED
    BY <1>1, <1>2, <1>4, <2>2, <2>3, <2>5, <2>6 DEF MovesInv, Copy
<1> QED
  BY <1>5, <1>6 DEF DurableClaim

\* Every step of the entry lane keeps the order of the moves.
LEMMA MovesEntry ==
  Apart /\ TypeOK /\ TypeOK' /\ IndexAgrees /\ OriginInv /\ MovesInv /\ EntryLane => MovesInv'
<1> SUFFICES ASSUME Apart, TypeOK, TypeOK', IndexAgrees, OriginInv, MovesInv, EntryLane
             PROVE  MovesInv'
  OBVIOUS
<1>t. /\ book \in Ledger /\ rows \in [Ids -> Episode] /\ book.episodes \in [Ids -> Episode]
      /\ entry.stage # "idle" => entry.id \in Ids
      /\ owned.stage # "idle" => owned.id \in Ids
      /\ entry.snap \in Episode
  BY LaneIds
<1>e. entry.stage # "idle" => /\ Spanned(entry.id, entry.snap) /\ Copy(entry.id, entry.snap)
                              /\ entry.snap.state # "absent"
                              /\ book.episodes[entry.id].state # "absent"
  BY DEF MovesInv, OriginInv
<1>o. owned.stage \in {"saving", "closing"} =>
        /\ owned.id \in Ids
        /\ Spanned(owned.id, owned.snap) /\ Copy(owned.id, owned.snap)
  BY <1>t DEF MovesInv
<1>r. \A id \in Ids : Spanned(id, rows[id]) /\ (Up => Copy(id, rows[id]))
  BY DEF MovesInv
<1>1. ASSUME NEW sig \in Signals, ClaimKnown(sig) PROVE MovesInv'
  <2> DEFINE id == book.sources[IdOfSignal(sig)]
  <2>1. id \in Ids
    BY <1>1, <1>t, SignalSpan, SignalFacts, LedgerFields DEF ClaimKnown, Known
  <2>2. /\ entry' = [stage |-> "saving", id |-> id, snap |-> book.episodes[id]] /\ Up
        /\ book' = book /\ rows' = rows /\ owned' = owned /\ boot' = boot
    BY <1>1 DEF ClaimKnown, At, MayAdmit
  <2> HIDE DEF id
  <2>3. Spanned(id, book.episodes[id]) /\ Copy(id, book.episodes[id])
    BY <2>1, OwnCopy
  <2> QED
    BY <1>o, <2>1, <2>2, <2>3, SpanSelf, MovesSame
<1>2. ASSUME NEW sig \in Signals, ClaimMerged(sig) PROVE MovesInv'
  BY <1>2, MovesMerged
<1>3. ASSUME NEW sig \in Signals, ClaimOpened(sig) PROVE MovesInv'
  BY <1>3, MovesOpened
<1>4. CASE DurableClaim
  BY <1>4, MovesClaimed
<1>5. CASE QuoteExpired \/ SettleRefusal
  <2>1. /\ Up /\ entry.stage # "idle" /\ entry.id \in Ids /\ book' = Release(book, entry.id)
        /\ entry' = [stage |-> "saving", id |-> entry.id, snap |-> book'.episodes[entry.id]]
        /\ rows' = rows /\ owned' = owned /\ boot' = boot
    BY <1>5, <1>t DEF QuoteExpired, SettleRefusal, At
  <2>2. book'.latest = book.latest /\ \A k \in Ids : SameSpan(book'.episodes[k], book.episodes[k])
    BY <1>e, <2>1, ReleaseSpan
  <2>3. Spanned(entry.id, book'.episodes[entry.id]) /\ Copy(entry.id, book'.episodes[entry.id])
    BY <2>1, <2>2, TakenSnap
  <2> QED
    BY <1>o, <2>1, <2>2, <2>3, SpanSelf, MovesSame
<1>6. CASE PrepareOrder \/ Dispatch \/ SubmitFailed
  <2>1. /\ Up /\ book' = book /\ rows' = rows /\ owned' = owned /\ boot' = boot
        /\ entry.stage # "idle" /\ entry.stage # "claiming"
        /\ entry'.stage # "idle" => entry'.id = entry.id /\ entry'.snap = entry.snap
                                    /\ entry'.stage # "claiming"
    BY <1>6, IdleTypes DEF PrepareOrder, Dispatch, SubmitFailed, TypeOK
  <2> QED
    BY <1>t, <1>e, <1>o, <2>1, SpanSelf, MovesSame DEF Idle
<1>7. CASE BeginSubmit
  <2>1. /\ Up /\ entry.id \in Ids /\ book' = Submitted(book, entry.id, clock) /\ clock \in Nat
        /\ entry' = [stage |-> "submitting", id |-> entry.id, snap |-> book'.episodes[entry.id]]
        /\ rows' = rows /\ owned' = owned /\ boot' = boot /\ entry.stage # "idle"
    BY <1>7, <1>t DEF BeginSubmit, At, TypeOK
  <2>2. /\ book'.latest = book.latest
        /\ \A other \in Ids : other # entry.id => book'.episodes[other] = book.episodes[other]
        /\ book'.episodes[entry.id].state = "submitting"
    BY <1>t, <2>1, SubmittedFacts
  <2>3. book.episodes[entry.id] \in Episode
    BY <1>t, <2>1
  <2>4. /\ book'.episodes[entry.id].lo = book.episodes[entry.id].lo
        /\ book'.episodes[entry.id].hi = book.episodes[entry.id].hi
    BY <1>t, <2>1, <2>3 DEF Submitted, Ledger, Episode
  <2>5. \A k \in Ids : SameSpan(book'.episodes[k], book.episodes[k])
    BY <1>e, <2>1, <2>2, <2>4, SpanSelf DEF SameSpan
  <2>6. Spanned(entry.id, book'.episodes[entry.id]) /\ Copy(entry.id, book'.episodes[entry.id])
    BY <2>1, <2>5, TakenSnap
  <2> QED
    BY <1>o, <2>1, <2>2, <2>5, <2>6, SpanSelf, MovesSame
<1>8. CASE CommitSubmitting
  <2>1. /\ Up /\ entry.id \in Ids /\ entry.stage # "idle" /\ rows[entry.id].state # "absent"
        /\ rows' = [rows EXCEPT ![entry.id] = entry.snap]
        /\ book' = book /\ owned' = owned /\ boot' = boot
        /\ entry'.id = entry.id /\ entry'.snap = entry.snap /\ entry'.stage = "sent"
    BY <1>8, <1>t DEF CommitSubmitting, Unsent, TypeOK
  <2>2. \A id \in Ids : \/ SameSpan(rows'[id], rows[id])
                        \/ /\ rows[id].state # "absent" /\ rows'[id].state # "absent"
                           /\ Spanned(id, rows'[id]) /\ Copy(id, rows'[id])
    BY <1>t, <1>e, <2>1, SpanSelf
  <2> QED
    BY <1>e, <1>o, <2>1, <2>2, SpanSelf, MovesSame
<1>9. CASE RepriceConflict
  <2>1. /\ Up /\ entry.id \in Ids /\ entry.stage # "idle" /\ owned' = owned /\ boot' = boot
        /\ entry'.stage = "idle"
    BY <1>9, <1>t, IdleTypes DEF RepriceConflict
  <2>2. \A e \in Episode : SameSpan(AsCancelRequested(e), e)
    BY DEF SameSpan, AsCancelRequested, Episode
  <2>3. \A id \in Ids : SameSpan(rows'[id], rows[id])
    BY <1>9, <1>t, <2>1, <2>2, SpanSelf DEF RepriceConflict
  <2>4. book'.latest = book.latest /\ \A id \in Ids : SameSpan(book'.episodes[id], book.episodes[id])
    <3>1. CASE book' = book
      BY <3>1, SpanSelf
    <3>2. CASE book' = [book EXCEPT !.episodes[entry.id] = AsCancelRequested(@)]
      <4>1. /\ book'.latest = book.latest
            /\ book'.episodes = [book.episodes EXCEPT ![entry.id] = AsCancelRequested(@)]
        BY <1>t, <3>2 DEF Ledger
      <4> QED
        BY <1>t, <2>1, <2>2, <4>1, SpanSelf
    <3> QED
      BY <1>9, <3>1, <3>2 DEF RepriceConflict
  <2> QED
    BY <1>o, <2>1, <2>3, <2>4, MovesSame
<1>10. CASE RefuseBeforeWire
  <2>1. /\ Up /\ entry.id \in Ids /\ entry.stage # "idle" /\ owned' = owned /\ boot' = boot
        /\ book' = book
        /\ entry'.stage # "idle" => entry'.id = entry.id /\ entry'.snap = entry.snap
                                    /\ entry'.stage # "claiming"
    BY <1>10, <1>t, IdleTypes DEF RefuseBeforeWire, TypeOK
  <2>2. \A id \in Ids : SameSpan(rows'[id], rows[id])
    <3>1. CASE rows' = rows
      BY <3>1, SpanSelf
    <3>2. CASE /\ rows' = [rows EXCEPT ![entry.id].state = "terminal_no_fill"]
               /\ rows[entry.id].state # "absent"
      <4>1. rows[entry.id] \in Episode
        BY <1>t, <2>1
      <4> QED
        BY <1>t, <2>1, <3>2, <4>1, SpanSelf DEF SameSpan, Episode
    <3> QED
      BY <1>10, <3>1, <3>2 DEF RefuseBeforeWire
  <2> QED
    BY <1>e, <1>o, <2>1, <2>2, SpanSelf, MovesSame
<1>11. CASE RecordRoute
  <2>1. /\ Up /\ entry.id \in Ids
        /\ entry' = [stage |-> "saving", id |-> entry.id, snap |-> book.episodes[entry.id]]
        /\ book' = book /\ rows' = rows /\ owned' = owned /\ boot' = boot
    BY <1>11, <1>t DEF RecordRoute, At
  <2> QED
    BY <1>o, <2>1, OwnCopy, SpanSelf, MovesSame
<1>12. CASE EntrySave
  <2>1. /\ Up /\ entry.id \in Ids /\ entry.stage # "idle" /\ rows' = Stored(entry.id, entry.snap)
        /\ entry'.stage = "idle" /\ book' = book /\ owned' = owned /\ boot' = boot
    BY <1>12, <1>t, IdleTypes DEF EntrySave
  <2>2. \A k \in Ids : \/ SameSpan(rows'[k], rows[k])
                       \/ /\ rows[k].state # "absent" /\ rows'[k].state # "absent"
                          /\ Spanned(k, rows'[k]) /\ Copy(k, rows'[k])
    BY <1>t, <1>e, <2>1, StoredSpan
  <2> QED
    BY <1>o, <2>1, <2>2, SpanSelf, MovesSame
<1> QED
  BY <1>1, <1>2, <1>3, <1>4, <1>5, <1>6, <1>7, <1>8, <1>9, <1>10, <1>11, <1>12 DEF EntryLane

\* Every step of the owned lane keeps the order of the moves.
LEMMA MovesOwned ==
  Apart /\ TypeOK /\ TypeOK' /\ OriginInv /\ MovesInv /\ OwnedLane => MovesInv'
<1> SUFFICES ASSUME Apart, TypeOK, TypeOK', OriginInv, MovesInv, OwnedLane
             PROVE  MovesInv'
  OBVIOUS
<1>t. /\ book \in Ledger /\ rows \in [Ids -> Episode] /\ book.episodes \in [Ids -> Episode]
      /\ entry.stage # "idle" => entry.id \in Ids
      /\ owned.stage # "idle" => owned.id \in Ids
      /\ owned.snap \in Episode /\ owned.obs \in Observation
  BY LaneIds
<1>e. entry.stage # "idle" => Spanned(entry.id, entry.snap) /\ Copy(entry.id, entry.snap)
  BY DEF MovesInv
<1>o. /\ owned.stage # "idle" => book.episodes[owned.id].state # "absent"
      /\ owned.stage \in {"saving", "closing"} =>
           /\ owned.id \in Ids /\ owned.snap.state # "absent"
           /\ Spanned(owned.id, owned.snap) /\ Copy(owned.id, owned.snap)
  BY <1>t DEF MovesInv, OriginInv
<1>1. ASSUME NEW id \in Ids, Observe(id) PROVE MovesInv'
  <2>1. /\ Up /\ owned'.stage = "observed" /\ book' = book /\ rows' = rows /\ entry' = entry
        /\ boot' = boot
    BY <1>1 DEF Observe
  <2> QED
    BY <1>t, <1>e, <2>1, SpanSelf, MovesSame
<1>2. ASSUME NEW id \in Ids, RetireCommit(id) \/ AbandonCommit(id) PROVE MovesInv'
  <2>1. /\ Up /\ owned'.stage \in {"retired", "abandoned"} /\ book' = book /\ entry' = entry
        /\ boot' = boot
    BY <1>2, IdleTypes DEF RetireCommit, AbandonCommit, Resting
  <2>2. rows[id] \in Episode /\ rows[id].state # "absent"
    BY <1>2, <1>t DEF RetireCommit, AbandonCommit, Unsent
  <2>3. \A k \in Ids : SameSpan(rows'[k], rows[k])
    <3>1. CASE rows' = [rows EXCEPT ![id].state = "terminal_no_fill", ![id].closed = clock]
      BY <1>t, <2>2, <3>1, SpanSelf DEF SameSpan, Episode
    <3>2. CASE rows' = [rows EXCEPT ![id].state = "terminal_no_fill"]
      BY <1>t, <2>2, <3>2, SpanSelf DEF SameSpan, Episode
    <3> QED
      BY <1>2, <3>1, <3>2 DEF RetireCommit, AbandonCommit
  <2> QED
    BY <1>t, <1>e, <2>1, <2>3, SpanSelf, MovesSame
<1>3. CASE RetireSettle
  <2> DEFINE L == Release(book, owned.id)
  <2>1. /\ Up /\ owned.id \in Ids /\ owned.stage # "idle" /\ rows' = rows /\ entry' = entry
        /\ boot' = boot /\ book' = [L EXCEPT !.episodes[owned.id].closed = rows[owned.id].closed]
        /\ owned'.stage = "observed"
    BY <1>3, <1>t DEF RetireSettle, TypeOK
  <2>2. L \in Ledger
    BY <1>t, <2>1, ReleaseType
  <2>3. L.latest = book.latest /\ \A k \in Ids : SameSpan(L.episodes[k], book.episodes[k])
    BY <1>o, <2>1, ReleaseSpan
  <2> HIDE DEF L
  <2>4. L.episodes \in [Ids -> Episode]
    BY <2>2, LedgerFields
  <2>5. /\ book'.latest = L.latest
        /\ book'.episodes = [L.episodes EXCEPT ![owned.id].closed = rows[owned.id].closed]
    BY <2>1, <2>2 DEF Ledger
  <2>6. \A k \in Ids : SameSpan(book'.episodes[k], L.episodes[k])
    <3>1. L.episodes[owned.id] \in Episode
      BY <2>1, <2>4
    <3> QED
      BY <2>1, <2>4, <2>5, <3>1, SpanSelf DEF SameSpan, Episode
  <2>7. \A k \in Ids : SameSpan(book'.episodes[k], book.episodes[k])
    BY <2>3, <2>6 DEF SameSpan
  <2> QED
    BY <1>t, <1>e, <2>1, <2>3, <2>5, <2>7, SpanSelf, MovesSame
<1>4. CASE Reconcile
  <2>1. /\ Up /\ owned.id \in Ids /\ owned.stage # "idle" /\ rows' = rows /\ entry' = entry
        /\ boot' = boot
        /\ book' = Reconciled(book, owned.id, owned.obs.filled, owned.obs.exited,
                              owned.obs.terminal, owned.obs.outstanding, clock)
        /\ owned'.id = owned.id /\ owned'.snap = book'.episodes[owned.id]
    BY <1>4, <1>t DEF Reconcile, TypeOK
  <2>2. book'.latest = book.latest /\ \A k \in Ids : SameSpan(book'.episodes[k], book.episodes[k])
    BY <1>t, <1>o, <2>1, ObservedSpan
  <2>3. Spanned(owned.id, book'.episodes[owned.id]) /\ Copy(owned.id, book'.episodes[owned.id])
    BY <2>1, <2>2, TakenSnap
  <2> QED
    BY <1>t, <1>e, <2>1, <2>2, <2>3, SpanSelf, MovesSame
<1>5. CASE OwnedSave
  <2>1. /\ Up /\ owned.stage \in {"saving", "closing"} /\ rows' = Stored(owned.id, owned.snap)
        /\ owned'.stage \in {"saved", "idle"} /\ book' = book /\ entry' = entry /\ boot' = boot
    BY <1>5, IdleTypes DEF OwnedSave, TypeOK
  <2>2. \A k \in Ids : \/ SameSpan(rows'[k], rows[k])
                       \/ /\ rows[k].state # "absent" /\ rows'[k].state # "absent"
                          /\ Spanned(k, rows'[k]) /\ Copy(k, rows'[k])
    BY <1>t, <1>o, <2>1, StoredSpan
  <2> QED
    BY <1>t, <1>e, <2>1, <2>2, SpanSelf, MovesSame
<1>6. CASE CancelEntry
  <2>1. /\ Up /\ owned.stage = "saved" /\ owned.id \in Ids /\ rows' = rows /\ entry' = entry
        /\ boot' = boot
    BY <1>6, <1>t DEF CancelEntry
  <2>2. CASE book' = CancelRequested(book, owned.id)
             /\ owned'.id = owned.id /\ owned'.snap = book'.episodes[owned.id]
    <3>1. /\ book'.latest = book.latest
          /\ \A other \in Ids : other # owned.id => book'.episodes[other] = book.episodes[other]
          /\ book'.episodes[owned.id].state = "cancel_requested"
      BY <1>t, <2>1, <2>2, CancelFacts
    <3>2. book.episodes[owned.id] \in Episode
      BY <1>t, <2>1
    <3>3. /\ book'.episodes[owned.id].lo = book.episodes[owned.id].lo
          /\ book'.episodes[owned.id].hi = book.episodes[owned.id].hi
      BY <1>t, <2>1, <2>2, <3>2 DEF CancelRequested, Ledger, Episode
    <3>4. \A k \in Ids : SameSpan(book'.episodes[k], book.episodes[k])
      BY <1>o, <2>1, <3>1, <3>3, SpanSelf DEF SameSpan
    <3>5. Spanned(owned.id, book'.episodes[owned.id]) /\ Copy(owned.id, book'.episodes[owned.id])
      BY <2>1, <3>4, TakenSnap
    <3> QED
      BY <1>t, <1>e, <2>1, <2>2, <3>1, <3>4, <3>5, SpanSelf, MovesSame
  <2>3. CASE book' = book /\ owned' = Resting
    BY <1>t, <1>e, <2>1, <2>3, IdleTypes, SpanSelf, MovesSame
  <2> QED
    BY <1>6, <2>2, <2>3 DEF CancelEntry, TypeOK
<1>7. CASE AbandonSettle
  <2>1. /\ Up /\ owned.id \in Ids /\ owned.stage # "idle" /\ rows' = rows /\ entry' = entry
        /\ boot' = boot /\ book' = Release(book, owned.id)
        /\ owned'.id = owned.id /\ owned'.snap = book'.episodes[owned.id]
    BY <1>7, <1>t DEF AbandonSettle, TypeOK
  <2>2. book'.latest = book.latest /\ \A k \in Ids : SameSpan(book'.episodes[k], book.episodes[k])
    BY <1>o, <2>1, ReleaseSpan
  <2>3. Spanned(owned.id, book'.episodes[owned.id]) /\ Copy(owned.id, book'.episodes[owned.id])
    BY <2>1, <2>2, TakenSnap
  <2> QED
    BY <1>t, <1>e, <2>1, <2>2, <2>3, SpanSelf, MovesSame
<1> QED
  BY <1>1, <1>2, <1>3, <1>4, <1>5, <1>6, <1>7 DEF OwnedLane

\* A restart rebuilds the ledger from rows in order, and nothing else outside the lanes
\* touches an interval.
LEMMA MovesEnvironment == Apart /\ TypeOK /\ OriginInv /\ MovesInv /\ Environment => MovesInv'
<1> SUFFICES ASSUME Apart, TypeOK, OriginInv, MovesInv, Environment PROVE MovesInv'
  OBVIOUS
<1>1. CASE Restart
  <2>1. entry'.stage = "idle" /\ owned'.stage = "idle"
    BY <1>1, IdleTypes DEF Restart
  <2>2. CASE BootRefused
    <3>1. rows' = rows /\ boot' = "refused" /\ book' = [EmptyLedger EXCEPT !.ready = FALSE]
      BY <1>1, <2>2 DEF Restart
    <3>2. book'.episodes = EmptyLedger.episodes /\ book'.latest = EmptyLedger.latest
      BY <3>1, EmptyLedgerType DEF Ledger
    <3>3. /\ \A id \in Ids : book'.episodes[id].state = "absent"
          /\ \A key \in Keys : book'.latest[key] = NoId
      BY <3>2, EmptySources DEF Absent
    <3> QED
      BY <2>1, <3>1, <3>3 DEF MovesInv, Spanned, SeparateIn, Up
  <2>3. CASE ~BootRefused
    <3> DEFINE eps == BootRows
    <3>1. rows' = eps /\ boot' = "up" /\ book' = Restored(eps)
      BY <1>1, <2>3 DEF Restart
    <3>2. eps \in [Ids -> Episode] /\ book'.episodes = eps
      BY <3>1, BootRowsType DEF Restored
    <3>3. \A id \in Ids : SameSpan(eps[id], rows[id])
      <4>1. ASSUME NEW id \in Ids PROVE SameSpan(eps[id], rows[id])
        <5>1. rows[id] \in Episode
          BY LaneIds
        <5> QED
          BY <5>1 DEF BootRows, SameSpan, Unsent, Episode
      <4> QED
        BY <4>1
    <3> HIDE DEF eps
    <3>4. \A id \in Ids : Spanned(id, eps[id])
      BY <3>3, SameSpanFacts DEF MovesInv
    <3>5. SeparateIn(eps)
      BY <3>3 DEF MovesInv, SeparateIn, SameSpan, Overlaps
    <3>6. \A id \in Ids : EndsLast(rows, id) => EndsLast(eps, id)
      BY <3>3 DEF EndsLast, SameSpan
    <3>7. ASSUME NEW key \in Keys
          PROVE  \/ \A id \in Ids : KeyOf(id) = key => eps[id].state = "absent"
                 \/ \E id \in Ids : KeyOf(id) = key /\ EndsLast(eps, id)
      BY <3>3, <3>6 DEF MovesInv, SameSpan
    <3>8. ASSUME NEW key \in Keys
          PROVE  IF book'.latest[key] = NoId
                 THEN \A id \in Ids : KeyOf(id) = key => eps[id].state = "absent"
                 ELSE EndsLast(eps, book'.latest[key])
      <4>1. book'.latest[key] = LatestRow(eps, key)
        BY <3>1 DEF Restored
      <4>2. CASE \A id \in Ids : KeyOf(id) = key => eps[id].state = "absent"
        <5>1. {id \in Present(eps) : KeyOf(id) = key} = {}
          BY <4>2 DEF Present
        <5>2. LatestRow(eps, key) = NoId
          BY <5>1 DEF LatestRow
        <5> QED
          BY <4>1, <4>2, <5>2
      <4>3. CASE \E id \in Ids : KeyOf(id) = key /\ EndsLast(eps, id)
        <5>1. PICK id \in Ids : KeyOf(id) = key /\ EndsLast(eps, id)
          BY <4>3
        <5>2. eps[id].lo <= eps[id].hi
          BY <3>4, <5>1, SpannedBounds DEF EndsLast
        <5>3. LatestRow(eps, key) = id
          BY <3>2, <5>1, <5>2, LatestEndsLast
        <5> QED
          BY <4>1, <5>1, <5>3, LedgerConstants
      <4> QED
        BY <3>7, <4>2, <4>3
    <3>9. \A id \in Ids : CopyIn(eps, id, eps[id])
      BY <3>4, SpannedBounds DEF CopyIn, Overlaps
    <3> QED
      BY <2>1, <3>1, <3>2, <3>4, <3>5, <3>7, <3>8, <3>9 DEF MovesInv, Copy
  <2> QED
    BY <2>2, <2>3
<1>2. CASE ~Restart
  <2>1. book' = book /\ rows' = rows /\ entry' = entry /\ owned' = owned /\ boot' = boot
    BY <1>2 DEF Environment, BrokerReport, Operator, Tick
  <2> QED
    BY <2>1 DEF MovesInv, Up, Copy
<1> QED
  BY <1>1, <1>2

\* No move at first.
LEMMA MovesInit == Init => MovesInv
<1> SUFFICES ASSUME Init PROVE MovesInv
  OBVIOUS
<1>1. /\ book = EmptyLedger /\ \A id \in Ids : rows[id] = Absent
      /\ entry.stage = "idle" /\ owned.stage = "idle"
  BY IdleTypes DEF Init
<1>2. /\ \A id \in Ids : book.episodes[id].state = "absent" /\ rows[id].state = "absent"
      /\ \A key \in Keys : book.latest[key] = NoId
  BY <1>1, EmptySources DEF Absent
<1> QED
  BY <1>1, <1>2 DEF MovesInv, Spanned, SeparateIn, Copy, CopyIn

\* A restart is neutral: while the moves of a symbol are separate, a ledger rebuilt from the
\* episodes, which takes the latest by interval, decides every signal in order as the running
\* one, which keeps the last opened, whatever was merged, lost or released in between.
THEOREM RestartCorrect == Spec => []RestartEquivalent
<1>1. Init => (Apart => MovesInv)
  BY MovesInit
<1>2. /\ TypeOK /\ IndexInv /\ OriginInv
      /\ TypeOK'
      /\ (Apart => MovesInv) /\ [Next]_vars
      => (Apart => MovesInv')
  <2>1. MovesInv /\ UNCHANGED vars => MovesInv'
    BY DEF MovesInv, Copy, Up, vars
  <2>2. IndexInv => IndexAgrees
    BY DEF IndexInv
  <2> QED
    BY <2>1, <2>2, MovesEntry, MovesOwned, MovesEnvironment DEF Next
<1>3. TypeOK /\ IndexInv /\ OriginInv /\ (Apart => MovesInv) => RestartEquivalent
  BY NeutralFromMoves DEF RestartEquivalent, IndexInv
<1>4. (Apart => MovesInv)' <=> (Apart => MovesInv')
  BY DEF Apart
<1> DEFINE J == Apart => MovesInv
<1>5. Init => J
  BY <1>1
<1>6. TypeOK /\ IndexInv /\ OriginInv /\ TypeOK' /\ J /\ [Next]_vars => J'
  BY <1>2, <1>4
<1>7. TypeOK /\ IndexInv /\ OriginInv /\ J => RestartEquivalent
  BY <1>3
<1> HIDE DEF J
<1> QED
  BY <1>5, <1>6, <1>7, OriginInductive, PTL DEF Spec

------------------------------------------------------------------------------
(* Closes: why the latest episode is enough to ask for the cooldown.        *)

IsLatest(id) == book.latest[KeyOf(id)] = id

\* The episode can never close with a fill any more.
Spent(id) == /\ order[id] # "marked"
             /\ order[id] = "posted" => Settled(truth[id]) /\ truth[id].filled = 0

\* What the broker can have reported.
Sane(o) == o.exited <= o.filled /\ (o.outstanding => o.filled > 0)

\* What the owned lane has read of the episode is not ahead of the broker.
Seen(id) ==
  /\ owned.obs.terminal => order[id] \in {"posted", "aborted", "retired"}
  /\ order[id] # "posted" => owned.obs.filled = 0
  /\ order[id] = "posted" => owned.obs.filled <= truth[id].filled
  /\ order[id] = "posted" /\ owned.obs.terminal
       => truth[id].terminal /\ owned.obs.filled = truth[id].filled

\* In a process that has not restarted the lanes close no episode but the latest of its
\* key: an earlier one is cooled, or it can never close with a fill.
CooledInv ==
  /\ Up
  /\ Working => IsLatest(entry.id)
  /\ owned.stage = "observed" => Seen(owned.id)
  /\ owned.stage = "abandoned" => order[owned.id] \in {"none", "aborted"}
  /\ owned.stage = "retired" =>
       /\ IsLatest(owned.id) /\ Indexed(owned.id)
       /\ order[owned.id] = "retired" /\ owned.obs = Flat
       /\ Working => SymbolOf(entry.id) # SymbolOf(owned.id)
  /\ \A id \in Ids :
       /\ Sane(truth[id])
       /\ order[id] = "marked" => IsLatest(id) /\ Indexed(id)
       /\ ~IsLatest(id) \/ ~Indexed(id) => book.episodes[id].closed # NoTime \/ Spent(id)
       /\ ~IsLatest(id) /\ book.episodes[id].closed # NoTime
            => clock - book.episodes[id].closed >= Cooldown

\* Steps that leave the orders, the index and the closing times alone.
LEMMA CooledSame ==
  ASSUME CooledInv, boot' = boot, order' = order, truth' = truth, clock' = clock,
         book'.latest = book.latest,
         \A id \in Ids : /\ Indexed(id)' <=> Indexed(id)
                         /\ book'.episodes[id].closed = book.episodes[id].closed,
         Working' => Working /\ entry'.id = entry.id,
         owned.stage # "idle" => owned.id \in Ids,
         owned'.stage \in {"observed", "abandoned", "retired"} => owned' = owned
  PROVE  CooledInv'
<1>1. \A id \in Ids : IsLatest(id)' <=> IsLatest(id)
  BY DEF IsLatest
<1>2. \A id \in Ids : Spent(id)' <=> Spent(id)
  BY DEF Spent
<1>3. ASSUME NEW id \in Ids
      PROVE  /\ Sane(truth'[id])
             /\ order'[id] = "marked" => IsLatest(id)' /\ Indexed(id)'
             /\ ~IsLatest(id)' \/ ~Indexed(id)' => book'.episodes[id].closed # NoTime \/ Spent(id)'
             /\ ~IsLatest(id)' /\ book'.episodes[id].closed # NoTime
                  => clock' - book'.episodes[id].closed >= Cooldown
  BY <1>1, <1>2 DEF CooledInv
<1>4. Working' => IsLatest(entry.id)' /\ entry'.id = entry.id
  BY DEF CooledInv, IsLatest
<1>5. owned'.stage = "observed" => Seen(owned.id)' /\ owned'.id = owned.id
  BY DEF CooledInv, Seen
<1>6. owned'.stage = "abandoned" => order'[owned'.id] \in {"none", "aborted"}
  BY DEF CooledInv
<1>7. owned'.stage = "retired" =>
        /\ IsLatest(owned.id)' /\ Indexed(owned.id)' /\ owned' = owned
        /\ order'[owned.id] = "retired" /\ owned'.obs = Flat
        /\ Working' => SymbolOf(entry'.id) # SymbolOf(owned'.id)
  <2>1. SUFFICES ASSUME owned'.stage = "retired"
                 PROVE  /\ IsLatest(owned.id)' /\ Indexed(owned.id)' /\ owned' = owned
                        /\ order'[owned.id] = "retired" /\ owned'.obs = Flat
                        /\ Working' => SymbolOf(entry'.id) # SymbolOf(owned'.id)
    OBVIOUS
  <2>2. owned' = owned /\ owned.stage = "retired" /\ owned.id \in Ids
    BY <2>1
  <2>3. /\ IsLatest(owned.id) /\ Indexed(owned.id)
        /\ order[owned.id] = "retired" /\ owned.obs = Flat
        /\ Working => SymbolOf(entry.id) # SymbolOf(owned.id)
    BY <2>2 DEF CooledInv
  <2>4. PICK w \in Ids : w = owned.id
    BY <2>2
  <2>5. IsLatest(w)' /\ Indexed(w)'
    BY <1>1, <2>3, <2>4
  <2> QED
    BY <2>2, <2>3, <2>4, <2>5 DEF IsLatest, Indexed
<1> QED
  BY <1>3, <1>4, <1>5, <1>6, <1>7 DEF CooledInv, IsLatest, Indexed, Seen, Up

\* A step of the entry lane on the episode it works on, which is the latest of its key.
LEMMA CooledWork ==
  ASSUME CooledInv, TypeOK, Working, NEW w \in Ids, w = entry.id,
         owned' = owned, boot' = boot, truth' = truth, clock' = clock,
         book'.latest = book.latest,
         Working' => entry'.id = entry.id,
         \A id \in Ids : /\ id # w => (Indexed(id)' <=> Indexed(id)) /\ order'[id] = order[id]
                         /\ book'.episodes[id].closed = book.episodes[id].closed,
         order'[w] = "marked" => Indexed(w)',
         ~Indexed(w)' => Spent(w)',
         \/ order'[w] = order[w]
         \/ /\ order[w] \in {"none", "prepared"} /\ order'[w] # order[w]
            /\ order'[w] = "posted" => truth[w] = NothingSeen,
         owned.stage = "abandoned" /\ owned.id = w => order'[w] = order[w]
  PROVE  CooledInv'
<1>1. IsLatest(w)
  BY DEF CooledInv
<1>2. \A id \in Ids : IsLatest(id)' <=> IsLatest(id)
  BY DEF IsLatest
<1>3. \A id \in Ids : id # w => (Spent(id)' <=> Spent(id))
  BY DEF Spent
<1>4. ASSUME NEW id \in Ids
      PROVE  /\ Sane(truth'[id])
             /\ order'[id] = "marked" => IsLatest(id)' /\ Indexed(id)'
             /\ ~IsLatest(id)' \/ ~Indexed(id)' => book'.episodes[id].closed # NoTime \/ Spent(id)'
             /\ ~IsLatest(id)' /\ book'.episodes[id].closed # NoTime
                  => clock' - book'.episodes[id].closed >= Cooldown
  <2>1. CASE id = w
    BY <1>1, <1>2, <2>1 DEF CooledInv
  <2>2. CASE id # w
    BY <1>2, <1>3, <2>2 DEF CooledInv
  <2> QED
    BY <2>1, <2>2
<1>5. Working' => IsLatest(w)' /\ entry'.id = w
  BY <1>1, <1>2
<1>6. ASSUME owned.stage = "observed" PROVE Seen(owned.id)'
  <2>1. owned.id \in Ids /\ Seen(owned.id) /\ owned.obs \in Observation
    BY <1>6 DEF CooledInv, TypeOK
  <2>2. CASE order'[owned.id] = order[owned.id]
    BY <2>1, <2>2 DEF Seen
  <2>3. CASE order'[owned.id] # order[owned.id]
    <3>1. /\ owned.id = w /\ order[w] \in {"none", "prepared"}
          /\ order'[w] = "posted" => truth[w] = NothingSeen
      BY <2>1, <2>3
    <3>2. owned.obs.filled = 0 /\ ~owned.obs.terminal
      BY <2>1, <3>1 DEF Seen
    <3>3. NothingSeen.filled = 0
      BY DEF NothingSeen
    <3> QED
      BY <2>1, <3>1, <3>2, <3>3 DEF Seen
  <2> QED
    BY <2>2, <2>3
<1>7. ASSUME owned.stage = "abandoned" PROVE order'[owned.id] \in {"none", "aborted"}
  <2>1. owned.id \in Ids /\ order[owned.id] \in {"none", "aborted"}
    BY <1>7 DEF CooledInv, TypeOK
  <2> QED
    BY <1>7, <2>1
<1>8. ASSUME owned.stage = "retired"
      PROVE  /\ IsLatest(owned.id)' /\ Indexed(owned.id)'
             /\ order'[owned.id] = "retired" /\ owned.obs = Flat
             /\ Working' => SymbolOf(entry'.id) # SymbolOf(owned.id)
  <2>1. /\ IsLatest(owned.id) /\ Indexed(owned.id) /\ owned.id \in Ids
        /\ order[owned.id] = "retired" /\ owned.obs = Flat
        /\ SymbolOf(entry.id) # SymbolOf(owned.id)
    BY <1>8 DEF CooledInv, TypeOK
  <2>2. PICK x \in Ids : x = owned.id
    BY <2>1
  <2>3. x # w /\ IsLatest(x)' /\ Indexed(x)' /\ order'[x] = "retired"
    BY <1>2, <2>1, <2>2
  <2> QED
    BY <2>1, <2>2, <2>3 DEF IsLatest, Indexed
<1> QED
  BY <1>4, <1>5, <1>6, <1>7, <1>8 DEF CooledInv, IsLatest, Indexed, Seen, Up

\* reconcile() stamps an episode closed on a settled observation with a fill, once.
LEMMA ObservedClosed ==
  ASSUME TypeOK, NEW id \in Ids, NEW obs \in Observation,
         NEW R, R = Reconciled(book, id, obs.filled, obs.exited, obs.terminal, obs.outstanding, clock)
  PROVE  /\ \A k \in Ids : k # id => R.episodes[k].closed = book.episodes[k].closed
         /\ R.episodes[id].closed = IF Settled(obs) /\ obs.filled > 0
                                       /\ book.episodes[id].closed = NoTime
                                    THEN clock ELSE book.episodes[id].closed
<1>1. \A k \in Ids : k # id => R.episodes[k] = book.episodes[k]
  BY ObservedFacts
<1>2. book.episodes[id] \in Episode /\ book \in Ledger
  BY LaneIds
<1>3. R.episodes[id] = ReconciledEpisode(book.episodes[id], obs.filled, obs.exited,
                                         obs.terminal, obs.outstanding, clock)
  BY <1>2 DEF Reconciled, Ledger
<1> QED
  BY <1>1, <1>2, <1>3 DEF ReconciledEpisode, Episode, Settled

\* A release stamps none.
LEMMA ReleaseClosed ==
  ASSUME TypeOK, NEW id \in Ids, NEW R, R = Release(book, id)
  PROVE  \A k \in Ids : R.episodes[k].closed = book.episodes[k].closed
<1>1. Flat.filled = 0 /\ Flat.exited = 0 /\ Flat.terminal = TRUE /\ Flat.outstanding = FALSE
  BY DEF Flat, NothingSeen
<1>2. R = Reconciled(book, id, Flat.filled, Flat.exited, Flat.terminal, Flat.outstanding, clock)
  BY <1>1 DEF Release
<1>3. ~(Flat.filled > 0)
  BY <1>1
<1> QED
  BY <1>2, <1>3, IdleTypes, ObservedClosed

\* A claim finds the index of its symbol empty, and the latest episode cooled if it closed.
LEMMA CooledOpened ==
  ASSUME TypeOK, OriginInv, ExposureInv, CooledInv, NEW sig \in Signals, ClaimOpened(sig)
  PROVE  CooledInv'
<1> DEFINE new == IdOfSignal(sig)
           key == KeyOfSignal(sig)
<1>1. sig \in Signal /\ ~Known(book, sig) /\ book' = Opened(book, sig) /\ book \in Ledger
      /\ ~Cooling(book, sig, clock) /\ book.active[sig.symbol] = {} /\ entry.stage = "idle" /\ Up
  BY IdleTypes, AdmissionConstants DEF ClaimOpened, MayAdmit, Opens, TypeOK
<1>2. /\ new \in Ids /\ KeyOf(new) = key /\ key \in Keys /\ sig.symbol \in Symbols
      /\ SymbolOf(new) = sig.symbol
  BY <1>1, SignalFacts, SignalId
<1>3. book.episodes[new].state = "absent"
  BY <1>1, OpenedSources
<1>4. /\ book'.latest = [book.latest EXCEPT ![key] = new]
      /\ book'.active = [book.active EXCEPT ![sig.symbol] = @ \cup {new}]
      /\ \A other \in Ids : other # new => book'.episodes[other] = book.episodes[other]
  BY <1>1, OpenedFacts
<1>5. /\ book.latest \in [Keys -> Ids \cup {NoId}] /\ book.active \in [Symbols -> SUBSET Ids]
      /\ clock \in Nat
  BY <1>1, LedgerFields DEF TypeOK
<1>6. /\ rows' = rows /\ owned' = owned /\ boot' = boot /\ order' = order /\ truth' = truth
      /\ clock' = clock /\ entry'.id = new /\ entry'.stage = "claiming"
  BY DEF ClaimOpened, At
<1>7. Prior(book, sig) = book.latest[key]
  <2>1. Overlapping(book, sig) = {}
    BY <1>1 DEF Overlapping
  <2> QED
    BY <2>1 DEF Prior
<1>8. order[new] = "none"
  BY <1>1, <1>2, <1>3 DEF OriginInv, ExposureInv
<1>9. \A id \in Ids : KeyOf(id) = key => SymbolOf(id) = sig.symbol
  BY DEF KeyOf, SymbolOf, KeyOfSignal
<1> HIDE DEF new, key
<1>10. \A id \in Ids : SymbolOf(id) = sig.symbol => ~Indexed(id)
  BY <1>1 DEF Indexed
<1>11. \A id \in Ids : id # new => (Indexed(id)' <=> Indexed(id))
  BY <1>2, <1>4, <1>5, IdFacts DEF Indexed
<1>12. \A id \in Ids : KeyOf(id) # key => (IsLatest(id)' <=> IsLatest(id))
  BY <1>2, <1>4, <1>5, IdFacts DEF IsLatest
<1>13. IsLatest(new)' /\ Indexed(new)'
  BY <1>2, <1>4, <1>5 DEF IsLatest, Indexed
<1>14. \A id \in Ids : Spent(id)' <=> Spent(id)
  BY <1>6 DEF Spent
<1>15. ASSUME NEW id \in Ids
       PROVE  /\ Sane(truth'[id])
              /\ order'[id] = "marked" => IsLatest(id)' /\ Indexed(id)'
              /\ ~IsLatest(id)' \/ ~Indexed(id)' => book'.episodes[id].closed # NoTime \/ Spent(id)'
              /\ ~IsLatest(id)' /\ book'.episodes[id].closed # NoTime
                   => clock' - book'.episodes[id].closed >= Cooldown
  <2>0. Sane(truth'[id])
    BY <1>6 DEF CooledInv
  <2>1. CASE id = new
    BY <1>6, <1>8, <1>13, <2>0, <2>1
  <2>2. CASE id # new /\ KeyOf(id) # key
    <3>1. /\ IsLatest(id)' <=> IsLatest(id)
          /\ Indexed(id)' <=> Indexed(id)
          /\ book'.episodes[id] = book.episodes[id]
      BY <1>4, <1>11, <1>12, <2>2
    <3> QED
      BY <1>6, <1>14, <2>0, <3>1 DEF CooledInv
  <2>3. CASE id # new /\ KeyOf(id) = key
    <3>1. ~Indexed(id) /\ book'.episodes[id] = book.episodes[id]
      BY <1>4, <1>9, <1>10, <2>3
    <3>2. order[id] # "marked" /\ (book.episodes[id].closed # NoTime \/ Spent(id))
      BY <3>1 DEF CooledInv
    <3>3. ASSUME book.episodes[id].closed # NoTime
          PROVE  clock - book.episodes[id].closed >= Cooldown
      <4>1. CASE IsLatest(id)
        <5>1. Prior(book, sig) = id
          BY <1>7, <2>3, <4>1 DEF IsLatest
        <5>2. ~(clock - book.episodes[id].closed < Cooldown)
          BY <1>1, <3>3, <5>1, LedgerConstants DEF Cooling
        <5>3. book.episodes[id].closed \in Int /\ Cooldown \in Int
          BY LaneIds, LedgerConstants DEF Episode, Times, NoTime
        <5>4. PICK c \in Int : c = book.episodes[id].closed
          BY <5>3
        <5> QED
          BY <1>5, <5>2, <5>3, <5>4
      <4>2. CASE ~IsLatest(id)
        BY <3>3, <4>2 DEF CooledInv
      <4> QED
        BY <4>1, <4>2
    <3> QED
      BY <1>6, <1>14, <2>0, <3>1, <3>2, <3>3
  <2> QED
    BY <2>1, <2>2, <2>3
<1>16. owned.stage = "retired" =>
         /\ IsLatest(owned.id)' /\ Indexed(owned.id)'
         /\ order'[owned.id] = "retired" /\ owned.obs = Flat
         /\ SymbolOf(new) # SymbolOf(owned.id)
  <2>1. SUFFICES ASSUME owned.stage = "retired"
                 PROVE  /\ IsLatest(owned.id)' /\ Indexed(owned.id)'
                        /\ order'[owned.id] = "retired" /\ owned.obs = Flat
                        /\ SymbolOf(new) # SymbolOf(owned.id)
    OBVIOUS
  <2>2. PICK x \in Ids : x = owned.id
    BY <2>1 DEF TypeOK
  <2>3. IsLatest(x) /\ Indexed(x) /\ order[x] = "retired" /\ owned.obs = Flat
    BY <2>1, <2>2 DEF CooledInv
  <2>4. SymbolOf(x) # sig.symbol /\ x # new /\ KeyOf(x) # key
    BY <1>2, <1>9, <1>10, <2>3
  <2>5. IsLatest(x)' /\ Indexed(x)'
    BY <1>11, <1>12, <2>3, <2>4
  <2> QED
    BY <1>2, <1>6, <2>2, <2>3, <2>4, <2>5 DEF IsLatest, Indexed
<1>17. /\ owned.stage = "observed" => Seen(owned.id)'
       /\ owned.stage = "abandoned" => order'[owned.id] \in {"none", "aborted"}
  BY <1>6 DEF CooledInv, Seen
<1> QED
  BY <1>1, <1>6, <1>13, <1>15, <1>16, <1>17 DEF CooledInv, IsLatest, Indexed, Seen, Up

\* Every step of the entry lane keeps earlier episodes cooled or spent.
LEMMA CooledEntry ==
  TypeOK /\ TypeOK' /\ OriginInv /\ ExposureInv /\ CooledInv /\ EntryLane => CooledInv'
<1> SUFFICES ASSUME TypeOK, TypeOK', OriginInv, ExposureInv, CooledInv, EntryLane
             PROVE  CooledInv'
  OBVIOUS
<1>t. /\ book \in Ledger /\ book.episodes \in [Ids -> Episode] /\ order \in [Ids -> OrderStates]
      /\ entry.stage # "idle" => entry.id \in Ids
      /\ owned.stage # "idle" => owned.id \in Ids
      /\ entry.stage \in EntryStages
  BY LaneIds DEF TypeOK
<1>s. StageInv
  BY DEF ExposureInv
<1>n. \A id \in Ids : order[id] # "posted" => truth[id] = NothingSeen
  BY DEF ExposureInv
<1>1. ASSUME NEW sig \in Signals, ClaimKnown(sig) PROVE CooledInv'
  <2>1. /\ book' = book /\ order' = order /\ truth' = truth /\ clock' = clock /\ boot' = boot
        /\ owned' = owned /\ ~Working'
    BY <1>1 DEF ClaimKnown, At, Working
  <2> QED
    BY <1>t, <2>1, CooledSame DEF Indexed
<1>2. ASSUME NEW sig \in Signals, ClaimMerged(sig) PROVE CooledInv'
  <2>1. /\ book' = Merged(book, sig) /\ order' = order /\ truth' = truth /\ clock' = clock
        /\ boot' = boot /\ owned' = owned /\ ~Working' /\ SameMove(book, sig) /\ sig \in Signal
    BY <1>2, AdmissionConstants DEF ClaimMerged, At, Working, Merges
  <2> DEFINE p == Prior(book, sig)
  <2>2. /\ p \in Ids /\ book'.latest = book.latest /\ book'.active = book.active
        /\ \A other \in Ids : other # p => book'.episodes[other] = book.episodes[other]
    BY <1>t, <2>1, MergedFacts
  <2>3. book.episodes[p] \in Episode
    BY <1>t, <2>2
  <2>4. book'.episodes[p].closed = book.episodes[p].closed
    BY <1>t, <2>1, <2>2, <2>3 DEF Merged, Ledger, Episode
  <2> HIDE DEF p
  <2>5. \A id \in Ids : /\ Indexed(id)' <=> Indexed(id)
                        /\ book'.episodes[id].closed = book.episodes[id].closed
    BY <2>2, <2>4 DEF Indexed
  <2> QED
    BY <1>t, <2>1, <2>2, <2>5, CooledSame
<1>3. ASSUME NEW sig \in Signals, ClaimOpened(sig) PROVE CooledInv'
  BY <1>3, CooledOpened
<1>4. CASE DurableClaim \/ CommitSubmitting \/ RecordRoute \/ SubmitFailed \/ EntrySave
  <2>1. /\ book' = book /\ order' = order /\ truth' = truth /\ clock' = clock /\ boot' = boot
        /\ owned' = owned
    BY <1>4 DEF DurableClaim, CommitSubmitting, RecordRoute, SubmitFailed, EntrySave
  <2>2. Working' => Working /\ entry'.id = entry.id
    BY <1>4, <1>t, IdleTypes DEF DurableClaim, CommitSubmitting, RecordRoute, SubmitFailed,
       EntrySave, Working, At, EntryStages, TypeOK
  <2> QED
    BY <1>t, <2>1, <2>2, CooledSame DEF Indexed
<1>5. CASE QuoteExpired \/ SettleRefusal
  <2>1. PICK w \in Ids : w = entry.id /\ entry.stage \in {"quoting", "settling"}
    BY <1>5, <1>t DEF QuoteExpired, SettleRefusal
  <2>2. /\ book' = Release(book, w) /\ ~Working' /\ Working
        /\ order' = order /\ truth' = truth /\ clock' = clock /\ boot' = boot /\ owned' = owned
    BY <1>5, <2>1 DEF QuoteExpired, SettleRefusal, At, Working, EntryStages
  <2>3. order[w] \in {"none", "aborted"}
    BY <1>s, <2>1 DEF StageInv
  <2>4. /\ book'.latest = book.latest
        /\ \A id \in Ids : id # w =>
             (id \in book'.active[SymbolOf(id)] <=> id \in book.active[SymbolOf(id)])
    BY <2>2, ReleaseFacts
  <2>5. \A id \in Ids : book'.episodes[id].closed = book.episodes[id].closed
    BY <2>2, ReleaseClosed
  <2>6. Spent(w)' /\ order'[w] # "marked" /\ order'[w] = order[w]
    BY <2>2, <2>3 DEF Spent
  <2>7. \A id \in Ids : /\ id # w => (Indexed(id)' <=> Indexed(id)) /\ order'[id] = order[id]
                        /\ book'.episodes[id].closed = book.episodes[id].closed
    BY <2>2, <2>4, <2>5 DEF Indexed
  <2> QED
    BY <2>1, <2>2, <2>4, <2>6, <2>7, CooledWork
<1>6. CASE PrepareOrder
  <2>1. PICK w \in Ids : w = entry.id /\ entry.stage = "quoting"
    BY <1>6, <1>t DEF PrepareOrder
  <2>2. /\ book' = book /\ truth' = truth /\ clock' = clock /\ boot' = boot /\ owned' = owned
        /\ Working /\ (Working' => entry'.id = entry.id)
    BY <1>6, <2>1, IdleTypes DEF PrepareOrder, Working, EntryStages, TypeOK
  <2>3. CASE order' = order
    BY <1>t, <2>2, <2>3, CooledSame DEF Indexed
  <2>4. CASE order' = [order EXCEPT ![w] = "prepared"] /\ Unsent(w) /\ order[w] = "none"
    <3>1. order'[w] = "prepared" /\ \A id \in Ids : id # w => order'[id] = order[id]
      BY <1>t, <2>4
    <3>2. ~(owned.stage = "abandoned" /\ owned.id = w)
      BY <1>s, <2>1, <2>4 DEF StageInv, Untouched, Away, Abandoned
    <3>3. Spent(w)'
      BY <3>1 DEF Spent
    <3>4. \A id \in Ids : /\ id # w => (Indexed(id)' <=> Indexed(id)) /\ order'[id] = order[id]
                          /\ book'.episodes[id].closed = book.episodes[id].closed
      BY <2>2, <3>1 DEF Indexed
    <3> QED
      BY <2>1, <2>2, <2>4, <3>1, <3>2, <3>3, <3>4, CooledWork
  <2> QED
    BY <1>6, <2>1, <2>3, <2>4 DEF PrepareOrder, Unsent
<1>7. CASE BeginSubmit
  <2>1. PICK w \in Ids : w = entry.id /\ entry.stage = "prepared"
    BY <1>7, <1>t DEF BeginSubmit
  <2>2. /\ book' = Submitted(book, w, clock) /\ clock \in Nat /\ order' = order /\ truth' = truth
        /\ clock' = clock /\ boot' = boot /\ owned' = owned
        /\ Working /\ entry'.id = entry.id
    BY <1>7, <2>1 DEF BeginSubmit, At, Working, EntryStages, TypeOK
  <2>3. /\ book'.latest = book.latest /\ book'.active = book.active
        /\ \A other \in Ids : other # w => book'.episodes[other] = book.episodes[other]
    BY <1>t, <2>2, SubmittedFacts
  <2>4. book.episodes[w] \in Episode
    BY <1>t
  <2>5. book'.episodes[w].closed = book.episodes[w].closed
    BY <1>t, <2>2, <2>4 DEF Submitted, Ledger, Episode
  <2>6. \A id \in Ids : /\ Indexed(id)' <=> Indexed(id)
                        /\ book'.episodes[id].closed = book.episodes[id].closed
    BY <2>3, <2>5 DEF Indexed
  <2> QED
    BY <1>t, <2>2, <2>3, <2>6, CooledSame
<1>8. CASE RepriceConflict
  <2>1. PICK w \in Ids : w = entry.id /\ entry.stage \in {"prepared", "submitting"}
    BY <1>8, <1>t DEF RepriceConflict
  <2>2. /\ truth' = truth /\ clock' = clock /\ boot' = boot /\ owned' = owned
        /\ Working /\ ~Working'
    BY <1>8, <2>1, IdleTypes DEF RepriceConflict, Working, EntryStages
  <2>3. CASE book' = book /\ order' = order
    BY <1>t, <2>2, <2>3, CooledSame DEF Indexed
  <2>4. CASE /\ order[w] = "prepared" /\ order' = [order EXCEPT ![w] = "marked"]
             /\ book' = [book EXCEPT !.episodes[w] = AsCancelRequested(@)]
    <3>1. order'[w] = "marked" /\ \A id \in Ids : id # w => order'[id] = order[id]
      BY <1>t, <2>4
    <3>2. /\ book'.latest = book.latest /\ book'.active = book.active
          /\ book'.episodes = [book.episodes EXCEPT ![w] = AsCancelRequested(@)]
      BY <1>t, <2>4 DEF Ledger
    <3>3. \A e \in Episode : AsCancelRequested(e).closed = e.closed
      BY DEF AsCancelRequested, Episode
    <3>4. Indexed(w)
      BY <1>s, <2>1, <2>4 DEF StageInv, Untouched, Kept
    <3>5. \A id \in Ids : /\ Indexed(id)' <=> Indexed(id)
                          /\ book'.episodes[id].closed = book.episodes[id].closed
      BY <1>t, <3>2, <3>3 DEF Indexed
    <3>6. ~(owned.stage = "abandoned" /\ owned.id = w)
      BY <2>4 DEF CooledInv
    <3>7. \A id \in Ids : /\ id # w => (Indexed(id)' <=> Indexed(id)) /\ order'[id] = order[id]
                          /\ book'.episodes[id].closed = book.episodes[id].closed
      BY <3>1, <3>5
    <3>8. Indexed(w)'
      BY <3>4, <3>5
    <3> QED
      BY <2>1, <2>2, <2>4, <3>1, <3>2, <3>6, <3>7, <3>8, CooledWork
  <2> QED
    BY <1>8, <2>1, <2>3, <2>4 DEF RepriceConflict
<1>9. CASE RefuseBeforeWire
  <2>1. PICK w \in Ids : w = entry.id /\ entry.stage \in {"prepared", "submitting", "sent"}
    BY <1>9, <1>t DEF RefuseBeforeWire
  <2>2. /\ book' = book /\ truth' = truth /\ clock' = clock /\ boot' = boot /\ owned' = owned
        /\ Working /\ (Working' => entry'.id = entry.id)
    BY <1>9, <2>1, IdleTypes DEF RefuseBeforeWire, Working, EntryStages, TypeOK
  <2>3. CASE order' = order
    BY <1>t, <2>2, <2>3, CooledSame DEF Indexed
  <2>4. CASE order[w] = "prepared" /\ order' = [order EXCEPT ![w] = "aborted"]
    <3>1. order'[w] = "aborted" /\ \A id \in Ids : id # w => order'[id] = order[id]
      BY <1>t, <2>4
    <3>2. ~(owned.stage = "abandoned" /\ owned.id = w)
      BY <2>4 DEF CooledInv
    <3>3. Spent(w)'
      BY <3>1 DEF Spent
    <3>4. \A id \in Ids : /\ id # w => (Indexed(id)' <=> Indexed(id)) /\ order'[id] = order[id]
                          /\ book'.episodes[id].closed = book.episodes[id].closed
      BY <2>2, <3>1 DEF Indexed
    <3> QED
      BY <2>1, <2>2, <2>4, <3>1, <3>2, <3>3, <3>4, CooledWork
  <2> QED
    BY <1>9, <2>1, <2>3, <2>4 DEF RefuseBeforeWire
<1>10. CASE Dispatch
  <2>1. PICK w \in Ids : w = entry.id /\ entry.stage = "sent" /\ order[w] = "prepared"
    BY <1>10, <1>t DEF Dispatch
  <2>2. /\ book' = book /\ truth' = truth /\ clock' = clock /\ boot' = boot /\ owned' = owned
        /\ Working /\ entry' = entry /\ order' = [order EXCEPT ![w] = "posted"]
    BY <1>10, <2>1 DEF Dispatch, Working, EntryStages
  <2>3. order'[w] = "posted" /\ \A id \in Ids : id # w => order'[id] = order[id]
    BY <1>t, <2>2
  <2>4. Indexed(w)' /\ truth[w] = NothingSeen
    BY <1>s, <1>n, <2>1, <2>2 DEF StageInv, Kept, Indexed
  <2>5. ~(owned.stage = "abandoned" /\ owned.id = w)
    BY <2>1 DEF CooledInv
  <2>6. \A id \in Ids : /\ id # w => (Indexed(id)' <=> Indexed(id)) /\ order'[id] = order[id]
                        /\ book'.episodes[id].closed = book.episodes[id].closed
    BY <2>2, <2>3 DEF Indexed
  <2> QED
    BY <2>1, <2>2, <2>3, <2>4, <2>5, <2>6, CooledWork
<1> QED
  BY <1>1, <1>2, <1>3, <1>4, <1>5, <1>6, <1>7, <1>8, <1>9, <1>10 DEF EntryLane

\* A step of the owned lane on one episode: what is left to show is that episode and the
\* stage the lane goes to.
LEMMA CooledOwn ==
  ASSUME CooledInv, TypeOK, NEW w \in Ids,
         entry' = entry, boot' = boot, truth' = truth, clock' = clock,
         book'.latest = book.latest,
         \A id \in Ids : id # w => /\ Indexed(id)' <=> Indexed(id)
                                   /\ order'[id] = order[id]
                                   /\ book'.episodes[id].closed = book.episodes[id].closed,
         order'[w] = "marked" => order[w] = "marked" /\ Indexed(w)',
         ~IsLatest(w) \/ ~Indexed(w)' => book'.episodes[w].closed # NoTime \/ Spent(w)',
         ~IsLatest(w) => book'.episodes[w].closed = book.episodes[w].closed,
         owned'.stage = "observed" => Seen(owned.id)',
         owned'.stage = "abandoned" => order'[owned'.id] \in {"none", "aborted"},
         owned'.stage = "retired" =>
           /\ owned'.id = w /\ IsLatest(w) /\ Indexed(w)' /\ order'[w] = "retired"
           /\ owned'.obs = Flat
           /\ Working => SymbolOf(entry.id) # SymbolOf(w)
  PROVE  CooledInv'
<1>1. \A id \in Ids : IsLatest(id)' <=> IsLatest(id)
  BY DEF IsLatest
<1>2. \A id \in Ids : id # w => (Spent(id)' <=> Spent(id))
  BY DEF Spent
<1>3. ASSUME NEW id \in Ids
      PROVE  /\ Sane(truth'[id])
             /\ order'[id] = "marked" => IsLatest(id)' /\ Indexed(id)'
             /\ ~IsLatest(id)' \/ ~Indexed(id)' => book'.episodes[id].closed # NoTime \/ Spent(id)'
             /\ ~IsLatest(id)' /\ book'.episodes[id].closed # NoTime
                  => clock' - book'.episodes[id].closed >= Cooldown
  <2>1. CASE id = w
    BY <1>1, <2>1 DEF CooledInv
  <2>2. CASE id # w
    BY <1>1, <1>2, <2>2 DEF CooledInv
  <2> QED
    BY <2>1, <2>2
<1>4. Working' => IsLatest(entry.id)'
  <2>1. SUFFICES ASSUME Working PROVE IsLatest(entry.id)'
    BY DEF Working
  <2> QED
    BY <2>1 DEF CooledInv, IsLatest
<1>5. owned'.stage = "retired" => IsLatest(w)' /\ Indexed(w)' /\ owned'.id = w
  BY <1>1
<1> QED
  BY <1>3, <1>4, <1>5 DEF CooledInv, IsLatest, Indexed, Seen, Up, Working

\* What was posted is over only when the broker says so, and an observation that settles the
\* episode without a fill leaves it spent.
LEMMA SettledSpent ==
  ASSUME TypeOK, NEW w \in Ids, Seen(w), Sane(truth[w]), Settled(owned.obs), owned.obs.filled = 0
  PROVE  Spent(w)
<1>1. owned.obs.terminal
  BY DEF Settled
<1>2. order[w] \in {"posted", "aborted", "retired"}
  BY <1>1 DEF Seen
<1>3. ASSUME order[w] = "posted" PROVE Settled(truth[w]) /\ truth[w].filled = 0
  <2>1. truth[w].terminal /\ truth[w].filled = 0
    BY <1>1, <1>3 DEF Seen
  <2>2. /\ truth[w].exited \in Nat /\ truth[w].filled \in Nat /\ truth[w].outstanding \in BOOLEAN
    BY DEF TypeOK, Observation
  <2>3. truth[w].exited = 0 /\ ~truth[w].outstanding
    BY <2>1, <2>2 DEF Sane
  <2> QED
    BY <2>1, <2>3 DEF Settled
<1> QED
  BY <1>2, <1>3 DEF Spent

\* Every step of the owned lane keeps earlier episodes cooled or spent.
LEMMA CooledOwned ==
  TypeOK /\ TypeOK' /\ IndexAgrees /\ ExposureInv /\ CooledInv /\ OwnedLane => CooledInv'
<1> SUFFICES ASSUME TypeOK, TypeOK', IndexAgrees, ExposureInv, CooledInv, OwnedLane
             PROVE  CooledInv'
  OBVIOUS
<1>t. /\ book \in Ledger /\ book.episodes \in [Ids -> Episode] /\ order \in [Ids -> OrderStates]
      /\ truth \in [Ids -> Observation] /\ clock \in Nat
      /\ entry.stage # "idle" => entry.id \in Ids
      /\ owned.stage # "idle" => owned.id \in Ids
      /\ owned.obs \in Observation
  BY LaneIds DEF TypeOK
<1>n. \A id \in Ids : order[id] # "posted" => truth[id] = NothingSeen
  BY DEF ExposureInv
<1>c. \A id \in Ids : /\ order[id] = "marked" => IsLatest(id) /\ Indexed(id)
                      /\ ~IsLatest(id) \/ ~Indexed(id) => book.episodes[id].closed # NoTime \/ Spent(id)
  BY DEF CooledInv
<1>f. Flat.filled = 0 /\ NothingSeen.filled = 0 /\ ~NothingSeen.terminal
  BY DEF Flat, NothingSeen
<1>1. ASSUME NEW w \in Ids, Observe(w) PROVE CooledInv'
  <2>1. /\ book' = book /\ order' = order /\ truth' = truth /\ clock' = clock /\ boot' = boot
        /\ entry' = entry /\ owned'.stage = "observed" /\ owned'.id = w
        /\ owned'.obs = IF order[w] \in {"aborted", "retired"} THEN Flat ELSE truth[w]
    BY <1>1 DEF Observe
  <2>2. truth[w].filled \in Nat
    BY <1>t DEF Observation
  <2>3. Seen(owned.id)'
    <3>1. CASE order[w] \in {"aborted", "retired"}
      BY <1>f, <2>1, <3>1 DEF Seen
    <3>2. CASE order[w] = "posted"
      BY <2>1, <2>2, <3>2 DEF Seen
    <3>3. CASE order[w] \notin {"aborted", "retired", "posted"}
      BY <1>n, <1>f, <2>1, <3>3 DEF Seen
    <3> QED
      BY <3>1, <3>2, <3>3
  <2>4. \A id \in Ids : Indexed(id)' <=> Indexed(id)
    BY <2>1 DEF Indexed
  <2>5. ~IsLatest(w) \/ ~Indexed(w)' => book'.episodes[w].closed # NoTime \/ Spent(w)'
    BY <1>c, <2>1, <2>4 DEF Spent
  <2> QED
    BY <1>c, <2>1, <2>3, <2>4, <2>5, CooledOwn
<1>2. ASSUME NEW w \in Ids, RetireCommit(w) PROVE CooledInv'
  <2>1. /\ book' = book /\ truth' = truth /\ clock' = clock /\ boot' = boot
        /\ entry' = entry /\ owned'.stage = "retired" /\ owned'.id = w /\ owned'.obs = Flat
        /\ order[w] = "marked" /\ order' = [order EXCEPT ![w] = "retired"]
        /\ entry.id \in Ids => SymbolOf(entry.id) # SymbolOf(w)
    BY <1>2 DEF RetireCommit, Resting
  <2>2. order'[w] = "retired" /\ \A id \in Ids : id # w => order'[id] = order[id]
    BY <1>t, <2>1
  <2>3. IsLatest(w) /\ Indexed(w) /\ \A id \in Ids : Indexed(id)' <=> Indexed(id)
    BY <1>c, <2>1 DEF Indexed
  <2>4. Working => SymbolOf(entry.id) # SymbolOf(w)
    BY <1>t, <2>1 DEF Working
  <2> QED
    BY <2>1, <2>2, <2>3, <2>4, CooledOwn
<1>3. ASSUME NEW w \in Ids, AbandonCommit(w) PROVE CooledInv'
  <2>1. /\ book' = book /\ truth' = truth /\ clock' = clock /\ boot' = boot
        /\ entry' = entry /\ owned'.stage = "abandoned" /\ owned'.id = w
        /\ order[w] \in {"none", "prepared"}
        /\ order' = [order EXCEPT ![w] = IF @ = "prepared" THEN "aborted" ELSE @]
    BY <1>3 DEF AbandonCommit, Resting
  <2>2. order'[w] \in {"none", "aborted"} /\ \A id \in Ids : id # w => order'[id] = order[id]
    BY <1>t, <2>1
  <2>3. \A id \in Ids : Indexed(id)' <=> Indexed(id)
    BY <2>1 DEF Indexed
  <2>4. Spent(w)'
    BY <2>2 DEF Spent
  <2> QED
    BY <2>1, <2>2, <2>3, <2>4, CooledOwn
<1>4. CASE RetireSettle
  <2>1. PICK w \in Ids : w = owned.id /\ owned.stage = "retired"
    BY <1>4, <1>t DEF RetireSettle
  <2> DEFINE L == Release(book, w)
  <2>2. /\ book' = [L EXCEPT !.episodes[w].closed = rows[w].closed] /\ owned' = [owned EXCEPT !.stage = "observed"]
        /\ order' = order /\ truth' = truth /\ clock' = clock /\ boot' = boot /\ entry' = entry
    BY <1>4, <2>1 DEF RetireSettle
  <2>3. L \in Ledger
    BY <1>t, ReleaseType
  <2>4. /\ L.latest = book.latest
        /\ \A id \in Ids : id # w =>
             (id \in L.active[SymbolOf(id)] <=> id \in book.active[SymbolOf(id)])
    BY ReleaseFacts
  <2>5. \A id \in Ids : L.episodes[id].closed = book.episodes[id].closed
    BY ReleaseClosed
  <2>6. /\ IsLatest(w) /\ order[w] = "retired" /\ owned.obs = Flat
    BY <2>1 DEF CooledInv
  <2> HIDE DEF L
  <2>7. /\ book'.latest = L.latest /\ book'.active = L.active
        /\ book'.episodes = [L.episodes EXCEPT ![w].closed = rows[w].closed]
    BY <2>2, <2>3 DEF Ledger
  <2>8. \A id \in Ids : id # w => book'.episodes[id] = L.episodes[id]
    BY <2>3, <2>7, LedgerFields
  <2>9. \A id \in Ids : id # w => /\ Indexed(id)' <=> Indexed(id)
                                  /\ order'[id] = order[id]
                                  /\ book'.episodes[id].closed = book.episodes[id].closed
    BY <2>2, <2>4, <2>5, <2>7, <2>8 DEF Indexed
  <2>10. Spent(w)' /\ order'[w] = "retired"
    BY <2>2, <2>6 DEF Spent
  <2>11. owned'.stage = "observed" /\ owned'.id = w /\ owned'.obs = Flat
    BY <2>1, <2>2, <2>6 DEF TypeOK
  <2>12. Seen(owned.id)'
    BY <1>f, <2>10, <2>11 DEF Seen
  <2> QED
    BY <2>2, <2>4, <2>6, <2>7, <2>9, <2>10, <2>11, <2>12, CooledOwn
<1>5. CASE Reconcile
  <2>1. PICK w \in Ids : w = owned.id /\ owned.stage = "observed"
    BY <1>5, <1>t DEF Reconcile
  <2> DEFINE e == book.episodes[w]
             obs == owned.obs
  <2>2. /\ book' = Reconciled(book, w, obs.filled, obs.exited, obs.terminal, obs.outstanding, clock)
        /\ owned'.stage = "saving" /\ obs.exited <= obs.filled
        /\ order' = order /\ truth' = truth /\ clock' = clock /\ boot' = boot /\ entry' = entry
    BY <1>5, <2>1 DEF Reconcile, TypeOK, Reconcilable
  <2>3. /\ book'.latest = book.latest
        /\ \A id \in Ids : id # w =>
             (id \in book'.active[SymbolOf(id)] <=> id \in book.active[SymbolOf(id)])
        /\ book'.episodes[w].state = ReconciledState(e, obs.filled, obs.exited, obs.terminal, obs.outstanding)
        /\ book'.episodes[w].state \in ActiveStates <=> w \in book'.active[SymbolOf(w)]
    BY <1>t, <2>2, ObservedFacts
  <2>4. /\ \A k \in Ids : k # w => book'.episodes[k].closed = book.episodes[k].closed
        /\ book'.episodes[w].closed = IF Settled(obs) /\ obs.filled > 0 /\ e.closed = NoTime
                                      THEN clock ELSE e.closed
    BY <1>t, <2>2, ObservedClosed
  <2>5. Seen(w) /\ Sane(truth[w])
    BY <2>1 DEF CooledInv
  <2>6. obs.filled \in Nat /\ obs.exited \in Nat /\ obs.terminal \in BOOLEAN /\ obs.outstanding \in BOOLEAN
    BY <1>t DEF Observation
  <2>7. e \in Episode
    BY <1>t
  <2>8. Spent(w)' <=> Spent(w)
    BY <2>2 DEF Spent
  <2>9. \A id \in Ids : id # w => /\ Indexed(id)' <=> Indexed(id)
                                  /\ order'[id] = order[id]
                                  /\ book'.episodes[id].closed = book.episodes[id].closed
    BY <2>2, <2>3, <2>4 DEF Indexed
  <2>10. Spent(w) => obs.filled = 0
    <3>1. CASE order[w] = "posted"
      BY <2>5, <2>6, <3>1 DEF Seen, Spent
    <3>2. CASE order[w] # "posted"
      BY <2>5, <3>2 DEF Seen
    <3> QED
      BY <3>1, <3>2
  <2>11. ~IsLatest(w) => book'.episodes[w].closed = e.closed
    BY <1>c, <2>4, <2>6, <2>10
  <2>12. order[w] = "marked" => Indexed(w)'
    <3>1. SUFFICES ASSUME order[w] = "marked" PROVE Indexed(w)'
      OBVIOUS
    <3>2. ~obs.terminal
      BY <2>5, <3>1 DEF Seen
    <3>3. ReconciledState(e, obs.filled, obs.exited, obs.terminal, obs.outstanding) \in ActiveStates
      BY <3>2 DEF ReconciledState, ActiveStates
    <3> QED
      BY <2>3, <3>3 DEF Indexed
  <2>13. ~IsLatest(w) \/ ~Indexed(w)' => book'.episodes[w].closed # NoTime \/ Spent(w)'
    <3>1. SUFFICES ASSUME ~IsLatest(w) \/ ~Indexed(w)', book'.episodes[w].closed = NoTime
                   PROVE  Spent(w)
      BY <2>8
    <3>2. e.closed = NoTime /\ ~(Settled(obs) /\ obs.filled > 0)
      <4>1. clock # NoTime
        BY <1>t DEF NoTime
      <4> QED
        BY <2>4, <3>1, <4>1
    <3>3. CASE ~IsLatest(w) \/ ~Indexed(w)
      BY <1>c, <3>2, <3>3
    <3>4. CASE IsLatest(w) /\ Indexed(w)
      <4>1. ~Indexed(w)'
        BY <3>1, <3>4
      <4>2. book'.episodes[w].state \notin ActiveStates
        BY <2>3, <4>1 DEF Indexed
      <4>3. e.state \in ActiveStates
        BY <3>4, IdFacts DEF Indexed, IndexAgrees, LedgerAgrees, ActiveOn, ActiveIds
      <4>4. Settled(obs)
        BY <1>t, <2>3, <2>7, <4>2, <4>3, ReconciledStateFacts
      <4>5. obs.filled = 0
        BY <2>6, <3>2, <4>4
      <4> QED
        BY <2>5, <4>4, <4>5, SettledSpent
    <3> QED
      BY <3>3, <3>4
  <2>14. order'[w] = "marked" => order[w] = "marked" /\ Indexed(w)'
    BY <2>2, <2>12
  <2>15. /\ owned'.stage # "observed" /\ owned'.stage # "abandoned" /\ owned'.stage # "retired"
    BY <2>2
  <2> HIDE DEF e, obs
  <2> QED
    BY <2>2, <2>3, <2>9, <2>11, <2>13, <2>14, <2>15, CooledOwn DEF e
<1>6. CASE OwnedSave \/ CancelEntry
  <2>1. PICK w \in Ids : w = owned.id
    BY <1>6, <1>t DEF OwnedSave, CancelEntry
  <2>2. /\ order' = order /\ truth' = truth /\ clock' = clock /\ boot' = boot /\ entry' = entry
        /\ owned'.stage \notin {"observed", "abandoned", "retired"}
        /\ book' = book \/ book' = CancelRequested(book, w)
    BY <1>6, <2>1, IdleTypes DEF OwnedSave, CancelEntry, TypeOK
  <2>3. /\ book'.latest = book.latest
        /\ \A id \in Ids : /\ Indexed(id)' <=> Indexed(id)
                           /\ book'.episodes[id].closed = book.episodes[id].closed
    <3>1. CASE book' = book
      BY <3>1 DEF Indexed
    <3>2. CASE book' = CancelRequested(book, w)
      <4>1. /\ book'.active = book.active /\ book'.latest = book.latest
            /\ \A other \in Ids : other # w => book'.episodes[other] = book.episodes[other]
        BY <1>t, <3>2, CancelFacts
      <4>2. book.episodes[w] \in Episode
        BY <1>t
      <4>3. book'.episodes[w].closed = book.episodes[w].closed
        BY <1>t, <3>2, <4>2 DEF CancelRequested, Ledger, Episode
      <4> QED
        BY <4>1, <4>3 DEF Indexed
    <3> QED
      BY <2>2, <3>1, <3>2
  <2> QED
    BY <1>t, <2>2, <2>3, CooledSame DEF Working
<1>7. CASE AbandonSettle
  <2>1. PICK w \in Ids : w = owned.id /\ owned.stage = "abandoned"
    BY <1>7, <1>t DEF AbandonSettle
  <2>2. /\ book' = Release(book, w) /\ owned'.stage = "closing"
        /\ order' = order /\ truth' = truth /\ clock' = clock /\ boot' = boot /\ entry' = entry
    BY <1>7, <2>1 DEF AbandonSettle, TypeOK
  <2>3. order[w] \in {"none", "aborted"}
    BY <2>1 DEF CooledInv
  <2>4. /\ book'.latest = book.latest
        /\ \A id \in Ids : id # w =>
             (id \in book'.active[SymbolOf(id)] <=> id \in book.active[SymbolOf(id)])
    BY <2>2, ReleaseFacts
  <2>5. \A id \in Ids : book'.episodes[id].closed = book.episodes[id].closed
    BY <2>2, ReleaseClosed
  <2>6. Spent(w)' /\ order'[w] # "marked"
    BY <2>2, <2>3 DEF Spent
  <2>7. \A id \in Ids : id # w => /\ Indexed(id)' <=> Indexed(id)
                                  /\ order'[id] = order[id]
                                  /\ book'.episodes[id].closed = book.episodes[id].closed
    BY <2>2, <2>4, <2>5 DEF Indexed
  <2> QED
    BY <2>2, <2>4, <2>5, <2>6, <2>7, CooledOwn
<1> QED
  BY <1>1, <1>2, <1>3, <1>4, <1>5, <1>6, <1>7 DEF OwnedLane

\* Reports, the operator and time keep earlier episodes cooled or spent.
LEMMA CooledEnvironment ==
  TypeOK /\ CooledInv /\ Environment /\ ~Restart => CooledInv'
<1> SUFFICES ASSUME TypeOK, CooledInv, Environment, ~Restart PROVE CooledInv'
  OBVIOUS
<1>t. /\ owned.stage # "idle" => owned.id \in Ids
      /\ truth \in [Ids -> Observation] /\ owned.obs \in Observation /\ clock \in Nat
  BY LaneIds DEF TypeOK
<1>1. ASSUME NEW w \in Ids, BrokerReport(w) PROVE CooledInv'
  <2>1. /\ order[w] = "posted" /\ ~Settled(truth[w])
        /\ book' = book /\ order' = order /\ entry' = entry /\ owned' = owned /\ boot' = boot
        /\ clock' = clock
    BY <1>1 DEF BrokerReport
  <2>2. PICK filled \in truth[w].filled .. MaxQty, terminal \in BOOLEAN, outstanding \in BOOLEAN :
          \E exited \in truth[w].exited .. filled :
            /\ truth[w].terminal => terminal /\ filled = truth[w].filled
            /\ outstanding => filled > 0
            /\ truth' = [truth EXCEPT ![w] = [filled |-> filled, exited |-> exited,
                                              terminal |-> terminal, outstanding |-> outstanding]]
    BY <1>1 DEF BrokerReport
  <2>3. PICK exited \in truth[w].exited .. filled :
            /\ truth[w].terminal => terminal /\ filled = truth[w].filled
            /\ outstanding => filled > 0
            /\ truth' = [truth EXCEPT ![w] = [filled |-> filled, exited |-> exited,
                                              terminal |-> terminal, outstanding |-> outstanding]]
    BY <2>2
  <2>4. /\ truth'[w] = [filled |-> filled, exited |-> exited,
                        terminal |-> terminal, outstanding |-> outstanding]
        /\ \A id \in Ids : id # w => truth'[id] = truth[id]
    BY <1>t, <2>3
  <2>5. truth[w].filled \in Nat /\ truth[w].exited \in Nat /\ MaxQty \in Nat
        /\ truth[w].terminal \in BOOLEAN
    BY <1>t, AdmissionConstants DEF Observation
  <2>6. filled \in Nat /\ truth[w].filled <= filled /\ exited <= filled
    BY <2>3, <2>5
  <2>7. Sane(truth'[w])
    BY <2>3, <2>4, <2>6 DEF Sane
  <2>8. ~Spent(w)
    BY <2>1 DEF Spent
  <2>9. \A id \in Ids : Spent(id) => Spent(id)'
    BY <2>1, <2>4, <2>8 DEF Spent
  <2>10. owned.stage = "observed" => Seen(owned.id)'
    <3>1. SUFFICES ASSUME owned.stage = "observed" PROVE Seen(owned.id)'
      OBVIOUS
    <3>2. PICK x \in Ids : x = owned.id
      BY <1>t, <3>1
    <3>3. Seen(x)
      BY <3>1, <3>2 DEF CooledInv
    <3>4. owned.obs.filled \in Nat /\ owned.obs.terminal \in BOOLEAN
      BY <1>t DEF Observation
    <3>5. CASE x = w
      <4>1. truth'[w].filled = filled /\ truth'[w].terminal = terminal
        BY <2>4
      <4>2. owned.obs.filled <= truth[w].filled
        BY <2>1, <3>3, <3>5 DEF Seen
      <4>3. owned.obs.filled <= filled
        BY <2>5, <2>6, <3>4, <4>2
      <4>4. owned.obs.terminal => terminal /\ owned.obs.filled = filled
        BY <2>1, <2>3, <3>3, <3>5 DEF Seen
      <4> QED
        BY <2>1, <3>2, <3>5, <4>1, <4>3, <4>4 DEF Seen
    <3>6. CASE x # w
      BY <2>1, <2>4, <3>2, <3>3, <3>6 DEF Seen
    <3> QED
      BY <3>5, <3>6
  <2>11. \A id \in Ids : Sane(truth'[id])
    BY <2>4, <2>7 DEF CooledInv
  <2> QED
    BY <2>1, <2>9, <2>10, <2>11 DEF CooledInv, IsLatest, Indexed, Working, Up
<1>2. CASE Operator
  <2>1. /\ book' = book /\ order' = order /\ entry' = entry /\ owned' = owned /\ boot' = boot
        /\ clock' = clock /\ truth' = truth
    BY <1>2 DEF Operator
  <2> QED
    BY <1>t, <2>1, CooledSame DEF Indexed, Working
<1>3. CASE Tick
  <2>1. /\ book' = book /\ order' = order /\ entry' = entry /\ owned' = owned /\ boot' = boot
        /\ clock' = clock + 1 /\ truth' = truth
    BY <1>3 DEF Tick
  <2>2. ASSUME NEW id \in Ids, ~IsLatest(id), book.episodes[id].closed # NoTime
        PROVE  clock' - book.episodes[id].closed >= Cooldown
    <3>1. clock - book.episodes[id].closed >= Cooldown
      BY <2>2 DEF CooledInv
    <3>2. book.episodes[id].closed \in Int /\ Cooldown \in Int
      BY LaneIds, LedgerConstants DEF Episode, Times, NoTime
    <3>3. PICK c \in Int : c = book.episodes[id].closed
      BY <3>2
    <3> QED
      BY <1>t, <2>1, <3>1, <3>2, <3>3
  <2> QED
    BY <2>1, <2>2 DEF CooledInv, IsLatest, Indexed, Working, Up, Spent, Seen
<1> QED
  BY <1>1, <1>2, <1>3 DEF Environment

\* Nothing has closed at first.
LEMMA CooledInit == Init => CooledInv
<1> SUFFICES ASSUME Init PROVE CooledInv
  OBVIOUS
<1>1. /\ book = EmptyLedger /\ entry.stage = "idle" /\ owned.stage = "idle" /\ Up
      /\ \A id \in Ids : order[id] = "none" /\ truth[id] = NothingSeen
  BY IdleTypes DEF Init, Up
<1>2. \A id \in Ids : book.episodes[id].closed = NoTime
  BY <1>1, EmptySources DEF Absent
<1>3. \A id \in Ids : Spent(id) /\ Sane(truth[id])
  BY <1>1 DEF Spent, Sane, NothingSeen
<1> QED
  BY <1>1, <1>2, <1>3 DEF CooledInv, Working

\* A fresh claim finds every closed episode of its key cooled.
LEMMA OpenedCools ==
  ASSUME TypeOK, OriginInv, CooledInv, NEW sig \in Signals, ClaimOpened(sig)
  PROVE  CoolsDown
<1>1. /\ sig \in Signal /\ ~Known(book, sig) /\ book' = Opened(book, sig)
      /\ ~Cooling(book, sig, clock) /\ book.active[sig.symbol] = {}
  BY AdmissionConstants DEF ClaimOpened, Opens
<1>2. \A id \in Ids : id # IdOfSignal(sig) => book'.episodes[id] = book.episodes[id]
  <2>1. book \in Ledger
    BY DEF TypeOK
  <2> QED
    BY <1>1, <2>1, OpenedFacts
<1>3. Prior(book, sig) = book.latest[KeyOfSignal(sig)]
  <2>1. Overlapping(book, sig) = {}
    BY <1>1 DEF Overlapping
  <2> QED
    BY <2>1 DEF Prior
<1>4. ASSUME NEW old \in Ids, KeyOf(old) = KeyOfSignal(sig), book.episodes[old].closed # NoTime
      PROVE  clock - book.episodes[old].closed >= Cooldown
  <2>1. CASE IsLatest(old)
    <3>1. Prior(book, sig) = old
      BY <1>3, <1>4, <2>1 DEF IsLatest
    <3>2. ~(clock - book.episodes[old].closed < Cooldown)
      BY <1>1, <1>4, <3>1, LedgerConstants DEF Cooling
    <3>3. book.episodes[old].closed \in Int /\ Cooldown \in Int /\ clock \in Int
      BY LaneIds, LedgerConstants DEF Episode, Times, NoTime
    <3>4. PICK c \in Int : c = book.episodes[old].closed
      BY <3>3
    <3> QED
      BY <3>2, <3>3, <3>4
  <2>2. CASE ~IsLatest(old)
    BY <1>4, <2>2 DEF CooledInv
  <2> QED
    BY <2>1, <2>2
<1>5. KeyOf(IdOfSignal(sig)) = KeyOfSignal(sig)
  BY <1>1, SignalId
<1>6. ASSUME NEW id \in Ids, book.episodes[id].state = "absent", book'.episodes[id].state = "claimed"
      PROVE  id = IdOfSignal(sig)
  BY <1>2, <1>6
<1> QED
  BY <1>4, <1>5, <1>6 DEF CoolsDown

\* Any other step claims no episode.
LEMMA OnlyOpenedClaims ==
  ASSUME TypeOK, IndexAgrees, OriginInv, Up, Next, ~(\E sig \in Signals : ClaimOpened(sig)),
         NEW id \in Ids, book.episodes[id].state = "absent"
  PROVE  book'.episodes[id].state # "claimed"
<1>t. /\ book \in Ledger /\ rows \in [Ids -> Episode] /\ book.episodes \in [Ids -> Episode]
      /\ clock \in Nat
      /\ entry.stage # "idle" => entry.id \in Ids /\ book.episodes[entry.id].state # "absent"
      /\ owned.stage # "idle" => owned.id \in Ids /\ book.episodes[owned.id].state # "absent"
      /\ owned.obs \in Observation
  BY LaneIds DEF OriginInv
<1>1. CASE book' = book
  BY <1>1
<1>2. ASSUME NEW sig \in Signals, ClaimMerged(sig) PROVE book'.episodes[id].state # "claimed"
  <2>1. sig \in Signal /\ SameMove(book, sig) /\ book' = Merged(book, sig)
    BY <1>2, AdmissionConstants DEF ClaimMerged, Merges
  <2>2. Prior(book, sig) # NoId
    BY <2>1 DEF SameMove
  <2>3. book.episodes[Prior(book, sig)].state # "absent"
    BY <2>1, <2>2, PriorOrigin
  <2>4. book'.episodes[id] = book.episodes[id]
    BY <1>t, <2>1, <2>3, MergedFacts
  <2> QED
    BY <2>4
<1>3. CASE QuoteExpired \/ SettleRefusal \/ AbandonSettle
  <2>1. PICK w \in Ids : book' = Release(book, w) /\ book.episodes[w].state # "absent"
    BY <1>3, <1>t DEF QuoteExpired, SettleRefusal, AbandonSettle
  <2>2. book'.episodes[id] = book.episodes[id]
    BY <2>1, ReleaseFacts
  <2> QED
    BY <2>2
<1>4. CASE BeginSubmit
  <2>1. entry.id \in Ids /\ entry.id # id /\ book' = Submitted(book, entry.id, clock)
    BY <1>4, <1>t DEF BeginSubmit
  <2>2. book'.episodes[id] = book.episodes[id]
    BY <1>t, <2>1, SubmittedFacts
  <2> QED
    BY <2>2
<1>5. CASE RepriceConflict
  <2>1. entry.id \in Ids /\ entry.id # id
    BY <1>5, <1>t DEF RepriceConflict
  <2>2. CASE book' = [book EXCEPT !.episodes[entry.id] = AsCancelRequested(@)]
    BY <1>t, <2>1, <2>2 DEF Ledger
  <2> QED
    BY <1>1, <1>5, <2>2 DEF RepriceConflict
<1>6. CASE RetireSettle
  <2>1. PICK w \in Ids : w = owned.id /\ w # id
    BY <1>6, <1>t DEF RetireSettle
  <2> DEFINE L == Release(book, w)
  <2>2. book' = [L EXCEPT !.episodes[w].closed = rows[w].closed]
    BY <1>6, <2>1 DEF RetireSettle
  <2>3. L \in Ledger /\ L.episodes[id] = book.episodes[id]
    BY <1>t, <2>1, ReleaseType, ReleaseFacts
  <2> HIDE DEF L
  <2>4. book'.episodes[id] = L.episodes[id]
    BY <2>1, <2>2, <2>3 DEF Ledger
  <2> QED
    BY <2>3, <2>4
<1>7. CASE Reconcile
  <2>1. PICK w \in Ids : w = owned.id /\ w # id
    BY <1>7, <1>t DEF Reconcile
  <2>2. book' = Reconciled(book, w, owned.obs.filled, owned.obs.exited,
                           owned.obs.terminal, owned.obs.outstanding, clock)
    BY <1>7, <2>1 DEF Reconcile
  <2>3. book'.episodes[id] = book.episodes[id]
    BY <1>t, <2>1, <2>2, ObservedFacts
  <2> QED
    BY <2>3
<1>8. CASE CancelEntry
  <2>1. owned.id \in Ids /\ owned.id # id
    BY <1>8, <1>t DEF CancelEntry
  <2>2. CASE book' = CancelRequested(book, owned.id)
    <3>1. book'.episodes[id] = book.episodes[id]
      BY <1>t, <2>1, <2>2, CancelFacts
    <3> QED
      BY <3>1
  <2> QED
    BY <1>1, <1>8, <2>2 DEF CancelEntry
<1>9. CASE Restart
  <2>1. CASE BootRefused
    <3>1. book' = [EmptyLedger EXCEPT !.ready = FALSE]
      BY <1>9, <2>1 DEF Restart
    <3>2. book'.episodes[id] = Absent
      BY <3>1, EmptyLedgerType, EmptySources DEF Ledger
    <3> QED
      BY <3>2 DEF Absent
  <2>2. CASE ~BootRefused
    <3>1. book'.episodes = BootRows
      BY <1>9, <2>2 DEF Restart, Restored
    <3>2. rows[id].state = "absent"
      BY DEF OriginInv
    <3>3. BootRows[id].state = "absent"
      BY <3>2, BootRowsFacts
    <3> QED
      BY <3>1, <3>3
  <2> QED
    BY <2>1, <2>2
<1>10. ASSUME EntryLane PROVE book'.episodes[id].state # "claimed"
  BY <1>1, <1>2, <1>3, <1>4, <1>5, <1>10 DEF EntryLane, ClaimKnown, DurableClaim, PrepareOrder,
     CommitSubmitting, RefuseBeforeWire, Dispatch, RecordRoute, SubmitFailed, EntrySave
<1>11. ASSUME OwnedLane PROVE book'.episodes[id].state # "claimed"
  BY <1>1, <1>3, <1>6, <1>7, <1>8, <1>11 DEF OwnedLane, Observe, RetireCommit, AbandonCommit, OwnedSave
<1>12. ASSUME Environment PROVE book'.episodes[id].state # "claimed"
  BY <1>1, <1>9, <1>12 DEF Environment, BrokerReport, Operator, Tick
<1> QED
  BY <1>10, <1>11, <1>12 DEF Next

\* A step of a process that has not restarted either restarts it or leaves the count alone.
LEMMA CrashCounted ==
  ASSUME Next, ~Restart PROVE crashes' = crashes
<1>1. ASSUME EntryLane PROVE crashes' = crashes
  BY <1>1 DEF EntryLane, ClaimKnown, ClaimMerged, ClaimOpened, DurableClaim,
         QuoteExpired, PrepareOrder, BeginSubmit, CommitSubmitting, RepriceConflict,
         RefuseBeforeWire, SettleRefusal, Dispatch, RecordRoute, SubmitFailed, EntrySave
<1>2. ASSUME OwnedLane PROVE crashes' = crashes
  BY <1>2 DEF OwnedLane, Observe, RetireCommit, AbandonCommit, RetireSettle, Reconcile, OwnedSave,
                CancelEntry, AbandonSettle
<1>3. ASSUME Environment PROVE crashes' = crashes
  BY <1>3 DEF Environment, BrokerReport, Operator, Tick
<1> QED
  BY <1>1, <1>2, <1>3 DEF Next

\* Within one process a symbol rests after a close: a new episode opens only when every
\* episode of its symbol and session has been closed for the cooldown, although claim() asks
\* the latest one alone.
THEOREM CooldownCorrect == Spec => CooldownRespected
<1> DEFINE J == crashes = 0 => CooledInv
<1>1. Init => J
  BY CooledInit
<1>2. /\ TypeOK /\ IndexInv /\ OriginInv /\ ExposureInv
      /\ TypeOK'
      /\ J /\ [Next]_vars
      => J'
  <2> SUFFICES ASSUME TypeOK, IndexInv, OriginInv, ExposureInv, TypeOK', J, [Next]_vars,
                      crashes' = 0
               PROVE  CooledInv'
    OBVIOUS
  <2>1. CASE UNCHANGED vars
    BY <2>1 DEF CooledInv, IsLatest, Indexed, Working, Spent, Seen, Up, vars
  <2>2. CASE Next
    <3>1. ~Restart
      <4>1. crashes \in Nat
        BY DEF TypeOK
      <4> QED
        BY <4>1 DEF Restart
    <3>2. CooledInv /\ IndexAgrees
      BY <2>2, <3>1, CrashCounted DEF IndexInv
    <3> QED
      BY <2>2, <3>1, <3>2, CooledEntry, CooledOwned, CooledEnvironment DEF Next
  <2> QED
    BY <2>1, <2>2
<1>3. TypeOK /\ IndexInv /\ OriginInv /\ J /\ [Next]_vars => [crashes = 0 => CoolsDown]_vars
  <2> SUFFICES ASSUME TypeOK, IndexInv, OriginInv, J, Next, crashes = 0
               PROVE  CoolsDown
    OBVIOUS
  <2>1. CooledInv /\ IndexAgrees
    BY DEF IndexInv
  <2>2. CASE \E sig \in Signals : ClaimOpened(sig)
    BY <2>1, <2>2, OpenedCools
  <2>3. CASE ~(\E sig \in Signals : ClaimOpened(sig))
    <3>1. Up
      BY <2>1 DEF CooledInv
    <3> QED
      BY <2>1, <2>3, <3>1, OnlyOpenedClaims DEF CoolsDown
  <2> QED
    BY <2>2, <2>3
<1> HIDE DEF J
<1> QED
  BY <1>1, <1>2, <1>3, ExposureInductive, PTL DEF Spec, CooldownRespected
==============================================================================
