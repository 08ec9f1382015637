------------------------------ MODULE EpisodeLedger ------------------------------
(****************************************************************************)
(* The admission ledger of the live momentum strategy                       *)
(* (momentum_live/admission.py, class EpisodeLedger), as operators on one   *)
(* ledger value, so that every process that keeps a ledger (the OMS and the *)
(* signal producer) uses the same definitions.                              *)
(*                                                                          *)
(* An episode is one detected move of one symbol in one session.  Its       *)
(* identity is uuid5(day, symbol, first source): the triple itself here.    *)
(* The same triples are the keys of the _sources index.  A ledger is a      *)
(* record                                                                   *)
(*   episodes : [Ids -> Episode]        "absent" for an id not in the dict  *)
(*   latest   : [Keys -> Ids \cup NoId] _latest                             *)
(*   sources  : [Ids -> Ids \cup NoId]  _sources                            *)
(*   active   : [Symbols -> SUBSET Ids] _active_by_symbol                   *)
(*   count    : Int                     _active_count                       *)
(*   ready    : BOOLEAN                                                     *)
(* Prices, routes and volumes do not influence the ledger and are left out; *)
(* a signal that fails Signal.validate never gets this far.                 *)
(****************************************************************************)
EXTENDS Integers, FiniteSets

CONSTANTS
  Days,          \* session dates
  Symbols,
  Sources,       \* source ids (logical ids of the producer's detections)
  NoId,          \* Python's None where an episode is expected
  Capacity,      \* concurrent reservations (2 in the code)
  HistoryLimit,  \* bound on known sources (4096 in the code)
  Cooldown,      \* quiet time of a symbol after a filled episode closed (30 s)
  CancelAfter    \* age at which an unfinished entry is cancelled (2 s)

Ids == Days \X Symbols \X Sources
Keys == Days \X Symbols

ASSUME LedgerConstants ==
  /\ IsFiniteSet(Ids)
  /\ NoId \notin Ids
  /\ Capacity \in Nat /\ HistoryLimit \in Nat
  /\ Cooldown \in Nat /\ CancelAfter \in Nat

KeyOf(id) == <<id[1], id[2]>>
SymbolOf(id) == id[2]

ActiveStates == {"claimed", "submitting", "working", "partial", "held",
                 "cancel_requested", "exiting", "unknown"}
TerminalStates == {"closed", "terminal_no_fill"}

\* None where a time is expected.
NoTime == -1
Times == Nat \cup {NoTime}

Episode == [state     : ActiveStates \cup TerminalStates \cup {"absent"},
            lo        : Nat,
            hi        : Nat,
            sources   : SUBSET Sources,
            submitted : Times,      \* first_submit_ns
            cancel    : BOOLEAN,    \* cancel_requested
            filled    : Nat,
            exited    : Nat,
            closed    : Times]      \* closed_ns

Signal == {s \in [day : Days, symbol : Symbols, source : Sources, lo : Nat, hi : Nat] :
             s.lo <= s.hi}

Absent == [state |-> "absent", lo |-> 0, hi |-> 0, sources |-> {}, submitted |-> NoTime,
           cancel |-> FALSE, filled |-> 0, exited |-> 0, closed |-> NoTime]

Ledger == [episodes : [Ids -> Episode],
           latest   : [Keys -> Ids \cup {NoId}],
           sources  : [Ids -> Ids \cup {NoId}],
           active   : [Symbols -> SUBSET Ids],
           count    : Int,
           ready    : BOOLEAN]

Present(eps) == {id \in Ids : eps[id].state # "absent"}
ActiveIds(eps) == {id \in Ids : eps[id].state \in ActiveStates}
ActiveOn(eps, symbol) == {id \in ActiveIds(eps) : SymbolOf(id) = symbol}
\* The episodes that list the source of k (at most one in a consistent ledger).
Holders(eps, k) == {id \in Ids : KeyOf(id) = KeyOf(k) /\ k[3] \in eps[id].sources}
\* The episodes in the by-symbol index of a ledger.
IndexedIds(L) == {id \in Ids : id \in L.active[SymbolOf(id)]}
\* The counter and the by-symbol index agree, and index active episodes only.
LedgerAgrees(L) == /\ \A s \in Symbols : L.active[s] \subseteq ActiveOn(L.episodes, s)
                   /\ L.count = Cardinality(IndexedIds(L))
BoundSources(eps) == {k \in Ids : Holders(eps, k) # {}}

------------------------------------------------------------------------------
(* claim(): what the ledger decides about a signal, and what it does.       *)

KeyOfSignal(sig) == <<sig.day, sig.symbol>>
IdOfSignal(sig) == <<sig.day, sig.symbol, sig.source>>
Overlaps(sig, episode) == sig.lo <= episode.hi /\ sig.hi >= episode.lo

Known(L, sig) == L.sources[IdOfSignal(sig)] # NoId

Overlapping(L, sig) ==
  {id \in L.active[sig.symbol] : id[1] = sig.day /\ Overlaps(sig, L.episodes[id])}

Prior(L, sig) ==
  IF Overlapping(L, sig) # {} THEN CHOOSE id \in Overlapping(L, sig) : TRUE
                              ELSE L.latest[KeyOfSignal(sig)]

SameMove(L, sig) == /\ Prior(L, sig) # NoId
                    /\ Overlaps(sig, L.episodes[Prior(L, sig)])

HistoryFull(L) == Cardinality({k \in Ids : L.sources[k] # NoId}) >= HistoryLimit

\* Mutation: the cooldown ends one unit early.
CoolingShort(L, sig, now) ==
  /\ Prior(L, sig) # NoId
  /\ L.episodes[Prior(L, sig)].closed # NoTime
  /\ now - L.episodes[Prior(L, sig)].closed + 1 < Cooldown

Cooling(L, sig, now) ==
  /\ Prior(L, sig) # NoId
  /\ L.episodes[Prior(L, sig)].closed # NoTime
  /\ now - L.episodes[Prior(L, sig)].closed < Cooldown

\* A new source of a move that already has an episode (open or closed).
Merges(L, sig) ==
  /\ L.ready
  /\ ~Known(L, sig)
  /\ Cardinality(Overlapping(L, sig)) <= 1
  /\ SameMove(L, sig)
  /\ ~HistoryFull(L)

\* Mutation: a symbol that already has an open episode is not refused.
OpensBesideOpen(L, sig, now) ==
  /\ L.ready
  /\ ~Known(L, sig)
  /\ ~SameMove(L, sig)
  /\ ~Cooling(L, sig, now)
  /\ L.count < Capacity
  /\ ~HistoryFull(L)

\* A move nobody owns yet, admitted into a free reservation.
Opens(L, sig, now) ==
  /\ L.ready
  /\ ~Known(L, sig)
  /\ ~SameMove(L, sig)
  /\ L.active[sig.symbol] = {}
  /\ ~Cooling(L, sig, now)
  /\ L.count < Capacity
  /\ ~HistoryFull(L)

Smaller(a, b) == IF a <= b THEN a ELSE b
Larger(a, b) == IF a >= b THEN a ELSE b

\* Mutation: the merged source is indexed but not recorded in the episode.
MergedUnlisted(L, sig) ==
  LET id == Prior(L, sig)
      e == L.episodes[id]
  IN [L EXCEPT !.episodes[id] = [e EXCEPT !.lo = Smaller(e.lo, sig.lo),
                                          !.hi = Larger(e.hi, sig.hi)],
               !.sources[IdOfSignal(sig)] = id]

Merged(L, sig) ==
  LET id == Prior(L, sig)
      e == L.episodes[id]
  IN [L EXCEPT !.episodes[id] = [e EXCEPT !.lo = Smaller(e.lo, sig.lo),
                                          !.hi = Larger(e.hi, sig.hi),
                                          !.sources = e.sources \cup {sig.source}],
               !.sources[IdOfSignal(sig)] = id]

Opened(L, sig) ==
  LET id == IdOfSignal(sig)
  IN [L EXCEPT !.episodes[id] = [Absent EXCEPT !.state = "claimed", !.lo = sig.lo,
                                               !.hi = sig.hi, !.sources = {sig.source}],
               !.latest[KeyOfSignal(sig)] = id,
               !.sources[id] = id,
               !.active[sig.symbol] = @ \cup {id},
               !.count = @ + 1]

------------------------------------------------------------------------------
(* begin_submit(), cancel_due() and reconcile().                            *)

MaySubmit(L, id) == /\ L.episodes[id].state = "claimed"
                    /\ L.episodes[id].submitted = NoTime

Submitted(L, id, now) ==
  [L EXCEPT !.episodes[id].state = "submitting", !.episodes[id].submitted = now]

IsCancelDue(L, id, now) ==
  /\ L.episodes[id].submitted # NoTime
  /\ now - L.episodes[id].submitted >= CancelAfter
  /\ ~L.episodes[id].cancel
  /\ L.episodes[id].state \in {"submitting", "working", "partial", "unknown"}

\* Mutation: a state name the rest of the ledger does not know.
CancelRequestedMisnamed(L, id) ==
  [L EXCEPT !.episodes[id].state = "cancelling", !.episodes[id].cancel = TRUE]

CancelRequested(L, id) ==
  [L EXCEPT !.episodes[id].state = "cancel_requested", !.episodes[id].cancel = TRUE]

\* An observation of the episode's own orders: cumulative fills and exits,
\* whether the entry order is terminal, whether an exit is outstanding.
Reconcilable(L, id, filled, exited) ==
  /\ filled >= L.episodes[id].filled
  /\ exited >= L.episodes[id].exited
  /\ exited <= filled

ReconciledState(e, filled, exited, terminal, outstanding) ==
  IF terminal /\ filled = exited /\ ~outstanding
  THEN IF filled > 0 THEN "closed" ELSE "terminal_no_fill"
  ELSE IF filled > exited
  THEN IF terminal THEN "held" ELSE "partial"
  ELSE IF ~terminal THEN "unknown" ELSE e.state

ReconciledEpisode(e, filled, exited, terminal, outstanding, now) ==
  LET state == ReconciledState(e, filled, exited, terminal, outstanding)
  IN [e EXCEPT !.filled = filled, !.exited = exited, !.state = state,
               !.closed = IF terminal /\ filled = exited /\ ~outstanding
                             /\ filled > 0 /\ e.closed = NoTime
                          THEN now ELSE e.closed]

One(flag) == IF flag THEN 1 ELSE 0

\* Mutation: the counter drops on every terminal reconcile, active before or not.
ReconciledTwice(L, id, filled, exited, terminal, outstanding, now) ==
  LET before == L.episodes[id]
      after == ReconciledEpisode(before, filled, exited, terminal, outstanding, now)
      owned == after.state \in ActiveStates
  IN [L EXCEPT !.episodes[id] = after,
               !.count = IF owned THEN @ + 1 - One(before.state \in ActiveStates) ELSE @ - 1,
               !.active[SymbolOf(id)] = IF owned THEN @ \cup {id} ELSE @ \ {id}]

Reconciled(L, id, filled, exited, terminal, outstanding, now) ==
  LET before == L.episodes[id]
      after == ReconciledEpisode(before, filled, exited, terminal, outstanding, now)
      owned == after.state \in ActiveStates
  IN [L EXCEPT !.episodes[id] = after,
               !.count = @ + One(owned) - One(before.state \in ActiveStates),
               !.active[SymbolOf(id)] = IF owned THEN @ \cup {id} ELSE @ \ {id}]

------------------------------------------------------------------------------
(* restore(): the ledger rebuilt from durable (or published) rows.          *)

\* Mutation: the row that starts first is taken for the latest.
LaterReversed(a, b) == a.lo <= b.lo

Later(a, b) == a.hi > b.hi \/ (a.hi = b.hi /\ a.lo >= b.lo)

\* The row with the latest interval; the uuid that breaks a tie in the code is
\* an arbitrary but fixed choice.
LatestRow(rows, key) ==
  LET own == {id \in Present(rows) : KeyOf(id) = key}
      last == {id \in own : \A other \in own : Later(rows[id], rows[other])}
  IN IF last = {} THEN NoId ELSE CHOOSE id \in last : TRUE

\* restore() refuses a source claimed twice and rows beyond its two bounds.
Restorable(rows) ==
  /\ \A k \in Ids : Cardinality(Holders(rows, k)) <= 1
  /\ \A id \in Ids : rows[id].exited <= rows[id].filled
  /\ Cardinality(BoundSources(rows)) <= HistoryLimit
  /\ Cardinality(ActiveIds(rows)) <= Capacity

Restored(rows) ==
  [episodes |-> rows,
   latest   |-> [key \in Keys |-> LatestRow(rows, key)],
   sources  |-> [k \in Ids |-> IF Holders(rows, k) = {} THEN NoId
                               ELSE CHOOSE id \in Holders(rows, k) : TRUE],
   active   |-> [s \in Symbols |-> ActiveOn(rows, s)],
   count    |-> Cardinality(ActiveIds(rows)),
   ready    |-> TRUE]

EmptyLedger == Restored([id \in Ids |-> Absent])
==============================================================================
