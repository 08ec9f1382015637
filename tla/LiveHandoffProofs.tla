--------------------------- MODULE LiveHandoffProofs ---------------------------
(****************************************************************************)
(* Proofs about the hand-off of live momentum detections: order of delivery *)
(* and the accounting of the producer's reservations, for every sequence of *)
(* detections, queue bound and number of failures.                          *)
(*                                                                          *)
(* The argument.  The stream, the queue and the detections still to come    *)
(* form one line in decision order (LineInv), and no step makes pending     *)
(* again what was taken from it (LineMoves).  So whatever the OMS holds was *)
(* opened by an older detection, under an identity no pending one carries   *)
(* (HeldInv), and a row is only ever a copy of what the ledger held.  The   *)
(* reservations follow (SlotInv): a snapshot names only episodes the OMS    *)
(* holds, none of them under way or dropped, so folding it never releases   *)
(* one that is; and what leaves the line has become an episode of the OMS   *)
(* or is dropped.                                                           *)
(****************************************************************************)
EXTENDS LiveHandoff, FiniteSetTheorems, TLAPS

------------------------------------------------------------------------------
(* The inductive invariant.                                                 *)

\* What the proofs need of a ledger's shape.
Rows == [Ids -> Episode]
IsLedger(L) ==
  /\ L = [episodes |-> L.episodes, latest |-> L.latest, sources |-> L.sources,
          active |-> L.active, count |-> L.count, ready |-> L.ready]
  /\ L.episodes \in Rows /\ L.count \in Int

HandTypes ==
  /\ next \in 1..(Len(Detections) + 1)
  /\ IsLedger(prod) /\ IsLedger(book)
  /\ queue \in Seq(Entry) /\ wire \in Seq(Entry)
  /\ rows \in Rows /\ state \in Rows
  /\ dropped \subseteq Ids

\* Detection b comes after detection a.
Follows(a, b) == a.hi <= b.hi /\ IdOfSignal(a) # IdOfSignal(b)

\* Stream, queue and what is still to be detected are one line in decision order.
SigsOf(s) == {s[i].sig : i \in DOMAIN s}
Coming == {Detections[k] : k \in next..Len(Detections)}
Sorted(s) == \A i, j \in DOMAIN s : i < j => Follows(s[i].sig, s[j].sig)
AllBefore(A, B) == \A a \in A, b \in B : Follows(a, b)
LineInv ==
  /\ Sorted(wire) /\ Sorted(queue)
  /\ AllBefore(SigsOf(wire), SigsOf(queue))
  /\ AllBefore(SigsOf(wire), Coming) /\ AllBefore(SigsOf(queue), Coming)

\* The detections the OMS has not decided about.
Pending == SigsOf(wire) \cup SigsOf(queue) \cup Coming

\* What the OMS holds, in memory and durably, is older than what is pending.
Older(eps) == \A id \in Present(eps), sig \in Pending : eps[id].lo <= sig.hi
Unheld(S) == \A sig \in Pending : IdOfSignal(sig) \notin S
HeldInv ==
  /\ Older(book.episodes) /\ Older(rows)
  /\ Present(rows) \subseteq Present(book.episodes)
  /\ Present(state) \subseteq Present(book.episodes)
  /\ Unheld(Present(book.episodes))

\* The producer's reservations.
SlotInv ==
  /\ Unheld(dropped) /\ dropped \cap Present(book.episodes) = {}
  /\ SlotAccounted
  /\ InFlight \cup dropped \subseteq ActiveIds(prod.episodes)
  /\ Cardinality(ActiveIds(prod.episodes)) <= prod.count /\ prod.count <= Capacity

HandInv == HandTypes /\ LineInv /\ HeldInv /\ SlotInv

------------------------------------------------------------------------------
(* What the operations do to a ledger.                                      *)

\* The parts of a detection.
LEMMA SigParts ==
  ASSUME NEW sig \in Signal
  PROVE  /\ IdOfSignal(sig) \in Ids /\ sig.lo \in Nat /\ sig.hi \in Nat /\ sig.lo <= sig.hi
         /\ sig.source \in Sources
BY DEF Signal, IdOfSignal, Ids

\* The episode a detection opens.
Opening(sig) == [Absent EXCEPT !.state = "claimed", !.lo = sig.lo, !.hi = sig.hi,
                               !.sources = {sig.source}]

\* It is a well-formed episode, claimed, that starts with the detection.
LEMMA OpeningIs ==
  ASSUME NEW sig \in Signal
  PROVE  Opening(sig) \in Episode /\ Opening(sig).state = "claimed" /\ Opening(sig).lo = sig.lo
BY SigParts DEF Opening, Absent, Episode, ActiveStates, Times, NoTime

\* claim(), a fresh episode.
LEMMA OpenedShape ==
  ASSUME NEW L, IsLedger(L), NEW sig \in Signal, NEW M, M = Opened(L, sig)
  PROVE  /\ IsLedger(M) /\ M.count = L.count + 1
         /\ M.episodes[IdOfSignal(sig)] = Opening(sig)
         /\ \A id \in Ids : id # IdOfSignal(sig) => M.episodes[id] = L.episodes[id]
<1>1. PICK e : e = [L.episodes EXCEPT ![IdOfSignal(sig)] = Opening(sig)]  OBVIOUS
<1>2. /\ M.episodes = e /\ M.count = L.count + 1
      /\ M = [episodes |-> M.episodes, latest |-> M.latest, sources |-> M.sources,
              active |-> M.active, count |-> M.count, ready |-> M.ready]
  BY <1>1 DEF Opened, IsLedger, Opening
<1>3. L.episodes \in Rows /\ L.count \in Int  BY DEF IsLedger
<1>4. e \in Rows /\ e[IdOfSignal(sig)] = Opening(sig)
      /\ \A id \in Ids : id # IdOfSignal(sig) => e[id] = L.episodes[id]
  BY <1>1, <1>3, SigParts, OpeningIs DEF Rows
<1> QED  BY <1>2, <1>3, <1>4 DEF IsLedger

\* claim(), a new source of a known move: no episode changes its state or starts later.
LEMMA MergedShape ==
  ASSUME NEW L, IsLedger(L), NEW sig \in Signal, NEW M, M = Merged(L, sig)
  PROVE  /\ IsLedger(M) /\ M.count = L.count
         /\ \A id \in Ids : /\ M.episodes[id].state = L.episodes[id].state
                            /\ M.episodes[id].lo <= L.episodes[id].lo
<1>1. PICK p : p = Prior(L, sig)  OBVIOUS
<1>2. PICK f : f = [L.episodes[p] EXCEPT !.lo = Smaller(L.episodes[p].lo, sig.lo),
                                         !.hi = Larger(L.episodes[p].hi, sig.hi),
                                         !.sources = L.episodes[p].sources \cup {sig.source}]
  OBVIOUS
<1>3. PICK e : e = [L.episodes EXCEPT ![p] = f]  OBVIOUS
<1>4. /\ M.episodes = e /\ M.count = L.count
      /\ M = [episodes |-> M.episodes, latest |-> M.latest, sources |-> M.sources,
              active |-> M.active, count |-> M.count, ready |-> M.ready]
  BY <1>1, <1>2, <1>3 DEF Merged, IsLedger
<1>5. L.episodes \in Rows /\ L.count \in Int  BY DEF IsLedger
<1>6. ASSUME p \in Ids
      PROVE  f \in Episode /\ f.state = L.episodes[p].state /\ f.lo <= L.episodes[p].lo
  <2>1. L.episodes[p] \in Episode  BY <1>5, <1>6 DEF Rows
  <2>2. L.episodes[p].lo \in Nat /\ L.episodes[p].hi \in Nat /\ L.episodes[p].sources \in SUBSET Sources
    BY <2>1 DEF Episode
  <2>3. /\ Smaller(L.episodes[p].lo, sig.lo) \in Nat /\ Larger(L.episodes[p].hi, sig.hi) \in Nat
        /\ Smaller(L.episodes[p].lo, sig.lo) <= L.episodes[p].lo
    BY <2>2, SigParts DEF Smaller, Larger
  <2>4. L.episodes[p].sources \cup {sig.source} \in SUBSET Sources  BY <2>2, SigParts
  <2> QED  BY <1>2, <2>1, <2>3, <2>4 DEF Episode
<1>7. \A id \in Ids : L.episodes[id].lo \in Nat  BY <1>5 DEF Rows, Episode
<1>8. e \in Rows /\ \A id \in Ids : /\ e[id].state = L.episodes[id].state
                                    /\ e[id].lo <= L.episodes[id].lo
  <2>1. CASE p \in Ids
    <3>1. e[p] = f /\ \A id \in Ids : id # p => e[id] = L.episodes[id]
      BY <1>3, <1>5, <2>1 DEF Rows
    <3>2. e \in Rows  BY <1>3, <1>5, <1>6, <2>1 DEF Rows
    <3> QED  BY <1>6, <1>7, <2>1, <3>1, <3>2
  <2>2. CASE p \notin Ids
    <3>1. e = L.episodes  BY <1>3, <1>5, <2>2 DEF Rows
    <3> QED  BY <1>5, <1>7, <3>1
  <2> QED  BY <2>1, <2>2
<1> QED  BY <1>4, <1>5, <1>8 DEF IsLedger

\* reconcile() of an episode that has ended, with n shares bought and n sold.
Ended(L, id, n) == Reconciled(L, id, n, n, TRUE, FALSE, 0)

LEMMA EndedShape ==
  ASSUME NEW L, IsLedger(L), NEW id \in Ids, NEW n \in Nat,
         NEW M, M = Ended(L, id, n)
  PROVE  /\ IsLedger(M)
         /\ M.count = L.count - One(L.episodes[id].state \in ActiveStates)
         /\ M.episodes[id].state \in TerminalStates /\ M.episodes[id].lo = L.episodes[id].lo
         /\ \A other \in Ids : other # id => M.episodes[other] = L.episodes[other]
<1>1. PICK f : f = ReconciledEpisode(L.episodes[id], n, n, TRUE, FALSE, 0)  OBVIOUS
<1>2. PICK e : e = [L.episodes EXCEPT ![id] = f]  OBVIOUS
<1>3. L.episodes \in Rows /\ L.count \in Int /\ L.episodes[id] \in Episode
  BY DEF IsLedger, Rows
<1>4. f \in Episode /\ f.state \in TerminalStates /\ f.lo = L.episodes[id].lo
  <2>1. ReconciledState(L.episodes[id], n, n, TRUE, FALSE) \in TerminalStates
    BY DEF ReconciledState, TerminalStates
  <2>2. PICK s, c : /\ s = ReconciledState(L.episodes[id], n, n, TRUE, FALSE)
                    /\ c = IF TRUE /\ n = n /\ ~FALSE /\ n > 0 /\ L.episodes[id].closed = NoTime
                           THEN 0 ELSE L.episodes[id].closed
    OBVIOUS
  <2>3. c \in Times  BY <1>3, <2>2 DEF Episode, Times
  <2>4. f = [L.episodes[id] EXCEPT !.filled = n, !.exited = n, !.state = s, !.closed = c]
    BY <1>1, <2>2 DEF ReconciledEpisode
  <2> QED  BY <1>3, <2>1, <2>2, <2>3, <2>4 DEF Episode
<1>5. f.state \notin ActiveStates  BY <1>4 DEF ActiveStates, TerminalStates
<1>6. One(L.episodes[id].state \in ActiveStates) \in Int  BY DEF One
<1>7. /\ M.episodes = e /\ M.count = L.count + 0 - One(L.episodes[id].state \in ActiveStates)
      /\ M = [episodes |-> M.episodes, latest |-> M.latest, sources |-> M.sources,
              active |-> M.active, count |-> M.count, ready |-> M.ready]
  BY <1>1, <1>2, <1>5 DEF Ended, Reconciled, IsLedger, One
<1>8. e \in Rows /\ e[id] = f /\ \A other \in Ids : other # id => e[other] = L.episodes[other]
  BY <1>2, <1>3, <1>4 DEF Rows
<1>9. M.count \in Int /\ M.count = L.count - One(L.episodes[id].state \in ActiveStates)
  <2>1. PICK k : k = One(L.episodes[id].state \in ActiveStates)  OBVIOUS
  <2>2. k \in Int /\ M.count = L.count + 0 - k  BY <1>6, <1>7, <2>1
  <2>3. M.count \in Int /\ M.count = L.count - k
    <3>1. L.count \in Int  BY <1>3
    <3>2. PICK c, m : c = L.count /\ m = M.count  OBVIOUS
    <3>3. c \in Int /\ k \in Int /\ m = c + 0 - k  BY <2>2, <3>1, <3>2
    <3>4. m \in Int /\ m = c - k
      <4> HIDE <1>7, <1>8
      <4> QED  BY <3>3
    <3> QED  BY <3>2, <3>4
  <2> QED  BY <2>1, <2>3
<1>10. IsLedger(M)  BY <1>7, <1>8, <1>9 DEF IsLedger
<1> QED  BY <1>4, <1>7, <1>8, <1>9, <1>10

\* restore().
LEMMA RestoredShape ==
  ASSUME NEW r \in Rows, NEW M, M = Restored(r)
  PROVE  IsLedger(M) /\ M.episodes = r /\ M.count = Cardinality(ActiveIds(r))
<1>1. IsFiniteSet(ActiveIds(r))  BY LedgerConstants, FS_Subset DEF ActiveIds
<1>2. Cardinality(ActiveIds(r)) \in Nat  BY <1>1, FS_CardinalityType
<1> QED  BY <1>2 DEF Restored, IsLedger

\* Counting the active episodes.
LEMMA ActiveCounts ==
  ASSUME NEW r
  PROVE  IsFiniteSet(ActiveIds(r)) /\ Cardinality(ActiveIds(r)) \in Nat
<1>1. IsFiniteSet(ActiveIds(r))  BY LedgerConstants, FS_Subset DEF ActiveIds
<1> QED  BY <1>1, FS_CardinalityType

\* Fewer episodes active, a smaller count.
LEMMA ActiveFewer ==
  ASSUME NEW r, NEW q, ActiveIds(q) \subseteq ActiveIds(r)
  PROVE  Cardinality(ActiveIds(q)) <= Cardinality(ActiveIds(r))
BY ActiveCounts, FS_Subset

\* One episode more makes at most one more.
LEMMA ActiveOneMore ==
  ASSUME NEW r, NEW q, NEW id, ActiveIds(q) \subseteq ActiveIds(r) \cup {id}
  PROVE  Cardinality(ActiveIds(q)) <= Cardinality(ActiveIds(r)) + 1
<1>1. /\ IsFiniteSet(ActiveIds(r) \cup {id})
      /\ Cardinality(ActiveIds(r) \cup {id}) \in {Cardinality(ActiveIds(r)), Cardinality(ActiveIds(r)) + 1}
  BY ActiveCounts, FS_AddElement
<1>2. Cardinality(ActiveIds(q)) <= Cardinality(ActiveIds(r) \cup {id})  BY <1>1, FS_Subset
<1>3. Cardinality(ActiveIds(r)) \in Nat /\ Cardinality(ActiveIds(q)) \in Nat  BY ActiveCounts
<1> QED  BY <1>1, <1>2, <1>3

------------------------------------------------------------------------------
(* The line of detections.                                                  *)

\* What taking the head of a sequence leaves.
LEMMA TailIs ==
  ASSUME NEW S, NEW s \in Seq(S), s # <<>>
  PROVE  /\ Tail(s) \in Seq(S) /\ 1 \in DOMAIN s /\ Head(s) = s[1] /\ Head(s) \in S
         /\ \A i \in DOMAIN Tail(s) : i + 1 \in DOMAIN s /\ i \in Nat /\ i > 0 /\ Tail(s)[i] = s[i + 1]
OBVIOUS

\* What a sequence with one more element holds.
LEMMA AppendIs ==
  ASSUME NEW S, NEW s \in Seq(S), NEW e \in S
  PROVE  /\ Append(s, e) \in Seq(S)
         /\ \A i \in DOMAIN Append(s, e) :
              \/ i \in DOMAIN s /\ Append(s, e)[i] = s[i]
              \/ i = Len(s) + 1 /\ Append(s, e)[i] = e
         /\ \A i \in DOMAIN s : i < Len(s) + 1 /\ i \in DOMAIN Append(s, e) /\ Append(s, e)[i] = s[i]
         /\ Len(s) + 1 \in DOMAIN Append(s, e) /\ Append(s, e)[Len(s) + 1] = e
OBVIOUS

\* The head comes before the rest, and what was sorted stays sorted.
LEMMA SortedTail ==
  ASSUME NEW s \in Seq(Entry), s # <<>>, Sorted(s)
  PROVE  /\ Sorted(Tail(s))
         /\ \A i \in DOMAIN Tail(s) : Follows(Head(s).sig, Tail(s)[i].sig)
         /\ SigsOf(Tail(s)) \subseteq SigsOf(s) /\ Head(s).sig \in SigsOf(s)
<1>1. /\ 1 \in DOMAIN s /\ Head(s) = s[1]
      /\ \A i \in DOMAIN Tail(s) : i + 1 \in DOMAIN s /\ i \in Nat /\ i > 0 /\ Tail(s)[i] = s[i + 1]
  BY TailIs
<1>2. ASSUME NEW i \in DOMAIN Tail(s), NEW j \in DOMAIN Tail(s), i < j
      PROVE  Follows(Tail(s)[i].sig, Tail(s)[j].sig)
  <2>1. i + 1 \in DOMAIN s /\ j + 1 \in DOMAIN s /\ i + 1 < j + 1  BY <1>1, <1>2
  <2> QED  BY <1>1, <2>1 DEF Sorted
<1>3. ASSUME NEW i \in DOMAIN Tail(s)  PROVE Follows(Head(s).sig, Tail(s)[i].sig)
  <2>1. i + 1 \in DOMAIN s /\ 1 < i + 1  BY <1>1
  <2> QED  BY <1>1, <2>1 DEF Sorted
<1> QED  BY <1>1, <1>2, <1>3 DEF Sorted, SigsOf

\* A later detection is put at the end.
LEMMA SortedAppend ==
  ASSUME NEW s \in Seq(Entry), Sorted(s), NEW e \in Entry,
         \A i \in DOMAIN s : Follows(s[i].sig, e.sig)
  PROVE  Sorted(Append(s, e)) /\ SigsOf(Append(s, e)) = SigsOf(s) \cup {e.sig}
<1>0. PICK t : t = Append(s, e)  OBVIOUS
<1>1. /\ \A i \in DOMAIN t : \/ i \in DOMAIN s /\ t[i] = s[i]
                             \/ i = Len(s) + 1 /\ t[i] = e
      /\ \A i \in DOMAIN s : i < Len(s) + 1 /\ i \in DOMAIN t /\ t[i] = s[i]
      /\ Len(s) + 1 \in DOMAIN t /\ t[Len(s) + 1] = e
  BY <1>0, AppendIs
<1>2. \A i \in DOMAIN s : i \in Int /\ Len(s) \in Int /\ ~(Len(s) + 1 < i)  OBVIOUS
<1>3. ASSUME NEW i \in DOMAIN t, NEW j \in DOMAIN t, i < j
      PROVE  Follows(t[i].sig, t[j].sig)
  <2>1. i \in DOMAIN s /\ t[i] = s[i]
    <3>1. ASSUME i = Len(s) + 1  PROVE FALSE
      <4>1. CASE j \in DOMAIN s  BY <1>2, <1>3, <3>1, <4>1
      <4>2. CASE j = Len(s) + 1
        <5>1. Len(s) \in Nat  OBVIOUS
        <5> QED  BY <1>3, <3>1, <4>2, <5>1
      <4> QED  BY <1>1, <4>1, <4>2
    <3> QED  BY <1>1, <3>1
  <2>2. CASE j \in DOMAIN s  BY <1>1, <1>3, <2>1, <2>2 DEF Sorted
  <2>3. CASE t[j] = e  BY <2>1, <2>3
  <2> QED  BY <1>1, <2>2, <2>3
<1>4. SigsOf(t) = SigsOf(s) \cup {e.sig}
  <2>1. ASSUME NEW x \in SigsOf(t)  PROVE x \in SigsOf(s) \cup {e.sig}
    BY <1>1, <2>1 DEF SigsOf
  <2>2. ASSUME NEW x \in SigsOf(s)  PROVE x \in SigsOf(t)  BY <1>1, <2>2 DEF SigsOf
  <2>3. e.sig \in SigsOf(t)  BY <1>1 DEF SigsOf
  <2> QED  BY <2>1, <2>2, <2>3
<1> QED  BY <1>0, <1>3, <1>4 DEF Sorted

\* Detections come in decision order.
LEMMA ComingNext ==
  ASSUME HandTypes, Detected, next' = next + 1
  PROVE  /\ next' \in 1..(Len(Detections) + 1) /\ Sig \in Signal /\ Sig \in Coming
         /\ Coming' \subseteq Coming /\ AllBefore({Sig}, Coming')
<1>1. Detections \in Seq(Signal) /\ next \in 1..(Len(Detections) + 1) /\ next <= Len(Detections)
  BY HandoffConstants DEF HandTypes, Detected
<1>2. next \in 1..Len(Detections) /\ DOMAIN Detections = 1..Len(Detections) /\ Len(Detections) \in Nat
  BY <1>1
<1>3. next' \in 1..(Len(Detections) + 1)  BY <1>1, <1>2
<1>4. Sig \in Signal /\ Sig \in Coming  BY <1>1, <1>2 DEF Sig, Coming
<1>5. \A k \in (next + 1)..Len(Detections) : k \in next..Len(Detections) /\ k \in DOMAIN Detections /\ next < k
  BY <1>2
<1>6. Coming' = {Detections[k] : k \in (next + 1)..Len(Detections)}  BY DEF Coming
<1>7. Coming' \subseteq Coming  BY <1>5, <1>6 DEF Coming
<1>8. \A k \in (next + 1)..Len(Detections) : Follows(Sig, Detections[k])
  <2> TAKE k \in (next + 1)..Len(Detections)
  <2>1. next \in DOMAIN Detections /\ k \in DOMAIN Detections /\ next < k  BY <1>2, <1>5
  <2>2. Detections[next].source # Detections[k].source /\ Detections[next].hi <= Detections[k].hi
    BY <2>1, HandoffConstants
  <2> QED  BY <2>2 DEF Follows, IdOfSignal, Sig
<1>9. AllBefore({Sig}, Coming')  BY <1>6, <1>8 DEF AllBefore
<1> QED  BY <1>3, <1>4, <1>7, <1>9

\* The line moves on: nothing becomes pending that was not.
LineMoves ==
  /\ LineInv' /\ Pending' \subseteq Pending
  /\ next' \in 1..(Len(Detections) + 1) /\ queue' \in Seq(Entry) /\ wire' \in Seq(Entry)

\* The line as it is.
LEMMA LineStays ==
  ASSUME HandTypes, LineInv, UNCHANGED <<next, queue, wire>>
  PROVE  LineMoves
BY DEF LineMoves, LineInv, Pending, Coming, HandTypes

\* The OMS takes a detection from the stream: all that is pending now comes after it.
LEMMA LineTakes ==
  ASSUME HandTypes, LineInv, Arrived, wire' = Tail(wire), UNCHANGED <<next, queue>>
  PROVE  LineMoves /\ Got \in Signal /\ Got \in Pending /\ AllBefore({Got}, Pending')
<1>1. wire \in Seq(Entry) /\ wire # <<>> /\ Sorted(wire)  BY DEF HandTypes, Arrived, LineInv
<1>2. /\ Sorted(wire') /\ \A i \in DOMAIN wire' : Follows(Got, wire'[i].sig)
      /\ SigsOf(wire') \subseteq SigsOf(wire) /\ Got \in SigsOf(wire)
  BY <1>1, SortedTail DEF Got
<1>3. wire' \in Seq(Entry) /\ Head(wire) \in Entry  BY <1>1, TailIs
<1>4. Coming' = Coming  BY DEF Coming
<1>5. LineInv'  BY <1>2, <1>4 DEF LineInv, AllBefore
<1>6. AllBefore({Got}, SigsOf(wire'))  BY <1>2 DEF AllBefore, SigsOf
<1>7. AllBefore({Got}, Pending')
  <2>1. AllBefore({Got}, SigsOf(queue)) /\ AllBefore({Got}, Coming)  BY <1>2 DEF LineInv, AllBefore
  <2>2. Pending' = SigsOf(wire') \cup SigsOf(queue) \cup Coming  BY <1>4 DEF Pending
  <2> QED  BY <1>6, <2>1, <2>2 DEF AllBefore
<1>8. Got \in Signal  BY <1>3 DEF Got, Entry
<1>9. Pending' \subseteq Pending  BY <1>2, <1>4 DEF Pending
<1> QED  BY <1>2, <1>3, <1>5, <1>7, <1>8, <1>9 DEF LineMoves, Pending, HandTypes

\* A detection is turned down by the producer.
LEMMA LineSkips ==
  ASSUME HandTypes, LineInv, Detected, next' = next + 1, UNCHANGED <<queue, wire>>
  PROVE  LineMoves /\ Sig \in Signal /\ Sig \in Pending /\ Sig \in Coming
<1>1. /\ next' \in 1..(Len(Detections) + 1) /\ Sig \in Signal /\ Sig \in Coming
      /\ Coming' \subseteq Coming /\ AllBefore({Sig}, Coming')
  BY ComingNext
<1>2. LineInv'  BY <1>1 DEF LineInv, AllBefore
<1> QED  BY <1>1, <1>2 DEF LineMoves, Pending, HandTypes

\* A detection is queued.
LEMMA LineQueues ==
  ASSUME HandTypes, LineInv, Detected, next' = next + 1, UNCHANGED wire,
         NEW opens \in BOOLEAN, queue' = Append(queue, [sig |-> Sig, opens |-> opens])
  PROVE  LineMoves /\ Sig \in Signal /\ Sig \in Pending /\ Sig \in Coming
<1>1. /\ next' \in 1..(Len(Detections) + 1) /\ Sig \in Signal /\ Sig \in Coming
      /\ Coming' \subseteq Coming /\ AllBefore({Sig}, Coming')
  BY ComingNext
<1>2. PICK e : e = [sig |-> Sig, opens |-> opens]  OBVIOUS
<1>3. e \in Entry /\ e.sig = Sig /\ queue' = Append(queue, e)  BY <1>1, <1>2 DEF Entry
<1>4. queue \in Seq(Entry) /\ Sorted(queue)  BY DEF HandTypes, LineInv
<1>5. \A i \in DOMAIN queue : Follows(queue[i].sig, e.sig)
  BY <1>1, <1>3 DEF LineInv, AllBefore, SigsOf
<1>6. Sorted(queue') /\ SigsOf(queue') = SigsOf(queue) \cup {Sig}  BY <1>3, <1>4, <1>5, SortedAppend
<1>7. queue' \in Seq(Entry)  BY <1>3, <1>4, AppendIs
<1>8. AllBefore(SigsOf(wire), SigsOf(queue'))
  BY <1>1, <1>6 DEF LineInv, AllBefore
<1>9. AllBefore(SigsOf(wire), Coming') /\ AllBefore(SigsOf(queue'), Coming')
  BY <1>1, <1>6 DEF LineInv, AllBefore
<1>10. LineInv'  BY <1>6, <1>8, <1>9 DEF LineInv
<1>11. Pending' \subseteq Pending  BY <1>1, <1>6 DEF Pending
<1> QED  BY <1>1, <1>7, <1>10, <1>11 DEF LineMoves, Pending, HandTypes

\* An entry leaves the queue for the stream, or is lost on the way.
LEMMA LineEmits ==
  ASSUME HandTypes, LineInv, queue # <<>>, queue' = Tail(queue), UNCHANGED next,
         wire' = Append(wire, Head(queue)) \/ wire' = wire
  PROVE  LineMoves /\ Head(queue) \in Entry /\ Head(queue).sig \in Pending
         /\ (wire' = wire => \A sig \in Pending' : IdOfSignal(sig) # IdOfSignal(Head(queue).sig))
<1>1. queue \in Seq(Entry) /\ Sorted(queue) /\ wire \in Seq(Entry) /\ Sorted(wire)
  BY DEF HandTypes, LineInv
<1>2. PICK e : e = Head(queue)  OBVIOUS
<1>3. /\ Sorted(queue') /\ \A i \in DOMAIN queue' : Follows(e.sig, queue'[i].sig)
      /\ SigsOf(queue') \subseteq SigsOf(queue) /\ e.sig \in SigsOf(queue)
  BY <1>1, <1>2, SortedTail
<1>4. queue' \in Seq(Entry) /\ e \in Entry  BY <1>1, <1>2, TailIs
<1>5. Coming' = Coming  BY DEF Coming
<1>6. AllBefore({e.sig}, SigsOf(queue')) /\ AllBefore({e.sig}, Coming)
  BY <1>3 DEF AllBefore, SigsOf, LineInv
<1>7. CASE wire' = Append(wire, Head(queue))
  <2>1. \A i \in DOMAIN wire : Follows(wire[i].sig, e.sig)
    BY <1>3 DEF LineInv, AllBefore, SigsOf
  <2>2. wire' \in Seq(Entry) /\ Sorted(wire') /\ SigsOf(wire') = SigsOf(wire) \cup {e.sig}
    BY <1>1, <1>2, <1>4, <1>7, <2>1, SortedAppend, AppendIs
  <2>3. AllBefore(SigsOf(wire'), SigsOf(queue'))  BY <1>3, <1>6, <2>2 DEF LineInv, AllBefore
  <2>4. AllBefore(SigsOf(wire'), Coming) /\ AllBefore(SigsOf(queue'), Coming)
    BY <1>3, <1>6, <2>2 DEF LineInv, AllBefore
  <2>5. LineInv'  BY <1>3, <1>5, <2>2, <2>3, <2>4 DEF LineInv
  <2>6. Pending' \subseteq Pending  BY <1>3, <1>5, <2>2 DEF Pending
  <2>7. wire' # wire  BY <1>1, <1>4, <1>7, <1>2
  <2> QED  BY <1>2, <1>3, <1>4, <2>2, <2>5, <2>6, <2>7 DEF LineMoves, Pending, HandTypes
<1>8. CASE wire' = wire
  <2>1. LineInv'  BY <1>3, <1>5, <1>8 DEF LineInv, AllBefore
  <2>2. Pending' \subseteq Pending  BY <1>3, <1>5, <1>8 DEF Pending
  <2>3. \A sig \in Pending' : IdOfSignal(sig) # IdOfSignal(e.sig)
    <3>1. \A sig \in SigsOf(queue') \cup Coming : IdOfSignal(sig) # IdOfSignal(e.sig)
      BY <1>6 DEF AllBefore, Follows
    <3>2. \A sig \in SigsOf(wire) : IdOfSignal(sig) # IdOfSignal(e.sig)
      BY <1>3 DEF LineInv, AllBefore, Follows
    <3> QED  BY <1>5, <1>8, <3>1, <3>2 DEF Pending
  <2> QED  BY <1>2, <1>3, <1>4, <1>8, <2>1, <2>2, <2>3 DEF LineMoves, Pending, HandTypes
<1> QED  BY <1>7, <1>8

\* A restarted producer: an empty queue, and on the stream only updates.
LEMMA LineRestarts ==
  ASSUME HandTypes, LineInv, queue' = <<>>, UNCHANGED next,
         wire' = [i \in DOMAIN wire |-> [wire[i] EXCEPT !.opens = FALSE]]
  PROVE  LineMoves /\ \A i \in DOMAIN wire' : ~wire'[i].opens
<1>1. wire \in Seq(Entry) /\ DOMAIN wire = 1..Len(wire) /\ Len(wire) \in Nat  BY DEF HandTypes
<1>2. \A i \in DOMAIN wire : /\ wire[i] \in Entry /\ wire'[i] \in Entry
                             /\ wire'[i].sig = wire[i].sig /\ wire'[i].opens = FALSE
  <2> TAKE i \in DOMAIN wire
  <2>1. wire[i] \in Entry  BY <1>1
  <2>2. wire'[i] = [wire[i] EXCEPT !.opens = FALSE]  OBVIOUS
  <2> QED  BY <2>1, <2>2 DEF Entry
<1>3. DOMAIN wire' = DOMAIN wire  OBVIOUS
<1>4. wire' \in Seq(Entry)
  <2>1. wire' \in [1..Len(wire) -> Entry]  BY <1>1, <1>2, <1>3
  <2> QED  BY <1>1, <2>1
<1>5. Sorted(wire') /\ SigsOf(wire') = SigsOf(wire)  BY <1>2, <1>3 DEF LineInv, Sorted, SigsOf
<1>6. Sorted(queue') /\ SigsOf(queue') = {} /\ queue' \in Seq(Entry)  BY DEF Sorted, SigsOf
<1>7. Coming' = Coming  BY DEF Coming
<1>8. LineInv'  BY <1>5, <1>6, <1>7 DEF LineInv, AllBefore
<1>9. Pending' \subseteq Pending  BY <1>5, <1>6, <1>7 DEF Pending
<1> QED  BY <1>2, <1>3, <1>4, <1>6, <1>8, <1>9 DEF LineMoves, HandTypes

\* A restarted OMS: an empty stream.
LEMMA LineCuts ==
  ASSUME HandTypes, LineInv, wire' = <<>>, UNCHANGED <<next, queue>>
  PROVE  LineMoves
<1>1. Sorted(wire') /\ SigsOf(wire') = {} /\ wire' \in Seq(Entry)  BY DEF Sorted, SigsOf
<1>2. Coming' = Coming  BY DEF Coming
<1>3. LineInv'  BY <1>1, <1>2 DEF LineInv, AllBefore
<1> QED  BY <1>1, <1>2, <1>3 DEF LineMoves, Pending, HandTypes
\* What is pending are detections of the session.
LEMMA PendingSignals ==
  ASSUME HandTypes
  PROVE  Pending \subseteq Signal
<1>1. Detections \in Seq(Signal) /\ next \in 1..(Len(Detections) + 1)  BY HandoffConstants DEF HandTypes
<1>2. Coming \subseteq Signal  BY <1>1 DEF Coming
<1>3. \A s \in Seq(Entry) : SigsOf(s) \subseteq Signal
  <2> TAKE s \in Seq(Entry)
  <2>1. \A i \in DOMAIN s : s[i] \in Entry  OBVIOUS
  <2>2. \A e \in Entry : e.sig \in Signal  BY DEF Entry
  <2> QED  BY <2>1, <2>2 DEF SigsOf
<1> QED  BY <1>2, <1>3 DEF Pending, HandTypes

------------------------------------------------------------------------------
(* The episodes under way.                                                  *)

\* An entry carries an episode only for its own detection.
LEMMA OpenersHave ==
  ASSUME NEW s, NEW x \in Openers(s)
  PROVE  \E sig \in SigsOf(s) : x = IdOfSignal(sig)
<1>1. PICK i \in DOMAIN s : x \in Opener(s[i])  BY DEF Openers
<1>2. x = IdOfSignal(s[i].sig)  BY <1>1 DEF Opener
<1> QED  BY <1>2 DEF SigsOf

\* What the head opened is all that taking it removes.
LEMMA OpenersTail ==
  ASSUME NEW s \in Seq(Entry), s # <<>>
  PROVE  Openers(s) = Opener(Head(s)) \cup Openers(Tail(s))
<1>1. /\ 1 \in DOMAIN s /\ Head(s) = s[1]
      /\ \A i \in DOMAIN Tail(s) : i + 1 \in DOMAIN s /\ Tail(s)[i] = s[i + 1]
  BY TailIs
<1>2. \A j \in DOMAIN s : j = 1 \/ (j - 1 \in DOMAIN Tail(s) /\ Tail(s)[j - 1] = s[j])
  OBVIOUS
<1>3. ASSUME NEW x \in Openers(s)  PROVE x \in Opener(Head(s)) \cup Openers(Tail(s))
  <2>1. PICK j \in DOMAIN s : x \in Opener(s[j])  BY DEF Openers
  <2> QED  BY <1>1, <1>2, <2>1 DEF Openers
<1>4. ASSUME NEW x \in Opener(Head(s)) \cup Openers(Tail(s))  PROVE x \in Openers(s)
  <2>1. CASE x \in Opener(Head(s))  BY <1>1, <2>1 DEF Openers
  <2>2. CASE x \in Openers(Tail(s))
    <3>1. PICK i \in DOMAIN Tail(s) : x \in Opener(Tail(s)[i])  BY <2>2 DEF Openers
    <3> QED  BY <1>1, <3>1 DEF Openers
  <2> QED  BY <1>4, <2>1, <2>2
<1> QED  BY <1>3, <1>4

\* What a new entry opened is all that it adds.
LEMMA OpenersAppend ==
  ASSUME NEW s \in Seq(Entry), NEW e \in Entry
  PROVE  Openers(Append(s, e)) = Openers(s) \cup Opener(e)
<1>0. PICK t : t = Append(s, e)  OBVIOUS
<1>1. /\ \A i \in DOMAIN t : \/ i \in DOMAIN s /\ t[i] = s[i]
                             \/ i = Len(s) + 1 /\ t[i] = e
      /\ \A i \in DOMAIN s : i \in DOMAIN t /\ t[i] = s[i]
      /\ Len(s) + 1 \in DOMAIN t /\ t[Len(s) + 1] = e
  BY <1>0, AppendIs
<1>2. ASSUME NEW x \in Openers(t)  PROVE x \in Openers(s) \cup Opener(e)
  <2>1. PICK i \in DOMAIN t : x \in Opener(t[i])  BY DEF Openers
  <2> QED  BY <1>1, <2>1 DEF Openers
<1>3. ASSUME NEW x \in Openers(s) \cup Opener(e)  PROVE x \in Openers(t)
  <2>1. CASE x \in Openers(s)
    <3>1. PICK i \in DOMAIN s : x \in Opener(s[i])  BY <2>1 DEF Openers
    <3> QED  BY <1>1, <3>1 DEF Openers
  <2>2. CASE x \in Opener(e)  BY <1>1, <2>2 DEF Openers
  <2> QED  BY <1>3, <2>1, <2>2
<1> QED  BY <1>0, <1>2, <1>3

\* An episode under way belongs to a pending detection.
LEMMA FlightPending ==
  ASSUME HandTypes, NEW x \in InFlight
  PROVE  x \in Ids /\ \E sig \in Pending : x = IdOfSignal(sig)
<1>1. x \in Openers(queue) \/ x \in Openers(wire)  BY DEF InFlight
<1>2. PICK sig \in SigsOf(queue) \cup SigsOf(wire) : x = IdOfSignal(sig)
  <2>1. ASSUME x \in Openers(queue)  PROVE \E sig \in SigsOf(queue) : x = IdOfSignal(sig)
    BY <2>1, OpenersHave
  <2>2. ASSUME x \in Openers(wire)  PROVE \E sig \in SigsOf(wire) : x = IdOfSignal(sig)
    BY <2>2, OpenersHave
  <2> QED  BY <1>1, <2>1, <2>2
<1>3. sig \in Pending  BY DEF Pending
<1>4. sig \in Signal  BY <1>3, PendingSignals
<1> QED  BY <1>2, <1>3, <1>4, SigParts
------------------------------------------------------------------------------
(* What the actions have in common.                                         *)

\* What the OMS holds stays older than what is pending, as long as it opens nothing
\* and a durable row is only replaced by the ledger's.
LEMMA HeldKept ==
  ASSUME HandTypes, HeldInv, Pending' \subseteq Pending,
         \A id \in Ids : /\ book'.episodes[id].state = "absent" <=> book.episodes[id].state = "absent"
                         /\ book'.episodes[id].lo <= book.episodes[id].lo,
         book'.episodes \in Rows,
         \A id \in Ids : rows'[id] = rows[id] \/ rows'[id] = book'.episodes[id],
         state' = state \/ state' = book'.episodes
  PROVE  HeldInv'
<1>1. PICK a, b : a = book.episodes /\ b = book'.episodes  OBVIOUS
<1>2. PICK q, r : q = rows /\ r = rows'  OBVIOUS
<1>3. a \in Rows /\ b \in Rows /\ q \in Rows  BY <1>1, <1>2 DEF HandTypes, IsLedger
<1>4. Pending \subseteq Signal  BY PendingSignals
<1>5. \A id \in Ids : (b[id].state = "absent" <=> a[id].state = "absent") /\ b[id].lo <= a[id].lo
  BY <1>1
<1>6. \A id \in Ids : a[id].lo \in Nat /\ b[id].lo \in Nat  BY <1>3 DEF Rows, Episode
<1>7. \A sig \in Pending' : sig \in Pending /\ sig.hi \in Nat  BY <1>4, SigParts
<1>8. Present(b) = Present(a)  BY <1>5 DEF Present
<1>9. \A id \in Present(a), sig \in Pending : a[id].lo <= sig.hi  BY <1>1 DEF HeldInv, Older
<1>10. \A id \in Present(b), sig \in Pending' : b[id].lo <= sig.hi
  <2> TAKE id \in Present(b), sig \in Pending'
  <2>1. id \in Ids /\ a[id].lo <= sig.hi  BY <1>7, <1>8, <1>9 DEF Present
  <2>2. a[id].lo \in Nat /\ b[id].lo \in Nat /\ sig.hi \in Nat /\ b[id].lo <= a[id].lo
    BY <1>5, <1>6, <1>7, <2>1
  <2> QED  BY <2>1, <2>2
<1>11. \A id \in Present(r), sig \in Pending' : r[id].lo <= sig.hi
  <2> TAKE id \in Present(r), sig \in Pending'
  <2>1. id \in Ids /\ r[id].state # "absent" /\ (r[id] = q[id] \/ r[id] = b[id])
    BY <1>1, <1>2 DEF Present
  <2>2. CASE r[id] = q[id]
    <3>1. id \in Present(q)  BY <2>1, <2>2 DEF Present
    <3>2. q[id].lo <= sig.hi  BY <1>2, <1>7, <3>1 DEF HeldInv, Older
    <3> QED  BY <2>2, <3>2
  <2>3. CASE r[id] = b[id]
    <3>1. id \in Present(b)  BY <2>1, <2>3 DEF Present
    <3> QED  BY <1>10, <2>3, <3>1
  <2> QED  BY <2>1, <2>2, <2>3
<1>12. Present(r) \subseteq Present(b)
  <2> SUFFICES ASSUME NEW id \in Present(r)  PROVE id \in Present(b)  OBVIOUS
  <2>1. id \in Ids /\ r[id].state # "absent" /\ (r[id] = q[id] \/ r[id] = b[id])
    BY <1>1, <1>2 DEF Present
  <2>2. CASE r[id] = q[id]
    <3>1. id \in Present(q)  BY <2>1, <2>2 DEF Present
    <3> QED  BY <1>1, <1>2, <1>8, <3>1 DEF HeldInv
  <2>3. CASE r[id] = b[id]  BY <2>1, <2>3 DEF Present
  <2> QED  BY <2>1, <2>2, <2>3
<1>13. Present(state') \subseteq Present(b)  BY <1>1, <1>8 DEF HeldInv
<1>14. \A sig \in Pending' : IdOfSignal(sig) \notin Present(b)
  BY <1>1, <1>7, <1>8 DEF HeldInv, Unheld
<1> QED  BY <1>1, <1>2, <1>10, <1>11, <1>12, <1>13, <1>14 DEF HeldInv, Older, Unheld

\* The reservations stay accounted for while the producer's episodes keep their states:
\* what is no longer under way is dropped or held by the OMS.
LEMMA SlotKept ==
  ASSUME HandTypes, SlotInv, Pending' \subseteq Pending,
         ActiveIds(prod'.episodes) = ActiveIds(prod.episodes), prod'.count = prod.count,
         InFlight' \cup dropped' \subseteq InFlight \cup dropped,
         InFlight \cup dropped \cup Present(book.episodes) \cup Present(state)
           \subseteq InFlight' \cup dropped' \cup Present(book'.episodes) \cup Present(state'),
         \A x \in dropped' \ dropped : \A sig \in Pending' : x # IdOfSignal(sig),
         dropped' \cap Present(book'.episodes) = {}
  PROVE  SlotInv'
<1>1. Unheld(dropped)'  BY DEF SlotInv, Unheld
<1>2. SlotAccounted'  BY DEF SlotInv, SlotAccounted
<1>3. (InFlight \cup dropped)' \subseteq ActiveIds(prod'.episodes)  BY DEF SlotInv
<1> QED  BY <1>1, <1>2, <1>3 DEF SlotInv

\* Nothing dropped, nothing opened: the episodes under way are the same.
LEMMA FlightStays ==
  ASSUME UNCHANGED <<queue, wire>>
  PROVE  InFlight' = InFlight
BY DEF InFlight

\* A step of the producer: the OMS holds what it held.
LEMMA HeldProducer ==
  ASSUME HandTypes, HeldInv, LineMoves, UNCHANGED <<book, rows, state>>
  PROVE  HeldInv'
<1>1. book'.episodes \in Rows /\ book.episodes \in Rows  BY DEF HandTypes, IsLedger
<1>2. PICK a : a = book.episodes  OBVIOUS
<1>3. \A id \in Ids : a[id].lo <= a[id].lo
  <2>1. \A id \in Ids : a[id].lo \in Nat  BY <1>1, <1>2 DEF Rows, Episode
  <2> QED  BY <2>1
<1> QED  BY <1>1, <1>2, <1>3, HeldKept DEF LineMoves

\* What is neither dropped nor pending: an episode under way.
LEMMA FlightApart ==
  ASSUME HandTypes, HeldInv, SlotInv
  PROVE  /\ InFlight \cap Present(book.episodes) = {} /\ dropped \cap Present(book.episodes) = {}
         /\ InFlight \cap Present(state) = {} /\ dropped \cap Present(state) = {}
         /\ \A sig \in Coming : IdOfSignal(sig) \notin dropped
<1>1. \A x \in InFlight : \E sig \in Pending : x = IdOfSignal(sig)  BY FlightPending
<1>2. \A sig \in Pending : IdOfSignal(sig) \notin Present(book.episodes)  BY DEF HeldInv, Unheld
<1>3. Coming \subseteq Pending  BY DEF Pending
<1> QED  BY <1>1, <1>2, <1>3 DEF HeldInv, SlotInv, Unheld

\* A detection still to come has no entry under way.
LEMMA FlightNotComing ==
  ASSUME HandTypes, LineInv, NEW x \in InFlight, NEW sig \in Coming
  PROVE  x # IdOfSignal(sig)
<1>1. x \in Openers(queue) \/ x \in Openers(wire)  BY DEF InFlight
<1>2. CASE x \in Openers(queue)
  <2>1. PICK old \in SigsOf(queue) : x = IdOfSignal(old)  BY <1>2, OpenersHave
  <2> QED  BY <2>1 DEF LineInv, AllBefore, Follows
<1>3. CASE x \in Openers(wire)
  <2>1. PICK old \in SigsOf(wire) : x = IdOfSignal(old)  BY <1>3, OpenersHave
  <2> QED  BY <2>1 DEF LineInv, AllBefore, Follows
<1> QED  BY <1>1, <1>2, <1>3

------------------------------------------------------------------------------
(* The steps of the producer.                                               *)

\* A detection that is turned down.
LEMMA OfferRefusedPreserves ==
  ASSUME HandInv, OfferRefused
  PROVE  HandInv'
<1>1. LineMoves  BY LineSkips DEF HandInv, OfferRefused
<1>2. HandTypes'  BY <1>1 DEF HandInv, HandTypes, OfferRefused, LineMoves
<1>3. HeldInv'  BY <1>1, HeldProducer DEF HandInv, OfferRefused
<1>4. SlotInv'
  <2>1. InFlight' = InFlight  BY FlightStays DEF OfferRefused
  <2>2. dropped \cap Present(book.episodes) = {}  BY DEF HandInv, SlotInv
  <2> QED  BY <1>1, <2>1, <2>2, SlotKept DEF HandInv, OfferRefused, LineMoves
<1> QED  BY <1>1, <1>2, <1>3, <1>4 DEF HandInv, LineMoves

\* An update of a known move, queued or not.
LEMMA OfferMergedPreserves ==
  ASSUME HandInv, OfferMerged
  PROVE  HandInv'
<1>1. HandTypes /\ LineInv /\ HeldInv /\ SlotInv  BY DEF HandInv
<1>2. /\ Detected /\ next' = next + 1 /\ prod' = Merged(prod, Sig)
      /\ UNCHANGED <<wire, book, rows, state, lost, dropped, crashes>>
      /\ queue' = Append(queue, [sig |-> Sig, opens |-> FALSE]) \/ queue' = queue
  BY DEF OfferMerged
<1>3. PICK e : e = [sig |-> Sig, opens |-> FALSE]  OBVIOUS
<1>4. LineMoves /\ Sig \in Signal
  <2>1. CASE queue' = queue  BY <1>1, <1>2, <2>1, LineSkips
  <2>2. CASE queue' = Append(queue, [sig |-> Sig, opens |-> FALSE])
    BY <1>1, <1>2, <2>2, LineQueues
  <2> QED  BY <1>2, <2>1, <2>2
<1>5. e \in Entry /\ ~e.opens  BY <1>3, <1>4 DEF Entry
<1>6. Opener(e) = {}  BY <1>5 DEF Opener
<1>7. queue \in Seq(Entry) /\ IsLedger(prod)  BY <1>1 DEF HandTypes
<1>8. InFlight' = InFlight
  <2>1. Openers(queue') = Openers(queue)
    <3>1. Openers(Append(queue, e)) = Openers(queue)  BY <1>5, <1>6, <1>7, OpenersAppend
    <3> QED  BY <1>2, <1>3, <3>1
  <2> QED  BY <1>2, <2>1 DEF InFlight
<1>9. PICK L, M, sig : L = prod /\ M = prod' /\ sig = Sig  OBVIOUS
<1>10. /\ IsLedger(M) /\ M.count = L.count
       /\ \A id \in Ids : M.episodes[id].state = L.episodes[id].state
  BY <1>2, <1>4, <1>7, <1>9, MergedShape
<1>11. ActiveIds(prod'.episodes) = ActiveIds(prod.episodes) /\ prod'.count = prod.count
  BY <1>9, <1>10 DEF ActiveIds
<1>12. HandTypes'  BY <1>1, <1>2, <1>4, <1>9, <1>10 DEF HandTypes, LineMoves
<1>13. HeldInv'  BY <1>1, <1>2, <1>4, HeldProducer
<1>14. SlotInv'
  <2>1. dropped \cap Present(book.episodes) = {}  BY <1>1 DEF SlotInv
  <2> QED  BY <1>1, <1>2, <1>4, <1>8, <1>11, <2>1, SlotKept DEF LineMoves
<1> QED  BY <1>4, <1>12, <1>13, <1>14 DEF HandInv, LineMoves

\* A fresh episode: one reservation more, one entry more under way.
LEMMA OfferOpenedPreserves ==
  ASSUME HandInv, OfferOpened
  PROVE  HandInv'
<1>1. HandTypes /\ LineInv /\ HeldInv /\ SlotInv  BY DEF HandInv
<1>2. /\ Detected /\ next' = next + 1 /\ prod' = Opened(prod, Sig) /\ prod.count < Capacity
      /\ UNCHANGED <<wire, book, rows, state, lost, dropped, crashes>>
      /\ queue' = Append(queue, [sig |-> Sig, opens |-> TRUE])
  BY DEF OfferOpened, Opens
<1>3. PICK e : e = [sig |-> Sig, opens |-> TRUE]  OBVIOUS
<1>4. LineMoves /\ Sig \in Signal  BY <1>1, <1>2, LineQueues
<1>5. e \in Entry /\ e.opens /\ e.sig = Sig  BY <1>3, <1>4 DEF Entry
<1>6. queue \in Seq(Entry) /\ IsLedger(prod)  BY <1>1 DEF HandTypes
<1>7. PICK L, M, sig, own : L = prod /\ M = prod' /\ sig = Sig /\ own = IdOfSignal(sig)  OBVIOUS
<1>8. InFlight' = InFlight \cup {own}
  <2>1. Opener(e) = {own}  BY <1>5, <1>7 DEF Opener
  <2>2. Openers(queue') = Openers(queue) \cup {own}
    <3>1. Openers(Append(queue, e)) = Openers(queue) \cup Opener(e)  BY <1>5, <1>6, OpenersAppend
    <3> QED  BY <1>2, <1>3, <2>1, <3>1
  <2> QED  BY <1>2, <2>2 DEF InFlight
<1>9. /\ IsLedger(M) /\ M.count = L.count + 1
      /\ M.episodes[own] = Opening(sig)
      /\ \A id \in Ids : id # own => M.episodes[id] = L.episodes[id]
  BY <1>2, <1>4, <1>6, <1>7, OpenedShape
<1>10. own \in Ids /\ Opening(sig).state \in ActiveStates
  BY <1>4, <1>7, SigParts, OpeningIs DEF ActiveStates
<1>11. ActiveIds(M.episodes) = ActiveIds(L.episodes) \cup {own}  BY <1>9, <1>10 DEF ActiveIds
<1>12. HandTypes'  BY <1>1, <1>2, <1>4, <1>7, <1>9 DEF HandTypes, LineMoves
<1>13. HeldInv'  BY <1>1, <1>2, <1>4, HeldProducer
<1>14. SlotInv'
  <2>1. Unheld(dropped)'  BY <1>1, <1>2, <1>4 DEF SlotInv, Unheld, LineMoves
  <2>2. SlotAccounted'  BY <1>1, <1>2, <1>7, <1>8, <1>11 DEF SlotInv, SlotAccounted
  <2>3. (InFlight \cup dropped)' \subseteq ActiveIds(prod'.episodes)
    BY <1>1, <1>2, <1>7, <1>8, <1>11 DEF SlotInv
  <2>4. Cardinality(ActiveIds(M.episodes)) <= M.count /\ M.count <= Capacity
    <3>1. PICK n, m, c, d : /\ n = Cardinality(ActiveIds(L.episodes)) /\ c = L.count
                            /\ m = Cardinality(ActiveIds(M.episodes)) /\ d = M.count
      OBVIOUS
    <3>2. m <= n + 1 /\ n \in Nat /\ m \in Nat  BY <1>11, <3>1, ActiveOneMore, ActiveCounts
    <3>3. n <= c /\ c < Capacity /\ d = c + 1  BY <1>1, <1>2, <1>7, <1>9, <3>1 DEF SlotInv
    <3>4. c \in Int /\ Capacity \in Nat  BY <1>6, <1>7, <3>1, LedgerConstants DEF IsLedger
    <3>5. m <= d /\ d <= Capacity  BY <3>2, <3>3, <3>4
    <3> QED  BY <3>1, <3>5
  <2>5. dropped' \cap Present(book'.episodes) = {}  BY <1>1, <1>2 DEF SlotInv
  <2> QED  BY <1>7, <2>1, <2>2, <2>3, <2>4, <2>5 DEF SlotInv
<1> QED  BY <1>4, <1>12, <1>13, <1>14 DEF HandInv, LineMoves

\* A fresh episode and a full queue: the reservation taken is the reservation released.
LEMMA OfferFullPreserves ==
  ASSUME HandInv, OfferFull
  PROVE  HandInv'
<1>1. HandTypes /\ LineInv /\ HeldInv /\ SlotInv  BY DEF HandInv
<1>2. /\ Detected /\ next' = next + 1
      /\ prod' = Reconciled(Opened(prod, Sig), IdOfSignal(Sig), 0, 0, TRUE, FALSE, 0)
      /\ UNCHANGED <<queue, wire, book, rows, state, lost, dropped, crashes>>
  BY DEF OfferFull
<1>3. LineMoves /\ Sig \in Signal /\ Sig \in Coming  BY <1>1, <1>2, LineSkips
<1>4. IsLedger(prod)  BY <1>1 DEF HandTypes
<1>5. PICK L, M, N, sig, own : /\ L = prod /\ M = Opened(prod, Sig) /\ N = prod'
                               /\ sig = Sig /\ own = IdOfSignal(sig)
  OBVIOUS
<1>6. own \in Ids /\ Opening(sig).state \in ActiveStates
  BY <1>3, <1>5, SigParts, OpeningIs DEF ActiveStates
<1>7. /\ IsLedger(M) /\ M.count = L.count + 1 /\ M.episodes[own] = Opening(sig)
      /\ \A id \in Ids : id # own => M.episodes[id] = L.episodes[id]
  BY <1>3, <1>4, <1>5, OpenedShape
<1>8. /\ IsLedger(N) /\ N.count = M.count - One(M.episodes[own].state \in ActiveStates)
      /\ N.episodes[own].state \in TerminalStates
      /\ \A id \in Ids : id # own => N.episodes[id] = M.episodes[id]
  <2>1. PICK n : n \in Nat /\ n = 0  OBVIOUS
  <2>2. N = Ended(M, own, n)  BY <1>2, <1>5, <2>1 DEF Ended
  <2> QED  BY <1>6, <1>7, <2>1, <2>2, EndedShape
<1>9. N.count = L.count
  <2>1. One(M.episodes[own].state \in ActiveStates) = 1  BY <1>6, <1>7 DEF One
  <2>2. PICK c, d, k : c = L.count /\ d = M.count /\ k = N.count  OBVIOUS
  <2>3. c \in Int /\ d = c + 1 /\ k = d - 1  BY <1>4, <1>5, <1>7, <1>8, <2>1, <2>2 DEF IsLedger
  <2>4. k = c  BY <2>3
  <2> QED  BY <2>2, <2>4
<1>10. N.episodes[own].state \notin ActiveStates  BY <1>8 DEF ActiveStates, TerminalStates
<1>11. ActiveIds(N.episodes) = ActiveIds(L.episodes) \ {own}
  <2>1. \A id \in Ids : id # own => N.episodes[id] = L.episodes[id]  BY <1>7, <1>8
  <2> QED  BY <1>6, <1>10, <2>1 DEF ActiveIds
<1>12. own \notin InFlight \cup dropped
  <2>1. own \notin InFlight  BY <1>1, <1>3, <1>5, FlightNotComing
  <2>2. own \notin dropped  BY <1>1, <1>3, <1>5, FlightApart
  <2> QED  BY <2>1, <2>2
<1>13. HandTypes'  BY <1>1, <1>2, <1>3, <1>5, <1>8 DEF HandTypes, LineMoves
<1>14. HeldInv'  BY <1>1, <1>2, <1>3, HeldProducer
<1>15. SlotInv'
  <2>1. InFlight' = InFlight  BY <1>2, FlightStays
  <2>2. Unheld(dropped)'  BY <1>1, <1>2, <1>3 DEF SlotInv, Unheld, LineMoves
  <2>3. SlotAccounted'  BY <1>1, <1>2, <1>5, <1>11, <2>1 DEF SlotInv, SlotAccounted
  <2>4. (InFlight \cup dropped)' \subseteq ActiveIds(prod'.episodes)
    BY <1>1, <1>2, <1>5, <1>11, <1>12, <2>1 DEF SlotInv
  <2>5. Cardinality(ActiveIds(N.episodes)) <= N.count /\ N.count <= Capacity
    <3>1. PICK n, m, c : /\ n = Cardinality(ActiveIds(L.episodes)) /\ c = L.count
                         /\ m = Cardinality(ActiveIds(N.episodes))
      OBVIOUS
    <3>2. ActiveIds(N.episodes) \subseteq ActiveIds(L.episodes)  BY <1>11
    <3>3. m <= n /\ n \in Nat /\ m \in Nat  BY <3>1, <3>2, ActiveFewer, ActiveCounts
    <3>4. n <= c /\ c <= Capacity /\ c \in Int  BY <1>1, <1>4, <1>5, <3>1 DEF SlotInv, IsLedger
    <3>5. m <= c  BY <3>3, <3>4
    <3> QED  BY <1>9, <3>1, <3>4, <3>5
  <2>6. dropped' \cap Present(book'.episodes) = {}  BY <1>1, <1>2 DEF SlotInv
  <2> QED  BY <1>5, <2>2, <2>3, <2>4, <2>5, <2>6 DEF SlotInv
<1> QED  BY <1>3, <1>13, <1>14, <1>15 DEF HandInv, LineMoves

\* An entry reaches the stream: what is under way stays under way.
LEMMA EmitPreserves ==
  ASSUME HandInv, Emit
  PROVE  HandInv'
<1>1. HandTypes /\ LineInv /\ HeldInv /\ SlotInv  BY DEF HandInv
<1>2. /\ queue # <<>> /\ queue' = Tail(queue) /\ wire' = Append(wire, Head(queue))
      /\ UNCHANGED <<next, prod, book, rows, state, lost, dropped, crashes>>
  BY DEF Emit
<1>3. LineMoves /\ Head(queue) \in Entry  BY <1>1, <1>2, LineEmits
<1>4. queue \in Seq(Entry) /\ wire \in Seq(Entry)  BY <1>1 DEF HandTypes
<1>5. PICK e : e = Head(queue)  OBVIOUS
<1>6. InFlight' = InFlight
  <2>1. Openers(queue) = Opener(e) \cup Openers(queue')  BY <1>2, <1>4, <1>5, OpenersTail
  <2>2. Openers(wire') = Openers(wire) \cup Opener(e)  BY <1>2, <1>3, <1>4, <1>5, OpenersAppend
  <2> QED  BY <2>1, <2>2 DEF InFlight
<1>7. HandTypes'  BY <1>1, <1>2, <1>3 DEF HandTypes, LineMoves
<1>8. HeldInv'  BY <1>1, <1>2, <1>3, HeldProducer
<1>9. SlotInv'
  <2>1. dropped \cap Present(book.episodes) = {}  BY <1>1 DEF SlotInv
  <2> QED  BY <1>1, <1>2, <1>3, <1>6, <2>1, SlotKept DEF LineMoves
<1> QED  BY <1>3, <1>7, <1>8, <1>9 DEF HandInv, LineMoves

\* A lost entry: its episode is dropped and no later detection carries its identity.
LEMMA EmitLostPreserves ==
  ASSUME HandInv, EmitLost
  PROVE  HandInv'
<1>1. HandTypes /\ LineInv /\ HeldInv /\ SlotInv  BY DEF HandInv
<1>2. /\ queue # <<>> /\ queue' = Tail(queue) /\ dropped' = dropped \cup Opener(Head(queue))
      /\ UNCHANGED <<next, prod, wire, book, rows, state, crashes>>
  BY DEF EmitLost
<1>3. /\ LineMoves /\ Head(queue) \in Entry /\ Head(queue).sig \in Pending
      /\ \A sig \in Pending' : IdOfSignal(sig) # IdOfSignal(Head(queue).sig)
  BY <1>1, <1>2, LineEmits
<1>4. queue \in Seq(Entry)  BY <1>1 DEF HandTypes
<1>5. PICK e : e = Head(queue)  OBVIOUS
<1>6. InFlight = Opener(e) \cup InFlight'
  <2>1. Openers(queue) = Opener(e) \cup Openers(queue')  BY <1>2, <1>4, <1>5, OpenersTail
  <2> QED  BY <1>2, <2>1 DEF InFlight
<1>7. \A x \in Opener(e) : x = IdOfSignal(e.sig)  BY DEF Opener
<1>8. Opener(e) \subseteq Ids
  <2>1. e.sig \in Signal  BY <1>3, <1>5 DEF Entry
  <2> QED  BY <1>7, <2>1, SigParts
<1>9. Opener(e) \cap Present(book.episodes) = {}
  BY <1>1, <1>3, <1>5, <1>7 DEF HeldInv, Unheld
<1>10. HandTypes'  BY <1>1, <1>2, <1>3, <1>5, <1>8 DEF HandTypes, LineMoves
<1>11. HeldInv'  BY <1>1, <1>2, <1>3, HeldProducer
<1>12. SlotInv'
  <2>1. dropped' \cap Present(book'.episodes) = {}  BY <1>1, <1>2, <1>5, <1>9 DEF SlotInv
  <2>2. \A x \in dropped' \ dropped : \A sig \in Pending' : x # IdOfSignal(sig)
    BY <1>2, <1>3, <1>5, <1>7
  <2>3. InFlight' \cup dropped' = InFlight \cup dropped  BY <1>2, <1>5, <1>6
  <2> QED  BY <1>1, <1>2, <1>3, <2>1, <2>2, <2>3, SlotKept DEF LineMoves
<1> QED  BY <1>3, <1>10, <1>11, <1>12 DEF HandInv, LineMoves

\* A snapshot: only what it holds is replaced, so what is under way or dropped stays
\* reserved, and restore() has counted the rest.
LEMMA ObservePreserves ==
  ASSUME HandInv, Observe
  PROVE  HandInv'
<1>1. HandTypes /\ LineInv /\ HeldInv /\ SlotInv  BY DEF HandInv
<1>2. /\ Restorable(Folded(prod.episodes, state)) /\ prod' = Restored(Folded(prod.episodes, state))
      /\ UNCHANGED <<next, queue, wire, book, rows, state, lost, dropped, crashes>>
  BY DEF Observe
<1>3. PICK own, r : own = prod.episodes /\ r = Folded(prod.episodes, state)  OBVIOUS
<1>4. own \in Rows /\ state \in Rows  BY <1>1, <1>3 DEF HandTypes, IsLedger
<1>5. r = [id \in Ids |-> IF state[id].state # "absent" THEN state[id] ELSE own[id]]
  BY <1>3 DEF Folded
<1>6. r \in Rows  BY <1>4, <1>5 DEF Rows
<1>7. PICK N : N = prod'  OBVIOUS
<1>8. IsLedger(N) /\ N.episodes = r /\ N.count = Cardinality(ActiveIds(r))
  BY <1>2, <1>3, <1>6, <1>7, RestoredShape
<1>9. Cardinality(ActiveIds(r)) <= Capacity  BY <1>2, <1>3 DEF Restorable
<1>10. \A id \in ActiveIds(r) : id \in Present(state) \/ id \in ActiveIds(own)
  BY <1>5 DEF ActiveIds, Present
<1>11. \A id \in ActiveIds(own) : id \in Present(state) \/ id \in ActiveIds(r)
  BY <1>5 DEF ActiveIds, Present
<1>12. LineMoves  BY <1>1, <1>2, LineStays
<1>13. HandTypes'  BY <1>1, <1>2, <1>7, <1>8, <1>12 DEF HandTypes, LineMoves
<1>14. HeldInv'  BY <1>1, <1>2, <1>12, HeldProducer
<1>15. SlotInv'
  <2>1. InFlight' = InFlight  BY <1>2, FlightStays
  <2>2. Unheld(dropped)'  BY <1>1, <1>2, <1>12 DEF SlotInv, Unheld, LineMoves
  <2>3. SlotAccounted'  BY <1>1, <1>2, <1>3, <1>7, <1>8, <1>10, <2>1 DEF SlotInv, SlotAccounted
  <2>4. InFlight \cap Present(state) = {} /\ dropped \cap Present(state) = {}
    BY <1>1, FlightApart
  <2>5. InFlight \cup dropped \subseteq ActiveIds(own)  BY <1>1, <1>3 DEF SlotInv
  <2>6. (InFlight \cup dropped)' \subseteq ActiveIds(N.episodes)
    BY <1>2, <1>8, <1>11, <2>1, <2>4, <2>5
  <2>7. Cardinality(ActiveIds(N.episodes)) <= N.count /\ N.count <= Capacity
    <3>1. Cardinality(ActiveIds(r)) \in Nat  BY ActiveCounts
    <3> QED  BY <1>8, <1>9, <3>1
  <2>8. dropped' \cap Present(book'.episodes) = {}  BY <1>1, <1>2 DEF SlotInv
  <2> QED  BY <1>7, <2>2, <2>3, <2>6, <2>7, <2>8 DEF SlotInv
<1> QED  BY <1>12, <1>13, <1>14, <1>15 DEF HandInv, LineMoves

\* No snapshot to be used: the ledger is not ready, its episodes are as they were.
LEMMA ObserveUnknownPreserves ==
  ASSUME HandInv, ObserveUnknown
  PROVE  HandInv'
<1>1. HandTypes /\ LineInv /\ HeldInv /\ SlotInv  BY DEF HandInv
<1>2. /\ prod' = [prod EXCEPT !.ready = FALSE]
      /\ UNCHANGED <<next, queue, wire, book, rows, state, lost, dropped, crashes>>
  BY DEF ObserveUnknown
<1>3. PICK L, M : L = prod /\ M = prod'  OBVIOUS
<1>4. IsLedger(M) /\ M.episodes = L.episodes /\ M.count = L.count
  <2>1. IsLedger(L) /\ M = [L EXCEPT !.ready = FALSE]  BY <1>1, <1>2, <1>3 DEF HandTypes
  <2> QED  BY <2>1 DEF IsLedger
<1>5. LineMoves  BY <1>1, <1>2, LineStays
<1>6. HandTypes'  BY <1>1, <1>2, <1>3, <1>4, <1>5 DEF HandTypes, LineMoves
<1>7. HeldInv'  BY <1>1, <1>2, <1>5, HeldProducer
<1>8. SlotInv'
  <2>1. InFlight' = InFlight  BY <1>2, FlightStays
  <2>2. ActiveIds(prod'.episodes) = ActiveIds(prod.episodes) /\ prod'.count = prod.count
    BY <1>3, <1>4
  <2>3. dropped \cap Present(book.episodes) = {}  BY <1>1 DEF SlotInv
  <2> QED  BY <1>1, <1>2, <1>5, <2>1, <2>2, <2>3, SlotKept DEF LineMoves
<1> QED  BY <1>5, <1>6, <1>7, <1>8 DEF HandInv, LineMoves

\* An empty ledger.
LEMMA EmptyShape ==
  /\ IsLedger(EmptyLedger) /\ IsLedger(NotReady) /\ NoRows \in Rows
  /\ EmptyLedger.episodes = NoRows /\ NotReady.episodes = NoRows
  /\ Present(NoRows) = {} /\ ActiveIds(NoRows) = {} /\ NotReady.count = 0
<1>1. Absent \in Episode  BY DEF Absent, Episode, Times, NoTime
<1>2. NoRows \in Rows /\ \A id \in Ids : NoRows[id] = Absent  BY <1>1 DEF NoRows, Rows
<1>3. Present(NoRows) = {} /\ ActiveIds(NoRows) = {}
  BY <1>2 DEF Present, ActiveIds, Absent, ActiveStates
<1>4. Cardinality(ActiveIds(NoRows)) = 0  BY <1>3, FS_EmptySet
<1>5. EmptyLedger = Restored(NoRows)  BY DEF EmptyLedger, NoRows
<1>6. PICK L : L = EmptyLedger  OBVIOUS
<1>7. IsLedger(L) /\ L.episodes = NoRows /\ L.count = 0
  BY <1>2, <1>4, <1>5, <1>6, RestoredShape
<1>8. PICK M : M = NotReady  OBVIOUS
<1>9. M = [L EXCEPT !.ready = FALSE]  BY <1>6, <1>8 DEF NotReady
<1>10. IsLedger(M) /\ M.episodes = NoRows /\ M.count = 0  BY <1>7, <1>9 DEF IsLedger
<1> QED  BY <1>2, <1>3, <1>6, <1>7, <1>8, <1>10

\* A restarted producer has no reservation and nothing under way: what is left on the
\* stream are updates of moves it no longer knows.
LEMMA CrashProducerPreserves ==
  ASSUME HandInv, CrashProducer
  PROVE  HandInv'
<1>1. HandTypes /\ LineInv /\ HeldInv /\ SlotInv  BY DEF HandInv
<1>2. /\ prod' = NotReady /\ queue' = <<>> /\ dropped' = {}
      /\ wire' = [i \in DOMAIN wire |-> [wire[i] EXCEPT !.opens = FALSE]]
      /\ UNCHANGED <<next, book, rows, state>>
  BY DEF CrashProducer
<1>3. LineMoves /\ \A i \in DOMAIN wire' : ~wire'[i].opens  BY <1>1, <1>2, LineRestarts
<1>4. InFlight' = {}
  <2>1. Openers(wire') = {}  BY <1>3 DEF Openers, Opener
  <2>2. Openers(queue') = {}  BY <1>2 DEF Openers
  <2> QED  BY <2>1, <2>2 DEF InFlight
<1>5. IsLedger(prod') /\ ActiveIds(prod'.episodes) = {} /\ prod'.count = 0
  BY <1>2, EmptyShape
<1>6. HandTypes'  BY <1>1, <1>2, <1>3, <1>5 DEF HandTypes, LineMoves
<1>7. HeldInv'  BY <1>1, <1>2, <1>3, HeldProducer
<1>8. SlotInv'
  <2>1. Unheld(dropped)' /\ dropped' \cap Present(book'.episodes) = {}  BY <1>2 DEF Unheld
  <2>2. SlotAccounted'  BY <1>5 DEF SlotAccounted
  <2>3. (InFlight \cup dropped)' \subseteq ActiveIds(prod'.episodes)  BY <1>2, <1>4
  <2>4. Cardinality(ActiveIds(prod'.episodes)) = 0  BY <1>5, FS_EmptySet
  <2>5. Cardinality(ActiveIds(prod'.episodes)) <= prod'.count /\ prod'.count <= Capacity
    BY <1>5, <2>4, LedgerConstants
  <2> QED  BY <2>1, <2>2, <2>3, <2>5 DEF SlotInv
<1> QED  BY <1>3, <1>6, <1>7, <1>8 DEF HandInv, LineMoves

------------------------------------------------------------------------------
(* The steps of the OMS.                                                    *)

\* Taking an entry from the stream: what it opened is no longer under way.
LEMMA FlightTaken ==
  ASSUME HandTypes, HeldInv, SlotInv, LineInv, Arrived, wire' = Tail(wire), UNCHANGED <<next, queue>>
  PROVE  /\ InFlight = Opener(Head(wire)) \cup InFlight'
         /\ Opener(Head(wire)) \subseteq Ids /\ Opener(Head(wire)) \subseteq {IdOfSignal(Got)}
         /\ \A sig \in Pending' : IdOfSignal(sig) # IdOfSignal(Got)
         /\ IdOfSignal(Got) \notin Present(book.episodes)
         /\ IdOfSignal(Got) \notin dropped /\ Got.lo <= Got.hi
         /\ \A sig \in Pending' : Got.hi <= sig.hi
<1>1. wire \in Seq(Entry) /\ wire # <<>>  BY DEF HandTypes, Arrived
<1>2. Got \in Signal /\ Got \in Pending /\ AllBefore({Got}, Pending')  BY LineTakes
<1>3. InFlight = Opener(Head(wire)) \cup InFlight'
  <2>1. Openers(wire) = Opener(Head(wire)) \cup Openers(wire')  BY <1>1, OpenersTail
  <2> QED  BY <2>1 DEF InFlight
<1>4. Opener(Head(wire)) \subseteq {IdOfSignal(Got)}  BY DEF Opener, Got
<1>5. IdOfSignal(Got) \in Ids /\ Got.lo <= Got.hi  BY <1>2, SigParts
<1> QED  BY <1>2, <1>3, <1>4, <1>5 DEF AllBefore, Follows, HeldInv, SlotInv, Unheld

\* The OMS turns a detection down.
LEMMA RefusePreserves ==
  ASSUME HandInv, Refuse
  PROVE  HandInv'
<1>1. HandTypes /\ LineInv /\ HeldInv /\ SlotInv  BY DEF HandInv
<1>2. /\ Arrived /\ wire' = Tail(wire) /\ dropped' = dropped \cup Opener(Head(wire))
      /\ UNCHANGED <<next, prod, queue, book, rows, state, lost, crashes>>
  BY DEF Refuse
<1>3. LineMoves  BY <1>1, <1>2, LineTakes
<1>4. PICK o : o = Opener(Head(wire))  OBVIOUS
<1>5. /\ InFlight = o \cup InFlight' /\ o \subseteq Ids /\ o \subseteq {IdOfSignal(Got)}
      /\ \A sig \in Pending' : IdOfSignal(sig) # IdOfSignal(Got)
      /\ IdOfSignal(Got) \notin Present(book.episodes)
  BY <1>1, <1>2, <1>4, FlightTaken
<1>6. HandTypes'  BY <1>1, <1>2, <1>3, <1>4, <1>5 DEF HandTypes, LineMoves
<1>7. HeldInv'  BY <1>1, <1>2, <1>3, HeldProducer
<1>8. SlotInv'
  <2>1. dropped' \cap Present(book'.episodes) = {}  BY <1>1, <1>2, <1>4, <1>5 DEF SlotInv
  <2>2. \A x \in dropped' \ dropped : \A sig \in Pending' : x # IdOfSignal(sig)
    BY <1>2, <1>4, <1>5
  <2>3. InFlight' \cup dropped' = InFlight \cup dropped  BY <1>2, <1>4, <1>5
  <2> QED  BY <1>1, <1>2, <1>3, <2>1, <2>2, <2>3, SlotKept DEF LineMoves
<1> QED  BY <1>3, <1>6, <1>7, <1>8 DEF HandInv, LineMoves

\* The OMS merges it into a move it holds: an interval may start earlier, never later.
LEMMA AdmitMergedPreserves ==
  ASSUME HandInv, AdmitMerged
  PROVE  HandInv'
<1>1. HandTypes /\ LineInv /\ HeldInv /\ SlotInv  BY DEF HandInv
<1>2. /\ Arrived /\ wire' = Tail(wire) /\ dropped' = dropped \cup Opener(Head(wire))
      /\ book' = Merged(book, Got)
      /\ UNCHANGED <<next, prod, queue, rows, state, lost, crashes>>
  BY DEF AdmitMerged
<1>3. LineMoves /\ Got \in Signal  BY <1>1, <1>2, LineTakes
<1>4. PICK o : o = Opener(Head(wire))  OBVIOUS
<1>5. /\ InFlight = o \cup InFlight' /\ o \subseteq Ids /\ o \subseteq {IdOfSignal(Got)}
      /\ \A sig \in Pending' : IdOfSignal(sig) # IdOfSignal(Got)
      /\ IdOfSignal(Got) \notin Present(book.episodes)
  BY <1>1, <1>2, <1>4, FlightTaken
<1>6. PICK L, M, sig : L = book /\ M = book' /\ sig = Got  OBVIOUS
<1>7. /\ IsLedger(M)
      /\ \A id \in Ids : /\ M.episodes[id].state = L.episodes[id].state
                         /\ M.episodes[id].lo <= L.episodes[id].lo
  <2>1. IsLedger(L)  BY <1>1, <1>6 DEF HandTypes
  <2> QED  BY <1>2, <1>3, <1>6, <2>1, MergedShape
<1>8. Present(book'.episodes) = Present(book.episodes)  BY <1>6, <1>7 DEF Present
<1>9. HandTypes'  BY <1>1, <1>2, <1>3, <1>4, <1>5, <1>6, <1>7 DEF HandTypes, LineMoves
<1>10. HeldInv'
  <2>1. book'.episodes \in Rows  BY <1>6, <1>7 DEF IsLedger
  <2> QED  BY <1>1, <1>2, <1>3, <1>6, <1>7, <2>1, HeldKept DEF LineMoves
<1>11. SlotInv'
  <2>1. dropped' \cap Present(book'.episodes) = {}
    BY <1>1, <1>2, <1>4, <1>5, <1>8 DEF SlotInv
  <2>2. \A x \in dropped' \ dropped : \A s \in Pending' : x # IdOfSignal(s)
    BY <1>2, <1>4, <1>5
  <2>3. InFlight' \cup dropped' = InFlight \cup dropped  BY <1>2, <1>4, <1>5
  <2> QED  BY <1>1, <1>2, <1>3, <1>8, <2>1, <2>2, <2>3, SlotKept DEF LineMoves
<1> QED  BY <1>3, <1>9, <1>10, <1>11 DEF HandInv, LineMoves

\* The OMS opens an episode: it starts no later than the detection, and so no later
\* than what is still pending.
LEMMA AdmitOpenedPreserves ==
  ASSUME HandInv, AdmitOpened
  PROVE  HandInv'
<1>1. HandTypes /\ LineInv /\ HeldInv /\ SlotInv  BY DEF HandInv
<1>2. /\ Arrived /\ wire' = Tail(wire) /\ book' = Opened(book, Got)
      /\ UNCHANGED <<next, prod, queue, rows, state, lost, dropped, crashes>>
  BY DEF AdmitOpened
<1>3. LineMoves /\ Got \in Signal  BY <1>1, <1>2, LineTakes
<1>4. PICK o, own, sig : o = Opener(Head(wire)) /\ sig = Got /\ own = IdOfSignal(sig)  OBVIOUS
<1>5. /\ InFlight = o \cup InFlight' /\ o \subseteq {own}
      /\ \A s \in Pending' : IdOfSignal(s) # own
      /\ own \notin dropped /\ sig.lo <= sig.hi /\ \A s \in Pending' : sig.hi <= s.hi
  BY <1>1, <1>2, <1>4, FlightTaken
<1>6. PICK L, M : L = book /\ M = book'  OBVIOUS
<1>7. PICK a, b : a = L.episodes /\ b = M.episodes  OBVIOUS
<1>8. /\ IsLedger(M) /\ b[own] = Opening(sig)
      /\ \A id \in Ids : id # own => b[id] = a[id]
  <2>1. IsLedger(L)  BY <1>1, <1>6 DEF HandTypes
  <2> QED  BY <1>2, <1>3, <1>4, <1>6, <1>7, <2>1, OpenedShape
<1>9. own \in Ids /\ Opening(sig).state = "claimed" /\ Opening(sig).lo = sig.lo
  BY <1>3, <1>4, SigParts, OpeningIs
<1>10. Present(b) = Present(a) \cup {own}  BY <1>8, <1>9 DEF Present
<1>11. HandTypes'  BY <1>1, <1>2, <1>3, <1>6, <1>8 DEF HandTypes, LineMoves
<1>12. HeldInv'
  <2>1. \A id \in Present(b), s \in Pending' : b[id].lo <= s.hi
    <3> TAKE id \in Present(b), s \in Pending'
    <3>1. CASE id = own
      <4>1. s \in Signal  BY <1>1, <1>3, PendingSignals DEF LineMoves
      <4>2. s.hi \in Nat /\ sig.hi \in Nat /\ sig.lo \in Nat  BY <1>3, <1>4, <4>1, SigParts
      <4>3. sig.lo <= sig.hi /\ sig.hi <= s.hi  BY <1>5
      <4>4. b[id].lo = sig.lo  BY <1>8, <1>9, <3>1
      <4> QED  BY <4>2, <4>3, <4>4
    <3>2. CASE id # own
      <4>1. id \in Present(a) /\ b[id] = a[id]  BY <1>8, <1>10, <3>2 DEF Present
      <4> QED  BY <1>1, <1>3, <1>6, <1>7, <4>1 DEF HeldInv, Older, LineMoves
    <3> QED  BY <3>1, <3>2
  <2>2. Older(rows)'  BY <1>1, <1>2, <1>3 DEF HeldInv, Older, LineMoves
  <2>3. Present(rows') \subseteq Present(b) /\ Present(state') \subseteq Present(b)
    BY <1>1, <1>2, <1>6, <1>7, <1>10 DEF HeldInv
  <2>4. \A s \in Pending' : IdOfSignal(s) \notin Present(b)
    BY <1>1, <1>3, <1>5, <1>6, <1>7, <1>10 DEF HeldInv, Unheld, LineMoves
  <2> QED  BY <1>6, <1>7, <2>1, <2>2, <2>3, <2>4 DEF HeldInv, Older, Unheld
<1>13. SlotInv'
  <2>1. dropped' \cap Present(book'.episodes) = {}
    BY <1>1, <1>2, <1>5, <1>6, <1>7, <1>10 DEF SlotInv
  <2>2. \A x \in dropped' \ dropped : \A s \in Pending' : x # IdOfSignal(s)  BY <1>2
  <2>3. InFlight' \cup dropped' \subseteq InFlight \cup dropped  BY <1>2, <1>5
  <2>4. InFlight \cup dropped \cup Present(book.episodes) \cup Present(state)
          \subseteq InFlight' \cup dropped' \cup Present(book'.episodes) \cup Present(state')
    BY <1>2, <1>5, <1>6, <1>7, <1>10
  <2> QED  BY <1>1, <1>2, <1>3, <2>1, <2>2, <2>3, <2>4, SlotKept DEF LineMoves
<1> QED  BY <1>3, <1>11, <1>12, <1>13 DEF HandInv, LineMoves

\* A row follows the ledger.
LEMMA SavePreserves ==
  ASSUME HandInv, NEW own \in Ids, Save(own)
  PROVE  HandInv'
<1>1. HandTypes /\ LineInv /\ HeldInv /\ SlotInv  BY DEF HandInv
<1>2. /\ rows' = [rows EXCEPT ![own] = book.episodes[own]]
      /\ UNCHANGED <<next, prod, queue, wire, book, state, lost, dropped, crashes>>
  BY DEF Save
<1>3. LineMoves  BY <1>1, <1>2, LineStays
<1>4. PICK a, q, r : a = book.episodes /\ q = rows /\ r = rows'  OBVIOUS
<1>5. a \in Rows /\ q \in Rows /\ r = [q EXCEPT ![own] = a[own]]
  BY <1>1, <1>2, <1>4 DEF HandTypes, IsLedger
<1>6. r \in Rows /\ \A id \in Ids : r[id] = q[id] \/ r[id] = a[id]  BY <1>5 DEF Rows
<1>7. HandTypes'  BY <1>1, <1>2, <1>3, <1>4, <1>6 DEF HandTypes, LineMoves
<1>8. \A id \in Ids : a[id].lo <= a[id].lo
  <2>1. \A id \in Ids : a[id].lo \in Nat  BY <1>5 DEF Rows, Episode
  <2> QED  BY <2>1
<1>9. HeldInv'
  <2>1. book'.episodes \in Rows /\ book'.episodes = book.episodes  BY <1>2, <1>4, <1>5
  <2> QED  BY <1>1, <1>2, <1>3, <1>4, <1>6, <1>8, <2>1, HeldKept DEF LineMoves
<1>10. SlotInv'
  <2>1. InFlight' = InFlight  BY <1>2, FlightStays
  <2>2. dropped \cap Present(book.episodes) = {}  BY <1>1 DEF SlotInv
  <2> QED  BY <1>1, <1>2, <1>3, <2>1, <2>2, SlotKept DEF LineMoves
<1> QED  BY <1>3, <1>7, <1>9, <1>10 DEF HandInv, LineMoves

\* An episode of the OMS ends: it is still one the OMS holds, and starts when it did.
LEMMA EndPreserves ==
  ASSUME HandInv, NEW own \in Ids, NEW n \in 0..1, End(own, n)
  PROVE  HandInv'
<1>1. HandTypes /\ LineInv /\ HeldInv /\ SlotInv  BY DEF HandInv
<1>2. /\ book.episodes[own].state \in ActiveStates
      /\ book' = Ended(book, own, n)
      /\ UNCHANGED <<next, prod, queue, wire, rows, state, lost, dropped, crashes>>
  BY DEF End, Ended
<1>3. LineMoves  BY <1>1, <1>2, LineStays
<1>4. PICK L, M : L = book /\ M = book'  OBVIOUS
<1>5. PICK a, b : a = L.episodes /\ b = M.episodes  OBVIOUS
<1>6. IsLedger(L) /\ a \in Rows  BY <1>1, <1>4, <1>5 DEF HandTypes, IsLedger
<1>7. /\ IsLedger(M) /\ b[own].state \in TerminalStates /\ b[own].lo = a[own].lo
      /\ \A id \in Ids : id # own => b[id] = a[id]
  <2>1. n \in Nat  OBVIOUS
  <2>2. M = Ended(L, own, n)  BY <1>2, <1>4
  <2>3. /\ IsLedger(M) /\ M.episodes[own].state \in TerminalStates
        /\ M.episodes[own].lo = L.episodes[own].lo
        /\ \A id \in Ids : id # own => M.episodes[id] = L.episodes[id]
    BY <1>6, <2>1, <2>2, EndedShape
  <2> QED  BY <1>5, <2>3
<1>8. \A id \in Ids : /\ b[id].state = "absent" <=> a[id].state = "absent"
                      /\ b[id].lo <= a[id].lo
  <2> TAKE id \in Ids
  <2>1. a[id].lo \in Nat  BY <1>6 DEF Rows, Episode
  <2>2. a[own].state # "absent"  BY <1>2, <1>4, <1>5 DEF ActiveStates
  <2>3. b[own].state # "absent"  BY <1>7 DEF TerminalStates
  <2> QED  BY <1>7, <2>1, <2>2, <2>3
<1>9. HandTypes'  BY <1>1, <1>2, <1>3, <1>4, <1>7 DEF HandTypes, LineMoves
<1>10. HeldInv'
  <2>1. b \in Rows  BY <1>5, <1>7 DEF IsLedger
  <2> QED  BY <1>1, <1>2, <1>3, <1>4, <1>5, <1>8, <2>1, HeldKept DEF LineMoves
<1>11. SlotInv'
  <2>1. InFlight' = InFlight  BY <1>2, FlightStays
  <2>2. Present(book'.episodes) = Present(book.episodes)  BY <1>4, <1>5, <1>8 DEF Present
  <2>3. dropped \cap Present(book.episodes) = {}  BY <1>1 DEF SlotInv
  <2> QED  BY <1>1, <1>2, <1>3, <2>1, <2>2, <2>3, SlotKept DEF LineMoves
<1> QED  BY <1>3, <1>9, <1>10, <1>11 DEF HandInv, LineMoves

\* A snapshot: every row of the last one is still a row of the ledger.
LEMMA PublishPreserves ==
  ASSUME HandInv, Publish
  PROVE  HandInv'
<1>1. HandTypes /\ LineInv /\ HeldInv /\ SlotInv  BY DEF HandInv
<1>2. /\ state' = book.episodes
      /\ UNCHANGED <<next, prod, queue, wire, book, rows, lost, dropped, crashes>>
  BY DEF Publish
<1>3. LineMoves  BY <1>1, <1>2, LineStays
<1>4. PICK a : a = book.episodes  OBVIOUS
<1>5. a \in Rows /\ \A id \in Ids : a[id].lo \in Nat
  BY <1>1, <1>4 DEF HandTypes, IsLedger, Rows, Episode
<1>6. HandTypes'  BY <1>1, <1>2, <1>3, <1>4, <1>5 DEF HandTypes, LineMoves
<1>7. HeldInv'
  <2>1. \A id \in Ids : a[id].lo <= a[id].lo  BY <1>5
  <2>2. book'.episodes \in Rows /\ book'.episodes = book.episodes  BY <1>2, <1>4, <1>5
  <2> QED  BY <1>1, <1>2, <1>3, <1>4, <2>1, <2>2, HeldKept DEF LineMoves
<1>8. SlotInv'
  <2>1. InFlight' = InFlight  BY <1>2, FlightStays
  <2>2. dropped \cap Present(book.episodes) = {}  BY <1>1 DEF SlotInv
  <2>3. Present(state) \subseteq Present(book.episodes)  BY <1>1 DEF HeldInv
  <2> QED  BY <1>1, <1>2, <1>3, <2>1, <2>2, <2>3, SlotKept DEF LineMoves
<1> QED  BY <1>3, <1>6, <1>7, <1>8 DEF HandInv, LineMoves

\* A restarted OMS: what it skipped on the stream and what it had not saved is dropped,
\* and the ledger, the rows and the snapshot are the same rows again.
LEMMA CrashOmsPreserves ==
  ASSUME HandInv, CrashOms
  PROVE  HandInv'
<1>1. HandTypes /\ LineInv /\ HeldInv /\ SlotInv  BY DEF HandInv
<1>2. /\ rows' = BootRows /\ book' = Restored(BootRows) /\ state' = BootRows /\ wire' = <<>>
      /\ dropped' = dropped \cup Openers(wire) \cup (Unsaved \cap ActiveIds(prod.episodes))
      /\ UNCHANGED <<next, prod, queue, lost>>
  BY DEF CrashOms
<1>3. LineMoves  BY <1>1, <1>2, LineCuts
<1>4. PICK q, r, a : q = rows /\ r = BootRows /\ a = book.episodes  OBVIOUS
<1>5. /\ q \in Rows
      /\ r = [id \in Ids |-> IF q[id].state = "claimed"
                             THEN [q[id] EXCEPT !.state = "terminal_no_fill"] ELSE q[id]]
  BY <1>1, <1>4 DEF HandTypes, BootRows
<1>6. \A id \in Ids : /\ r[id] \in Episode /\ r[id].lo = q[id].lo
                      /\ r[id].state = "absent" <=> q[id].state = "absent"
  <2> TAKE id \in Ids
  <2>1. q[id] \in Episode  BY <1>5 DEF Rows
  <2>2. CASE q[id].state = "claimed"
    <3>1. r[id] = [q[id] EXCEPT !.state = "terminal_no_fill"]  BY <1>5, <2>2
    <3>2. r[id] \in Episode /\ r[id].lo = q[id].lo /\ r[id].state = "terminal_no_fill"
      BY <2>1, <3>1 DEF Episode, TerminalStates
    <3> QED  BY <2>2, <3>2
  <2>3. CASE q[id].state # "claimed"
    <3>1. r[id] = q[id]  BY <1>5, <2>3
    <3> QED  BY <2>1, <3>1
  <2> QED  BY <2>2, <2>3
<1>7. r \in Rows  BY <1>5, <1>6 DEF Rows
<1>8. Present(r) = Present(q)  BY <1>6 DEF Present
<1>9. PICK M : M = book'  OBVIOUS
<1>10. IsLedger(M) /\ M.episodes = r  BY <1>2, <1>4, <1>7, <1>9, RestoredShape
<1>11. Present(q) \subseteq Present(a) /\ Present(state) \subseteq Present(a)
  BY <1>1, <1>4 DEF HeldInv
<1>12. Unsaved = Present(a) \ Present(q)  BY <1>4 DEF Unsaved
<1>13. \A sig \in Pending' : sig \in Pending  BY <1>3 DEF LineMoves
<1>14. HandTypes'
  <2>1. Unsaved \subseteq Ids  BY <1>12 DEF Present
  <2>2. Openers(wire) \subseteq Ids
    <3>1. \A x \in InFlight : x \in Ids  BY <1>1, FlightPending
    <3> QED  BY <3>1 DEF InFlight
  <2> QED  BY <1>1, <1>2, <1>3, <1>4, <1>7, <1>9, <1>10, <2>1, <2>2 DEF HandTypes, LineMoves
<1>15. HeldInv'
  <2>1. \A id \in Present(r), sig \in Pending' : r[id].lo <= sig.hi
    <3> TAKE id \in Present(r), sig \in Pending'
    <3>1. id \in Present(q) /\ id \in Ids /\ sig \in Pending  BY <1>8, <1>13 DEF Present
    <3>2. q[id].lo <= sig.hi  BY <1>1, <1>4, <3>1 DEF HeldInv, Older
    <3> QED  BY <1>6, <3>1, <3>2
  <2>2. \A sig \in Pending' : IdOfSignal(sig) \notin Present(r)
    BY <1>1, <1>4, <1>8, <1>11, <1>13 DEF HeldInv, Unheld
  <2> QED  BY <1>2, <1>4, <1>9, <1>10, <2>1, <2>2 DEF HeldInv, Older, Unheld
<1>16. \A x \in Openers(wire) : \E sig \in SigsOf(wire) : x = IdOfSignal(sig)  BY OpenersHave
<1>17. Pending' = SigsOf(queue) \cup Coming
  <2>1. SigsOf(wire') = {} /\ Coming' = Coming /\ queue' = queue  BY <1>2 DEF SigsOf, Coming
  <2> QED  BY <2>1 DEF Pending
<1>18. SlotInv'
  <2>1. Unheld(dropped)'
    <3> SUFFICES ASSUME NEW sig \in Pending'  PROVE IdOfSignal(sig) \notin dropped'
      BY DEF Unheld
    <3>1. IdOfSignal(sig) \notin dropped  BY <1>1, <1>13 DEF SlotInv, Unheld
    <3>2. IdOfSignal(sig) \notin Openers(wire)
      <4>1. \A old \in SigsOf(wire) : IdOfSignal(old) # IdOfSignal(sig)
        BY <1>1, <1>17 DEF LineInv, AllBefore, Follows
      <4> QED  BY <1>16, <4>1
    <3>3. IdOfSignal(sig) \notin Unsaved  BY <1>1, <1>4, <1>12, <1>13 DEF HeldInv, Unheld
    <3> QED  BY <1>2, <3>1, <3>2, <3>3
  <2>2. InFlight' = Openers(queue)
    <3>1. Openers(wire') = {}  BY <1>2 DEF Openers
    <3> QED  BY <1>2, <3>1 DEF InFlight
  <2>3. dropped' \cap Present(r) = {}
    <3>1. InFlight \cap Present(a) = {} /\ dropped \cap Present(a) = {}  BY <1>1, <1>4, FlightApart
    <3>2. Openers(wire) \subseteq InFlight  BY DEF InFlight
    <3> QED  BY <1>2, <1>8, <1>11, <1>12, <3>1, <3>2
  <2>4. \A x \in ActiveIds(prod.episodes) :
          x \in InFlight' \/ x \in dropped' \/ x \in Present(r)
    <3> TAKE x \in ActiveIds(prod.episodes)
    <3>1. x \in InFlight \/ x \in dropped \/ x \in Present(a)
      BY <1>1, <1>4, <1>11 DEF SlotInv, SlotAccounted
    <3>2. ASSUME x \in InFlight  PROVE x \in InFlight' \/ x \in dropped'
      BY <1>2, <2>2, <3>2 DEF InFlight
    <3>3. ASSUME x \in Present(a)  PROVE x \in dropped' \/ x \in Present(r)
      BY <1>2, <1>8, <1>12, <3>3
    <3> QED  BY <1>2, <3>1, <3>2, <3>3
  <2>5. SlotAccounted'  BY <1>2, <1>9, <1>10, <2>4 DEF SlotAccounted
  <2>6. (InFlight \cup dropped)' \subseteq ActiveIds(prod'.episodes)
    <3>1. InFlight \cup dropped \subseteq ActiveIds(prod.episodes)  BY <1>1 DEF SlotInv
    <3> QED  BY <1>2, <2>2, <3>1 DEF InFlight
  <2>7. /\ Cardinality(ActiveIds(prod'.episodes)) <= prod'.count /\ prod'.count <= Capacity
    BY <1>1, <1>2 DEF SlotInv
  <2> QED  BY <1>9, <1>10, <2>1, <2>3, <2>5, <2>6, <2>7 DEF SlotInv
<1> QED  BY <1>3, <1>14, <1>15, <1>18 DEF HandInv, LineMoves

------------------------------------------------------------------------------
(* The theorems.                                                            *)

\* Nothing has been detected yet, and nobody holds anything.
LEMMA HandStarts == Init => HandInv
<1> SUFFICES ASSUME Init  PROVE HandInv  OBVIOUS
<1>1. /\ next = 1 /\ prod = NotReady /\ queue = <<>> /\ wire = <<>> /\ book = EmptyLedger
      /\ rows = NoRows /\ state = NoRows /\ dropped = {}
  BY DEF Init
<1>2. /\ IsLedger(EmptyLedger) /\ IsLedger(NotReady) /\ NoRows \in Rows
      /\ EmptyLedger.episodes = NoRows /\ NotReady.episodes = NoRows
      /\ Present(NoRows) = {} /\ ActiveIds(NoRows) = {} /\ NotReady.count = 0
  BY EmptyShape
<1>3. HandTypes
  <2>1. Len(Detections) \in Nat  BY HandoffConstants
  <2>2. next \in 1..(Len(Detections) + 1)  BY <1>1, <2>1
  <2> QED  BY <1>1, <1>2, <2>2 DEF HandTypes
<1>4. SigsOf(wire) = {} /\ SigsOf(queue) = {} /\ Openers(wire) = {} /\ Openers(queue) = {}
  BY <1>1 DEF SigsOf, Openers
<1>5. LineInv  BY <1>1, <1>4 DEF LineInv, Sorted, AllBefore
<1>6. HeldInv  BY <1>1, <1>2 DEF HeldInv, Older, Unheld
<1>7. SlotInv
  <2>1. Cardinality(ActiveIds(prod.episodes)) = 0 /\ prod.count = 0 /\ ActiveIds(prod.episodes) = {}
    BY <1>1, <1>2, FS_EmptySet
  <2>2. InFlight = {}  BY <1>4 DEF InFlight
  <2>3. Cardinality(ActiveIds(prod.episodes)) <= prod.count /\ prod.count <= Capacity
    BY <2>1, LedgerConstants
  <2> QED  BY <1>1, <1>2, <2>1, <2>2, <2>3 DEF SlotInv, SlotAccounted, Unheld
<1> QED  BY <1>3, <1>5, <1>6, <1>7 DEF HandInv

\* A step that changes nothing.
LEMMA HandStutters ==
  ASSUME HandInv, UNCHANGED vars
  PROVE  HandInv'
<1>1. HandTypes /\ LineInv /\ HeldInv /\ SlotInv  BY DEF HandInv
<1>2. UNCHANGED <<next, prod, queue, wire, book, rows, state, dropped>>  BY DEF vars
<1>3. LineMoves  BY <1>1, <1>2, LineStays
<1>4. HandTypes'  BY <1>1, <1>2 DEF HandTypes
<1>5. HeldInv'  BY <1>1, <1>2, <1>3, HeldProducer
<1>6. SlotInv'
  <2>1. InFlight' = InFlight  BY <1>2, FlightStays
  <2>2. dropped \cap Present(book.episodes) = {}  BY <1>1 DEF SlotInv
  <2> QED  BY <1>1, <1>2, <1>3, <2>1, <2>2, SlotKept DEF LineMoves
<1> QED  BY <1>3, <1>4, <1>5, <1>6 DEF HandInv, LineMoves

\* Every step of the hand-off, of the producer or of the OMS, keeps the invariant.
LEMMA HandStep == HandInv /\ [Next]_vars => HandInv'
<1> SUFFICES ASSUME HandInv, [Next]_vars  PROVE HandInv'  OBVIOUS
<1>1. CASE OfferRefused  BY <1>1, OfferRefusedPreserves
<1>2. CASE OfferMerged  BY <1>2, OfferMergedPreserves
<1>3. CASE OfferOpened  BY <1>3, OfferOpenedPreserves
<1>4. CASE OfferFull  BY <1>4, OfferFullPreserves
<1>5. CASE Emit  BY <1>5, EmitPreserves
<1>6. CASE EmitLost  BY <1>6, EmitLostPreserves
<1>7. CASE Observe  BY <1>7, ObservePreserves
<1>8. CASE ObserveUnknown  BY <1>8, ObserveUnknownPreserves
<1>9. CASE CrashProducer  BY <1>9, CrashProducerPreserves
<1>10. CASE Refuse  BY <1>10, RefusePreserves
<1>11. CASE AdmitMerged  BY <1>11, AdmitMergedPreserves
<1>12. CASE AdmitOpened  BY <1>12, AdmitOpenedPreserves
<1>13. CASE Publish  BY <1>13, PublishPreserves
<1>14. CASE CrashOms  BY <1>14, CrashOmsPreserves
<1>15. CASE \E id \in Ids : Save(id)  BY <1>15, SavePreserves
<1>16. CASE \E id \in Ids : \E filled \in 0..1 : End(id, filled)
  <2>1. PICK id \in Ids, filled \in 0..1 : End(id, filled)  BY <1>16
  <2> QED  BY <2>1, EndPreserves
<1>17. CASE UNCHANGED vars  BY <1>17, HandStutters
<1> QED
  BY <1>1, <1>2, <1>3, <1>4, <1>5, <1>6, <1>7, <1>8, <1>9, <1>10, <1>11, <1>12, <1>13,
     <1>14, <1>15, <1>16, <1>17 DEF Next, Producer, Oms

\* The inductive invariant holds of every state the two processes reach.
THEOREM HandAlways == Spec => []HandInv
BY HandStarts, HandStep, PTL DEF Spec

\* The next detection the OMS takes from the stream never lies wholly before a move it
\* holds, in its ledger or durably.
THEOREM DeliveredInOrderAlways == Spec => []DeliveredInOrder
<1>1. HandInv => DeliveredInOrder
  <2> SUFFICES ASSUME HandInv, Arrived, NEW id \in Ids
               PROVE  /\ book.episodes[id].state # "absent" => Got.hi >= book.episodes[id].lo
                      /\ rows[id].state # "absent" => Got.hi >= rows[id].lo
    BY DEF DeliveredInOrder
  <2>1. wire \in Seq(Entry) /\ wire # <<>>  BY DEF HandInv, HandTypes, Arrived
  <2>2. Got \in SigsOf(wire)  BY <2>1, TailIs DEF SigsOf, Got
  <2>3. Got \in Pending  BY <2>2 DEF Pending
  <2>4. PICK a, q, n : a = book.episodes /\ q = rows /\ n = Got.hi  OBVIOUS
  <2>5. /\ id \in Present(a) => a[id].lo <= n
        /\ id \in Present(q) => q[id].lo <= n
    BY <2>3, <2>4 DEF HandInv, HeldInv, Older
  <2>6. a[id].lo \in Nat /\ q[id].lo \in Nat /\ n \in Nat
    <3>1. a \in Rows /\ q \in Rows  BY <2>4 DEF HandInv, HandTypes, IsLedger
    <3>2. Got \in Signal  BY <2>3, PendingSignals DEF HandInv
    <3> QED  BY <2>4, <3>1, <3>2, SigParts DEF Rows, Episode
  <2> QED  BY <2>4, <2>5, <2>6 DEF Present
<1> QED  BY <1>1, HandAlways, PTL

\* A reservation of the producer is always accounted for.
THEOREM SlotAccountedAlways == Spec => []SlotAccounted
<1>1. HandInv => SlotAccounted  BY DEF HandInv, SlotInv
<1> QED  BY <1>1, HandAlways, PTL

\* What the producer has under way, lost on the way or refused stays reserved, and the
\* reservations never exceed the capacity.
THEOREM ClaimRetainedAlways == Spec => []ClaimRetained
<1>1. HandInv => ClaimRetained
  <2> SUFFICES ASSUME HandInv  PROVE ClaimRetained  OBVIOUS
  <2>1. PICK n, c : n = Cardinality(ActiveIds(prod.episodes)) /\ c = prod.count  OBVIOUS
  <2>2. n \in Nat  BY <2>1, ActiveCounts
  <2>3. c \in Int /\ n <= c /\ c <= Capacity /\ Capacity \in Nat
    BY <2>1, LedgerConstants DEF HandInv, HandTypes, IsLedger, SlotInv
  <2>4. n <= Capacity  BY <2>2, <2>3
  <2> QED  BY <2>1, <2>4 DEF HandInv, SlotInv, ClaimRetained
<1> QED  BY <1>1, HandAlways, PTL
==============================================================================
