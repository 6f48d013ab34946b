-------------------------- MODULE EventStreamProofs --------------------------
(***************************************************************************)
(* Proofs about EventStream, for any number of writers, any scripts and    *)
(* any number of failed fetches and reconnects.                            *)
(***************************************************************************)
EXTENDS EventStream, FiniteSetTheorems, TLAPS

-----------------------------------------------------------------------------
(***************************************************************************)
(* Sets of numbers: Max and Min (FiniteSetsExt) choose what they promise.  *)
(***************************************************************************)
LEMMA MaxOfInterval ==
    ASSUME NEW a \in Int, NEW b \in Int, a <= b
    PROVE  Max(a..b) = b
<1>1. b \in a..b /\ \A y \in a..b : b >= y
    OBVIOUS
<1>2. \A x \in a..b : (\A y \in a..b : x >= y) => x = b
    OBVIOUS
<1> QED
    BY <1>1, <1>2 DEF Max

LEMMA IntervalGrows ==
    ASSUME NEW m \in Int, NEW n \in Int, n >= m
    PROVE  \A a \in Int : \A i \in a..(m - 1) : i \in a..(n - 1)
OBVIOUS

LEMMA MinExists ==
    ASSUME NEW S \in SUBSET Nat, S # {}
    PROVE  Min(S) \in S /\ \A y \in S : Min(S) <= y
<1>1. PICK x \in S : \A y \in S : ~(<<y, x>> \in OpToRel(<, Nat))
    BY WFMin, NatLessThanWellFounded, Zenon
<1>2. ASSUME NEW y \in S PROVE x <= y
    <2>1. ~(<<y, x>> \in {ss \in Nat \X Nat : ss[1] < ss[2]})
        BY <1>1 DEF OpToRel
    <2>2. ~(y < x)
        BY <2>1
    <2> QED
        BY <2>2
<1> QED
    BY <1>2 DEF Min

(***************************************************************************)
(* The appends the scripts hold are finitely many.                         *)
(***************************************************************************)
LEMMA SlotsFinite == IsFiniteSet(Slots) /\ MaxSeq \in Nat
<1> DEFINE f == [w \in Writers |-> {w} \X (1..Len(Script[w]))]
           family == {{w} \X (1..Len(Script[w])) : w \in Writers}
<1>1. f \in Surjection(Writers, family)
    BY DEF Surjection
<1>2. IsFiniteSet(family)
    BY <1>1, FS_Surjection, StreamAssumption
<1>3. ASSUME NEW w \in Writers PROVE IsFiniteSet({w} \X (1..Len(Script[w])))
    <2>1. Len(Script[w]) \in Nat
        <3>1. Script[w] \in Seq(Event)
            BY StreamAssumption
        <3> QED
            BY <3>1
    <2>2. IsFiniteSet({w})
        BY FS_Singleton
    <2>3. \A n \in Nat : IsFiniteSet(1..n)
        BY FS_Interval
    <2> QED
        BY <2>1, <2>2, <2>3, FS_Product
<1>4. IsFiniteSet(UNION family)
    BY <1>2, <1>3, FS_UNION
<1> QED
    BY <1>4, FS_CardinalityType DEF Slots, MaxSeq

-----------------------------------------------------------------------------
(***************************************************************************)
(* The store.  A writer about to insert computed a number that is taken by *)
(* now or the next one; as many rows were added as appends are done with,  *)
(* at most.                                                                *)
(***************************************************************************)
Size == Cardinality(rows)
Done == {p \in Slots : p[2] <= wpos[p[1]]}

WritersOK ==
    /\ wpc \in [Writers -> {"ready", "insert"}] /\ wpos \in [Writers -> Nat] /\ failed \in Nat
    /\ \A w \in Writers : wpos[w] <= Len(Script[w])
    /\ \A w \in Writers : wpc[w] = "insert" => wpos[w] < Len(Script[w]) /\ wseq[w] \in 1..Size
RowsOK ==
    /\ rows \subseteq [seq : Nat, ev : Event] /\ IsFiniteSet(rows) /\ Size \in Nat \ {0}
    /\ DenseSequences
    /\ Size <= Cardinality(Done) + 1
StoreOK == WritersOK /\ RowsOK /\ wseq \in [Writers -> 0..MaxSeq]

LEMMA LenType == \A w \in Writers : Script[w] \in Seq(Event) /\ Len(Script[w]) \in Nat
<1>1. \A w \in Writers : Script[w] \in Seq(Event)
    BY StreamAssumption
<1> QED
    BY <1>1

LEMMA SlotIs ==
    /\ \A w \in Writers : \A i \in 1..Len(Script[w]) : <<w, i>> \in Slots
    /\ \A p \in Slots : p[1] \in Writers /\ p[2] \in 1..Len(Script[p[1]]) /\ p = <<p[1], p[2]>>
BY DEF Slots

LEMMA DoneFinite == /\ IsFiniteSet(Done) /\ Cardinality(Done) \in Nat
                    /\ Cardinality(Done) <= MaxSeq
<1>1. Done \in SUBSET Slots
    BY DEF Done
<1> QED
    BY <1>1, SlotsFinite, FS_Subset, FS_CardinalityType DEF MaxSeq

(***************************************************************************)
(* The next append of a writer is a slot it is not done with.              *)
(***************************************************************************)
LEMMA RoomLeft ==
    ASSUME WritersOK, NEW w \in Writers, wpos[w] < Len(Script[w])
    PROVE  /\ <<w, wpos[w] + 1>> \in Slots \ Done
           /\ Cardinality(Done) < MaxSeq
<1>1. wpos[w] \in Nat /\ Len(Script[w]) \in Nat
    BY LenType DEF WritersOK
<1>2. <<w, wpos[w] + 1>> \in Slots
    BY <1>1, SlotIs
<1>3. <<w, wpos[w] + 1>> \notin Done
    BY <1>1 DEF Done
<1>4. Done \in SUBSET Slots /\ Done # Slots
    BY <1>2, <1>3 DEF Done
<1>5. Cardinality(Done) <= Cardinality(Slots) /\ Cardinality(Done) # Cardinality(Slots)
    BY <1>4, SlotsFinite, FS_Subset
<1> QED
    BY <1>2, <1>3, <1>5, DoneFinite, SlotsFinite DEF MaxSeq

LEMMA NextIsSize ==
    ASSUME RowsOK
    PROVE  NextSequence = Size
<1>1. Seqs(rows) = 0..(Size - 1) /\ Size \in Nat \ {0}
    BY DEF RowsOK, DenseSequences, Size
<1>2. Max(0..(Size - 1)) = Size - 1
    BY <1>1, MaxOfInterval
<1> QED
    BY <1>1, <1>2 DEF NextSequence

LEMMA AppendReadOK ==
    ASSUME StoreOK, NEW w \in Writers, AppendRead(w)
    PROVE  StoreOK'
<1>1. UNCHANGED <<rows, wpos, failed>> /\ wpos[w] < Len(Script[w])
    BY DEF AppendRead
<1>2. Size' = Size /\ Done' = Done /\ Size \in Nat \ {0}
    BY <1>1 DEF Size, Done, StoreOK, RowsOK
<1>3. RowsOK'
    BY <1>1, <1>2 DEF StoreOK, RowsOK, DenseSequences
<1>4. wseq' = [wseq EXCEPT ![w] = Size]
    BY NextIsSize DEF AppendRead, StoreOK
<1>5. Size <= MaxSeq /\ MaxSeq \in Nat
    <2>1. WritersOK /\ Size <= Cardinality(Done) + 1
        BY DEF StoreOK, RowsOK
    <2>2. Cardinality(Done) < MaxSeq
        BY <1>1, <2>1, RoomLeft
    <2> QED
        BY <1>2, <2>1, <2>2, DoneFinite, SlotsFinite
<1>6. wseq' \in [Writers -> 0..MaxSeq]
    BY <1>2, <1>4, <1>5 DEF StoreOK
<1>7. WritersOK'
    BY <1>1, <1>2, <1>4 DEF StoreOK, WritersOK, AppendRead
<1> QED
    BY <1>3, <1>6, <1>7 DEF StoreOK

LEMMA DoneGrows ==
    ASSUME WritersOK, NEW w \in Writers, wpos[w] < Len(Script[w]),
           wpos' = [wpos EXCEPT ![w] = @ + 1]
    PROVE  Cardinality(Done)' = Cardinality(Done) + 1
<1>1. wpos \in [Writers -> Nat]
    BY DEF WritersOK
<1>2. \A p \in Slots : p[2] <= wpos'[p[1]] <=> (p[2] <= wpos[p[1]] \/ p = <<w, wpos[w] + 1>>)
    <2> SUFFICES ASSUME NEW p \in Slots
                 PROVE  p[2] <= wpos'[p[1]] <=> (p[2] <= wpos[p[1]] \/ p = <<w, wpos[w] + 1>>)
        OBVIOUS
    <2>1. p[1] \in Writers /\ p[2] \in Nat /\ p = <<p[1], p[2]>>
        BY SlotIs, LenType
    <2>2. CASE p[1] = w
        BY <1>1, <2>1, <2>2
    <2>3. CASE p[1] # w
        BY <1>1, <2>1, <2>3
    <2> QED
        BY <2>2, <2>3
<1>3. Done' = Done \cup {<<w, wpos[w] + 1>>}
    <2>1. <<w, wpos[w] + 1>> \in Slots
        BY RoomLeft
    <2>2. Done' = {p \in Slots : p[2] <= wpos'[p[1]]}
        BY DEF Done, Slots
    <2> QED
        BY <1>2, <2>1, <2>2 DEF Done
<1> QED
    BY <1>3, RoomLeft, DoneFinite, FS_AddElement

LEMMA AppendInsertOK ==
    ASSUME StoreOK, NEW w \in Writers, AppendInsert(w)
    PROVE  StoreOK'
<1>1. WritersOK /\ RowsOK
    BY DEF StoreOK
<1>2. /\ wpc[w] = "insert" /\ wpos[w] < Len(Script[w]) /\ wseq[w] \in 1..Size
      /\ wpos' = [wpos EXCEPT ![w] = @ + 1] /\ wpc' = [wpc EXCEPT ![w] = "ready"]
      /\ UNCHANGED wseq
    BY <1>1 DEF AppendInsert, WritersOK
<1>3. wpos[w] \in Nat /\ Size \in Nat \ {0}
    BY <1>1 DEF WritersOK, RowsOK
<1>4. Cardinality(Done)' = Cardinality(Done) + 1
    BY <1>1, <1>2, DoneGrows
<1>5. ASSUME Size' >= Size, failed' \in Nat, Size' \in Nat PROVE WritersOK'
    <2>1. wpc' \in [Writers -> {"ready", "insert"}] /\ wpos' \in [Writers -> Nat]
        BY <1>1, <1>2 DEF WritersOK
    <2>2. \A x \in Writers : wpos'[x] <= Len(Script[x])
        BY <1>1, <1>2, LenType DEF WritersOK
    <2>3. ASSUME NEW x \in Writers, wpc'[x] = "insert"
          PROVE  wpos'[x] < Len(Script[x]) /\ wseq'[x] \in 1..Size'
        <3>1. x # w /\ wpc[x] = "insert" /\ wpos'[x] = wpos[x]
            BY <1>1, <1>2, <2>3 DEF WritersOK
        <3> QED
            BY <1>1, <1>2, <1>3, <1>5, <3>1 DEF WritersOK
    <2> QED
        BY <1>5, <2>1, <2>2, <2>3 DEF WritersOK
<1>6. CASE Insertable(wseq[w])
    <2> DEFINE new == [seq |-> wseq[w], ev |-> Script[w][wpos[w] + 1]]
    <2>1. rows' = rows \cup {new} /\ UNCHANGED failed
        BY <1>6 DEF AppendInsert
    <2>2. Seqs(rows) = 0..(Size - 1)
        BY <1>1 DEF RowsOK, DenseSequences, Size
    <2>3. wseq[w] = Size
        BY <1>2, <1>3, <1>6, <2>2 DEF Insertable
    <2>4. new \in [seq : Nat, ev : Event]
        <3>1. wpos[w] + 1 \in 1..Len(Script[w])
            BY <1>2, <1>3, LenType
        <3>2. Script[w][wpos[w] + 1] \in Event
            BY <3>1, LenType
        <3> QED
            BY <1>3, <2>3, <3>2
    <2>5. new.seq = Size
        BY <2>3
    <2> HIDE DEF new
    <2>6. new \notin rows /\ \A r \in rows : r.seq \in 0..(Size - 1)
        BY <1>3, <2>2, <2>5 DEF Seqs
    <2>7. IsFiniteSet(rows') /\ Size' = Size + 1
        BY <1>1, <2>1, <2>6, FS_AddElement DEF RowsOK, Size
    <2>8. Seqs(rows)' = 0..(Size' - 1)
        <3>1. Seqs(rows)' = Seqs(rows) \cup {Size}
            BY <2>1, <2>5 DEF Seqs
        <3> QED
            BY <1>3, <2>2, <2>7, <3>1
    <2>9. \A r, q \in rows' : r.seq = q.seq => r = q
        BY <1>1, <1>3, <2>1, <2>5, <2>6 DEF RowsOK, DenseSequences
    <2>10. RowsOK'
        <3>1. DenseSequences'
            BY <2>8, <2>9 DEF DenseSequences, Size
        <3>2. Size' <= Cardinality(Done)' + 1
            BY <1>1, <1>3, <1>4, <2>7, DoneFinite DEF RowsOK
        <3>3. rows' \subseteq [seq : Nat, ev : Event]
            BY <1>1, <2>1, <2>4 DEF RowsOK
        <3> QED
            BY <1>3, <2>7, <3>1, <3>2, <3>3 DEF RowsOK
    <2>11. WritersOK'
        BY <1>1, <1>3, <1>5, <2>1, <2>7 DEF WritersOK
    <2> QED
        BY <1>2, <2>10, <2>11 DEF StoreOK
<1>7. CASE ~Insertable(wseq[w])
    <2>1. UNCHANGED rows /\ failed' = failed + 1
        BY <1>7 DEF AppendInsert
    <2>2. Size' = Size
        BY <2>1 DEF Size
    <2>3. WritersOK'
        BY <1>1, <1>3, <1>5, <2>1, <2>2 DEF WritersOK
    <2>4. Size' <= Cardinality(Done)' + 1
        BY <1>1, <1>3, <1>4, <2>2, DoneFinite DEF RowsOK
    <2>5. RowsOK'
        BY <1>1, <2>1, <2>2, <2>4 DEF RowsOK, DenseSequences
    <2> QED
        BY <1>2, <2>3, <2>5 DEF StoreOK
<1> QED
    BY <1>6, <1>7

LEMMA StoreInit == Init => StoreOK
<1> SUFFICES ASSUME Init PROVE StoreOK
    OBVIOUS
<1> USE DEF Init
<1>1. rows = {Started} /\ Started \in [seq : Nat, ev : Event] /\ Started.seq = 0
    BY DEF Started, Event
<1>2. IsFiniteSet(rows) /\ Size = 1
    BY <1>1, FS_Singleton DEF Size
<1>3. DenseSequences
    <2>1. Seqs(rows) = {0}
        BY <1>1 DEF Seqs
    <2> QED
        BY <1>1, <1>2, <2>1 DEF DenseSequences, Size
<1>4. RowsOK
    BY <1>1, <1>2, <1>3, DoneFinite DEF RowsOK
<1>5. WritersOK
    BY LenType DEF WritersOK
<1>6. wseq \in [Writers -> 0..MaxSeq]
    BY SlotsFinite
<1> QED
    BY <1>4, <1>5, <1>6 DEF StoreOK

LEMMA StoreKept == StoreOK /\ UNCHANGED storeVars => StoreOK'
<1> SUFFICES ASSUME StoreOK, UNCHANGED storeVars PROVE StoreOK'
    OBVIOUS
<1>1. Size' = Size /\ Done' = Done /\ (DenseSequences' <=> DenseSequences)
    BY DEF storeVars, Size, Done, DenseSequences
<1>2. RowsOK' /\ wseq' = wseq
    BY <1>1 DEF StoreOK, RowsOK, storeVars
<1>3. WritersOK'
    BY <1>1 DEF StoreOK, WritersOK, storeVars
<1> QED
    BY <1>2, <1>3 DEF StoreOK

LEMMA ClientLeavesStore == Reading \/ Reconnect \/ Rest => UNCHANGED storeVars
BY DEF Reading, Reconnect, Rest, CatchUp, CatchUpFails, IngestCatchUp, StreamEnds, Poll,
       PollFails, IngestPoll, vars

LEMMA StoreStep == StoreOK /\ [Next]_vars => StoreOK'
<1> SUFFICES ASSUME StoreOK, [Next]_vars PROVE StoreOK'
    OBVIOUS
<1>1. CASE Writing
    BY <1>1, AppendReadOK, AppendInsertOK DEF Writing
<1>2. CASE Reading \/ Reconnect \/ Rest
    BY <1>2, ClientLeavesStore, StoreKept
<1>3. CASE UNCHANGED vars
    BY <1>3, StoreKept DEF vars
<1> QED
    BY <1>1, <1>2, <1>3 DEF Next

(***************************************************************************)
(* DenseSequences (append_next_event): however the reads and the inserts   *)
(* of the writers interleave, the stored sequence numbers have no gap and  *)
(* no repetition.                                                          *)
(***************************************************************************)
THEOREM SequencesAreDense == Spec => []DenseSequences
<1>1. StoreOK => DenseSequences
    BY DEF StoreOK, RowsOK
<1> QED
    BY StoreInit, StoreStep, <1>1, PTL DEF Spec

-----------------------------------------------------------------------------
(***************************************************************************)
(* The client.  It holds the rows up to some sequence number, which is the *)
(* one it resumes from unless it is off, and what is on its way to it are  *)
(* the rows that follow, up to another one.                                *)
(***************************************************************************)
Between(a, b) == {r \in rows : a < r.seq /\ r.seq <= b}

ClientTyped ==
    /\ phase \in {"fetch", "caught_up", "streaming", "poll", "polled", "off"}
    /\ conn \in {"connecting", "live", "reconnecting", "closed", "error"}
    /\ attempts \in 0..MaxRetries /\ failures \in 0..MaxFailures
    /\ reconnects \in 0..MaxReconnects
Resumes == /\ lastSeq \in 0..(Size - 1)
           /\ phase \in {"fetch", "caught_up"} => lastSeq = 0
Shows == \E k \in 0..(Size - 1) : shown = Between(0, k) /\ (phase # "off" => k = lastSeq)
Awaits == \E k \in lastSeq..(Size - 1) : reply = Between(lastSeq, k)
ClientOK == ClientTyped /\ Resumes /\ Shows /\ Awaits

LEMMA SizeType ==
    ASSUME StoreOK
    PROVE  /\ Size \in Nat \ {0}
           /\ \A r \in rows : r.seq \in 0..(Size - 1)
           /\ Seqs(rows) = 0..(Size - 1)
<1>1. Size \in Nat \ {0} /\ Seqs(rows) = 0..(Size - 1)
    BY DEF StoreOK, RowsOK, DenseSequences, Size
<1> QED
    BY <1>1 DEF Seqs

LEMMA BetweenSeqs ==
    ASSUME StoreOK, NEW a \in Nat, NEW b \in a..(Size - 1)
    PROVE  Seqs(Between(a, b)) = (a + 1)..b
<1>1. ASSUME NEW n \in (a + 1)..b PROVE n \in Seqs(Between(a, b))
    <2>1. n \in Seqs(rows)
        BY SizeType
    <2>2. PICK r \in rows : n = r.seq
        BY <2>1 DEF Seqs
    <2>3. r \in Between(a, b)
        BY <2>2, SizeType DEF Between
    <2> QED
        BY <2>2, <2>3 DEF Seqs
<1>2. ASSUME NEW r \in Between(a, b) PROVE r.seq \in (a + 1)..b
    BY SizeType DEF Between
<1> QED
    BY <1>1, <1>2 DEF Seqs

LEMMA Joined ==
    ASSUME StoreOK, NEW a \in Nat, NEW b \in a..(Size - 1)
    PROVE  Between(0, a) \cup Between(a, b) = Between(0, b)
BY SizeType DEF Between

LEMMA BetweenEmpty ==
    ASSUME StoreOK, NEW a \in Nat
    PROVE  Between(a, a) = {}
BY SizeType DEF Between

LEMMA ListIs ==
    ASSUME StoreOK, NEW a \in Nat
    PROVE  ListEvents(a) = Between(a, Size - 1)
BY SizeType DEF Between, ListEvents

LEMMA HigherIs ==
    ASSUME StoreOK, lastSeq \in Nat, NEW k \in lastSeq..(Size - 1), reply = Between(lastSeq, k)
    PROVE  Higher(reply) = k
<1>1. Seqs(reply) = (lastSeq + 1)..k
    BY BetweenSeqs
<1>2. Seqs(reply) \cup {lastSeq} = lastSeq..k
    BY <1>1, SizeType
<1>3. lastSeq \in Int /\ k \in Int /\ lastSeq <= k
    BY SizeType
<1>4. Max(lastSeq..k) = k
    BY <1>3, MaxOfInterval
<1> QED
    BY <1>2, <1>4 DEF Higher

(***************************************************************************)
(* What onEvent takes of a reply is a beginning of it.                     *)
(***************************************************************************)
LEMMA IngestedIs ==
    ASSUME StoreOK, lastSeq \in Nat, NEW k \in lastSeq..(Size - 1), reply = Between(lastSeq, k)
    PROVE  \E m \in lastSeq..k : /\ Ingested(reply) = Between(lastSeq, m)
                                 /\ Closing(reply) = {} => m = k
<1>1. CASE Closing(reply) = {}
    <2>1. Ingested(reply) = Between(lastSeq, k) /\ k \in lastSeq..k
        BY <1>1, SizeType DEF Ingested
    <2> QED
        BY <2>1
<1>2. CASE Closing(reply) # {}
    <2> DEFINE closers == Seqs(Closing(reply))
               m == Min(closers)
    <2>1. closers \subseteq (lastSeq + 1)..k
        BY BetweenSeqs DEF Closing, Seqs
    <2>2. closers # {}
        BY <1>2 DEF Seqs
    <2>3. closers \in SUBSET Nat
        BY <2>1, SizeType
    <2>4. m \in closers
        BY <2>2, <2>3, MinExists
    <2>5. m \in (lastSeq + 1)..k
        BY <2>1, <2>4
    <2>6. Ingested(reply) = {r \in reply : r.seq <= m}
        BY <1>2 DEF Ingested
    <2> HIDE DEF m
    <2>7. {r \in reply : r.seq <= m} = Between(lastSeq, m)
        BY <2>5, SizeType DEF Between
    <2>8. m \in lastSeq..k
        BY <2>5, SizeType
    <2> QED
        BY <1>2, <2>6, <2>7, <2>8
<1> QED
    BY <1>1, <1>2

LEMMA ClientInit == Init => ClientOK
<1> SUFFICES ASSUME Init PROVE ClientOK
    OBVIOUS
<1>1. StoreOK
    BY StoreInit
<1>2. Size \in Nat \ {0} /\ Between(0, 0) = {}
    BY <1>1, SizeType, BetweenEmpty
<1>3. ClientTyped /\ Resumes
    BY <1>2, StreamAssumption DEF Init, ClientTyped, Resumes
<1>4. Shows /\ Awaits
    BY <1>2 DEF Init, Shows, Awaits
<1> QED
    BY <1>3, <1>4 DEF ClientOK

(***************************************************************************)
(* A new row comes after all others, so no range the client knows changes. *)
(***************************************************************************)
LEMMA RangesKept ==
    ASSUME StoreOK, StoreOK', Writing
    PROVE  /\ Size' \in Nat /\ Size' >= Size
           /\ \A a \in Nat : \A b \in a..(Size - 1) : Between(a, b)' = Between(a, b)
<1>1. PICK w \in Writers : AppendRead(w) \/ AppendInsert(w)
    BY DEF Writing
<1>2. CASE UNCHANGED rows
    <2>1. Size' = Size
        BY <1>2 DEF Size
    <2> QED
        BY <1>2, <2>1, SizeType DEF Between
<1>3. CASE ~UNCHANGED rows
    <2> DEFINE new == [seq |-> wseq[w], ev |-> Script[w][wpos[w] + 1]]
    <2>1. /\ wpc[w] = "insert" /\ Insertable(wseq[w]) /\ rows' = rows \cup {new}
        BY <1>1, <1>3 DEF AppendRead, AppendInsert
    <2>2. wseq[w] = Size
        BY <2>1, SizeType DEF StoreOK, WritersOK, Insertable
    <2>3. new.seq = Size
        BY <2>2
    <2> HIDE DEF new
    <2>4. new \notin rows
        BY <2>3, SizeType
    <2>5. Size' = Size + 1
        BY <2>1, <2>4, FS_AddElement DEF StoreOK, RowsOK, Size
    <2>6. \A a \in Nat : \A b \in a..(Size - 1) : Between(a, b)' = Between(a, b)
        BY <2>1, <2>3, SizeType DEF Between
    <2> QED
        BY <2>5, <2>6, SizeType
<1> QED
    BY <1>2, <1>3

LEMMA WritingOK ==
    ASSUME StoreOK, StoreOK', ClientOK, Writing
    PROVE  ClientOK'
<1>1. /\ phase' = phase /\ reply' = reply /\ shown' = shown /\ lastSeq' = lastSeq
      /\ conn' = conn /\ attempts' = attempts /\ failures' = failures /\ reconnects' = reconnects
    BY DEF Writing, AppendRead, AppendInsert, clientVars
<1>2. /\ Size \in Nat \ {0} /\ Size' \in Nat /\ Size' >= Size
      /\ lastSeq \in 0..(Size - 1)
    BY RangesKept, SizeType DEF ClientOK, Resumes
<1>3. Size \in Int /\ Size' \in Int /\ Size' >= Size /\ lastSeq \in Int /\ lastSeq \in Nat
    BY <1>2
<1>4. \A j \in Int : \A i \in j..(Size - 1) : i \in j..(Size' - 1)
    BY <1>3, IntervalGrows
<1>5. ClientTyped' /\ Resumes'
    <2>1. \A i \in 0..(Size - 1) : i \in 0..(Size' - 1)
        BY <1>4
    <2>2. lastSeq \in 0..(Size - 1)
        BY <1>2
    <2>3. lastSeq \in 0..(Size' - 1)
        BY <2>1, <2>2, Zenon
    <2> QED
        BY <1>1, <2>3 DEF ClientOK, ClientTyped, Resumes
<1>6. Shows'
    <2>1. PICK k \in 0..(Size - 1) : shown = Between(0, k) /\ (phase # "off" => k = lastSeq)
        BY DEF ClientOK, Shows
    <2>2. Between(0, k)' = Between(0, k)
        BY RangesKept
    <2>3. k \in 0..(Size' - 1)
        BY <1>4
    <2> QED
        BY <1>1, <2>1, <2>2, <2>3 DEF Shows
<1>7. Awaits'
    <2>1. PICK k \in lastSeq..(Size - 1) : reply = Between(lastSeq, k)
        BY DEF ClientOK, Awaits
    <2>2. PICK a \in Nat : a = lastSeq
        BY <1>2
    <2>3. Between(a, k)' = Between(a, k)
        BY <2>2, RangesKept
    <2>4. reply' = Between(lastSeq, k)'
        BY <1>1, <2>1, <2>2, <2>3 DEF Between
    <2>5. k \in lastSeq'..(Size' - 1)
        BY <1>1, <1>3, <1>4
    <2> QED
        BY <2>4, <2>5 DEF Awaits
<1> QED
    BY <1>5, <1>6, <1>7 DEF ClientOK

(***************************************************************************)
(* A step of the client leaves the store and so every range as it is: what *)
(* is left to show are its own variables.                                  *)
(***************************************************************************)
LEMMA ByRanges ==
    ASSUME StoreOK, UNCHANGED storeVars, ClientTyped',
           NEW l \in 0..(Size - 1), NEW k \in l..(Size - 1), NEW m \in 0..(Size - 1),
           lastSeq' = l, phase' \in {"fetch", "caught_up"} => l = 0,
           reply' = Between(l, k), shown' = Between(0, m), phase' # "off" => m = l
    PROVE  ClientOK'
<1>1. Size' = Size /\ \A a, b : Between(a, b)' = {r \in rows : a < r.seq /\ r.seq <= b}
    BY DEF storeVars, Size, Between
<1>2. Resumes'
    BY <1>1 DEF Resumes
<1>3. shown' = Between(0, m)'
    BY <1>1 DEF Between
<1>4. Shows'
    BY <1>1, <1>3 DEF Shows
<1>5. reply' = Between(lastSeq, k)'
    BY DEF Between, storeVars
<1>6. Awaits'
    BY <1>1, <1>5 DEF Awaits
<1> QED
    BY <1>2, <1>4, <1>6 DEF ClientOK

LEMMA ReadingOK ==
    ASSUME StoreOK, ClientOK, Reading
    PROVE  ClientOK'
<1>1. ClientTyped'
    BY StreamAssumption
    DEF ClientOK, ClientTyped, Reading, CatchUp, CatchUpFails, IngestCatchUp, StreamEnds, Poll,
        PollFails, IngestPoll
<1>2. UNCHANGED storeVars
    BY ClientLeavesStore
<1>3. Size \in Nat \ {0} /\ lastSeq \in 0..(Size - 1) /\ lastSeq \in Nat
    BY SizeType DEF ClientOK, Resumes
<1>4. PICK k \in lastSeq..(Size - 1) : reply = Between(lastSeq, k)
    BY DEF ClientOK, Awaits
<1>5. PICK m \in 0..(Size - 1) : shown = Between(0, m) /\ (phase # "off" => m = lastSeq)
    BY DEF ClientOK, Shows
<1>6. PICK l \in 0..(Size - 1) : l = lastSeq
    BY <1>3
<1>7. l \in Nat /\ Size - 1 \in l..(Size - 1) /\ k \in 0..(Size - 1) /\ k \in l..(Size - 1)
    BY <1>3, <1>6
<1>8. CASE CatchUp \/ Poll
    <2>1. /\ reply' = Between(l, Size - 1) /\ shown' = Between(0, m) /\ lastSeq' = l
          /\ phase # "off" /\ phase' # "off" /\ (phase' \in {"fetch", "caught_up"} => l = 0)
        BY <1>5, <1>6, <1>7, <1>8, ListIs DEF CatchUp, Poll, ClientOK, Resumes
    <2> QED
        BY <1>1, <1>2, <1>5, <1>6, <1>7, <2>1, ByRanges
<1>9. CASE CatchUpFails \/ StreamEnds \/ PollFails
    <2>1. /\ reply' = Between(l, k) /\ shown' = Between(0, m) /\ lastSeq' = l
          /\ phase # "off" /\ (phase' \in {"fetch", "caught_up"} => l = 0)
        BY <1>4, <1>5, <1>6, <1>9 DEF CatchUpFails, StreamEnds, PollFails, ClientOK, Resumes
    <2> QED
        BY <1>1, <1>2, <1>5, <1>6, <1>7, <2>1, ByRanges
<1>10. CASE IngestCatchUp
    <2>1. m = l /\ lastSeq' = k /\ reply' = {} /\ phase' = "streaming"
        BY <1>3, <1>4, <1>5, <1>6, <1>10, HigherIs DEF IngestCatchUp
    <2>2. reply' = Between(k, k)
        BY <1>7, <2>1, BetweenEmpty
    <2>3. shown' = Between(0, k)
        BY <1>4, <1>5, <1>6, <1>7, <1>10, <2>1, Joined DEF IngestCatchUp
    <2>4. k \in k..(Size - 1)
        BY <1>3, <1>7
    <2> QED
        BY <1>1, <1>2, <1>7, <2>1, <2>2, <2>3, <2>4, ByRanges
<1>11. CASE IngestPoll
    <2>1. m = l /\ lastSeq' = k /\ reply' = {} /\ phase' \in {"streaming", "off"}
        BY <1>3, <1>4, <1>5, <1>6, <1>11, HigherIs DEF IngestPoll
    <2>2. reply' = Between(k, k)
        BY <1>7, <2>1, BetweenEmpty
    <2>3. PICK n \in lastSeq..k : /\ Ingested(reply) = Between(lastSeq, n)
                                  /\ Closing(reply) = {} => n = k
        BY <1>3, <1>4, IngestedIs
    <2>4. n \in l..(Size - 1) /\ n \in 0..(Size - 1) /\ k \in k..(Size - 1)
        BY <1>3, <1>6, <1>7, <2>3
    <2>5. shown' = Between(0, l) \cup Between(l, n)
        BY <1>5, <1>6, <1>11, <2>1, <2>3 DEF IngestPoll
    <2>6. shown' = Between(0, n)
        BY <1>7, <2>4, <2>5, Joined
    <2>7. phase' # "off" => n = k
        BY <1>11, <2>3 DEF IngestPoll
    <2> QED
        BY <1>1, <1>2, <1>7, <2>1, <2>2, <2>4, <2>6, <2>7, ByRanges
<1> QED
    BY <1>8, <1>9, <1>10, <1>11 DEF Reading

LEMMA ReconnectOK ==
    ASSUME StoreOK, ClientOK, Reconnect
    PROVE  ClientOK'
<1>1. ClientTyped'
    BY StreamAssumption DEF ClientOK, ClientTyped, Reconnect
<1>2. 0 \in 0..(Size - 1) /\ Between(0, 0) = {}
    BY SizeType, BetweenEmpty
<1>3. /\ lastSeq' = 0 /\ reply' = Between(0, 0) /\ shown' = Between(0, 0)
      /\ UNCHANGED storeVars
    BY <1>2 DEF Reconnect
<1> QED
    BY <1>1, <1>2, <1>3, ByRanges

LEMMA ClientStep == StoreOK /\ StoreOK' /\ ClientOK /\ [Next]_vars => ClientOK'
<1> SUFFICES ASSUME StoreOK, StoreOK', ClientOK, [Next]_vars PROVE ClientOK'
    OBVIOUS
<1>1. CASE UNCHANGED vars
    <2>1. Size' = Size /\ UNCHANGED <<clientVars, rows>>
        BY <1>1 DEF vars, storeVars, Size
    <2> QED
        BY <2>1 DEF clientVars, ClientOK, ClientTyped, Resumes, Shows, Awaits, Between
<1>2. CASE Writing
    BY <1>2, WritingOK
<1>3. CASE Reading
    BY <1>3, ReadingOK
<1>4. CASE Reconnect
    BY <1>4, ReconnectOK
<1> QED
    BY <1>1, <1>2, <1>3, <1>4 DEF Next, Rest

Inv == StoreOK /\ ClientOK

LEMMA InvHolds == Spec => []Inv
<1>1. Init => Inv
    BY StoreInit, ClientInit DEF Inv
<1>2. Inv /\ [Next]_vars => Inv'
    BY StoreStep, ClientStep DEF Inv
<1> QED
    BY <1>1, <1>2, PTL DEF Spec

(***************************************************************************)
(* NoGapShown (ingest, streamRunEvents): whatever is appended while a      *)
(* fetch is on its way, fails or is repeated, and however often the user   *)
(* reconnects, the client shows no event while an earlier one from 1 on is *)
(* missing.                                                                *)
(***************************************************************************)
THEOREM NothingIsSkipped == Spec => []NoGapShown
<1>1. ASSUME Inv PROVE NoGapShown
    <2>1. StoreOK
        BY <1>1 DEF Inv
    <2>2. PICK k \in 0..(Size - 1) : shown = Between(0, k)
        BY <1>1 DEF Inv, ClientOK, Shows
    <2>3. Seqs(shown) = 1..k
        BY <2>1, <2>2, BetweenSeqs
    <2>4. \A r \in shown : r.seq \in 1..k
        BY <2>3 DEF Seqs
    <2> QED
        BY <2>1, <2>2, <2>3, <2>4, SizeType DEF NoGapShown
<1> QED
    BY <1>1, InvHolds, PTL

(***************************************************************************)
(* TypeOK: the rows, the numbers the writers compute and the client's      *)
(* state stay in their types; no sequence number exceeds the number of     *)
(* appends.                                                                *)
(***************************************************************************)
THEOREM TypeCorrect == Spec => []TypeOK
<1>1. ASSUME Inv PROVE TypeOK
    <2>1. StoreOK /\ ClientOK /\ WritersOK /\ RowsOK
        BY <1>1 DEF Inv, StoreOK
    <2>2. Size - 1 <= MaxSeq /\ Size - 1 \in Nat /\ MaxSeq \in Nat
        BY <2>1, DoneFinite, SlotsFinite DEF RowsOK
    <2>3. rows \subseteq Row
        <3>1. ASSUME NEW r \in rows PROVE r \in Row
            <4>1. r.seq \in 0..MaxSeq
                BY <2>1, <2>2, SizeType
            <4>2. r \in [seq : Nat, ev : Event]
                BY <2>1 DEF RowsOK
            <4> QED
                BY <4>1, <4>2 DEF Row
        <3> QED
            BY <3>1
    <2>4. shown \subseteq rows /\ reply \subseteq rows
        BY <2>1 DEF ClientOK, Shows, Awaits, Between
    <2>5. lastSeq \in 0..MaxSeq
        BY <2>1, <2>2 DEF ClientOK, Resumes
    <2>6. \A w \in Writers : wpos[w] \in 0..Len(Script[w])
        BY <2>1, LenType DEF WritersOK
    <2>7. wseq \in [Writers -> 0..MaxSeq]
        BY <2>1 DEF StoreOK
    <2>8. wpc \in [Writers -> {"ready", "insert"}] /\ failed \in Nat
        BY <2>1 DEF WritersOK
    <2> QED
        BY <2>1, <2>3, <2>4, <2>5, <2>6, <2>7, <2>8 DEF TypeOK, ClientOK, ClientTyped
<1> QED
    BY <1>1, InvHolds, PTL

=============================================================================
