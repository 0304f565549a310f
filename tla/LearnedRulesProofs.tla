------------------------- MODULE LearnedRulesProofs --------------------------
(***************************************************************************)
(* What the rules with a memory promise, for every set of models, cards,   *)
(* readings and limits: the state's types, that a fallback is found and    *)
(* goes on, that one slow request is not taken for one, that wear is of    *)
(* the card and a new record is news, whatever writes fail and processes   *)
(* restart.                                                                *)
(***************************************************************************)
EXTENDS LearnedRules, FiniteSetTheorems, WellFoundedInduction, TLAPS

-----------------------------------------------------------------------------
(* Natural numbers and the elements of a sequence: the smallest of a set,  *)
(* and the largest of some elements.                                       *)
LEMMA SmallestOf ==
    ASSUME NEW S \in SUBSET Nat, S # {}
    PROVE  \E m \in S : \A n \in S : m <= n
<1>1. PICK m \in S : \A n \in S : <<n, m>> \notin OpToRel(<, Nat)
  BY NatLessThanWellFounded, WFMin
<1>2. ASSUME NEW n \in S PROVE m <= n
  <2>1. <<n, m>> \notin {ss \in Nat \X Nat : ss[1] < ss[2]}
    BY <1>1, <1>2 DEF OpToRel
  <2> QED BY <2>1
<1> QED BY <1>2

(* The sets of places of a sequence that lie below, up to and above d.     *)
Below(w, d) == {i \in DOMAIN w : w[i] < d}
UpTo(w, d) == {i \in DOMAIN w : w[i] <= d}
Above(w, d) == {i \in DOMAIN w : w[i] > d}

LEMMA PlacesAreFinite ==
    ASSUME NEW S, NEW w \in Seq(S), NEW I \in SUBSET DOMAIN w
    PROVE  /\ IsFiniteSet(I) /\ Cardinality(I) \in Nat /\ Cardinality(I) <= Len(w)
           /\ IsFiniteSet(DOMAIN w) /\ Cardinality(DOMAIN w) = Len(w)
<1>1. DOMAIN w = 1 .. Len(w) /\ Len(w) \in Nat
  OBVIOUS
<1>2. IsFiniteSet(DOMAIN w) /\ Cardinality(DOMAIN w) = Len(w)
  <2>1. 1 \in Int /\ Len(w) \in Int
    BY <1>1
  <2>2. /\ IsFiniteSet(1 .. Len(w))
        /\ Cardinality(1 .. Len(w)) = IF 1 > Len(w) THEN 0 ELSE Len(w) - 1 + 1
    BY <2>1, FS_Interval
  <2>3. (IF 1 > Len(w) THEN 0 ELSE Len(w) - 1 + 1) = Len(w)
    BY <1>1
  <2> QED BY <1>1, <2>2, <2>3
<1> QED BY <1>2, FS_Subset, FS_CardinalityType

(* A smaller set of places has fewer of them.                              *)
LEMMA FewerPlaces ==
    ASSUME NEW S, NEW w \in Seq(S), NEW I \in SUBSET DOMAIN w, NEW J \in SUBSET I
    PROVE  /\ Cardinality(J) <= Cardinality(I)
           /\ J # I => Cardinality(J) < Cardinality(I)
<1>1. IsFiniteSet(I) /\ Cardinality(I) \in Nat /\ Cardinality(J) \in Nat
  BY PlacesAreFinite
<1> QED BY <1>1, FS_Subset

LEMMA LargestOf ==
    ASSUME NEW w \in Seq(Nat), NEW I \in SUBSET DOMAIN w, I # {}
    PROVE  \E j \in I : \A i \in I : w[i] <= w[j]
<1> DEFINE over(j) == {i \in I : w[i] > w[j]}
           counts == {Cardinality(over(j)) : j \in I}
<1>1. \A j \in I : over(j) \in SUBSET I /\ Cardinality(over(j)) \in Nat
  BY PlacesAreFinite
<1>2. counts \in SUBSET Nat /\ counts # {}
  BY <1>1
<1>3. PICK j \in I : \A i \in I : Cardinality(over(j)) <= Cardinality(over(i))
  <2> HIDE DEF over
  <2>1. PICK m \in counts : \A n \in counts : m <= n
    BY <1>2, SmallestOf
  <2> QED BY <2>1
<1>4. ASSUME NEW i \in I, w[i] > w[j] PROVE FALSE
  <2>1. \A k \in I : w[k] \in Nat
    OBVIOUS
  <2>2. over(i) \subseteq over(j) /\ i \in over(j) /\ i \notin over(i)
    BY <1>4, <2>1
  <2>3. Cardinality(over(i)) < Cardinality(over(j))
    BY <1>1, <2>2, FewerPlaces
  <2> HIDE DEF over
  <2> QED BY <1>1, <1>3, <1>4, <2>3
<1>5. \A i \in I : w[i] \in Nat
  OBVIOUS
<1> QED BY <1>3, <1>4, <1>5

-----------------------------------------------------------------------------
(* store.decode_baseline's order statistics exist, and are told from their *)
(* number of places below and up to them.                                  *)
LEMMA KthExists ==
    ASSUME NEW w \in Seq(Nat), NEW k \in 1 .. Len(w)
    PROVE  /\ Kth(w, k) \in Nat
           /\ Cardinality(Below(w, Kth(w, k))) < k
           /\ Cardinality(UpTo(w, Kth(w, k))) >= k
<1>1. \A i \in DOMAIN w : w[i] \in Nat
  OBVIOUS
<1>2. DOMAIN w = 1 .. Len(w) /\ Len(w) \in Nat /\ k \in Nat
  OBVIOUS
<1>3. \A d : /\ Cardinality(Below(w, d)) \in Nat /\ Cardinality(UpTo(w, d)) \in Nat
             /\ Below(w, d) \subseteq DOMAIN w /\ UpTo(w, d) \subseteq DOMAIN w
  BY PlacesAreFinite DEF Below, UpTo
<1> DEFINE enough == {d \in ToSet(w) : Cardinality(UpTo(w, d)) >= k}
<1>4. enough \in SUBSET Nat
  BY <1>1 DEF ToSet
<1>5. enough # {}
  <2>1. PICK j \in DOMAIN w : \A i \in DOMAIN w : w[i] <= w[j]
    BY <1>2, LargestOf
  <2>2. UpTo(w, w[j]) = DOMAIN w
    BY <2>1 DEF UpTo
  <2>3. Cardinality(UpTo(w, w[j])) = Len(w)
    BY <2>2, PlacesAreFinite
  <2> QED BY <1>2, <2>1, <2>3 DEF ToSet
<1>6. PICK d \in enough : \A e \in enough : d <= e
  BY <1>4, <1>5, SmallestOf
<1>7. Cardinality(Below(w, d)) < k
  <2>1. CASE Below(w, d) = {}
    BY <1>2, <2>1, FS_EmptySet
  <2>2. CASE Below(w, d) # {}
    <3>1. PICK j \in Below(w, d) : \A i \in Below(w, d) : w[i] <= w[j]
      BY <1>3, <2>2, LargestOf
    <3>2. w[j] \in Nat /\ w[j] < d /\ d \in Nat /\ j \in DOMAIN w
      BY <1>1, <1>4, <3>1 DEF Below
    <3>3. Below(w, d) = UpTo(w, w[j])
      BY <1>1, <3>1, <3>2 DEF Below, UpTo
    <3>4. w[j] \notin enough
      BY <1>6, <3>2
    <3>5. w[j] \in ToSet(w)
      BY <3>2 DEF ToSet
    <3> QED BY <1>2, <1>3, <3>3, <3>4, <3>5
  <2> QED BY <2>1, <2>2
<1> DEFINE P(e) == Cardinality(Below(w, e)) < k /\ Cardinality(UpTo(w, e)) >= k
<1>8. d \in ToSet(w) /\ P(d)
  BY <1>6, <1>7
<1>9. Kth(w, k) = CHOOSE e \in ToSet(w) : P(e)
  BY DEF Kth, Below, UpTo
<1> HIDE DEF P
<1>10. Kth(w, k) \in ToSet(w) /\ P(Kth(w, k))
  BY <1>8, <1>9
<1> QED BY <1>1, <1>10 DEF P, ToSet

-----------------------------------------------------------------------------
(* Types, and what a poll does to the rows.                                *)
Rates == Nat \ {0}

RowNames == {"slow", "cards", "sel", "remap", "ecc", "power", "restarts", "parse"}

SlowRows == [run : Nat, last : Counts, base : Counts]
SelRows == [rid : Nat, grew : Counts, serious : BOOLEAN] \cup {None}
PowerRows == [run : Nat, peak : 0 .. 2]
ParseRows == [tokens : Counts, timings : Counts, misses : Nat]

(* A row of each kind, and a run that has a rate or a peak.                *)
RowsTyped(rows) ==
    /\ rows.slow \in SlowRows /\ (rows.slow.run > 0 => rows.slow.last # None)
    /\ rows.cards \in Nat
    /\ rows.sel \in SelRows
    /\ rows.remap \in [Serials -> Counts] /\ rows.ecc \in [Serials -> Counts]
    /\ rows.power \in PowerRows /\ (rows.power.run = 0 <=> rows.power.peak = 0)
    /\ rows.restarts \in Counts
    /\ rows.parse \in ParseRows

LearnedTypeInv ==
    /\ now \in Nat
    /\ machine \in Machines
    /\ obs \in [Models -> Seq(Rates)]
    /\ \A m \in Models : Len(obs[m]) <= BaselineWindow
    /\ DOMAIN kv = RowNames
    /\ RowsTyped(kv)
    /\ recent \in Seq([model : Models \cup {NoModel}, decode : Rates])
    /\ Len(recent) <= SlowRun
    /\ fewest \in [Serials -> Counts]
    /\ faults \in 0 .. MaxFaults

(* A poll judged by the rules in done, to the end or until a write failed. *)
Judges(r, t, done) ==
    /\ now' = t
    /\ machine' = machine
    /\ obs' = RecordDecode(r)
    /\ Evaluate(r, t, done)
    /\ \/ /\ done = RowNames
          /\ raised' = Alerts(r, t, RowsAfter(r, t))
          /\ latest' = r
          /\ faults' = faults
       \/ /\ faults < MaxFaults /\ faults' = faults + 1
          /\ raised' = raised
          /\ latest' = None

(* The clock reads natural numbers.                                        *)
LEMMA ReadingsAreNat == ASSUME LearnedTypeInv PROVE \A t \in Readings : t \in Nat
BY GapsAssumption DEF Readings, LearnedTypeInv

(* monitor.py: a poll judges, to the end or not, or the process restarts.  *)
LEMMA LearnedSteps ==
    ASSUME LearnedTypeInv, Next
    PROVE  \/ \E r \in machine, t \in Readings, done \in SUBSET RowNames : Judges(r, t, done)
           \/ Restart
<1>1. ASSUME NEW r \in machine, NEW t \in Readings, Poll(r, t)
      PROVE  Judges(r, t, RowNames)
  BY <1>1 DEF Poll, Reads, Judges, LearnedTypeInv
<1>2. ASSUME NEW r \in machine, NEW t \in Readings, NEW n \in DOMAIN RuleOrder,
             PollFails(r, t, n)
      PROVE  \E done \in SUBSET RowNames : Judges(r, t, done)
  <2> DEFINE done == {RuleOrder[i] : i \in 1 .. n - 1}
  <2>1. done \in SUBSET RowNames
    BY DEF RuleOrder, RowNames
  <2>2. Judges(r, t, done)
    BY <1>2 DEF PollFails, Reads, Judges
  <2> QED BY <2>1, <2>2
<1> QED BY <1>1, <1>2 DEF Next

(* rules.evaluate_alerts: each rule that was reached has stored its row.   *)
LEMMA RowsStored ==
    ASSUME DOMAIN kv = RowNames, NEW r, NEW t, NEW done \in SUBSET RowNames,
           Evaluate(r, t, done)
    PROVE  /\ DOMAIN kv' = RowNames
           /\ kv'.slow = IF "slow" \in done THEN SlowRow(r) ELSE kv.slow
           /\ kv'.cards = IF "cards" \in done THEN CardsRow(r) ELSE kv.cards
           /\ kv'.sel = IF "sel" \in done THEN SelRow(r, t) ELSE kv.sel
           /\ kv'.remap = IF "remap" \in done THEN RowsAfter(r, t).remap ELSE kv.remap
           /\ kv'.ecc = IF "ecc" \in done THEN RowsAfter(r, t).ecc ELSE kv.ecc
           /\ kv'.power = IF "power" \in done THEN PowerRow(r) ELSE kv.power
           /\ kv'.restarts = IF "restarts" \in done THEN RestartsRow(r) ELSE kv.restarts
           /\ kv'.parse = IF "parse" \in done THEN ParseRow(r) ELSE kv.parse
<1> DEFINE rows == RowsAfter(r, t)
<1>1. kv' = [row \in RowNames |-> IF row \in done THEN rows[row] ELSE kv[row]]
  BY DEF Evaluate
<1>2. /\ rows.slow = SlowRow(r) /\ rows.cards = CardsRow(r) /\ rows.sel = SelRow(r, t)
      /\ rows.power = PowerRow(r) /\ rows.restarts = RestartsRow(r)
      /\ rows.parse = ParseRow(r)
  BY DEF RowsAfter
<1> HIDE DEF rows
<1>3. DOMAIN kv' = RowNames
  BY <1>1
<1>4. \A row \in RowNames : kv'[row] = IF row \in done THEN rows[row] ELSE kv[row]
  BY <1>1
<1>5. /\ kv'.slow = IF "slow" \in done THEN rows.slow ELSE kv.slow
      /\ kv'.cards = IF "cards" \in done THEN rows.cards ELSE kv.cards
      /\ kv'.sel = IF "sel" \in done THEN rows.sel ELSE kv.sel
      /\ kv'.remap = IF "remap" \in done THEN rows.remap ELSE kv.remap
      /\ kv'.ecc = IF "ecc" \in done THEN rows.ecc ELSE kv.ecc
      /\ kv'.power = IF "power" \in done THEN rows.power ELSE kv.power
      /\ kv'.restarts = IF "restarts" \in done THEN rows.restarts ELSE kv.restarts
      /\ kv'.parse = IF "parse" \in done THEN rows.parse ELSE kv.parse
  BY <1>4 DEF RowNames
<1> QED BY <1>2, <1>3, <1>5 DEF rows

-----------------------------------------------------------------------------
(* What was added to a list is at its end, and its oldest makes room.      *)
Pushed(w, d, limit, w2) ==
    \/ Len(w) < limit /\ w2 = Append(w, d)
    \/ Len(w) = limit /\ w2 = Tail(Append(w, d))

LEMMA ReadingFields ==
    ASSUME LearnedTypeInv, NEW r \in machine
    PROVE  /\ r \in Reading
           /\ r.model \in Models \cup {NoModel}
           /\ r.decode \in Rates \cup {None}
           /\ r.cards \in Counts /\ r.restarts \in Counts
           /\ r.timings \in Counts /\ r.tokens \in Counts
           /\ r.sel # None => r.sel.rid \in Nat
           /\ r.card # None => /\ r.card.serial \in Serials /\ r.card.remaps \in Nat
                               /\ r.card.ecc \in Counts
                               /\ r.card.draw \in 0 .. 2 \cup {None}
<1>1. r \in Reading
  BY LearnedAssumption DEF LearnedTypeInv
<1> QED BY <1>1, LearnedAssumption DEF Reading, Counts, Rates

(* store.record_decode: the model's rate is pushed to its window.          *)
LEMMA DecodeRecorded ==
    ASSUME LearnedTypeInv, NEW r \in machine
    PROVE  /\ RecordDecode(r) \in [Models -> Seq(Rates)]
           /\ \A m \in Models :
                 \/ RecordDecode(r)[m] = obs[m] /\ (r.decode = None \/ r.model # m)
                 \/ /\ m = r.model /\ r.decode \in Rates
                    /\ Pushed(obs[m], r.decode, BaselineWindow, RecordDecode(r)[m])
           /\ \A m \in Models : Len(RecordDecode(r)[m]) <= BaselineWindow
<1>1. CASE r.model = NoModel \/ r.decode = None
  BY <1>1, LearnedAssumption DEF RecordDecode, LearnedTypeInv
<1>2. CASE r.model # NoModel /\ r.decode # None
  <2> DEFINE w == obs[r.model]
             w2 == Append(w, r.decode)
             w3 == IF Len(w2) > BaselineWindow THEN Tail(w2) ELSE w2
  <2>1. r.model \in Models /\ r.decode \in Rates
    BY <1>2, ReadingFields
  <2>2. w \in Seq(Rates) /\ Len(w) <= BaselineWindow /\ BaselineWindow \in Nat
    BY <2>1, LearnedAssumption DEF LearnedTypeInv
  <2>3. w2 \in Seq(Rates) /\ Len(w2) = Len(w) + 1 /\ w2 # <<>> /\ Len(w) \in Nat
    BY <2>1, <2>2
  <2>4. w3 \in Seq(Rates) /\ Len(w3) <= BaselineWindow
    <3> HIDE DEF w, w2
    <3>1. Tail(w2) \in Seq(Rates) /\ Len(Tail(w2)) = Len(w2) - 1
      BY <2>3
    <3> QED BY <2>2, <2>3, <3>1
  <2>5. Pushed(w, r.decode, BaselineWindow, w3)
    BY <2>2, <2>3 DEF Pushed
  <2>6. RecordDecode(r) = [obs EXCEPT ![r.model] = w3]
    BY <1>2 DEF RecordDecode
  <2> HIDE DEF w3
  <2> QED BY <2>1, <2>4, <2>5, <2>6 DEF LearnedTypeInv
<1> QED BY <1>1, <1>2


-----------------------------------------------------------------------------
(* store.decode_baseline, doubled: once there is enough to learn from, the *)
(* sum of the two middle rates of the model's window.                      *)
Window(r) == RecordDecode(r)[r.model]

LEMMA BaselineIsMedian ==
    ASSUME LearnedTypeInv, NEW r \in machine, r.model # NoModel, r.decode # None,
           Len(Window(r)) >= MinSamples
    PROVE  \E k1, k2 \in 1 .. Len(Window(r)) :
              /\ k1 = (Len(Window(r)) + 1) \div 2 /\ k2 = Len(Window(r)) \div 2 + 1
              /\ Kth(Window(r), k1) \in Nat /\ Kth(Window(r), k2) \in Nat
              /\ Baseline(r) = Kth(Window(r), k1) + Kth(Window(r), k2)
<1> DEFINE n == Len(Window(r))
<1>1. Window(r) \in Seq(Rates) /\ Window(r) \in Seq(Nat) /\ n \in Nat
  <2>1. r.model \in Models
    BY ReadingFields
  <2>2. Window(r) \in Seq(Rates)
    BY <2>1, DecodeRecorded DEF Window
  <2> QED BY <2>2 DEF Rates
<1>2. n > 0
  BY <1>1, LearnedAssumption
<1>3. (n + 1) \div 2 \in 1 .. n /\ n \div 2 + 1 \in 1 .. n
  <2> HIDE DEF n
  <2> QED BY <1>1, <1>2
<1>4. Baseline(r) = Kth(Window(r), (n + 1) \div 2) + Kth(Window(r), n \div 2 + 1)
  <2>1. ~(Len(RecordDecode(r)[r.model]) < MinSamples)
    BY <1>1, LearnedAssumption DEF Window
  <2> QED BY <2>1, Zenon DEF Baseline, Window
<1>5. Kth(Window(r), (n + 1) \div 2) \in Nat /\ Kth(Window(r), n \div 2 + 1) \in Nat
  BY <1>1, <1>3, KthExists
<1> QED BY <1>3, <1>4, <1>5

LEMMA BaselineIsCount ==
    ASSUME LearnedTypeInv, NEW r \in machine, r.decode # None
    PROVE  Baseline(r) \in Counts
<1>1. CASE r.model = NoModel
  BY <1>1 DEF Baseline, Counts
<1>2. CASE r.model # NoModel /\ Len(Window(r)) < MinSamples
  BY <1>2 DEF Baseline, Counts, Window
<1>3. CASE r.model # NoModel /\ ~(Len(Window(r)) < MinSamples)
  <2>1. r.model \in Models
    BY <1>3, ReadingFields
  <2>2. Len(Window(r)) \in Nat
    BY <2>1, DecodeRecorded DEF Window
  <2>3. Len(Window(r)) >= MinSamples
    BY <1>3, <2>2, LearnedAssumption
  <2> QED BY <1>3, <2>3, BaselineIsMedian DEF Counts
<1> QED BY <1>1, <1>2, <1>3

(* The rows a poll would store are rows.                                   *)
LEMMA RowsAfterTyped ==
    ASSUME LearnedTypeInv, NEW r \in machine, NEW t \in Nat
    PROVE  RowsTyped(RowsAfter(r, t))
<1> DEFINE rows == RowsAfter(r, t)
<1>0. RowsTyped(kv) /\ None \notin Nat
  BY LearnedAssumption DEF LearnedTypeInv
<1>1. rows.slow \in SlowRows /\ (rows.slow.run > 0 => rows.slow.last # None)
  <2>1. CASE r.decode = None
    BY <1>0, <2>1 DEF RowsAfter, SlowRow, RowsTyped
  <2>2. CASE r.decode # None
    <3>1. r.decode \in Counts /\ Baseline(r) \in Counts
      BY <2>2, ReadingFields, BaselineIsCount DEF Rates, Counts
    <3>2. kv.slow.run \in Nat
      BY <1>0 DEF RowsTyped, SlowRows
    <3> QED BY <2>2, <3>1, <3>2 DEF RowsAfter, SlowRow, SlowRows
  <2> QED BY <2>1, <2>2
<1>2. rows.cards \in Nat
  BY <1>0, ReadingFields DEF RowsAfter, CardsRow, RowsTyped, Counts
<1>3. rows.sel \in SelRows
  <2>1. CASE r.sel = None \/ kv.sel = None \/ r.sel.rid > kv.sel.rid
    BY <1>0, <2>1, ReadingFields DEF RowsAfter, SelRow, RowsTyped, SelRows, Counts
  <2>2. CASE ~(r.sel = None \/ kv.sel = None \/ r.sel.rid > kv.sel.rid)
    <3>1. kv.sel \in [rid : Nat, grew : Counts, serious : BOOLEAN] /\ r.sel.rid \in Nat
      BY <1>0, <2>2, ReadingFields DEF RowsTyped, SelRows
    <3>2. rows.sel = [kv.sel EXCEPT !.rid = r.sel.rid]
      BY <2>2 DEF RowsAfter, SelRow
    <3> QED BY <3>1, <3>2 DEF SelRows
  <2> QED BY <2>1, <2>2
<1>4. ASSUME NEW row \in [Serials -> Counts], NEW count \in Counts
      PROVE  WearRow(row, r, count) \in [Serials -> Counts]
  BY <1>4, ReadingFields DEF WearRow
<1>5. rows.remap \in [Serials -> Counts] /\ rows.ecc \in [Serials -> Counts]
  <2>1. /\ (IF r.card = None THEN None ELSE r.card.remaps) \in Counts
        /\ (IF r.card = None THEN None ELSE r.card.ecc) \in Counts
    BY ReadingFields DEF Counts
  <2> QED BY <1>0, <1>4, <2>1 DEF RowsAfter, RowsTyped
<1>6. rows.power \in PowerRows /\ (rows.power.run = 0 <=> rows.power.peak = 0)
  <2>1. CASE r.card = None \/ r.card.draw = None
    BY <1>0, <2>1 DEF RowsAfter, PowerRow, RowsTyped
  <2>2. CASE r.card # None /\ r.card.draw # None
    <3>1. r.card.draw \in 0 .. 2 /\ kv.power.run \in Nat /\ kv.power.peak \in 0 .. 2
      BY <1>0, <2>2, ReadingFields DEF RowsTyped, PowerRows
    <3>2. rows.power = PowerRow(r)
      BY DEF RowsAfter
    <3> QED BY <2>2, <3>1, <3>2 DEF PowerRow, PowerRows
  <2> QED BY <2>1, <2>2
<1>7. rows.restarts \in Counts
  BY <1>0, ReadingFields DEF RowsAfter, RestartsRow, RowsTyped
<1>8. rows.parse \in ParseRows
  <2>1. kv.parse \in ParseRows /\ r.tokens \in Counts /\ r.timings \in Counts
    BY <1>0, ReadingFields DEF RowsTyped
  <2>2. rows.parse = ParseRow(r)
    BY DEF RowsAfter
  <2> QED BY <2>1, <2>2 DEF ParseRow, ParseRows
<1> HIDE DEF rows
<1> QED BY <1>1, <1>2, <1>3, <1>5, <1>6, <1>7, <1>8 DEF RowsTyped, rows

(* Rows of which some were stored and some could not be are rows.          *)
LEMMA RowsStayTyped ==
    ASSUME LearnedTypeInv, NEW r \in machine, NEW t \in Nat,
           NEW done \in SUBSET RowNames, Evaluate(r, t, done)
    PROVE  DOMAIN kv' = RowNames /\ RowsTyped(kv')
<1>1. RowsTyped(kv) /\ DOMAIN kv = RowNames
  BY DEF LearnedTypeInv
<1> DEFINE rows == RowsAfter(r, t)
<1>2. RowsTyped(rows)
  BY RowsAfterTyped
<1>3. /\ rows.slow = SlowRow(r) /\ rows.cards = CardsRow(r) /\ rows.sel = SelRow(r, t)
      /\ rows.power = PowerRow(r) /\ rows.restarts = RestartsRow(r)
      /\ rows.parse = ParseRow(r)
  BY DEF RowsAfter
<1> HIDE DEF rows
<1>4. /\ DOMAIN kv' = RowNames
      /\ kv'.slow = rows.slow \/ kv'.slow = kv.slow
      /\ kv'.cards = rows.cards \/ kv'.cards = kv.cards
      /\ kv'.sel = rows.sel \/ kv'.sel = kv.sel
      /\ kv'.remap = rows.remap \/ kv'.remap = kv.remap
      /\ kv'.ecc = rows.ecc \/ kv'.ecc = kv.ecc
      /\ kv'.power = rows.power \/ kv'.power = kv.power
      /\ kv'.restarts = rows.restarts \/ kv'.restarts = kv.restarts
      /\ kv'.parse = rows.parse \/ kv'.parse = kv.parse
  BY <1>1, <1>3, RowsStored DEF rows
<1>5. kv'.slow \in SlowRows /\ (kv'.slow.run > 0 => kv'.slow.last # None)
  BY <1>1, <1>2, <1>4 DEF RowsTyped
<1>6. kv'.power \in PowerRows /\ (kv'.power.run = 0 <=> kv'.power.peak = 0)
  BY <1>1, <1>2, <1>4 DEF RowsTyped
<1> QED BY <1>1, <1>2, <1>4, <1>5, <1>6 DEF RowsTyped

(* What is remembered of the polls keeps its types.                        *)
LEMMA MemoryStaysTyped ==
    ASSUME LearnedTypeInv, NEW r \in machine, NEW t, NEW done, Remember(r, t, done)
    PROVE  /\ recent' \in Seq([model : Models \cup {NoModel}, decode : Rates])
           /\ Len(recent') <= SlowRun
           /\ fewest' \in [Serials -> Counts]
           /\ \/ recent' = recent /\ ("slow" \notin done \/ r.decode = None)
              \/ /\ "slow" \in done /\ r.decode # None
                 /\ Pushed(recent, [model |-> r.model, decode |-> r.decode], SlowRun, recent')
<1> DEFINE seen == [model : Models \cup {NoModel}, decode : Rates]
           one == [model |-> r.model, decode |-> r.decode]
           all == Append(recent, one)
<1>1. recent \in Seq(seen) /\ Len(recent) <= SlowRun /\ SlowRun \in Nat
  BY LearnedAssumption DEF LearnedTypeInv
<1>2. fewest' \in [Serials -> Counts]
  <2>1. CASE r.card = None
    BY <2>1 DEF Remember, LearnedTypeInv
  <2>2. CASE r.card # None
    <3> DEFINE s == r.card.serial
               low == IF fewest[s] = None \/ r.card.remaps < fewest[s]
                      THEN r.card.remaps ELSE fewest[s]
    <3>1. s \in Serials /\ r.card.remaps \in Nat
      BY <2>2, ReadingFields
    <3>2. low \in Counts
      BY <3>1 DEF LearnedTypeInv, Counts
    <3>3. fewest' = [fewest EXCEPT ![s] = low]
      BY <2>2, <3>1 DEF Remember, LearnedTypeInv
    <3> HIDE DEF low, s
    <3> QED BY <3>2, <3>3 DEF LearnedTypeInv
  <2> QED BY <2>1, <2>2
<1>3. CASE "slow" \notin done \/ r.decode = None
  BY <1>1, <1>2, <1>3 DEF Remember
<1>4. CASE "slow" \in done /\ r.decode # None
  <2>1. one \in seen
    BY <1>4, ReadingFields
  <2>2. all \in Seq(seen) /\ Len(all) = Len(recent) + 1 /\ all # <<>> /\ Len(recent) \in Nat
    BY <1>1, <2>1
  <2>3. recent' = IF Len(all) > SlowRun THEN Tail(all) ELSE all
    BY <1>4 DEF Remember
  <2> HIDE DEF all, seen
  <2>4. Tail(all) \in Seq(seen) /\ Len(Tail(all)) = Len(all) - 1
    BY <2>2
  <2>5. recent' \in Seq(seen) /\ Len(recent') <= SlowRun
    BY <1>1, <2>2, <2>3, <2>4
  <2>6. Pushed(recent, one, SlowRun, recent')
    <3>1. \/ Len(recent) < SlowRun /\ recent' = all
          \/ Len(recent) = SlowRun /\ recent' = Tail(all)
      BY <1>1, <2>2, <2>3
    <3> QED BY <3>1 DEF Pushed, all
  <2> QED BY <1>2, <1>4, <2>5, <2>6 DEF all, seen
<1> QED BY <1>3, <1>4


-----------------------------------------------------------------------------
(* rules.py: what each alert says of the rows and the poll it is from.     *)
LEMMA AlertsByKey ==
    ASSUME NEW r, NEW t, NEW rows, NEW a \in Alerts(r, t, rows)
    PROVE  \/ /\ a = [key |-> "slow_decode",
                      level |-> IF rows.slow.base # None THEN "critical" ELSE "serious"]
              /\ rows.slow.run >= SlowRun
           \/ a = [key |-> "gpu_count", level |-> "critical"]
           \/ a = [key |-> "sel", level |-> IF rows.sel.serious THEN "serious" ELSE "warning"]
           \/ /\ a = [key |-> "remap", level |-> "serious"]
              /\ r.card # None /\ r.card.remaps > rows.remap[r.card.serial]
           \/ a = [key |-> "ecc", level |-> "serious"]
           \/ a = [key |-> "pwr", level |-> IF rows.power.peak = 2 THEN "serious" ELSE "warning"]
           \/ a = [key |-> "restart", level |-> "warning"]
           \/ a = [key |-> "journal_parse", level |-> "warning"]
<1>1. \A cond, key, level : \A x \in AlertIf(cond, key, level) :
          cond /\ x = [key |-> key, level |-> level]
  BY DEF AlertIf
<1>2. \/ a \in SlowAlert(rows) \/ a \in CardsAlert(r, rows) \/ a \in SelAlert(r, t, rows)
      \/ a \in WearAlerts(r, rows) \/ a \in PowerAlert(r, rows) \/ a \in RestartAlert(rows)
      \/ a \in ParseAlert(r, rows)
  BY DEF Alerts
<1>3. CASE a \in SlowAlert(rows)
  BY <1>1, <1>3, Zenon DEF SlowAlert
<1>4. CASE a \in CardsAlert(r, rows)
  BY <1>1, <1>4, Zenon DEF CardsAlert
<1>5. CASE a \in SelAlert(r, t, rows)
  BY <1>1, <1>5, Zenon DEF SelAlert
<1>6. CASE a \in WearAlerts(r, rows)
  BY <1>1, <1>6, Zenon DEF WearAlerts
<1>7. CASE a \in PowerAlert(r, rows)
  BY <1>1, <1>7, Zenon DEF PowerAlert
<1>8. CASE a \in RestartAlert(rows)
  BY <1>1, <1>8, Zenon DEF RestartAlert
<1>9. CASE a \in ParseAlert(r, rows)
  BY <1>1, <1>9, Zenon DEF ParseAlert
<1> QED
  BY <1>2, <1>3, <1>4, <1>5, <1>6, <1>7, <1>8, <1>9

(* One alert of a key is shown, and at a level that there is.              *)
RaisedInv ==
    /\ \A a, b \in raised : a.key = b.key => a = b
    /\ \A a \in raised : a.level \in Levels

(* The type invariant over every step.                                     *)
LEMMA LearnedTypesHold == LearnedTypeInv /\ [Next]_vars => LearnedTypeInv'
<1> SUFFICES ASSUME LearnedTypeInv, [Next]_vars PROVE LearnedTypeInv'
  OBVIOUS
<1>1. CASE UNCHANGED vars
  BY <1>1 DEF vars, program, history, LearnedTypeInv, RowsTyped
<1>2. CASE Restart
  BY <1>2 DEF Restart, LearnedTypeInv, RowsTyped
<1>3. ASSUME NEW r \in machine, NEW t \in Readings, NEW done \in SUBSET RowNames,
             Judges(r, t, done)
      PROVE  LearnedTypeInv'
  <2>1. t \in Nat
    BY ReadingsAreNat
  <2>2. now' \in Nat /\ machine' \in Machines
    BY <1>3, <2>1 DEF Judges, LearnedTypeInv
  <2>3. obs' \in [Models -> Seq(Rates)] /\ \A m \in Models : Len(obs'[m]) <= BaselineWindow
    BY <1>3, DecodeRecorded DEF Judges
  <2>4. DOMAIN kv' = RowNames /\ RowsTyped(kv')
    BY <1>3, <2>1, RowsStayTyped DEF Judges
  <2>5. /\ recent' \in Seq([model : Models \cup {NoModel}, decode : Rates])
        /\ Len(recent') <= SlowRun /\ fewest' \in [Serials -> Counts]
    BY <1>3, MemoryStaysTyped DEF Judges, Evaluate
  <2>6. faults' \in 0 .. MaxFaults
    <3>1. faults' = faults \/ (faults < MaxFaults /\ faults' = faults + 1)
      BY <1>3 DEF Judges
    <3> QED BY <3>1, LearnedAssumption DEF LearnedTypeInv
  <2> QED BY <2>2, <2>3, <2>4, <2>5, <2>6 DEF LearnedTypeInv, RowsTyped
<1> QED BY <1>1, <1>2, <1>3, LearnedSteps

LEMMA LearnedInitTypes == Init => LearnedTypeInv /\ RaisedInv
<1> SUFFICES ASSUME Init PROVE LearnedTypeInv /\ RaisedInv
  OBVIOUS
<1>1. <<>> \in Seq(Rates) /\ Len(<<>>) = 0
      /\ <<>> \in Seq([model : Models \cup {NoModel}, decode : Rates])
  OBVIOUS
<1>2. DOMAIN kv = RowNames
  BY DEF Init, RowNames
<1>3. RowsTyped(kv)
  BY DEF Init, RowsTyped, SlowRows, SelRows, PowerRows, ParseRows, Counts
<1>4. LearnedTypeInv
  BY <1>1, <1>2, <1>3, LearnedAssumption DEF Init, LearnedTypeInv, Counts
<1>5. RaisedInv
  BY DEF Init, RaisedInv
<1> QED BY <1>4, <1>5

LEMMA RaisedHolds == LearnedTypeInv /\ RaisedInv /\ [Next]_vars => RaisedInv'
<1> SUFFICES ASSUME LearnedTypeInv, RaisedInv, [Next]_vars PROVE RaisedInv'
  OBVIOUS
<1>1. CASE UNCHANGED vars
  BY <1>1 DEF vars, program, RaisedInv
<1>2. CASE Restart
  BY <1>2 DEF Restart, RaisedInv
<1>3. ASSUME NEW r \in machine, NEW t \in Readings, NEW done \in SUBSET RowNames,
             Judges(r, t, done)
      PROVE  RaisedInv'
  <2>1. CASE raised' = raised
    BY <2>1 DEF RaisedInv
  <2>2. CASE raised' = Alerts(r, t, RowsAfter(r, t))
    <3> DEFINE rows == RowsAfter(r, t)
    <3>1. \A a \in raised' :
             \/ a = [key |-> "slow_decode",
                     level |-> IF rows.slow.base # None THEN "critical" ELSE "serious"]
             \/ a = [key |-> "gpu_count", level |-> "critical"]
             \/ a = [key |-> "sel", level |-> IF rows.sel.serious THEN "serious" ELSE "warning"]
             \/ a = [key |-> "remap", level |-> "serious"]
             \/ a = [key |-> "ecc", level |-> "serious"]
             \/ a = [key |-> "pwr",
                     level |-> IF rows.power.peak = 2 THEN "serious" ELSE "warning"]
             \/ a = [key |-> "restart", level |-> "warning"]
             \/ a = [key |-> "journal_parse", level |-> "warning"]
      <4> HIDE DEF rows
      <4> QED BY <2>2, AlertsByKey DEF rows
    <3> HIDE DEF rows
    <3> QED BY <3>1 DEF RaisedInv, Levels
  <2> QED BY <1>3, <2>1, <2>2 DEF Judges
<1> QED BY <1>1, <1>2, <1>3, LearnedSteps

(* rules.py, store.py: the state of the rules with a memory is of its      *)
(* type: rows, windows, and one alert of a key.                            *)
THEOREM LearnedTypes == Spec => []TypeOK
<1>1. LearnedTypeInv /\ RaisedInv => TypeOK
  BY DEF LearnedTypeInv, RaisedInv, TypeOK, RowsTyped, SlowRows, SelRows, PowerRows,
         ParseRows, Rates
<1> QED BY <1>1, LearnedInitTypes, LearnedTypesHold, RaisedHolds, PTL DEF Spec

-----------------------------------------------------------------------------
(* A card's row was read of the card: it was never seen with more.         *)
WearInv ==
    \A s \in Serials : kv.remap[s] # None =>
        fewest[s] # None /\ fewest[s] <= kv.remap[s]

LEMMA WearJudged ==
    ASSUME LearnedTypeInv, WearInv, NEW r \in machine, NEW t \in Nat,
           NEW done \in SUBSET RowNames, Evaluate(r, t, done)
    PROVE  /\ WearInv'
           /\ r.card # None =>
                 LET s == r.card.serial
                 IN  /\ RowsAfter(r, t).remap[s] \in Nat /\ fewest'[s] \in Nat
                     /\ fewest'[s] <= RowsAfter(r, t).remap[s]
<1> DEFINE row == RowsAfter(r, t).remap
<1>1. kv.remap \in [Serials -> Counts] /\ fewest \in [Serials -> Counts]
  BY DEF LearnedTypeInv, RowsTyped
<1>2. kv'.remap = row \/ kv'.remap = kv.remap
  BY RowsStored DEF LearnedTypeInv
<1>3. CASE r.card = None
  <2>1. row = kv.remap /\ fewest' = fewest
    BY <1>3 DEF RowsAfter, WearRow, Evaluate, Remember
  <2> QED BY <1>2, <1>3, <2>1 DEF WearInv
<1>4. CASE r.card # None
  <2> DEFINE s == r.card.serial
             low == IF fewest[s] = None \/ r.card.remaps < fewest[s]
                    THEN r.card.remaps ELSE fewest[s]
  <2>1. s \in Serials /\ r.card.remaps \in Nat /\ None \notin Nat
    BY <1>4, ReadingFields, LearnedAssumption
  <2>2. fewest' = [fewest EXCEPT ![s] = low]
    BY <1>1, <1>4, <2>1 DEF Evaluate, Remember
  <2>3. low \in Nat /\ low <= r.card.remaps /\ (fewest[s] # None => low <= fewest[s])
    BY <1>1, <2>1 DEF Counts
  <2>4. row = IF kv.remap[s] # None THEN kv.remap
              ELSE [kv.remap EXCEPT ![s] = r.card.remaps]
    <3>1. r.card.remaps # None
      BY <2>1
    <3> QED BY <1>4, <3>1 DEF RowsAfter, WearRow
  <2> HIDE DEF row, low
  <2>5. fewest'[s] = low /\ \A x \in Serials \ {s} : fewest'[x] = fewest[x]
    BY <1>1, <2>1, <2>2
  <2>6. row[s] \in Nat /\ low <= row[s]
    <3>1. CASE kv.remap[s] # None
      <4>1. kv.remap[s] \in Nat /\ fewest[s] \in Nat /\ fewest[s] <= kv.remap[s]
        BY <1>1, <2>1, <3>1 DEF WearInv, Counts
      <4> QED BY <2>1, <2>3, <2>4, <3>1, <4>1
    <3>2. CASE kv.remap[s] = None
      BY <1>1, <2>1, <2>3, <2>4, <3>2
    <3> QED BY <3>1, <3>2
  <2>7. \A x \in Serials \ {s} : row[x] = kv.remap[x]
    BY <1>1, <2>1, <2>4
  <2>8. WearInv'
    <3> SUFFICES ASSUME NEW x \in Serials, kv'.remap[x] # None
                 PROVE  fewest'[x] # None /\ fewest'[x] <= kv'.remap[x]
      BY DEF WearInv
    <3>1. CASE x # s
      BY <1>2, <2>5, <2>7, <3>1 DEF WearInv
    <3>2. CASE x = s /\ kv'.remap = row
      BY <2>1, <2>3, <2>5, <2>6, <3>2
    <3>3. CASE x = s /\ kv'.remap = kv.remap
      <4>1. fewest[s] \in Nat /\ kv.remap[s] \in Nat /\ fewest[s] <= kv.remap[s]
        BY <1>1, <2>1, <3>3 DEF WearInv, Counts
      <4> QED BY <2>1, <2>3, <2>5, <3>3, <4>1
    <3> QED BY <1>2, <3>1, <3>2, <3>3
  <2> QED BY <1>4, <2>3, <2>5, <2>6, <2>8 DEF row
<1> QED BY <1>3, <1>4

(* _gpu_wear: an alert about remapped rows follows an earlier reading of   *)
(* the same card with fewer, whatever cards take turns in a slot.          *)
THEOREM WearOfTheCard == Spec => []WearIsOfTheCard
<1>1. Init => WearInv /\ WearIsOfTheCard
  BY DEF Init, WearInv, WearIsOfTheCard
<1>2. LearnedTypeInv /\ WearInv /\ WearIsOfTheCard /\ [Next]_vars
      => WearInv' /\ WearIsOfTheCard'
  <2> SUFFICES ASSUME LearnedTypeInv, WearInv, WearIsOfTheCard, [Next]_vars
               PROVE  WearInv' /\ WearIsOfTheCard'
    OBVIOUS
  <2>1. CASE UNCHANGED vars
    BY <2>1 DEF vars, program, history, WearInv, WearIsOfTheCard, Shows
  <2>2. CASE Restart
    BY <2>2 DEF Restart, WearInv, WearIsOfTheCard
  <2>3. ASSUME NEW r \in machine, NEW t \in Readings, NEW done \in SUBSET RowNames,
               Judges(r, t, done)
        PROVE  WearInv' /\ WearIsOfTheCard'
    <3>1. t \in Nat
      BY ReadingsAreNat
    <3>2. WearInv'
      BY <2>3, <3>1, WearJudged DEF Judges
    <3>3. CASE latest' = None
      BY <3>2, <3>3 DEF WearIsOfTheCard
    <3>4. CASE raised' = Alerts(r, t, RowsAfter(r, t)) /\ latest' = r
      <4> SUFFICES ASSUME NEW a \in raised', a.key = "remap"
                   PROVE  r.card.remaps > fewest'[r.card.serial]
        BY <3>2, <3>4 DEF WearIsOfTheCard, Shows
      <4>1. r.card # None /\ r.card.remaps > RowsAfter(r, t).remap[r.card.serial]
        <5> DEFINE rows == RowsAfter(r, t)
        <5> HIDE DEF rows
        <5> QED BY <3>4, AlertsByKey DEF rows
      <4>2. /\ RowsAfter(r, t).remap[r.card.serial] \in Nat
            /\ fewest'[r.card.serial] \in Nat
            /\ fewest'[r.card.serial] <= RowsAfter(r, t).remap[r.card.serial]
        BY <2>3, <3>1, <4>1, WearJudged DEF Judges
      <4>3. r.card.remaps \in Nat
        BY <4>1, ReadingFields
      <4> QED BY <4>1, <4>2, <4>3
    <3> QED BY <2>3, <3>3, <3>4 DEF Judges
  <2> QED BY <2>1, <2>2, <2>3, LearnedSteps
<1> QED BY <1>1, <1>2, LearnedInitTypes, LearnedTypesHold, PTL DEF Spec

-----------------------------------------------------------------------------
(* The log's row is what was read of it, and since when it is news.        *)
SelInv ==
    \/ kv.sel = None /\ news = [rid |-> None, at |-> None]
    \/ kv.sel # None /\ news = [rid |-> kv.sel.rid, at |-> kv.sel.grew]

LEMMA SelJudged ==
    ASSUME LearnedTypeInv, SelInv, NEW r \in machine, NEW t \in Nat,
           NEW done \in SUBSET RowNames, Evaluate(r, t, done)
    PROVE  SelInv'
<1>1. kv'.sel = IF "sel" \in done THEN SelRow(r, t) ELSE kv.sel
  BY RowsStored DEF LearnedTypeInv
<1>2. kv.sel \in SelRows /\ None \notin Nat
      /\ None \notin [rid : Nat, grew : Counts, serious : BOOLEAN]
  BY LearnedAssumption DEF LearnedTypeInv, RowsTyped
<1>3. CASE "sel" \notin done \/ r.sel = None
  BY <1>1, <1>3 DEF Evaluate, Remember, SelInv, SelRow
<1>4. CASE "sel" \in done /\ r.sel # None
  <2> DEFINE at == IF news.rid # None /\ r.sel.rid > news.rid THEN t ELSE news.at
  <2>1. r.sel.rid \in Nat
    BY <1>4, ReadingFields
  <2>2. news' = [rid |-> r.sel.rid, at |-> at]
    BY <1>4 DEF Evaluate, Remember
  <2>3. CASE kv.sel = None
    <3>1. kv'.sel = [rid |-> r.sel.rid, grew |-> None, serious |-> FALSE]
      BY <1>1, <1>4, <2>3 DEF SelRow
    <3>2. kv'.sel # None
      <4>1. [rid |-> r.sel.rid, grew |-> None, serious |-> FALSE]
            \in [rid : Nat, grew : Counts, serious : BOOLEAN]
        BY <2>1 DEF Counts
      <4> QED BY <1>2, <3>1, <4>1
    <3>3. at = None
      BY <2>3 DEF SelInv
    <3> HIDE DEF at
    <3> QED BY <2>2, <3>1, <3>2, <3>3 DEF SelInv
  <2>4. CASE kv.sel # None /\ r.sel.rid > kv.sel.rid
    <3> DEFINE grave == \E e \in r.sel.serious : e > kv.sel.rid
    <3>1. kv'.sel = [rid |-> r.sel.rid, grew |-> t, serious |-> grave]
      BY <1>1, <1>4, <2>4 DEF SelRow
    <3>2. grave \in BOOLEAN
      OBVIOUS
    <3> HIDE DEF grave
    <3>3. kv'.sel # None
      <4>1. [rid |-> r.sel.rid, grew |-> t, serious |-> grave]
            \in [rid : Nat, grew : Counts, serious : BOOLEAN]
        BY <2>1, <3>2 DEF Counts
      <4> QED BY <1>2, <3>1, <4>1
    <3>4. at = t
      BY <1>2, <2>4 DEF SelInv, SelRows
    <3> HIDE DEF at
    <3> QED BY <2>2, <3>1, <3>3, <3>4 DEF SelInv
  <2>5. CASE kv.sel # None /\ ~(r.sel.rid > kv.sel.rid)
    <3>1. kv'.sel = [kv.sel EXCEPT !.rid = r.sel.rid]
      BY <1>1, <1>4, <2>5 DEF SelRow
    <3>2. kv'.sel \in [rid : Nat, grew : Counts, serious : BOOLEAN]
          /\ kv'.sel.rid = r.sel.rid /\ kv'.sel.grew = kv.sel.grew
      BY <1>2, <2>1, <2>5, <3>1 DEF SelRows
    <3>3. at = kv.sel.grew
      BY <2>5 DEF SelInv
    <3> HIDE DEF at
    <3> QED BY <1>2, <2>2, <3>2, <3>3 DEF SelInv
  <2> QED BY <2>3, <2>4, <2>5
<1> QED BY <1>3, <1>4

(* bmc_log: a new record is shown on every poll of the day after it        *)
(* appeared, though the log is cleared or the dashboard restarted.         *)
THEOREM RecordIsNews == Spec => []NewRecordIsNews
<1>1. Init => SelInv /\ NewRecordIsNews
  BY DEF Init, SelInv, NewRecordIsNews
<1>2. LearnedTypeInv /\ SelInv /\ NewRecordIsNews /\ [Next]_vars
      => SelInv' /\ NewRecordIsNews'
  <2> SUFFICES ASSUME LearnedTypeInv, SelInv, NewRecordIsNews, [Next]_vars
               PROVE  SelInv' /\ NewRecordIsNews'
    OBVIOUS
  <2>1. CASE UNCHANGED vars
    BY <2>1 DEF vars, program, history, SelInv, NewRecordIsNews, Shows
  <2>2. CASE Restart
    BY <2>2 DEF Restart, SelInv, NewRecordIsNews
  <2>3. ASSUME NEW r \in machine, NEW t \in Readings, NEW done \in SUBSET RowNames,
               Judges(r, t, done)
        PROVE  SelInv' /\ NewRecordIsNews'
    <3>1. t \in Nat
      BY ReadingsAreNat
    <3>2. SelInv'
      BY <2>3, <3>1, SelJudged DEF Judges
    <3>3. CASE latest' = None
      BY <3>2, <3>3 DEF NewRecordIsNews
    <3>4. CASE done = RowNames /\ raised' = Alerts(r, t, RowsAfter(r, t)) /\ latest' = r
      <4> DEFINE rows == RowsAfter(r, t)
                 one == [key |-> "sel",
                         level |-> IF rows.sel.serious THEN "serious" ELSE "warning"]
      <4> SUFFICES ASSUME r.sel # None, news'.at # None, t - news'.at < SelHold
                   PROVE  \E a \in raised' : a.key = "sel"
        BY <2>3, <3>2, <3>4 DEF NewRecordIsNews, Shows, Judges
      <4>1. kv'.sel = rows.sel
        <5>1. "sel" \in done
          BY <3>4 DEF RowNames
        <5> QED BY <2>3, <5>1, RowsStored DEF LearnedTypeInv, Judges, RowsAfter
      <4>2. news'.at = rows.sel.grew
        <5> HIDE DEF rows
        <5> QED BY <3>2, <4>1 DEF SelInv
      <4>3. one \in SelAlert(r, t, rows)
        <5> HIDE DEF rows
        <5> QED BY <4>2 DEF SelAlert, AlertIf
      <4>4. one \in raised'
        <5> HIDE DEF one, rows
        <5> QED BY <3>4, <4>3 DEF Alerts, rows
      <4> QED BY <4>4
    <3> QED BY <2>3, <3>3, <3>4 DEF Judges
  <2> QED BY <2>1, <2>2, <2>3, LearnedSteps
<1> QED BY <1>1, <1>2, LearnedInitTypes, LearnedTypesHold, PTL DEF Spec


-----------------------------------------------------------------------------
(* What a poll judged to the end shows of the run of slow requests.        *)
RunShownInv ==
    latest # None =>
        /\ Shows("slow_decode") => kv.slow.run >= SlowRun
        /\ kv.slow.run >= SlowRun =>
              [key |-> "slow_decode",
               level |-> IF kv.slow.base # None THEN "critical" ELSE "serious"] \in raised

(* The latest j requests are the latest j of m's window, and each is slow  *)
(* against all before them there, except for the first lo, which may be    *)
(* about to leave it.                                                      *)
FallsBack(m, j, lo) ==
    LET w == obs[m]
        n == Len(w)
    IN  /\ n >= MinSamples + j + lo
        /\ j <= Len(recent)
        /\ \A i \in 0 .. j - 1 :
              recent[Len(recent) - i] = [model |-> m, decode |-> w[n - i]]
        /\ \A a \in lo + 1 .. n - j, b \in n - j + 1 .. n : w[b] * SlowDivisor < w[a]

(* Such requests are all in the run.  FallbackIsFound is the case of       *)
(* j = SlowRun; a fallback is found request by request, while the oldest   *)
(* of the window make room for it.                                         *)
FoundInv ==
    faults = 0 =>
        \A m \in Models, j \in 1 .. SlowRun : \A lo \in 0 .. SlowRun - j :
            FallsBack(m, j, lo) => kv.slow.run >= j /\ kv.slow.base # None

(* A request judged slow, and at most a rates learned since: it is slow    *)
(* outright, or against so many of its model's window that a full one has  *)
(* lost no more than a of them.                                            *)
Held(windows, o, a) ==
    \/ o.decode < ColdSlow
    \/ /\ o.model \in Models
       /\ LET w == windows[o.model]
              faster == Cardinality(Above(w, o.decode * SlowDivisor))
          IN  /\ faster + a + BaselineWindow \div 2 >= Len(w)
              /\ Len(w) < BaselineWindow => faster >= 1

(* So is every request of the run.  A poll whose row could not be written  *)
(* has learned a rate and judged none, so a counts the faults, too.        *)
HeldInv ==
    /\ kv.slow.run <= Len(recent) \/ Len(recent) = SlowRun
    /\ \A p \in DOMAIN recent :
          Len(recent) - p < kv.slow.run => Held(obs, recent[p], Len(recent) - p + faults)

-----------------------------------------------------------------------------
(* A sequence kept to a limit: where its elements are when one is added.   *)
LEMMA PlacesMove ==
    ASSUME NEW S, NEW w \in Seq(S), NEW d \in S, NEW limit \in Nat \ {0}, NEW w2,
           Pushed(w, d, limit, w2)
    PROVE  \E s \in 0 .. 1 :
              /\ w2 \in Seq(S) /\ Len(w2) \in Nat /\ Len(w2) > 0
              /\ Len(w2) = Len(w) + 1 - s
              /\ s = 1 => Len(w) = limit
              /\ w2[Len(w2)] = d
              /\ \A i \in 1 .. Len(w2) - 1 : w2[i] = w[i + s]
<1> DEFINE all == Append(w, d)
<1>1. /\ all \in Seq(S) /\ all # <<>> /\ Len(all) = Len(w) + 1 /\ Len(w) \in Nat
      /\ all[Len(w) + 1] = d
      /\ \A i \in 1 .. Len(w) : all[i] = w[i]
  OBVIOUS
<1> HIDE DEF all
<1>2. CASE w2 = all
  BY <1>1, <1>2
<1>3. CASE Len(w) = limit /\ w2 = Tail(all)
  <2>1. /\ w2 \in Seq(S) /\ Len(w2) = Len(w)
        /\ \A i \in 1 .. Len(w) : w2[i] = all[i + 1]
    BY <1>1, <1>3
  <2>2. w2[Len(w2)] = d /\ \A i \in 1 .. Len(w2) - 1 : w2[i] = w[i + 1]
    BY <1>1, <2>1, <1>3
  <2> QED BY <1>1, <1>3, <2>1, <2>2
<1> QED BY <1>2, <1>3 DEF Pushed, all

(* The model's window after a poll that learned a rate of it.              *)
LEMMA WindowMoves ==
    ASSUME LearnedTypeInv, NEW r \in machine, r.model \in Models, r.decode # None
    PROVE  \E s \in 0 .. 1 :
              /\ Window(r) \in Seq(Rates) /\ Len(Window(r)) \in Nat /\ Len(Window(r)) > 0
              /\ Len(Window(r)) <= BaselineWindow
              /\ obs[r.model] \in Seq(Rates) /\ Len(obs[r.model]) \in Nat
              /\ Len(Window(r)) = Len(obs[r.model]) + 1 - s
              /\ s = 1 => Len(obs[r.model]) = BaselineWindow
              /\ Window(r)[Len(Window(r))] = r.decode
              /\ \A i \in 1 .. Len(Window(r)) - 1 : Window(r)[i] = obs[r.model][i + s]
<1>1. BaselineWindow \in Nat \ {0}
  BY LearnedAssumption
<1>2. Pushed(obs[r.model], r.decode, BaselineWindow, Window(r)) /\ r.decode \in Rates
      /\ Len(Window(r)) <= BaselineWindow
  BY DecodeRecorded, ReadingFields DEF Window
<1>3. obs[r.model] \in Seq(Rates)
  BY DEF LearnedTypeInv
<1>4. Len(obs[r.model]) \in Nat
  BY <1>3
<1> QED BY <1>1, <1>2, <1>3, <1>4, PlacesMove

(* How many rates of a window are above d, when one is added at its end.   *)
LEMMA AboveMoves ==
    ASSUME NEW w \in Seq(Nat), NEW w2 \in Seq(Nat), NEW d \in Nat, NEW s \in 0 .. 1,
           Len(w2) = Len(w) + 1 - s, \A i \in 1 .. Len(w2) - 1 : w2[i] = w[i + s]
    PROVE  Cardinality(Above(w2, d)) + s >= Cardinality(Above(w, d))
<1> DEFINE stay == Above(w, d) \ (IF s = 1 THEN {1} ELSE {})
           move == [i \in stay |-> i - s]
<1>1. DOMAIN w = 1 .. Len(w) /\ DOMAIN w2 = 1 .. Len(w2) /\ Len(w) \in Nat /\ Len(w2) \in Nat
  OBVIOUS
<1>2. /\ Above(w, d) \subseteq DOMAIN w /\ Above(w2, d) \subseteq DOMAIN w2
      /\ IsFiniteSet(Above(w, d)) /\ IsFiniteSet(Above(w2, d))
      /\ Cardinality(Above(w, d)) \in Nat /\ Cardinality(Above(w2, d)) \in Nat
  BY PlacesAreFinite DEF Above
<1>3. ASSUME NEW i \in stay PROVE i \in Nat /\ i - s \in Above(w2, d)
  <2>1. i \in 1 .. Len(w) /\ w[i] > d /\ (s = 1 => i # 1)
    BY <1>1, <1>3 DEF Above
  <2>2. i - s \in 1 .. Len(w2) - 1
    BY <1>1, <2>1
  <2>3. w2[i - s] = w[i - s + s] /\ i - s + s = i
    BY <2>1, <2>2
  <2> QED BY <1>1, <2>1, <2>2, <2>3 DEF Above
<1>4. move \in Injection(stay, Above(w2, d))
  <2>1. move \in [stay -> Above(w2, d)]
    BY <1>3
  <2>2. \A a, b \in stay : move[a] = move[b] => a = b
    BY <1>3
  <2> QED BY <2>1, <2>2 DEF Injection, IsInjective
<1>5. Cardinality(stay) <= Cardinality(Above(w2, d))
  BY <1>2, <1>4, FS_Injection
<1>6. Cardinality(stay) + s >= Cardinality(Above(w, d)) /\ Cardinality(stay) \in Nat
  <2>1. CASE s = 1
    <3>1. stay = Above(w, d) \ {1}
      BY <2>1
    <3> HIDE DEF stay
    <3>2. Cardinality(stay) = IF 1 \in Above(w, d) THEN Cardinality(Above(w, d)) - 1
                              ELSE Cardinality(Above(w, d))
      BY <1>2, <3>1, FS_RemoveElement
    <3>3. Cardinality(stay) \in Nat
      BY <1>2, <3>1, FS_Subset, FS_CardinalityType
    <3> QED BY <1>2, <2>1, <3>2, <3>3
  <2>2. CASE s = 0
    <3>1. stay = Above(w, d)
      BY <2>2
    <3> HIDE DEF stay
    <3> QED BY <1>2, <2>2, <3>1
  <2> QED BY <2>1, <2>2
<1> HIDE DEF stay
<1> QED BY <1>2, <1>5, <1>6

(* A rate that more places are up to than lo at the start and j at the end *)
(* is no lower than one of those between.                                  *)
LEMMA BetweenIsLower ==
    ASSUME NEW w \in Seq(Nat), NEW lo \in Nat, NEW j \in Nat, NEW k \in 1 .. Len(w),
           lo + j < k
    PROVE  \E i \in lo + 1 .. Len(w) - j : w[i] <= Kth(w, k)
<1> DEFINE K == Kth(w, k)
           n == Len(w)
           ends == 1 .. lo \cup n - j + 1 .. n
<1>1. K \in Nat /\ Cardinality(UpTo(w, K)) >= k
  BY KthExists
<1>2. n \in Nat /\ DOMAIN w = 1 .. n /\ k \in Nat /\ lo + j < n
  OBVIOUS
<1>3. IsFiniteSet(ends) /\ Cardinality(ends) \in Nat /\ Cardinality(ends) <= lo + j
  <2>1. IsFiniteSet(1 .. lo) /\ Cardinality(1 .. lo) = lo
    <3>1. 1 \in Int /\ lo \in Int
      OBVIOUS
    <3>2. IsFiniteSet(1 .. lo) /\ Cardinality(1 .. lo) = IF 1 > lo THEN 0 ELSE lo - 1 + 1
      BY <3>1, FS_Interval
    <3> QED BY <3>2
  <2>2. IsFiniteSet(n - j + 1 .. n) /\ Cardinality(n - j + 1 .. n) = j
    <3>1. n - j + 1 \in Int /\ n \in Int
      BY <1>2
    <3>2. /\ IsFiniteSet(n - j + 1 .. n)
          /\ Cardinality(n - j + 1 .. n) = IF n - j + 1 > n THEN 0 ELSE n - (n - j + 1) + 1
      <4> HIDE DEF n
      <4> QED BY <3>1, FS_Interval
    <3>3. (IF n - j + 1 > n THEN 0 ELSE n - (n - j + 1) + 1) = j
      <4> HIDE DEF n
      <4> QED BY <1>2
    <3> QED BY <3>2, <3>3
  <2>3. /\ IsFiniteSet(ends)
        /\ Cardinality(ends) = lo + j - Cardinality(1 .. lo \cap n - j + 1 .. n)
    <3> HIDE DEF n
    <3> QED BY <2>1, <2>2, FS_Union
  <2>4. Cardinality(1 .. lo \cap n - j + 1 .. n) \in Nat
    <3> HIDE DEF n
    <3> QED BY <2>1, FS_Intersection, FS_CardinalityType
  <2> HIDE DEF ends
  <2>5. Cardinality(ends) \in Nat
    BY <2>3, FS_CardinalityType
  <2>6. \A c, e \in Nat : e = lo + j - c => e <= lo + j
    OBVIOUS
  <2> QED BY <2>3, <2>4, <2>5, <2>6
<1>4. ASSUME UpTo(w, K) \subseteq ends PROVE FALSE
  <2>1. Cardinality(UpTo(w, K)) \in Nat /\ Cardinality(UpTo(w, K)) <= Cardinality(ends)
    <3> HIDE DEF ends, K
    <3> QED BY <1>3, <1>4, FS_Subset, FS_CardinalityType
  <2> HIDE DEF ends, K
  <2> QED BY <1>1, <1>2, <1>3, <2>1
<1>5. PICK i \in UpTo(w, K) : i \notin ends
  BY <1>4
<1>6. i \in 1 .. n /\ w[i] <= K
  BY <1>2, <1>5 DEF UpTo
<1>7. i \in lo + 1 .. n - j
  <2> HIDE DEF n
  <2> QED BY <1>2, <1>5, <1>6
<1> QED BY <1>6, <1>7

(* Twice a request's rate, in the units of the divisor.                    *)
LEMMA TwiceTheRate == \A d, div \in Nat : d * div \in Nat /\ 2 * div * d = d * div + d * div
OBVIOUS


-----------------------------------------------------------------------------
(* slow_decode: a fallback is found.  The requests of a poll that was      *)
(* judged to the end are one more than those before it.                    *)
Grown(m, j, lo, s) ==
    LET w == obs[m]
        w2 == obs'[m]
        n == Len(w)
        n2 == Len(w2)
    IN  /\ n2 = n + 1 - s
        /\ \A i \in 1 .. n2 - 1 : w2[i] = w[i + s]
        /\ FallsBack(m, j, lo)'

LEMMA FellBackBefore ==
    ASSUME LearnedTypeInv, LearnedTypeInv',
           NEW m \in Models, NEW j \in 2 .. SlowRun, NEW lo \in 0 .. SlowRun - j,
           NEW s \in 0 .. 1, NEW u \in 0 .. 1, Grown(m, j, lo, s),
           Len(recent') = Len(recent) + 1 - u,
           \A i \in 1 .. Len(recent') - 1 : recent'[i] = recent[i + u]
    PROVE  FallsBack(m, j - 1, lo + s)
<1> DEFINE w == obs[m]
           w2 == obs'[m]
           n == Len(w)
           n2 == Len(w2)
           l == Len(recent)
           l2 == Len(recent')
<1>1. /\ n \in Nat /\ n2 \in Nat /\ l \in Nat /\ l2 \in Nat
      /\ SlowRun \in Nat /\ MinSamples \in Nat /\ MinSamples > 0
      /\ j \in Nat /\ j >= 2 /\ lo \in Nat
  <2>1. w \in Seq(Rates) /\ w2 \in Seq(Rates)
    BY DEF LearnedTypeInv
  <2>2. n \in Nat /\ n2 \in Nat
    BY <2>1
  <2>3. l \in Nat /\ l2 \in Nat
    BY DEF LearnedTypeInv
  <2> QED BY <2>2, <2>3, LearnedAssumption
<1>2. /\ n2 = n + 1 - s
      /\ \A i \in 1 .. n2 - 1 : w2[i] = w[i + s]
      /\ n2 >= MinSamples + j + lo
      /\ j <= l2
      /\ \A i \in 0 .. j - 1 : recent'[l2 - i] = [model |-> m, decode |-> w2[n2 - i]]
      /\ \A a \in lo + 1 .. n2 - j, b \in n2 - j + 1 .. n2 : w2[b] * SlowDivisor < w2[a]
  BY DEF Grown, FallsBack
<1>3. l2 = l + 1 - u /\ \A i \in 1 .. l2 - 1 : recent'[i] = recent[i + u]
  OBVIOUS
<1> HIDE DEF w, w2, n, n2, l, l2
<1>4. n >= MinSamples + (j - 1) + (lo + s) /\ j - 1 <= l
  BY <1>1, <1>2, <1>3
<1>5. ASSUME NEW i \in 0 .. j - 2
      PROVE  recent[l - i] = [model |-> m, decode |-> w[n - i]]
  <2>1. i + 1 \in 0 .. j - 1
    BY <1>1
  <2>2. recent'[l2 - (i + 1)] = [model |-> m, decode |-> w2[n2 - (i + 1)]]
    BY <1>2, <2>1
  <2>3. l2 - (i + 1) \in 1 .. l2 - 1 /\ n2 - (i + 1) \in 1 .. n2 - 1
    BY <1>1, <1>2
  <2>4. l2 - (i + 1) + u = l - i /\ n2 - (i + 1) + s = n - i
    BY <1>1, <1>2, <1>3
  <2>5. recent'[l2 - (i + 1)] = recent[l2 - (i + 1) + u]
    BY <1>3, <2>3
  <2>6. w2[n2 - (i + 1)] = w[n2 - (i + 1) + s]
    BY <1>2, <2>3
  <2> QED BY <2>2, <2>4, <2>5, <2>6
<1>6. ASSUME NEW a \in lo + s + 1 .. n - (j - 1), NEW b \in n - (j - 1) + 1 .. n
      PROVE  w[b] * SlowDivisor < w[a]
  <2>1. /\ a - s \in lo + 1 .. n2 - j /\ b - s \in n2 - j + 1 .. n2
        /\ a - s \in 1 .. n2 - 1 /\ b - s \in 1 .. n2 - 1
        /\ a - s + s = a /\ b - s + s = b
    BY <1>1, <1>2
  <2>2. w2[b - s] * SlowDivisor < w2[a - s]
    BY <1>2, <2>1
  <2>3. w2[a - s] = w[a - s + s] /\ w2[b - s] = w[b - s + s]
    BY <1>2, <2>1
  <2> QED BY <2>1, <2>2, <2>3
<1>7. j - 1 - 1 = j - 2
  BY <1>1
<1> QED BY <1>4, <1>5, <1>6, <1>7 DEF FallsBack, w, n, l

(* The latest of them is too slow: the median is of those before it.       *)
LEMMA FallbackIsTooSlow ==
    ASSUME LearnedTypeInv, SlowRun < MinSamples, NEW r \in machine, r.decode # None,
           r.model \in Models, obs' = RecordDecode(r),
           NEW j \in 1 .. SlowRun, NEW lo \in 0 .. SlowRun - j, FallsBack(r.model, j, lo)'
    PROVE  TooSlow(r) /\ Baseline(r) # None
<1> DEFINE w2 == Window(r)
           n2 == Len(w2)
           k1 == (n2 + 1) \div 2
           k2 == n2 \div 2 + 1
           x == r.decode * SlowDivisor
<1>1. /\ w2 \in Seq(Rates) /\ n2 \in Nat /\ n2 > 0 /\ w2[n2] = r.decode
      /\ r.decode \in Rates /\ w2 = obs'[r.model]
  BY WindowMoves, ReadingFields DEF Window
<1>2. /\ SlowRun \in Nat /\ MinSamples \in Nat /\ SlowDivisor \in Nat /\ None \notin Nat
      /\ j \in Nat /\ lo \in Nat /\ j + lo <= SlowRun /\ j >= 1 /\ NoModel \notin Models
  BY LearnedAssumption
<1>3. /\ n2 >= MinSamples + j + lo
      /\ \A a \in lo + 1 .. n2 - j, b \in n2 - j + 1 .. n2 : w2[b] * SlowDivisor < w2[a]
  BY <1>1 DEF FallsBack
<1>4. w2 \in Seq(Nat)
  BY <1>1 DEF Rates
<1>5. /\ r.model # NoModel /\ n2 >= MinSamples
      /\ k1 \in 1 .. n2 /\ k2 \in 1 .. n2 /\ lo + j < k1 /\ lo + j < k2
      /\ n2 \in n2 - j + 1 .. n2
  <2>1. r.model # NoModel
    BY <1>2
  <2> HIDE DEF n2
  <2>2. n2 >= MinSamples /\ n2 \in n2 - j + 1 .. n2
    BY <1>1, <1>2, <1>3
  <2>3. n2 >= 2 * (lo + j) + 1
    BY <1>1, <1>2, <1>3
  <2>4. k1 \in 1 .. n2 /\ k2 \in 1 .. n2 /\ lo + j < k1 /\ lo + j < k2
    BY <1>1, <1>2, <2>3
  <2> QED BY <2>1, <2>2, <2>4
<1>6. \A k \in 1 .. n2 : lo + j < k => Kth(w2, k) \in Nat /\ x < Kth(w2, k)
  <2> SUFFICES ASSUME NEW k \in 1 .. n2, lo + j < k
               PROVE  Kth(w2, k) \in Nat /\ x < Kth(w2, k)
    OBVIOUS
  <2> HIDE DEF w2, x
  <2>1. Kth(w2, k) \in Nat
    BY <1>4, KthExists
  <2>2. PICK a \in lo + 1 .. n2 - j : w2[a] <= Kth(w2, k)
    BY <1>2, <1>4, BetweenIsLower
  <2>3. w2[n2] * SlowDivisor < w2[a]
    BY <1>3, <1>5, <2>2
  <2>4. a \in 1 .. n2
    BY <1>1, <1>2, <2>2
  <2>5. w2[a] \in Nat
    BY <1>4, <2>4
  <2>6. x \in Nat
    BY <1>1, <1>2, TwiceTheRate DEF x, Rates
  <2> QED BY <1>1, <2>1, <2>2, <2>3, <2>5, <2>6 DEF x
<1>7. Baseline(r) = Kth(w2, k1) + Kth(w2, k2)
  BY <1>5, BaselineIsMedian
<1>8. 2 * SlowDivisor * r.decode = x + x /\ x \in Nat
  BY <1>1, <1>2, TwiceTheRate DEF Rates
<1> HIDE DEF w2, x, k1, k2
<1>9. Baseline(r) \in Nat /\ 2 * SlowDivisor * r.decode < Baseline(r)
  BY <1>5, <1>6, <1>7, <1>8
<1> QED BY <1>2, <1>9 DEF TooSlow

LEMMA FoundHolds ==
    SlowRun < MinSamples /\ LearnedTypeInv /\ FoundInv /\ [Next]_vars => FoundInv'
<1> SUFFICES ASSUME SlowRun < MinSamples, LearnedTypeInv, FoundInv, [Next]_vars
             PROVE  FoundInv'
  OBVIOUS
<1>0. LearnedTypeInv'
  BY LearnedTypesHold
<1>1. CASE UNCHANGED <<obs, recent, kv, faults>>
  BY <1>1 DEF FoundInv, FallsBack
<1>2. ASSUME NEW r \in machine, NEW t \in Readings, NEW done \in SUBSET RowNames,
             Judges(r, t, done)
      PROVE  FoundInv'
  <2> SUFFICES ASSUME faults' = 0, NEW m \in Models, NEW j \in 1 .. SlowRun,
                      NEW lo \in 0 .. SlowRun - j, FallsBack(m, j, lo)'
               PROVE  kv'.slow.run >= j /\ kv'.slow.base # None
    BY DEF FoundInv
  <2>1. faults = 0 /\ done = RowNames
    <3>1. faults \in Nat
      BY LearnedAssumption DEF LearnedTypeInv
    <3> QED BY <1>2, <3>1 DEF Judges
  <2>2. kv'.slow = SlowRow(r)
    <3>1. "slow" \in done
      BY <2>1 DEF RowNames
    <3> QED BY <1>2, <3>1, RowsStored DEF LearnedTypeInv, Judges
  <2>3. CASE r.decode = None
    <3>1. obs' = obs /\ recent' = recent /\ kv'.slow = kv.slow
      BY <1>2, <2>2, <2>3 DEF Judges, RecordDecode, Evaluate, Remember, SlowRow
    <3> QED BY <2>1, <3>1 DEF FoundInv, FallsBack
  <2>4. CASE r.decode # None
    <3> DEFINE one == [model |-> r.model, decode |-> r.decode]
               seen == [model : Models \cup {NoModel}, decode : Rates]
    <3>1. Pushed(recent, one, SlowRun, recent') /\ one \in seen /\ recent \in Seq(seen)
      <4>1. "slow" \in done
        BY <2>1 DEF RowNames
      <4> QED BY <1>2, <2>4, <4>1, MemoryStaysTyped, ReadingFields
              DEF Judges, Evaluate, LearnedTypeInv
    <3>2. PICK u \in 0 .. 1 :
             /\ Len(recent') = Len(recent) + 1 - u /\ recent'[Len(recent')] = one
             /\ \A i \in 1 .. Len(recent') - 1 : recent'[i] = recent[i + u]
      <4>1. SlowRun \in Nat \ {0}
        BY LearnedAssumption
      <4> HIDE DEF one, seen
      <4> QED BY <3>1, <4>1, PlacesMove
    <3>3. m = r.model
      <4>1. 0 \in 0 .. j - 1 /\ Len(recent') - 0 = Len(recent')
        <5>1. Len(recent') \in Nat
          BY <1>0 DEF LearnedTypeInv
        <5> QED BY <5>1, LearnedAssumption
      <4>2. recent'[Len(recent') - 0] = [model |-> m, decode |-> obs'[m][Len(obs'[m]) - 0]]
        BY <4>1 DEF FallsBack
      <4> QED BY <3>2, <4>1, <4>2
    <3>4. obs' = RecordDecode(r)
      BY <1>2 DEF Judges
    <3>5. TooSlow(r) /\ Baseline(r) # None
      BY <2>4, <3>3, <3>4, FallbackIsTooSlow
    <3>6. kv'.slow = [run |-> kv.slow.run + 1, last |-> r.decode, base |-> Baseline(r)]
      BY <2>2, <2>4, <3>5 DEF SlowRow
    <3>7. kv.slow.run \in Nat
      BY DEF LearnedTypeInv, RowsTyped, SlowRows
    <3>8. CASE j = 1
      BY <3>5, <3>6, <3>7, <3>8
    <3>9. CASE j # 1
      <4>1. PICK s \in 0 .. 1 :
               /\ Len(obs'[m]) = Len(obs[m]) + 1 - s
               /\ \A i \in 1 .. Len(obs'[m]) - 1 : obs'[m][i] = obs[m][i + s]
        BY <2>4, <3>3, <3>4, WindowMoves DEF Window
      <4>2. Grown(m, j, lo, s)
        BY <4>1 DEF Grown
      <4>3. j \in 2 .. SlowRun
        BY <3>9, LearnedAssumption
      <4>4. FallsBack(m, j - 1, lo + s)
        BY <1>0, <3>2, <4>2, <4>3, FellBackBefore
      <4>5. j - 1 \in 1 .. SlowRun /\ lo + s \in 0 .. SlowRun - (j - 1)
        BY <4>3, LearnedAssumption
      <4>6. kv.slow.run >= j - 1
        BY <2>1, <4>4, <4>5 DEF FoundInv
      <4> QED BY <3>5, <3>6, <3>7, <4>3, <4>6
    <3> QED BY <3>8, <3>9
  <2> QED BY <2>3, <2>4
<1>3. CASE Restart
  BY <1>1, <1>3 DEF Restart
<1>4. CASE UNCHANGED vars
  BY <1>1, <1>4 DEF vars, program, history
<1> QED BY <1>2, <1>3, <1>4, LearnedSteps

LEMMA RunShownHolds == LearnedTypeInv /\ RunShownInv /\ [Next]_vars => RunShownInv'
<1> SUFFICES ASSUME LearnedTypeInv, RunShownInv, [Next]_vars PROVE RunShownInv'
  OBVIOUS
<1>1. CASE UNCHANGED vars
  BY <1>1 DEF vars, program, history, RunShownInv, Shows
<1>2. CASE latest' = None
  BY <1>2 DEF RunShownInv
<1>3. ASSUME NEW r \in machine, NEW t \in Readings, NEW done \in SUBSET RowNames,
             Judges(r, t, done)
      PROVE  RunShownInv'
  <2>1. CASE done = RowNames /\ raised' = Alerts(r, t, RowsAfter(r, t))
    <3> DEFINE rows == RowsAfter(r, t)
               one == [key |-> "slow_decode",
                       level |-> IF rows.slow.base # None THEN "critical" ELSE "serious"]
    <3>1. kv'.slow = rows.slow
      <4>1. "slow" \in done
        BY <2>1 DEF RowNames
      <4> QED BY <1>3, <4>1, RowsStored DEF LearnedTypeInv, Judges, RowsAfter
    <3>2. ASSUME NEW a \in raised', a.key = "slow_decode" PROVE rows.slow.run >= SlowRun
      <4> HIDE DEF rows
      <4> QED BY <2>1, <3>2, AlertsByKey DEF rows
    <3>3. rows.slow.run >= SlowRun => one \in raised'
      <4>1. rows.slow.run >= SlowRun => one \in SlowAlert(rows)
        <5> HIDE DEF rows
        <5> QED BY DEF SlowAlert, AlertIf
      <4>2. SlowAlert(rows) \subseteq raised'
        <5> HIDE DEF one, rows
        <5> QED BY <2>1 DEF Alerts, rows
      <4> QED BY <4>1, <4>2
    <3> HIDE DEF rows
    <3> QED BY <3>1, <3>2, <3>3 DEF RunShownInv, Shows
  <2> QED BY <1>2, <1>3, <2>1 DEF Judges
<1>4. CASE Restart
  BY <1>2, <1>4 DEF Restart
<1> QED BY <1>1, <1>3, <1>4, LearnedSteps

(* docs/alerts.md: the SlowRun-th request at a fallback's rate raises the  *)
(* critical alert, and polls without a request keep it, for any models and *)
(* rates, as long as a run is shorter than the samples it takes to learn.  *)
THEOREM FallbackFound == SlowRun < MinSamples => (Spec => []FallbackIsFound)
<1> SUFFICES ASSUME SlowRun < MinSamples PROVE Spec => []FallbackIsFound
  OBVIOUS
<1>1. Init => FoundInv /\ RunShownInv
  <2> SUFFICES ASSUME Init PROVE FoundInv /\ RunShownInv
    OBVIOUS
  <2>1. RunShownInv
    BY DEF Init, RunShownInv
  <2>2. \A m \in Models, j \in 1 .. SlowRun : ~(j <= Len(recent))
    BY LearnedAssumption DEF Init
  <2> QED BY <2>1, <2>2 DEF FoundInv, FallsBack
<1>2. LearnedTypeInv /\ FoundInv /\ RunShownInv => FallbackIsFound
  <2> SUFFICES ASSUME LearnedTypeInv, FoundInv, RunShownInv, latest # None, faults = 0,
                      NEW m \in Models, FellBack(m)
               PROVE  [key |-> "slow_decode", level |-> "critical"] \in raised
    BY DEF FallbackIsFound
  <2> DEFINE w == obs[m]
  <2>1. /\ Len(w) \in Nat /\ SlowRun \in Nat /\ SlowRun > 0 /\ MinSamples \in Nat
    <3>1. w \in Seq(Rates)
      BY DEF LearnedTypeInv
    <3>2. Len(w) \in Nat
      BY <3>1
    <3> QED BY <3>2, LearnedAssumption
  <2>2. /\ Len(w) - SlowRun >= MinSamples
        /\ recent = [i \in 1 .. SlowRun |->
                        [model |-> m, decode |-> w[Len(w) - SlowRun + i]]]
        /\ \A a \in 1 .. Len(w) - SlowRun, b \in Len(w) - SlowRun + 1 .. Len(w) :
              w[b] * SlowDivisor < w[a]
    BY DEF FellBack
  <2> HIDE DEF w
  <2>3. Len(recent) = SlowRun
    BY <2>1, <2>2
  <2>4. ASSUME NEW i \in 0 .. SlowRun - 1
        PROVE  recent[Len(recent) - i] = [model |-> m, decode |-> w[Len(w) - i]]
    <3>1. SlowRun - i \in 1 .. SlowRun /\ Len(w) - SlowRun + (SlowRun - i) = Len(w) - i
      BY <2>1
    <3> QED BY <2>2, <2>3, <3>1
  <2>5. FallsBack(m, SlowRun, 0)
    <3>1. Len(w) >= MinSamples + SlowRun + 0 /\ SlowRun <= Len(recent) /\ 0 + 1 = 1
      BY <2>1, <2>2, <2>3
    <3> QED BY <2>2, <2>4, <3>1 DEF FallsBack, w
  <2>6. SlowRun \in 1 .. SlowRun /\ 0 \in 0 .. SlowRun - SlowRun
    BY <2>1
  <2>7. kv.slow.run >= SlowRun /\ kv.slow.base # None
    BY <2>5, <2>6 DEF FoundInv
  <2> QED BY <2>7 DEF RunShownInv
<1> QED
  BY <1>1, <1>2, LearnedInitTypes, LearnedTypesHold, FoundHolds, RunShownHolds, PTL DEF Spec


-----------------------------------------------------------------------------
(* slow_decode: how long a fallback that was found goes on being shown.    *)
Critical == [key |-> "slow_decode", level |-> "critical"]

(* While no write has failed, the row agrees with what is shown. *)
CriticalInv ==
    faults = 0 /\ Critical \in raised => kv.slow.run >= SlowRun /\ kv.slow.base # None

(* A window large enough to learn from, most of it more than SlowDivisor   *)
(* times as fast as d.                                                     *)
MostAreFaster(w, d) ==
    Len(w) >= MinSamples /\ 2 * Cardinality(Above(w, d * SlowDivisor)) > Len(w)

LEMMA CriticalHolds ==
    LearnedTypeInv /\ CriticalInv /\ [Next]_vars => CriticalInv'
<1> SUFFICES ASSUME LearnedTypeInv, CriticalInv, [Next]_vars PROVE CriticalInv'
  OBVIOUS
<1>1. CASE UNCHANGED vars
  BY <1>1 DEF vars, program, CriticalInv
<1>2. CASE Restart
  BY <1>2 DEF Restart, CriticalInv
<1>3. ASSUME NEW r \in machine, NEW t \in Readings, NEW done \in SUBSET RowNames,
             Judges(r, t, done)
      PROVE  CriticalInv'
  <2>1. CASE faults' = faults + 1
    <3>1. faults' # 0
      BY <2>1, LearnedAssumption DEF LearnedTypeInv
    <3> QED BY <3>1 DEF CriticalInv
  <2>2. CASE done = RowNames /\ raised' = Alerts(r, t, RowsAfter(r, t))
    <3> DEFINE rows == RowsAfter(r, t)
    <3>1. kv'.slow = rows.slow
      <4>1. "slow" \in done
        BY <2>2 DEF RowNames
      <4> QED BY <1>3, <4>1, RowsStored DEF LearnedTypeInv, Judges, RowsAfter
    <3>2. ASSUME Critical \in raised' PROVE rows.slow.run >= SlowRun /\ rows.slow.base # None
      <4> HIDE DEF rows
      <4> QED BY <2>2, <3>2, AlertsByKey DEF rows, Critical
    <3> HIDE DEF rows
    <3> QED BY <3>1, <3>2 DEF CriticalInv
  <2> QED BY <1>3, <2>1, <2>2 DEF Judges
<1> QED BY <1>1, <1>2, <1>3, LearnedSteps

(* Up to a rate that most of a window is above there is less than half of  *)
(* it, so both middle rates are above it.                                  *)
LEMMA MiddleIsAbove ==
    ASSUME NEW w \in Seq(Nat), NEW x \in Nat, NEW k \in 1 .. Len(w),
           2 * Cardinality(Above(w, x)) > Len(w), (Len(w) + 1) \div 2 <= k
    PROVE  x < Kth(w, k)
<1> DEFINE K == Kth(w, k)
           n == Len(w)
<1>1. K \in Nat /\ Cardinality(UpTo(w, K)) >= k
  BY KthExists
<1>2. /\ IsFiniteSet(DOMAIN w) /\ Cardinality(DOMAIN w) = n /\ n \in Nat
      /\ Above(w, x) \subseteq DOMAIN w /\ UpTo(w, K) \subseteq DOMAIN w
      /\ IsFiniteSet(Above(w, x)) /\ Cardinality(Above(w, x)) \in Nat
      /\ IsFiniteSet(UpTo(w, K)) /\ Cardinality(UpTo(w, K)) \in Nat
  BY PlacesAreFinite DEF UpTo, Above
<1> HIDE DEF K, n
<1>3. ASSUME K <= x PROVE FALSE
  <2>1. \A i \in DOMAIN w : w[i] \in Nat
    OBVIOUS
  <2>2. UpTo(w, K) \subseteq DOMAIN w \ Above(w, x)
    BY <1>1, <1>3, <2>1 DEF UpTo, Above
  <2>3. /\ Cardinality(DOMAIN w \ Above(w, x)) = n - Cardinality(Above(w, x))
        /\ IsFiniteSet(DOMAIN w \ Above(w, x))
    <3>1. DOMAIN w \cap Above(w, x) = Above(w, x)
      BY <1>2
    <3> QED BY <1>2, <3>1, FS_Difference
  <2>4. Cardinality(UpTo(w, K)) <= Cardinality(DOMAIN w \ Above(w, x))
    BY <2>2, <2>3, FS_Subset
  <2>5. k <= n - Cardinality(Above(w, x)) /\ k \in Nat
    <3>1. k \in Nat
      OBVIOUS
    <3> HIDE DEF Above, UpTo
    <3> QED BY <1>1, <1>2, <2>3, <2>4, <3>1
  <2>6. 2 * Cardinality(Above(w, x)) > n /\ (n + 1) \div 2 <= k
    BY DEF n
  <2> QED BY <1>2, <2>5, <2>6
<1> QED BY <1>1, <1>3 DEF K

LEMMA SlowerThanMost ==
    ASSUME LearnedTypeInv, NEW r \in machine, r.decode # None, r.model \in Models,
           MostAreFaster(Window(r), r.decode)
    PROVE  TooSlow(r) /\ Baseline(r) # None
<1> DEFINE w == Window(r)
           n == Len(w)
           x == r.decode * SlowDivisor
<1>1. /\ w \in Seq(Rates) /\ n \in Nat /\ n > 0 /\ r.decode \in Rates
  BY WindowMoves, ReadingFields DEF Window
<1>2. SlowDivisor \in Nat /\ None \notin Nat /\ NoModel \notin Models
  BY LearnedAssumption
<1>3. 2 * SlowDivisor * r.decode = x + x /\ x \in Nat
  BY <1>1, <1>2, TwiceTheRate DEF Rates
<1>4. r.model # NoModel /\ n >= MinSamples /\ 2 * Cardinality(Above(w, x)) > n
  BY <1>2 DEF MostAreFaster
<1>5. w \in Seq(Nat)
  BY <1>1 DEF Rates
<1>6. PICK k1, k2 \in 1 .. n :
         /\ k1 = (n + 1) \div 2 /\ k2 = n \div 2 + 1
         /\ Kth(w, k1) \in Nat /\ Kth(w, k2) \in Nat
         /\ Baseline(r) = Kth(w, k1) + Kth(w, k2)
  BY <1>4, BaselineIsMedian
<1>7. (n + 1) \div 2 <= k1 /\ (n + 1) \div 2 <= k2
  <2> HIDE DEF n
  <2> QED BY <1>1, <1>6
<1>8. x < Kth(w, k1) /\ x < Kth(w, k2)
  <2> HIDE DEF w, x
  <2> QED BY <1>3, <1>4, <1>5, <1>6, <1>7, MiddleIsAbove
<1> HIDE DEF w, n, x
<1> QED BY <1>2, <1>3, <1>6, <1>8 DEF TooSlow

(* rules.py: "a real fallback reads as one sustained critical".  Once the  *)
(* critical alert is shown, it stays through polls that saw no request end *)
(* and through each request that most of its model's window is more than   *)
(* SlowDivisor times as fast as, while no write fails: what ends it is a   *)
(* window that the fallback's own rates have come to fill.                 *)
FallbackLasts ==
    [][ /\ Critical \in raised /\ latest' # None /\ faults' = 0
        /\ \/ latest'.decode = None
           \/ /\ latest'.model \in Models
              /\ MostAreFaster(obs'[latest'.model], latest'.decode)
        => Critical \in raised' ]_vars

THEOREM FallbackGoesOn == Spec => FallbackLasts
<1> DEFINE Lasts == /\ Critical \in raised /\ latest' # None /\ faults' = 0
                    /\ \/ latest'.decode = None
                       \/ /\ latest'.model \in Models
                          /\ MostAreFaster(obs'[latest'.model], latest'.decode)
                    => Critical \in raised'
<1>1. Init => CriticalInv /\ RunShownInv
  BY DEF Init, CriticalInv, RunShownInv
<1>2. LearnedTypeInv /\ CriticalInv /\ RunShownInv' /\ [Next]_vars => [Lasts]_vars
  <2> SUFFICES ASSUME LearnedTypeInv, CriticalInv, RunShownInv', Next,
                      Critical \in raised, latest' # None, faults' = 0,
                      \/ latest'.decode = None
                      \/ /\ latest'.model \in Models
                         /\ MostAreFaster(obs'[latest'.model], latest'.decode)
               PROVE  Critical \in raised'
    OBVIOUS
  <2>1. PICK r \in machine, t \in Readings, done \in SUBSET RowNames : Judges(r, t, done)
    BY LearnedSteps DEF Restart
  <2>2. done = RowNames /\ latest' = r /\ faults = 0 /\ obs' = RecordDecode(r)
    BY <2>1 DEF Judges
  <2>3. kv.slow.run >= SlowRun /\ kv.slow.base # None
    BY <2>2 DEF CriticalInv
  <2>4. kv'.slow = SlowRow(r)
    <3>1. "slow" \in done
      BY <2>2 DEF RowNames
    <3> QED BY <2>1, <3>1, RowsStored DEF LearnedTypeInv, Judges
  <2>5. kv.slow.run \in Nat /\ SlowRun \in Nat
    BY LearnedAssumption DEF LearnedTypeInv, RowsTyped, SlowRows
  <2>6. kv'.slow.run >= SlowRun /\ kv'.slow.base # None
    <3>1. CASE r.decode = None
      BY <2>3, <2>4, <3>1 DEF SlowRow
    <3>2. CASE r.decode # None
      <4>1. r.model \in Models /\ MostAreFaster(Window(r), r.decode)
        BY <2>2, <3>2 DEF Window
      <4>2. TooSlow(r) /\ Baseline(r) # None
        BY <3>2, <4>1, SlowerThanMost
      <4>3. kv'.slow.run = kv.slow.run + 1 /\ kv'.slow.base = Baseline(r)
        BY <2>4, <3>2, <4>2 DEF SlowRow
      <4> QED BY <2>3, <2>5, <4>2, <4>3
    <3> QED BY <3>1, <3>2
  <2> QED BY <2>6 DEF RunShownInv, Critical
<1> QED
  BY <1>1, <1>2, LearnedInitTypes, LearnedTypesHold, CriticalHolds, RunShownHolds, PTL
  DEF Spec, FallbackLasts


-----------------------------------------------------------------------------
(* slow_decode: one slow request is no news.  A request judged slow stays  *)
(* slow for as long as its rate could, when rates are learned after it.    *)
Judged == [model : Models \cup {NoModel}, decode : Rates]

LEMMA HeldLasts ==
    ASSUME LearnedTypeInv, LearnedTypeInv', NEW r \in machine, obs' = RecordDecode(r),
           NEW o \in Judged, NEW a \in Nat, NEW a2 \in Nat, a <= a2,
           r.decode # None => a + 1 <= a2, Held(obs, o, a)
    PROVE  Held(obs', o, a2)
<1> DEFINE x == o.decode * SlowDivisor
<1>1. CASE o.decode < ColdSlow
  BY <1>1 DEF Held
<1>2. CASE ~(o.decode < ColdSlow)
  <2> DEFINE w == obs[o.model]
             w2 == obs'[o.model]
             f == Cardinality(Above(w, x))
             f2 == Cardinality(Above(w2, x))
             half == BaselineWindow \div 2
  <2>1. /\ o.model \in Models
        /\ f + a + half >= Len(w) /\ (Len(w) < BaselineWindow => f >= 1)
    BY <1>2 DEF Held
  <2>2. w \in Seq(Nat) /\ w2 \in Seq(Nat) /\ x \in Nat
    <3>1. w \in Seq(Rates) /\ w2 \in Seq(Rates)
      BY <2>1 DEF LearnedTypeInv
    <3>2. o.decode \in Nat /\ SlowDivisor \in Nat
      BY LearnedAssumption DEF Judged, Rates
    <3>3. x \in Nat
      BY <3>2, TwiceTheRate
    <3> QED BY <3>1, <3>3 DEF Rates
  <2>3. Len(w) \in Nat /\ Len(w2) \in Nat /\ f \in Nat /\ f2 \in Nat
    BY <2>2, PlacesAreFinite DEF Above
  <2>4. BaselineWindow \in Nat /\ half \in Nat
    BY LearnedAssumption
  <2>5. f2 + a2 + half >= Len(w2) /\ (Len(w2) < BaselineWindow => f2 >= 1)
    <3>1. CASE w2 = w
      <4>1. f2 = f /\ Len(w2) = Len(w)
        BY <3>1
      <4> HIDE DEF f, f2, half, w, w2
      <4> QED BY <2>1, <2>3, <2>4, <4>1
    <3>2. CASE w2 # w
      <4>1. o.model = r.model /\ r.decode # None /\ r.model \in Models /\ w2 = Window(r)
        <5>1. /\ o.model = r.model /\ r.decode \in Rates
              /\ w2 = RecordDecode(r)[o.model]
          <6> HIDE DEF w, w2, x
          <6>1. w2 = RecordDecode(r)[o.model] /\ w = obs[o.model]
            BY DEF w, w2
          <6> QED BY <2>1, <3>2, <6>1, DecodeRecorded
        <5> QED BY <2>1, <5>1, LearnedAssumption DEF Window, Rates
      <4>2. PICK s \in 0 .. 1 :
               /\ Len(w2) = Len(w) + 1 - s
               /\ s = 1 => Len(w) = BaselineWindow
               /\ \A i \in 1 .. Len(w2) - 1 : w2[i] = w[i + s]
        BY <4>1, WindowMoves
      <4>3. f2 + s >= f
        <5> HIDE DEF w, w2, x
        <5> QED BY <2>2, <4>2, AboveMoves
      <4>4. a + 1 <= a2
        BY <4>1
      <4> HIDE DEF f, f2, half, w, w2
      <4> QED BY <2>1, <2>3, <2>4, <4>2, <4>3, <4>4
    <3> QED BY <3>1, <3>2
  <2> QED BY <2>1, <2>5 DEF Held
<1> QED BY <1>1, <1>2

(* Below one of the two middle rates there is no more than half a window.  *)
LEMMA HalfIsAbove ==
    ASSUME NEW w \in Seq(Nat), NEW x \in Nat, NEW k \in 1 .. Len(w),
           k <= Len(w) \div 2 + 1, x < Kth(w, k)
    PROVE  Cardinality(Above(w, x)) \in Nat
           /\ Cardinality(Above(w, x)) + Len(w) \div 2 >= Len(w)
<1> DEFINE K == Kth(w, k)
           low == Below(w, K)
           n == Len(w)
<1>1. K \in Nat /\ Cardinality(low) < k
  BY KthExists
<1>2. /\ IsFiniteSet(DOMAIN w) /\ Cardinality(DOMAIN w) = n
      /\ low \subseteq DOMAIN w /\ IsFiniteSet(low) /\ Cardinality(low) \in Nat
      /\ Above(w, x) \subseteq DOMAIN w
      /\ IsFiniteSet(Above(w, x)) /\ Cardinality(Above(w, x)) \in Nat
  BY PlacesAreFinite DEF Below, Above
<1>3. DOMAIN w \ low \subseteq Above(w, x)
  <2> HIDE DEF K
  <2>1. ASSUME NEW i \in DOMAIN w, i \notin Below(w, K) PROVE i \in Above(w, x)
    <3>1. w[i] \in Nat /\ x < K
      BY DEF K
    <3>2. ~(w[i] < K)
      BY <2>1 DEF Below
    <3> QED BY <1>1, <3>1, <3>2 DEF Above
  <2> QED BY <2>1
<1>4. /\ Cardinality(DOMAIN w \ low) = n - Cardinality(DOMAIN w \cap low)
      /\ DOMAIN w \cap low = low
  <2> HIDE DEF low, n
  <2> QED BY <1>2, FS_Difference
<1>5. Cardinality(DOMAIN w \ low) <= Cardinality(Above(w, x))
  <2> HIDE DEF low
  <2> QED BY <1>2, <1>3, FS_Subset
<1>6. n \in Nat /\ k \in Nat /\ k <= n \div 2 + 1
  OBVIOUS
<1> HIDE DEF low, n
<1>7. Cardinality(Above(w, x)) >= n - Cardinality(low)
  BY <1>4, <1>5
<1>8. Cardinality(Above(w, x)) + n \div 2 >= n
  BY <1>1, <1>2, <1>6, <1>7
<1> QED BY <1>2, <1>8 DEF n

(* rules.slow_decode: a request judged slow is slow outright, or against   *)
(* half of its model's window.                                             *)
LEMMA SlowIsHeld ==
    ASSUME LearnedTypeInv, NEW r \in machine, r.decode # None, obs' = RecordDecode(r),
           TooSlow(r), NEW o, o = [model |-> r.model, decode |-> r.decode], NEW a \in Nat
    PROVE  Held(obs', o, a)
<1>1. CASE Baseline(r) = None
  BY <1>1 DEF TooSlow, Held
<1>2. CASE Baseline(r) # None
  <2> DEFINE w == Window(r)
             n == Len(w)
             k1 == (n + 1) \div 2
             k2 == n \div 2 + 1
             x == r.decode * SlowDivisor
             f == Cardinality(Above(w, x))
  <2>1. r.model # NoModel /\ ~(n < MinSamples)
    BY <1>2 DEF Baseline, Window
  <2>2. r.model \in Models /\ r.decode \in Rates
    BY <2>1, ReadingFields
  <2>3. w \in Seq(Rates) /\ n \in Nat /\ n > 0 /\ n <= BaselineWindow
    BY <2>2, WindowMoves
  <2>4. MinSamples \in Nat /\ BaselineWindow \in Nat /\ SlowDivisor \in Nat
    BY LearnedAssumption
  <2>5. Baseline(r) = Kth(w, k1) + Kth(w, k2)
        /\ k1 \in 1 .. n /\ k2 \in 1 .. n /\ Kth(w, k1) \in Nat /\ Kth(w, k2) \in Nat
    <3>1. n >= MinSamples
      <4> HIDE DEF n
      <4> QED BY <2>1, <2>3, <2>4
    <3> QED BY <2>1, <3>1, BaselineIsMedian
  <2>6. x \in Nat /\ 2 * SlowDivisor * r.decode = x + x
    BY <2>2, <2>4, TwiceTheRate DEF Rates
  <2>7. x + x < Kth(w, k1) + Kth(w, k2)
    <3> HIDE DEF x, k1, k2, w
    <3> QED BY <1>2, <2>5, <2>6 DEF TooSlow
  <2>8. PICK k \in 1 .. n : x < Kth(w, k) /\ k <= n \div 2 + 1
    <3>1. x < Kth(w, k1) \/ x < Kth(w, k2)
      <4> HIDE DEF x, k1, k2, w
      <4> QED BY <2>5, <2>6, <2>7
    <3>2. k1 <= n \div 2 + 1 /\ k2 <= n \div 2 + 1
      <4> HIDE DEF n
      <4> QED BY <2>3
    <3> HIDE DEF k1, k2, x, n
    <3> QED BY <2>5, <3>1, <3>2
  <2>9. f \in Nat /\ f + n \div 2 >= n
    <3>1. w \in Seq(Nat)
      BY <2>3 DEF Rates
    <3> HIDE DEF x, w
    <3> QED BY <2>6, <2>8, <3>1, HalfIsAbove
  <2>10. f + a + BaselineWindow \div 2 >= n /\ f >= 1
    <3> HIDE DEF f, n
    <3>1. n \div 2 \in Nat /\ BaselineWindow \div 2 \in Nat
          /\ n \div 2 <= BaselineWindow \div 2 /\ n \div 2 < n
      BY <2>3, <2>4
    <3> QED BY <2>3, <2>4, <2>9, <3>1
  <2>11. w = obs'[o.model] /\ o.model = r.model /\ o.decode = r.decode
    BY DEF Window
  <2> QED BY <2>2, <2>10, <2>11 DEF Held
<1> QED BY <1>1, <1>2


LEMMA HeldHolds == LearnedTypeInv /\ HeldInv /\ [Next]_vars => HeldInv'
<1> SUFFICES ASSUME LearnedTypeInv, HeldInv, [Next]_vars PROVE HeldInv'
  OBVIOUS
<1>0. LearnedTypeInv'
  BY LearnedTypesHold
<1>1. CASE UNCHANGED <<obs, recent, kv, faults>>
  BY <1>1 DEF HeldInv, Held
<1>2. ASSUME NEW r \in machine, NEW t \in Readings, NEW done \in SUBSET RowNames,
             Judges(r, t, done)
      PROVE  HeldInv'
  <2> DEFINE one == [model |-> r.model, decode |-> r.decode]
  <2>1. /\ recent \in Seq(Judged) /\ recent' \in Seq(Judged)
        /\ Len(recent) \in Nat /\ Len(recent') \in Nat
        /\ Len(recent) <= SlowRun /\ SlowRun \in Nat \ {0}
        /\ kv.slow.run \in Nat /\ faults \in Nat /\ faults' \in Nat
    <3>1. recent \in Seq(Judged) /\ recent' \in Seq(Judged) /\ Len(recent) <= SlowRun
      BY <1>0 DEF LearnedTypeInv, Judged
    <3>2. Len(recent) \in Nat /\ Len(recent') \in Nat
      BY <3>1
    <3>3. faults \in Nat /\ faults' \in Nat /\ SlowRun \in Nat \ {0}
      BY <1>0, LearnedAssumption DEF LearnedTypeInv
    <3>4. kv.slow.run \in Nat
      BY DEF LearnedTypeInv, RowsTyped, SlowRows
    <3> QED BY <3>1, <3>2, <3>3, <3>4
  <2>2. /\ obs' = RecordDecode(r) /\ faults <= faults'
        /\ "slow" \notin done => faults + 1 <= faults'
        /\ kv'.slow = IF "slow" \in done THEN SlowRow(r) ELSE kv.slow
    <3>1. kv'.slow = IF "slow" \in done THEN SlowRow(r) ELSE kv.slow
      BY <1>2, RowsStored DEF LearnedTypeInv, Judges
    <3> QED BY <1>2, <2>1, <3>1 DEF Judges, RowNames
  <2>3. CASE recent' = recent /\ ("slow" \notin done \/ r.decode = None)
    <3>1. kv'.slow = kv.slow
      BY <2>2, <2>3 DEF SlowRow
    <3>2. ASSUME NEW p \in DOMAIN recent, Len(recent) - p < kv.slow.run,
                 NEW a2, a2 = Len(recent) - p + faults'
          PROVE  Held(obs', recent'[p], a2)
      <4>1. PICK o \in Judged : o = recent[p]
        BY <2>1
      <4>2. PICK a \in Nat : a = Len(recent) - p + faults
        BY <2>1
      <4>3. Held(obs, o, a)
        BY <3>2, <4>1, <4>2 DEF HeldInv
      <4>4. a2 \in Nat /\ a <= a2 /\ (r.decode # None => a + 1 <= a2)
        BY <2>1, <2>2, <2>3, <3>2, <4>2
      <4>5. Held(obs', o, a2)
        BY <1>0, <2>2, <4>3, <4>4, HeldLasts
      <4> QED BY <2>3, <4>1, <4>5 DEF Held
    <3> QED BY <2>3, <3>1, <3>2 DEF HeldInv, Held
  <2>4. CASE "slow" \in done /\ r.decode # None /\ Pushed(recent, one, SlowRun, recent')
    <3>1. PICK u \in 0 .. 1 :
             /\ Len(recent') = Len(recent) + 1 - u /\ recent'[Len(recent')] = one
             /\ u = 1 => Len(recent) = SlowRun
             /\ \A i \in 1 .. Len(recent') - 1 : recent'[i] = recent[i + u]
      <4>1. one \in Judged
        BY <2>4, ReadingFields DEF Judged
      <4> HIDE DEF one
      <4> QED BY <2>1, <2>4, <4>1, PlacesMove
    <3>2. CASE ~TooSlow(r)
      <4>1. kv'.slow.run = 0
        BY <2>2, <2>4, <3>2 DEF SlowRow
      <4> QED BY <2>1, <4>1 DEF HeldInv
    <3>3. CASE TooSlow(r)
      <4>1. kv'.slow.run = kv.slow.run + 1
        BY <2>2, <2>4, <3>3 DEF SlowRow
      <4>2. kv'.slow.run <= Len(recent') \/ Len(recent') = SlowRun
        <5>1. kv.slow.run <= Len(recent) \/ Len(recent) = SlowRun
          BY DEF HeldInv
        <5>2. Len(recent') = Len(recent) + 1 - u /\ (u = 1 => Len(recent) = SlowRun)
          BY <3>1
        <5>3. Len(recent') <= SlowRun
          BY <1>0 DEF LearnedTypeInv
        <5> QED BY <2>1, <4>1, <5>1, <5>2, <5>3
      <4>3. ASSUME NEW p \in DOMAIN recent', Len(recent') - p < kv'.slow.run,
                   NEW a2, a2 = Len(recent') - p + faults'
            PROVE  Held(obs', recent'[p], a2)
        <5>1. a2 \in Nat /\ p \in 1 .. Len(recent')
          BY <2>1, <4>3
        <5>2. CASE p = Len(recent')
          <6>1. PICK o : o = one
            OBVIOUS
          <6>2. Held(obs', o, a2)
            BY <2>2, <2>4, <3>3, <5>1, <6>1, SlowIsHeld
          <6> QED BY <3>1, <5>2, <6>1, <6>2 DEF Held
        <5>3. CASE p # Len(recent')
          <6>1. p \in 1 .. Len(recent') - 1 /\ p + u \in 1 .. Len(recent)
            BY <2>1, <3>1, <5>1, <5>3
          <6>2. Len(recent) - (p + u) < kv.slow.run
            <7>1. Len(recent') = Len(recent) + 1 - u /\ p \in Nat
              BY <3>1, <5>1
            <7>2. Len(recent') - p < kv'.slow.run
              BY <4>3
            <7>3. \A l, l2, run, run2 \in Nat :
                     l2 = l + 1 - u /\ run2 = run + 1 /\ l2 - p < run2 => l - (p + u) < run
              BY <7>1
            <7>4. kv'.slow.run \in Nat
              BY <2>1, <4>1
            <7> QED BY <2>1, <4>1, <7>1, <7>2, <7>3, <7>4
          <6>3. PICK o \in Judged : o = recent[p + u]
            BY <2>1, <6>1
          <6>4. PICK a \in Nat : a = Len(recent) - (p + u) + faults
            BY <2>1, <6>1
          <6>5. Held(obs, o, a)
            <7>1. p + u \in DOMAIN recent
              BY <2>1, <6>1
            <7> QED BY <6>2, <6>3, <6>4, <7>1 DEF HeldInv
          <6>6. a + 1 <= a2 /\ a <= a2
            <7>1. Len(recent') = Len(recent) + 1 - u /\ faults <= faults' /\ p \in Nat
              BY <2>2, <3>1, <5>1
            <7>2. a2 = Len(recent') - p + faults'
              BY <4>3
            <7>3. a = Len(recent) - (p + u) + faults
              BY <6>4
            <7>4. \A l, l2, f, f2 \in Nat : l2 = l + 1 - u /\ f <= f2 =>
                     l - (p + u) + f + 1 <= l2 - p + f2
              BY <7>1
            <7>5. a + 1 <= a2
              BY <2>1, <7>1, <7>2, <7>3, <7>4
            <7> QED BY <5>1, <7>5
          <6>7. Held(obs', o, a2)
            BY <1>0, <2>2, <5>1, <6>5, <6>6, HeldLasts
          <6> QED BY <3>1, <6>1, <6>3, <6>7 DEF Held
        <5> QED BY <5>2, <5>3
      <4> QED BY <4>2, <4>3 DEF HeldInv, Held
    <3> QED BY <3>2, <3>3
  <2>5. \/ recent' = recent /\ ("slow" \notin done \/ r.decode = None)
        \/ "slow" \in done /\ r.decode # None /\ Pushed(recent, one, SlowRun, recent')
    BY <1>2, MemoryStaysTyped DEF Judges, Evaluate
  <2> QED BY <2>3, <2>4, <2>5
<1>3. CASE Restart
  BY <1>1, <1>3 DEF Restart
<1>4. CASE UNCHANGED vars
  BY <1>1, <1>4 DEF vars, program, history
<1> QED BY <1>2, <1>3, <1>4, LearnedSteps

(* config.py: "One slow observation nearly always means the request shared *)
(* the GPU".  The alert is of SlowRun requests in a row, each slow against *)
(* a rate of its own model or outright, for any models, rates, restarts,   *)
(* and as many failing writes as the window is wider than twice the run.   *)
THEOREM OneSlowIsNoNews ==
    2 * (SlowRun + MaxFaults) <= BaselineWindow + 1 => (Spec => []OneSlowRequestIsNoNews)
<1> SUFFICES ASSUME 2 * (SlowRun + MaxFaults) <= BaselineWindow + 1
             PROVE  Spec => []OneSlowRequestIsNoNews
  OBVIOUS
<1>1. Init => HeldInv /\ RunShownInv
  <2> SUFFICES ASSUME Init PROVE HeldInv /\ RunShownInv
    OBVIOUS
  <2>1. RunShownInv
    BY DEF Init, RunShownInv
  <2>2. recent = <<>> /\ kv.slow.run = 0
    BY DEF Init
  <2> QED BY <2>1, <2>2 DEF HeldInv
<1>2. LearnedTypeInv /\ HeldInv /\ RunShownInv => OneSlowRequestIsNoNews
  <2> SUFFICES ASSUME LearnedTypeInv, HeldInv, RunShownInv, latest # None,
                      Shows("slow_decode")
               PROVE  /\ Len(recent) = SlowRun
                      /\ \A i \in DOMAIN recent :
                            LET o == recent[i]
                            IN  \/ o.decode < ColdSlow
                                \/ /\ o.model # NoModel
                                   /\ \E d \in ToSet(obs[o.model]) :
                                         o.decode * SlowDivisor < d
    BY DEF OneSlowRequestIsNoNews
  <2>1. /\ recent \in Seq(Judged) /\ Len(recent) \in Nat
        /\ Len(recent) <= SlowRun /\ SlowRun \in Nat /\ kv.slow.run \in Nat
        /\ faults \in Nat /\ MaxFaults \in Nat /\ faults <= MaxFaults
        /\ BaselineWindow \in Nat
    BY LearnedAssumption DEF LearnedTypeInv, RowsTyped, SlowRows, Judged
  <2>2. kv.slow.run >= SlowRun
    BY DEF RunShownInv
  <2>3. Len(recent) = SlowRun
    BY <2>1, <2>2 DEF HeldInv
  <2>4. ASSUME NEW i \in DOMAIN recent, ~(recent[i].decode < ColdSlow)
        PROVE  /\ recent[i].model # NoModel
               /\ \E d \in ToSet(obs[recent[i].model]) : recent[i].decode * SlowDivisor < d
    <3> DEFINE o == recent[i]
               a == Len(recent) - i + faults
               w == obs[o.model]
               x == o.decode * SlowDivisor
               f == Cardinality(Above(w, x))
    <3>1. i \in 1 .. SlowRun /\ o \in Judged
      BY <2>1, <2>3
    <3>2. Held(obs, o, a)
      BY <2>1, <2>2, <2>3, <3>1 DEF HeldInv
    <3>3. /\ o.model \in Models
          /\ f + a + BaselineWindow \div 2 >= Len(w)
          /\ Len(w) < BaselineWindow => f >= 1
      BY <2>4, <3>2 DEF Held
    <3>4. w \in Seq(Rates) /\ Len(w) \in Nat /\ Len(w) <= BaselineWindow
      <4>1. w \in Seq(Rates) /\ Len(w) <= BaselineWindow
        BY <3>3 DEF LearnedTypeInv
      <4> QED BY <4>1
    <3>5. f \in Nat /\ Above(w, x) \subseteq DOMAIN w
      BY <3>4, PlacesAreFinite DEF Above
    <3>6. a \in Nat /\ a <= SlowRun - 1 + MaxFaults
      BY <2>1, <2>3, <3>1
    <3>7. f # 0
      <4> HIDE DEF f, a, w
      <4> QED BY <2>1, <3>3, <3>4, <3>5, <3>6
    <3>8. PICK p \in Above(w, x) : TRUE
      <4>1. Above(w, x) # {}
        BY <3>7, FS_EmptySet
      <4> QED BY <4>1
    <3>9. w[p] \in ToSet(w) /\ w[p] > x
      BY <3>5, <3>8 DEF Above, ToSet
    <3>10. x \in Nat /\ w[p] \in Nat
      <4>1. x \in Nat
        BY <3>1, LearnedAssumption, TwiceTheRate DEF Judged, Rates
      <4>2. p \in DOMAIN w
        BY <3>5, <3>8
      <4> QED BY <3>4, <4>1, <4>2 DEF Rates
    <3>11. o.model # NoModel
      BY <3>3, LearnedAssumption
    <3>12. x < w[p]
      <4> HIDE DEF x, w
      <4> QED BY <3>9, <3>10
    <3> QED BY <3>9, <3>11, <3>12
  <2> QED BY <2>3, <2>4
<1> QED
  BY <1>1, <1>2, LearnedInitTypes, LearnedTypesHold, HeldHolds, RunShownHolds, PTL DEF Spec

==============================================================================
