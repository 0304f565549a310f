---------------------------- MODULE HistoryProofs ----------------------------
(***************************************************************************)
(* What the history store promises, for every set of tables, widths and    *)
(* retentions, whatever fails and however long the dashboard is down: the  *)
(* cursors stand at ends of buckets, a bucket before a cursor stands for   *)
(* every row stored in it, nothing is pruned that a table has still to     *)
(* fold, charts and usage reports are of all there is, and no report       *)
(* charges more energy for a gap than its windows allow.                   *)
(***************************************************************************)
EXTENDS History, FiniteSetTheorems, WellFoundedInduction, TLAPS

-----------------------------------------------------------------------------
(* Ends of buckets.                                                        *)
Aligned(c, width) == c % width = 0

LEMMA DivisionIs ==
    ASSUME NEW w \in Nat \ {0}, NEW t \in Int
    PROVE  t \div w \in Int /\ t % w \in 0 .. w - 1 /\ t = w * (t \div w) + (t % w)
OBVIOUS

LEMMA ProductOrder ==
    ASSUME NEW w \in Nat \ {0}, NEW k \in Int, NEW j \in Int, k * w < j * w + w
    PROVE  k <= j
OBVIOUS

LEMMA ProductMonotone ==
    ASSUME NEW w \in Nat \ {0}, NEW k \in Int, NEW j \in Int, k <= j
    PROVE  k * w <= j * w
OBVIOUS

LEMMA FloorIs ==
    ASSUME NEW w \in Nat \ {0}, NEW t \in Int
    PROVE  /\ Floor(t, w) \in Int /\ Floor(t, w) <= t /\ t < Floor(t, w) + w
           /\ Aligned(Floor(t, w), w)
<1>1. /\ t \div w \in Int /\ (t \div w) * w \in Int
      /\ (t \div w) * w <= t /\ t < (t \div w) * w + w
  BY DivisionIs
<1>2. ASSUME NEW k \in Int PROVE (k * w) % w = 0
  OBVIOUS
<1> QED BY <1>1, <1>2 DEF Floor, Aligned

(* An end of a bucket is not above a moment unless it is above its bucket. *)
LEMMA FloorAbove ==
    ASSUME NEW w \in Nat \ {0}, NEW t \in Int, NEW c \in Int, Aligned(c, w), c <= t
    PROVE  c <= Floor(t, w)
<1> DEFINE k == c \div w
           j == t \div w
<1>1. k \in Int /\ j \in Int /\ c = k * w /\ t < j * w + w
  BY DivisionIs DEF Aligned
<1>2. k <= j
  <2> HIDE DEF k, j
  <2>1. k * w < j * w + w
    BY <1>1
  <2> QED BY <1>1, <2>1, ProductOrder
<1>3. k * w <= j * w
  <2> HIDE DEF k, j
  <2> QED BY <1>1, <1>2, ProductMonotone
<1> QED BY <1>1, <1>3 DEF Floor

LEMMA FloorMonotone ==
    ASSUME NEW w \in Nat \ {0}, NEW s \in Int, NEW t \in Int, s <= t
    PROVE  Floor(s, w) <= Floor(t, w)
<1>1. Floor(s, w) \in Int /\ Floor(s, w) <= t /\ Aligned(Floor(s, w), w)
  BY FloorIs
<1> QED BY <1>1, FloorAbove

LEMMA SmallestOf ==
    ASSUME NEW S \in SUBSET Nat, S # {}
    PROVE  Min(S) \in S /\ \A n \in S : Min(S) <= n
<1>1. PICK m \in S : \A n \in S : <<n, m>> \notin OpToRel(<, Nat)
  BY NatLessThanWellFounded, WFMin
<1>2. ASSUME NEW n \in S PROVE m <= n
  <2>1. <<n, m>> \notin {ss \in Nat \X Nat : ss[1] < ss[2]}
    BY <1>1, <1>2 DEF OpToRel
  <2> QED BY <2>1
<1> QED BY <1>1, <1>2 DEF Min

(* INSERT OR REPLACE: what falls between two moments is in its bucket, and *)
(* buckets before the first are as they were.                              *)
Replaces(after, table, w, X, at, content, from, to) ==
    /\ \A x \in X : from <= at[x] /\ at[x] < to =>
          Floor(at[x], w) \in DOMAIN after /\ content[x] \subseteq after[Floor(at[x], w)]
    /\ \A b \in DOMAIN table : b \in Int /\ b < from =>
          b \in DOMAIN after /\ after[b] = table[b]

LEMMA FoldIntoIs ==
    ASSUME NEW table, NEW w \in Nat \ {0}, NEW X, NEW at \in [X -> Int], NEW content,
           NEW from \in Int, NEW to \in Int, Aligned(from, w)
    PROVE  Replaces(FoldInto(table, w, at, content, from, to),
                    table, w, X, at, content, from, to)
<1> DEFINE folded == {x \in X : from <= at[x] /\ at[x] < to}
           within(b) == {x \in folded : Floor(at[x], w) = b}
           after == FoldInto(table, w, at, content, from, to)
<1>1. after = [b \in {Floor(at[x], w) : x \in folded} \cup DOMAIN table |->
                  IF within(b) = {} THEN table[b] ELSE UNION {content[x] : x \in within(b)}]
  BY DEF FoldInto
<1> HIDE DEF after
<1>2. ASSUME NEW x \in folded
      PROVE  /\ Floor(at[x], w) \in DOMAIN after
             /\ content[x] \subseteq after[Floor(at[x], w)]
  <2>1. x \in within(Floor(at[x], w))
    OBVIOUS
  <2> HIDE DEF within
  <2> QED BY <1>1, <2>1
<1>3. ASSUME NEW b \in DOMAIN table, b \in Int, b < from
      PROVE  b \in DOMAIN after /\ after[b] = table[b]
  <2>1. \A x \in folded : from <= Floor(at[x], w) /\ Floor(at[x], w) \in Int
    BY FloorAbove, FloorIs
  <2>2. within(b) = {}
    BY <1>3, <2>1
  <2> HIDE DEF within
  <2> QED BY <1>1, <1>3, <2>2
<1> QED BY <1>2, <1>3 DEF after, Replaces

-----------------------------------------------------------------------------
(* A row is known by its last poll, which is one of it.                    *)
StoredRows == {r \in SUBSET Nat : Stamp(r) \in r /\ \A x \in r : x <= Stamp(r)}

(* The cursor of table n is past moment x. *)
Past(d, n, x) == d.upto[n] # NoCursor /\ x < d.upto[n]

InBucket(d, n, r) ==
    /\ Floor(Stamp(r), Width[n]) \in DOMAIN d.rolled[n]
    /\ r \subseteq d.rolled[n][Floor(Stamp(r), Width[n])]

InHour(d, q) ==
    /\ Floor(done[q], Width[Hourly]) \in DOMAIN d.hours
    /\ q \in d.hours[Floor(done[q], Width[Hourly])]

(* What holds of the database d at moment t, of the rows S that were ever  *)
(* committed and not lost, and of the requests that were not late (L).     *)
StoreTyped(d, t) ==
    /\ DOMAIN d = {"raw", "requests", "hours", "rolled", "upto"}
    /\ d.raw \subseteq StoredRows /\ \A r \in d.raw : Stamp(r) <= t
    /\ d.requests \subseteq DOMAIN done
    /\ d.upto \in [TableNames -> Int \cup {NoCursor}]
    /\ \A n \in TableNames :
          d.upto[n] # NoCursor => Aligned(d.upto[n], Width[n]) /\ d.upto[n] <= t

(* A row that a table has still to fold is there, and so is a recent one.  *)
RowsKept(d, S, t) ==
    \A r \in S : r \in d.raw \/ (Folded(d, r) /\ Stamp(r) < t - KeepRaw)

BucketsWhole(d, S, t) ==
    \A n \in TableNames, r \in S \cup d.raw :
        Past(d, n, Stamp(r)) /\ Floor(Stamp(r), Width[n]) >= t - KeepRollup[n]
        => InBucket(d, n, r)

HoursWhole(d, S, L, t) ==
    \A q \in d.requests \ L, x \in S \cup d.raw :
        /\ Past(d, Hourly, done[q]) /\ Floor(Stamp(x), Width[Hourly]) <= done[q]
        /\ Floor(done[q], Width[Hourly]) >= t - KeepRollup[Hourly]
        => InHour(d, q)

Sound(d, S, L, t) ==
    /\ StoreTyped(d, t) /\ RowsKept(d, S, t)
    /\ BucketsWhole(d, S, t) /\ HoursWhole(d, S, L, t)

(* When requests were completed. *)
DoneInv(t) ==
    \A q \in DOMAIN done : q \in Requests /\ done[q] \in Nat /\ done[q] <= t

LEMMA WidthsAre ==
    /\ Hourly \in TableNames
    /\ \A n \in TableNames : Width[n] \in Nat \ {0} /\ KeepRollup[n] \in Nat
    /\ {PersistEvery, RollupEvery, PruneEvery, KeepRaw} \subseteq Nat \ {0}
    /\ Lag \in Nat
    /\ \A n \in TableNames : n # NoCursor
    /\ NoCursor \notin Int
<1>1. Tables \in Seq(TableNames) /\ Tables # <<>>
  BY HistoryAssumption
<1>2. Len(Tables) \in 1 .. Len(Tables) /\ DOMAIN Tables = 1 .. Len(Tables)
  BY <1>1
<1>3. Hourly \in TableNames
  BY <1>2 DEF Hourly, TableNames
<1>4. 2 * PersistEvery \in Nat
  BY HistoryAssumption
<1> QED BY <1>3, <1>4, HistoryAssumption DEF Lag

LEMMA StampIs ==
    ASSUME NEW r \in StoredRows
    PROVE  Stamp(r) \in Nat /\ Stamp(r) \in r
BY DEF StoredRows

-----------------------------------------------------------------------------
(* Time passes, rows are lost to it or committed, requests are late.       *)
LEMMA SoundLater ==
    ASSUME NEW d, NEW S, NEW L, NEW t \in Nat, DoneInv(t), Sound(d, S, L, t),
           S \subseteq StoredRows, NEW S2 \in SUBSET (S \cup d.raw), NEW L2,
           d.requests \cap L \subseteq L2, NEW t2 \in Nat, t <= t2
    PROVE  Sound(d, S2, L2, t2)
<1>0. /\ \A n \in TableNames : Width[n] \in Nat \ {0} /\ KeepRollup[n] \in Nat
      /\ KeepRaw \in Nat /\ Hourly \in TableNames
  BY WidthsAre
<1>1. \A r \in S \cup d.raw : Stamp(r) \in Nat
  BY StampIs DEF Sound, StoreTyped
<1>2. \A n \in TableNames : \A x \in Nat : Floor(x, Width[n]) \in Int
  BY <1>0, FloorIs
<1>3. StoreTyped(d, t2)
  <2>1. \A n \in TableNames : d.upto[n] # NoCursor => d.upto[n] \in Int
    BY DEF Sound, StoreTyped
  <2> QED BY <1>1, <2>1 DEF Sound, StoreTyped
<1>4. RowsKept(d, S2, t2)
  BY <1>0, <1>1 DEF Sound, RowsKept
<1>5. BucketsWhole(d, S2, t2)
  BY <1>0, <1>1, <1>2 DEF Sound, BucketsWhole
<1>6. HoursWhole(d, S2, L2, t2)
  <2> SUFFICES ASSUME NEW q \in d.requests \ L2, NEW x \in S2 \cup d.raw,
                      Past(d, Hourly, done[q]), Floor(Stamp(x), Width[Hourly]) <= done[q],
                      Floor(done[q], Width[Hourly]) >= t2 - KeepRollup[Hourly]
               PROVE  InHour(d, q)
    BY DEF HoursWhole
  <2>1. q \in d.requests \ L /\ x \in S \cup d.raw
    OBVIOUS
  <2>2. done[q] \in Nat
    BY <2>1 DEF Sound, StoreTyped, DoneInv
  <2>3. Floor(done[q], Width[Hourly]) >= t - KeepRollup[Hourly]
    BY <1>0, <1>2, <2>2
  <2> QED BY <2>1, <2>3 DEF Sound, HoursWhole
<1> QED BY <1>3, <1>4, <1>5, <1>6 DEF Sound

(* A row that could not be folded yet is added.                            *)
LEMMA SoundWithRow ==
    ASSUME NEW d, NEW S, NEW L, NEW t \in Nat, DoneInv(t), Sound(d, S, L, t),
           NEW row \in StoredRows, Stamp(row) = t
    PROVE  Sound([d EXCEPT !.raw = @ \cup {row}], S, L, t)
<1> DEFINE d2 == [d EXCEPT !.raw = @ \cup {row}]
<1>0. /\ \A n \in TableNames : Width[n] \in Nat \ {0}
      /\ Hourly \in TableNames
  BY WidthsAre
<1>1. /\ DOMAIN d2 = DOMAIN d /\ d2.raw = d.raw \cup {row} /\ d2.requests = d.requests /\ d2.hours = d.hours
      /\ d2.rolled = d.rolled /\ d2.upto = d.upto
  BY DEF Sound, StoreTyped
<1> HIDE DEF d2
<1>2. StoreTyped(d2, t)
  BY <1>1 DEF Sound, StoreTyped
<1>3. RowsKept(d2, S, t)
  BY <1>1 DEF Sound, RowsKept, Folded
<1>4. \A n \in TableNames : ~Past(d, n, t)
  BY DEF Past, Sound, StoreTyped
<1>5. BucketsWhole(d2, S, t)
  <2> SUFFICES ASSUME NEW n \in TableNames, NEW r \in S \cup d2.raw,
                      Past(d2, n, Stamp(r)),
                      Floor(Stamp(r), Width[n]) >= t - KeepRollup[n]
               PROVE  InBucket(d2, n, r)
    BY DEF BucketsWhole
  <2>1. Past(d, n, Stamp(r)) /\ r # row
    BY <1>1, <1>4 DEF Past
  <2> QED BY <1>1, <2>1 DEF Sound, BucketsWhole, InBucket
<1>6. HoursWhole(d2, S, L, t)
  <2> SUFFICES ASSUME NEW q \in d2.requests \ L, NEW x \in S \cup d2.raw,
                      Past(d2, Hourly, done[q]), Floor(Stamp(x), Width[Hourly]) <= done[q],
                      Floor(done[q], Width[Hourly]) >= t - KeepRollup[Hourly]
               PROVE  InHour(d2, q)
    BY DEF HoursWhole
  <2>1. Past(d, Hourly, done[q]) /\ done[q] \in Nat
    BY <1>1 DEF Past, Sound, StoreTyped, DoneInv
  <2>2. x # row
    <3>1. d.upto[Hourly] \in Int /\ Aligned(d.upto[Hourly], Width[Hourly])
          /\ d.upto[Hourly] <= t /\ done[q] < d.upto[Hourly]
      BY <1>0, <2>1 DEF Past, Sound, StoreTyped
    <3>2. d.upto[Hourly] <= Floor(t, Width[Hourly])
      <4> DEFINE c == d.upto[Hourly]
                 w == Width[Hourly]
      <4>1. c \in Int /\ w \in Nat \ {0} /\ Aligned(c, w) /\ c <= t
        BY <1>0, <3>1
      <4> HIDE DEF c, w
      <4>2. c <= Floor(t, w)
        BY <4>1, FloorAbove
      <4> QED BY <4>2 DEF c, w
    <3>3. Floor(t, Width[Hourly]) \in Int
      BY <1>0, FloorIs
    <3> QED BY <2>1, <3>1, <3>2, <3>3
  <2> QED BY <1>1, <2>1, <2>2 DEF Sound, HoursWhole, InHour
<1> QED BY <1>2, <1>3, <1>5, <1>6 DEF Sound, d2

(* Requests are added, of which those whose hour is folded are late.       *)
LEMMA SoundWithRequests ==
    ASSUME NEW d, NEW S, NEW L, NEW t \in Nat, Sound(d, S, L, t),
           NEW Q \in SUBSET DOMAIN done, NEW L2, L \subseteq L2,
           \A q \in Q \ d.requests : q \in L2 \/ ~Past(d, Hourly, done[q])
    PROVE  Sound([d EXCEPT !.requests = @ \cup Q], S, L2, t)
<1> DEFINE d2 == [d EXCEPT !.requests = @ \cup Q]
<1>1. /\ DOMAIN d2 = DOMAIN d /\ d2.raw = d.raw /\ d2.requests = d.requests \cup Q /\ d2.hours = d.hours
      /\ d2.rolled = d.rolled /\ d2.upto = d.upto
  BY DEF Sound, StoreTyped
<1> HIDE DEF d2
<1>2. StoreTyped(d2, t)
  BY <1>1 DEF Sound, StoreTyped
<1>3. RowsKept(d2, S, t)
  BY <1>1 DEF Sound, RowsKept, Folded
<1>4. BucketsWhole(d2, S, t)
  BY <1>1 DEF Sound, BucketsWhole, InBucket, Past
<1>5. HoursWhole(d2, S, L2, t)
  BY <1>1 DEF Sound, HoursWhole, InHour, Past
<1> QED BY <1>2, <1>3, <1>4, <1>5 DEF Sound, d2

(* Old rows are deleted: what had still to be folded or was recent is no   *)
(* longer asked for.                                                       *)
Pruned(p, s, S, L, t) ==
    /\ DOMAIN p = {"db", "disk"} /\ p.disk = p.db
    /\ Sound(p.db, S, L, t)
    /\ p.db.raw = {r \in s.db.raw : Stamp(r) >= t - KeepRaw}
    /\ p.db.upto = s.db.upto
    /\ p.db.requests \subseteq s.db.requests

LEMMA SoundPruned ==
    ASSUME NEW s, NEW S, NEW L, NEW t \in Nat, Sound(s.db, S, L, t), DOMAIN s = {"db", "disk"},
           NEW S2 \in SUBSET S,
           \A r \in S2 : Folded(s.db, r) \/ r \in Prune(s, t).db.raw
    PROVE  Pruned(Prune(s, t), s, S2, L, t)
<1> DEFINE d == s.db
           p == Prune(s, t)
           d2 == p.db
<1>1. /\ DOMAIN p = {"db", "disk"} /\ p.disk = d2
      /\ DOMAIN d2 = DOMAIN d
      /\ d2.raw = {r \in d.raw : Stamp(r) >= t - KeepRaw}
      /\ d2.requests = {r \in d.requests : done[r] >= t - KeepRaw}
      /\ d2.hours = Younger(d.hours, t - KeepRollup[Hourly])
      /\ d2.rolled = [n \in TableNames |-> Younger(d.rolled[n], t - KeepRollup[n])]
      /\ d2.upto = d.upto
  BY DEF Prune, Commit, Sound, StoreTyped
<1>2. /\ \A r \in S2 : Folded(d, r) \/ r \in d2.raw
      /\ Sound(d, S, L, t)
  OBVIOUS
<1> HIDE DEF d, d2, p
<1>4. StoreTyped(d2, t)
  BY <1>1, <1>2 DEF Sound, StoreTyped
<1>3. KeepRaw \in Nat /\ \A r \in d.raw : Stamp(r) \in Nat
  BY <1>2, StampIs, WidthsAre DEF Sound, StoreTyped
<1>5. RowsKept(d2, S2, t)
  BY <1>1, <1>2, <1>3 DEF Sound, RowsKept, Folded
<1>6. BucketsWhole(d2, S2, t)
  <2> SUFFICES ASSUME NEW n \in TableNames, NEW r \in S2 \cup d2.raw,
                      Past(d2, n, Stamp(r)),
                      Floor(Stamp(r), Width[n]) >= t - KeepRollup[n]
               PROVE  InBucket(d2, n, r)
    BY DEF BucketsWhole
  <2>1. InBucket(d, n, r)
    BY <1>1, <1>2 DEF Sound, BucketsWhole, Past
  <2> QED BY <1>1, <2>1 DEF InBucket, Younger
<1>7. HoursWhole(d2, S2, L, t)
  <2> SUFFICES ASSUME NEW q \in d2.requests \ L, NEW x \in S2 \cup d2.raw,
                      Past(d2, Hourly, done[q]), Floor(Stamp(x), Width[Hourly]) <= done[q],
                      Floor(done[q], Width[Hourly]) >= t - KeepRollup[Hourly]
               PROVE  InHour(d2, q)
    BY DEF HoursWhole
  <2>1. InHour(d, q)
    BY <1>1, <1>2 DEF Sound, HoursWhole, Past
  <2> QED BY <1>1, <2>1 DEF InHour, Younger
<1> QED BY <1>1, <1>4, <1>5, <1>6, <1>7 DEF Pruned, Sound, d, d2, p

-----------------------------------------------------------------------------
(* Where a fold begins: at the cursor, or with the first row's bucket.     *)
LEMMA CursorIs ==
    ASSUME NEW d, NEW S, NEW L, NEW t \in Nat, Sound(d, S, L, t), NEW n \in TableNames,
           Cursor(d, n) # NoCursor
    PROVE  /\ Cursor(d, n) \in Int /\ Aligned(Cursor(d, n), Width[n])
           /\ d.upto[n] # NoCursor => Cursor(d, n) = d.upto[n]
           /\ d.upto[n] = NoCursor =>
                 \A r \in S \cup d.raw : r \in d.raw /\ Cursor(d, n) <= Floor(Stamp(r), Width[n])
<1>1. CASE d.upto[n] # NoCursor
  BY <1>1 DEF Cursor, Sound, StoreTyped
<1>2. CASE d.upto[n] = NoCursor
  <2> DEFINE stamps == {Stamp(r) : r \in d.raw}
             w == Width[n]
  <2>1. stamps # {} /\ Cursor(d, n) = Floor(Min(stamps), w)
    BY <1>2 DEF Cursor
  <2>2. stamps \in SUBSET Nat
    BY StampIs DEF Sound, StoreTyped
  <2>3. w \in Nat \ {0}
    BY WidthsAre
  <2>4. \A r \in S \cup d.raw : r \in d.raw
    BY <1>2 DEF Sound, RowsKept, Folded
  <2>5. \A r \in d.raw : Stamp(r) \in stamps
    OBVIOUS
  <2> HIDE DEF stamps, w
  <2>6. Min(stamps) \in Nat /\ \A x \in stamps : x \in Nat /\ Min(stamps) <= x
    BY <2>1, <2>2, SmallestOf
  <2>7. \A x \in stamps : Floor(Min(stamps), w) <= Floor(x, w)
    BY <2>3, <2>6, FloorMonotone
  <2>8. Floor(Min(stamps), w) \in Int /\ Aligned(Floor(Min(stamps), w), w)
    BY <2>3, <2>6, FloorIs
  <2> QED BY <1>2, <2>1, <2>4, <2>5, <2>7, <2>8 DEF w
<1> QED BY <1>1, <1>2

(* Where it ends.                                                          *)
LEMMA UntilIs ==
    ASSUME NEW n \in TableNames, NEW t \in Nat
    PROVE  /\ Until(n, t) \in Int /\ Aligned(Until(n, t), Width[n])
           /\ Until(n, t) <= t /\ t - Lag - Width[n] < Until(n, t)
<1> DEFINE w == Width[n]
<1>1. w \in Nat \ {0} /\ Lag \in Nat
  BY WidthsAre
<1> HIDE DEF w
<1>2. /\ Floor(t - Lag, w) \in Int /\ Aligned(Floor(t - Lag, w), w)
      /\ Floor(t - Lag, w) <= t - Lag /\ t - Lag < Floor(t - Lag, w) + w
  BY <1>1, FloorIs
<1>3. Until(n, t) = Floor(t - Lag, w)
  BY DEF Until, w
<1> QED BY <1>1, <1>2, <1>3 DEF w

(* After a table is folded, every row before the end of the fold is in its *)
(* bucket: those before the cursor were, and the others are there to fold. *)
LEMMA BucketsFilled ==
    ASSUME NEW d, NEW S, NEW L, NEW t \in Nat, Sound(d, S, L, t), S \subseteq StoredRows,
           NEW n \in TableNames, Cursor(d, n) # NoCursor,
           NEW r \in S \cup d.raw, Past(d, n, Stamp(r)) \/ Stamp(r) < Until(n, t),
           Floor(Stamp(r), Width[n]) >= t - KeepRollup[n]
    PROVE  LET after == FoldSamples(d, n, Cursor(d, n), Until(n, t))
           IN  /\ Floor(Stamp(r), Width[n]) \in DOMAIN after
               /\ r \subseteq after[Floor(Stamp(r), Width[n])]
<1> DEFINE w == Width[n]
           from == Cursor(d, n)
           to == Until(n, t)
           b == Floor(Stamp(r), w)
           table == d.rolled[n]
           X == d.raw
           at == [x \in X |-> Stamp(x)]
           content == [x \in X |-> x]
           after == FoldSamples(d, n, from, to)
<1>1. /\ from \in Int /\ Aligned(from, w)
      /\ d.upto[n] # NoCursor => from = d.upto[n]
      /\ d.upto[n] = NoCursor => r \in d.raw /\ from <= b
  BY CursorIs
<1>2. w \in Nat \ {0} /\ to \in Int
  BY WidthsAre, UntilIs
<1>3. Stamp(r) \in Nat
  BY StampIs DEF Sound, StoreTyped
<1>4. b \in Int /\ b <= Stamp(r)
  <2> HIDE DEF w
  <2> QED BY <1>2, <1>3, FloorIs
<1>5. at \in [X -> Int]
  BY StampIs DEF Sound, StoreTyped
<1>6. after = FoldInto(table, w, at, content, from, to)
  BY DEF FoldSamples
<1>7. Replaces(after, table, w, X, at, content, from, to)
  <2>1. /\ w \in Nat \ {0} /\ from \in Int /\ to \in Int /\ Aligned(from, w)
        /\ at \in [X -> Int]
    BY <1>1, <1>2, <1>5
  <2> HIDE DEF w, from, to, table, X, at, content, after
  <2> QED BY <1>6, <2>1, FoldIntoIs
<1>8. CASE Stamp(r) < from
  <2>1. Past(d, n, Stamp(r))
    BY <1>1, <1>3, <1>4, <1>8 DEF Past
  <2>2. b \in DOMAIN table /\ r \subseteq table[b]
    BY <2>1 DEF Sound, BucketsWhole, InBucket
  <2>3. b \in DOMAIN after /\ after[b] = table[b]
    <3> HIDE DEF after, b, table, from
    <3> QED BY <1>1, <1>3, <1>4, <1>7, <1>8, <2>2 DEF Replaces
  <2> QED BY <2>2, <2>3
<1>9. CASE from <= Stamp(r)
  <2>1. ~Past(d, n, Stamp(r))
    BY <1>1, <1>3, <1>9 DEF Past
  <2>2. r \in d.raw
    BY <2>1 DEF Past, Folded, Sound, RowsKept
  <2>3. at[r] = Stamp(r) /\ content[r] = r
    BY <2>2
  <2>4. from <= at[r] /\ at[r] < to
    BY <1>9, <2>1, <2>3
  <2> QED BY <1>7, <2>2, <2>3, <2>4 DEF Replaces
<1> QED BY <1>1, <1>3, <1>8, <1>9

LEMMA HoursFilled ==
    ASSUME NEW d, NEW S, NEW L, NEW t \in Nat, Sound(d, S, L, t), S \subseteq StoredRows,
           DoneInv(t), Cursor(d, Hourly) # NoCursor,
           NEW q \in d.requests \ L, NEW x \in S \cup d.raw,
           Past(d, Hourly, done[q]) \/ done[q] < Until(Hourly, t),
           Floor(Stamp(x), Width[Hourly]) <= done[q],
           Floor(done[q], Width[Hourly]) >= t - KeepRollup[Hourly]
    PROVE  LET after == FoldRequests(d, Cursor(d, Hourly), Until(Hourly, t))
           IN  /\ Floor(done[q], Width[Hourly]) \in DOMAIN after
               /\ q \in after[Floor(done[q], Width[Hourly])]
<1> DEFINE w == Width[Hourly]
           from == Cursor(d, Hourly)
           to == Until(Hourly, t)
           b == Floor(done[q], w)
           table == d.hours
           X == d.requests
           at == [y \in X |-> done[y]]
           content == [y \in X |-> {y}]
           after == FoldRequests(d, from, to)
<1>0. Hourly \in TableNames /\ w \in Nat \ {0}
  BY WidthsAre
<1>1. /\ from \in Int /\ Aligned(from, w)
      /\ d.upto[Hourly] # NoCursor => from = d.upto[Hourly]
      /\ d.upto[Hourly] = NoCursor => from <= Floor(Stamp(x), w)
  BY <1>0, CursorIs
<1>2. to \in Int
  BY <1>0, UntilIs
<1>3. done[q] \in Nat /\ X \subseteq DOMAIN done
  BY DEF Sound, StoreTyped, DoneInv
<1>4. b \in Int /\ b <= done[q]
  <2> HIDE DEF w
  <2> QED BY <1>0, <1>3, FloorIs
<1>5. at \in [X -> Int]
  BY <1>3 DEF DoneInv
<1>6. after = FoldInto(table, w, at, content, from, to)
  BY DEF FoldRequests
<1>7. Replaces(after, table, w, X, at, content, from, to)
  <2>1. /\ w \in Nat \ {0} /\ from \in Int /\ to \in Int /\ Aligned(from, w)
        /\ at \in [X -> Int]
    BY <1>0, <1>1, <1>2, <1>5
  <2> HIDE DEF w, from, to, table, X, at, content, after
  <2> QED BY <1>6, <2>1, FoldIntoIs
<1>8. CASE done[q] < from
  <2>1. Floor(Stamp(x), w) \in Int
    <3>1. Stamp(x) \in Nat
      BY StampIs DEF Sound, StoreTyped
    <3>2. w \in Nat \ {0}
      BY <1>0
    <3> HIDE DEF w, from, to, b, at, content, after
    <3> QED BY <3>1, <3>2, FloorIs
  <2>2. Past(d, Hourly, done[q])
    BY <1>1, <1>3, <1>8, <2>1 DEF Past
  <2>3. b \in DOMAIN table /\ q \in table[b]
    BY <2>2 DEF Sound, HoursWhole, InHour
  <2>4. b \in DOMAIN after /\ after[b] = table[b]
    <3> HIDE DEF after, b, table, from
    <3> QED BY <1>1, <1>3, <1>4, <1>7, <1>8, <2>3 DEF Replaces
  <2> QED BY <2>3, <2>4
<1>9. CASE from <= done[q]
  <2>1. ~Past(d, Hourly, done[q])
    BY <1>1, <1>3, <1>9 DEF Past
  <2>2. at[q] = done[q] /\ content[q] = {q} /\ q \in X
    OBVIOUS
  <2>3. from <= at[q] /\ at[q] < to
    BY <1>9, <2>1, <2>2
  <2> QED BY <1>7, <2>2, <2>3 DEF Replaces
<1> QED BY <1>1, <1>3, <1>8, <1>9

(* The statements of some tables that have a place to begin at.            *)
Filled(p, s, names, S, L, t) ==
    /\ DOMAIN p = {"db", "disk"} /\ p.disk = s.disk
    /\ DOMAIN p.db = DOMAIN s.db /\ p.db.raw = s.db.raw
    /\ p.db.requests = s.db.requests /\ p.db.upto = s.db.upto
    /\ Sound(p.db, S, L, t)
    /\ \A n \in names, r \in S \cup s.db.raw :
          /\ Past(s.db, n, Stamp(r)) \/ Stamp(r) < Until(n, t)
          /\ Floor(Stamp(r), Width[n]) >= t - KeepRollup[n]
          => InBucket(p.db, n, r)
    /\ Hourly \in names => \A q \in s.db.requests \ L, x \in S \cup s.db.raw :
          /\ Past(s.db, Hourly, done[q]) \/ done[q] < Until(Hourly, t)
          /\ Floor(Stamp(x), Width[Hourly]) <= done[q]
          /\ Floor(done[q], Width[Hourly]) >= t - KeepRollup[Hourly]
          => InHour(p.db, q)

LEMMA SoundInserted ==
    ASSUME NEW s, DOMAIN s = {"db", "disk"}, NEW S, NEW L, NEW t \in Nat,
           Sound(s.db, S, L, t), S \subseteq StoredRows, DoneInv(t),
           NEW names \in SUBSET TableNames, \A n \in names : Cursor(s.db, n) # NoCursor
    PROVE  Filled(Inserted(s, names, t), s, names, S, L, t)
<1> DEFINE d == s.db
           p == Inserted(s, names, t)
           d2 == p.db
           samples(n) == FoldSamples(d, n, Cursor(d, n), Until(n, t))
           hours == FoldRequests(d, Cursor(d, Hourly), Until(Hourly, t))
<1>1. /\ DOMAIN p = {"db", "disk"} /\ p.disk = s.disk
      /\ DOMAIN d2 = DOMAIN d
      /\ d2.raw = d.raw /\ d2.requests = d.requests /\ d2.upto = d.upto
      /\ d2.hours = IF Hourly \in names THEN hours ELSE d.hours
      /\ d2.rolled = [n \in TableNames |-> IF n \in names THEN samples(n) ELSE d.rolled[n]]
  BY DEF Inserted, Sound, StoreTyped
<1>2. Sound(d, S, L, t) /\ \A n \in names : Cursor(d, n) # NoCursor
  OBVIOUS
<1>3. ASSUME NEW n \in names, NEW r \in S \cup d.raw,
             Past(d, n, Stamp(r)) \/ Stamp(r) < Until(n, t),
             Floor(Stamp(r), Width[n]) >= t - KeepRollup[n]
      PROVE  InBucket(d2, n, r)
  <2>1. d2.rolled[n] = samples(n)
    BY <1>1
  <2> HIDE DEF d, d2, p
  <2> QED BY <1>2, <1>3, <2>1, BucketsFilled DEF InBucket
<1>4. ASSUME Hourly \in names, NEW q \in d.requests \ L, NEW x \in S \cup d.raw,
             Past(d, Hourly, done[q]) \/ done[q] < Until(Hourly, t),
             Floor(Stamp(x), Width[Hourly]) <= done[q],
             Floor(done[q], Width[Hourly]) >= t - KeepRollup[Hourly]
      PROVE  InHour(d2, q)
  <2>1. d2.hours = hours
    BY <1>1, <1>4
  <2> HIDE DEF d, d2, p
  <2> QED BY <1>2, <1>4, <2>1, HoursFilled DEF InHour
<1> HIDE DEF d, d2, p, samples, hours
<1>5. StoreTyped(d2, t)
  BY <1>1, <1>2 DEF Sound, StoreTyped
<1>6. RowsKept(d2, S, t)
  BY <1>1, <1>2 DEF Sound, RowsKept, Folded
<1>7. BucketsWhole(d2, S, t)
  <2> SUFFICES ASSUME NEW n \in TableNames, NEW r \in S \cup d2.raw,
                      Past(d2, n, Stamp(r)),
                      Floor(Stamp(r), Width[n]) >= t - KeepRollup[n]
               PROVE  InBucket(d2, n, r)
    BY DEF BucketsWhole
  <2>1. Past(d, n, Stamp(r)) /\ r \in S \cup d.raw
    BY <1>1 DEF Past
  <2>2. CASE n \in names
    BY <1>3, <2>1, <2>2
  <2>3. CASE n \notin names
    BY <1>1, <1>2, <2>1, <2>3 DEF Sound, BucketsWhole, InBucket
  <2> QED BY <2>2, <2>3
<1>8. HoursWhole(d2, S, L, t)
  <2> SUFFICES ASSUME NEW q \in d2.requests \ L, NEW x \in S \cup d2.raw,
                      Past(d2, Hourly, done[q]), Floor(Stamp(x), Width[Hourly]) <= done[q],
                      Floor(done[q], Width[Hourly]) >= t - KeepRollup[Hourly]
               PROVE  InHour(d2, q)
    BY DEF HoursWhole
  <2>1. Past(d, Hourly, done[q]) /\ q \in d.requests \ L /\ x \in S \cup d.raw
    BY <1>1 DEF Past
  <2>2. CASE Hourly \in names
    BY <1>4, <2>1, <2>2
  <2>3. CASE Hourly \notin names
    BY <1>1, <1>2, <2>1, <2>3 DEF Sound, HoursWhole, InHour
  <2> QED BY <2>2, <2>3
<1>9. Sound(d2, S, L, t)
  BY <1>5, <1>6, <1>7, <1>8 DEF Sound
<1> QED BY <1>1, <1>3, <1>4, <1>9 DEF Filled, d, d2, p

(* The process's connection: what it reads, and what is committed.         *)
Both(s, S, L, t) ==
    /\ DOMAIN s = {"db", "disk"}
    /\ Sound(s.db, S, L, t) /\ Sound(s.disk, S, L, t)
    /\ s.disk.raw \subseteq s.db.raw
    /\ s.disk.upto = s.db.upto /\ s.disk.requests = s.db.requests

(* rollup() changes no raw row and no request, and moves cursors forward.  *)
Forward(d, d2) ==
    /\ d2.raw = d.raw /\ d2.requests = d.requests
    /\ \A n \in TableNames : \A x \in Nat : Past(d, n, x) => Past(d2, n, x)
    /\ \A n \in TableNames : Cursor(d, n) # NoCursor => Cursor(d2, n) # NoCursor

(* Of table n, every row from before the bucket that is not complete at t  *)
(* is folded.                                                              *)
CaughtUp(d, n, t) == \A r \in d.raw : ~Past(d, n, Stamp(r)) => Until(n, t) <= Stamp(r)

LEMMA TablesFolded ==
    ASSUME NEW s, NEW S, NEW L, NEW t \in Nat, Both(s, S, L, t), S \subseteq StoredRows,
           DoneInv(t), NEW names \in SUBSET TableNames
    PROVE  /\ Both(FoldTables(s, names, t), S, L, t)
           /\ Forward(s.db, FoldTables(s, names, t).db)
           /\ \A n \in names : CaughtUp(FoldTables(s, names, t).db, n, t)
<1> DEFINE due == {n \in names : Due(s, n, t)}
           d == s.db
           i == Inserted(s, due, t)
           p == CursorsSet(i, due, t)
           d2 == p.db
<1>0. /\ DOMAIN s = {"db", "disk"} /\ Sound(d, S, L, t)
      /\ \A r \in d.raw : Stamp(r) \in Nat
      /\ Hourly \in TableNames
  BY StampIs, WidthsAre DEF Both, Sound, StoreTyped
<1>1. \A n \in due : /\ n \in TableNames /\ Cursor(d, n) # NoCursor
                      /\ Until(n, t) > Cursor(d, n)
  BY DEF Due
<1>2. \A n \in TableNames : /\ Until(n, t) \in Int /\ Until(n, t) <= t
                             /\ Aligned(Until(n, t), Width[n])
  BY UntilIs
<1>3. \A n \in TableNames : Cursor(d, n) # NoCursor =>
         /\ Cursor(d, n) \in Int
         /\ d.upto[n] # NoCursor => Cursor(d, n) = d.upto[n]
         /\ d.upto[n] = NoCursor => \A r \in d.raw : Cursor(d, n) <= Floor(Stamp(r), Width[n])
  <2> HIDE DEF d
  <2> QED BY <1>0, CursorIs
<1>4. /\ DOMAIN i = {"db", "disk"}
      /\ DOMAIN i.db = DOMAIN d /\ i.db.raw = d.raw
      /\ i.db.requests = d.requests /\ i.db.upto = d.upto
      /\ Sound(i.db, S, L, t)
      /\ \A n \in due, r \in S \cup d.raw :
            /\ Past(d, n, Stamp(r)) \/ Stamp(r) < Until(n, t)
            /\ Floor(Stamp(r), Width[n]) >= t - KeepRollup[n]
            => InBucket(i.db, n, r)
      /\ Hourly \in due => \A q \in d.requests \ L, x \in S \cup d.raw :
            /\ Past(d, Hourly, done[q]) \/ done[q] < Until(Hourly, t)
            /\ Floor(Stamp(x), Width[Hourly]) <= done[q]
            /\ Floor(done[q], Width[Hourly]) >= t - KeepRollup[Hourly]
            => InHour(i.db, q)
  <2>1. due \in SUBSET TableNames /\ \A n \in due : Cursor(s.db, n) # NoCursor
    BY <1>1
  <2> HIDE DEF due
  <2>2. Filled(i, s, due, S, L, t)
    BY <1>0, <2>1, SoundInserted
  <2> HIDE DEF i
  <2> QED BY <2>2 DEF Filled
<1>5. /\ DOMAIN p = {"db", "disk"} /\ p.disk = d2
      /\ DOMAIN d2 = DOMAIN d /\ d2.raw = d.raw /\ d2.requests = d.requests
      /\ d2.hours = i.db.hours /\ d2.rolled = i.db.rolled
      /\ d2.upto = [n \in TableNames |-> IF n \in due THEN Until(n, t) ELSE d.upto[n]]
  <2> HIDE DEF i, due, d
  <2> QED BY <1>0, <1>4 DEF CursorsSet, Commit, Sound, StoreTyped
<1>6. d.upto \in [TableNames -> Int \cup {NoCursor}] /\ NoCursor \notin Int
  BY <1>0, WidthsAre DEF Sound, StoreTyped
<1> HIDE DEF due, d, i, p, d2
<1>7. /\ \A n \in TableNames : \A x \in Nat : Past(d, n, x) => Past(d2, n, x)
      /\ \A n \in TableNames : Cursor(d, n) # NoCursor => Cursor(d2, n) # NoCursor
  <2>1. ASSUME NEW n \in TableNames, NEW x \in Nat, Past(d, n, x) PROVE Past(d2, n, x)
    BY <1>1, <1>2, <1>3, <1>5, <1>6, <2>1 DEF Past
  <2>2. ASSUME NEW n \in TableNames, Cursor(d, n) # NoCursor PROVE Cursor(d2, n) # NoCursor
    BY <1>2, <1>5, <1>6, <2>2 DEF Cursor
  <2> QED BY <2>1, <2>2
<1>8. \A n \in due : CaughtUp(d2, n, t)
  BY <1>0, <1>1, <1>2, <1>5, <1>6 DEF CaughtUp, Past, d
<1>9. Sound(d2, S, L, t)
  <2>1. StoreTyped(d2, t)
    BY <1>0, <1>2, <1>5, <1>6 DEF Sound, StoreTyped
  <2>2. RowsKept(d2, S, t)
    <3> SUFFICES ASSUME NEW r \in S, r \notin d.raw
                 PROVE  Folded(d2, r) /\ Stamp(r) < t - KeepRaw
      BY <1>5 DEF RowsKept
    <3>1. Folded(d, r) /\ Stamp(r) < t - KeepRaw
      BY <1>0 DEF Sound, RowsKept
    <3>2. Stamp(r) \in Nat
      BY StampIs
    <3> QED BY <1>7, <3>1, <3>2 DEF Folded, Past
  <2>3. BucketsWhole(d2, S, t)
    <3> SUFFICES ASSUME NEW n \in TableNames, NEW r \in S \cup d2.raw,
                        Past(d2, n, Stamp(r)),
                        Floor(Stamp(r), Width[n]) >= t - KeepRollup[n]
                 PROVE  InBucket(i.db, n, r)
      BY <1>5 DEF BucketsWhole, InBucket
    <3>1. CASE n \in due
      BY <1>4, <1>5, <3>1 DEF Past
    <3>2. CASE n \notin due
      BY <1>4, <1>5, <3>2 DEF Past, Sound, BucketsWhole
    <3> QED BY <3>1, <3>2
  <2>4. HoursWhole(d2, S, L, t)
    <3> SUFFICES ASSUME NEW q \in d2.requests \ L, NEW x \in S \cup d2.raw,
                        Past(d2, Hourly, done[q]), Floor(Stamp(x), Width[Hourly]) <= done[q],
                        Floor(done[q], Width[Hourly]) >= t - KeepRollup[Hourly]
                 PROVE  InHour(i.db, q)
      BY <1>5 DEF HoursWhole, InHour
    <3>1. CASE Hourly \in due
      BY <1>0, <1>4, <1>5, <3>1 DEF Past
    <3>2. CASE Hourly \notin due
      BY <1>0, <1>4, <1>5, <3>2 DEF Past, Sound, HoursWhole
    <3> QED BY <3>1, <3>2
  <2> QED BY <2>1, <2>2, <2>3, <2>4 DEF Sound
<1>10. ASSUME NEW n \in names, n \notin due PROVE CaughtUp(d, n, t)
  <2> SUFFICES ASSUME NEW r \in d.raw, ~Past(d, n, Stamp(r)) PROVE Until(n, t) <= Stamp(r)
    BY DEF CaughtUp
  <2>1. n \in TableNames /\ Until(n, t) \in Int /\ Stamp(r) \in Nat
    BY <1>0, <1>2 DEF d
  <2>2. CASE d.upto[n] # NoCursor
    <3>1. Cursor(d, n) = d.upto[n] /\ d.upto[n] \in Int
      BY <1>6, <2>1, <2>2 DEF Cursor
    <3>2. ~(Until(n, t) > Cursor(d, n))
      BY <1>10, <2>2, <3>1 DEF due, Due, d
    <3> QED BY <2>1, <2>2, <3>1, <3>2 DEF Past
  <2>3. CASE d.upto[n] = NoCursor
    <3>1. Cursor(d, n) = Floor(Min({Stamp(x) : x \in d.raw}), Width[n])
      BY <2>3 DEF Cursor
    <3>2. {Stamp(x) : x \in d.raw} \in SUBSET Nat /\ {Stamp(x) : x \in d.raw} # {}
      BY <1>0 DEF d
    <3>3. Min({Stamp(x) : x \in d.raw}) \in Nat
      BY <3>2, SmallestOf
    <3>4. Width[n] \in Nat \ {0}
      BY <2>1, WidthsAre
    <3>5. Cursor(d, n) \in Int
      BY <3>1, <3>3, <3>4, FloorIs
    <3>6. Cursor(d, n) <= Floor(Stamp(r), Width[n])
      BY <1>3, <1>6, <2>1, <2>3, <3>5
    <3>7. Floor(Stamp(r), Width[n]) \in Int /\ Floor(Stamp(r), Width[n]) <= Stamp(r)
      <4> DEFINE w == Width[n]
                 x == Stamp(r)
      <4>1. w \in Nat \ {0} /\ x \in Nat
        BY <2>1, <3>4
      <4> HIDE DEF w, x
      <4>2. Floor(x, w) \in Int /\ Floor(x, w) <= x
        BY <4>1, FloorIs
      <4> QED BY <4>2 DEF w, x
    <3>8. ~(Until(n, t) > Cursor(d, n))
      BY <1>6, <1>10, <3>5 DEF due, Due, d
    <3> QED BY <2>1, <3>5, <3>6, <3>7, <3>8
  <2> QED BY <2>2, <2>3
<1>11. CASE due = {}
  <2>1. FoldTables(s, names, t) = s
    BY <1>11 DEF FoldTables, due
  <2> QED BY <1>10, <1>11, <2>1 DEF Forward, d
<1>12. CASE due # {}
  <2>1. FoldTables(s, names, t) = p
    BY <1>12 DEF FoldTables, due, p, i
  <2>2. Forward(d, d2)
    BY <1>5, <1>7 DEF Forward
  <2>3. ASSUME NEW n \in names, n \notin due PROVE CaughtUp(d2, n, t)
    <3>1. CaughtUp(d, n, t) /\ n \in TableNames
      BY <1>10, <2>3
    <3> QED BY <1>5, <3>1, <2>3 DEF CaughtUp, Past
  <2>4. Both(p, S, L, t)
    BY <1>5, <1>9 DEF Both, d2
  <2> QED BY <1>8, <2>1, <2>2, <2>3, <2>4 DEF d, d2
<1> QED BY <1>11, <1>12

(* rollup() raised on the way.                                             *)
LEMMA TablesFailed ==
    ASSUME NEW s, NEW S, NEW L, NEW t \in Nat, Both(s, S, L, t), S \subseteq StoredRows,
           DoneInv(t), NEW p \in RollupFails(s, t)
    PROVE  Both(p, S, L, t) /\ Forward(s.db, p.db)
<1>1. PICK i \in DOMAIN Tables :
         p = IF Due(s, Tables[i], t) THEN Inserted(Reached(s, t, i), {Tables[i]}, t)
             ELSE Reached(s, t, i)
  BY DEF RollupFails
<1> DEFINE n == Tables[i]
           names == {Tables[j] : j \in 1 .. i - 1}
           q == Reached(s, t, i)
<1>2. n \in TableNames /\ names \in SUBSET TableNames
  <2>1. Tables \in Seq(TableNames)
    BY HistoryAssumption
  <2>2. DOMAIN Tables = 1 .. Len(Tables)
    BY <2>1
  <2> QED BY <2>2 DEF TableNames
<1>3. Both(q, S, L, t) /\ Forward(s.db, q.db)
  <2> HIDE DEF names
  <2> QED BY <1>2, TablesFolded DEF Reached, names
<1> HIDE DEF n, q
<1>4. CASE ~Due(s, n, t)
  BY <1>1, <1>3, <1>4 DEF n, q
<1>5. CASE Due(s, n, t)
  <2>1. p = Inserted(q, {n}, t)
    BY <1>1, <1>5 DEF n, q
  <2>2. Cursor(q.db, n) # NoCursor
    BY <1>2, <1>3, <1>5 DEF Due, Forward
  <2>3. Filled(p, q, {n}, S, L, t)
    BY <1>2, <1>3, <2>1, <2>2, SoundInserted DEF Both
  <2> QED BY <1>3, <2>3 DEF Filled, Both, Forward, Past, Cursor
<1> QED BY <1>4, <1>5

Kept(p, s, S, L, t, f) ==
    /\ Both(p, S, L, t)
    /\ p.db.raw \subseteq s.db.raw /\ p.db.requests \subseteq s.db.requests
    /\ \A n \in TableNames : \A x \in Nat : Past(s.db, n, x) => Past(p.db, n, x)
    /\ \A r \in s.db.raw \ p.db.raw :
          Stamp(r) < t - KeepRaw /\ t - loop.prune > PruneEvery
    /\ RanRollup(t, f) => \A n \in TableNames, r \in s.db.raw :
          ~Past(p.db, n, Stamp(r)) => Until(n, t) <= Stamp(r)

(* What rollup() and prune() leave of s, in which S stands for the rows    *)
(* ever stored: the rows S2 that were not lost are whole, and a row that   *)
(* was deleted was old, and folded if rollup() ran to its end.             *)
LEMMA Maintained ==
    ASSUME NEW s, NEW S, NEW L, NEW t \in Nat, Both(s, S, L, t), S \subseteq StoredRows,
           DoneInv(t), NEW f, NEW p \in Maintain(s, t, f),
           loop.rollup \in Int, loop.prune \in Int,
           NEW S2 \in SUBSET S,
           \A r \in S2 : Folded(s.db, r) \/ Folded(p.db, r) \/ r \in p.db.raw
    PROVE  Kept(p, s, S2, L, t, f)
<1> DEFINE rolled == IF t - loop.rollup <= RollupEvery THEN {s}
                     ELSE IF f = "rollup" THEN RollupFails(s, t) ELSE {Rollup(s, t)}
<1>0. RollupEvery \in Nat
  BY WidthsAre
<1>1. PICK q \in rolled :
         p = IF t - loop.prune > PruneEvery /\ f # "prune" THEN Prune(q, t) ELSE q
  BY DEF Maintain
<1>2. /\ Both(q, S, L, t) /\ Forward(s.db, q.db)
      /\ RanRollup(t, f) => \A n \in TableNames : CaughtUp(q.db, n, t)
  <2>1. CASE t - loop.rollup <= RollupEvery
    BY <1>0, <2>1 DEF Forward, RanRollup
  <2>2. CASE ~(t - loop.rollup <= RollupEvery) /\ f = "rollup"
    BY <2>2, TablesFailed DEF RanRollup
  <2>3. CASE ~(t - loop.rollup <= RollupEvery) /\ f # "rollup"
    <3>1. q = FoldTables(s, TableNames, t)
      BY <2>3 DEF Rollup
    <3> QED BY <3>1, TablesFolded
  <2> QED BY <2>1, <2>2, <2>3
<1> HIDE DEF rolled
<1>3. \A r \in S \cup s.db.raw : Stamp(r) \in Nat
  BY StampIs DEF Both, Sound, StoreTyped
<1>4. KeepRaw \in Nat
  BY WidthsAre
<1>5. ASSUME p.db.upto = q.db.upto
      PROVE  /\ \A n \in TableNames : \A x \in Nat : Past(s.db, n, x) => Past(p.db, n, x)
             /\ RanRollup(t, f) => \A n \in TableNames, r \in s.db.raw :
                    ~Past(p.db, n, Stamp(r)) => Until(n, t) <= Stamp(r)
  BY <1>2, <1>5 DEF Past, Forward, CaughtUp
<1>6. CASE p = q
  <2>1. Sound(p.db, S2, L, t) /\ Sound(p.disk, S2, L, t)
    BY <1>2, <1>6, SoundLater DEF Both
  <2>2. Both(p, S2, L, t)
    BY <1>2, <1>6, <2>1 DEF Both
  <2> QED BY <1>2, <1>5, <1>6, <2>2 DEF Kept, Forward
<1>7. CASE p = Prune(q, t) /\ t - loop.prune > PruneEvery
  <2>1. \A r \in S2 : Folded(q.db, r) \/ r \in p.db.raw
    <3>1. p.db.upto = q.db.upto
      <4>1. /\ DOMAIN q = {"db", "disk"}
            /\ DOMAIN q.db = {"raw", "requests", "hours", "rolled", "upto"}
        BY <1>2 DEF Both, Sound, StoreTyped
      <4> QED BY <1>7, <4>1 DEF Prune, Commit
    <3>2. ASSUME NEW r \in S2, Folded(s.db, r) PROVE Folded(q.db, r)
      BY <1>2, <1>3, <3>2 DEF Folded, Forward, Past
    <3> QED BY <3>1, <3>2 DEF Folded
  <2>2. Pruned(p, q, S2, L, t)
    <3>1. Sound(q.db, S, L, t) /\ DOMAIN q = {"db", "disk"}
      BY <1>2 DEF Both
    <3> QED BY <1>7, <2>1, <3>1, SoundPruned
  <2>3. Both(p, S2, L, t)
    BY <2>2 DEF Both, Pruned
  <2> QED BY <1>2, <1>3, <1>4, <1>5, <1>7, <2>2, <2>3 DEF Kept, Pruned, Forward
<1> QED BY <1>1, <1>6, <1>7

-----------------------------------------------------------------------------
(* The inductive invariant.                                                *)
StoreInv == Both([db |-> db, disk |-> disk], stored \ lost, late, time)

RowsInv ==
    /\ disk.raw \subseteq stored /\ stored \subseteq StoredRows
    /\ \A r \in stored \cup db.raw : r \subseteq up
    /\ \A x \in up : x \in Nat /\ x <= time

WindowInv ==
    window \subseteq up /\ IsFiniteSet(window) /\ Cardinality(window) < PersistEvery

LoopInv ==
    /\ safe \in BOOLEAN /\ loop.rollup \in Int /\ loop.prune \in Int /\ loop.prune <= time
    /\ safe => time - loop.prune <= PruneEvery

(* While prune() may count on a rollup() since the last one: what is not   *)
(* folded is young.                                                        *)
YoungInv ==
    safe => \A n \in TableNames, r \in db.raw :
        ~Past(db, n, Stamp(r)) => loop.prune - Lag - Width[n] < Stamp(r)

HistInv ==
    /\ time \in Nat /\ DoneInv(time)
    /\ StoreInv /\ RowsInv /\ WindowInv /\ LoopInv /\ YoungInv

(* The row of a window that is full.                                       *)
LEMMA RowIs ==
    ASSUME HistInv
    PROVE  /\ window \cup {time + 1} \in StoredRows
           /\ Stamp(window \cup {time + 1}) = time + 1
           /\ IsFiniteSet(window \cup {time + 1})
           /\ Cardinality(window \cup {time + 1}) = Cardinality(window) + 1
           /\ Cardinality(window) \in Nat
<1> DEFINE row == window \cup {time + 1}
           t == time + 1
<1>1. t \in Nat /\ \A x \in window : x \in Nat /\ x < t
  BY DEF HistInv, RowsInv, WindowInv
<1>2. IsFiniteSet(window) /\ t \notin window
  BY <1>1 DEF HistInv, WindowInv
<1>3. /\ IsFiniteSet(row) /\ Cardinality(row) = Cardinality(window) + 1
      /\ Cardinality(window) \in Nat
  BY <1>2, FS_AddElement, FS_CardinalityType
<1>4. \A x \in row : x \in Nat /\ x <= t
  BY <1>1
<1>5. Stamp(row) = t
  <2> HIDE DEF t
  <2>1. t \in row
    BY DEF t
  <2>2. \A m \in row : (\A x \in row : m >= x) => m = t
    BY <1>1, <1>4, <2>1
  <2>3. \A x \in row : t >= x
    BY <1>1, <1>4
  <2> HIDE DEF row
  <2> QED BY <2>1, <2>2, <2>3 DEF Stamp, Max
<1> QED BY <1>3, <1>4, <1>5 DEF StoredRows

(* What the poll leaves.                                                   *)
LateBy(p) == late \cup {q \in p.db.requests \ db.requests : Past(db, Hourly, done[q])}

PolledOf(p, t) ==
    /\ Both(p, stored \ lost, LateBy(p), t)
    /\ p.db.upto = db.upto /\ db.requests \subseteq p.db.requests
    /\ db.raw \subseteq p.db.raw /\ p.db.raw \subseteq db.raw \cup {window \cup {t}}

LEMMA PolledIs ==
    ASSUME HistInv, NEW f, NEW p \in Polled(time + 1, f)
    PROVE  PolledOf(p, time + 1)
<1> DEFINE t == time + 1
           S == stored \ lost
           s0 == [db |-> db, disk |-> disk]
           reported == IF f = "agent" THEN {} ELSE DOMAIN done
           s == RecordRequests(s0, reported)
           row == window \cup {t}
<1> SUFFICES PolledOf(p, t)
  OBVIOUS
<1>1. t \in Nat /\ time \in Nat /\ time <= t /\ DoneInv(time) /\ DoneInv(t)
  BY DEF HistInv, DoneInv
<1>2. S \subseteq StoredRows
  BY DEF HistInv, RowsInv
<1>3. /\ Both(s0, S, late, t) /\ s0.db = db /\ s0.disk = disk
      /\ DOMAIN db = {"raw", "requests", "hours", "rolled", "upto"}
  <2>1. Both(s0, S, late, time)
    BY DEF HistInv, StoreInv
  <2>2. Sound(s0.db, S, late, t) /\ Sound(s0.disk, S, late, t)
    <3> HIDE DEF s0, S, t
    <3> QED BY <1>1, <1>2, <2>1, SoundLater DEF Both
  <2>3. s0.db = db /\ s0.disk = disk
    OBVIOUS
  <2> HIDE DEF s0, S, t
  <2> QED BY <2>1, <2>2, <2>3 DEF Both, Sound, StoreTyped
<1>4. row \in StoredRows /\ Stamp(row) = t
  BY RowIs
<1> HIDE DEF s0, S, t
<1>5. PolledOf(s, t)
  <2>1. CASE reported = {}
    <3>1. s = s0
      BY <2>1 DEF RecordRequests
    <3>2. LateBy(s) = late
      BY <1>3, <3>1 DEF LateBy
    <3> QED BY <1>3, <3>1, <3>2 DEF PolledOf, S
  <2>2. CASE reported # {}
    <3> DEFINE d2 == [db EXCEPT !.requests = @ \cup reported]
    <3>1. s = Commit([s0 EXCEPT !.db.requests = @ \cup reported])
      BY <2>2 DEF RecordRequests
    <3>2. DOMAIN s = {"db", "disk"} /\ s.db = d2 /\ s.disk = d2
      BY <1>3, <3>1 DEF Commit, s0
    <3>3. d2.requests = db.requests \cup reported /\ d2.raw = db.raw /\ d2.upto = db.upto
      BY <1>3
    <3>4. reported \in SUBSET DOMAIN done
      OBVIOUS
    <3>5. Sound(d2, S, LateBy(s), t)
      <4>1. \A q \in reported \ db.requests : q \in LateBy(s) \/ ~Past(db, Hourly, done[q])
        BY <3>2, <3>3 DEF LateBy
      <4>2. late \subseteq LateBy(s) /\ Sound(db, S, late, t)
        BY <1>3 DEF LateBy, Both
      <4> HIDE DEF reported, s
      <4> QED BY <1>1, <3>4, <4>1, <4>2, SoundWithRequests
    <3> HIDE DEF s, d2
    <3> QED BY <3>2, <3>3, <3>5 DEF PolledOf, Both, S
  <2> QED BY <2>1, <2>2
<1>6. p \in IF Cardinality(row) < PersistEvery THEN {s}
           ELSE IF f = "write" THEN WriteFails(s, row) ELSE {Write(s, row)}
  BY DEF Polled, s0, t
<1> HIDE DEF s, row
<1>7. CASE p = s
  BY <1>5, <1>7
<1>8. CASE p # s
  <2> DEFINE d2 == [s.db EXCEPT !.raw = @ \cup {row}]
  <2>1. p = Write(s, row) \/ p = [s EXCEPT !.db.raw = @ \cup {row}]
    BY <1>6, <1>8 DEF WriteFails
  <2>2. /\ DOMAIN s = {"db", "disk"}
        /\ DOMAIN s.db = {"raw", "requests", "hours", "rolled", "upto"}
    BY <1>5 DEF PolledOf, Both, Sound, StoreTyped
  <2>3. DOMAIN p = {"db", "disk"} /\ p.db = d2 /\ p.disk \in {d2, s.disk}
    BY <2>1, <2>2 DEF Write, Commit
  <2>4. d2.requests = s.db.requests /\ d2.raw = s.db.raw \cup {row} /\ d2.upto = s.db.upto
    BY <2>2
  <2>5. Sound(d2, S, LateBy(s), t)
    <3>1. Sound(s.db, S, LateBy(s), t)
      BY <1>5 DEF PolledOf, Both, S
    <3> QED BY <1>1, <1>4, <3>1, SoundWithRow
  <2> HIDE DEF d2
  <2>6. LateBy(p) = LateBy(s)
    BY <2>3, <2>4 DEF LateBy
  <2> QED BY <1>5, <2>3, <2>4, <2>5, <2>6 DEF PolledOf, Both, S, row
<1> QED BY <1>7, <1>8

-----------------------------------------------------------------------------
(* Raw rows are kept for longer than it takes until the next rollup() that *)
(* runs to its end has folded them.                                        *)
KeepsEnough == \A n \in TableNames : KeepRaw >= PruneEvery + 1 + Lag + Width[n]

IterationOf(p, S2, t, f) ==
    /\ PolledOf(p, t)
    /\ Kept([db |-> db', disk |-> disk'], p, S2, LateBy(p), t, f)
    /\ stored' \ lost' \subseteq S2 \cup disk'.raw
    /\ S2 \subseteq StoredRows /\ t \in Nat /\ DoneInv(t)

LEMMA IterationIs ==
    ASSUME HistInv, NEW f, Iterate(f)
    PROVE  \E p, S2 : IterationOf(p, S2, time + 1, f)
<1> DEFINE t == time + 1
           S == stored \ lost
<1>1. t \in Nat /\ DoneInv(t)
  BY DEF HistInv, DoneInv
<1>2. PICK p \in Polled(t, f) : \E s \in Maintain(p, t, f) : db' = s.db /\ disk' = s.disk
  BY DEF Iterate
<1>3. PICK s \in Maintain(p, t, f) : db' = s.db /\ disk' = s.disk
  BY <1>2
<1>4. PolledOf(p, t)
  BY PolledIs
<1>5. Both(p, S, LateBy(p), t) /\ S \subseteq StoredRows
  BY <1>4 DEF PolledOf, HistInv, RowsInv
<1> DEFINE S2 == {r \in S : Folded(p.db, r) \/ Folded(s.db, r) \/ r \in s.db.raw}
<1>6. Kept(s, p, S2, LateBy(p), t, f)
  <2>1. /\ S2 \in SUBSET S /\ loop.rollup \in Int /\ loop.prune \in Int
        /\ \A r \in S2 : Folded(p.db, r) \/ Folded(s.db, r) \/ r \in s.db.raw
    BY DEF HistInv, LoopInv
  <2> HIDE DEF S2, S, t
  <2> QED BY <1>1, <1>3, <1>5, <2>1, Maintained
<1>7. Kept([db |-> db', disk |-> disk'], p, S2, LateBy(p), t, f)
  <2> HIDE DEF S2, S, t
  <2> QED BY <1>3, <1>6 DEF Kept, Both
<1>8. stored' \ lost' \subseteq S2 \cup disk'.raw
  <2> SUFFICES ASSUME NEW r \in stored' \ lost', r \notin disk'.raw
               PROVE  r \in S2
    OBVIOUS
  <2>1. r \in S /\ (r \in db.raw \ db'.raw => Folded(db', r))
    BY DEF Iterate
  <2>2. CASE r \notin db.raw
    <3>1. Folded(db, r)
      BY <2>1, <2>2 DEF HistInv, StoreInv, Both, Sound, RowsKept
    <3> QED BY <1>4, <2>1, <3>1 DEF PolledOf, Folded
  <2>3. CASE r \in db.raw
    BY <1>3, <2>1, <2>3
  <2> QED BY <2>2, <2>3
<1> HIDE DEF S2
<1>9. S2 \subseteq StoredRows
  BY <1>5 DEF S2
<1>10. IterationOf(p, S2, t, f)
  BY <1>1, <1>4, <1>7, <1>8, <1>9 DEF IterationOf
<1> QED BY <1>10

(* The store and the rows after an iteration.                              *)
LEMMA IterateKeepsStore ==
    ASSUME HistInv, NEW f, Iterate(f)
    PROVE  /\ (time \in Nat)' /\ DoneInv(time)' /\ StoreInv' /\ RowsInv' /\ WindowInv'
<1> DEFINE t == time + 1
<1>1. PICK p, S2 : IterationOf(p, S2, t, f)
  BY IterationIs
<1>2. /\ time' = t /\ done' = done /\ up' = up \cup {t} /\ stored' = stored \cup disk'.raw
      /\ late' = late \cup {r \in db'.requests \ db.requests :
                                 db.upto[Hourly] # NoCursor /\ done[r] < db.upto[Hourly]}
      /\ window' = IF Cardinality(window) + 1 < PersistEvery THEN window \cup {t} ELSE {}
  BY DEF Iterate
<1>3. PolledOf(p, t) /\ t \in Nat /\ DoneInv(t) /\ time \in Nat
  BY <1>1 DEF IterationOf, HistInv
<1>4. /\ Both([db |-> db', disk |-> disk'], S2, LateBy(p), t) /\ S2 \subseteq StoredRows
      /\ stored' \ lost' \subseteq S2 \cup disk'.raw
      /\ db'.raw \subseteq db.raw \cup {window \cup {t}} /\ db'.requests \subseteq p.db.requests
  BY <1>1 DEF IterationOf, Kept, PolledOf
<1>5. /\ Sound(db', S2, LateBy(p), t) /\ Sound(disk', S2, LateBy(p), t)
      /\ disk'.raw \subseteq db'.raw /\ disk'.upto = db'.upto
      /\ disk'.requests = db'.requests
  BY <1>4 DEF Both
<1>6. db'.requests \cap LateBy(p) \subseteq late'
  BY <1>2, <1>4 DEF LateBy, Past
<1>7. StoreInv'
  <2> DEFINE S3 == stored' \ lost'
             L3 == late'
             d2 == db'
             k2 == disk'
  <2>1. /\ S3 \in SUBSET (S2 \cup d2.raw) /\ S3 \in SUBSET (S2 \cup k2.raw)
        /\ d2.requests \cap LateBy(p) \subseteq L3 /\ k2.requests \cap LateBy(p) \subseteq L3
    BY <1>4, <1>5, <1>6
  <2>2. Sound(d2, S2, LateBy(p), t) /\ Sound(k2, S2, LateBy(p), t)
    BY <1>5
  <2>3. Sound(d2, S3, L3, t) /\ Sound(k2, S3, L3, t)
    <3>1. t <= t
      BY <1>3
    <3> HIDE DEF S3, L3, d2, k2, t
    <3> QED BY <1>3, <1>4, <2>1, <2>2, <3>1, SoundLater
  <2>4. Both([db |-> db', disk |-> disk'], stored' \ lost', late', time')
    BY <1>2, <1>5, <2>3 DEF Both
  <2> QED BY <1>2, <2>4 DEF StoreInv, Both, Sound, StoreTyped, RowsKept, BucketsWhole,
             HoursWhole, InBucket, InHour, Past, Folded
<1>8. window \subseteq up /\ IsFiniteSet(window) /\ Cardinality(window) < PersistEvery
  BY DEF HistInv, WindowInv
<1>9. /\ window \cup {t} \in StoredRows /\ IsFiniteSet(window \cup {t})
      /\ Cardinality(window \cup {t}) = Cardinality(window) + 1
  BY RowIs
<1>10. RowsInv'
  <2>1. db'.raw \subseteq StoredRows /\ disk'.raw \subseteq StoredRows
    BY <1>5 DEF Sound, StoreTyped
  <2>2. RowsInv
    BY DEF HistInv
  <2> HIDE DEF t
  <2>3. \A x \in up' : x \in Nat /\ x <= t
    <3>1. t = time + 1
      BY DEF t
    <3> QED BY <1>2, <1>3, <2>2, <3>1 DEF RowsInv
  <2>4. \A r \in stored' \cup db'.raw : r \subseteq up'
    BY <1>2, <1>4, <1>5, <1>8, <2>2 DEF RowsInv
  <2> QED BY <1>2, <2>1, <2>2, <2>3, <2>4 DEF RowsInv
<1>11. WindowInv'
  <2>1. PersistEvery \in Nat \ {0}
    BY WidthsAre
  <2>2. IsFiniteSet({}) /\ Cardinality({}) = 0
    BY FS_EmptySet
  <2> HIDE DEF t
  <2> QED BY <1>2, <1>8, <1>9, <2>1, <2>2 DEF WindowInv
<1>12. DoneInv(time)'
  BY <1>2, <1>3 DEF DoneInv
<1> QED BY <1>2, <1>3, <1>7, <1>10, <1>11, <1>12


(* The timers, and the rows that are not folded.                           *)
LEMMA IterateKeepsYoung ==
    ASSUME HistInv, NEW f, Iterate(f)
    PROVE  LoopInv' /\ YoungInv'
<1> DEFINE t == time + 1
<1>1. PICK p, S2 : IterationOf(p, S2, t, f)
  BY IterationIs
<1>2. /\ time' = t
      /\ loop' = [rollup |-> IF t - loop.rollup > RollupEvery THEN t ELSE loop.rollup,
                  prune |-> IF t - loop.prune > PruneEvery THEN t ELSE loop.prune]
      /\ safe' = (t - loop.prune <= PruneEvery /\ (safe \/ RanRollup(t, f)))
  BY DEF Iterate
<1>3. /\ time \in Nat /\ t \in Nat /\ time <= t /\ safe \in BOOLEAN
      /\ loop.rollup \in Int /\ loop.prune \in Int /\ loop.prune <= time
      /\ PruneEvery \in Nat
  BY WidthsAre DEF HistInv, LoopInv
<1>4. LoopInv'
  <2> HIDE DEF t
  <2> QED BY <1>2, <1>3 DEF LoopInv
<1>5. YoungInv'
  <2> SUFFICES ASSUME safe', NEW n \in TableNames, NEW r \in db'.raw, ~Past(db', n, Stamp(r))
               PROVE  loop'.prune - Lag - Width[n] < Stamp(r)
    BY DEF YoungInv, Past
  <2>1. loop'.prune = loop.prune
    <3>1. t - loop.prune <= PruneEvery
      BY <1>2
    <3> HIDE DEF t
    <3>2. ~(t - loop.prune > PruneEvery)
      BY <1>3, <3>1
    <3> QED BY <1>2, <3>2
  <2>2. /\ r \in p.db.raw /\ p.db.raw \subseteq db.raw \cup {window \cup {t}}
        /\ Stamp(r) \in Nat
        /\ \A x \in Nat : Past(db, n, x) => Past(db', n, x)
        /\ RanRollup(t, f) => Until(n, t) <= Stamp(r)
    <3>1. r \in StoredRows
      BY <1>1 DEF IterationOf, Kept, Both, Sound, StoreTyped
    <3>2. Stamp(r) \in Nat
      BY <3>1, StampIs
    <3> QED BY <1>1, <3>2 DEF IterationOf, PolledOf, Kept, Past
  <2>3. Lag \in Nat /\ Width[n] \in Nat \ {0}
    BY WidthsAre
  <2>4. CASE RanRollup(t, f)
    <3>1. Until(n, t) \in Int /\ t - Lag - Width[n] < Until(n, t)
      BY <1>3, UntilIs
    <3> HIDE DEF t
    <3> QED BY <1>3, <2>1, <2>2, <2>3, <2>4, <3>1
  <2>5. CASE ~RanRollup(t, f)
    <3>1. safe
      BY <1>2, <2>5
    <3>2. CASE r \in db.raw
      BY <2>1, <2>2, <3>1, <3>2 DEF HistInv, YoungInv
    <3>3. CASE r = window \cup {t}
      <4>1. Stamp(r) = t
        BY <3>3, RowIs
      <4> HIDE DEF t
      <4> QED BY <1>3, <2>1, <2>3, <4>1
    <3> QED BY <2>2, <3>2, <3>3
  <2> QED BY <2>4, <2>5
<1> QED BY <1>4, <1>5

(* A row that was lost was still to be folded, and no rollup() of this     *)
(* time or since the last prune() ran to its end.                          *)
LEMMA IterateKeepsRows ==
    ASSUME HistInv, NEW f, Iterate(f), KeepsEnough, lost' # lost
    PROVE  ~safe /\ ~RanRollup(time', fault')
<1> DEFINE t == time + 1
<1>1. PICK p, S2 : IterationOf(p, S2, t, f)
  BY IterationIs
<1>2. /\ time' = t /\ fault' = f
      /\ lost' = lost \cup {r \in db.raw \ db'.raw : ~Folded(db', r)}
  BY DEF Iterate
<1>3. PICK r \in db.raw \ db'.raw : ~Folded(db', r)
  BY <1>2
<1>4. PICK n \in TableNames : ~Past(db', n, Stamp(r))
  BY <1>3 DEF Folded, Past
<1>5. /\ time \in Nat /\ t \in Nat /\ t = time + 1
      /\ loop.prune \in Int /\ PruneEvery \in Nat /\ Lag \in Nat /\ Width[n] \in Nat
      /\ KeepRaw \in Nat /\ KeepRaw >= PruneEvery + 1 + Lag + Width[n]
  BY WidthsAre DEF HistInv, LoopInv, KeepsEnough
<1>6. /\ r \in p.db.raw \ db'.raw /\ Stamp(r) \in Nat
      /\ Stamp(r) < t - KeepRaw
      /\ ~Past(db, n, Stamp(r))
      /\ RanRollup(t, f) => Until(n, t) <= Stamp(r)
  <2>1. r \in p.db.raw \ db'.raw
    BY <1>1, <1>3 DEF IterationOf, PolledOf
  <2>2. r \in StoredRows
    BY <1>3 DEF HistInv, StoreInv, Both, Sound, StoreTyped
  <2>3. Stamp(r) \in Nat
    BY <2>2, StampIs
  <2> QED BY <1>1, <1>4, <2>1, <2>3 DEF IterationOf, PolledOf, Kept, Past
<1>7. ~RanRollup(t, f)
  <2>1. Until(n, t) \in Int /\ t - Lag - Width[n] < Until(n, t)
    BY <1>5, UntilIs
  <2> HIDE DEF t
  <2> QED BY <1>5, <1>6, <2>1
<1>8. ~safe
  <2> SUFFICES ASSUME safe PROVE FALSE
    OBVIOUS
  <2>1. /\ time - loop.prune <= PruneEvery
        /\ loop.prune - Lag - Width[n] < Stamp(r)
    BY <1>3, <1>6 DEF HistInv, LoopInv, YoungInv
  <2> HIDE DEF t
  <2> QED BY <1>5, <1>6, <2>1
<1> QED BY <1>2, <1>7, <1>8

LEMMA RestartKeeps ==
    ASSUME HistInv, NEW gap \in DownFor, StoreRestart(gap)
    PROVE  HistInv' /\ lost' = lost
<1> DEFINE S == stored \ lost
           t2 == time + gap
<1>1. /\ time' = t2 /\ window' = {} /\ db' = disk /\ disk' = disk /\ done' = done
      /\ stored' = stored /\ lost' = lost /\ late' = late /\ up' = up
      /\ loop' = [rollup |-> -RollupEvery, prune |-> -PruneEvery] /\ safe' = FALSE
  BY DEF StoreRestart
<1>2. /\ time \in Nat /\ gap \in Nat /\ t2 \in Nat /\ time <= t2
      /\ PruneEvery \in Nat \ {0} /\ RollupEvery \in Nat /\ PersistEvery \in Nat \ {0}
  BY HistoryAssumption DEF HistInv
<1>3. /\ Sound(disk, S, late, time) /\ S \subseteq StoredRows /\ DoneInv(time)
      /\ disk.raw \subseteq db.raw
  BY DEF HistInv, StoreInv, RowsInv, Both
<1>4. DoneInv(time)'
  <2> HIDE DEF t2
  <2> QED BY <1>1, <1>2, <1>3 DEF DoneInv
<1>5. StoreInv'
  <2>1. Sound(disk, S, late, t2)
    <3>1. S \in SUBSET (S \cup disk.raw) /\ disk.requests \cap late \subseteq late
      OBVIOUS
    <3> HIDE DEF S, t2
    <3> QED BY <1>2, <1>3, <3>1, SoundLater
  <2>2. Both([db |-> db', disk |-> disk'], stored' \ lost', late', time')
    BY <1>1, <2>1 DEF Both
  <2> QED BY <1>1, <2>2 DEF StoreInv, Both, Sound, StoreTyped, RowsKept, BucketsWhole,
             HoursWhole, InBucket, InHour, Past, Folded
<1>6. RowsInv'
  <2> HIDE DEF t2
  <2>1. RowsInv
    BY DEF HistInv
  <2> QED BY <1>1, <1>2, <1>3, <2>1 DEF RowsInv
<1>7. WindowInv'
  BY <1>1, <1>2, FS_EmptySet DEF WindowInv
<1>8. LoopInv'
  <2> HIDE DEF t2
  <2>1. loop'.prune = -PruneEvery /\ loop'.rollup = -RollupEvery
    BY <1>1
  <2>2. -PruneEvery \in Int /\ -PruneEvery <= t2 /\ -RollupEvery \in Int
    BY <1>2
  <2>3. safe' \in BOOLEAN /\ ~safe' /\ time' = t2
    BY <1>1
  <2> QED BY <2>1, <2>2, <2>3 DEF LoopInv
<1>9. YoungInv'
  BY <1>1 DEF YoungInv
<1> QED BY <1>1, <1>2, <1>4, <1>5, <1>6, <1>7, <1>8, <1>9 DEF HistInv

LEMMA CompleteKeeps ==
    ASSUME HistInv, NEW q \in Requests, Complete(q)
    PROVE  HistInv' /\ lost' = lost
<1>1. /\ q \notin DOMAIN done /\ time' = time
      /\ done' = [x \in DOMAIN done \cup {q} |-> IF x = q THEN time ELSE done[x]]
      /\ window' = window /\ db' = db /\ disk' = disk /\ loop' = loop /\ stored' = stored
      /\ lost' = lost /\ late' = late /\ up' = up /\ safe' = safe
  BY DEF Complete
<1>2. /\ DOMAIN done \subseteq DOMAIN done' /\ \A x \in DOMAIN done : done'[x] = done[x]
  BY <1>1
<1>3. time \in Nat /\ DoneInv(time)'
  BY <1>1 DEF HistInv, DoneInv
<1>4. ASSUME NEW d, NEW S, NEW L, Sound(d, S, L, time)
      PROVE  /\ StoreTyped(d, time)' /\ RowsKept(d, S, time)' /\ BucketsWhole(d, S, time)'
             /\ HoursWhole(d, S, L, time)'
  <2>1. StoreTyped(d, time)'
    BY <1>1, <1>2, <1>4 DEF Sound, StoreTyped
  <2>2. RowsKept(d, S, time)' /\ BucketsWhole(d, S, time)'
    BY <1>1, <1>4 DEF Sound, RowsKept, BucketsWhole, InBucket, Past, Folded
  <2>3. HoursWhole(d, S, L, time)'
    BY <1>1, <1>2, <1>4 DEF Sound, StoreTyped, HoursWhole, InHour, Past
  <2> QED BY <2>1, <2>2, <2>3
<1>5. StoreInv'
  BY <1>1, <1>4 DEF HistInv, StoreInv, Both, Sound
<1>6. RowsInv' /\ WindowInv' /\ LoopInv' /\ YoungInv'
  BY <1>1 DEF HistInv, RowsInv, WindowInv, LoopInv, YoungInv, Past
<1> QED BY <1>1, <1>3, <1>5, <1>6 DEF HistInv

LEMMA HistoryInitHolds == HistoryInit => HistInv
<1> SUFFICES ASSUME HistoryInit PROVE HistInv
  OBVIOUS
<1>1. /\ time = 0 /\ window = {} /\ db = NewStore /\ disk = NewStore /\ done = <<>>
      /\ loop.rollup = -RollupEvery /\ loop.prune = -PruneEvery
      /\ stored = {} /\ lost = {} /\ late = {} /\ up = {} /\ safe = FALSE
  BY DEF HistoryInit
<1>2. PruneEvery \in Nat /\ RollupEvery \in Nat /\ PersistEvery \in Nat \ {0}
  BY WidthsAre
<1>3. /\ DOMAIN NewStore = {"raw", "requests", "hours", "rolled", "upto"}
      /\ NewStore.raw = {} /\ NewStore.requests = {}
      /\ NewStore.upto = [n \in TableNames |-> NoCursor]
  BY DEF NewStore
<1>4. Sound(NewStore, {}, {}, 0)
  <2>1. StoreTyped(NewStore, 0)
    BY <1>3 DEF StoreTyped
  <2> QED BY <1>3, <2>1 DEF Sound, RowsKept, BucketsWhole, HoursWhole
<1>5. StoreInv
  <2>1. stored \ lost = {}
    BY <1>1
  <2> QED BY <1>1, <1>4, <2>1 DEF StoreInv, Both
<1>6. RowsInv
  BY <1>1, <1>3 DEF RowsInv
<1>7. WindowInv
  BY <1>1, <1>2, FS_EmptySet DEF WindowInv
<1>8. LoopInv
  <2>1. safe \in BOOLEAN /\ ~safe
    BY <1>1
  <2> QED BY <1>1, <1>2, <2>1 DEF LoopInv
<1>9. YoungInv
  BY <1>1 DEF YoungInv
<1> QED BY <1>1, <1>5, <1>6, <1>7, <1>8, <1>9 DEF HistInv, DoneInv

LEMMA HistoryStepHolds == HistInv /\ [HistoryNext]_historyVars => HistInv'
<1> SUFFICES ASSUME HistInv, [HistoryNext]_historyVars PROVE HistInv'
  OBVIOUS
<1>1. CASE UNCHANGED historyVars
  BY <1>1 DEF historyVars, HistInv, DoneInv, StoreInv, RowsInv, WindowInv, LoopInv, YoungInv, Both,
     Sound, StoreTyped, RowsKept, BucketsWhole, HoursWhole, InBucket, InHour, Past, Folded
<1>2. ASSUME NEW f \in Failures, Iterate(f) PROVE HistInv'
  BY <1>2, IterateKeepsStore, IterateKeepsYoung DEF HistInv
<1>3. ASSUME NEW gap \in DownFor, StoreRestart(gap) PROVE HistInv'
  BY <1>3, RestartKeeps
<1>4. ASSUME NEW q \in Requests, Complete(q) PROVE HistInv'
  BY <1>4, CompleteKeeps
<1> QED BY <1>1, <1>2, <1>3, <1>4 DEF HistoryNext

LEMMA HistoryHolds == HistorySpec => []HistInv
BY HistoryInitHolds, HistoryStepHolds, PTL DEF HistorySpec

-----------------------------------------------------------------------------
(* The type invariant of the history store; its cursors stand at the ends  *)
(* of buckets (Store.rollup).                                              *)
THEOREM HistoryTypes == HistorySpec => []HistoryTypeOK
<1>1. HistInv => HistoryTypeOK
  <2> SUFFICES ASSUME HistInv PROVE HistoryTypeOK
    OBVIOUS
  <2>1. /\ DOMAIN done \subseteq Requests /\ db.requests \subseteq DOMAIN done
        /\ \A n \in TableNames : db.upto[n] = NoCursor \/ db.upto[n] % Width[n] = 0
    BY DEF HistInv, DoneInv, StoreInv, Both, Sound, StoreTyped, Aligned
  <2> QED BY <2>1 DEF HistInv, RowsInv, WindowInv, HistoryTypeOK
<1> QED BY <1>1, HistoryHolds, PTL

(* Whatever fails, is folded again or pruned in between, a bucket before   *)
(* the cursor stands for every row ever stored in it (Store.rollup: it is  *)
(* incremental and idempotent).                                            *)
THEOREM HistoryFolds == HistorySpec => []FoldedWhole
<1>1. HistInv => FoldedWhole
  <2> SUFFICES ASSUME HistInv, NEW n \in TableNames, db.upto[n] # NoCursor,
                      NEW r \in stored \ lost, Stamp(r) < db.upto[n],
                      Floor(Stamp(r), Width[n]) >= time - KeepRollup[n]
               PROVE  InBucket(db, n, r)
    BY DEF FoldedWhole, InBucket
  <2> QED BY DEF HistInv, StoreInv, Both, Sound, BucketsWhole, Past
<1> QED BY <1>1, HistoryHolds, PTL

(* If raw rows are kept for longer than it takes until the next rollup,    *)
(* no prune deletes a row that a table has still to fold, however long the *)
(* dashboard was down, unless every rollup since the prune before failed.  *)
THEOREM HistoryKeeps == KeepsEnough => (HistorySpec => KeptUntilFolded)
<1> SUFFICES ASSUME KeepsEnough PROVE HistorySpec => KeptUntilFolded
  OBVIOUS
<1>1. HistInv /\ [HistoryNext]_historyVars =>
         [lost' # lost => ~safe /\ ~RanRollup(time', fault')]_historyVars
  <2> SUFFICES ASSUME HistInv, HistoryNext, lost' # lost
               PROVE  ~safe /\ ~RanRollup(time', fault')
    OBVIOUS
  <2>1. PICK f \in Failures : Iterate(f)
    BY RestartKeeps, CompleteKeeps DEF HistoryNext
  <2> QED BY <2>1, IterateKeepsRows
<1> QED BY <1>1, HistoryHolds, PTL DEF HistorySpec, KeptUntilFolded

-----------------------------------------------------------------------------
(* The table that serves a span has rows as old as the span is long, if    *)
(* any has.                                                                *)
LEMMA SourceIs ==
    ASSUME NEW span \in Int
    PROVE  /\ HistorySource(span) \in TableNames \cup {NoCursor}
           /\ HistorySource(span) = NoCursor => span <= KeepRaw
           /\ \/ HistorySource(span) \in {NoCursor, Hourly}
              \/ span <= KeepRollup[HistorySource(span)]
<1>1. Hourly \in TableNames /\ \A n \in TableNames : n # NoCursor
  BY WidthsAre
<1>2. CASE span <= KeepRaw
  BY <1>2 DEF HistorySource
<1>3. CASE ~(span <= KeepRaw) /\ \E n \in TableNames : span <= KeepRollup[n]
  <2> DEFINE long == {i \in DOMAIN Tables : span <= KeepRollup[Tables[i]]}
  <2>1. DOMAIN Tables = 1 .. Len(Tables) /\ Len(Tables) \in Nat
    BY HistoryAssumption
  <2>2. long \in SUBSET Nat /\ long # {}
    BY <1>3, <2>1 DEF TableNames
  <2>3. HistorySource(span) = Tables[Min(long)]
    BY <1>3 DEF HistorySource
  <2>4. \A i \in long : Tables[i] \in TableNames /\ span <= KeepRollup[Tables[i]]
    BY DEF TableNames
  <2> HIDE DEF long
  <2> QED BY <1>1, <2>2, <2>3, <2>4, SmallestOf
<1>4. CASE ~(span <= KeepRaw) /\ ~\E n \in TableNames : span <= KeepRollup[n]
  BY <1>1, <1>4 DEF HistorySource
<1> QED BY <1>2, <1>3, <1>4

(* Whatever moment a range is pinned to, its chart is of a table that      *)
(* still has every whole bucket of it (Store.series, api_series).          *)
THEOREM HistoryCharts == HistorySpec => []ChartShowsWhatIsStored
<1>1. HistInv => ChartShowsWhatIsStored
  <2> SUFFICES ASSUME HistInv, NEW range \in Ranges, NEW end \in 1 .. Now
               PROVE  LET until == WindowEnd(end)
                          since == until - range
                          n == Built(HistorySource(time - since))
                          bucket(r) == IF n = NoCursor THEN Stamp(r) ELSE Floor(Stamp(r), Width[n])
                          shown == ApiSeries(range, end)
                      IN  \A r \in stored \ lost :
                             /\ since <= bucket(r) /\ bucket(r) < until
                             /\ n = NoCursor \/ Stamp(r) < db.upto[n]
                             /\ bucket(r) >= time - KeepRollup[Hourly]
                             => r \subseteq shown
    BY DEF ChartShowsWhatIsStored
  <2> DEFINE until == WindowEnd(end)
             since == until - range
             source == HistorySource(time - since)
             n == Built(source)
             bucket(r) == IF n = NoCursor THEN Stamp(r) ELSE Floor(Stamp(r), Width[n])
             shown == ApiSeries(range, end)
  <2>1. /\ time \in Nat /\ range \in Nat /\ until \in Int /\ since \in Int
        /\ KeepRaw \in Nat
        /\ \A m \in TableNames : Width[m] \in Nat \ {0} /\ KeepRollup[m] \in Nat
    <3>1. time \in Nat /\ range \in Nat /\ end \in Nat /\ Now \in Nat
      BY HistoryAssumption DEF HistInv, Now
    <3>2. until \in Nat
      <4>1. {end, Now} \in SUBSET Nat /\ {end, Now} # {}
        BY <3>1
      <4> QED BY <4>1, SmallestOf DEF WindowEnd
    <3> HIDE DEF until
    <3> QED BY <3>1, <3>2, WidthsAre
  <2>2. shown = PollsRead(n, since, until)
    BY DEF ApiSeries, Series
  <2> HIDE DEF until, since, shown
  <2>3. /\ source \in TableNames \cup {NoCursor}
        /\ source = NoCursor => time - since <= KeepRaw
        /\ source \in {NoCursor, Hourly} \/ time - since <= KeepRollup[source]
    BY <2>1, SourceIs
  <2> HIDE DEF source
  <2>4. Sound(db, stored \ lost, late, time)
    BY DEF HistInv, StoreInv, Both
  <2> SUFFICES ASSUME NEW r \in stored \ lost,
                      since <= bucket(r), bucket(r) < until,
                      n = NoCursor \/ Stamp(r) < db.upto[n],
                      bucket(r) >= time - KeepRollup[Hourly]
               PROVE  r \subseteq PollsRead(n, since, until)
    BY <2>2 DEF until, since, source, shown
  <2>5. r \in StoredRows /\ Stamp(r) \in Nat
    BY StampIs DEF HistInv, RowsInv
  <2>6. CASE n = NoCursor
    <3>1. r \in db.raw
      <4>1. CASE source = NoCursor
        <5>1. since <= Stamp(r)
          BY <2>6
        <5>2. ~(Stamp(r) < time - KeepRaw)
          BY <2>1, <2>3, <2>5, <4>1, <5>1
        <5> QED BY <2>4, <5>2 DEF Sound, RowsKept
      <4>2. CASE source # NoCursor
        <5>1. db.upto[source] = NoCursor /\ source \in TableNames
          BY <2>3, <2>6, <4>2 DEF Built
        <5> QED BY <2>4, <5>1 DEF Sound, RowsKept, Folded
      <4> QED BY <4>1, <4>2
    <3>2. since <= Stamp(r) /\ Stamp(r) < until
      BY <2>6
    <3> QED BY <2>6, <3>1, <3>2 DEF PollsRead
  <2>7. CASE n # NoCursor
    <3>1. n = source /\ n \in TableNames /\ db.upto[n] # NoCursor
      BY <2>3, <2>7 DEF Built
    <3>2. bucket(r) = Floor(Stamp(r), Width[n])
      BY <2>7
    <3>3. Floor(Stamp(r), Width[n]) \in Int
      <4> DEFINE w == Width[n]
                 x == Stamp(r)
      <4>1. w \in Nat \ {0} /\ x \in Nat
        BY <2>1, <2>5, <3>1
      <4> HIDE DEF w, x
      <4>2. Floor(x, w) \in Int
        BY <4>1, FloorIs
      <4> QED BY <4>2 DEF w, x
    <3> HIDE DEF n
    <3>4. Floor(Stamp(r), Width[n]) >= time - KeepRollup[n]
      <4>1. CASE n = Hourly
        BY <3>2, <4>1
      <4>2. CASE n # Hourly
        <5>1. time - since <= KeepRollup[n] /\ KeepRollup[n] \in Nat
          BY <2>1, <2>3, <2>7, <3>1, <4>2
        <5> QED BY <2>1, <3>2, <3>3, <5>1
      <4> QED BY <4>1, <4>2
    <3>5. InBucket(db, n, r)
      BY <2>4, <2>7, <3>1, <3>4 DEF Sound, BucketsWhole, Past
    <3> QED BY <2>7, <3>2, <3>5 DEF InBucket, PollsRead
  <2> QED BY <2>6, <2>7
<1> QED BY <1>1, HistoryHolds, PTL


(* A usage report begins no longer ago than its range is.                  *)
LEMMA UsageFirstIs ==
    ASSUME NEW range \in Ranges, NEW end \in Int, NEW off \in TzOffsets
    PROVE  UsageFirst(range, end, off) \in Int /\ end - range < UsageFirst(range, end, off)
<1> DEFINE w == UsageBucket[range]
           x == end + off
<1>1. w \in Nat \ {0} /\ range \in Int /\ off \in Int /\ x \in Int
  BY HistoryAssumption
<1> HIDE DEF w
<1>2. /\ Floor(x, w) \in Int /\ x < Floor(x, w) + w
      /\ (range \div w) \in Int /\ Floor(range, w) <= range
  <2> HIDE DEF x
  <2> QED BY <1>1, FloorIs, DivisionIs
<1>3. ((range \div w) - 1) * w = Floor(range, w) - w
  <2>1. ASSUME NEW k \in Int PROVE (k - 1) * w = k * w - w
    BY <1>1
  <2> QED BY <1>2, <2>1 DEF Floor
<1>4. UsageFirst(range, end, off) = Floor(x, w) - off - (Floor(range, w) - w)
  BY <1>3 DEF UsageFirst, w
<1>5. Floor(range, w) \in Int
  BY <1>1, FloorIs
<1> QED BY <1>1, <1>2, <1>4, <1>5

(* The hourly rows are kept for as long as the longest range the page      *)
(* offers (config.ROLLUPS, api.RANGES).                                    *)
HoursKept == \A range \in Ranges : range <= KeepRollup[Hourly]

(* If hourly rows are kept for as long as the longest range, a usage       *)
(* report counts every stored request of its bars that is in the log or in *)
(* a folded hour and was not late (usage_report, rollup).                  *)
THEOREM HistoryUsage == HoursKept => (HistorySpec => []UsageCountsRequests)
<1> SUFFICES ASSUME HoursKept PROVE HistorySpec => []UsageCountsRequests
  OBVIOUS
<1>1. HistInv => UsageCountsRequests
  <2> SUFFICES ASSUME HistInv, NEW range \in Ranges, NEW off \in TzOffsets,
                      NEW q \in db.requests \ late
               PROVE  LET since == UsageFirst(range, Now, off)
                          log == Built(HistorySource(Now - since)) = NoCursor
                      IN  /\ since <= IF log THEN done[q] ELSE Floor(done[q], Width[Hourly])
                          /\ log \/ /\ db.upto[Hourly] # NoCursor /\ done[q] < db.upto[Hourly]
                                    /\ \E x \in stored \ lost :
                                          done[q] >= Floor(Stamp(x), Width[Hourly])
                          => q \in UsageRequests(since, Now)
    BY DEF UsageCountsRequests
  <2> DEFINE since == UsageFirst(range, Now, off)
             log == Built(HistorySource(Now - since)) = NoCursor
             w == Width[Hourly]
             hour == Floor(done[q], w)
  <2>1. /\ time \in Nat /\ Now = time + 1 /\ range \in Nat
        /\ w \in Nat \ {0} /\ KeepRollup[Hourly] \in Nat
        /\ range <= KeepRollup[Hourly]
    BY WidthsAre, HistoryAssumption DEF HistInv, Now, HoursKept
  <2>2. Sound(db, stored \ lost, late, time)
    BY DEF HistInv, StoreInv, Both
  <2>3. done[q] \in Nat /\ done[q] <= time
    BY <2>2 DEF HistInv, DoneInv, Sound, StoreTyped
  <2>4. since \in Int /\ Now - range < since
    BY <2>1, UsageFirstIs
  <2>5. hour \in Int /\ hour <= done[q]
    <3> HIDE DEF w
    <3> QED BY <2>1, <2>3, FloorIs
  <2> HIDE DEF since
  <2>6. UsageRequests(since, Now) =
            IF log THEN {r \in db.requests : since <= done[r] /\ done[r] < Now}
            ELSE UNION {db.hours[b] : b \in {x \in DOMAIN db.hours : since <= x /\ x < Now}}
    BY DEF UsageRequests
  <2> HIDE DEF log
  <2> SUFFICES ASSUME since <= IF log THEN done[q] ELSE hour,
                      log \/ /\ db.upto[Hourly] # NoCursor /\ done[q] < db.upto[Hourly]
                             /\ \E x \in stored \ lost : done[q] >= Floor(Stamp(x), w)
               PROVE  q \in UsageRequests(since, Now)
    BY DEF since, log
  <2>7. CASE log
    <3>1. since <= done[q] /\ done[q] < Now
      BY <2>1, <2>3, <2>7
    <3> QED BY <2>6, <2>7, <3>1
  <2>8. CASE ~log
    <3>1. PICK x \in stored \ lost : done[q] >= Floor(Stamp(x), w)
      BY <2>8
    <3>2. Floor(Stamp(x), w) \in Int
      <4>1. Stamp(x) \in Nat
        BY StampIs DEF HistInv, RowsInv
      <4> HIDE DEF w
      <4> QED BY <2>1, <4>1, FloorIs
    <3>3. since <= hour /\ hour < Now /\ hour >= time - KeepRollup[Hourly]
      <4>1. since <= hour
        BY <2>8
      <4> HIDE DEF hour, w
      <4> QED BY <2>1, <2>3, <2>4, <2>5, <4>1
    <3>4. Past(db, Hourly, done[q]) /\ Floor(Stamp(x), Width[Hourly]) <= done[q]
      BY <2>3, <2>8, <3>1, <3>2 DEF Past
    <3>5. InHour(db, q)
      BY <2>2, <3>3, <3>4 DEF Sound, HoursWhole
    <3> QED BY <2>6, <2>8, <3>3, <3>5 DEF InHour
  <2> QED BY <2>7, <2>8
<1> QED BY <1>1, HistoryHolds, PTL

-----------------------------------------------------------------------------
(* Counting.                                                               *)
LEMMA UpToIs ==
    ASSUME NEW n \in Nat
    PROVE  IsFiniteSet(1 .. n) /\ Cardinality(1 .. n) = n
<1>1. Cardinality(1 .. n) = IF 1 > n THEN 0 ELSE n - 1 + 1
  BY FS_Interval
<1>2. IsFiniteSet(1 .. n)
  BY FS_Interval
<1> QED BY <1>1, <1>2

LEMMA Pairs ==
    ASSUME NEW e, NEW S, IsFiniteSet(S)
    PROVE  IsFiniteSet({e} \X S) /\ Cardinality({e} \X S) = Cardinality(S)
<1>1. IsFiniteSet({e}) /\ Cardinality({e}) = 1
  BY FS_Singleton
<1>2. IsFiniteSet({e} \X S) /\ Cardinality({e} \X S) = Cardinality({e}) * Cardinality(S)
  BY <1>1, FS_Product
<1>3. Cardinality(S) \in Nat
  BY FS_CardinalityType
<1> QED BY <1>1, <1>2, <1>3

LEMMA GridIs ==
    ASSUME NEW n \in Nat, NEW m \in Nat
    PROVE  /\ IsFiniteSet((1 .. n) \X (1 .. m)) /\ m * n \in Nat
           /\ Cardinality((1 .. n) \X (1 .. m)) = m * n
<1>1. IsFiniteSet(1 .. n) /\ IsFiniteSet(1 .. m) /\ Cardinality(1 .. n) = n
  BY UpToIs
<1>2. Cardinality(1 .. m) = m
  BY UpToIs
<1>3. /\ IsFiniteSet((1 .. n) \X (1 .. m))
      /\ Cardinality((1 .. n) \X (1 .. m)) = Cardinality(1 .. n) * Cardinality(1 .. m)
  BY <1>1, FS_Product
<1>4. n * m = m * n /\ n * m \in Nat
  OBVIOUS
<1> QED BY <1>1, <1>2, <1>3, <1>4

LEMMA ApartIs ==
    ASSUME NEW S, NEW T, IsFiniteSet(S), IsFiniteSet(T), S \cap T = {}
    PROVE  /\ IsFiniteSet(S \cup T)
           /\ Cardinality(S \cup T) = Cardinality(S) + Cardinality(T)
<1>1. Cardinality(S) \in Nat /\ Cardinality(T) \in Nat /\ Cardinality(S \cap T) = 0
  BY FS_CardinalityType, FS_EmptySet
<1>2. /\ IsFiniteSet(S \cup T)
      /\ Cardinality(S \cup T) = Cardinality(S) + Cardinality(T) - Cardinality(S \cap T)
  BY FS_Union
<1> QED BY <1>1, <1>2

(* Sums.  f adds up g over each set of D.                                  *)
Some(s) == CHOOSE x \in s : TRUE

AddsUp(f, g, D) ==
    f = [s \in D |-> IF s = {} THEN 0 ELSE g[Some(s)] + f[s \ {Some(s)}]]

(* SumFunction takes such an f, of which there is one for every finite set.*)
LEMMA SumIs ==
    ASSUME NEW T, NEW g, DOMAIN g = T
    PROVE  SumFunction(g) = (CHOOSE f : AddsUp(f, g, SUBSET T))[T]
BY DEF SumFunction, SumFunctionOnSet, FoldFunctionOnSet, MapThenFoldSet, AddsUp, Some

LEMMA SumExists ==
    ASSUME NEW T, IsFiniteSet(T), NEW g
    PROVE  \E f : AddsUp(f, g, SUBSET T)
<1> DEFINE upto(n) == {s \in SUBSET T : Cardinality(s) <= n}
           missing == {n \in Nat : ~ \E f : AddsUp(f, g, upto(n))}
<1>1. missing = {}
  <2> SUFFICES ASSUME missing # {} PROVE FALSE
    OBVIOUS
  <2>1. PICK m \in missing : \A n \in missing : m <= n
    <3> HIDE DEF missing
    <3>1. missing \in SUBSET Nat
      BY DEF missing
    <3> QED BY <3>1, SmallestOf
  <2>2. \A s \in SUBSET T : s # {} =>
           /\ Some(s) \in s /\ Cardinality(s) \in Nat
           /\ Cardinality(s \ {Some(s)}) = Cardinality(s) - 1
    BY FS_Subset, FS_RemoveElement, FS_CardinalityType DEF Some
  <2>3. CASE m = 0
    <3> DEFINE f == [s \in upto(0) |-> 0]
    <3>1. \A s \in upto(0) : s = {}
      BY FS_Subset, FS_EmptySet, FS_CardinalityType
    <3>2. AddsUp(f, g, upto(0))
      BY <3>1 DEF AddsUp
    <3> QED BY <2>1, <2>3, <3>2
  <2>4. CASE m # 0
    <3>1. m - 1 \in Nat /\ m - 1 \notin missing
      <4>1. m \in Nat
        OBVIOUS
      <4> HIDE DEF missing
      <4> QED BY <2>1, <2>4, <4>1
    <3>2. PICK f : AddsUp(f, g, upto(m - 1))
      BY <3>1
    <3> DEFINE h == [s \in upto(m) |-> IF s = {} THEN 0 ELSE g[Some(s)] + f[s \ {Some(s)}]]
    <3>3. ASSUME NEW s \in upto(m), s # {} PROVE f[s \ {Some(s)}] = h[s \ {Some(s)}]
      <4> DEFINE r == s \ {Some(s)}
      <4>1. r \in upto(m - 1) /\ r \in upto(m)
        BY <2>2, <3>3, <2>1
      <4> HIDE DEF upto, r
      <4>2. f[r] = IF r = {} THEN 0 ELSE g[Some(r)] + f[r \ {Some(r)}]
        BY <3>2, <4>1 DEF AddsUp
      <4>3. h[r] = IF r = {} THEN 0 ELSE g[Some(r)] + f[r \ {Some(r)}]
        BY <4>1
      <4> QED BY <4>2, <4>3 DEF r
    <3>4. AddsUp(h, g, upto(m))
      <4> HIDE DEF upto
      <4> QED BY <3>3 DEF AddsUp
    <3> HIDE DEF h
    <3> QED BY <2>1, <3>4
  <2> QED BY <2>3, <2>4
<1>2. Cardinality(T) \in Nat /\ upto(Cardinality(T)) = SUBSET T
  BY FS_Subset, FS_CardinalityType
<1>3. Cardinality(T) \notin missing
  BY <1>1
<1> HIDE DEF upto
<1> QED BY <1>2, <1>3

(* A sum of parts is no more than the whole, when each part is no more     *)
(* than the share it has in it, and no two shares meet.                    *)
LEMMA SumWithin ==
    ASSUME NEW T, IsFiniteSet(T), NEW g \in [T -> Nat], NEW V, IsFiniteSet(V),
           NEW share \in [T -> SUBSET V],
           \A x, y \in T : x # y => share[x] \cap share[y] = {},
           \A x \in T : g[x] <= Cardinality(share[x])
    PROVE  SumFunction(g) <= Cardinality(V)
<1> DEFINE of(s) == UNION {share[x] : x \in s}
           sum == CHOOSE f : AddsUp(f, g, SUBSET T)
           wrong == {n \in Nat : \E s \in SUBSET T :
                        Cardinality(s) = n /\ ~(sum[s] \in Nat /\ sum[s] <= Cardinality(of(s)))}
<1>1. AddsUp(sum, g, SUBSET T) /\ SumFunction(g) = sum[T]
  BY SumExists, SumIs
<1>2. \A s \in SUBSET T : IsFiniteSet(of(s)) /\ Cardinality(of(s)) <= Cardinality(V)
  BY FS_Subset
<1> HIDE DEF sum
<1>3. wrong = {}
  <2> SUFFICES ASSUME wrong # {} PROVE FALSE
    OBVIOUS
  <2>1. PICK m \in wrong : \A n \in wrong : m <= n
    <3> HIDE DEF wrong
    <3>1. wrong \in SUBSET Nat
      BY DEF wrong
    <3> QED BY <3>1, SmallestOf
  <2>2. PICK s \in SUBSET T :
            Cardinality(s) = m /\ ~(sum[s] \in Nat /\ sum[s] <= Cardinality(of(s)))
    BY <2>1
  <2> DEFINE x == Some(s)
             r == s \ {x}
  <2> HIDE DEF wrong, of
  <2>3. sum[s] = IF s = {} THEN 0 ELSE g[x] + sum[r]
    BY <1>1 DEF AddsUp
  <2>4. Cardinality(of(s)) \in Nat
    BY <1>2, FS_CardinalityType
  <2>5. s # {}
    BY <2>2, <2>3, <2>4
  <2>6. x \in s /\ x \in T /\ r \in SUBSET T
    BY <2>5 DEF Some
  <2>7. IsFiniteSet(s) /\ Cardinality(r) = m - 1 /\ Cardinality(r) \in Nat /\ m \in Nat
    <3>1. IsFiniteSet(s)
      BY FS_Subset
    <3> QED BY <2>2, <2>6, <3>1, FS_RemoveElement, FS_CardinalityType
  <2>8. sum[r] \in Nat /\ sum[r] <= Cardinality(of(r))
    <3>1. m - 1 \notin wrong
      BY <2>1, <2>7
    <3> QED BY <2>6, <2>7, <3>1 DEF wrong
  <2>9. Cardinality(of(s)) = Cardinality(share[x]) + Cardinality(of(r))
    <3>1. of(s) = share[x] \cup of(r) /\ share[x] \cap of(r) = {}
      <4>1. \A y \in r : y \in T /\ y # x
        BY <2>6
      <4> QED BY <2>6, <4>1 DEF of
    <3>2. IsFiniteSet(share[x]) /\ IsFiniteSet(of(r))
      BY <1>2, <2>6, FS_Subset
    <3> QED BY <3>1, <3>2, ApartIs
  <2>10. g[x] \in Nat /\ g[x] <= Cardinality(share[x]) /\ Cardinality(share[x]) \in Nat
    BY <2>6, FS_Subset, FS_CardinalityType
  <2>11. Cardinality(of(r)) \in Nat
    BY <1>2, <2>6, FS_CardinalityType
  <2> HIDE DEF x, r
  <2> QED BY <2>2, <2>3, <2>5, <2>8, <2>9, <2>10, <2>11
<1>4. sum[T] <= Cardinality(of(T)) /\ sum[T] \in Nat
  BY <1>3, FS_CardinalityType
<1>5. Cardinality(of(T)) \in Nat /\ Cardinality(V) \in Nat
  BY <1>2, FS_CardinalityType
<1> HIDE DEF of
<1> QED BY <1>1, <1>2, <1>4, <1>5
-----------------------------------------------------------------------------
(* The time energy is charged for.  A moment the dashboard did not poll at *)
(* lies in a gap, and each gap ends where a failure says (when).           *)
GapsEnd(when) ==
    \A m \in 1 .. time : m \notin up =>
        \E k \in 1 .. failures : when[k] \in m .. time /\ (m .. when[k]) \cap up = {}

GapInv ==
    /\ time \in Nat /\ failures \in Nat /\ up \subseteq 1 .. time
    /\ \E when \in [1 .. failures -> Nat] : GapsEnd(when)

LEMMA IterateKeepsGaps ==
    ASSUME GapInv, NEW f \in Failures, Iterate(f)
    PROVE  GapInv'
<1>1. /\ time' = time + 1 /\ up' = up \cup {time + 1}
      /\ failures' = failures \/ failures' = failures + 1
  BY DEF Iterate
<1>2. time' \in Nat /\ failures' \in Nat /\ up' \subseteq 1 .. time'
  BY <1>1 DEF GapInv
<1>3. PICK when \in [1 .. failures -> Nat] : GapsEnd(when)
  BY DEF GapInv
<1> DEFINE next == [k \in 1 .. failures' |-> IF k \in 1 .. failures THEN when[k] ELSE 0]
<1>4. next \in [1 .. failures' -> Nat]
  OBVIOUS
<1>5. ASSUME NEW m \in 1 .. time', m \notin up'
      PROVE  \E k \in 1 .. failures' : next[k] \in m .. time' /\ (m .. next[k]) \cap up' = {}
  <2>1. m \in 1 .. time /\ m \notin up
    BY <1>1, <1>5 DEF GapInv
  <2>2. PICK k \in 1 .. failures : when[k] \in m .. time /\ (m .. when[k]) \cap up = {}
    BY <1>3, <2>1 DEF GapsEnd
  <2>3. k \in 1 .. failures' /\ next[k] = when[k]
    BY <1>1 DEF GapInv
  <2>4. (m .. when[k]) \cap up' = {} /\ when[k] \in m .. time'
    BY <1>1, <2>2 DEF GapInv
  <2> QED BY <2>3, <2>4
<1> HIDE DEF next
<1> QED BY <1>2, <1>4, <1>5 DEF GapInv, GapsEnd

(* A restart is a failure, and the gap it leaves ends when it does.        *)
LEMMA RestartKeepsGaps ==
    ASSUME GapInv, NEW gap \in DownFor, StoreRestart(gap)
    PROVE  GapInv'
<1>1. /\ time' = time + gap /\ up' = up /\ failures' = failures + 1 /\ gap \in Nat
  BY HistoryAssumption DEF StoreRestart
<1>2. time' \in Nat /\ failures' \in Nat /\ up' \subseteq 1 .. time'
  BY <1>1 DEF GapInv
<1>3. PICK when \in [1 .. failures -> Nat] : GapsEnd(when)
  BY DEF GapInv
<1> DEFINE next == [k \in 1 .. failures' |-> IF k \in 1 .. failures THEN when[k] ELSE time']
<1>4. next \in [1 .. failures' -> Nat]
  BY <1>2
<1>5. ASSUME NEW m \in 1 .. time', m \notin up'
      PROVE  \E k \in 1 .. failures' : next[k] \in m .. time' /\ (m .. next[k]) \cap up' = {}
  <2>1. CASE m \in 1 .. time
    <3>1. PICK k \in 1 .. failures : when[k] \in m .. time /\ (m .. when[k]) \cap up = {}
      BY <1>1, <1>3, <1>5, <2>1 DEF GapsEnd
    <3>2. k \in 1 .. failures' /\ next[k] = when[k]
      BY <1>1 DEF GapInv
    <3>3. (m .. when[k]) \cap up' = {} /\ when[k] \in m .. time'
      BY <1>1, <3>1 DEF GapInv
    <3> QED BY <3>2, <3>3
  <2>2. CASE m \notin 1 .. time
    <3>1. failures' \in 1 .. failures' /\ next[failures'] = time'
      BY <1>1 DEF GapInv
    <3>2. m .. time' \subseteq (time + 1) .. time' /\ time' \in m .. time'
      BY <1>1, <1>5, <2>2 DEF GapInv
    <3>3. (m .. time') \cap up' = {}
      BY <1>1, <3>2 DEF GapInv
    <3> QED BY <3>1, <3>2, <3>3
  <2> QED BY <2>1, <2>2
<1> HIDE DEF next
<1> QED BY <1>2, <1>4, <1>5 DEF GapInv, GapsEnd

LEMMA GapsHold == HistorySpec => []GapInv
<1>1. HistoryInit => GapInv
  <2> SUFFICES ASSUME HistoryInit PROVE GapInv
    OBVIOUS
  <2>1. time = 0 /\ failures = 0 /\ up = {}
    BY DEF HistoryInit
  <2>2. [k \in 1 .. failures |-> 0] \in [1 .. failures -> Nat]
    OBVIOUS
  <2>3. \A when \in [1 .. failures -> Nat] : GapsEnd(when)
    BY <2>1 DEF GapsEnd
  <2> QED BY <2>1, <2>2, <2>3 DEF GapInv
<1>2. GapInv /\ [HistoryNext]_historyVars => GapInv'
  <2> SUFFICES ASSUME GapInv, [HistoryNext]_historyVars PROVE GapInv'
    OBVIOUS
  <2>1. ASSUME NEW f \in Failures, Iterate(f) PROVE GapInv'
    BY <2>1, IterateKeepsGaps
  <2>2. ASSUME NEW gap \in DownFor, StoreRestart(gap) PROVE GapInv'
    BY <2>2, RestartKeepsGaps
  <2>3. ASSUME NEW r \in Requests, Complete(r) PROVE GapInv'
    BY <2>3 DEF Complete, GapInv, GapsEnd
  <2>4. CASE UNCHANGED historyVars
    BY <2>4 DEF historyVars, GapInv, GapsEnd
  <2> QED BY <2>1, <2>2, <2>3, <2>4 DEF HistoryNext
<1> QED BY <1>1, <1>2, PTL DEF HistorySpec

LEMMA LargestOf ==
    ASSUME NEW S \in SUBSET Nat, S # {}, NEW t \in Nat, \A x \in S : x <= t
    PROVE  Max(S) \in S /\ \A x \in S : x <= Max(S)
<1> DEFINE below == {t - x : x \in S}
<1>1. below \in SUBSET Nat /\ below # {}
  <2>1. \A x \in S : x \in Nat /\ t - x \in Nat
    OBVIOUS
  <2> QED BY <2>1
<1>2. Min(below) \in below /\ \A n \in below : Min(below) <= n
  <2> HIDE DEF below
  <2> QED BY <1>1, SmallestOf
<1>3. PICK m \in S : t - m = Min(below)
  BY <1>2
<1>4. \A x \in S : x <= m
  <2>1. \A x \in S : t - x \in below
    OBVIOUS
  <2> HIDE DEF below
  <2>2. \A x \in S : t - m <= t - x /\ x \in Nat /\ m \in Nat
    BY <1>2, <1>3, <2>1
  <2> QED BY <2>2
<1> QED BY <1>4 DEF Max

LEMMA SmallerOf ==
    ASSUME NEW a \in Nat, NEW b \in Nat
    PROVE  Min({a, b}) \in Nat /\ Min({a, b}) <= a /\ Min({a, b}) <= b
BY SmallestOf

(* What was polled after p and until x, and three windows for each gap     *)
(* that ended in between.                                                  *)
Share(when, cap, p, x) ==
    ({0} \X (up \cap (p + 1 .. x)))
    \cup ({k \in 1 .. failures : when[k] \in p + 1 .. x} \X (1 .. cap))

(* A row is charged for no more than the polls since the row before it and *)
(* three windows for each gap that ended since then.                       *)
LEMMA ChargedIsCovered ==
    ASSUME GapInv, NEW when \in [1 .. failures -> Nat], GapsEnd(when),
           NEW cap \in Nat, NEW p \in Nat, NEW x \in up, p < x
    PROVE  /\ IsFiniteSet(Share(when, cap, p, x)) /\ Min({cap, x - p}) \in Nat
           /\ Min({cap, x - p}) <= Cardinality(Share(when, cap, p, x))
<1> DEFINE polls == {0} \X (up \cap (p + 1 .. x))
           ended == {k \in 1 .. failures : when[k] \in p + 1 .. x}
           share == Share(when, cap, p, x)
<1>1. x \in Nat /\ x <= time /\ x - p \in Nat /\ time \in Nat /\ failures \in Nat
  BY DEF GapInv
<1>2. Min({cap, x - p}) \in Nat /\ Min({cap, x - p}) <= cap /\ Min({cap, x - p}) <= x - p
  BY <1>1, SmallerOf
<1>3. share = polls \cup ended \X (1 .. cap)
  BY DEF Share
<1>4. IsFiniteSet(up \cap (p + 1 .. x)) /\ IsFiniteSet(ended) /\ IsFiniteSet(1 .. cap)
  <2>1. IsFiniteSet(p + 1 .. x) /\ IsFiniteSet(1 .. failures) /\ IsFiniteSet(1 .. cap)
    BY <1>1, FS_Interval
  <2> QED BY <2>1, FS_Subset
<1>5. /\ IsFiniteSet(polls) /\ IsFiniteSet(ended \X (1 .. cap))
      /\ Cardinality(polls) = Cardinality(up \cap (p + 1 .. x))
  <2>1. IsFiniteSet(ended \X (1 .. cap))
    BY <1>4, FS_Product
  <2> QED BY <1>4, <2>1, Pairs
<1> HIDE DEF share
<1>6. IsFiniteSet(share)
  BY <1>3, <1>5, FS_Union
<1>7. CASE p + 1 .. x \subseteq up
  <2>1. Cardinality(up \cap (p + 1 .. x)) = x - p
    <3>1. up \cap (p + 1 .. x) = p + 1 .. x
      BY <1>7
    <3>2. Cardinality(p + 1 .. x) = x - (p + 1) + 1
      <4>1. p + 1 \in Int /\ x \in Int /\ ~(p + 1 > x)
        BY <1>1
      <4> HIDE <1>7
      <4> QED BY <4>1, FS_Interval
    <3>3. x - (p + 1) + 1 = x - p
      BY <1>1
    <3> QED BY <3>1, <3>2, <3>3
  <2>2. Cardinality(polls) <= Cardinality(share)
    BY <1>3, <1>6, FS_Subset
  <2> QED BY <1>1, <1>2, <1>5, <1>6, <2>1, <2>2, FS_CardinalityType DEF share
<1>8. CASE ~(p + 1 .. x \subseteq up)
  <2>1. PICK m \in p + 1 .. x : m \notin up
    BY <1>8
  <2>2. m \in 1 .. time
    BY <1>1
  <2>3. PICK k \in 1 .. failures : when[k] \in m .. time /\ (m .. when[k]) \cap up = {}
    BY <2>1, <2>2 DEF GapsEnd
  <2>4. k \in ended
    BY <1>1, <2>3
  <2>5. {k} \X (1 .. cap) \in SUBSET share
    BY <1>3, <2>4
  <2>6. Cardinality({k} \X (1 .. cap)) = cap
    <3>1. Cardinality(1 .. cap) = cap
      BY UpToIs
    <3> QED BY <1>4, <3>1, Pairs
  <2>7. cap <= Cardinality(share) /\ Cardinality(share) \in Nat
    BY <1>6, <2>5, <2>6, FS_Subset, FS_CardinalityType
  <2> QED BY <1>2, <1>6, <2>7 DEF share
<1> QED BY <1>7, <1>8

(* What usage_report charges energy for is the time the dashboard polled,  *)
(* and three windows at most for each time it did not: a gap reads as      *)
(* missing.                                                                *)
THEOREM HistoryEnergy == HistorySpec => []EnergyOfGapIsMissing
<1>1. ASSUME HistInv, GapInv PROVE EnergyOfGapIsMissing
  <2> DEFINE cap == 3 * PersistEvery
             since == Now - KeepRaw
             stamps == {Stamp(r) : r \in db.raw}
             before(x) == {y \in stamps : y < x /\ y >= since - cap}
             T == {y \in stamps : since <= y /\ y < Now /\ before(y) # {}}
             charge == [x \in T |-> Min({cap, x - Max(before(x))})]
             polled == {t \in up : since - cap <= t}
             V == ({0} \X polled) \cup ((1 .. failures) \X (1 .. cap))
  <2>1. /\ cap \in Nat /\ since \in Int /\ time \in Nat /\ failures \in Nat
        /\ \A x \in up : x \in Nat /\ x <= time
    BY <1>1, HistoryAssumption DEF GapInv, Now
  <2>2. stamps \subseteq up
    BY <1>1 DEF HistInv, StoreInv, Both, Sound, StoreTyped, StoredRows, RowsInv
  <2>3. PICK when \in [1 .. failures -> Nat] : GapsEnd(when)
    BY <1>1 DEF GapInv
  <2> DEFINE share == [x \in T |-> Share(when, cap, Max(before(x)), x)]
  <2> HIDE DEF stamps, since, cap
  <2>4. ASSUME NEW x \in T
        PROVE  /\ x \in up /\ Max(before(x)) \in Nat /\ Max(before(x)) < x
               /\ Max(before(x)) >= since - cap
               /\ \A y \in before(x) : y <= Max(before(x))
    <3>1. before(x) # {} /\ before(x) \in SUBSET Nat /\ \A y \in before(x) : y <= time
      <4>1. before(x) \subseteq up /\ before(x) # {}
        BY <2>2
      <4> HIDE DEF before
      <4> QED BY <2>1, <4>1
    <3>2. Max(before(x)) \in before(x) /\ \A y \in before(x) : y <= Max(before(x))
      <4> HIDE DEF before
      <4> QED BY <2>1, <3>1, LargestOf
    <3> QED BY <2>2, <3>1, <3>2
  <2>5. IsFiniteSet(T) /\ IsFiniteSet(up)
    <3>1. IsFiniteSet(up)
      <4>1. up \subseteq 1 .. time /\ IsFiniteSet(1 .. time)
        BY <1>1, <2>1, UpToIs DEF GapInv
      <4> QED BY <4>1, FS_Subset
    <3> QED BY <2>2, <3>1, FS_Subset
  <2>6. /\ IsFiniteSet(V)
        /\ Cardinality(V) = Cardinality(polled) + cap * failures
    <3>1. IsFiniteSet(polled) /\ polled \subseteq up
      BY <2>5, FS_Subset
    <3>2. /\ IsFiniteSet({0} \X polled)
          /\ Cardinality({0} \X polled) = Cardinality(polled) /\ Cardinality(polled) \in Nat
      <4> HIDE DEF polled
      <4> QED BY <3>1, Pairs, FS_CardinalityType
    <3>3. /\ IsFiniteSet((1 .. failures) \X (1 .. cap))
          /\ Cardinality((1 .. failures) \X (1 .. cap)) = cap * failures
          /\ cap * failures \in Nat
      BY <2>1, GridIs
    <3>4. ({0} \X polled) \cap ((1 .. failures) \X (1 .. cap)) = {}
      OBVIOUS
    <3> DEFINE A == {0} \X polled
               B == (1 .. failures) \X (1 .. cap)
    <3>5. V = A \cup B /\ A \cap B = {}
      BY <3>4
    <3> HIDE DEF polled, A, B, V
    <3>6. IsFiniteSet(A \cup B) /\ Cardinality(A \cup B) = Cardinality(A) + Cardinality(B)
      BY <3>2, <3>3, <3>5, ApartIs DEF A, B
    <3> QED BY <3>2, <3>3, <3>5, <3>6 DEF A, B
  <2>7. ASSUME NEW x \in T
        PROVE  /\ charge[x] \in Nat /\ IsFiniteSet(share[x]) /\ share[x] \in SUBSET V
               /\ charge[x] <= Cardinality(share[x])
    <3> DEFINE p == Max(before(x))
    <3>1. x \in up /\ p \in Nat /\ p < x /\ p >= since - cap
      BY <2>4
    <3> HIDE DEF p, T, before, polled
    <3>2. /\ charge[x] = Min({cap, x - p})
          /\ share[x] = Share(when, cap, p, x)
      BY DEF p
    <3>3. up \cap (p + 1 .. x) \subseteq polled
      BY <2>1, <3>1 DEF polled
    <3>4. share[x] \in SUBSET V
      BY <3>2, <3>3 DEF Share
    <3> HIDE DEF share, charge, V, cap
    <3>5. /\ IsFiniteSet(share[x]) /\ charge[x] \in Nat
          /\ charge[x] <= Cardinality(share[x])
      BY <1>1, <2>1, <2>3, <3>1, <3>2, ChargedIsCovered
    <3> QED BY <3>4, <3>5
  <2>8. ASSUME NEW x \in T, NEW y \in T, x < y
        PROVE  share[x] \cap share[y] = {}
    <3>1. x <= Max(before(y))
      <4>1. x \in before(y)
        BY <2>1, <2>2, <2>8
      <4> QED BY <2>4, <4>1
    <3>2. /\ x \in Nat /\ y \in Nat /\ Max(before(x)) \in Nat /\ Max(before(y)) \in Nat
      <4>1. x \in up /\ y \in up
        BY <2>4
      <4> HIDE DEF before, T
      <4> QED BY <2>1, <2>4, <4>1
    <3> HIDE DEF before, T
    <3>3. (Max(before(x)) + 1 .. x) \cap (Max(before(y)) + 1 .. y) = {}
      BY <3>1, <3>2
    <3>4. \A k \in 1 .. failures : k # 0
      OBVIOUS
    <3> QED BY <3>3, <3>4 DEF Share
  <2>9. \A x, y \in T : x # y => share[x] \cap share[y] = {}
    <3> HIDE DEF T, share
    <3>1. \A x, y \in T : x \in Nat /\ y \in Nat
      BY <2>1, <2>4
    <3>2. \A x, y \in T : x # y => x < y \/ y < x
      BY <3>1
    <3> QED BY <2>8, <3>2
  <2>10. SumFunction(charge) <= Cardinality(V)
    <3>1. share \in [T -> SUBSET V] /\ charge \in [T -> Nat]
      <4>1. \A x \in T : share[x] \in SUBSET V /\ charge[x] \in Nat
        BY <2>7
      <4>2. share = [x \in T |-> share[x]] /\ charge = [x \in T |-> charge[x]]
        OBVIOUS
      <4> HIDE DEF share, charge, T, V
      <4> QED BY <4>1, <4>2
    <3> HIDE DEF share, charge, T, V
    <3> QED BY <2>5, <2>6, <2>7, <2>9, <3>1, SumWithin
  <2>11. Covered(since, Now) = SumFunction(charge)
    BY DEF Covered, cap, stamps
  <2> HIDE DEF charge, V, polled
  <2>12. Covered(since, Now) <= Cardinality(polled) + cap * failures
    BY <2>6, <2>10, <2>11
  <2> QED BY <2>12 DEF EnergyOfGapIsMissing, since, cap, polled
<1> QED BY <1>1, HistoryHolds, GapsHold, PTL

=============================================================================
