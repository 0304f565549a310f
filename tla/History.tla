------------------------------- MODULE History -------------------------------
(***************************************************************************)
(* The history store: polls collapse into stored rows (schema.py,          *)
(* aggregate_window), raw rows fold into the rollup tables and requests    *)
(* into their hours (Store.rollup), old rows are deleted (Store.prune),    *)
(* and the charts and the usage card read whichever table serves their     *)
(* range (Store.series, usage_report).                                     *)
(*                                                                         *)
(* What a row says is abstracted to which polls it stands for: the counts  *)
(* that add up, the maxima, the minima and the last values of a row are    *)
(* functions of those polls.  The averages are not (an average of          *)
(* averages weighs a short window like a long one), and are left out.      *)
(* All times are in polls: config.POLL_INTERVAL is 1.                      *)
(***************************************************************************)
EXTENDS Integers, SequencesExt

CONSTANTS
    Tables,        \* the rollup tables, in the order rollup() takes them
    Width,         \* table |-> its bucket (config.ROLLUPS)
    KeepRollup,    \* table |-> how long its rows are kept
    KeepRaw,       \* how long raw rows and requests are kept (RETAIN_DAYS)
    PersistEvery,  \* polls in a row
    RollupEvery,   \* at most one rollup() in so long
    PruneEvery,    \* at most one prune() in so long
    Ranges,        \* the ranges the page offers (api.RANGES), as lengths
    UsageBucket,   \* range |-> the width of its usage bars
    TzOffsets,     \* what readers' clocks are ahead by
    Requests,      \* the requests the server completes
    DownFor,       \* how long the dashboard may be down
    NoCursor,      \* no cursor yet
    MaxPolls,      \* bound of the model: the last moment
    MaxStoreFaults \* bound of the model: failures and restarts

TableNames == {Tables[i] : i \in DOMAIN Tables}

Hourly == Tables[Len(Tables)]

ASSUME HistoryAssumption ==
    /\ Tables # <<>> /\ Tables \in Seq(TableNames)
    /\ Width \in [TableNames -> Nat \ {0}] /\ KeepRollup \in [TableNames -> Nat]
    /\ {PersistEvery, RollupEvery, PruneEvery, KeepRaw} \subseteq Nat \ {0}
    /\ Ranges \subseteq Nat /\ UsageBucket \in [Ranges -> Nat \ {0}] /\ TzOffsets \subseteq Int
    /\ {MaxPolls, MaxStoreFaults} \subseteq Nat /\ DownFor \subseteq Nat
    /\ NoCursor \notin Int \cup TableNames

VARIABLES
    time,      \* time.time(), in polls
    window,    \* Monitor.window: the polls since the last persisted row
    db,        \* what the process reads from SQLite, committed or not
    disk,      \* what is committed
    loop,      \* run(): when rollup and prune last ran
    done,      \* request |-> when llama.cpp completed it
    failures,  \* how many failures and restarts there have been
    fault,     \* what failed in the last iteration
    stored,    \* every row ever committed
    lost,      \* the rows that went from raw before every table had them
    late,      \* the requests stored when their hour was folded already
    up,        \* the moments the dashboard polled at
    safe       \* a rollup() ran to its end since prune() was last called

historyVars ==
    <<time, window, db, disk, loop, done, failures, fault, stored, lost, late, up, safe>>

(* Two persist windows: a bucket that ended so long ago is complete. *)
Lag == 2 * PersistEvery

Floor(t, width) == (t \div width) * width

Stamp(row) == Max(row)    \* the ts of the last poll of a window

NewStore ==
    [raw |-> {}, requests |-> {}, hours |-> <<>>,
     rolled |-> [n \in TableNames |-> <<>>], upto |-> [n \in TableNames |-> NoCursor]]

-----------------------------------------------------------------------------
(* The connection: set_kv, write, record_request and prune each commit all *)
(* that was executed on it; what was executed and not committed is read    *)
(* back, and is gone if the process ends.                                  *)
Commit(s) == [s EXCEPT !.disk = s.db]

(* _record_requests: every request the agent still reports, stored once. *)
RecordRequests(s, reported) ==
    IF reported = {} THEN s
    ELSE Commit([s EXCEPT !.db.requests = @ \cup reported])

(* One row for a full window (aggregate_window, Store.write). *)
Write(s, row) == Commit([s EXCEPT !.db.raw = @ \cup {row}])

(* _publish: a row that could not be written is lost with its window.  The *)
(* samples row may have been inserted when it failed.                      *)
WriteFails(s, row) == {s, [s EXCEPT !.db.raw = @ \cup {row}]}

(* INSERT OR REPLACE of the buckets that the items of [from, to) fall in,  *)
(* each with what its items stand for; at is when they were.               *)
FoldInto(table, width, at, content, from, to) ==
    LET folded == {x \in DOMAIN at : from <= at[x] /\ at[x] < to}
        within(b) == {x \in folded : Floor(at[x], width) = b}
    IN  [b \in {Floor(at[x], width) : x \in folded} \cup DOMAIN table |->
            IF within(b) = {} THEN table[b] ELSE UNION {content[x] : x \in within(b)}]

FoldSamples(d, n, from, to) ==
    FoldInto(d.rolled[n], Width[n], [r \in d.raw |-> Stamp(r)], [r \in d.raw |-> r], from, to)

FoldRequests(d, from, to) ==
    FoldInto(d.hours, Width[Hourly], [r \in d.requests |-> done[r]],
             [r \in d.requests |-> {r}], from, to)

(* Mutant: the bucket in progress is folded too. *)
UntilInProgress(n, t) == Floor(t, Width[n]) + Width[n]

(* Mutant: not brought down to the end of a bucket. *)
UntilUnaligned(n, t) == t - Lag

(* The end of the last bucket that can no longer change. *)
Until(n, t) == Floor(t - Lag, Width[n])

(* How far table n has got; it begins with the first row there is. *)
Cursor(d, n) ==
    IF d.upto[n] # NoCursor THEN d.upto[n]
    ELSE IF d.raw = {} THEN NoCursor
    ELSE Floor(Min({Stamp(r) : r \in d.raw}), Width[n])

(* Every table is past the row. *)
Folded(d, r) == \A n \in TableNames : d.upto[n] # NoCursor /\ Stamp(r) < d.upto[n]

Due(s, n, t) == Cursor(s.db, n) # NoCursor /\ Until(n, t) > Cursor(s.db, n)

(* What the statements that fold some tables leave, before their cursors   *)
(* are set.                                                                *)
Inserted(s, names, t) ==
    LET samples(n) == FoldSamples(s.db, n, Cursor(s.db, n), Until(n, t))
    IN  [s EXCEPT
            !.db.rolled = [n \in TableNames |-> IF n \in names THEN samples(n) ELSE @[n]],
            !.db.hours = IF Hourly \in names
                         THEN FoldRequests(s.db, Cursor(s.db, Hourly), Until(Hourly, t))
                         ELSE @]

CursorsSet(s, names, t) ==
    Commit([s EXCEPT
        !.db.upto = [n \in TableNames |-> IF n \in names THEN Until(n, t) ELSE @[n]]])

(* The tables that are due are folded: none reads what another's rows and  *)
(* cursor are, so what they leave together is what each leaves in turn.    *)
FoldTables(s, names, t) ==
    LET due == {n \in names : Due(s, n, t)}
    IN  IF due = {} THEN s ELSE CursorsSet(Inserted(s, due, t), due, t)

Rollup(s, t) == FoldTables(s, TableNames, t)

(* It may raise between the statements of any table: those before it are   *)
(* done, and its own rows may be inserted and its cursor not set.          *)
Reached(s, t, i) == FoldTables(s, {Tables[j] : j \in 1 .. i - 1}, t)

(* Mutant: the cursor is set before the rows are inserted. *)
RollupFailsAfterCursor(s, t) ==
    {IF Due(s, Tables[i], t) THEN CursorsSet(Reached(s, t, i), {Tables[i]}, t)
     ELSE Reached(s, t, i) : i \in DOMAIN Tables}

RollupFails(s, t) ==
    {IF Due(s, Tables[i], t) THEN Inserted(Reached(s, t, i), {Tables[i]}, t)
     ELSE Reached(s, t, i) : i \in DOMAIN Tables}

Younger(f, cutoff) == [b \in {x \in DOMAIN f : x >= cutoff} |-> f[b]]

Prune(s, t) ==
    Commit([s EXCEPT
        !.db.raw = {r \in @ : Stamp(r) >= t - KeepRaw},
        !.db.rolled = [n \in TableNames |-> Younger(@[n], t - KeepRollup[n])],
        !.db.hours = Younger(@, t - KeepRollup[Hourly]),
        !.db.requests = {r \in @ : done[r] >= t - KeepRaw}])

-----------------------------------------------------------------------------
Failures == {"none", "agent", "write", "rollup", "prune"}

(* What the poll of moment t leaves: the requests of the agent's answer    *)
(* stored, and the window persisted when it is full.                       *)
Polled(t, f) ==
    LET s == RecordRequests([db |-> db, disk |-> disk],
                            IF f = "agent" THEN {} ELSE DOMAIN done)
        full == window \cup {t}
    IN  IF Cardinality(full) < PersistEvery THEN {s}
        ELSE IF f = "write" THEN WriteFails(s, full) ELSE {Write(s, full)}

(* Mutant: old rows are deleted before they are folded. *)
MaintainPrunesFirst(s, t, f) ==
    LET pruned == IF t - loop.prune > PruneEvery /\ f # "prune" THEN Prune(s, t) ELSE s
    IN  IF t - loop.rollup <= RollupEvery THEN {pruned}
        ELSE IF f = "rollup" THEN RollupFails(pruned, t) ELSE {Rollup(pruned, t)}

(* Then rollup() and prune(), when they are due; each error is caught, and *)
(* the loop goes on.                                                       *)
Maintain(s, t, f) ==
    {IF t - loop.prune > PruneEvery /\ f # "prune" THEN Prune(r, t) ELSE r :
        r \in IF t - loop.rollup <= RollupEvery THEN {s}
              ELSE IF f = "rollup" THEN RollupFails(s, t) ELSE {Rollup(s, t)}}

RanRollup(t, f) == t - loop.rollup > RollupEvery /\ f # "rollup"

(* One iteration of run(). *)
Iterate(f) ==
    LET t == time + 1
        lapsed(last, every) == IF t - last > every THEN t ELSE last
    IN  /\ t <= MaxPolls
        /\ f = "none" \/ failures < MaxStoreFaults
        /\ failures' = IF f = "none" THEN failures ELSE failures + 1
        /\ fault' = f
        /\ time' = t
        /\ up' = up \cup {t}
        /\ window' = IF Cardinality(window) + 1 < PersistEvery THEN window \cup {t} ELSE {}
        /\ loop' = [rollup |-> lapsed(loop.rollup, RollupEvery),
                    prune |-> lapsed(loop.prune, PruneEvery)]
        /\ \E p \in Polled(t, f) : \E s \in Maintain(p, t, f) :
               db' = s.db /\ disk' = s.disk
        /\ stored' = stored \cup disk'.raw
        /\ lost' = lost \cup {r \in db.raw \ db'.raw : ~Folded(db', r)}
        /\ late' = late \cup {r \in db'.requests \ db.requests :
                                 db.upto[Hourly] # NoCursor /\ done[r] < db.upto[Hourly]}
        /\ safe' = (t - loop.prune <= PruneEvery /\ (safe \/ RanRollup(t, f)))
        /\ UNCHANGED done

(* The process ends, and starts again after a while: what was not          *)
(* committed is gone, and so are the window and the loop's timers.         *)
StoreRestart(gap) ==
    /\ failures < MaxStoreFaults
    /\ failures' = failures + 1
    /\ time' = time + gap
    /\ window' = {}
    /\ db' = disk
    /\ loop' = [rollup |-> -RollupEvery, prune |-> -PruneEvery]
    /\ fault' = "none" /\ safe' = FALSE
    /\ UNCHANGED <<disk, done, stored, lost, late, up>>

(* llama.cpp completes a request. *)
Complete(r) ==
    /\ r \notin DOMAIN done
    /\ done' = [x \in DOMAIN done \cup {r} |-> IF x = r THEN time ELSE done[x]]
    /\ UNCHANGED <<time, window, db, disk, loop, failures, fault, stored, lost, late, up, safe>>

HistoryInit ==
    /\ time = 0 /\ window = {} /\ failures = 0 /\ fault = "none"
    /\ db = NewStore /\ disk = NewStore
    /\ loop = [rollup |-> -RollupEvery, prune |-> -PruneEvery]
    /\ done = <<>> /\ stored = {} /\ lost = {} /\ late = {} /\ up = {} /\ safe = FALSE

HistoryNext ==
    \/ \E f \in Failures : Iterate(f)
    \/ \E gap \in DownFor : StoreRestart(gap)
    \/ \E r \in Requests : Complete(r)

HistorySpec == HistoryInit /\ [][HistoryNext]_historyVars

-----------------------------------------------------------------------------
(* Reading.  history_source: the table that serves a span. *)
HistorySource(span) ==
    IF span <= KeepRaw THEN NoCursor
    ELSE IF \E n \in TableNames : span <= KeepRollup[n]
    THEN Tables[Min({i \in DOMAIN Tables : span <= KeepRollup[Tables[i]]})]
    ELSE Hourly

(* window_end: a pinned moment, or now; what this iteration did is before. *)
Now == time + 1
WindowEnd(end) == Min({end, Now})

(* api_usage: as many whole bars as the range has, the last in progress;   *)
(* a bar begins where the reader's clock says.  (A range below a day has   *)
(* the day's bars: the shortest of Ranges stands for it.)                  *)
UsageFirst(range, end, off) ==
    LET width == UsageBucket[range]
    IN  Floor(end + off, width) - off - ((range \div width) - 1) * width

Built(n) == IF n # NoCursor /\ db.upto[n] = NoCursor THEN NoCursor ELSE n

(* The polls that the rows of [since, until) in a table stand for. *)
PollsRead(n, since, until) ==
    IF n = NoCursor THEN UNION {r \in db.raw : since <= Stamp(r) /\ Stamp(r) < until}
    ELSE UNION {db.rolled[n][b] : b \in {x \in DOMAIN db.rolled[n] : since <= x /\ x < until}}

(* Mutant: the table is chosen by the window's length, not by its age. *)
SeriesByLength(since, until) == PollsRead(Built(HistorySource(until - since)), since, until)

(* Store.series: the table is chosen by how far back the window begins. *)
Series(since, until) == PollsRead(Built(HistorySource(time - since)), since, until)

(* api_series. *)
ApiSeries(range, end) == Series(WindowEnd(end) - range, WindowEnd(end))

(* usage_report: the requests it counts, from the log or from the hours,   *)
(* by the window's length.                                                 *)
UsageRequests(since, until) ==
    IF Built(HistorySource(until - since)) = NoCursor
    THEN {r \in db.requests : since <= done[r] /\ done[r] < until}
    ELSE UNION {db.hours[b] : b \in {x \in DOMAIN db.hours : since <= x /\ x < until}}

(* Mutant: a gap is charged in full. *)
CoveredUncapped(since, until) ==
    LET cap == 3 * PersistEvery
        stamps == {Stamp(r) : r \in db.raw}
        before(x) == {y \in stamps : y < x /\ y >= since - cap}
    IN  SumFunction([x \in {y \in stamps : since <= y /\ y < until /\ before(y) # {}} |->
                        x - Max({y \in stamps : y < x})])

(* usage_report: the time it charges energy for, over raw rows: a row      *)
(* counts from the one before it, for three windows at most.               *)
Covered(since, until) ==
    LET cap == 3 * PersistEvery
        stamps == {Stamp(r) : r \in db.raw}
        before(x) == {y \in stamps : y < x /\ y >= since - cap}
    IN  SumFunction([x \in {y \in stamps : since <= y /\ y < until /\ before(y) # {}} |->
                        Min({cap, x - Max(before(x))})])

-----------------------------------------------------------------------------
(* The type invariant; and the cursors stand at the ends of buckets. *)
HistoryTypeOK ==
    /\ time \in Nat
    /\ window \subseteq up /\ Cardinality(window) < PersistEvery
    /\ disk.raw \subseteq stored /\ \A r \in stored : r \subseteq up
    /\ DOMAIN done \subseteq Requests /\ db.requests \subseteq DOMAIN done
    /\ \A n \in TableNames : db.upto[n] = NoCursor \/ db.upto[n] % Width[n] = 0

(* store.py, rollup: "Incremental ... and idempotent"; "A bucket is folded *)
(* only once it can no longer change".  Whatever failed, was folded again  *)
(* or pruned in between, a bucket before the cursor stands for all the     *)
(* rows ever stored in it.                                                 *)
FoldedWhole ==
    \A n \in TableNames : db.upto[n] # NoCursor =>
        \A r \in stored \ lost :
            Stamp(r) < db.upto[n] /\ Floor(Stamp(r), Width[n]) >= time - KeepRollup[n]
            => /\ Floor(Stamp(r), Width[n]) \in DOMAIN db.rolled[n]
               /\ r \subseteq db.rolled[n][Floor(Stamp(r), Width[n])]

(* config.py: "Raw rows are kept RETAIN_DAYS; beyond that, 5-minute and    *)
(* hourly rollups keep the shape".  No prune deletes a row that a table    *)
(* has still to fold, however long the dashboard was down, unless every    *)
(* rollup since the prune before it (or since the start) has failed.       *)
KeptUntilFolded == [][lost' # lost => ~safe /\ ~RanRollup(time', fault')]_historyVars

(* metrics.md: "The 30d and 90d ranges read the 5-minute rollups, and 1y   *)
(* the hourly ones".  Whatever moment a range is pinned to, its chart is   *)
(* of a table that still has every whole bucket of it.                     *)
ChartShowsWhatIsStored ==
    \A range \in Ranges, end \in 1 .. Now :
        LET until == WindowEnd(end)
            since == until - range
            n == Built(HistorySource(time - since))
            bucket(r) == IF n = NoCursor THEN Stamp(r) ELSE Floor(Stamp(r), Width[n])
            shown == ApiSeries(range, end)
        IN  \A r \in stored \ lost :
                /\ since <= bucket(r) /\ bucket(r) < until
                /\ n = NoCursor \/ Stamp(r) < db.upto[n]
                /\ bucket(r) >= time - KeepRollup[Hourly]
                => r \subseteq shown

(* metrics.md: "The request log is folded per hour and model too."  The    *)
(* usage card of a range that ends now counts every stored request of it   *)
(* that is in the log or in a folded hour; not one that was stored after   *)
(* its hour was folded, and not one from before the hour of the first row  *)
(* (rollup() begins there: what the agent's log held from before the       *)
(* dashboard was installed is not folded).                                 *)
UsageCountsRequests ==
    \A range \in Ranges, off \in TzOffsets, r \in db.requests \ late :
        LET since == UsageFirst(range, Now, off)
            log == Built(HistorySource(Now - since)) = NoCursor
        IN  /\ since <= IF log THEN done[r] ELSE Floor(done[r], Width[Hourly])
            /\ log \/ /\ db.upto[Hourly] # NoCursor /\ done[r] < db.upto[Hourly]
                      /\ \E x \in stored \ lost : done[r] >= Floor(Stamp(x), Width[Hourly])
            => r \in UsageRequests(since, Now)

(* usage.py: "a gap in the data (the dashboard was down) reads as missing  *)
(* rather than as hours at the last-seen draw".  The time energy is        *)
(* charged for is the time the dashboard polled, and three windows at most *)
(* for each time it did not.                                               *)
EnergyOfGapIsMissing ==
    LET since == Now - KeepRaw
    IN  Covered(since, Now)
            <= Cardinality({t \in up : since - 3 * PersistEvery <= t})
               + 3 * PersistEvery * failures

==============================================================================
