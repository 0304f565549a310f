----------------------------- MODULE LearnedRules -----------------------------
(***************************************************************************)
(* The rules whose verdict depends on what the store remembers (rules.py): *)
(* slow_decode with the per-model median it is judged by                   *)
(* (store.decode_baseline), gpu_count, bmc_log, remapped rows and ECC      *)
(* errors of a card, its power draw, restarts of a unit, and               *)
(* request_telemetry.  Each rule reads and writes rows of its own, so one  *)
(* card and one unit stand for each; a card may be swapped for another.    *)
(*                                                                         *)
(* A write may fail (the database is locked), which ends the poll: rules   *)
(* before it have stored what they learned, and no alert is shown anew.    *)
(***************************************************************************)
EXTENDS Clock, Sequences, SequencesExt, FiniteSets

CONSTANTS
    Models, NoModel,   \* what /props may name, and nothing
    Serials,           \* the cards that may sit in one slot
    None,              \* no reading, no row
    Machines,          \* what hosts may report: each a set of readings
    MaxFaults,         \* bound of the model: failing writes
    MinSamples, BaselineWindow, SlowRun,  \* MIN_BASELINE_SAMPLES, ...
    SlowDivisor,       \* 1 / SLOW_FRACTION
    ColdSlow,          \* COLD_SLOW_TPS
    SelHold,           \* SEL_ALERT_HOLD
    PowerRun,          \* POWER_RUN_TO_ALERT
    ParseMisses        \* PARSE_MISSES_TO_ALERT

Counts == Nat \cup {None}

(* What one poll found out.  decode is the rate of the requests that ended *)
(* in it, if they generated enough tokens to tell; the draw of the card is *)
(* under its cap's first ratio (0), over it (1) or over the second (2);    *)
(* remapped rows it does not report count as none.                         *)
Reading ==
    [model : Models \cup {NoModel}, decode : Counts \ {0},
     cards : Counts,
     sel : [rid : Nat, serious : SUBSET Nat] \cup {None},
     card : [serial : Serials, remaps : Nat, ecc : Counts, draw : 0 .. 2 \cup {None}]
            \cup {None},
     restarts : Counts,
     timings : Counts, tokens : Counts]

ASSUME LearnedAssumption ==
    /\ \A m \in Machines : m \subseteq Reading
    /\ MinSamples \in Nat \ {0} /\ BaselineWindow \in Nat /\ MinSamples <= BaselineWindow
    /\ {SlowRun, SlowDivisor, ColdSlow, SelHold, PowerRun, ParseMisses, MaxFaults} \subseteq Nat
    /\ SlowRun > 0
    /\ NoModel \notin Models
    /\ None \notin Nat /\ None \notin [rid : Nat, grew : Counts, serious : BOOLEAN]

VARIABLES
    machine,  \* what this host reports, which does not change
    obs,      \* decode_obs: each model's latest rates, BaselineWindow of them
    kv,       \* the rules' rows
    raised,   \* the alerts of the latest poll: [key, level]
    faults    \* how many writes have failed

(* History: the latest poll's reading, if it was judged to the end; the    *)
(* latest observations that were judged; when the log last had a new       *)
(* record, and its newest; the fewest rows each card was read with.        *)
VARIABLES latest, recent, news, fewest

program == <<machine, obs, kv, raised, faults>>

history == <<latest, recent, news, fewest>>

vars == <<now, program, history>>

-----------------------------------------------------------------------------
(* record_decode, of a model that is known; older rates are never read.    *)
RecordDecode(r) ==
    IF r.model = NoModel \/ r.decode = None THEN obs
    ELSE LET rates == Append(obs[r.model], r.decode)
         IN  [obs EXCEPT ![r.model] =
                 IF Len(rates) > BaselineWindow THEN Tail(rates) ELSE rates]

(* The k-th smallest of a sequence of rates. *)
Kth(rates, k) ==
    CHOOSE d \in ToSet(rates) :
        /\ Cardinality({i \in DOMAIN rates : rates[i] < d}) < k
        /\ Cardinality({i \in DOMAIN rates : rates[i] <= d}) >= k

(* decode_baseline, doubled so that it is a whole number: the median, the  *)
(* latest rate included, once there are enough to learn from.              *)
Baseline(r) ==
    IF r.model = NoModel THEN None
    ELSE LET rates == RecordDecode(r)[r.model]
             n == Len(rates)
         IN  IF n < MinSamples THEN None
             ELSE Kth(rates, (n + 1) \div 2) + Kth(rates, n \div 2 + 1)

TooSlow(r) ==
    IF Baseline(r) # None THEN 2 * SlowDivisor * r.decode < Baseline(r)
    ELSE r.decode < ColdSlow

(* Mutant: a poll without an observation breaks nothing, a fast one either. *)
SlowRowKeepsRun(r) ==
    IF r.decode = None THEN kv.slow
    ELSE [run |-> kv.slow.run + (IF TooSlow(r) THEN 1 ELSE 0),
          last |-> r.decode, base |-> Baseline(r)]

(* Mutant: polls without an observation break the run. *)
SlowRowOfPolls(r) ==
    [run |-> IF r.decode # None /\ TooSlow(r) THEN kv.slow.run + 1 ELSE 0,
     last |-> r.decode, base |-> Baseline(r)]

(* slow_decode: observations in a row, of whichever model. *)
SlowRow(r) ==
    IF r.decode = None THEN kv.slow
    ELSE [run |-> IF TooSlow(r) THEN kv.slow.run + 1 ELSE 0,
          last |-> r.decode, base |-> Baseline(r)]

(* gpu_count: the most cards ever seen. *)
CardsRow(r) ==
    IF r.cards = None \/ r.cards <= kv.cards THEN kv.cards ELSE r.cards

(* Mutant: a cleared log is a new one. *)
SelRowForgets(r, t) ==
    IF r.sel = None THEN kv.sel
    ELSE IF kv.sel = None \/ r.sel.rid < kv.sel.rid
    THEN [rid |-> r.sel.rid, grew |-> None, serious |-> FALSE]
    ELSE IF r.sel.rid > kv.sel.rid
    THEN [rid |-> r.sel.rid, grew |-> t,
          serious |-> \E e \in r.sel.serious : e > kv.sel.rid]
    ELSE kv.sel

(* bmc_log: the newest record, and when it last was news.  A log that was  *)
(* cleared goes on from where it is, and what was news still is.           *)
SelRow(r, t) ==
    IF r.sel = None THEN kv.sel
    ELSE IF kv.sel = None THEN [rid |-> r.sel.rid, grew |-> None, serious |-> FALSE]
    ELSE IF r.sel.rid > kv.sel.rid
    THEN [rid |-> r.sel.rid, grew |-> t,
          serious |-> \E e \in r.sel.serious : e > kv.sel.rid]
    ELSE [kv.sel EXCEPT !.rid = r.sel.rid]

(* Mutant: the baseline is the slot's, not the card's. *)
WearRowOfSlot(row, r, count) ==
    IF r.card = None \/ count = None THEN row
    ELSE [s \in Serials |-> IF row[s] = None THEN count ELSE row[s]]

(* _gpu_wear: what a card was first seen with. *)
WearRow(row, r, count) ==
    IF r.card = None \/ count = None \/ row[r.card.serial] # None THEN row
    ELSE [row EXCEPT ![r.card.serial] = count]

(* _gpu_power: readings in a row over the cap, and the highest of them. *)
PowerRow(r) ==
    IF r.card = None \/ r.card.draw = None THEN kv.power
    ELSE IF r.card.draw = 0 THEN [run |-> 0, peak |-> 0]
    ELSE [run |-> kv.power.run + 1,
          peak |-> IF r.card.draw > kv.power.peak THEN r.card.draw ELSE kv.power.peak]

(* inference_units: the highest restart count. *)
RestartsRow(r) ==
    IF \/ r.restarts = None
       \/ kv.restarts # None /\ r.restarts <= kv.restarts
    THEN kv.restarts ELSE r.restarts

(* request_telemetry: polls that saw requests finish and no timing since.  *)
ParseRow(r) ==
    IF r.timings = None \/ r.tokens = None THEN kv.parse
    ELSE [tokens |-> r.tokens, timings |-> r.timings,
          misses |-> IF kv.parse.timings # None /\ r.timings # kv.parse.timings THEN 0
                     ELSE IF kv.parse.tokens # None /\ r.tokens > kv.parse.tokens
                     THEN kv.parse.misses + 1 ELSE kv.parse.misses]

(* The rows, in the order of RULES. *)
RuleOrder == <<"slow", "cards", "sel", "remap", "ecc", "power", "restarts", "parse">>

RowsAfter(r, t) ==
    [slow |-> SlowRow(r), cards |-> CardsRow(r), sel |-> SelRow(r, t),
     remap |-> WearRow(kv.remap, r, IF r.card = None THEN None ELSE r.card.remaps),
     ecc |-> WearRow(kv.ecc, r, IF r.card = None THEN None ELSE r.card.ecc),
     power |-> PowerRow(r), restarts |-> RestartsRow(r), parse |-> ParseRow(r)]

-----------------------------------------------------------------------------
(* What the rules yield, over the rows as they left them. *)
AlertIf(cond, key, level) == IF cond THEN {[key |-> key, level |-> level]} ELSE {}

SlowAlert(rows) ==
    AlertIf(rows.slow.run >= SlowRun, "slow_decode",
            IF rows.slow.base # None THEN "critical" ELSE "serious")

CardsAlert(r, rows) ==
    AlertIf(r.cards # None /\ r.cards < rows.cards, "gpu_count", "critical")

SelAlert(r, t, rows) ==
    AlertIf(r.sel # None /\ rows.sel.grew # None /\ t - rows.sel.grew < SelHold,
            "sel", IF rows.sel.serious THEN "serious" ELSE "warning")

WearAlerts(r, rows) ==
    LET c == r.card
    IN  AlertIf(c # None /\ c.remaps > rows.remap[c.serial], "remap", "serious")
        \cup AlertIf(c # None /\ c.ecc # None /\ c.ecc > rows.ecc[c.serial], "ecc", "serious")

PowerAlert(r, rows) ==
    AlertIf(r.card # None /\ r.card.draw # None /\ rows.power.run >= PowerRun,
            "pwr", IF rows.power.peak = 2 THEN "serious" ELSE "warning")

RestartAlert(rows) ==
    AlertIf(kv.restarts # None /\ rows.restarts > kv.restarts, "restart", "warning")

ParseAlert(r, rows) ==
    AlertIf(r.timings # None /\ r.tokens # None /\ rows.parse.misses >= ParseMisses,
            "journal_parse", "warning")

Alerts(r, t, rows) ==
    UNION {SlowAlert(rows), CardsAlert(r, rows), SelAlert(r, t, rows), WearAlerts(r, rows),
           PowerAlert(r, rows), RestartAlert(rows), ParseAlert(r, rows)}

(* What the rules in done have seen of a poll. *)
Remember(r, t, done) ==
    /\ recent' = IF "slow" \notin done \/ r.decode = None THEN recent
                 ELSE LET all == Append(recent, [model |-> r.model, decode |-> r.decode])
                      IN  IF Len(all) > SlowRun THEN Tail(all) ELSE all
    /\ news' = IF "sel" \notin done \/ r.sel = None THEN news
               ELSE [rid |-> r.sel.rid,
                     at |-> IF news.rid # None /\ r.sel.rid > news.rid THEN t ELSE news.at]
    /\ fewest' = IF r.card = None THEN fewest
                 ELSE LET s == r.card.serial
                      IN  [fewest EXCEPT ![s] =
                              IF @ = None \/ r.card.remaps < @ THEN r.card.remaps ELSE @]

(* evaluate_alerts, as far as the rules in done. *)
Evaluate(r, t, done) ==
    LET rows == RowsAfter(r, t)
    IN  /\ kv' = [row \in DOMAIN kv |-> IF row \in done THEN rows[row] ELSE kv[row]]
        /\ Remember(r, t, done)

Poll(r, t) ==
    /\ Reads(t)
    /\ obs' = RecordDecode(r)
    /\ Evaluate(r, t, DOMAIN kv)
    /\ raised' = Alerts(r, t, RowsAfter(r, t))
    /\ latest' = r
    /\ UNCHANGED <<machine, faults>>

(* A row that was to change could not be written. *)
PollFails(r, t, n) ==
    /\ Reads(t)
    /\ faults < MaxFaults /\ faults' = faults + 1
    /\ RowsAfter(r, t)[RuleOrder[n]] # kv[RuleOrder[n]]
    /\ obs' = RecordDecode(r)
    /\ Evaluate(r, t, {RuleOrder[i] : i \in 1 .. n - 1})
    /\ latest' = None
    /\ UNCHANGED <<machine, raised>>

(* A new process knows what was stored, and shows nothing yet. *)
Restart ==
    /\ raised' = {}
    /\ latest' = None
    /\ UNCHANGED <<now, machine, obs, kv, faults, recent, news, fewest>>

Init ==
    /\ now = 0
    /\ machine \in Machines
    /\ obs = [m \in Models |-> <<>>]
    /\ kv = [slow |-> [run |-> 0, last |-> None, base |-> None],
             cards |-> 0, sel |-> None,
             remap |-> [s \in Serials |-> None], ecc |-> [s \in Serials |-> None],
             power |-> [run |-> 0, peak |-> 0],
             restarts |-> None,
             parse |-> [tokens |-> None, timings |-> None, misses |-> 0]]
    /\ raised = {}
    /\ faults = 0
    /\ latest = None
    /\ recent = <<>>
    /\ news = [rid |-> None, at |-> None]
    /\ fewest = [s \in Serials |-> None]

Next ==
    \/ \E r \in machine, t \in Readings :
          \/ Poll(r, t)
          \/ \E n \in DOMAIN RuleOrder : PollFails(r, t, n)
    \/ Restart

Spec == Init /\ [][Next]_vars

-----------------------------------------------------------------------------
Levels == {"warning", "serious", "critical"}

(* The type invariant; a run has a rate, and no window is too long. *)
TypeOK ==
    /\ machine \in Machines
    /\ obs \in [Models -> Seq(Nat \ {0})]
    /\ \A m \in Models : Len(obs[m]) <= BaselineWindow
    /\ kv.slow \in [run : Nat, last : Counts, base : Counts]
    /\ kv.slow.run > 0 => kv.slow.last # None
    /\ kv.cards \in Nat
    /\ kv.sel \in [rid : Nat, grew : Counts, serious : BOOLEAN] \cup {None}
    /\ kv.remap \in [Serials -> Counts] /\ kv.ecc \in [Serials -> Counts]
    /\ kv.power \in [run : Nat, peak : 0 .. 2] /\ (kv.power.run = 0 <=> kv.power.peak = 0)
    /\ kv.restarts \in Counts
    /\ kv.parse \in [tokens : Counts, timings : Counts, misses : Nat]
    /\ \A a, b \in raised : a.key = b.key => a = b
    /\ \A a \in raised : a.level \in Levels
    /\ faults \in 0 .. MaxFaults

Shows(key) == \E a \in raised : a.key = key

(* config.py: "One slow observation nearly always means the request shared *)
(* the GPU".  A poll judged to the end shows slow_decode only if each of   *)
(* the latest SlowRun requests was slow, against a rate its own model      *)
(* still has in its window or outright - over polls that saw no request    *)
(* end, model switches, restarts and failing writes.                       *)
OneSlowRequestIsNoNews ==
    latest # None /\ Shows("slow_decode") =>
        /\ Len(recent) = SlowRun
        /\ \A i \in DOMAIN recent :
              LET o == recent[i]
              IN  \/ o.decode < ColdSlow
                  \/ /\ o.model # NoModel
                     /\ \E d \in ToSet(obs[o.model]) : o.decode * SlowDivisor < d

(* The latest SlowRun requests are all of one model that had been learned, *)
(* and each is slow against all that it was learned from.                  *)
FellBack(m) ==
    LET w == obs[m]
        n == Len(w) - SlowRun
    IN  /\ n >= MinSamples
        /\ recent = [i \in 1 .. SlowRun |-> [model |-> m, decode |-> w[n + i]]]
        /\ \A i \in 1 .. n, j \in n + 1 .. Len(w) : w[j] * SlowDivisor < w[i]

(* docs/alerts.md: "A CPU fallback makes every request slow, so it clears  *)
(* the bar within a few requests".  The SlowRun-th request at a fallback's *)
(* rate raises the critical alert, and polls in which no request ends keep *)
(* it, although each of those requests has drawn the median down.          *)
FallbackIsFound ==
    latest # None /\ faults = 0 /\ (\E m \in Models : FellBack(m)) =>
        [key |-> "slow_decode", level |-> "critical"] \in raised

(* bmc_log: "shown for a day after a new record appears".  On every poll   *)
(* that reads the log it is, whether or not the log is cleared meanwhile,  *)
(* the dashboard restarted, or the poll that saw it could not finish.      *)
NewRecordIsNews ==
    latest # None /\ latest.sel # None /\ news.at # None /\ now - news.at < SelHold =>
        Shows("sel")

(* _gpu_wear: "news only when they grow, since a used card arrives with    *)
(* some".  An alert about remapped rows follows an earlier reading of the  *)
(* same card with fewer, also after cards were swapped.                    *)
WearIsOfTheCard ==
    latest # None /\ Shows("remap") =>
        latest.card.remaps > fewest[latest.card.serial]

(* rules.py: the alert is held "so a real fallback reads as one sustained  *)
(* critical"; store.py: "those samples must not drag the baseline down to  *)
(* meet them".  Once it is shown, it stays while each request of the model *)
(* is as slow as the one before.                                           *)
FallbackIsSustained ==
    [][ /\ [key |-> "slow_decode", level |-> "critical"] \in raised
        /\ latest' # None
        /\ \/ latest'.decode = None
           \/ /\ latest'.model = Last(recent).model
              /\ latest'.decode <= Last(recent).decode
        => [key |-> "slow_decode", level |-> "critical"] \in raised' ]_vars

==============================================================================
