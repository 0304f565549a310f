----------------------------- MODULE LlamaSleep ------------------------------
(***************************************************************************)
(* Polling a model that sleeps when idle: fetch_llama reads /health,       *)
(* /metrics, /props and, where should_poll_slots says so, /slots; Monitor. *)
(* _slots decides what stands for an answer that was not asked for.  The   *)
(* server's idle timer (--sleep-idle-seconds) is as config.py describes it *)
(* for the endpoints polled: /slots counts as activity and wakes a model,  *)
(* a /metrics scrape counts as activity before build b10519, /health and   *)
(* /props do not.  Every request of a poll is a step of its own: the timer *)
(* may fire and requests may begin and end in between.                     *)
(***************************************************************************)
EXTENDS Naturals

CONSTANTS
    Modes,        \* config.SLOTS_POLL
    SleepAfter,   \* the server's --sleep-idle-seconds, in ticks
    PollTicks,    \* the ticks a poll may take
    MaxWork,      \* bound of the model: the requests clients make
    MaxRefusals   \* bound of the model: answers that do not come

ASSUME SleepAssumption == SleepAfter \in Nat /\ PollTicks \in Nat /\ PollTicks < SleepAfter

VARIABLES
    setup,   \* the mode; whether the agent reports sleep_idle_s; the build
    model,   \* llama.cpp: asleep, busy, ticks since it last had work
    step,    \* what fetch_llama reads next
    read,    \* what this poll has read: requests running, is_sleeping
    slots_shown,   \* Monitor.last_slots and what the page shows of the slots
    spent    \* ticks this poll has taken, requests made, answers refused

sleepVars == <<setup, model, step, read, slots_shown, spent>>

NothingRead == [busy |-> FALSE, sleeping |-> "unread"]

(* Mutant: what is running does not count: /slots is read on every poll of *)
(* a model that is awake.                                                  *)
ShouldPollAwake == read.sleeping # "asleep"

(* Mutant: whether the model sleeps is not looked at. *)
ShouldPollAsleep ==
    \/ setup.mode = "always"
    \/ setup.mode # "busy" /\ ~setup.reported
    \/ read.busy

(* should_poll_slots. *)
ShouldPollSlots ==
    /\ read.sleeping # "asleep"
    /\ \/ setup.mode = "always"
       \/ setup.mode # "busy" /\ ~setup.reported
       \/ read.busy

Touched == [model EXCEPT !.asleep = FALSE, !.idle = 0]

ReadHealth ==
    /\ step = "health" /\ step' = "metrics"
    /\ UNCHANGED <<setup, model, read, slots_shown, spent>>

ReadMetrics(answered) ==
    /\ step = "metrics" /\ step' = "props"
    /\ answered \/ spent.refused < MaxRefusals
    /\ read' = [read EXCEPT !.busy = answered /\ model.busy]
    /\ model' = IF setup.safe THEN model ELSE Touched
    /\ spent' = [spent EXCEPT !.refused = IF answered THEN @ ELSE @ + 1]
    /\ UNCHANGED <<setup, slots_shown>>

ReadProps(answered) ==
    /\ step = "props" /\ step' = "slots"
    /\ answered \/ spent.refused < MaxRefusals
    /\ read' = [read EXCEPT !.sleeping = IF ~answered THEN "unread" ELSE IF model.asleep THEN "asleep" ELSE "awake"]
    /\ spent' = [spent EXCEPT !.refused = IF answered THEN @ ELSE @ + 1]
    /\ UNCHANGED <<setup, model, slots_shown>>

(* /slots, when it is asked, and Monitor._slots: a model seen asleep shows *)
(* none; else the last answer stands in.                                   *)
ReadSlots ==
    /\ step = "slots" /\ step' = "rest"
    /\ model' = IF ShouldPollSlots THEN Touched ELSE model
    /\ slots_shown' = IF ShouldPollSlots THEN [kept |-> TRUE, slots |-> "fresh"]
                ELSE [slots_shown EXCEPT !.slots = IF read.sleeping = "asleep" THEN "none"
                                             ELSE IF slots_shown.kept THEN "kept" ELSE "none"]
    /\ UNCHANGED <<setup, read, spent>>

(* The loop sleeps and polls again. *)
NextPoll ==
    /\ step = "rest" /\ step' = "health"
    /\ read' = NothingRead
    /\ spent' = [spent EXCEPT !.ticks = 0]
    /\ UNCHANGED <<setup, model, slots_shown>>

-----------------------------------------------------------------------------
(* The server's timer, while a poll is out for PollTicks at most. *)
Tick ==
    /\ ~model.busy /\ ~model.asleep
    /\ step # "rest" => spent.ticks < PollTicks
    /\ spent' = [spent EXCEPT !.ticks = IF step = "rest" THEN 0 ELSE @ + 1]
    /\ model' = [model EXCEPT !.idle = @ + 1, !.asleep = model.idle + 1 >= SleepAfter]
    /\ UNCHANGED <<setup, step, read, slots_shown>>

Begin ==
    /\ ~model.busy /\ spent.work < MaxWork
    /\ model' = [Touched EXCEPT !.busy = TRUE]
    /\ spent' = [spent EXCEPT !.work = @ + 1]
    /\ UNCHANGED <<setup, step, read, slots_shown>>

Finish ==
    /\ model.busy
    /\ model' = [Touched EXCEPT !.busy = FALSE]
    /\ UNCHANGED <<setup, step, read, slots_shown, spent>>

SleepInit ==
    /\ setup \in [mode : Modes, reported : BOOLEAN, safe : BOOLEAN]
    /\ model \in {[asleep |-> a, busy |-> FALSE, idle |-> IF a THEN SleepAfter ELSE 0] :
                      a \in BOOLEAN}
    /\ step = "health"
    /\ read = NothingRead
    /\ slots_shown = [kept |-> FALSE, slots |-> "none"]
    /\ spent = [ticks |-> 0, work |-> 0, refused |-> 0]

Polls ==
    \/ ReadHealth \/ ReadSlots \/ NextPoll
    \/ \E answered \in BOOLEAN : ReadMetrics(answered) \/ ReadProps(answered)

SleepNext == Polls \/ Tick \/ Begin \/ Finish

SleepSpec == SleepInit /\ [][SleepNext]_sleepVars

(* The loop goes on, the clock too, and a request that began ends. *)
SleepFairness == WF_sleepVars(Polls) /\ WF_sleepVars(Tick) /\ WF_sleepVars(Finish)

-----------------------------------------------------------------------------
Careful == setup.mode = "busy" \/ (setup.mode = "auto" /\ setup.reported)

(* config.py: "When sleep is in play, /slots is therefore read only while  *)
(* requests are running".  Where the dashboard knows that the model may    *)
(* sleep, polling it for ever does not keep an idle one awake: once the    *)
(* clients are done it falls asleep, and stays so.                         *)
IdleModelSleeps == Careful /\ setup.safe => <>[]model.asleep

(* config.py: "In every mode a sleeping model is left asleep."  No poll    *)
(* wakes it, except by the scrape of an old build, or in a mode that asks  *)
(* whatever the metrics say, when /props was refused or the timer fired    *)
(* after it.                                                               *)
LeftAsleep ==
    [][model.asleep /\ ~model'.asleep /\ ~model'.busy
       => \/ step = "metrics" /\ ~setup.safe
          \/ step = "slots" /\ ~Careful /\ (read.sleeping = "unread" \/ spent.ticks > 0)
      ]_sleepVars

==============================================================================
