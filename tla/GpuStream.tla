------------------------------ MODULE GpuStream ------------------------------
(***************************************************************************)
(* collectors/nvidia.py: nvidia-smi in loop mode, read by a thread of its  *)
(* own (GpuStream.run), and the refresher's thread, which serves the rows  *)
(* that are fresh and kills a process that is silent (rows), or asks once  *)
(* where there are none (collect_gpus).  Of times only ages are kept, none *)
(* above the largest that is told apart.                                   *)
(***************************************************************************)
EXTENDS Naturals

CONSTANTS
    Cards,         \* the cards of the host
    MaxAge,        \* GpuStream.MAX_AGE
    Stall,         \* GpuStream.STALL
    Respawn,       \* the sleep between two processes
    CollectWithin  \* by when the refresher has come round to the gpu cache

ASSUME GpuAssumption ==
    /\ {MaxAge, Stall, Respawn} \subseteq Nat
    /\ CollectWithin \in Nat \ {0}

VARIABLES
    lost,       \* card |-> if it is off the bus, and for how long
    process,    \* GpuStream.proc: none, runs or is wedged, and for how long
    latest,     \* GpuStream.latest: card |-> the age of its last row
    last_line,  \* the age of GpuStream.last_line
    counted     \* the last collect_gpus: its cards, how long those that were
                \* off the bus had been by then, and how old it is

gpuVars == <<lost, process, latest, last_line, counted>>

Ages == MaxAge + Stall + Respawn + CollectWithin + 1

Ageing(age) == IF age < Ages THEN age + 1 ELSE age

Present == {c \in Cards : ~lost[c].is}

Is(state) == [is |-> state, age |-> 0]

-----------------------------------------------------------------------------
(* run(): a process is started once the last has ended and the sleep is    *)
(* over.                                                                   *)
Launches ==
    /\ process.is = "none" /\ process.age >= Respawn
    /\ process' = Is("runs")
    /\ UNCHANGED <<lost, latest, last_line, counted>>

(* Rows are read, of some of the cards that are there: its first may be    *)
(* long in coming.                                                         *)
RowsArrive ==
    /\ process.is = "runs"
    /\ \E cards \in SUBSET Present \ {{}} :
          latest' = [c \in Cards |-> IF c \in cards THEN 0 ELSE latest[c]]
    /\ last_line' = 0
    /\ UNCHANGED <<lost, process, counted>>

(* It goes silent, or it dies and run() reads the end of its output. *)
ProcessFails ==
    /\ process.is = "runs"
    /\ process' \in {[process EXCEPT !.is = "wedged"], Is("none")}
    /\ UNCHANGED <<lost, latest, last_line, counted>>

CardDropsOff ==
    /\ \E c \in Present : lost' = [lost EXCEPT ![c] = Is(TRUE)]
    /\ UNCHANGED <<process, latest, last_line, counted>>

(* Mutant: the rows are fresh while the stream delivers any. *)
FreshByStream == {c \in Cards : latest[c] < Ages /\ last_line <= MaxAge}

(* rows(): each card's row has its own age. *)
Fresh == {c \in Cards : latest[c] <= MaxAge}

(* The last line, of whichever process it was, is too old. *)
Stalled == process.is # "none" /\ last_line > Stall

(* collect_gpus: the fresh rows, or a query of its own, which may fail.    *)
(* Where the stream stalled its process is killed.                         *)
CollectGpus ==
    /\ \E cards \in {Fresh} \cup (IF Fresh = {} THEN {Present} ELSE {}) :
          counted' = [cards |-> {c \in cards : ~lost[c].is},
                      late |-> {lost[c].age : c \in {x \in cards : lost[x].is}}, age |-> 0]
    /\ process' = IF Stalled THEN Is("none") ELSE process
    /\ UNCHANGED <<lost, latest, last_line>>

(* Time passes, but the refresher comes round. *)
SecondPasses ==
    /\ counted.age < CollectWithin
    /\ lost' = [c \in Cards |-> [lost[c] EXCEPT !.age = IF lost[c].is THEN Ageing(@) ELSE @]]
    /\ process' = [process EXCEPT !.age = Ageing(@)]
    /\ latest' = [c \in Cards |-> Ageing(latest[c])]
    /\ last_line' = Ageing(last_line)
    /\ counted' = [counted EXCEPT !.age = @ + 1]

GpuInit ==
    /\ lost = [c \in Cards |-> Is(FALSE)]
    /\ process = Is("runs")
    /\ latest = [c \in Cards |-> Ages]
    /\ last_line = Ages
    /\ counted = [cards |-> {}, late |-> {}, age |-> 0]

GpuNext ==
    Launches \/ RowsArrive \/ ProcessFails \/ CardDropsOff \/ CollectGpus \/ SecondPasses

GpuSpec == GpuInit /\ [][GpuNext]_gpuVars

-----------------------------------------------------------------------------
(* nvidia.py: "a card that drops off the bus stops being printed, ages out *)
(* and disappears from the count within MAX_AGE - the GPU-count alert      *)
(* still works", whatever becomes of the process; and "a stream silent for *)
(* STALL seconds is killed and restarted": none is silent for longer than  *)
(* that and until the refresher comes round.                               *)
LostCardIsNotCounted ==
    /\ \A age \in counted.late : age <= MaxAge
    /\ process.is # "none" =>
          last_line <= Stall + CollectWithin \/ process.age <= CollectWithin

==============================================================================
