---------------------------- MODULE MCLearnedRules ----------------------------
(***************************************************************************)
(* What the store remembers for TLC, in two parts, of which a behaviour is *)
(* one: the rows of the rules with a memory, and the history.  Each kind   *)
(* of host reports one thing, as a host without the rest does; a host      *)
(* without an agent reports only what llama.cpp says.  Of the history,     *)
(* the tables' buckets are two and four polls wide.                        *)
(***************************************************************************)
EXTENDS LearnedRules, History

VARIABLE part

partVars == <<part, vars, historyVars>>

Silent ==
    [model |-> NoModel, decode |-> None, cards |-> None, sel |-> None, card |-> None,
     restarts |-> None, timings |-> None, tokens |-> None]

Request(m, d) == [Silent EXCEPT !.model = m, !.decode = d]

(* A model's norm of 9 and a fallback's 1, which is also slow for a model  *)
(* that is not known yet; requests that say nothing.                       *)
Decoding ==
    {Silent} \cup {Request(m, d) : m \in Models, d \in {1, 9}} \cup {Request(NoModel, 1)}

(* A board with a history, one that grows, is cleared and grows again. *)
Board ==
    {Silent} \cup {[Silent EXCEPT !.sel = [rid |-> n, serious |-> {2}]] : n \in 0 .. 2}

(* Two cards that take turns in a slot, each with rows and errors. *)
Slot ==
    {Silent} \cup
    {[Silent EXCEPT !.cards = 1,
                    !.card = [serial |-> s, remaps |-> n, ecc |-> n, draw |-> None]] :
        s \in Serials, n \in 0 .. 2}

(* A card that is lost, and a draw that spikes. *)
Power ==
    {[Silent EXCEPT !.cards = 0]} \cup
    {[Silent EXCEPT !.cards = 1,
                    !.card = [serial |-> s, remaps |-> 0, ecc |-> None, draw |-> w]] :
        s \in {CHOOSE s \in Serials : TRUE}, w \in 0 .. 2}

(* A unit that restarts, counts afresh, and logs or not. *)
Serving ==
    {Silent} \cup
    {[Silent EXCEPT !.restarts = n, !.timings = e, !.tokens = k] :
        n \in 0 .. 2, e \in 0 .. 1, k \in 0 .. 2}

(* A model whose unit restarts: a poll can store the one row and fail to   *)
(* store the other.                                                        *)
Restarting ==
    {Silent} \cup
    {[Request(m, d) EXCEPT !.restarts = n] :
        m \in {CHOOSE m \in Models : TRUE}, d \in {1, 9}, n \in 0 .. 1}

AllMachines == {Decoding, Restarting, Board, Slot, Power, Serving}

OneModel == {{Silent} \cup {Request(m, d) : m \in Models, d \in {1, 9}}}

RollupTables == <<"5m", "1h">>
RollupWidth == [n \in {"5m", "1h"} |-> IF n = "5m" THEN 2 ELSE 4]
RollupKeep == [n \in {"5m", "1h"} |-> IF n = "5m" THEN 20 ELSE 100]
UsageBars == [range \in Ranges |-> range \div 3]

StoreInit ==
    /\ part \in {"rules", "history"} /\ Init /\ HistoryInit
    /\ part = "history" => machine = CHOOSE m \in Machines : TRUE

StoreNext ==
    /\ UNCHANGED part
    /\ \/ part = "rules" /\ Next /\ UNCHANGED historyVars
       \/ part = "history" /\ HistoryNext /\ UNCHANGED vars

StoreSpec == StoreInit /\ [][StoreNext]_partVars

==============================================================================
