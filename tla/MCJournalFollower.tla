-------------------------- MODULE MCJournalFollower --------------------------
(***************************************************************************)
(* The agent for TLC, in four parts, of which a behaviour is one: the      *)
(* follower (two units of one container, or one unit that is moved to      *)
(* another), the parser of the lines that its tails bring, the search for  *)
(* the target (by each runtime), and the stream of GPU readings.           *)
(***************************************************************************)
EXTENDS JournalFollower, JournalParser, Discovery, GpuStream

VARIABLE part

partVars == <<part, vars, parserVars, discoveryVars, gpuVars>>

TwoUnits == {[ct |-> "101", unit |-> "llama"], [ct |-> "101", unit |-> "llama-big"]}

Moved == {[ct |-> "101", unit |-> "llama"], [ct |-> "102", unit |-> "llama"]}

(* Containers, one container that is configured, and Docker with systemd. *)
AllHosts ==
    {[runtime |-> "proxmox-lxc", places |-> <<"101", "102">>, fixed |-> Nowhere],
     [runtime |-> "proxmox-lxc", places |-> <<"101", "102">>, fixed |-> "102"],
     [runtime |-> "auto", places |-> <<"docker", "systemd">>, fixed |-> Nowhere]}

JournalInit ==
    /\ part \in {"follower", "parser", "discovery", "gpu"}
    /\ Init /\ ParserInit /\ DiscoveryInit /\ GpuInit
    /\ part # "discovery" =>
          /\ agent = CHOOSE h \in Hosts : h.runtime = "auto"
          /\ home = {} /\ serves = Nowhere

JournalNext ==
    /\ UNCHANGED part
    /\ \/ part = "follower" /\ Next
          /\ UNCHANGED <<parserVars, discoveryVars, gpuVars>>
       \/ part = "parser" /\ (ParserNext \/ UNCHANGED parserVars)
          /\ UNCHANGED <<vars, discoveryVars, gpuVars>>
       \/ part = "discovery" /\ DiscoveryNext
          /\ UNCHANGED <<vars, parserVars, gpuVars>>
       \/ part = "gpu" /\ GpuNext
          /\ UNCHANGED <<vars, parserVars, discoveryVars>>

(* The fairness of the follower, where it is the part. *)
JournalSpec ==
    /\ JournalInit /\ [][JournalNext]_partVars
    /\ WF_vars(part = "follower" /\ Run)
    /\ SF_vars(part = "follower" /\ Spawn)
    /\ SF_vars(part = "follower" /\ End)
    /\ WF_vars(part = "follower" /\ WatchTarget)

==============================================================================
