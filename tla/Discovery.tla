------------------------------ MODULE Discovery ------------------------------
(***************************************************************************)
(* The agent's runtimes: the target that serves llama.cpp, asked anew      *)
(* whenever the `guests` cache refreshes.                                  *)
(*                                                                         *)
(* A place is where units can be: a container of a Proxmox host, this      *)
(* host's Docker, or its systemd.  Which units a container or systemd has  *)
(* is remembered between refreshes, Docker is asked each time.  To the     *)
(* agent, a command that failed is one that listed nothing.  Of times only *)
(* ages are kept, none above the largest that is told apart.               *)
(***************************************************************************)
EXTENDS Naturals, SequencesExt

CONSTANTS
    Hosts,           \* the agents: the runtime, the places in the order they
                     \* are looked at, and config.LLM_CTID or Nowhere
    Nowhere,         \* no place
    DiscoveryTTL,    \* DISCOVERY_TTL
    DiscoveryRetry,  \* DISCOVERY_RETRY
    GuestsTTL,       \* the TTL of the guests cache
    RefreshWithin    \* by when the refresher has come round to it again

ASSUME DiscoveryAssumption ==
    /\ \A h \in Hosts :
          /\ Nowhere \notin ToSet(h.places)
          /\ h.fixed \in ToSet(h.places) \cup {Nowhere}
          /\ h.runtime = "auto" => h.places = <<"docker", "systemd">> /\ h.fixed = Nowhere
    /\ {DiscoveryTTL, DiscoveryRetry, GuestsTTL, RefreshWithin} \subseteq Nat \ {0}
    /\ DiscoveryRetry <= DiscoveryTTL /\ GuestsTTL <= RefreshWithin

VARIABLES
    agent,    \* which of Hosts
    \* The machine.
    running,  \* the places that run
    home,     \* the places with a unit's file
    serves,   \* where a unit is active, or Nowhere
    \* The agent.
    known,    \* _discovery: the place, if it has units, and the age of that
    llm_ct,   \* the guests cache: the place (vmid), if it has units, and the
    cached_for, \* place of the active unit (endpoint); and its age
    \* History.
    steady    \* since when the machine is as it is and every command worked

worldVars == <<agent, running, home, serves>>
discoveryVars == <<worldVars, known, llm_ct, cached_for, steady>>

Places == ToSet(agent.places)

NoTargetFound == [vmid |-> Nowhere, units |-> FALSE, endpoint |-> Nowhere]

LongAgo == DiscoveryTTL + DiscoveryRetry + RefreshWithin

Older(age) == IF age < LongAgo THEN age + 1 ELSE age

-----------------------------------------------------------------------------
(* A container starts or stops, units are added or moved, one is started   *)
(* or stopped.                                                             *)
MachineChanges ==
    /\ \/ /\ agent.runtime = "proxmox-lxc"
          /\ \E p \in Places :
                \/ p \in running /\ running' = running \ {p}
                \/ p \notin running /\ running' = running \cup {p}
          /\ serves' = (IF serves \in running' THEN serves ELSE Nowhere)
          /\ UNCHANGED home
       \/ /\ home' \in SUBSET Places \ {home}
          /\ serves' = (IF serves \in home' THEN serves ELSE Nowhere)
          /\ UNCHANGED running
       \/ /\ serves' \in ((home \cap running) \cup {Nowhere}) \ {serves}
          /\ UNCHANGED <<running, home>>
    /\ steady' = 0
    /\ UNCHANGED <<agent, known, llm_ct, cached_for>>

(* Time passes, but the refresher comes round. *)
TimePasses ==
    /\ cached_for < RefreshWithin
    /\ known' = [known EXCEPT !.age = Older(@)]
    /\ cached_for' = cached_for + 1
    /\ steady' = Older(steady)
    /\ UNCHANGED <<worldVars, llm_ct>>

-----------------------------------------------------------------------------
(* list_units, is_llama: where the commands in the places of deaf fail. *)
ListsUnits(p, deaf) == p \in (home \cap running) \ deaf

(* Mutant: what was found is good for as long as it runs. *)
StillKnownWhileUp(seen) ==
    IF known.place = Nowhere THEN known.age < DiscoveryRetry ELSE known.place \in seen

(* What was found is good for DiscoveryTTL, unless it is no longer among   *)
(* the containers seen running; nothing, for DiscoveryRetry.               *)
StillKnown(seen) ==
    /\ known.age < (IF known.place = Nowhere THEN DiscoveryRetry ELSE DiscoveryTTL)
    /\ known.place \in seen \cup {Nowhere}

(* The first of the places, in their order, that is one of some. *)
First(some) ==
    LET firsts == {i \in DOMAIN agent.places :
                      /\ agent.places[i] \in some
                      /\ \A j \in 1 .. i - 1 : agent.places[j] \notin some}
    IN  IF firsts = {} THEN Nowhere ELSE agent.places[CHOOSE i \in firsts : TRUE]

(* find_inference_ct: the container of the configuration, or the first of  *)
(* those seen running that lists a unit.                                   *)
FindInferenceCT(seen, deaf) ==
    LET place == IF agent.fixed # Nowhere THEN agent.fixed
                 ELSE First({p \in seen : ListsUnits(p, deaf)})
    IN  IF StillKnown(seen) THEN known
        ELSE [place |-> place, units |-> ListsUnits(place, deaf), age |-> 0]

(* unit_names, the same of this host's systemd. *)
UnitNames(deaf) ==
    LET has == ListsUnits("systemd", deaf)
    IN  IF StillKnown({"systemd"}) THEN known
        ELSE [place |-> IF has THEN "systemd" ELSE Nowhere, units |-> has, age |-> 0]

(* probe: the state of the units whose names are known, if it answers. *)
Probed(place, units, mute) ==
    LET answers == units /\ place \in running \ mute
    IN  [vmid |-> place, units |-> answers,
         endpoint |-> IF answers /\ serves = place THEN serves ELSE Nowhere]

(* Docker keeps nothing between two listings. *)
CollectDocker(deaf, mute) ==
    IF ListsUnits("docker", deaf) THEN Probed("docker", TRUE, mute) ELSE NoTargetFound

(* collect_guests: the runtime that serves, else one with units, else the  *)
(* first.                                                                  *)
Ranked(docker, systemd) ==
    IF docker.endpoint # Nowhere THEN docker
    ELSE IF systemd.endpoint # Nowhere THEN systemd
    ELSE IF systemd.units /\ ~docker.units THEN systemd ELSE docker

(* The guests cache refreshes.  Any of its commands may fail: those that   *)
(* list a place's units, those that read their state, and that which lists *)
(* the containers, when none is seen to run.                               *)
RefreshGuests ==
    /\ cached_for >= GuestsTTL
    /\ \E deaf, mute \in SUBSET Places, seen \in {running, {}} :
          /\ \/ /\ agent.runtime = "proxmox-lxc"
                /\ known' = FindInferenceCT(seen, deaf)
                /\ llm_ct' = Probed(known'.place, known'.units, mute)
             \/ /\ agent.runtime = "auto" /\ seen = running
                /\ known' = UnitNames(deaf)
                /\ llm_ct' = Ranked(CollectDocker(deaf, mute),
                                    Probed(known'.place, known'.units, mute))
          /\ steady' = (IF deaf \cup mute = {} /\ seen = running THEN steady ELSE 0)
    /\ cached_for' = 0
    /\ UNCHANGED worldVars

DiscoveryInit ==
    /\ agent \in Hosts
    /\ running = Places /\ home \in SUBSET Places /\ serves \in home \cup {Nowhere}
    /\ known = [place |-> Nowhere, units |-> FALSE, age |-> LongAgo]
    /\ llm_ct = NoTargetFound
    /\ cached_for = RefreshWithin
    /\ steady = 0

DiscoveryNext == MachineChanges \/ TimePasses \/ RefreshGuests

DiscoverySpec == DiscoveryInit /\ [][DiscoveryNext]_discoveryVars

-----------------------------------------------------------------------------
(* Where the units are, for an agent that looked now. *)
Serving ==
    IF agent.fixed # Nowhere THEN agent.fixed
    ELSE IF agent.runtime = "auto" /\ serves # Nowhere THEN serves
    ELSE First(home \cap running)

(* proxmox_lxc.py: which container serves llama.cpp "is re-checked on a    *)
(* slower clock - and at once if the container found last time stops".     *)
(* Once the machine has been as it is, and every command has worked, for   *)
(* DISCOVERY_TTL and one refresh, the agent's target is the right one with *)
(* the endpoint of the unit active there; it takes DISCOVERY_RETRY and a   *)
(* refresh where nothing had been found, and one refresh to let go of a    *)
(* container that stopped.                                                 *)
FoundInTime ==
    /\ steady > DiscoveryTTL + RefreshWithin =>
          llm_ct = [vmid |-> Serving,
                    units |-> Serving \in home \cap running,
                    endpoint |-> IF serves = Serving THEN serves ELSE Nowhere]
    /\ steady > DiscoveryRetry + RefreshWithin /\ known.place = Nowhere =>
          llm_ct.vmid = Serving
    /\ steady > RefreshWithin => llm_ct.vmid \in running \cup {agent.fixed, Nowhere}

==============================================================================
