------------------------------ MODULE Ruleset -------------------------------
(***************************************************************************)
(* The variables with which hive starts a client for the fork of a fixture *)
(* (simulators/helpers/ruleset.py): the block number or the timestamp at   *)
(* which each fork is active, and the blob parameters of the forks.  The   *)
(* table is written by hand for each fork, so it can differ from what the  *)
(* fixture was filled with.  A variable is named by the fork it activates. *)
(***************************************************************************)
EXTENDS ForkBase

NotYet == 2000
TransitionTime == 15000

\* HIVE_FORK_..., in the order of the forks; the vote of the DAO is asked for apart.
Numbered_ ==
    <<"Homestead", "Tangerine", "Spurious", "Byzantium", "Constantinople", "ConstantinopleFix",
      "Istanbul", "Berlin", "London">>
Timed == <<"Shanghai", "Cancun", "Prague", "Osaka", "BPO1", "BPO2", "BPO3", "BPO4", "Amsterdam">>

\* What f says, and g where f says nothing.
f ++ g == [x \in DOMAIN f \union DOMAIN g |-> IF x \in DOMAIN f THEN f[x] ELSE g[x]]

Place(q, f) == CHOOSE i \in DOMAIN q : q[i] = f
Named_(q, from, to) == {q[i] : i \in from..to}

\* The first n at block 0 and the others not yet.
FirstNumbers(n) ==
    [f \in Named_(Numbered_, 1, n) |-> 0] ++ [f \in Named_(Numbered_, n + 1, 9) |-> NotYet]

\* What a fork has in the table; up_to is the fork whose blob parameters, and those of
\* the forks before it, are added.
Rules(number, time, up_to) == [number |-> number, time |-> time, up_to |-> up_to]
NoTimes == [f \in {} |-> 0]

Before_(name) ==
    Rules(FirstNumbers(IF name = "Frontier" THEN 0 ELSE 1) ++ [DAO |-> NotYet], NoTimes, "Frontier")

ByzantiumToIstanbul == Named_(Numbered_, 4, 7)
BerlinAndLondon == {"Berlin", "London"}
ByNumber(name) == Rules(FirstNumbers(Place(Numbered_, name)), NoTimes, "Frontier")

BerlinToLondon == Rules([London |-> 5] ++ FirstNumbers(8), NoTimes, "Frontier")

\* From the merge on: every numbered fork is active, and the total difficulty reached.
Merged == FirstNumbers(9) ++ [Paris |-> 0]

\* The first n timed forks from the start, the next one perhaps at the transition.
FirstTimes(n) == [f \in Named_(Timed, 1, n) |-> 0]

\* Mutant: the fork after the transition is active from the start.
TimedAtOnce(n) == FirstTimes(n) ++ [f \in {Timed[n + 1]} |-> 0]

ThenAtTransition(n) == FirstTimes(n) ++ [f \in {Timed[n + 1]} |-> TransitionTime]

At0(name) == Rules(Merged, FirstTimes(Place(Timed, name)), name)
To(name) ==
    Rules(Merged, ThenAtTransition(Place(Timed, name) - 1), name)

\* The table, by the forks of its parts.
ParisToPrague ==
    [f \in {"Paris"} |-> Rules(Merged, NoTimes, "Frontier")]
    ++ [f \in {"Shanghai", "Cancun", "Prague"} |-> At0(f)]
    ++ [f \in {"ParisToShanghaiAtTime15k"} |-> To("Shanghai")]
    ++ [f \in {"ShanghaiToCancunAtTime15k"} |-> To("Cancun")]
    ++ [f \in {"CancunToPragueAtTime15k"} |-> To("Prague")]

OsakaToBPO2 ==
    [f \in {"Osaka", "BPO1", "BPO2"} |-> At0(f)]
    ++ [f \in {"PragueToOsakaAtTime15k"} |-> To("Osaka")]
    ++ [f \in {"OsakaToBPO1AtTime15k"} |-> To("BPO1")]
    ++ [f \in {"BPO1ToBPO2AtTime15k"} |-> To("BPO2")]

BPO3ToAmsterdam ==
    [f \in {"BPO3", "BPO4", "Amsterdam"} |-> At0(f)]
    ++ [f \in {"BPO2ToBPO3AtTime15k"} |-> To("BPO3")]
    ++ [f \in {"BPO3ToBPO4AtTime15k"} |-> To("BPO4")]

ruleset ==
    [f \in {"Frontier", "Homestead"} |-> Before_(f)]
    ++ [f \in ByzantiumToIstanbul \union BerlinAndLondon |-> ByNumber(f)]
    ++ [f \in {"BerlinToLondonAt5"} |-> BerlinToLondon]
    ++ ParisToPrague ++ OsakaToBPO2 ++ BPO3ToAmsterdam

(***************************************************************************)
(* The client.                                                             *)
(***************************************************************************)
\* from the fork back to the first without blobs
get_blob_schedule_entries(name) == BlobEntries(Class[name])

NoClient == [number |-> NoTimes, time |-> NoTimes, blobs |-> {}]

\* Without an entry in the table no client is started.
environment(f) ==
    IF f \notin DOMAIN ruleset THEN NoClient
    ELSE LET rules == ruleset[f]
         IN  [number |-> rules.number, time |-> rules.time,
              blobs |-> get_blob_schedule_entries(rules.up_to)]

\* The newest fork that is active in a block, in the order in which a client knows
\* them: by number, the merge, by time.
ClientFork(rules, number, time) ==
    LET order == Numbered_ \o <<"Paris">> \o Timed
        on(f) == \/ f \in DOMAIN rules.number /\ rules.number[f] <= number
                 \/ f \in DOMAIN rules.time /\ rules.time[f] <= time
        active == {i \in DOMAIN order : on(order[i])}
    IN  IF active = {} THEN "Frontier"
        ELSE order[CHOOSE i \in active : \A j \in active : j <= i]
=============================================================================
