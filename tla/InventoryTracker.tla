-------------------------- MODULE InventoryTracker --------------------------
(***************************************************************************)
(* execution/inventory_tracker.{h,cpp}: what the bot believes it has of an *)
(* asset at each exchange.  The monitor thread fetches all balances with   *)
(* mutex_ held, and looks for drift; the live engine adds the fills of a   *)
(* trade with record_fill(); main stops the monitor at shutdown.           *)
(*                                                                         *)
(* One asset stands for all, since no operation relates two.  What it has  *)
(* at an exchange changes when an order is filled there, which the engine  *)
(* records later, if its answer told it at all.                            *)
(***************************************************************************)
EXTENDS Integers, Sequences, FiniteSets, Functions

CONSTANTS Accounts,       \* the exchanges, for the asset that each holds
          Throwing,       \* exchanges whose adapter throws if a fetch fails;
                          \* the others return no balances
          Absent,         \* no balance
          Deposits,       \* what an exchange has at first
          Changes,        \* what a fill may add or take
          DriftThreshold, \* drift_threshold_pct_
          MaxFills,       \* bound on the fills
          MaxFailures     \* bound on the fetches that fail

ASSUME InventoryConstants ==
    /\ IsFiniteSet(Accounts) /\ Throwing \subseteq Accounts
    /\ Absent \notin Int
    /\ Deposits \in [Accounts -> Nat] /\ Changes \subseteq Int
    /\ DriftThreshold \in Nat /\ MaxFills \in Nat /\ MaxFailures \in Nat

VARIABLES states,         \* states_: the balance, or Absent if there is no entry
          running, thread, \* the monitor thread
          left, fetched,  \* locals of refresh_balances(), which holds mutex_
          alerts,         \* what check_drift() last returned
          stop,           \* main in stop()
          fills,          \* the fills at the exchanges
          unrecorded,     \* those that record_fill() is still to be called for
          recorded,       \* history: those that it was called for
          seen, booked,   \* history: those that states has, fetched or recorded
          failures

fillVars == <<fills, unrecorded>>
counted == <<recorded, seen, booked>>
trackerVars == <<states, running, thread, left, fetched, alerts, stop, fillVars, counted,
                 failures>>

Fills == [exchange : Accounts, change : Changes]
Unseen == {0}   \* what seen[e] is when no good balance of e is stored

-----------------------------------------------------------------------------
Change == [i \in DOMAIN fills |-> fills[i].change]
FillsAt(e) == {i \in DOMAIN fills : fills[i].exchange = e}

\* What an exchange has.
Held == [e \in Accounts |-> Deposits[e] + SumFunctionOnSet(Change, FillsAt(e))]

Amount(balance) == IF balance = Absent THEN 0 ELSE balance

TrackerInit ==
    /\ states = [e \in Accounts |-> Absent]
    /\ running = FALSE /\ thread = "off" /\ stop = "no"
    /\ left = {} /\ fetched = Absent /\ alerts = {}
    /\ fills = <<>> /\ unrecorded = {} /\ recorded = {}
    /\ failures = 0
    /\ seen = [e \in Accounts |-> Unseen] /\ booked = [e \in Accounts |-> {}]

-----------------------------------------------------------------------------
(* The exchanges and the engine *)

\* An order is filled; the engine hears of it if that was in the answer.
FillOrder ==
    /\ Len(fills) < MaxFills
    /\ \E e \in Accounts, c \in Changes :
           /\ Held[e] + c >= 0
           /\ fills' = Append(fills, [exchange |-> e, change |-> c])
    /\ unrecorded' \in {unrecorded, unrecorded \cup {Len(fills')}}
    /\ UNCHANGED <<states, running, thread, left, fetched, alerts, stop, counted, failures>>

\* Mutant: no lock is held from the fetch of a balance to its store.
UnlockedAlways == TRUE
Unlocked == thread \notin {"fetch", "store"}

RecordFill(i) ==
    /\ i \in unrecorded /\ Unlocked
    /\ unrecorded' = unrecorded \ {i} /\ recorded' = recorded \cup {i}
    /\ LET e == fills[i].exchange
       IN  /\ states' = [states EXCEPT ![e] = Amount(@) + Change[i]]
           /\ booked' = [booked EXCEPT ![e] = @ \cup {i}]
    /\ UNCHANGED <<running, thread, left, fetched, alerts, stop, fills, seen, failures>>

-----------------------------------------------------------------------------
(* The monitor thread *)

StartMonitoring ==
    /\ ~running /\ thread = "off" /\ stop = "no"
    /\ running' = TRUE /\ thread' = "loop"
    /\ UNCHANGED <<states, left, fetched, alerts, stop, fillVars, counted, failures>>

\* Mutant: the flag is not looked at.
GoesOnAlways == TRUE
GoesOn == running

Loop ==
    /\ thread = "loop"
    /\ IF GoesOn THEN thread' = "fetch" /\ left' = Accounts
       ELSE thread' = "ended" /\ UNCHANGED left
    /\ UNCHANGED <<states, running, fetched, alerts, stop, fillVars, counted, failures>>

\* fetch_balances() of the next exchange.
Fetch(e) ==
    /\ thread = "fetch" /\ e \in left
    /\ thread' = "store"
    /\ \/ /\ fetched' = [exchange |-> e, amount |-> Held[e], fills |-> FillsAt(e)]
          /\ UNCHANGED failures
       \/ /\ failures < MaxFailures /\ failures' = failures + 1
          /\ e \notin Throwing
          /\ fetched' = [exchange |-> e, amount |-> 0, fills |-> Unseen]
    /\ UNCHANGED <<states, running, left, alerts, stop, fillVars, counted>>

NextExchange(e) ==
    /\ left' = left \ {e}
    /\ thread' = IF left' = {} THEN "check" ELSE "fetch"

\* The exception is caught, and the exchange keeps its state.
GoOn(e) == NextExchange(e)

FetchThrows(e) ==
    /\ thread = "fetch" /\ e \in left \cap Throwing
    /\ failures < MaxFailures /\ failures' = failures + 1
    /\ GoOn(e)
    /\ UNCHANGED <<states, running, fetched, alerts, stop, fillVars, counted>>

\* Mutant: an asset that the exchange no longer has keeps its entry.
StoredOverOld(e, amount) == IF amount > 0 THEN amount ELSE states[e]
\* A balance of nothing is no entry.
Stored(e, amount) == IF amount > 0 THEN amount ELSE Absent

Store ==
    /\ thread = "store"
    /\ LET e == fetched.exchange
       IN  /\ states' = [states EXCEPT ![e] = Stored(e, fetched.amount)]
           /\ seen' = [seen EXCEPT ![e] = fetched.fills]
           /\ booked' = [booked EXCEPT ![e] = {}]
           /\ NextExchange(e)
    /\ fetched' = Absent
    /\ UNCHANGED <<running, alerts, stop, fillVars, recorded, failures>>

Present == {e \in Accounts : states[e] # Absent}

\* Mutant: the imbalance is compared with the least balance and not the mean.
ExceedsOfLeast(most, least, total, n) == (most - least) * 100 > DriftThreshold * least
\* The imbalance in percent of the mean exceeds the threshold.
Exceeds(most, least, total, n) == (most - least) * n * 100 > DriftThreshold * total

CheckDrift ==
    LET n == Cardinality(Present)
        total == SumFunctionOnSet(states, Present)
    IN  IF n < 2 \/ total <= 0 THEN {}
        ELSE LET most == CHOOSE e \in Present : \A f \in Present : states[e] >= states[f]
                 least == CHOOSE e \in Present : \A f \in Present : states[e] <= states[f]
             IN  {a \in {[excess |-> most, deficit |-> least]} :
                      Exceeds(states[most], states[least], total, n)}

Check ==
    /\ thread = "check" /\ thread' = "sleep" /\ alerts' = CheckDrift
    /\ UNCHANGED <<states, running, left, fetched, stop, fillVars, counted, failures>>

Sleep ==
    /\ thread = "sleep" /\ thread' = "loop"
    /\ UNCHANGED <<states, running, left, fetched, alerts, stop, fillVars, counted,
                   failures>>

-----------------------------------------------------------------------------
(* main, in stop() *)

Stop ==
    /\ stop = "no"
    /\ running' = FALSE
    /\ stop' = IF running THEN "join" ELSE "done"
    /\ UNCHANGED <<states, thread, left, fetched, alerts, fillVars, counted, failures>>

Join ==
    /\ stop = "join" /\ thread = "ended" /\ stop' = "done"
    /\ UNCHANGED <<states, running, thread, left, fetched, alerts, fillVars, counted,
                   failures>>

-----------------------------------------------------------------------------
Monitor == Loop \/ (\E e \in Accounts : Fetch(e) \/ FetchThrows(e)) \/ Store
           \/ Check \/ Sleep

RecordOne == \E i \in unrecorded : RecordFill(i)

TrackerNext == FillOrder \/ RecordOne \/ StartMonitoring \/ Monitor \/ Stop \/ Join

\* The monitor goes on, and so does an engine with fills to record, which waits
\* for the lock with others but gets it in the end; main need not stop.
TrackerSpec ==
    /\ TrackerInit /\ [][TrackerNext]_trackerVars
    /\ WF_trackerVars(Monitor) /\ SF_trackerVars(RecordOne) /\ WF_trackerVars(Join)

-----------------------------------------------------------------------------
(* Properties *)

\* The types of the tracker's state.  The thread ends only when it is told to,
\* whatever the exchanges answer.
TrackerTypeOK ==
    /\ fills \in Seq(Fills)
    /\ seen \in [Accounts -> SUBSET Nat] /\ booked \in [Accounts -> SUBSET Nat]
    /\ states \in [Accounts -> Int \cup {Absent}]
    /\ running \in BOOLEAN /\ stop \in {"no", "join", "done"}
    /\ thread \in {"off", "loop", "fetch", "store", "check", "sleep", "ended"}
    /\ thread = "ended" => ~running
    /\ left \subseteq Accounts
    /\ thread = "store" => fetched \in [exchange : left, amount : Nat, fills : SUBSET Nat]
    /\ alerts \subseteq [excess : Accounts, deficit : Accounts]
    /\ unrecorded \subseteq DOMAIN fills /\ failures \in 0 .. MaxFailures
    /\ \A e \in Accounts : Held[e] >= 0

\* Fetches and calls of record_fill() do not lose each other's work: of a balance
\* that was fetched, the tracker has what it was then and what was recorded
\* since, and each fill recorded is in one of the two (in both, if the exchange
\* filled the order before the fetch and the engine recorded it after).
FillsAreCounted ==
    \A e \in {x \in Accounts : seen[x] # Unseen} :
        /\ Amount(states[e]) = Deposits[e] + SumFunctionOnSet(Change, seen[e])
                               + SumFunctionOnSet(Change, booked[e])
        /\ recorded \cap FillsAt(e) \subseteq seen[e] \cup booked[e]

\* The inductive invariant: a fill is recorded at most once, and what has been
\* fetched and is not stored yet has all that was recorded, since nothing can be
\* recorded meanwhile.
RecordsInv ==
    /\ recorded \subseteq DOMAIN fills \ unrecorded
    /\ \A e \in Accounts :
           /\ seen[e] = Unseen \/ seen[e] \subseteq FillsAt(e)
           /\ booked[e] \subseteq recorded \cap FillsAt(e)

FetchedInv ==
    thread = "store" =>
        \/ fetched.fills = Unseen
        \/ /\ fetched.fills \subseteq FillsAt(fetched.exchange)
           /\ fetched.amount = Deposits[fetched.exchange]
                               + SumFunctionOnSet(Change, fetched.fills)
           /\ recorded \cap FillsAt(fetched.exchange) \subseteq fetched.fills

TrackerInv == TrackerTypeOK /\ RecordsInv /\ FetchedInv /\ FillsAreCounted

Exact == \A e \in Accounts : Amount(states[e]) = Held[e]

\* By what the exchanges hold, one has more than another by more than the
\* threshold of what they have on average.
Drifts(excess, deficit) ==
    (Held[excess] - Held[deficit]) * Cardinality(Accounts) * 100
        > DriftThreshold * SumFunction(Held)

\* With the right balances check_drift() raises no false alert, although it
\* leaves out the exchanges that have no entry.
AlertIsReal ==
    [][Check /\ Exact => \A a \in alerts' : Drifts(a.excess, a.deficit)]_trackerVars

\* Fills counted twice, fills the engine never heard of and failed fetches are
\* put right in time, as long as the monitor runs.
Converges == <>[]running => <>[]Exact

\* stop() returns: the monitor ends, from wherever it is.
StopReturns == stop = "join" ~> stop = "done"
=============================================================================
