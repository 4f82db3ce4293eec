------------------------------ MODULE Reporting ------------------------------
(***************************************************************************)
(* What becomes of a trade when it is executed: the composition in main.cpp*)
(* of the trade log, the dashboard server, the callback of the detector in *)
(* the io threads, which logs and broadcasts every trade, the main loop,   *)
(* which reads the log back every two seconds for its P&L message, and the *)
(* shutdown after it.                                                      *)
(***************************************************************************)
EXTENDS TradeLogger, DashboardServer

CONSTANTS Pairs,      \* main's pairs
          PairOf,     \* of each trade; an earlier run may have had other pairs
          MaxTicks    \* bound on the rounds of the loop

ASSUME ReportingConstants ==
    /\ DOMAIN KeptFiles = {"paper", "live"}
    /\ (\A t \in Trades : PairOf[t] \in Pairs) /\ MaxTicks \in Nat

VARIABLES mode,      \* "paper" or "live"
          stage,     \* of each trade, in its thread
          booked,    \* the trades in total_pnl_ of the paper executor: of this run
          main,      \* main's place
          ticks,
          unread,    \* the pairs left of a tick
          total, per_pair, counted, \* the trades of total_pnl, pnl_per_pair and
                                    \* cached_total_trades
          before     \* history: what the log had when the tick began

reads == <<total, per_pair, counted>>
mainloop == <<main, ticks, unread, reads, before>>
vars == <<mode, stage, booked, mainloop, file, server>>

Init ==
    /\ mode \in {"paper", "live"}
    /\ LogInit(mode) /\ ServerInit
    /\ stage = [t \in Trades |-> "none"]
    /\ booked = {}
    /\ main = "loop" /\ ticks = 0 /\ unread = {} /\ before = {}
    /\ total = {} /\ per_pair = {} /\ counted = {}

-----------------------------------------------------------------------------
(* A trade in its thread: execute() and the callback *)

Stage(t, from, to) ==
    /\ stage[t] = from /\ stage' = [stage EXCEPT ![t] = to]
    /\ UNCHANGED <<mode, mainloop>>

\* The paper executor adds the profit before it logs.
Book(t) ==
    /\ Stage(t, "none", "booked") /\ main # "exited"
    /\ booked' = IF mode = "paper" THEN booked \cup {t} ELSE booked
    /\ UNCHANGED <<file, server>>

StartLog(t) == Stage(t, "booked", "logging") /\ BeginWrite(t) /\ UNCHANGED <<booked, server>>
LoseLog(t) == Stage(t, "booked", "logged") /\ FailWrite(t) /\ UNCHANGED <<booked, server>>
EndLog(t) == Stage(t, "logging", "logged") /\ EndWrite(t) /\ UNCHANGED <<booked, server>>

\* broadcast_trade(record)
Announce(t) == Stage(t, "logged", "done") /\ Broadcast(1) /\ UNCHANGED <<booked, file>>

TradeStep(t) == Book(t) \/ StartLog(t) \/ LoseLog(t) \/ EndLog(t) \/ Announce(t)

-----------------------------------------------------------------------------
(* The main loop *)

Goes(from, to) == main = from /\ main' = to /\ UNCHANGED <<mode, stage, booked>>

\* The fast path: prices, and the spreads of the pairs if they have two books.
FastPath ==
    /\ Goes("loop", "fast") /\ ticks < MaxTicks
    /\ ticks' = ticks + 1
    /\ \E spreads \in {0, Cardinality(Pairs)} : Broadcast(spreads + 1)
    /\ UNCHANGED <<unread, reads, before, file>>

\* Two seconds have not passed.
NoSlowPath == Goes("fast", "loop") /\ UNCHANGED <<ticks, unread, reads, before, file, server>>

\* The slow path begins with a heartbeat, and the balances in paper mode.
SlowPath ==
    /\ Goes("fast", "total") /\ unread' = Pairs
    /\ before' = load_all_trades
    /\ Broadcast(IF mode = "paper" THEN 2 ELSE 1)
    /\ UNCHANGED <<ticks, reads, file>>

ReadTotal ==
    /\ Goes("total", "pairs")
    /\ total' = IF mode = "paper" THEN booked ELSE load_all_trades
    /\ UNCHANGED <<ticks, unread, per_pair, counted, before, file, server>>

\* pnl_for_pair of a pair
ReadPair(p) ==
    /\ Goes("pairs", "pairs")
    /\ p \in unread /\ unread' = unread \ {p}
    /\ per_pair' = per_pair \cup {t \in load_all_trades : PairOf[t] = p}
    /\ UNCHANGED <<ticks, total, counted, before, file, server>>

\* Mutant: the statistics that are cached are taken.
ReadStatsCached ==
    /\ Goes("pairs", "report") /\ unread = {}
    /\ UNCHANGED <<ticks, unread, reads, before, file, server>>

\* The statistics that are cached are refreshed.
ReadStats ==
    /\ Goes("pairs", "report") /\ unread = {}
    /\ counted' = load_all_trades
    /\ UNCHANGED <<ticks, unread, total, per_pair, before, file, server>>

\* The P&L message, and in live mode the alerts.
Report ==
    /\ Goes("report", "loop")
    /\ \E alerts \in IF mode = "live" THEN 0 .. 1 ELSE {0} : Broadcast(1 + alerts)
    \* they go out of scope, and the count is not read before it is taken anew
    /\ total' = {} /\ per_pair' = {} /\ before' = {} /\ counted' = {}
    /\ UNCHANGED <<ticks, unread, file>>

\* g_shutdown.  The stop() of the tracker and of the fees join a thread each, which
\* looks at running_ every second (InventoryTracker has the tracker's).
Stop == Goes("loop", "others") /\ UNCHANGED server
StopOthers == Goes("others", "server") /\ UNCHANGED server

\* The order of stop() of the server.
StopServer == Goes("server", "close") /\ StopRunning
Close == Goes("close", "stop") /\ CloseAll
StopLoop == Goes("stop", "joining") /\ StopServing
Join == Goes("joining", "disconnect") /\ Joined

\* The adapters are disconnected, which ends the io threads, if each disconnect()
\* returns: ExchangeWsClient shows when it does not.
Exit ==
    /\ Goes("disconnect", "exited")
    /\ \A t \in Trades : stage[t] \in {"none", "done"}
    /\ UNCHANGED server

Stopped == Stop \/ StopOthers \/ StopServer \/ Close \/ StopLoop \/ Join \/ Exit
Shutdown == Stopped /\ UNCHANGED <<ticks, unread, reads, before, file>>

MainStep == FastPath \/ NoSlowPath \/ SlowPath \/ ReadTotal \/ (\E p \in Pairs : ReadPair(p))
            \/ ReadStats \/ Report \/ Shutdown

-----------------------------------------------------------------------------
Next ==
    \/ \E t \in Trades : TradeStep(t)
    \/ MainStep
    \/ (DrainStep \/ ServerStep) /\ UNCHANGED <<mode, stage, booked, mainloop, file>>

\* Threads that can run do; a client or a signal need not come, and a
\* disconnect() need not return.
Others == UNCHANGED <<mode, stage, booked, mainloop, file>>
Fairness ==
    /\ \A t \in Trades : WF_vars(StartLog(t) \/ LoseLog(t) \/ EndLog(t) \/ Announce(t))
    /\ WF_vars(Shutdown /\ main \notin {"loop", "disconnect"})
    /\ WF_vars(DrainStep /\ Others)
    /\ WF_vars(ServerExit /\ Others)

Spec == Init /\ [][Next]_vars /\ Fairness

-----------------------------------------------------------------------------
(* Properties *)

Logged == {t \in Trades : stage[t] \in {"logged", "done"}}

\* A trade that was logged in this run is found by every load, also while another
\* is being written, unless its own write failed or was short, or it was the next
\* on the line of one that was, or of the one that the file was kept with: a fault
\* costs two trades at most.
LostIsBounded ==
    /\ Logged \ load_all_trades \subseteq exposed
    /\ Cardinality(exposed) <= 2 * faults + (IF torn THEN 1 ELSE 0)

\* The figures of a P&L message are of loads at different times, while trades
\* go on: each counts what the one before it did, of main's pairs.  In paper mode
\* the first is the executor's, which has all that this run had logged, but none
\* of the trades of earlier runs that the other figures count.  The exception are
\* trades that share a line after a short write: the newline alone may have been
\* missing, and then a trade is counted until the next is logged.
OfPairs(trades) == {t \in trades : PairOf[t] \in Pairs}

ReportIsOrdered ==
    main = "report" =>
        /\ (IF mode = "live" THEN before ELSE before \ Earlier) \ total \subseteq Spoiled
        /\ OfPairs(IF mode = "live" THEN total ELSE before) \ per_pair \subseteq Spoiled
        /\ per_pair \ counted \subseteq Spoiled

\* Each client that is there was sent, since it came, what was popped, once;
\* and the server has asked those to close, unless all are, of which three
\* sends failed on end.
Slow(c) == \E i \in DOMAIN outcomes[c] :
               i > 2 /\ \A j \in i - 2 .. i : ~outcomes[c][j]

SlowIsClosed ==
    \A c \in connections :
        /\ Len(outcomes[c]) + (IF c \in todo THEN 1 ELSE 0) = rounds[c]
        /\ running => (c \in asked \cup to_close <=> Slow(c))

\* Once main has left its loop it gets as far as the adapters, with clients or
\* without, and with the drain thread wherever it is.  That their disconnect()
\* returns, and the program ends, is not said: it may not.
ShutdownReachesAdapters == (main = "others") ~> (main \in {"disconnect", "exited"})
=============================================================================
