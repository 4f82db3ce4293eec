-------------------------- MODULE ExchangeWsClient --------------------------
(***************************************************************************)
(* The websocket client of exchange/ws_client.{h,cpp}: one connection that *)
(* is reopened when it is lost, and the three threads that keep it.  main  *)
(* calls connect() once and disconnect() at shutdown; io_thread_ runs the  *)
(* io_service of websocketpp and all the handlers; reconnect_thread_, which*)
(* on_close and on_fail start, opens the next attempt and then starts the  *)
(* next io_thread_.  The threads wait for each other with std::thread::join*)
(* only, and each join is a step of its own here.                          *)
(*                                                                         *)
(* External: websocketpp and asio.  run() dispatches handlers until stop() *)
(* or until no connection is left, and then leaves the io_service stopped; *)
(* reset() undoes that.  connect() makes a pending attempt, which run()    *)
(* opens or fails.                                                         *)
(***************************************************************************)
EXTENDS Integers

CONSTANTS MaxAttempts,           \* bound on the connections opened or tried
          InitialDelay, MaxDelay \* kInitial- and kMaxReconnectDelayMs

ASSUME ClientConstants ==
    /\ MaxAttempts \in Nat \ {0}
    /\ InitialDelay \in Nat /\ MaxDelay \in Nat /\ InitialDelay <= MaxDelay

VARIABLES
    conn,       \* each attempt: "none", "pending", "open", "closing", "gone"
    attempts,   \* attempts made; the last is connection_hdl_
    stopped,    \* the io_service's flag
    connected, shutting_down, auto_reconnect, delay,
    main, io, rec, \* the three threads; "none" is a std::thread not joinable
    calls,      \* of disconnect(): the adapter's, and the destructor's
    \* History, which no guard reads:
    overdue,    \* the attempts that were pending when their 2 s were over
    amid        \* disconnect() began when a reconnection had left its sleep

net   == <<conn, attempts, stopped>>
flags == <<connected, shutting_down, auto_reconnect, delay>>
past  == <<calls, overdue, amid>>
vars  == <<net, flags, main, io, rec, past>>

-----------------------------------------------------------------------------
Attempts == 1 .. MaxAttempts
Live == {i \in Attempts : conn[i] \in {"pending", "open", "closing"}}

\* A join on the thread returns at once, or is left out.
Ended(thread) == thread \in {"none", "exited"}

Init ==
    /\ conn = [i \in Attempts |-> "none"] /\ attempts = 0 /\ stopped = FALSE
    /\ connected = FALSE /\ shutting_down = FALSE /\ auto_reconnect = TRUE
    /\ delay = InitialDelay
    /\ main = "new" /\ io = "none" /\ rec = "none"
    /\ calls = 0 /\ overdue = {} /\ amid = FALSE

\* client_.connect(con), with con->get_handle() saved in connection_hdl_.  The
\* URIs of the adapters are valid: get_connection reports no error.
NewAttempt ==
    /\ attempts < MaxAttempts
    /\ attempts' = attempts + 1
    /\ conn' = [conn EXCEPT ![attempts + 1] = "pending"]

-----------------------------------------------------------------------------
(* io_thread_ *)

Event(i, from, to) ==
    /\ io = "run" /\ ~stopped
    /\ conn[i] \in from
    /\ conn' = [conn EXCEPT ![i] = to]
    /\ UNCHANGED <<attempts, stopped, shutting_down, auto_reconnect, main, rec, past>>

OnOpen(i) ==
    /\ Event(i, {"pending"}, "open")
    /\ connected' = TRUE
    /\ delay' = InitialDelay
    /\ UNCHANGED io

\* Mutant: on_fail does not go on to reconnect.
OnFailGivesUp(i) ==
    /\ i < MaxAttempts
    /\ Event(i, {"pending"}, "gone")
    /\ connected' = FALSE
    /\ UNCHANGED <<delay, io>>

\* The network may fail any attempt, and end any connection, but the last
\* within the bound.
OnFail(i) ==
    /\ i < MaxAttempts
    /\ Event(i, {"pending"}, "gone")
    /\ connected' = FALSE
    /\ io' = "lost"
    /\ UNCHANGED delay

OnClose(i) ==
    /\ conn[i] = "open" => i < MaxAttempts
    /\ Event(i, {"open", "closing"}, "gone")
    /\ connected' = FALSE
    /\ io' = "lost"
    /\ UNCHANGED delay

\* auto_reconnect_ && !shutting_down_, at the end of on_close and on_fail
DecideReconnect ==
    /\ io = "lost"
    /\ io' = IF auto_reconnect /\ ~shutting_down THEN "join" ELSE "run"
    /\ UNCHANGED <<net, flags, main, rec, past>>

\* reconnect_thread_.join(), and its next run
StartReconnect ==
    /\ io = "join" /\ Ended(rec)
    /\ rec' = "check" /\ io' = "run"
    /\ UNCHANGED <<net, flags, main, past>>

\* run() returns
RunIsOver == io = "run" /\ (stopped \/ Live = {})
IoExit ==
    /\ RunIsOver
    /\ io' = "exited" /\ stopped' = TRUE
    /\ UNCHANGED <<conn, attempts, flags, main, rec, past>>

-----------------------------------------------------------------------------
(* reconnect_thread_: reconnect_loop() *)

RecAt(from, to) == rec = from /\ rec' = to

\* Mutant: connected_ is not one of the loop's conditions.
CheckLoopAlways ==
    /\ rec = "check"
    /\ rec' = IF ~shutting_down /\ auto_reconnect THEN "sleep" ELSE "exited"
    /\ UNCHANGED <<net, flags, main, io, past>>

CheckLoop ==
    /\ rec = "check"
    /\ rec' = IF ~shutting_down /\ auto_reconnect /\ ~connected THEN "sleep"
              ELSE "exited"
    /\ UNCHANGED <<net, flags, main, io, past>>

\* The sleep of a second or more outlasts the return of a run() that has
\* nothing left to do.
SleepEnds == ~RunIsOver

\* Mutants: the second test of shutting_down_ is left out; so is the cap.
WakeUnchecked ==
    /\ RecAt("sleep", "reset") /\ SleepEnds
    /\ delay' = IF 2 * delay < MaxDelay THEN 2 * delay ELSE MaxDelay
    /\ UNCHANGED <<net, connected, shutting_down, auto_reconnect, main, io, past>>
BackoffUncapped == 2 * delay
Backoff == IF 2 * delay < MaxDelay THEN 2 * delay ELSE MaxDelay

Wake ==
    /\ rec = "sleep" /\ SleepEnds
    /\ IF shutting_down THEN rec' = "exited" /\ UNCHANGED delay
                        ELSE rec' = "reset" /\ delay' = Backoff
    /\ UNCHANGED <<net, connected, shutting_down, auto_reconnect, main, io, past>>

\* client_.reset()
Reset ==
    /\ RecAt("reset", "connect")
    /\ stopped' = FALSE
    /\ UNCHANGED <<conn, attempts, flags, main, io, past>>

Reconnect ==
    /\ RecAt("connect", "join")
    /\ NewAttempt
    /\ UNCHANGED <<stopped, flags, main, io, past>>

\* io_thread_.join(), and the next io_thread_
StartIo ==
    /\ RecAt("join", "linger")
    /\ Ended(io) /\ io' = "run"
    /\ UNCHANGED <<net, flags, main, past>>

\* The thread waits 2 s, whether the attempt is decided meanwhile or not; the
\* last within the bound is.
Linger ==
    /\ RecAt("linger", "check")
    /\ attempts = MaxAttempts /\ io = "run" /\ ~stopped =>
           conn[attempts] # "pending"
    /\ overdue' = IF conn[attempts] = "pending" THEN overdue \cup {attempts}
                  ELSE overdue
    /\ UNCHANGED <<net, flags, main, io, calls, amid>>

-----------------------------------------------------------------------------
(* main: connect() once, disconnect(), and disconnect() again of the        *)
(* destructor                                                               *)

MainAt(from, to) == main = from /\ main' = to

Connect ==
    /\ MainAt("new", "up")
    /\ shutting_down' = FALSE /\ delay' = InitialDelay
    /\ NewAttempt
    /\ Ended(io) /\ io' = "run"
    /\ UNCHANGED <<stopped, connected, auto_reconnect, rec, past>>

Disconnect ==
    /\ MainAt("up", "close")
    /\ shutting_down' = TRUE /\ auto_reconnect' = FALSE
    /\ calls' = 1
    /\ amid' = (rec \in {"reset", "connect", "join"})
    /\ UNCHANGED <<net, connected, delay, io, rec, overdue>>

\* ~ExchangeWsClient(), when main() has destroyed what the callbacks use; the
\* flags are as the first call left them.
Destroy ==
    /\ MainAt("done", "close")
    /\ calls = 1 /\ calls' = 2
    /\ UNCHANGED <<net, flags, io, rec, overdue, amid>>

\* client_.close(connection_hdl_), which fails on one that is not open
CloseLink ==
    /\ MainAt("close", "stop")
    /\ conn' = IF connected /\ conn[attempts] = "open"
               THEN [conn EXCEPT ![attempts] = "closing"] ELSE conn
    /\ UNCHANGED <<attempts, stopped, flags, io, rec, past>>

\* Mutant: the io_service is left to run out of work.
StopNever ==
    /\ MainAt("stop", "joinIo")
    /\ UNCHANGED <<net, flags, io, rec, past>>

Stop ==
    /\ MainAt("stop", "joinIo")
    /\ stopped' = TRUE
    /\ UNCHANGED <<conn, attempts, flags, io, rec, past>>

JoinIo ==
    /\ MainAt("joinIo", "joinRec")
    /\ Ended(io) /\ io' = "none"
    /\ UNCHANGED <<net, flags, rec, past>>

JoinReconnect ==
    /\ MainAt("joinRec", "done")
    /\ Ended(rec) /\ rec' = "none"
    /\ connected' = FALSE
    /\ UNCHANGED <<net, shutting_down, auto_reconnect, delay, io, past>>

-----------------------------------------------------------------------------
Handle == \E i \in Attempts : OnOpen(i) \/ OnFail(i)
IoStep == Handle \/ DecideReconnect \/ StartReconnect \/ IoExit
RecStep == CheckLoop \/ Wake \/ Reset \/ Reconnect \/ StartIo \/ Linger
Shutdown == CloseLink \/ Stop \/ JoinIo \/ JoinReconnect \/ Destroy

Terminated == main = "done" /\ calls = 2 /\ UNCHANGED vars

Next == IoStep \/ (\E i \in Attempts : OnClose(i)) \/ RecStep
        \/ Connect \/ Disconnect \/ Shutdown \/ Terminated

\* Threads that can run do; an attempt is decided (the handshake times out).
\* A connection need not close, nor main disconnect.
Fairness == WF_vars(IoStep) /\ WF_vars(RecStep) /\ WF_vars(Connect \/ Shutdown)

Spec == Init /\ [][Next]_vars
FairSpec == Spec /\ Fairness

-----------------------------------------------------------------------------
(* Properties *)

PastType == calls \in {0, 1, 2} /\ overdue \subseteq Attempts /\ amid \in BOOLEAN

\* The types of the flags and the positions of the three threads.
TypeOK ==
    /\ PastType
    /\ conn \in [Attempts -> {"none", "pending", "open", "closing", "gone"}]
    /\ attempts \in 0 .. MaxAttempts
    /\ stopped \in BOOLEAN /\ connected \in BOOLEAN
    /\ shutting_down \in BOOLEAN /\ auto_reconnect \in BOOLEAN
    /\ delay \in InitialDelay .. MaxDelay
    /\ main \in {"new", "up", "close", "stop", "joinIo", "joinRec", "done"}
    /\ io \in {"none", "run", "lost", "join", "exited"}
    /\ rec \in {"none", "check", "sleep", "reset", "connect", "join", "linger",
                "exited"}

\* The thread of the handlers and the reconnect thread wait for each other:
\* on_close or on_fail of an attempt that was still pending when its 2 s ended,
\* or of a link lost within them.
Blocked == io = "join" /\ rec = "join"

\* Two links at once deliver every order book update twice, and connection_hdl_
\* names only one of them.  Of two that are live, the older is one that the
\* handshake had not decided when its 2 s were over; a link that was lost, and
\* one that opened or failed in time, has no other beside it.
OneLink == \A i, j \in Live : i < j => i \in overdue

\* When disconnect() has returned no reconnection is under way; and unless it
\* began between the reset() of one and its new io_thread_, no thread is left
\* either to call back into the books, detector and executors that main destroys
\* next, and the client does not call itself connected.  If it did, the
\* destructor's call leaves none.
DisconnectLeavesNothing == main = "done" =>
    /\ rec = "none"
    /\ calls = 2 \/ ~amid => io = "none" /\ ~connected

\* A link that is down, or lost before it was up, comes back, unless the client
\* is being shut down or its two threads wait for each other.
LinkRestored ==
    (main = "up" /\ ~connected) ~> (connected \/ shutting_down \/ Blocked)

\* disconnect() returns, its joins end, if it does not begin between the reset()
\* of a reconnection and its new io_thread_, which stop() may miss; and so does
\* the destructor's call of it.
DisconnectReturns == (main = "close" /\ (calls = 2 \/ ~amid)) ~> main = "done"

\* The comment in on_close, "Launch reconnect in a separate thread so we don't
\* block the io_service": the handler never waits for a reconnect thread that
\* itself waits for the handler's thread.
IoServiceNotBlocked == ~Blocked

-----------------------------------------------------------------------------
(* Their inductive strengthening, which the proofs use *)

IsLive(i) == conn[i] \in {"pending", "open", "closing"}

\* An attempt that is not the last, or that the reconnect thread goes on from,
\* is live only if it was overdue.
LastInv ==
    /\ \A i \in Attempts : IsLive(i) => i <= attempts
    /\ \A i \in Attempts : IsLive(i) /\ i # attempts => i \in overdue
    /\ rec \in {"reset", "connect"} =>
           \A i \in Attempts : IsLive(i) => i \in overdue
    /\ main = "new" <=> attempts = 0
    /\ main = "new" => ~stopped /\ io = "none" /\ rec = "none"

\* disconnect() has begun when the flags say so.
FlagInv ==
    /\ shutting_down <=> main \notin {"new", "up"}
    /\ auto_reconnect <=> ~shutting_down
    /\ shutting_down <=> calls # 0

\* Until disconnect(): a reconnection is under way without a link, or with one
\* that is overdue; a link that is up is known to be; a link that was lost, or
\* that run() left behind, is none.
UpInv == ~shutting_down =>
    /\ rec = "sleep" \/ (rec = "check" /\ ~connected) =>
           \A i \in Attempts : IsLive(i) => i \in overdue
    /\ rec # "join" => \A i \in Attempts : IsLive(i) => i = attempts
    /\ rec \in {"reset", "connect"} /\ io = "run" =>
           \E i \in Attempts : IsLive(i)
    /\ rec = "connect" => ~stopped
    /\ rec # "join" => \A i \in Attempts : conn[i] = "open" => connected
    /\ rec = "join" /\ io = "exited" =>
           \A i \in Attempts : IsLive(i) => i = attempts /\ conn[i] = "pending"
    /\ stopped => \A i \in Attempts : ~IsLive(i)
    /\ io \in {"lost", "join", "exited"} /\ rec # "join" =>
           \A i \in Attempts : ~IsLive(i)
    /\ rec = "linger" /\ io = "exited" => stopped
    /\ io = "none" => main = "new"
    /\ \A i \in Attempts : conn[i] # "closing"

LinkInv == TypeOK /\ LastInv /\ FlagInv /\ UpInv

\* No thread is started once the reconnection under way is over; of the first
\* disconnect(), unless it began amid one, and of the second, main is the last.
JoinInv ==
    /\ shutting_down /\ ~amid => rec \notin {"reset", "connect", "join"}
    /\ calls = 2 \/ main \in {"joinRec", "done"} => io # "join"
    /\ calls = 2 \/ main = "done" => rec = "none"
    /\ calls = 2 => shutting_down
    /\ main \in {"joinRec", "done"} /\ (calls = 2 \/ ~amid) => io = "none"
    /\ main = "done" /\ (calls = 2 \/ ~amid) => ~connected
=============================================================================
