--------------------------- MODULE DashboardServer ---------------------------
(***************************************************************************)
(* The server of server/ws_server.cpp that feeds the dashboards: anybody   *)
(* broadcasts into the queue, the drain thread pops a message and sends it *)
(* to every client under a shared lock of conn_mutex_, and the server      *)
(* thread runs the handlers, which come and go under the exclusive lock.   *)
(* A client that fails three times on end is closed.  stop() is a sequence *)
(* of steps of main, which joins both threads.                             *)
(*                                                                         *)
(* The messages in the queue are counted: BroadcastQueue has the ring.     *)
(***************************************************************************)
EXTENDS Integers, SequencesExt

CONSTANTS Clients,
          Capacity,   \* of the queue
          MaxSendFaults, \* bound on the sends that fail
          MaxOpens    \* bound on the connections

ASSUME ServerConstants ==
    Capacity \in Nat /\ MaxSendFaults \in Nat /\ MaxOpens \in Nat

VARIABLES running,
          queued,      \* messages in queue_
          connections,
          drain,       \* "loop", "popped", "send", "exited"
          todo,        \* the clients left in this round of sends
          fail_counts, to_close,
          asked,       \* clients that the server has asked to close
          serving,     \* the server thread: "run", "stopping", "exited"
          opens, send_faults,
          rounds,      \* history: of a client that is there, the rounds of
          outcomes     \* sends since it came, and how its sends ended

drainer == <<drain, todo, fail_counts, to_close>>
history == <<rounds, outcomes>>
server == <<running, queued, connections, drainer, asked, serving, opens, send_faults,
            history>>

ServerInit ==
    /\ running = TRUE /\ queued = 0 /\ connections = {}
    /\ drain = "loop" /\ todo = {} /\ to_close = {}
    /\ fail_counts = [c \in Clients |-> 0]
    /\ asked = {} /\ serving = "run" /\ opens = 0 /\ send_faults = 0
    /\ rounds = [c \in Clients |-> 0] /\ outcomes = [c \in Clients |-> <<>>]

-----------------------------------------------------------------------------
(* broadcast(), of n messages *)

\* What the queue has no room for is dropped.
Room(n) == IF queued + n > Capacity THEN Capacity ELSE queued + n

Broadcast(n) ==
    /\ queued' = Room(n)
    /\ UNCHANGED <<running, connections, drainer, asked, serving, opens, send_faults, history>>

-----------------------------------------------------------------------------
(* The server thread *)

\* The drain thread holds conn_mutex_.
Locked == drain = "send"

\* A client that comes again is a connection of its own.
OnOpen(c) ==
    /\ serving = "run" /\ running /\ opens < MaxOpens
    /\ ~Locked /\ c \notin connections \cup asked
    /\ opens' = opens + 1
    /\ connections' = connections \cup {c}
    /\ UNCHANGED <<running, queued, drainer, asked, serving, send_faults, history>>

\* The client went, or was asked to.  Its count of failures is not read again.
OnClose(c) ==
    /\ serving # "exited" /\ ~Locked /\ c \in connections
    /\ connections' = connections \ {c}
    /\ asked' = asked \ {c}
    /\ fail_counts' = [fail_counts EXCEPT ![c] = 0]
    /\ rounds' = [rounds EXCEPT ![c] = 0] /\ outcomes' = [outcomes EXCEPT ![c] = <<>>]
    /\ UNCHANGED <<running, queued, drain, todo, to_close, serving, opens, send_faults>>

ServerExit ==
    /\ serving = "stopping" /\ serving' = "exited"
    /\ UNCHANGED <<running, queued, connections, drainer, asked, opens, send_faults, history>>

-----------------------------------------------------------------------------
(* drain_loop() *)

Drain(from, to) == drain = from /\ drain' = to

Pop ==
    /\ running /\ queued > 0
    /\ Drain("loop", "popped")
    /\ queued' = queued - 1
    /\ UNCHANGED <<running, connections, todo, fail_counts, to_close, asked, serving, opens,
                   send_faults, history>>

\* The shared lock, under which the clients are those there are now.
LockClients ==
    /\ Drain("popped", "send")
    /\ todo' = connections
    /\ rounds' = [c \in Clients |-> IF c \in connections THEN rounds[c] + 1 ELSE 0]
    /\ UNCHANGED <<running, queued, connections, fail_counts, to_close, asked, serving,
                   opens, send_faults, outcomes>>

\* Mutant: failures are counted over the life of a client.
SentStill(c) == fail_counts

Sent(c) == [fail_counts EXCEPT ![c] = 0]

SendSucceeds(c) ==
    /\ fail_counts' = Sent(c)
    /\ outcomes' = [outcomes EXCEPT ![c] = Append(@, TRUE)]
    /\ UNCHANGED <<to_close, send_faults>>

SendFails(c) ==
    /\ send_faults < MaxSendFaults /\ send_faults' = send_faults + 1
    /\ fail_counts' = [fail_counts EXCEPT ![c] = @ + 1]
    /\ to_close' = IF fail_counts'[c] >= 3 THEN to_close \cup {c} ELSE to_close
    /\ outcomes' = [outcomes EXCEPT ![c] = Append(@, FALSE)]

Send(c) ==
    /\ Drain("send", "send") /\ c \in todo
    /\ todo' = todo \ {c}
    /\ SendSucceeds(c) \/ SendFails(c)
    /\ UNCHANGED <<running, queued, connections, asked, serving, opens, rounds>>

\* The round is over: the lock is released, and then those that are too slow
\* are asked to close.  (That of a client that has gone meanwhile throws, which
\* is ignored.)
CloseSlow ==
    /\ Drain("send", "loop") /\ todo = {}
    /\ asked' = asked \cup to_close
    /\ to_close' = {}
    /\ UNCHANGED <<running, queued, connections, todo, fail_counts, serving, opens,
                   send_faults, history>>

\* What is left in the queue is not sent.
DrainExit ==
    /\ ~running
    /\ Drain("loop", "exited")
    /\ UNCHANGED <<running, queued, connections, todo, fail_counts, to_close, asked, serving,
                   opens, send_faults, history>>

DrainStep == Pop \/ LockClients \/ (\E c \in Clients : Send(c)) \/ CloseSlow \/ DrainExit

-----------------------------------------------------------------------------
(* stop(), in the order of its steps *)

\* Mutant: running_ stays true.
StopRunningNot == UNCHANGED server

StopRunning ==
    /\ running' = FALSE
    /\ UNCHANGED <<queued, connections, drainer, asked, serving, opens, send_faults, history>>

CloseAll ==
    /\ asked' = asked \cup connections
    /\ UNCHANGED <<running, queued, connections, drainer, serving, opens, send_faults, history>>

StopServing ==
    /\ serving' = "stopping"
    /\ UNCHANGED <<running, queued, connections, drainer, asked, opens, send_faults, history>>

Joined == serving = "exited" /\ drain = "exited" /\ UNCHANGED server

ServerStep == (\E c \in Clients : OnOpen(c) \/ OnClose(c)) \/ ServerExit
=============================================================================
