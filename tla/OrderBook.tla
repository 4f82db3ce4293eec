----------------------------- MODULE OrderBook -----------------------------
(***************************************************************************)
(* The seqlock of orderbook/order_book.cpp: the websocket thread of an     *)
(* exchange applies updates to a book and copies its top levels into       *)
(* fixed arrays, while any thread takes a snapshot() of the arrays without *)
(* a lock.                                                                 *)
(*                                                                         *)
(* Levels.  What snapshot() may get wrong is which update a value comes    *)
(* from, so a price level is the number of the update that wrote it, and   *)
(* the update itself is the two numbers of levels it leaves in the book.   *)
(* Times and sequence ids are numbers of updates too (the feed numbers its *)
(* updates from 1).                                                        *)
(*                                                                         *)
(* Threads.  apply_snapshot and apply_delta hold mutex_ from beginning to  *)
(* end, so there is one writer.  A reader writes nothing that is shared,   *)
(* so one reader, calling again and again, stands for all of them.         *)
(***************************************************************************)
EXTENDS Integers, Sequences

CONSTANTS TopLevels,  \* TOP_LEVELS, 20 in the code
          BookLevels, \* most levels of one side of the full book
          Depth,      \* the argument of snapshot()
          MaxUpdates  \* bound on the updates applied

ASSUME BookConstants ==
    /\ TopLevels \in Nat \ {0} /\ BookLevels \in Nat
    /\ Depth \in Nat /\ MaxUpdates \in Nat

VARIABLES
    updates,          \* history: for each update, the sizes of bids_ and asks_
    last_sequence_id, last_update_time, seqlock, num_top, top,
    wpc, wside, wpos, \* the writer: next step, side and level of the copy
    snap, snap_id, snap_time,            \* the reader: the levels, sequence_id
    rseq, rpc, rside, rpos, rcount,      \* and local_timestamp; its locals
    kept              \* history: the size that each vector of levels had when
                      \* the present pass came to it

book     == <<updates, last_sequence_id, last_update_time, seqlock, num_top, top>>
writer   == <<wpc, wside, wpos>>
locals   == <<rseq, rpc, rside, rpos, rcount>>
reader   == <<snap, snap_id, snap_time, locals, kept>>
bookVars == <<book, writer, reader>>

-----------------------------------------------------------------------------
Sides == {"bids", "asks"}
Versions == 0 .. MaxUpdates

NoLevel == 0 \* PriceLevel{}: price 0, quantity 0
Epoch == -1  \* time_point{}; the constructor's now() is 0

Lesser(a, b) == IF a < b THEN a ELSE b

Odd(n) == n % 2 = 1

\* vector::operator[] within the size, and resize(), which fills what it adds
\* with PriceLevel{}.  snapshot() also writes past the size after an earlier
\* pass shrank the vector: the store lands in the vector's spare capacity and
\* resize() overwrites it.
Store(vec, i, x) == IF i \in DOMAIN vec THEN [vec EXCEPT ![i] = x] ELSE vec
Resize(vec, n) == [i \in 1 .. n |-> IF i \in DOMAIN vec THEN vec[i] ELSE NoLevel]

\* The number of levels snapshot() makes room for, and what it starts from.
Room == Lesser(Depth, TopLevels)
Blank == [s \in Sides |-> Resize(<<>>, Room)]

BookInit ==
    /\ updates = <<>> /\ last_sequence_id = 0 /\ last_update_time = 0
    /\ seqlock = 0
    /\ num_top = [s \in Sides |-> 0]
    /\ top = [s \in Sides |-> [i \in 1 .. TopLevels |-> NoLevel]]
    /\ wpc = "idle" /\ wside = "bids" /\ wpos = 1
    /\ snap = Blank /\ snap_id = 0 /\ snap_time = Epoch /\ rseq = 0 /\ rpc = "idle"
    /\ rside = "bids" /\ rpos = 1 /\ rcount = 0
    /\ kept = [s \in Sides |-> Room]

-----------------------------------------------------------------------------
(* apply_snapshot and an apply_delta that is not stale *)

WriterAt(from, to) == wpc = from /\ wpc' = to

\* The vectors bids_ and asks_ are rebuilt or edited, and last_sequence_id_ is
\* set, before the seqlock is taken.
UpdateBook(sizes) ==
    /\ Len(updates) < MaxUpdates
    /\ WriterAt("idle", "enter")
    /\ updates' = Append(updates, sizes)
    /\ last_sequence_id' = Len(updates) + 1
    /\ UNCHANGED <<last_update_time, seqlock, num_top, top, wside, wpos, reader>>

\* Mutant: the critical section is entered without the first increment.
EnterWithoutIncrement ==
    /\ WriterAt("enter", "time")
    /\ UNCHANGED <<book, wside, wpos, reader>>

Enter ==
    /\ WriterAt("enter", "time")
    /\ seqlock' = seqlock + 1
    /\ UNCHANGED <<updates, last_sequence_id, last_update_time, num_top, top,
                   wside, wpos, reader>>

SetTime ==
    /\ WriterAt("time", "count")
    /\ last_update_time' = Len(updates)
    /\ wside' = "bids"
    /\ UNCHANGED <<updates, last_sequence_id, seqlock, num_top, top, wpos, reader>>

\* Mutant: the number of levels is not cut at TOP_LEVELS.
SyncCountUnbounded ==
    /\ WriterAt("count", "level")
    /\ num_top' = [num_top EXCEPT ![wside] = updates[Len(updates)][wside]]
    /\ wpos' = 1
    /\ UNCHANGED <<updates, last_sequence_id, last_update_time, seqlock, top,
                   wside, reader>>

\* sync_top_levels, one side after the other
SyncCount ==
    /\ WriterAt("count", "level")
    /\ num_top' = [num_top EXCEPT ![wside] =
                       Lesser(TopLevels, updates[Len(updates)][wside])]
    /\ wpos' = 1
    /\ UNCHANGED <<updates, last_sequence_id, last_update_time, seqlock, top,
                   wside, reader>>

SyncLevel ==
    /\ wpc = "level" /\ wpos <= num_top[wside]
    /\ top' = [top EXCEPT ![wside][wpos] = Len(updates)]
    /\ wpos' = wpos + 1
    /\ UNCHANGED <<updates, last_sequence_id, last_update_time, seqlock, num_top,
                   wpc, wside, reader>>

SyncNextSide ==
    /\ wpc = "level" /\ wpos > num_top[wside]
    /\ wside' = "asks"
    /\ wpc' = IF wside = "bids" THEN "count" ELSE "leave"
    /\ UNCHANGED <<book, wpos, reader>>

Leave ==
    /\ WriterAt("leave", "idle")
    /\ seqlock' = seqlock + 1
    /\ UNCHANGED <<updates, last_sequence_id, last_update_time, num_top, top,
                   wside, wpos, reader>>

-----------------------------------------------------------------------------
(* snapshot(depth) *)

ReaderAt(from, to) == rpc = from /\ rpc' = to

CallSnapshot ==
    /\ rpc \in {"idle", "done"} /\ rpc' = "load"
    /\ snap' = Blank /\ snap_id' = 0 /\ snap_time' = Epoch
    /\ kept' = [s \in Sides |-> Room]
    /\ UNCHANGED <<book, writer, rseq, rside, rpos, rcount>>

\* An odd value makes `continue` jump to the loop's condition.
LoadSeq ==
    /\ rpc = "load"
    /\ rseq' = seqlock
    /\ rpc' = IF Odd(seqlock) THEN "recheck" ELSE "sequence"
    /\ UNCHANGED <<book, writer, snap, snap_id, snap_time, rside, rpos, rcount, kept>>

ReadSequenceId ==
    /\ ReaderAt("sequence", "time")
    /\ snap_id' = last_sequence_id
    /\ UNCHANGED <<book, writer, snap, snap_time, rseq, rside, rpos, rcount, kept>>

ReadTime ==
    /\ ReaderAt("time", "count")
    /\ snap_time' = last_update_time
    /\ rside' = "bids"
    /\ UNCHANGED <<book, writer, snap, snap_id, rseq, rpos, rcount, kept>>

ReadCount ==
    /\ ReaderAt("count", "level")
    /\ rcount' = Lesser(Room, num_top[rside])
    /\ rpos' = 1
    /\ kept' = [kept EXCEPT ![rside] = Len(snap[rside])]
    /\ UNCHANGED <<book, writer, snap, snap_id, snap_time, rseq, rside>>

ReadLevel ==
    /\ rpc = "level" /\ rpos <= rcount
    /\ snap' = [snap EXCEPT ![rside] = Store(@, rpos, top[rside][rpos])]
    /\ rpos' = rpos + 1
    /\ UNCHANGED <<book, writer, snap_id, snap_time, rseq, rpc, rside, rcount, kept>>

ResizeSide ==
    /\ rpc = "level" /\ rpos > rcount
    /\ snap' = [snap EXCEPT ![rside] = Resize(@, rcount)]
    /\ rside' = "asks"
    /\ rpc' = IF rside = "bids" THEN "count" ELSE "recheck"
    /\ UNCHANGED <<book, writer, snap_id, snap_time, rseq, rpos, rcount, kept>>

\* Mutant: the loop's condition is not tested.
RecheckNever ==
    /\ ReaderAt("recheck", "done")
    /\ UNCHANGED <<book, writer, snap, snap_id, snap_time, rseq, rside, rpos, rcount, kept>>

\* while (seqlock_.load() != seq)
Recheck ==
    /\ rpc = "recheck"
    /\ rpc' = IF seqlock = rseq THEN "done" ELSE "load"
    /\ UNCHANGED <<book, writer, snap, snap_id, snap_time, rseq, rside, rpos, rcount, kept>>

-----------------------------------------------------------------------------
Update == (\E sizes \in [Sides -> 0 .. BookLevels] : UpdateBook(sizes))
          \/ Enter \/ SetTime \/ SyncCount \/ SyncLevel \/ SyncNextSide \/ Leave

Snapshot == CallSnapshot \/ LoadSeq \/ ReadSequenceId \/ ReadTime \/ ReadCount
            \/ ReadLevel \/ ResizeSide \/ Recheck

BookNext == Update \/ Snapshot

BookSpec == BookInit /\ [][BookNext]_bookVars

-----------------------------------------------------------------------------
(* Properties *)

\* The types of the book, of the writer's position and of the reader's locals.
BookTypeOK ==
    /\ updates \in Seq([Sides -> 0 .. BookLevels]) /\ Len(updates) <= MaxUpdates
    /\ last_sequence_id \in Versions /\ last_update_time \in Versions
    /\ seqlock \in Nat
    /\ num_top \in [Sides -> 0 .. TopLevels]
    /\ top \in [Sides -> [1 .. TopLevels -> Versions]]
    /\ wpc \in {"idle", "enter", "time", "count", "level", "leave"}
    /\ wside \in Sides /\ wpos \in 1 .. TopLevels + 1
    /\ snap \in [Sides -> Seq(Versions)]
    /\ snap_id \in Versions /\ snap_time \in Versions \cup {Epoch}
    /\ rseq \in Nat
    /\ rpc \in {"idle", "load", "sequence", "time", "count", "level", "recheck",
                "done"}
    /\ rside \in Sides /\ rpos \in 1 .. TopLevels + 1 /\ rcount \in 0 .. TopLevels
    /\ kept \in [Sides -> Nat]

\* The number of levels that the arrays hold of a side after update v.
TopCount(v, s) == IF v = 0 THEN 0 ELSE Lesser(TopLevels, updates[v][s])

\* The arrays of side s hold update v, whole.
ArrayHolds(s, v) ==
    /\ num_top[s] = TopCount(v, s)
    /\ \A i \in 1 .. num_top[s] : top[s][i] = v

\* A snapshot has as many levels of side s as update v.  Those within the size
\* that the vector had when the last pass came to it are the update's; those
\* beyond were written past the end and are blanked by resize().
SnapHolds(s, v) ==
    /\ Len(snap[s]) = Lesser(Room, TopCount(v, s))
    /\ \A i \in 1 .. Len(snap[s]) :
           snap[s][i] = IF i <= kept[s] THEN v ELSE NoLevel

\* Whenever the seqlock is even the arrays hold one whole update, the one that
\* the seqlock counts: the copy of sync_top_levels never shows through an even
\* value, with bids of one update beside asks of another.
PublishedIsWhole ==
    ~Odd(seqlock) =>
        LET v == seqlock \div 2
        IN  /\ v <= Len(updates)
            /\ last_update_time = v
            /\ \A s \in Sides : ArrayHolds(s, v)

\* A snapshot that leaves the loop on an even value is not torn: its time, its
\* numbers of levels and its levels come from one update.  It is whole if no
\* earlier pass of the call met a shorter book; if one did, the levels beyond
\* that book are blank, price and quantity 0, and no other level ever is.  The
\* sequence id may be that of the next update, whose levels it does not have yet.
ValidatedIsOfOneUpdate ==
    rpc = "done" /\ ~Odd(rseq) =>
        LET v == rseq \div 2
        IN  /\ v <= Len(updates)
            /\ snap_time = v
            /\ snap_id \in {v, v + 1}
            /\ \A s \in Sides : SnapHolds(s, v)

\* Why: the writer's position determines the seqlock and how much of the
\* arrays already holds the last update.
WriterInv ==
    LET v == Len(updates)
        was == IF wpc = "enter" THEN v - 1 ELSE v
    IN  /\ last_sequence_id = v
        /\ wpc # "idle" => v > 0
        /\ wpc \in {"idle", "enter"} =>
               /\ seqlock = 2 * was
               /\ last_update_time = was
               /\ \A s \in Sides : ArrayHolds(s, was)
        /\ wpc \in {"time", "count", "level", "leave"} => seqlock = 2 * v - 1
        /\ wpc \in {"count", "level", "leave"} => last_update_time = v
        /\ wpc \in {"count", "level"} /\ wside = "asks" => ArrayHolds("bids", v)
        /\ wpc = "level" =>
               /\ num_top[wside] = TopCount(v, wside)
               /\ \A i \in 1 .. num_top[wside] : i < wpos => top[wside][i] = v
        /\ wpc = "leave" => \A s \in Sides : ArrayHolds(s, v)

\* What the reader has read so far is of update v.
ReadOf(v) ==
    /\ rpc \in {"time", "count", "level", "recheck", "done"} =>
           v <= Len(updates) /\ snap_id \in {v, v + 1}
    /\ rpc \in {"count", "level", "recheck", "done"} => snap_time = v
    /\ rpc \in {"count", "level"} /\ rside = "asks" => SnapHolds("bids", v)
    /\ rpc = "level" =>
           /\ rcount = Lesser(Room, TopCount(v, rside))
           /\ kept[rside] = Len(snap[rside])
           /\ \A i \in 1 .. Len(snap[rside]) :
                  i < rpos /\ i <= rcount => snap[rside][i] = v
    /\ rpc \in {"recheck", "done"} => \A s \in Sides : SnapHolds(s, v)

\* While the seqlock still has the even value that the reader loaded, what it
\* has read so far is of the published update; once it has returned, all is.
ReaderInv ==
    /\ rseq <= seqlock
    /\ rpc \in {"sequence", "time", "count", "level"} => ~Odd(rseq)
    /\ \A v \in Versions :
           rseq = 2 * v /\ (seqlock = rseq \/ rpc = "done") => ReadOf(v)

\* The inductive invariant.
SeqlockInv == BookTypeOK /\ WriterInv /\ ReaderInv
=============================================================================
