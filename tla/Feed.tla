--------------------------------- MODULE Feed ---------------------------------
(***************************************************************************)
(* The feed of one exchange, from the exchange's market to the book that   *)
(* the detector reads: main.cpp subscribes every pair and connects, the    *)
(* <exchange>_ws.cpp of the exchange replays the subscriptions on every    *)
(* new link and parses its messages, and OrderBook::apply_snapshot and     *)
(* apply_delta edit the two sorted vectors of the book.                    *)
(*                                                                         *)
(* ExchangeWsClient has the threads that restore a link; here a link is up *)
(* or down, and what is on its way is lost with it.  A message may be      *)
(* malformed: the handler catches the exception and drops it.  The         *)
(* exchange is external: Binance, OKX and MEXC send whole books, Bybit and *)
(* Gate.io a whole book upon a subscription and then what changes.         *)
(***************************************************************************)
EXTENDS Integers, FiniteSets, SequencesExt

CONSTANTS Pairs, Prices,
          Kinds,      \* the adapters to choose from
          Markets,    \* the books an exchange may have: [bids, asks], where a
                      \* side gives the quantity of every price
          MaxChanges, \* bounds on the changes of the market, the links
          MaxLinks,   \* and the malformed messages
          MaxDrops

Adapters == {"binance", "okx", "bybit", "mexc", "gateio"}

ASSUME FeedConstants ==
    /\ Kinds \subseteq Adapters
    /\ IsFiniteSet(Pairs) /\ Prices \subseteq Nat /\ IsFiniteSet(Prices)
    /\ Markets # {}
    /\ Markets \subseteq [bids : [Prices -> Nat], asks : [Prices -> Nat]]
    /\ MaxChanges \in Nat /\ MaxLinks \in Nat /\ MaxDrops \in Nat

VARIABLES kind,
          callbacks, pending_subs, \* of the adapter: sets of pairs
          link, links,             \* "off", "up" or "down"; links so far
          asked,                   \* subscriptions on their way
          served, market, serial,  \* of the exchange: pairs, books, last id
          wire,                    \* messages on their way
          changes, drops,
          book, last_sequence_id,  \* of each pair's OrderBook
          seen, gap                \* history: the market that the last message
                                   \* was of; a change was missed since the
                                   \* last whole book

client == <<callbacks, pending_subs>>
exchange == <<served, market, serial, changes>>
books == <<book, last_sequence_id, seen, gap>>
feedVars == <<kind, client, link, links, asked, exchange, wire, drops, books>>

Level(p, q) == [price |-> p, quantity |-> q]

\* The order of a side of the book, and a set of levels in this order: the
\* place of a level is behind all those above it.  (No price comes twice.)
Above(descending, p, q) == IF descending THEN p > q ELSE p < q
Sorted(levels, descending) ==
    [i \in 1 .. Cardinality(levels) |->
        CHOOSE l \in levels :
            i = 1 + Cardinality({k \in levels : Above(descending, k.price, l.price)})]
Positive(levels) == {l \in levels : l.quantity > 0}

NoBook == [bids |-> <<>>, asks |-> <<>>]

FeedInit ==
    /\ kind \in Kinds
    /\ callbacks = {} /\ pending_subs = {}
    /\ link = "off" /\ links = 0
    /\ asked = {} /\ served = {} /\ wire = <<>>
    \* All markets begin as one of them: changes lead to the others.
    /\ market = [p \in Pairs |-> CHOOSE m \in Markets : TRUE]
    /\ serial = 1 /\ changes = 0 /\ drops = 0
    /\ book = [p \in Pairs |-> NoBook]
    /\ last_sequence_id = [p \in Pairs |-> 0]
    /\ seen = [p \in Pairs |-> [side \in {"bids", "asks"} |-> [x \in Prices |-> 0]]]
    /\ gap = [p \in Pairs |-> FALSE]

-----------------------------------------------------------------------------
(* Subscriptions *)

\* main subscribes before it connects, so that subscribe_depth sends nothing.
Subscribe(p) ==
    /\ link = "off" /\ p \notin callbacks
    /\ callbacks' = callbacks \cup {p}
    /\ pending_subs' = pending_subs \cup {p}
    /\ UNCHANGED <<kind, link, links, asked, exchange, wire, drops, books>>

\* on_connected: what is sent on a new link.  Binance has its streams in the
\* URL, OKX and Gate.io take one message for a pair, Bybit and MEXC one for all.
OnConnectedBinance == {}
OnConnectedOkx == {{p} : p \in pending_subs}
OnConnectedBybit == IF pending_subs = {} THEN {} ELSE {pending_subs}
OnConnectedMexc == IF pending_subs = {} THEN {} ELSE {pending_subs}
OnConnectedGateio == {{p} : p \in pending_subs}
OnConnected ==
    CASE kind = "binance" -> OnConnectedBinance
      [] kind = "okx" -> OnConnectedOkx
      [] kind = "bybit" -> OnConnectedBybit
      [] kind = "mexc" -> OnConnectedMexc
      [] kind = "gateio" -> OnConnectedGateio

\* Binance's URL, which is built once and kept for every link.
Streams == IF kind = "binance" THEN {pending_subs} ELSE {}

\* Mutant: what was sent is not pending any more.
OpenOnce ==
    /\ links < MaxLinks
    /\ link' = "up" /\ links' = links + 1
    /\ asked' = OnConnected \cup Streams
    /\ pending_subs' = {}
    /\ UNCHANGED <<kind, callbacks, exchange, wire, drops, books>>

\* on_open: a link is up and its subscriptions are on their way.
Open ==
    /\ links < MaxLinks
    /\ link' = "up" /\ links' = links + 1
    /\ asked' = OnConnected \cup Streams
    /\ UNCHANGED <<kind, client, exchange, wire, drops, books>>

FirstLink == link = "off" /\ callbacks = Pairs /\ Open
NextLink == link = "down" /\ Open

\* The link is lost, with all that is on its way.
Lose ==
    /\ link = "up"
    /\ link' = "down"
    /\ asked' = {} /\ served' = {} /\ wire' = <<>>
    /\ UNCHANGED <<kind, client, links, market, serial, changes, drops, books>>

-----------------------------------------------------------------------------
(* The exchange *)

SendsDeltas == kind \in {"bybit", "gateio"}

\* What a message lists of a side, in rising or falling order: neither is
\* promised.
Levels(side, prices) == {Level(x, side[x]) : x \in prices}
List(side, prices, rising) == Sorted(Levels(side, prices), ~rising)

WholeBook(p, of, id, rising) ==
    [pair |-> p, is_delta |-> FALSE, sequence_id |-> id, of |-> of,
     bids |-> List(of.bids, Prices, rising),
     asks |-> List(of.asks, Prices, rising)]

Changed(old, new) == {x \in Prices : old[x] # new[x]}

Delta(p, of, id, rising) ==
    [pair |-> p, is_delta |-> TRUE, sequence_id |-> id, of |-> of,
     bids |-> List(of.bids, Changed(market[p].bids, of.bids), rising),
     asks |-> List(of.asks, Changed(market[p].asks, of.asks), rising)]

\* A subscription arrives and is answered by whole books.
Answers(ps, rising) ==
    LET order == SetToSeq(ps)
    IN  [i \in DOMAIN order |-> WholeBook(order[i], market[order[i]], serial, rising)]

Serve ==
    \E ps \in asked, rising \in BOOLEAN :
        /\ asked' = asked \ {ps}
        /\ served' = served \cup ps
        /\ wire' = wire \o Answers(ps, rising)
        /\ UNCHANGED <<kind, client, link, links, market, serial, changes, drops, books>>

\* A pair's market changes.  An id of Bybit is of a count, which may begin
\* again; one of Gate.io is a time in ms, which may be that of another change.
Ids == CASE kind = "gateio" -> {serial, serial + 1}
         [] kind = "bybit" /\ served = {} -> {1, serial + 1}
         [] OTHER -> {serial + 1}

Change(p, new) ==
    /\ link # "off" /\ changes < MaxChanges /\ new # market[p]
    /\ changes' = changes + 1
    /\ market' = [market EXCEPT ![p] = new]
    /\ \E id \in Ids :
           /\ serial' = id
           /\ IF p \notin served THEN UNCHANGED wire
              ELSE \E rising \in BOOLEAN :
                       wire' = Append(wire, IF SendsDeltas THEN Delta(p, new, id, rising)
                                            ELSE WholeBook(p, new, id, rising))
    /\ UNCHANGED <<kind, client, link, links, asked, served, drops, books>>

-----------------------------------------------------------------------------
(* on_message: what the adapters make of a message *)

Whole(m) ==
    [m EXCEPT !.bids = Sorted(Positive(Range(@)), TRUE),
              !.asks = Sorted(Positive(Range(@)), FALSE)]

ParseBinance(m) == Whole(m)
ParseOkx(m) == Whole(m)
\* There is no id in it.
ParseMexc(m) == [Whole(m) EXCEPT !.sequence_id = 0]
ParseBybit(m) ==
    IF m.is_delta THEN m
    ELSE [m EXCEPT !.bids = Sorted(Range(@), TRUE), !.asks = Sorted(Range(@), FALSE)]
ParseGateio(m) ==
    IF m.is_delta THEN [m EXCEPT !.bids = Sorted(Range(@), TRUE), !.asks = Sorted(Range(@), FALSE)]
    ELSE Whole(m)
Parse(m) ==
    CASE kind = "binance" -> ParseBinance(m)
      [] kind = "okx" -> ParseOkx(m)
      [] kind = "bybit" -> ParseBybit(m)
      [] kind = "mexc" -> ParseMexc(m)
      [] kind = "gateio" -> ParseGateio(m)

-----------------------------------------------------------------------------
(* The book *)

\* std::lower_bound: the first level that is not above the price.
LowerBound(levels, price, descending) ==
    CHOOSE i \in 1 .. Len(levels) + 1 :
        /\ \A j \in 1 .. i - 1 : Above(descending, levels[j].price, price)
        /\ i <= Len(levels) => ~Above(descending, levels[i].price, price)

\* Mutant: a level that is not there yet goes to the end.
update_vec_append(levels, level, descending) ==
    LET i == LowerBound(levels, level.price, descending)
        found == i <= Len(levels) /\ levels[i].price = level.price
    IN  IF found THEN [levels EXCEPT ![i] = level] ELSE Append(levels, level)

update_vec(levels, level, descending) ==
    LET i == LowerBound(levels, level.price, descending)
        found == i <= Len(levels) /\ levels[i].price = level.price
    IN  IF level.quantity = 0
        THEN IF found THEN RemoveAt(levels, i) ELSE levels
        ELSE IF found THEN [levels EXCEPT ![i] = level] ELSE InsertAt(levels, i, level)

Stale(p, m) == m.sequence_id # 0 /\ m.sequence_id <= last_sequence_id[p]

\* Mutant: a whole book that is not newer is ignored like a delta.
apply_snapshot_newer(p, m) ==
    IF Stale(p, m) THEN UNCHANGED <<book, last_sequence_id>>
    ELSE /\ book' = [book EXCEPT ![p] = [bids |-> Sorted(Positive(Range(m.bids)), TRUE),
                                         asks |-> Sorted(Positive(Range(m.asks)), FALSE)]]
         /\ last_sequence_id' = [last_sequence_id EXCEPT ![p] = m.sequence_id]

apply_snapshot(p, m) ==
    /\ book' = [book EXCEPT ![p] = [bids |-> Sorted(Positive(Range(m.bids)), TRUE),
                                    asks |-> Sorted(Positive(Range(m.asks)), FALSE)]]
    /\ last_sequence_id' = [last_sequence_id EXCEPT ![p] = m.sequence_id]

\* The changes of a side, one after the other.
Updated(levels, changed, descending) ==
    LET done[i \in 0 .. Len(changed)] ==
            IF i = 0 THEN levels ELSE update_vec(done[i - 1], changed[i], descending)
    IN  done[Len(changed)]

apply_delta(p, m) ==
    IF Stale(p, m) THEN UNCHANGED <<book, last_sequence_id>>
    ELSE /\ book' = [book EXCEPT ![p] = [bids |-> Updated(@.bids, m.bids, TRUE),
                                         asks |-> Updated(@.asks, m.asks, FALSE)]]
         /\ last_sequence_id' = [last_sequence_id EXCEPT ![p] = m.sequence_id]

-----------------------------------------------------------------------------
\* The callback of main edits the book that the pair was subscribed with.
Receive ==
    /\ link = "up" /\ wire # <<>>
    /\ wire' = Tail(wire)
    /\ \E m \in {Parse(Head(wire))} :
           /\ m.pair \in callbacks
           /\ IF m.is_delta THEN apply_delta(m.pair, m) ELSE apply_snapshot(m.pair, m)
           /\ seen' = [seen EXCEPT ![m.pair] = m.of]
           /\ gap' = [gap EXCEPT ![m.pair] = m.is_delta /\ (@ \/ Stale(m.pair, m))]
    /\ UNCHANGED <<kind, client, link, links, asked, exchange, drops>>

\* A message that does not parse: the exception is caught, nothing else is done.
Drop ==
    /\ link = "up" /\ wire # <<>> /\ drops < MaxDrops
    /\ drops' = drops + 1
    /\ LET p == Head(wire).pair IN gap' = [gap EXCEPT ![p] = TRUE]
    /\ wire' = Tail(wire)
    /\ UNCHANGED <<kind, client, link, links, asked, exchange, book, last_sequence_id, seen>>

FeedNext ==
    \/ \E p \in Pairs : Subscribe(p) \/ \E new \in Markets : Change(p, new)
    \/ FirstLink \/ NextLink \/ Lose \/ Serve \/ Receive \/ Drop

\* The exchange answers, and the io thread takes what has arrived.
FeedFairness == WF_feedVars(Serve) /\ WF_feedVars(Receive)

FeedSpec == FeedInit /\ [][FeedNext]_feedVars /\ FeedFairness

-----------------------------------------------------------------------------
(* Properties *)

\* The book of a market: the levels with a quantity, the best first.
BookOf(m) == [bids |-> Sorted(Positive(Levels(m.bids, Prices)), TRUE),
              asks |-> Sorted(Positive(Levels(m.asks, Prices)), FALSE)]

\* The book of a pair is the exchange's as of the last message, to the last
\* level: over every link, whatever ids the exchange begins a link with, and in
\* whatever order a message lists its levels.  The exception is a change that
\* was missed, since a message did not parse or its id was no newer: the code
\* does not notice, and only the next whole book makes it good.
BookIsCurrent == \A p \in Pairs : ~gap[p] => book[p] = BookOf(seen[p])

\* Also with changes missed, each side stays strictly sorted, with no price
\* twice and no level without a quantity: the binary search of apply_delta and
\* the walk of the depth analyzer rest on it.
SidesSorted ==
    \A p \in Pairs : \A side \in {"bids", "asks"} :
        LET levels == book[p][side]
        IN  /\ \A i \in DOMAIN levels : levels[i].quantity > 0
            /\ \A i \in 1 .. Len(levels) - 1 :
                   Above(side = "bids", levels[i].price, levels[i + 1].price)

\* When the link stays up and the market comes to rest, every book of every
\* pair becomes the exchange's, after any number of links: each of them was
\* subscribed again.  (Or a change was missed on this link.)
BooksCatchUp ==
    <>[](link = "up") => <>[](\A p \in Pairs : gap[p] \/ book[p] = BookOf(market[p]))

-----------------------------------------------------------------------------
(* Their inductive strengthening, which the proofs use *)

AllLevels == [price : Prices, quantity : Nat]
AllSides == Seq(AllLevels)
AllMarkets == [bids : [Prices -> Nat], asks : [Prices -> Nat]]
AllMessages == [pair : Pairs, is_delta : BOOLEAN, sequence_id : Nat,
                of : AllMarkets, bids : AllSides, asks : AllSides]

\* The types of the adapter, the exchange and the books.
FeedTypeOK ==
    /\ kind \in Kinds /\ callbacks \subseteq Pairs /\ pending_subs \subseteq Pairs
    /\ link \in {"off", "up", "down"} /\ links \in 0 .. MaxLinks
    /\ asked \subseteq SUBSET Pairs /\ served \subseteq Pairs
    /\ market \in [Pairs -> AllMarkets] /\ serial \in Nat
    /\ wire \in Seq(AllMessages)
    /\ changes \in 0 .. MaxChanges /\ drops \in 0 .. MaxDrops
    /\ book \in [Pairs -> [bids : AllSides, asks : AllSides]]
    /\ last_sequence_id \in [Pairs -> Nat]
    /\ seen \in [Pairs -> AllMarkets] /\ gap \in [Pairs -> BOOLEAN]

\* No level of a side is without a quantity, and each is above all later ones.
IsSide(levels, descending) ==
    /\ \A i \in DOMAIN levels : levels[i].quantity > 0
    /\ \A i, j \in DOMAIN levels :
           i < j => Above(descending, levels[i].price, levels[j].price)

BooksSorted ==
    \A p \in Pairs : IsSide(book[p].bids, TRUE) /\ IsSide(book[p].asks, FALSE)

\* A message lists some prices of a market, each with its quantity: a whole book
\* all of them, and a change those that differ from an older market.
Lists(m, bids, asks) ==
    /\ Range(m.bids) = Levels(m.of.bids, bids)
    /\ Range(m.asks) = Levels(m.of.asks, asks)

MessageInv == \A j \in DOMAIN wire :
    /\ \E bids, asks \in SUBSET Prices : Lists(wire[j], bids, asks)
    /\ IF wire[j].is_delta THEN SendsDeltas ELSE Lists(wire[j], Prices, Prices)

\* The last message of a pair among those of a wire before one; 0 stands for
\* what was received last.
LastBefore(w, i, p, j) ==
    /\ i > 0 => w[i].pair = p
    /\ \A k \in i + 1 .. j - 1 : w[k].pair # p
Known(w, last, i, p) == IF i = 0 THEN last[p] ELSE w[i].of

\* A change is one since the message before it, unless a change was missed, and
\* the exchange's market is that of the last message on its way.
Chain(w, last, missed) ==
    \A j \in DOMAIN w : \A i \in 0 .. j - 1 : \A p \in {w[j].pair} :
        LastBefore(w, i, p, j) /\ w[j].is_delta =>
            \/ i = 0 /\ missed[p]
            \/ Lists(w[j], Changed(Known(w, last, i, p).bids, w[j].of.bids),
                           Changed(Known(w, last, i, p).asks, w[j].of.asks))
UpToDate(w, last, missed, to, current) ==
    \A p \in to : \A i \in 0 .. Len(w) :
        LastBefore(w, i, p, Len(w) + 1) =>
            (i = 0 /\ missed[p]) \/ current[p] = Known(w, last, i, p)

ChainInv == Chain(wire, seen, gap) /\ UpToDate(wire, seen, gap, served, market)

FeedInv == FeedTypeOK /\ BooksSorted /\ BookIsCurrent /\ MessageInv /\ ChainInv
=============================================================================
