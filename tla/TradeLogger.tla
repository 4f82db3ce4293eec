----------------------------- MODULE TradeLogger -----------------------------
(***************************************************************************)
(* The trade log of persistence/trade_logger.cpp: a file of one JSON line  *)
(* for a trade.  log_trade() appends under file_mutex_ and ignores what    *)
(* write() returns; load_all_trades() reads the file without a lock, also  *)
(* in the middle of a write, and skips the lines that do not parse.        *)
(*                                                                         *)
(* A line is the sequence of the records that were written to it, each     *)
(* whole or cut short.  A line is read as it is when its end is reached, so *)
(* that a load is one step.  The file outlives the program: a run appends to *)
(* what earlier runs left, the last line of which may lack its newline.    *)
(***************************************************************************)
EXTENDS Integers, FiniteSets, SequencesExt

CONSTANTS Trades,
          Earlier,   \* the trades of earlier runs
          KeptFiles, \* what these may leave in each trades_file
          Nobody,    \* no trade
          MaxFaults  \* bound on the writes that are short or fail

Records == [trade : Trades \cup Earlier, whole : BOOLEAN]

\* No line is without a record, and one that has its newline ends with a whole
\* record.
IsFile(text, complete) ==
    /\ text \in Seq(Seq(Records)) /\ complete \in BOOLEAN
    /\ \A i \in DOMAIN text : text[i] # <<>>
    /\ ~complete => text # <<>>
    /\ \A i \in DOMAIN text : complete \/ i < Len(text) => Last(text[i]).whole

ASSUME LoggerConstants ==
    /\ Nobody \notin Trades /\ MaxFaults \in Nat
    /\ Earlier \cap Trades = {}
    /\ \A path \in DOMAIN KeptFiles : \A f \in KeptFiles[path] :
           /\ IsFile(f.lines, f.ended)
           /\ \A i \in DOMAIN f.lines : \A j \in DOMAIN f.lines[i] :
                  f.lines[i][j].trade \in Earlier

VARIABLES lines,  \* of the file
          ended,  \* the last line has its newline
          writer, \* the trade whose thread holds file_mutex_
          faults,
          torn,   \* history: the file was kept without its last newline
          exposed \* history: the trades whose write failed or was short, or began
                  \* where the newline of the one before was missing

file == <<lines, ended, writer, faults, torn, exposed>>

LogInit(path) ==
    /\ \E f \in KeptFiles[path] : lines = f.lines /\ ended = f.ended /\ torn = ~f.ended
    /\ writer = Nobody /\ faults = 0 /\ exposed = {}

-----------------------------------------------------------------------------
Record(trade, whole) == [trade |-> trade, whole |-> whole]

\* What O_APPEND makes of a record: a line of its own, if the last has ended.
Appended(record) ==
    IF ended THEN Append(lines, <<record>>)
    ELSE [lines EXCEPT ![Len(lines)] = Append(@, record)]

\* The record that is being written becomes whole or not.
Written(whole) ==
    [lines EXCEPT ![Len(lines)][Len(lines[Len(lines)])].whole = whole]

\* log_trade(trade) is called and its write has begun: a reader may see a part.
BeginWrite(trade) ==
    /\ writer = Nobody /\ writer' = trade
    /\ lines' = Appended(Record(trade, FALSE))
    /\ ended' = FALSE
    /\ exposed' = IF ended THEN exposed ELSE exposed \cup {trade}
    /\ UNCHANGED <<faults, torn>>

\* The file cannot be opened, or not a byte is written.
FailWrite(trade) ==
    /\ writer = Nobody /\ faults < MaxFaults
    /\ faults' = faults + 1
    /\ exposed' = exposed \cup {trade}
    /\ UNCHANGED <<lines, ended, writer, torn>>

\* Mutant: the record is written without its newline.
WriteAllUnended == lines' = Written(TRUE) /\ UNCHANGED <<ended, faults, exposed>>

WriteAll == lines' = Written(TRUE) /\ ended' = TRUE /\ UNCHANGED <<faults, exposed>>

\* The disk is full: what is missing is the newline, or more.
WriteShort ==
    /\ faults < MaxFaults /\ faults' = faults + 1
    /\ \E whole \in BOOLEAN : lines' = Written(whole)
    /\ exposed' = exposed \cup {writer}
    /\ UNCHANGED ended

EndWrite(trade) ==
    /\ writer = trade /\ writer' = Nobody
    /\ WriteAll \/ WriteShort
    /\ UNCHANGED torn

-----------------------------------------------------------------------------
Parses(line) == Len(line) = 1 /\ line[1].whole

\* The trades that a load returns.
load_all_trades == {lines[i][1].trade : i \in {j \in DOMAIN lines : Parses(lines[j])}}

\* The trades that share a line: none of them can be read any more.
Spoiled == UNION {{lines[i][j].trade : j \in DOMAIN lines[i]} :
                      i \in {k \in DOMAIN lines : Len(lines[k]) > 1}}
=============================================================================
