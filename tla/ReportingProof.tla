--------------------------- MODULE ReportingProof ---------------------------
(***************************************************************************)
(* What becomes of the trades that are logged and of the clients that are  *)
(* slow, for any trades, pairs, clients, faults and rounds of Reporting.   *)
(*                                                                         *)
(* The log.  A trade that is not exposed has a line of its own, with its   *)
(* newline, once it is logged.  A fault exposes its own trade and, as it   *)
(* may leave the line without an end (Hanging), the next.                  *)
(*                                                                         *)
(* The reads.  What a load found once, a later load finds, or it is        *)
(* spoiled: so what main has read is Found for as long as it keeps it.     *)
(*                                                                         *)
(* The server.  While the drain thread sends, nobody comes or goes; so the *)
(* count of failures is that of the last sends of a client that is there.  *)
(***************************************************************************)
EXTENDS Reporting, FiniteSetTheorems, TLAPS

LogTypes ==
    /\ lines \in Seq(Seq(Records)) /\ ended \in BOOLEAN
    /\ writer \in Trades \cup {Nobody} /\ faults \in Nat
    /\ torn \in BOOLEAN /\ exposed \subseteq Trades

MainTypes ==
    /\ mode \in {"paper", "live"}
    /\ stage \in [Trades -> {"none", "booked", "logging", "logged", "done"}]
    /\ booked \subseteq Trades
    /\ main \in {"loop", "fast", "total", "pairs", "report", "others", "server", "close",
                 "stop", "joining", "disconnect", "exited"}
    /\ unread \subseteq Pairs
    /\ total \subseteq Trades \cup Earlier /\ per_pair \subseteq Trades \cup Earlier
    /\ counted \subseteq Trades \cup Earlier /\ before \subseteq Trades \cup Earlier

ServerTypes ==
    /\ running \in BOOLEAN /\ drain \in {"loop", "popped", "send", "exited"}
    /\ connections \subseteq Clients /\ todo \subseteq Clients
    /\ to_close \subseteq Clients /\ asked \subseteq Clients
    /\ fail_counts \in [Clients -> Nat] /\ rounds \in [Clients -> Nat]
    /\ outcomes \in [Clients -> Seq(BOOLEAN)]

TypeOK == LogTypes /\ MainTypes /\ ServerTypes

-----------------------------------------------------------------------------
(* The log *)

\* A line that was begun has a record, and one that has ended ends with a whole
\* one; while a trade is being written, it is the last and not whole.
LogInv ==
    /\ \A i \in DOMAIN lines : lines[i] # <<>>
    /\ ~ended => lines # <<>>
    /\ \A i \in DOMAIN lines : ended \/ i < Len(lines) => Last(lines[i]).whole
    /\ writer # Nobody =>
           ~ended /\ stage[writer] = "logging" /\ Last(Last(lines)) = Record(writer, FALSE)

\* The trades of the file.
InLines == {t \in Trades \cup Earlier :
                \E i \in DOMAIN lines : \E j \in DOMAIN lines[i] : lines[i][j].trade = t}

\* The next write goes to the line of the last.
Hanging == IF ~ended /\ writer = Nobody THEN 1 ELSE 0

\* The line i is that of t alone, and has its end.
IsOwnLine(t, i) ==
    /\ i < Len(lines) \/ ended
    /\ Len(lines[i]) = 1 /\ lines[i][1] = Record(t, TRUE)

LostInv ==
    /\ \A t \in Logged \ exposed : \E i \in DOMAIN lines : IsOwnLine(t, i)
    /\ writer \notin exposed \cup {Nobody} => Len(Last(lines)) = 1
    /\ IsFiniteSet(exposed)
    /\ Cardinality(exposed) + Hanging <= 2 * faults + (IF torn THEN 1 ELSE 0)

-----------------------------------------------------------------------------
(* The reads *)

Found == load_all_trades \cup Spoiled

\* What the first figure must have, and what the figures per pair must.
Counted == IF mode = "live" THEN before ELSE before \ Earlier
Reference == OfPairs(IF mode = "live" THEN total ELSE before)

\* A trade whose log has begun is past its booking, and one that is on its way is
\* in the profit of the paper executor.
StageInv ==
    /\ \A t \in InLines \ Earlier : stage[t] \notin {"none", "booked"}
    /\ mode = "paper" => \A t \in Trades : stage[t] # "none" => t \in booked

ReadInv ==
    /\ before \subseteq Found /\ per_pair \subseteq Found
    /\ mode = "live" => total \subseteq Found
    /\ main = "total" => unread = Pairs
    /\ main \in {"pairs", "report"} => Counted \ total \subseteq Spoiled
    /\ main = "pairs" => {t \in Reference : PairOf[t] \notin unread} \ per_pair \subseteq Spoiled
    /\ main = "report" => /\ Reference \ per_pair \subseteq Spoiled
                          /\ per_pair \ counted \subseteq Spoiled

-----------------------------------------------------------------------------
(* The server *)

Stopping == {"close", "stop", "joining", "disconnect", "exited"}

\* The last n outcomes, and no more, are failures.
EndsWithFailures(s, n) ==
    /\ n <= Len(s)
    /\ \A i \in DOMAIN s : i > Len(s) - n => ~s[i]
    /\ n < Len(s) => s[Len(s) - n]

ServerInv ==
    /\ todo \subseteq connections /\ to_close \subseteq connections
    /\ asked \subseteq connections
    /\ drain # "send" => todo = {} /\ to_close = {}
    /\ main \in Stopping => ~running
    /\ \A c \in Clients \ connections :
           fail_counts[c] = 0 /\ rounds[c] = 0 /\ outcomes[c] = <<>>
    /\ \A c \in connections : EndsWithFailures(outcomes[c], fail_counts[c])
    /\ SlowIsClosed

ReportingInv == TypeOK /\ LogInv /\ LostInv /\ StageInv /\ ReadInv /\ ServerInv

-----------------------------------------------------------------------------
(* What a write makes of the lines *)

\* A record that is appended is the last of the last line; what was in the file
\* before is where it was.
LEMMA AppendedOf ==
    ASSUME TypeOK, LogInv, NEW r \in Records
    PROVE  LET new == Appended(r)
               old == IF ended THEN <<>> ELSE Last(lines)
           IN  /\ new \in Seq(Seq(Records)) /\ new # <<>>
               /\ Len(new) = IF ended THEN Len(lines) + 1 ELSE Len(lines)
               /\ \A i \in DOMAIN new : i < Len(new) => i \in DOMAIN lines /\ new[i] = lines[i]
               /\ new[Len(new)] = Append(old, r) /\ old \in Seq(Records)
               /\ \A i \in DOMAIN lines :
                      i \in DOMAIN new /\ (i = Len(new) => lines[i] = old)
  <1> DEFINE new == Appended(r)
             old == IF ended THEN <<>> ELSE Last(lines)
             n == Len(lines)
  <1>1. lines \in Seq(Seq(Records)) /\ ended \in BOOLEAN /\ (~ended => lines # <<>>)
    BY DEF TypeOK, LogTypes, LogInv
  <1>2. CASE ended
    <2>1. new = Append(lines, <<r>>) /\ <<r>> \in Seq(Records) /\ old = <<>>
          /\ <<r>> = Append(<<>>, r)
      BY <1>2 DEF Appended
    <2> QED BY <1>1, <1>2, <2>1
  <1>3. CASE ~ended
    <2>1. n \in DOMAIN lines /\ old = lines[n] /\ old \in Seq(Records)
      BY <1>1, <1>3 DEF Last
    <2>2. Append(old, r) \in Seq(Records)
      BY <2>1
    <2>3. new = [lines EXCEPT ![n] = Append(old, r)]
      BY <1>3, <2>1 DEF Appended
    <2>4. new \in Seq(Seq(Records)) /\ Len(new) = n /\ DOMAIN new = DOMAIN lines
          /\ new[n] = Append(old, r) /\ \A i \in DOMAIN lines : i # n => new[i] = lines[i]
      <3> HIDE DEF new, old
      <3> QED BY <1>1, <2>1, <2>2, <2>3
    <2>5. new # <<>>
      BY <1>1, <1>3, <2>4
    <2>6. \A i \in DOMAIN new : i < Len(new) => i \in DOMAIN lines /\ new[i] = lines[i]
      BY <1>1, <2>4
    <2>7. \A i \in DOMAIN lines : i \in DOMAIN new /\ (i = Len(new) => lines[i] = old)
      BY <1>1, <2>1, <2>4
    <2> QED BY <1>3, <2>1, <2>4, <2>5, <2>6, <2>7
  <1> QED BY <1>2, <1>3

\* When the write of a record has ended, it alone has changed, and it is of the
\* same trade.
LEMMA WrittenOf ==
    ASSUME TypeOK, lines # <<>>, Last(lines) # <<>>, NEW whole \in BOOLEAN
    PROVE  LET new == Written(whole)
               n == Len(lines)
               k == Len(lines[n])
           IN  /\ new \in Seq(Seq(Records)) /\ new # <<>>
               /\ Len(new) = n /\ DOMAIN new = DOMAIN lines
               /\ \A i \in DOMAIN lines : i < n => new[i] = lines[i]
               /\ Len(new[n]) = k /\ DOMAIN new[n] = DOMAIN lines[n]
               /\ \A j \in DOMAIN lines[n] : j < k => new[n][j] = lines[n][j]
               /\ new[n][k] = Record(lines[n][k].trade, whole)
               /\ n \in DOMAIN lines /\ k \in DOMAIN lines[n]
  <1> DEFINE new == Written(whole)
             n == Len(lines)
             line == lines[n]
             k == Len(line)
             changed == [line EXCEPT ![k] = [@ EXCEPT !.whole = whole]]
  <1>1. lines \in Seq(Seq(Records)) /\ n \in DOMAIN lines /\ line \in Seq(Records)
    BY DEF TypeOK, LogTypes
  <1>2. k \in DOMAIN line /\ line[k] \in Records
    BY <1>1 DEF Last
  <1>3. new = [lines EXCEPT ![n] = changed]
    BY DEF Written
  <1>4. [line[k] EXCEPT !.whole = whole] = Record(line[k].trade, whole)
        /\ Record(line[k].trade, whole) \in Records
    BY <1>2 DEF Records, Record
  <1>5. changed \in Seq(Records) /\ Len(changed) = k /\ DOMAIN changed = DOMAIN line
        /\ changed[k] = Record(line[k].trade, whole)
        /\ \A j \in DOMAIN line : j # k => changed[j] = line[j]
    <2> HIDE DEF line
    <2> QED BY <1>1, <1>2, <1>4
  <1> HIDE DEF new, changed
  <1>6. new \in Seq(Seq(Records)) /\ Len(new) = n /\ DOMAIN new = DOMAIN lines
        /\ new[n] = changed /\ \A i \in DOMAIN lines : i # n => new[i] = lines[i]
    BY <1>1, <1>3, <1>5
  <1>7. new # <<>>
    BY <1>1, <1>6
  <1>8. /\ \A i \in DOMAIN lines : i < n => new[i] = lines[i]
        /\ \A j \in DOMAIN line : j < k => changed[j] = line[j]
    BY <1>1, <1>2, <1>5, <1>6
  <1> QED BY <1>1, <1>2, <1>5, <1>6, <1>7, <1>8 DEF new

-----------------------------------------------------------------------------
(* The steps, by what they change *)

\* A step that writes nothing: a trade may be booked, or announced.
LogQuiet ==
    /\ UNCHANGED file
    /\ \A t \in Trades : \/ stage'[t] = stage[t]
                         \/ stage[t] = "none" /\ stage'[t] = "booked"
                         \/ stage[t] = "logged" /\ stage'[t] = "done"

LEMMA LogSteps ==
    MainTypes /\ [Next]_vars =>
        \/ LogQuiet
        \/ \E t \in Trades : StartLog(t) \/ LoseLog(t) \/ EndLog(t)
  <1> SUFFICES ASSUME MainTypes, [Next]_vars
               PROVE  LogQuiet \/ \E t \in Trades : StartLog(t) \/ LoseLog(t) \/ EndLog(t)
    OBVIOUS
  <1>1. ASSUME NEW t \in Trades, Book(t) \/ Announce(t) PROVE LogQuiet
    BY <1>1 DEF Book, Announce, Stage, LogQuiet, MainTypes, file
  <1>2. CASE UNCHANGED <<stage, file>>
    BY <1>2 DEF LogQuiet, file
  <1>3. CASE FastPath \/ NoSlowPath \/ SlowPath \/ ReadTotal \/ ReadStats \/ Report
             \/ \E p \in Pairs : ReadPair(p)
    BY <1>2, <1>3 DEF FastPath, NoSlowPath, SlowPath, ReadTotal, ReadStats, Report, ReadPair,
                      Goes
  <1>4. CASE Shutdown
    BY <1>2, <1>4 DEF Shutdown, Stopped, Stop, StopOthers, StopServer, Close, StopLoop, Join, Exit, Goes
  <1>5. CASE UNCHANGED vars
    BY <1>2, <1>5 DEF vars
  <1> QED BY <1>1, <1>2, <1>3, <1>4, <1>5 DEF Next, TradeStep, MainStep

\* A step that neither sends nor opens, closes or asks; main may leave its loop
\* only by stopping the server.
ServerQuiet ==
    /\ UNCHANGED <<running, connections, drainer, asked, history>>
    /\ main' \in Stopping => main \in Stopping

LEMMA ServerSteps ==
    [Next]_vars =>
        \/ ServerQuiet \/ StopServer \/ Close
        \/ (\E c \in Clients : OnOpen(c) \/ OnClose(c)) /\ UNCHANGED main
        \/ DrainStep /\ UNCHANGED main
  <1> SUFFICES ASSUME [Next]_vars
               PROVE  \/ ServerQuiet \/ StopServer \/ Close
                      \/ (\E c \in Clients : OnOpen(c) \/ OnClose(c)) /\ UNCHANGED main
                      \/ DrainStep /\ UNCHANGED main
    OBVIOUS
  <1>1. CASE \E t \in Trades : TradeStep(t)
    BY <1>1 DEF TradeStep, Book, StartLog, LoseLog, EndLog, Announce, Stage, Broadcast,
                ServerQuiet, mainloop, server
  <1>2. CASE FastPath \/ NoSlowPath \/ SlowPath \/ ReadTotal \/ ReadStats \/ Report
             \/ \E p \in Pairs : ReadPair(p)
    BY <1>2 DEF FastPath, NoSlowPath, SlowPath, ReadTotal, ReadStats, Report, ReadPair,
                Goes, Broadcast, ServerQuiet, Stopping, server
  <1>3. CASE Shutdown
    BY <1>3 DEF Shutdown, Stopped, Stop, StopOthers, StopLoop, Join, Exit, Goes, StopServing,
                Joined, ServerQuiet, Stopping, server
  <1>4. CASE (DrainStep \/ ServerStep) /\ UNCHANGED <<mode, stage, booked, mainloop, file>>
    BY <1>4 DEF ServerStep, ServerExit, ServerQuiet, mainloop, history
  <1>5. CASE UNCHANGED vars
    BY <1>5 DEF vars, mainloop, server, ServerQuiet
  <1> QED BY <1>1, <1>2, <1>3, <1>4, <1>5 DEF Next, MainStep

\* A step that reads nothing, as main sees it.
MainQuiet == UNCHANGED mainloop /\ mode' = mode

LEMMA MainSteps ==
    [Next]_vars =>
        \/ MainQuiet
        \/ /\ \/ FastPath \/ NoSlowPath \/ SlowPath \/ ReadTotal \/ ReadStats \/ Report
              \/ Shutdown \/ \E p \in Pairs : ReadPair(p)
           /\ UNCHANGED <<mode, stage, booked, file>>
  <1> SUFFICES ASSUME [Next]_vars, ~MainQuiet
               PROVE  MainStep /\ UNCHANGED <<mode, stage, booked, file>>
    BY DEF MainStep
  <1>1. CASE \E t \in Trades : TradeStep(t)
    BY <1>1 DEF TradeStep, Book, StartLog, LoseLog, EndLog, Announce, Stage, MainQuiet
  <1>2. CASE (DrainStep \/ ServerStep) /\ UNCHANGED <<mode, stage, booked, mainloop, file>>
    BY <1>2 DEF MainQuiet
  <1>3. CASE UNCHANGED vars
    BY <1>3 DEF vars, MainQuiet
  <1>4. CASE MainStep
    BY <1>4 DEF MainStep, FastPath, NoSlowPath, SlowPath, ReadTotal, ReadStats, Report, ReadPair,
                Shutdown, Stopped, Stop, StopOthers, StopServer, Close, StopLoop, Join, Exit, Goes
  <1> QED BY <1>1, <1>2, <1>3, <1>4 DEF Next

-----------------------------------------------------------------------------
(* Types *)

LEMMA FoundType ==
    ASSUME LogTypes
    PROVE  load_all_trades \cup Spoiled \subseteq Trades \cup Earlier
  <1>1. \A i \in DOMAIN lines : \A j \in DOMAIN lines[i] : lines[i][j].trade \in Trades \cup Earlier
    <2>1. \A i \in DOMAIN lines : lines[i] \in Seq(Records)
      BY DEF LogTypes
    <2>2. \A i \in DOMAIN lines : \A j \in DOMAIN lines[i] : lines[i][j] \in Records
      BY <2>1
    <2> QED BY <2>2 DEF Records
  <1>2. \A i \in DOMAIN lines : Parses(lines[i]) => 1 \in DOMAIN lines[i]
    BY DEF LogTypes, Parses
  <1>3. load_all_trades \subseteq Trades \cup Earlier
    BY <1>1, <1>2 DEF load_all_trades
  <1>4. Spoiled \subseteq Trades \cup Earlier
    BY <1>1 DEF Spoiled
  <1> QED BY <1>3, <1>4

LEMMA TypeInit == Init => TypeOK
  <1> SUFFICES ASSUME Init PROVE TypeOK
    OBVIOUS
  <1>1. LogTypes
    <2>1. PICK f \in KeptFiles[mode] : lines = f.lines /\ ended = f.ended /\ torn = ~f.ended
      BY DEF Init, LogInit
    <2>2. mode \in DOMAIN KeptFiles
      BY ReportingConstants DEF Init
    <2>3. IsFile(lines, ended)
      BY <2>1, <2>2, LoggerConstants
    <2> QED BY <2>1, <2>3 DEF Init, LogInit, LogTypes, IsFile
  <1>2. MainTypes
    BY DEF Init, MainTypes
  <1>3. ServerTypes
    BY DEF Init, ServerInit, ServerTypes
  <1> QED BY <1>1, <1>2, <1>3 DEF TypeOK

LEMMA MainTypeStep == TypeOK /\ [Next]_vars => MainTypes'
  <1> SUFFICES ASSUME TypeOK, [Next]_vars PROVE MainTypes'
    OBVIOUS
  <1> USE DEF TypeOK, MainTypes
  <1>1. ASSUME NEW t \in Trades, TradeStep(t) PROVE MainTypes'
    BY <1>1 DEF TradeStep, Book, StartLog, LoseLog, EndLog, Announce, Stage, mainloop, reads
  <1>2. CASE UNCHANGED <<mode, stage, booked, mainloop>>
    BY <1>2 DEF mainloop, reads
  <1>3. CASE FastPath \/ NoSlowPath
    BY <1>3 DEF FastPath, NoSlowPath, Goes, reads
  <1>4. CASE SlowPath
    BY <1>4, FoundType DEF SlowPath, Goes, reads
  <1>5. CASE ReadTotal
    BY <1>5, FoundType DEF ReadTotal, Goes
  <1>6. ASSUME NEW p \in Pairs, ReadPair(p) PROVE MainTypes'
    BY <1>6, FoundType DEF ReadPair, Goes
  <1>7. CASE ReadStats \/ Report
    BY <1>7, FoundType DEF ReadStats, Report, Goes
  <1>8. CASE Shutdown
    BY <1>8 DEF Shutdown, Stopped, Stop, StopOthers, StopServer, Close, StopLoop, Join, Exit, Goes, reads
  <1>9. CASE UNCHANGED vars
    BY <1>2, <1>9 DEF vars
  <1> QED BY <1>1, <1>2, <1>3, <1>4, <1>5, <1>6, <1>7, <1>8, <1>9 DEF Next, MainStep

LEMMA ServerTypeStep == TypeOK /\ [Next]_vars => ServerTypes'
  <1> SUFFICES ASSUME TypeOK, [Next]_vars PROVE ServerTypes'
    OBVIOUS
  <1> USE DEF TypeOK, ServerTypes
  <1>1. CASE ServerQuiet
    BY <1>1 DEF ServerQuiet, drainer, history
  <1>2. CASE StopServer
    BY <1>2 DEF StopServer, Goes, StopRunning, drainer, history
  <1>3. CASE Close
    BY <1>3 DEF Close, CloseAll, drainer, history
  <1>4. ASSUME NEW c \in Clients, OnOpen(c) PROVE ServerTypes'
    BY <1>4 DEF OnOpen, drainer, history
  <1>5. ASSUME NEW c \in Clients, OnClose(c) PROVE ServerTypes'
    BY <1>5 DEF OnClose
  <1>6. CASE Pop \/ CloseSlow \/ DrainExit
    BY <1>6 DEF Pop, CloseSlow, DrainExit, Drain, history
  <1>7. CASE LockClients
    BY <1>7 DEF LockClients, Drain
  <1>8. ASSUME NEW c \in Clients, Send(c) PROVE ServerTypes'
    <2>1. /\ todo' \subseteq Clients /\ drain' = "send"
          /\ UNCHANGED <<running, connections, asked, rounds>>
      BY <1>8 DEF Send, Drain
    <2>2. CASE SendSucceeds(c)
      <3>1. fail_counts' \in [Clients -> Nat] /\ outcomes' \in [Clients -> Seq(BOOLEAN)]
            /\ to_close' = to_close
        BY <2>2 DEF SendSucceeds, Sent
      <3> QED BY <2>1, <3>1
    <2>3. CASE SendFails(c)
      <3>1. fail_counts' \in [Clients -> Nat] /\ outcomes' \in [Clients -> Seq(BOOLEAN)]
            /\ to_close' \subseteq Clients
        BY <2>3 DEF SendFails
      <3> QED BY <2>1, <3>1
    <2> QED BY <1>8, <2>2, <2>3 DEF Send
  <1> QED BY <1>1, <1>2, <1>3, <1>4, <1>5, <1>6, <1>7, <1>8, ServerSteps DEF DrainStep

-----------------------------------------------------------------------------
(* The log: a record at the end of the last line *)

\* The steps of a write, on the state of the log alone.
LEMMA BeginWriteOf ==
    ASSUME TypeOK, LogInv, NEW t \in Trades, BeginWrite(t)
    PROVE  LET old == IF ended THEN <<>> ELSE Last(lines)
               n == Len(lines')
           IN  /\ writer = Nobody /\ writer' = t /\ ended' = FALSE
               /\ faults' = faults /\ torn' = torn
               /\ exposed' = IF ended THEN exposed ELSE exposed \cup {t}
               /\ lines' \in Seq(Seq(Records)) /\ lines' # <<>>
               /\ n = IF ended THEN Len(lines) + 1 ELSE Len(lines)
               /\ \A i \in DOMAIN lines' : i < n => i \in DOMAIN lines /\ lines'[i] = lines[i]
               /\ lines'[n] = Append(old, Record(t, FALSE)) /\ old \in Seq(Records)
               /\ \A i \in DOMAIN lines :
                      i \in DOMAIN lines' /\ (i = n => lines[i] = old)
  <1>1. Record(t, FALSE) \in Records
    BY DEF Record, Records
  <1>2. lines' = Appended(Record(t, FALSE))
    BY DEF BeginWrite
  <1> QED BY <1>1, <1>2, AppendedOf DEF BeginWrite

LEMMA EndWriteOf ==
    ASSUME TypeOK, LogInv, NEW t \in Trades, EndWrite(t)
    PROVE  LET n == Len(lines)
               k == Len(lines[n])
           IN  /\ writer = t /\ writer' = Nobody /\ ~ended
               /\ lines' \in Seq(Seq(Records)) /\ lines' # <<>>
               /\ Len(lines') = n /\ DOMAIN lines' = DOMAIN lines
               /\ \A i \in DOMAIN lines : i < n => lines'[i] = lines[i]
               /\ Len(lines'[n]) = k /\ DOMAIN lines'[n] = DOMAIN lines[n]
               /\ \A j \in DOMAIN lines[n] : j < k => lines'[n][j] = lines[n][j]
               /\ n \in DOMAIN lines /\ k \in DOMAIN lines[n]
               /\ lines[n][k] = Record(t, FALSE) /\ lines'[n][k].trade = t
               /\ torn' = torn
               /\ \/ /\ lines'[n][k] = Record(t, TRUE) /\ lines'[n][k].whole
                     /\ ended' = TRUE /\ faults' = faults /\ exposed' = exposed
                  \/ ended' = ended /\ faults' = faults + 1 /\ exposed' = exposed \cup {t}
  <1>1. writer = t /\ writer' = Nobody /\ t # Nobody
    BY LoggerConstants DEF EndWrite
  <1>2. /\ ~ended /\ lines # <<>> /\ Last(Last(lines)) = Record(t, FALSE)
    BY <1>1 DEF LogInv
  <1>3. Last(lines) # <<>> /\ Last(lines) = lines[Len(lines)] /\ Len(lines) \in DOMAIN lines
    <2>1. Len(lines) \in DOMAIN lines
      BY <1>2 DEF TypeOK, LogTypes
    <2> QED BY <2>1 DEF Last, LogInv
  <1>4. PICK whole \in BOOLEAN :
            /\ lines' = Written(whole)
            /\ torn' = torn
            /\ \/ whole = TRUE /\ ended' = TRUE /\ faults' = faults /\ exposed' = exposed
               \/ ended' = ended /\ faults' = faults + 1 /\ exposed' = exposed \cup {t}
    BY DEF EndWrite, WriteAll, WriteShort
  <1>5. lines[Len(lines)][Len(lines[Len(lines)])] = Record(t, FALSE)
        /\ Record(t, FALSE).trade = t
    BY <1>2, <1>3 DEF Last, Record
  <1>6. Record(t, whole).trade = t /\ Record(t, whole).whole = whole
    BY DEF Record
  <1> QED BY <1>1, <1>2, <1>3, <1>4, <1>5, <1>6, WrittenOf

LEMMA LogTypeStep == TypeOK /\ LogInv /\ [Next]_vars => LogTypes'
  <1> SUFFICES ASSUME TypeOK, LogInv, [Next]_vars PROVE LogTypes'
    OBVIOUS
  <1>1. ASSUME NEW t \in Trades, StartLog(t) PROVE LogTypes'
    <2>1. BeginWrite(t)
      BY <1>1 DEF StartLog
    <2> QED BY <2>1, BeginWriteOf DEF LogTypes, TypeOK
  <1>2. ASSUME NEW t \in Trades, LoseLog(t) PROVE LogTypes'
    BY <1>2 DEF LoseLog, FailWrite, LogTypes, TypeOK
  <1>3. ASSUME NEW t \in Trades, EndLog(t) PROVE LogTypes'
    <2>1. EndWrite(t)
      BY <1>3 DEF EndLog
    <2>2. lines' \in Seq(Seq(Records)) /\ writer' = Nobody /\ torn' = torn
      BY <2>1, EndWriteOf
    <2>3. \/ ended' = TRUE /\ faults' = faults /\ exposed' = exposed
          \/ ended' = ended /\ faults' = faults + 1 /\ exposed' = exposed \cup {t}
      BY <2>1, EndWriteOf
    <2>4. ended \in BOOLEAN /\ faults \in Nat /\ torn \in BOOLEAN /\ exposed \subseteq Trades
      BY DEF LogTypes, TypeOK
    <2>5. ended' \in BOOLEAN /\ torn' \in BOOLEAN /\ exposed' \subseteq Trades
      BY <2>2, <2>3, <2>4
    <2>6. faults' \in Nat
      BY <2>3, <2>4
    <2> QED BY <2>2, <2>5, <2>6 DEF LogTypes
  <1>4. CASE LogQuiet
    BY <1>4 DEF LogQuiet, file, LogTypes, TypeOK
  <1> QED BY <1>1, <1>2, <1>3, <1>4, LogSteps DEF TypeOK

LEMMA TypeStep == TypeOK /\ LogInv /\ [Next]_vars => TypeOK'
  BY LogTypeStep, MainTypeStep, ServerTypeStep DEF TypeOK

LEMMA LogInvStep == TypeOK /\ LogInv /\ [Next]_vars => LogInv'
  <1> SUFFICES ASSUME TypeOK, LogInv, [Next]_vars PROVE LogInv'
    OBVIOUS
  <1>1. ASSUME NEW t \in Trades, StartLog(t) PROVE LogInv'
    <2> DEFINE old == IF ended THEN <<>> ELSE Last(lines)
               n == Len(lines')
    <2>1. /\ writer' = t /\ ended' = FALSE
          /\ lines' \in Seq(Seq(Records)) /\ lines' # <<>>
          /\ n = IF ended THEN Len(lines) + 1 ELSE Len(lines)
          /\ \A i \in DOMAIN lines' : i < n => i \in DOMAIN lines /\ lines'[i] = lines[i]
          /\ lines'[n] = Append(old, Record(t, FALSE)) /\ old \in Seq(Records)
      BY <1>1, BeginWriteOf DEF StartLog
    <2> HIDE DEF old
    <2>2. n \in DOMAIN lines' /\ \A i \in DOMAIN lines' : i # n => i < n
      BY <2>1
    <2>3. lines'[n] # <<>> /\ Last(lines'[n]) = Record(t, FALSE)
      <3> DEFINE r == Record(t, FALSE)
      <3>1. r \in Records
        BY DEF Record, Records
      <3> HIDE DEF r
      <3>2. old \in Seq(Records)
        BY <2>1
      <3>3. Len(Append(old, r)) = Len(old) + 1 /\ Append(old, r)[Len(old) + 1] = r
        BY <3>1, <3>2
      <3>4. Append(old, r) # <<>>
        BY <3>1, <3>2, <3>3
      <3> QED BY <2>1, <3>3, <3>4 DEF Last, r
    <2>4. \A i \in DOMAIN lines' : lines'[i] # <<>>
      BY <2>1, <2>2, <2>3 DEF LogInv
    <2>5. \A i \in DOMAIN lines' : i < n => Last(lines'[i]).whole
      <3> SUFFICES ASSUME NEW i \in DOMAIN lines', i < n PROVE Last(lines'[i]).whole
        OBVIOUS
      <3>1. i \in DOMAIN lines /\ lines'[i] = lines[i]
        BY <2>1
      <3>2. ended \/ i < Len(lines)
        BY <2>1
      <3> QED BY <3>1, <3>2 DEF LogInv
    <2>6. stage'[t] = "logging"
      BY <1>1 DEF StartLog, Stage, TypeOK, MainTypes
    <2>7. Last(Last(lines')) = Record(t, FALSE)
      BY <2>3 DEF Last
    <2> QED BY <2>1, <2>4, <2>5, <2>6, <2>7 DEF LogInv
  <1>2. ASSUME NEW t \in Trades, LoseLog(t) PROVE LogInv'
    BY <1>2 DEF LoseLog, FailWrite, LogInv
  <1>3. ASSUME NEW t \in Trades, EndLog(t) PROVE LogInv'
    <2> DEFINE n == Len(lines)
               k == Len(lines[n])
    <2>1. /\ writer' = Nobody /\ ~ended
          /\ lines' \in Seq(Seq(Records)) /\ lines' # <<>>
          /\ Len(lines') = n /\ DOMAIN lines' = DOMAIN lines
          /\ \A i \in DOMAIN lines : i < n => lines'[i] = lines[i]
          /\ Len(lines'[n]) = k /\ k \in DOMAIN lines'[n]
          /\ n \in DOMAIN lines
          /\ lines'[n][k].whole \/ ended' = ended
      BY <1>3, EndWriteOf DEF EndLog
    <2>2. \A i \in DOMAIN lines : i # n => i < n
      BY DEF TypeOK, LogTypes
    <2>3. lines'[n] # <<>> /\ Last(lines'[n]) = lines'[n][k]
      <3>1. lines'[n] \in Seq(Records)
        BY <2>1
      <3>2. lines'[n] # <<>>
        BY <2>1, <3>1
      <3> QED BY <2>1, <3>2 DEF Last
    <2> HIDE DEF n, k
    <2>4. \A i \in DOMAIN lines' : lines'[i] # <<>>
      BY <2>1, <2>2, <2>3 DEF LogInv
    <2>5. \A i \in DOMAIN lines' : i < n => Last(lines'[i]).whole
      BY <2>1 DEF LogInv, n
    <2>6. \A i \in DOMAIN lines' : ended' \/ i < n => Last(lines'[i]).whole
      BY <2>1, <2>2, <2>3, <2>5
    <2> QED BY <2>1, <2>4, <2>6 DEF LogInv
  <1>4. CASE LogQuiet
    <2>1. writer # Nobody => writer \in Trades /\ stage[writer] = "logging"
      BY DEF LogInv, TypeOK, LogTypes
    <2>2. writer # Nobody => stage'[writer] = "logging"
      BY <1>4, <2>1 DEF LogQuiet
    <2> QED BY <1>4, <2>2 DEF LogQuiet, file, LogInv
  <1> QED BY <1>1, <1>2, <1>3, <1>4, LogSteps DEF TypeOK

-----------------------------------------------------------------------------
(* The log: what is lost *)

\* A set that gains a trade at most.
LEMMA OneMore ==
    ASSUME NEW S, IsFiniteSet(S), NEW t
    PROVE  /\ IsFiniteSet(S \cup {t})
           /\ Cardinality(S) \in Nat /\ Cardinality(S \cup {t}) \in Nat
           /\ Cardinality(S \cup {t}) <= Cardinality(S) + 1
  <1>1. Cardinality(S) \in Nat
    BY FS_CardinalityType
  <1>2. /\ IsFiniteSet(S \cup {t})
        /\ Cardinality(S \cup {t}) = Cardinality(S)
           \/ Cardinality(S \cup {t}) = Cardinality(S) + 1
    BY FS_AddElement
  <1> QED BY <1>1, <1>2

\* What a step may add to the exposed, by what it does with the last line.
LEMMA ExposedStep ==
    ASSUME TypeOK, IsFiniteSet(exposed),
           Cardinality(exposed) + Hanging <= 2 * faults + (IF torn THEN 1 ELSE 0),
           torn' = torn, NEW t,
           \/ exposed' = exposed /\ faults' = faults /\ Hanging' = Hanging
           \/ exposed' = exposed \cup {t} /\ faults' = faults /\ Hanging = 1 /\ Hanging' = 0
           \/ /\ exposed' = exposed \cup {t} /\ faults' = faults + 1
              /\ Hanging' = Hanging \/ (Hanging' <= 1 /\ Hanging = 0)
    PROVE  /\ IsFiniteSet(exposed')
           /\ Cardinality(exposed') + Hanging' <= 2 * faults' + (IF torn' THEN 1 ELSE 0)
  <1> DEFINE kept == IF torn THEN 1 ELSE 0
  <1>1. /\ faults \in Nat /\ kept \in Nat /\ Hanging \in Nat /\ Hanging' \in Nat
        /\ kept' = kept
    BY DEF TypeOK, LogTypes, Hanging
  <1>2. /\ IsFiniteSet(exposed \cup {t})
        /\ Cardinality(exposed) \in Nat /\ Cardinality(exposed \cup {t}) \in Nat
        /\ Cardinality(exposed \cup {t}) <= Cardinality(exposed) + 1
    BY OneMore
  <1>3. IsFiniteSet(exposed')
    BY <1>2
  <1>4. Cardinality(exposed) + Hanging <= 2 * faults + kept
    OBVIOUS
  <1> HIDE DEF kept
  <1>5. Cardinality(exposed') + Hanging' <= 2 * faults' + kept'
    <2> DEFINE c == Cardinality(exposed)
               d == Cardinality(exposed')
    <2>1. c \in Nat /\ d \in Nat /\ d <= c + 1 /\ (exposed' = exposed => d = c)
      <3>1. CASE exposed' = exposed
        <4>1. d = c
          BY <3>1
        <4> QED BY <1>2, <4>1
      <3>2. CASE exposed' = exposed \cup {t}
        <4>1. d = Cardinality(exposed \cup {t})
          BY <3>2
        <4>2. exposed' = exposed => d = c
          OBVIOUS
        <4> QED BY <1>2, <4>1, <4>2
      <3> QED BY <3>1, <3>2
    <2>2. c + Hanging <= 2 * faults + kept
      BY <1>4
    <2> HIDE DEF c, d
    <2>3. CASE exposed' = exposed /\ faults' = faults /\ Hanging' = Hanging
      BY <1>1, <2>1, <2>2, <2>3 DEF d
    <2>4. CASE faults' = faults /\ Hanging = 1 /\ Hanging' = 0
      BY <1>1, <2>1, <2>2, <2>4 DEF d
    <2>5. CASE faults' = faults + 1 /\ (Hanging' = Hanging \/ (Hanging' <= 1 /\ Hanging = 0))
      <3>1. d + Hanging' <= c + Hanging + 2
        <4>1. CASE Hanging' = Hanging
          BY <1>1, <2>1, <4>1
        <4>2. CASE Hanging' <= 1 /\ Hanging = 0
          <5>1. ASSUME NEW h \in Nat, h <= 1 PROVE d + h <= c + 0 + 2
            BY <2>1, <5>1
          <5> QED BY <1>1, <4>2, <5>1
        <4> QED BY <2>5, <4>1, <4>2
      <3> QED BY <1>1, <2>1, <2>2, <2>5, <3>1 DEF d
    <2> QED BY <2>3, <2>4, <2>5
  <1> QED BY <1>3, <1>5 DEF kept

LEMMA LostInvStep == TypeOK /\ LogInv /\ LostInv /\ [Next]_vars => LostInv'
  <1> SUFFICES ASSUME TypeOK, LogInv, LostInv, [Next]_vars PROVE LostInv'
    OBVIOUS
  <1>1. /\ IsFiniteSet(exposed) /\ ended \in BOOLEAN
        /\ Cardinality(exposed) + Hanging <= 2 * faults + (IF torn THEN 1 ELSE 0)
    BY DEF LostInv, TypeOK, LogTypes
  <1>2. ASSUME NEW t \in Trades, StartLog(t) PROVE LostInv'
    <2> DEFINE old == IF ended THEN <<>> ELSE Last(lines)
               n == Len(lines')
               r == Record(t, FALSE)
    <2>1. /\ writer = Nobody /\ writer' = t /\ ended' = FALSE
          /\ faults' = faults /\ torn' = torn
          /\ exposed' = IF ended THEN exposed ELSE exposed \cup {t}
          /\ lines' \in Seq(Seq(Records)) /\ lines' # <<>>
          /\ n = IF ended THEN Len(lines) + 1 ELSE Len(lines)
          /\ \A i \in DOMAIN lines' : i < n => i \in DOMAIN lines /\ lines'[i] = lines[i]
          /\ lines'[n] = Append(old, r)
          /\ \A i \in DOMAIN lines : i \in DOMAIN lines'
      BY <1>2, BeginWriteOf DEF StartLog
    <2>2. Hanging' = 0 /\ Hanging = IF ended THEN 0 ELSE 1
      BY <2>1, LoggerConstants DEF Hanging
    <2>3. /\ IsFiniteSet(exposed')
          /\ Cardinality(exposed') + Hanging' <= 2 * faults' + (IF torn' THEN 1 ELSE 0)
      BY <1>1, <2>1, <2>2, ExposedStep
    <2>4. Logged' = Logged
      BY <1>2 DEF StartLog, Stage, Logged, TypeOK, MainTypes
    <2>5. ASSUME t \notin exposed' PROVE Len(Last(lines')) = 1
      <3>1. ended /\ old = <<>>
        BY <2>1, <2>5
      <3>2. Append(<<>>, r) = <<r>> /\ Len(<<r>>) = 1
        OBVIOUS
      <3> QED BY <2>1, <3>1, <3>2 DEF Last
    <2>6. ASSUME NEW x \in Logged', x \notin exposed' PROVE \E i \in DOMAIN lines' : IsOwnLine(x, i)'
      <3>1. PICK i \in DOMAIN lines : IsOwnLine(x, i)
        BY <2>1, <2>4, <2>6 DEF LostInv
      <3>2. i \in DOMAIN lines' /\ i < n
        BY <2>1, <3>1 DEF TypeOK, LogTypes, IsOwnLine
      <3>3. lines'[i] = lines[i]
        BY <2>1, <3>2
      <3> QED BY <3>1, <3>2, <3>3 DEF IsOwnLine
    <2> QED BY <2>1, <2>3, <2>5, <2>6 DEF LostInv
  <1>3. ASSUME NEW t \in Trades, EndLog(t) PROVE LostInv'
    <2> DEFINE n == Len(lines)
               k == Len(lines[n])
    <2>1. /\ writer = t /\ writer' = Nobody /\ ~ended /\ torn' = torn
          /\ lines' \in Seq(Seq(Records))
          /\ Len(lines') = n /\ DOMAIN lines' = DOMAIN lines
          /\ \A i \in DOMAIN lines : i < n => lines'[i] = lines[i]
          /\ Len(lines'[n]) = k /\ n \in DOMAIN lines
          /\ \/ /\ lines'[n][k] = Record(t, TRUE)
                /\ ended' = TRUE /\ faults' = faults /\ exposed' = exposed
             \/ ended' = ended /\ faults' = faults + 1 /\ exposed' = exposed \cup {t}
      BY <1>3, EndWriteOf DEF EndLog
    <2>2. Hanging = 0 /\ Hanging' = IF ended' THEN 0 ELSE 1
      BY <2>1, LoggerConstants DEF Hanging
    <2>3. /\ IsFiniteSet(exposed')
          /\ Cardinality(exposed') + Hanging' <= 2 * faults' + (IF torn' THEN 1 ELSE 0)
      <3>1. Hanging' <= 1 /\ (ended' = TRUE => Hanging' = Hanging)
        BY <2>2
      <3> QED BY <1>1, <2>1, <2>2, <3>1, ExposedStep
    <2>4. Logged' = Logged \cup {t}
      BY <1>3 DEF EndLog, Stage, Logged, TypeOK, MainTypes
    <2>5. ASSUME NEW x \in Logged', x \notin exposed', x # t
          PROVE  \E i \in DOMAIN lines' : IsOwnLine(x, i)'
      <3>1. x \in Logged \ exposed
        BY <2>1, <2>4, <2>5
      <3>2. PICK i \in DOMAIN lines : i < n /\ IsOwnLine(x, i)
        BY <2>1, <3>1 DEF LostInv, IsOwnLine
      <3>3. i \in DOMAIN lines' /\ i < Len(lines') /\ lines'[i] = lines[i]
        BY <2>1, <3>2
      <3> QED BY <3>2, <3>3 DEF IsOwnLine
    <2>6. ASSUME t \notin exposed' PROVE \E i \in DOMAIN lines' : IsOwnLine(t, i)'
      <3>1. ended' = TRUE /\ lines'[n][k] = Record(t, TRUE) /\ t \notin exposed
        BY <2>1, <2>6
      <3>2. k = 1
        BY <2>1, <3>1, LoggerConstants DEF LostInv, Last
      <3>3. /\ ended' = TRUE /\ Len(lines'[n]) = 1 /\ lines'[n][1] = Record(t, TRUE)
            /\ n \in DOMAIN lines'
        BY <2>1, <3>1, <3>2
      <3> HIDE DEF n
      <3> QED BY <3>3 DEF IsOwnLine
    <2>7. \A x \in Logged' \ exposed' : \E i \in DOMAIN lines' : IsOwnLine(x, i)'
      BY <2>1, <2>5, <2>6
    <2> QED BY <2>1, <2>3, <2>7 DEF LostInv
  <1>4. ASSUME NEW t \in Trades, LoseLog(t) PROVE LostInv'
    <2>1. /\ UNCHANGED <<lines, ended, writer, torn>> /\ faults' = faults + 1
          /\ exposed' = exposed \cup {t} /\ writer = Nobody
      BY <1>4 DEF LoseLog, FailWrite
    <2>2. Hanging' = Hanging
      BY <2>1 DEF Hanging
    <2>3. /\ IsFiniteSet(exposed')
          /\ Cardinality(exposed') + Hanging' <= 2 * faults' + (IF torn' THEN 1 ELSE 0)
      <3>1. exposed' = exposed \cup {t} /\ faults' = faults + 1 /\ Hanging' = Hanging
            /\ torn' = torn
        BY <2>1, <2>2
      <3> QED BY <1>1, <3>1, ExposedStep
    <2>4. Logged' = Logged \cup {t}
      BY <1>4 DEF LoseLog, Stage, Logged, TypeOK, MainTypes
    <2>5. Logged' \ exposed' \subseteq Logged \ exposed
      BY <2>1, <2>4
    <2>6. \A x, i : IsOwnLine(x, i)' <=> IsOwnLine(x, i)
      BY <2>1 DEF IsOwnLine
    <2> QED BY <2>1, <2>3, <2>5, <2>6 DEF LostInv
  <1>5. CASE LogQuiet
    <2>1. Logged' = Logged
      BY <1>5 DEF LogQuiet, Logged
    <2>2. Hanging' = Hanging /\ \A x, i : IsOwnLine(x, i)' <=> IsOwnLine(x, i)
      BY <1>5 DEF LogQuiet, file, Hanging, IsOwnLine
    <2> QED BY <1>5, <2>1, <2>2 DEF LogQuiet, file, LostInv
  <1> QED BY <1>2, <1>3, <1>4, <1>5, LogSteps DEF TypeOK

\* A trade that is logged and not exposed is found.
LEMMA LostIsExposed ==
    ASSUME LostInv
    PROVE  Logged \ load_all_trades \subseteq exposed
  <1> SUFFICES ASSUME NEW t \in Logged \ exposed PROVE t \in load_all_trades
    OBVIOUS
  <1>1. PICK i \in DOMAIN lines : Len(lines[i]) = 1 /\ lines[i][1] = Record(t, TRUE)
    BY DEF LostInv, IsOwnLine
  <1>2. Record(t, TRUE).whole = TRUE /\ Record(t, TRUE).trade = t
    BY DEF Record
  <1> QED BY <1>1, <1>2 DEF load_all_trades, Parses

-----------------------------------------------------------------------------
(* The reads: what is found stays found, or is spoiled *)

\* The trades of a load, and those that are spoiled, by their places.
LEMMA FoundAt ==
    ASSUME NEW t
    PROVE  /\ t \in load_all_trades <=>
                  \E i \in DOMAIN lines : Len(lines[i]) = 1 /\ lines[i][1].whole
                                          /\ lines[i][1].trade = t
           /\ t \in Spoiled <=>
                  \E i \in DOMAIN lines : Len(lines[i]) > 1
                      /\ \E j \in DOMAIN lines[i] : lines[i][j].trade = t
  <1>1. t \in load_all_trades <=>
            \E i \in DOMAIN lines : Len(lines[i]) = 1 /\ lines[i][1].whole
                                    /\ lines[i][1].trade = t
    BY DEF load_all_trades, Parses
  <1>2. t \in Spoiled <=>
            \E i \in DOMAIN lines : Len(lines[i]) > 1
                /\ \E j \in DOMAIN lines[i] : lines[i][j].trade = t
    BY DEF Spoiled
  <1> QED BY <1>1, <1>2

\* A record that is written to a line spoils the line; a write that ends changes
\* a line that no load finds.
LEMMA FoundIsKept ==
    ASSUME TypeOK, LogInv, [Next]_vars
    PROVE  Spoiled \subseteq Spoiled' /\ Found \subseteq Found'
  <1>1. ASSUME UNCHANGED lines PROVE Spoiled \subseteq Spoiled' /\ Found \subseteq Found'
    BY <1>1 DEF Spoiled, Found, load_all_trades
  <1>2. ASSUME NEW t \in Trades, StartLog(t)
        PROVE  Spoiled \subseteq Spoiled' /\ Found \subseteq Found'
    <2> DEFINE old == IF ended THEN <<>> ELSE Last(lines)
               n == Len(lines')
               r == Record(t, FALSE)
    <2>1. /\ lines' \in Seq(Seq(Records)) /\ lines' # <<>>
          /\ \A i \in DOMAIN lines' : i < n => i \in DOMAIN lines /\ lines'[i] = lines[i]
          /\ lines'[n] = Append(old, r) /\ old \in Seq(Records)
          /\ \A i \in DOMAIN lines : i \in DOMAIN lines' /\ (i = n => lines[i] = old)
      BY <1>2, BeginWriteOf DEF StartLog
    <2>2. r \in Records
      BY DEF Record, Records
    <2> HIDE DEF old, r
    <2>3. /\ Len(lines'[n]) = Len(old) + 1 /\ Len(old) \in Nat
          /\ \A j \in DOMAIN old : j \in DOMAIN lines'[n] /\ lines'[n][j] = old[j]
      BY <2>1, <2>2
    <2>4. \A i \in DOMAIN lines' : i # n => i < n
      BY <2>1
    <2> HIDE DEF n
    \* a line is as it was, or it is the last, and longer
    <2>5. ASSUME NEW i \in DOMAIN lines
          PROVE  /\ i \in DOMAIN lines'
                 /\ \/ lines'[i] = lines[i]
                    \/ /\ Len(lines'[i]) = Len(lines[i]) + 1 /\ Len(lines[i]) \in Nat
                       /\ \A j \in DOMAIN lines[i] :
                              j \in DOMAIN lines'[i] /\ lines'[i][j] = lines[i][j]
      <3>1. CASE i = n
        BY <2>1, <2>3, <3>1
      <3>2. CASE i # n
        BY <2>1, <2>4, <3>2
      <3> QED BY <3>1, <3>2
    <2>6. ASSUME NEW x, x \in Spoiled PROVE x \in Spoiled'
      <3>1. PICK i \in DOMAIN lines : Len(lines[i]) > 1
                    /\ \E j \in DOMAIN lines[i] : lines[i][j].trade = x
        BY <2>6, FoundAt
      <3>2. i \in DOMAIN lines' /\ Len(lines'[i]) > 1
            /\ \E j \in DOMAIN lines'[i] : lines'[i][j].trade = x
        BY <2>5, <3>1
      <3> QED BY <3>2 DEF Spoiled
    <2>7. ASSUME NEW x, x \in load_all_trades PROVE x \in Found'
      <3>1. PICK i \in DOMAIN lines : Len(lines[i]) = 1 /\ lines[i][1].whole
                                      /\ lines[i][1].trade = x
        BY <2>7, FoundAt
      <3>2. CASE lines'[i] = lines[i]
        <4>1. i \in DOMAIN lines' /\ Parses(lines'[i]) /\ lines'[i][1].trade = x
          BY <2>5, <3>1, <3>2 DEF Parses
        <4>2. x \in load_all_trades'
          BY <4>1 DEF load_all_trades, Parses
        <4> QED BY <4>2 DEF Found
      <3>3. CASE lines'[i] # lines[i]
        <4>1. lines[i] \in Seq(Records)
          BY DEF TypeOK, LogTypes
        <4>2. 1 \in DOMAIN lines[i]
          BY <3>1, <4>1
        <4>3. i \in DOMAIN lines' /\ Len(lines'[i]) > 1 /\ 1 \in DOMAIN lines'[i]
              /\ lines'[i][1].trade = x
          BY <2>5, <3>1, <3>3, <4>2
        <4>4. x \in Spoiled'
          BY <4>3 DEF Spoiled
        <4> QED BY <4>4 DEF Found
      <3> QED BY <3>2, <3>3
    <2> QED BY <2>6, <2>7 DEF Found
  <1>3. ASSUME NEW t \in Trades, EndLog(t)
        PROVE  Spoiled \subseteq Spoiled' /\ Found \subseteq Found'
    <2> DEFINE n == Len(lines)
               k == Len(lines[n])
    <2>1. /\ DOMAIN lines' = DOMAIN lines
          /\ \A i \in DOMAIN lines : i < n => lines'[i] = lines[i]
          /\ Len(lines'[n]) = k /\ DOMAIN lines'[n] = DOMAIN lines[n]
          /\ \A j \in DOMAIN lines[n] : j < k => lines'[n][j] = lines[n][j]
          /\ n \in DOMAIN lines /\ k \in DOMAIN lines[n]
          /\ lines[n][k] = Record(t, FALSE) /\ lines'[n][k].trade = t
      BY <1>3, EndWriteOf DEF EndLog
    <2>2. Record(t, FALSE).trade = t /\ Record(t, FALSE).whole = FALSE
      BY DEF Record
    <2>3. \A i \in DOMAIN lines : i # n => i < n
      BY DEF TypeOK, LogTypes
    <2>4. \A j \in DOMAIN lines[n] : j # k => j < k
      <3>1. lines[n] \in Seq(Records)
        BY <2>1 DEF TypeOK, LogTypes
      <3> QED BY <3>1
    <2> HIDE DEF n, k
    <2>5. ASSUME NEW i \in DOMAIN lines
          PROVE  /\ DOMAIN lines'[i] = DOMAIN lines[i] /\ Len(lines'[i]) = Len(lines[i])
                 /\ \A j \in DOMAIN lines[i] : lines'[i][j].trade = lines[i][j].trade
                 /\ i # n => lines'[i] = lines[i]
      <3>1. CASE i = n
        BY <2>1, <2>2, <2>4, <3>1 DEF k
      <3>2. CASE i # n
        BY <2>1, <2>3, <3>2
      <3> QED BY <3>1, <3>2
    <2>6. ASSUME NEW x, x \in Spoiled PROVE x \in Spoiled'
      <3>1. PICK i \in DOMAIN lines : Len(lines[i]) > 1
                    /\ \E j \in DOMAIN lines[i] : lines[i][j].trade = x
        BY <2>6, FoundAt
      <3>2. i \in DOMAIN lines' /\ Len(lines'[i]) > 1
            /\ \E j \in DOMAIN lines'[i] : lines'[i][j].trade = x
        BY <2>1, <2>5, <3>1
      <3> QED BY <3>2 DEF Spoiled
    <2>7. ASSUME NEW x, x \in load_all_trades PROVE x \in Found'
      <3>1. PICK i \in DOMAIN lines : Len(lines[i]) = 1 /\ lines[i][1].whole
                                      /\ lines[i][1].trade = x
        BY <2>7, FoundAt
      <3>2. i # n
        BY <2>1, <2>2, <3>1 DEF k
      <3>3. i \in DOMAIN lines' /\ lines'[i] = lines[i]
        BY <2>1, <2>5, <3>2
      <3>4. x \in load_all_trades'
        BY <3>1, <3>3 DEF load_all_trades, Parses
      <3> QED BY <3>4 DEF Found
    <2> QED BY <2>6, <2>7 DEF Found
  <1>4. ASSUME NEW t \in Trades, LoseLog(t) PROVE UNCHANGED lines
    BY <1>4 DEF LoseLog, FailWrite
  <1>5. CASE LogQuiet
    BY <1>1, <1>5 DEF LogQuiet, file
  <1> QED BY <1>1, <1>2, <1>3, <1>4, <1>5, LogSteps DEF TypeOK

LEMMA FoundIsInLines ==
    ASSUME TypeOK
    PROVE  Found \subseteq InLines
  <1> SUFFICES ASSUME NEW t \in Found PROVE t \in InLines
    OBVIOUS
  <1>1. t \in Trades \cup Earlier
    BY FoundType DEF Found, TypeOK
  <1>2. CASE t \in load_all_trades
    <2>1. PICK i \in DOMAIN lines : Len(lines[i]) = 1 /\ lines[i][1].trade = t
      BY <1>2, FoundAt
    <2>2. 1 \in DOMAIN lines[i]
      <3>1. lines[i] \in Seq(Records)
        BY DEF TypeOK, LogTypes
      <3> QED BY <2>1, <3>1
    <2> QED BY <1>1, <2>1, <2>2 DEF InLines
  <1>3. CASE t \in Spoiled
    BY <1>1, <1>3, FoundAt DEF InLines
  <1> QED BY <1>2, <1>3 DEF Found

\* Only a write that begins brings a trade into the lines.
LEMMA InLinesStep ==
    ASSUME TypeOK, LogInv, [Next]_vars
    PROVE  \/ InLines' = InLines
           \/ \E t \in Trades : StartLog(t) /\ InLines' \subseteq InLines \cup {t}
  <1>1. ASSUME UNCHANGED lines PROVE InLines' = InLines
    BY <1>1 DEF InLines
  <1>2. ASSUME NEW t \in Trades, StartLog(t) PROVE InLines' \subseteq InLines \cup {t}
    <2> DEFINE old == IF ended THEN <<>> ELSE Last(lines)
               n == Len(lines')
               r == Record(t, FALSE)
    <2>1. /\ lines' \in Seq(Seq(Records))
          /\ n = IF ended THEN Len(lines) + 1 ELSE Len(lines)
          /\ \A i \in DOMAIN lines' : i < n => i \in DOMAIN lines /\ lines'[i] = lines[i]
          /\ lines'[n] = Append(old, r) /\ old \in Seq(Records)
      BY <1>2, BeginWriteOf DEF StartLog
    <2>2. r \in Records /\ r.trade = t
      BY DEF Record, Records
    <2>3. ended => old = <<>>
      OBVIOUS
    <2>4. ~ended => n \in DOMAIN lines /\ lines[n] = old
      <3>1. ~ended => lines # <<>> /\ lines \in Seq(Seq(Records))
        BY DEF LogInv, TypeOK, LogTypes
      <3> QED BY <2>1, <3>1 DEF Last
    <2> HIDE DEF old, r
    <2>5. \A j \in DOMAIN lines'[n] : lines'[n][j] = r \/ (j \in DOMAIN old /\ lines'[n][j] = old[j])
      BY <2>1, <2>2
    <2>6. \A i \in DOMAIN lines' : i # n => i < n
      BY <2>1
    <2> HIDE DEF n
    <2> SUFFICES ASSUME NEW x \in Trades \cup Earlier, NEW i \in DOMAIN lines',
                        NEW j \in DOMAIN lines'[i], lines'[i][j].trade = x, x # t
                 PROVE  x \in InLines
      BY DEF InLines
    <2>7. CASE i # n
      <3>1. i \in DOMAIN lines /\ lines'[i] = lines[i]
        BY <2>1, <2>6, <2>7
      <3> QED BY <3>1 DEF InLines
    <2>8. CASE i = n
      <3>1. j \in DOMAIN old /\ old[j].trade = x
        BY <2>2, <2>5, <2>8
      <3>2. ~ended
        <4>1. DOMAIN <<>> = {}
          OBVIOUS
        <4> QED BY <2>3, <3>1, <4>1
      <3> QED BY <2>4, <3>1, <3>2 DEF InLines
    <2> QED BY <2>7, <2>8
  <1>3. ASSUME NEW t \in Trades, EndLog(t) PROVE InLines' = InLines
    <2> DEFINE n == Len(lines)
               k == Len(lines[n])
    <2>1. /\ DOMAIN lines' = DOMAIN lines
          /\ \A i \in DOMAIN lines : i < n => lines'[i] = lines[i]
          /\ DOMAIN lines'[n] = DOMAIN lines[n]
          /\ \A j \in DOMAIN lines[n] : j < k => lines'[n][j] = lines[n][j]
          /\ n \in DOMAIN lines /\ lines[n][k] = Record(t, FALSE) /\ lines'[n][k].trade = t
      BY <1>3, EndWriteOf DEF EndLog
    <2>2. Record(t, FALSE).trade = t
      BY DEF Record
    <2>3. \A i \in DOMAIN lines : i # n => i < n
      BY DEF TypeOK, LogTypes
    <2>4. \A j \in DOMAIN lines[n] : j # k => j < k
      <3>1. lines[n] \in Seq(Records)
        BY <2>1 DEF TypeOK, LogTypes
      <3> QED BY <3>1
    <2> HIDE DEF n, k
    <2>5. ASSUME NEW i \in DOMAIN lines
          PROVE  /\ DOMAIN lines'[i] = DOMAIN lines[i]
                 /\ \A j \in DOMAIN lines[i] : lines'[i][j].trade = lines[i][j].trade
      <3>1. CASE i = n
        BY <2>1, <2>2, <2>4, <3>1
      <3>2. CASE i # n
        BY <2>1, <2>3, <3>2
      <3> QED BY <3>1, <3>2
    <2> QED BY <2>1, <2>5 DEF InLines
  <1>4. ASSUME NEW t \in Trades, LoseLog(t) PROVE UNCHANGED lines
    BY <1>4 DEF LoseLog, FailWrite
  <1>5. CASE LogQuiet
    BY <1>1, <1>5 DEF LogQuiet, file
  <1> QED BY <1>1, <1>2, <1>3, <1>4, <1>5, LogSteps DEF TypeOK

LEMMA StageInvStep ==
    ASSUME TypeOK, LogInv, StageInv, [Next]_vars
    PROVE  StageInv'
  <1>1. ASSUME NEW t \in Trades, TradeStep(t)
        PROVE  /\ mode' = mode /\ booked \subseteq booked'
               /\ \A x \in Trades : stage'[x] \in {"none", "booked"} =>
                      stage[x] \in {"none", "booked"} /\ ~StartLog(x)
               /\ \A x \in Trades : stage[x] = "none" /\ stage'[x] # "none" /\ mode = "paper" =>
                      x \in booked'
    <2>1. CASE Book(t)
      BY <2>1 DEF Book, StartLog, Stage, TypeOK, MainTypes
    <2>2. CASE StartLog(t) \/ LoseLog(t) \/ EndLog(t)
      BY <2>2 DEF StartLog, LoseLog, EndLog, Stage, TypeOK, MainTypes
    <2>3. CASE Announce(t)
      BY <2>3 DEF Announce, StartLog, Stage, TypeOK, MainTypes
    <2> QED BY <1>1, <2>1, <2>2, <2>3 DEF TradeStep
  <1>2. ASSUME UNCHANGED <<mode, stage, booked>>
        PROVE  /\ mode' = mode /\ booked \subseteq booked'
               /\ \A x \in Trades : stage'[x] \in {"none", "booked"} =>
                      stage[x] \in {"none", "booked"} /\ ~StartLog(x)
               /\ \A x \in Trades : stage[x] = "none" /\ stage'[x] # "none" /\ mode = "paper" =>
                      x \in booked'
    BY <1>2 DEF StartLog, Stage, TypeOK, MainTypes
  <1>3. (\E t \in Trades : TradeStep(t)) \/ UNCHANGED <<mode, stage, booked>>
    <2>1. CASE MainStep
      BY <2>1 DEF MainStep, FastPath, NoSlowPath, SlowPath, ReadTotal, ReadStats, Report,
                  ReadPair, Shutdown, Stopped, Stop, StopOthers, StopServer, Close, StopLoop, Join, Exit, Goes
    <2> QED BY <2>1 DEF Next, vars
  <1>4. /\ mode' = mode /\ booked \subseteq booked'
        /\ \A x \in Trades : stage'[x] \in {"none", "booked"} =>
               stage[x] \in {"none", "booked"} /\ ~StartLog(x)
        /\ \A x \in Trades : stage[x] = "none" /\ stage'[x] # "none" /\ mode = "paper" =>
               x \in booked'
    BY <1>1, <1>2, <1>3
  <1>5. ASSUME NEW x \in InLines' \ Earlier PROVE stage'[x] \notin {"none", "booked"}
    <2>1. x \in Trades
      BY <1>5 DEF InLines
    <2>2. x \in InLines \/ StartLog(x)
      BY <1>5, InLinesStep
    <2> QED BY <1>4, <2>1, <2>2 DEF StageInv
  <1>6. ASSUME mode' = "paper", NEW x \in Trades, stage'[x] # "none" PROVE x \in booked'
    BY <1>4, <1>6 DEF StageInv
  <1> QED BY <1>5, <1>6 DEF StageInv

\* While main does not read, what it has read stays found.
LEMMA ReadInvQuiet ==
    ASSUME TypeOK, LogInv, ReadInv, [Next]_vars, MainQuiet
    PROVE  ReadInv'
  <1>1. Spoiled \subseteq Spoiled' /\ Found \subseteq Found'
    BY FoundIsKept
  <1>2. UNCHANGED <<mode, main, unread, total, per_pair, counted, before>>
    BY DEF MainQuiet, mainloop, reads
  <1>3. Reference' = Reference /\ Counted' = Counted
    BY <1>2 DEF Reference, OfPairs, Counted
  <1>4. /\ before' \subseteq Found' /\ per_pair' \subseteq Found'
        /\ mode' = "live" => total' \subseteq Found'
        /\ main' = "total" => unread' = Pairs
    BY <1>1, <1>2 DEF ReadInv
  <1>5. main' \in {"pairs", "report"} => Counted' \ total' \subseteq Spoiled'
    BY <1>1, <1>2, <1>3 DEF ReadInv
  <1>6. main' = "pairs" =>
            {t \in Reference' : PairOf[t] \notin unread'} \ per_pair' \subseteq Spoiled'
    <2>1. main = "pairs" =>
              {t \in Reference : PairOf[t] \notin unread} \ per_pair \subseteq Spoiled
      BY DEF ReadInv
    <2> QED BY <1>1, <1>2, <1>3, <2>1
  <1>7. main' = "report" => /\ Reference' \ per_pair' \subseteq Spoiled'
                            /\ per_pair' \ counted' \subseteq Spoiled'
    BY <1>1, <1>2, <1>3 DEF ReadInv
  <1> QED BY <1>4, <1>5, <1>6, <1>7 DEF ReadInv

\* A step of main, which leaves the log alone.
LEMMA ReadInvMain ==
    ASSUME TypeOK, StageInv, ReadInv, UNCHANGED <<mode, stage, booked, file>>,
           \/ FastPath \/ NoSlowPath \/ SlowPath \/ ReadTotal \/ ReadStats \/ Report
           \/ Shutdown \/ \E p \in Pairs : ReadPair(p)
    PROVE  ReadInv'
  <1>1. Spoiled' = Spoiled /\ Found' = Found /\ load_all_trades' = load_all_trades
    BY DEF file, Spoiled, Found, load_all_trades
  <1>2. load_all_trades \subseteq Found /\ Found \subseteq Trades \cup Earlier
    BY FoundType DEF Found, TypeOK
  <1> USE DEF ReadInv
  <1>3. CASE FastPath \/ NoSlowPath \/ Shutdown
    <2>1. /\ UNCHANGED <<total, per_pair, counted, before>>
          /\ main' \notin {"total", "pairs", "report"}
      BY <1>3 DEF FastPath, NoSlowPath, Shutdown, Stopped, Stop, StopOthers, StopServer, Close, StopLoop, Join, Exit, Goes, reads
    <2> QED BY <1>1, <2>1
  <1>4. CASE SlowPath
    <2>1. /\ before' = load_all_trades /\ UNCHANGED <<total, per_pair, counted>>
          /\ main' = "total" /\ unread' = Pairs
      BY <1>4 DEF SlowPath, Goes, reads
    <2> QED BY <1>1, <1>2, <2>1
  <1>5. CASE ReadTotal
    <2>1. /\ main = "total" /\ main' = "pairs" /\ UNCHANGED <<unread, per_pair, counted, before>>
          /\ total' = IF mode = "paper" THEN booked ELSE load_all_trades
      BY <1>5 DEF ReadTotal, Goes
    <2>2. Counted' \ total' \subseteq Spoiled
      <3>1. CASE mode = "paper"
        <4>1. Counted' \subseteq InLines \ Earlier
          BY <2>1, <3>1, FoundIsInLines DEF Counted
        <4>2. InLines \ Earlier \subseteq booked
          BY <3>1 DEF StageInv, InLines
        <4> QED BY <2>1, <3>1, <4>1, <4>2
      <3>2. CASE mode # "paper"
        <4>1. Counted' \subseteq load_all_trades \cup Spoiled
          BY <2>1 DEF Found, Counted
        <4> QED BY <2>1, <3>2, <4>1
      <3> QED BY <3>1, <3>2
    <2>3. {t \in Reference' : PairOf[t] \notin unread'} = {}
      BY <2>1 DEF Reference, OfPairs
    <2>4. mode' = "live" => total' \subseteq Found
      BY <1>2, <2>1
    <2> QED BY <1>1, <2>1, <2>2, <2>3, <2>4
  <1>6. ASSUME NEW p \in Pairs, ReadPair(p) PROVE ReadInv'
    <2>1. /\ main = "pairs" /\ main' = "pairs" /\ UNCHANGED <<total, counted, before>>
          /\ unread' = unread \ {p}
          /\ per_pair' = per_pair \cup {t \in load_all_trades : PairOf[t] = p}
      BY <1>6 DEF ReadPair, Goes
    <2>2. Reference' = Reference /\ Counted' = Counted /\ Reference \subseteq Found
      BY <2>1 DEF Reference, OfPairs, Counted, TypeOK, MainTypes
    <2>3. {t \in Reference' : PairOf[t] \notin unread'} \ per_pair' \subseteq Spoiled
      <3> SUFFICES ASSUME NEW t \in Reference, PairOf[t] \notin unread', t \notin per_pair'
                   PROVE  t \in Spoiled
        BY <2>2
      <3>1. CASE PairOf[t] \notin unread
        <4>1. {x \in Reference : PairOf[x] \notin unread} \ per_pair \subseteq Spoiled
          BY <2>1
        <4> QED BY <2>1, <3>1, <4>1
      <3>2. CASE PairOf[t] \in unread
        BY <2>1, <2>2, <3>2 DEF Found
      <3> QED BY <3>1, <3>2
    <2>4. per_pair' \subseteq Found
      BY <1>2, <2>1
    <2> QED BY <1>1, <2>1, <2>2, <2>3, <2>4
  <1>7. CASE ReadStats
    <2>1. /\ main = "pairs" /\ main' = "report" /\ UNCHANGED <<total, per_pair, before>>
          /\ unread = {} /\ counted' = load_all_trades
      BY <1>7 DEF ReadStats, Goes
    <2>2. /\ Reference' = Reference /\ Counted' = Counted
          /\ {t \in Reference : PairOf[t] \notin unread} = Reference
      BY <2>1 DEF Reference, OfPairs, Counted
    <2>3. Reference \ per_pair \subseteq Spoiled
      BY <2>1, <2>2
    <2>4. per_pair \ counted' \subseteq Spoiled
      BY <2>1 DEF Found
    <2> QED BY <1>1, <2>1, <2>2, <2>3, <2>4
  <1>8. CASE Report
    <2>1. main' = "loop" /\ total' = {} /\ per_pair' = {} /\ before' = {}
      BY <1>8 DEF Report, Goes
    <2> QED BY <1>1, <2>1
  <1> QED BY <1>3, <1>4, <1>5, <1>6, <1>7, <1>8

LEMMA ReadInvStep ==
    TypeOK /\ LogInv /\ StageInv /\ ReadInv /\ [Next]_vars => ReadInv'
  BY MainSteps, ReadInvQuiet, ReadInvMain

-----------------------------------------------------------------------------
(* The server *)

\* Three failures on end, of a client's outcomes.
ThreeFailed(s) == \E i \in DOMAIN s : i > 2 /\ \A j \in i - 2 .. i : ~s[j]

\* A client's outcomes after one more: a success ends the run of failures, and a
\* failure makes it longer by one, to three at the earliest.
LEMMA OutcomeOf ==
    ASSUME NEW s \in Seq(BOOLEAN), NEW n \in Nat, EndsWithFailures(s, n)
    PROVE  /\ EndsWithFailures(Append(s, TRUE), 0)
           /\ EndsWithFailures(Append(s, FALSE), n + 1)
           /\ ThreeFailed(Append(s, TRUE)) <=> ThreeFailed(s)
           /\ ThreeFailed(Append(s, FALSE)) <=> ThreeFailed(s) \/ n + 1 >= 3
  <1> DEFINE len == Len(s)
  <1>1. ASSUME NEW b \in BOOLEAN
        PROVE  /\ Append(s, b) \in Seq(BOOLEAN) /\ len \in Nat
               /\ Len(Append(s, b)) = len + 1 /\ DOMAIN Append(s, b) = 1 .. len + 1
               /\ DOMAIN s = 1 .. len
               /\ \A i \in 1 .. len : Append(s, b)[i] = s[i]
               /\ Append(s, b)[len + 1] = b
    OBVIOUS
  <1>2. /\ n <= len /\ \A i \in 1 .. len : i > len - n => ~s[i]
        /\ n < len => s[len - n]
    BY <1>1 DEF EndsWithFailures
  <1>3. EndsWithFailures(Append(s, TRUE), 0)
    <2> DEFINE new == Append(s, TRUE)
    <2>1. /\ len \in Nat /\ Len(new) = len + 1 /\ DOMAIN new = 1 .. len + 1 /\ new[len + 1] = TRUE
      BY <1>1
    <2> HIDE DEF new, len
    <2> QED BY <2>1 DEF EndsWithFailures, new
  <1>4. EndsWithFailures(Append(s, FALSE), n + 1)
    <2> DEFINE new == Append(s, FALSE)
    <2>1. /\ len \in Nat /\ Len(new) = len + 1 /\ DOMAIN new = 1 .. len + 1 /\ new[len + 1] = FALSE
          /\ \A i \in 1 .. len : new[i] = s[i]
      BY <1>1
    <2> HIDE DEF new, len
    <2>2. n + 1 <= Len(new)
      BY <1>2, <2>1
    <2>3. \A i \in DOMAIN new : i > Len(new) - (n + 1) => ~new[i]
      BY <1>2, <2>1
    <2>4. n + 1 < Len(new) => new[Len(new) - (n + 1)]
      <3> SUFFICES ASSUME n + 1 < len + 1 PROVE new[Len(new) - (n + 1)]
        BY <2>1
      <3>1. n < len /\ len - n \in 1 .. len /\ Len(new) - (n + 1) = len - n
        BY <2>1
      <3> QED BY <1>2, <2>1, <3>1
    <2> QED BY <2>2, <2>3, <2>4 DEF EndsWithFailures, new
  \* three failures that were there still are
  <1>5. ASSUME NEW b \in BOOLEAN, ThreeFailed(s) PROVE ThreeFailed(Append(s, b))
    <2>1. PICK i \in 1 .. len : i > 2 /\ \A j \in i - 2 .. i : ~s[j]
      BY <1>1, <1>5 DEF ThreeFailed
    <2>2. i \in 1 .. len + 1 /\ \A j \in i - 2 .. i : j \in 1 .. len
      BY <1>1, <2>1
    <2>3. \A j \in i - 2 .. i : ~Append(s, b)[j]
      BY <1>1, <2>1, <2>2
    <2> QED BY <1>1, <2>1, <2>2, <2>3 DEF ThreeFailed
  \* others end with the last outcome
  <1>6. ASSUME NEW b \in BOOLEAN, ThreeFailed(Append(s, b)), ~ThreeFailed(s)
        PROVE  b = FALSE /\ n + 1 >= 3
    <2> DEFINE new == Append(s, b)
    <2>1. /\ len \in Nat /\ DOMAIN new = 1 .. len + 1 /\ new[len + 1] = b /\ DOMAIN s = 1 .. len
          /\ \A i \in 1 .. len : new[i] = s[i]
      BY <1>1
    <2>2. ThreeFailed(new)
      BY <1>6
    <2> HIDE DEF new, len
    <2>3. PICK i \in 1 .. len + 1 : i > 2 /\ \A j \in i - 2 .. i : ~new[j]
      BY <2>1, <2>2 DEF ThreeFailed
    <2>4. i = len + 1
      <3> SUFFICES ASSUME i # len + 1 PROVE FALSE
        OBVIOUS
      <3>1. i \in 1 .. len /\ \A j \in i - 2 .. i : j \in 1 .. len
        BY <2>1, <2>3
      <3>2. \A j \in i - 2 .. i : ~s[j]
        BY <2>1, <2>3, <3>1
      <3>3. ThreeFailed(s)
        BY <2>1, <2>3, <3>1, <3>2 DEF ThreeFailed
      <3> QED BY <1>6, <3>3
    <2>5. ~b
      BY <2>1, <2>3, <2>4
    <2>6. len >= 2 /\ ~s[len] /\ ~s[len - 1]
      <3>1. len >= 2 /\ len \in i - 2 .. i /\ len - 1 \in i - 2 .. i
            /\ len \in 1 .. len /\ len - 1 \in 1 .. len
        BY <2>1, <2>3, <2>4
      <3> QED BY <2>1, <2>3, <3>1
    <2>7. n # 0 /\ n # 1
      BY <1>2, <2>1, <2>6
    <2> QED BY <2>5, <2>7
  <1>7. ASSUME n + 1 >= 3 PROVE ThreeFailed(Append(s, FALSE))
    <2> DEFINE new == Append(s, FALSE)
    <2>1. /\ len \in Nat /\ DOMAIN new = 1 .. len + 1 /\ new[len + 1] = FALSE
          /\ \A i \in 1 .. len : new[i] = s[i]
      BY <1>1
    <2> HIDE DEF new, len
    <2>2. len + 1 \in DOMAIN new /\ len + 1 > 2
      BY <1>2, <1>7, <2>1
    <2>3. \A j \in (len + 1) - 2 .. len + 1 : ~new[j]
      <3> SUFFICES ASSUME NEW j \in (len + 1) - 2 .. len + 1 PROVE ~new[j]
        OBVIOUS
      <3>1. CASE j = len + 1
        BY <2>1, <3>1
      <3>2. CASE j # len + 1
        <4>1. j \in 1 .. len /\ j > len - n
          BY <1>7, <2>1, <2>2, <3>2
        <4> QED BY <1>2, <2>1, <4>1
      <3> QED BY <3>1, <3>2
    <2>4. ThreeFailed(new)
      BY <2>2, <2>3 DEF ThreeFailed
    <2> QED BY <2>4 DEF new
  <1>8. (ThreeFailed(Append(s, TRUE)) <=> ThreeFailed(s))
        /\ (ThreeFailed(Append(s, FALSE)) <=> ThreeFailed(s) \/ n + 1 >= 3)
    BY <1>5, <1>6, <1>7
  <1> QED BY <1>3, <1>4, <1>8

LEMMA SlowIsThreeFailed == \A c : Slow(c) <=> ThreeFailed(outcomes[c])
  BY DEF Slow, ThreeFailed

\* A send, while nobody comes or goes: of its client alone the outcomes, the
\* count and the place among those to be closed have changed.
LEMMA SendOf ==
    ASSUME TypeOK, ServerInv, NEW c \in Clients, Send(c), main' = main
    PROVE  ServerInv'
  <1>1. /\ drain = "send" /\ drain' = "send" /\ c \in todo /\ todo' = todo \ {c}
        /\ UNCHANGED <<running, connections, asked, rounds>>
    BY DEF Send, Drain
  <1>2. c \in connections
    BY <1>1 DEF ServerInv
  <1>3. PICK b \in BOOLEAN :
            /\ outcomes' = [outcomes EXCEPT ![c] = Append(@, b)]
            /\ fail_counts' = [fail_counts EXCEPT ![c] = IF b THEN 0 ELSE fail_counts[c] + 1]
            /\ to_close' = IF ~b /\ fail_counts[c] + 1 >= 3 THEN to_close \cup {c} ELSE to_close
    <2>1. CASE SendSucceeds(c)
      BY <2>1 DEF SendSucceeds, Sent
    <2>2. CASE SendFails(c)
      <3>1. fail_counts' = [fail_counts EXCEPT ![c] = fail_counts[c] + 1]
            /\ outcomes' = [outcomes EXCEPT ![c] = Append(@, FALSE)]
            /\ to_close' = IF fail_counts'[c] >= 3 THEN to_close \cup {c} ELSE to_close
        BY <2>2 DEF SendFails
      <3>2. fail_counts'[c] = fail_counts[c] + 1
        BY <3>1 DEF TypeOK, ServerTypes
      <3> QED BY <3>1, <3>2
    <2> QED BY <2>1, <2>2 DEF Send
  <1>4. outcomes[c] \in Seq(BOOLEAN) /\ fail_counts[c] \in Nat /\ rounds[c] \in Nat
    BY DEF TypeOK, ServerTypes
  <1>5. /\ outcomes'[c] = Append(outcomes[c], b)
        /\ fail_counts'[c] = IF b THEN 0 ELSE fail_counts[c] + 1
        /\ \A d \in Clients : d # c => outcomes'[d] = outcomes[d]
                                       /\ fail_counts'[d] = fail_counts[d]
    BY <1>3 DEF TypeOK, ServerTypes
  <1>6. EndsWithFailures(outcomes[c], fail_counts[c])
    BY <1>2 DEF ServerInv
  <1>7. /\ EndsWithFailures(outcomes'[c], fail_counts'[c])
        /\ ThreeFailed(outcomes'[c]) <=>
               ThreeFailed(outcomes[c]) \/ (~b /\ fail_counts[c] + 1 >= 3)
    <2> DEFINE s == outcomes[c]
               n == fail_counts[c]
    <2> HIDE DEF s, n
    <2>0. s \in Seq(BOOLEAN) /\ n \in Nat /\ EndsWithFailures(s, n)
      BY <1>4, <1>6 DEF s, n
    <2>1. CASE b = TRUE
      <3>1. outcomes'[c] = Append(s, TRUE) /\ fail_counts'[c] = 0
        BY <1>5, <2>1 DEF s
      <3>2. EndsWithFailures(Append(s, TRUE), 0)
            /\ (ThreeFailed(Append(s, TRUE)) <=> ThreeFailed(s))
        BY <2>0, OutcomeOf
      <3> QED BY <2>1, <3>1, <3>2 DEF s
    <2>2. CASE b = FALSE
      <3>1. outcomes'[c] = Append(s, FALSE) /\ fail_counts'[c] = n + 1
        BY <1>5, <2>2 DEF s, n
      <3>2. EndsWithFailures(Append(s, FALSE), n + 1)
            /\ (ThreeFailed(Append(s, FALSE)) <=> ThreeFailed(s) \/ n + 1 >= 3)
        BY <2>0, OutcomeOf
      <3> QED BY <2>2, <3>1, <3>2 DEF s, n
    <2> QED BY <2>1, <2>2
  <1>8. Len(outcomes'[c]) = Len(outcomes[c]) + 1 /\ Len(outcomes[c]) \in Nat
    BY <1>4, <1>5
  <1>9. connections \subseteq Clients
    BY DEF TypeOK, ServerTypes
  <1>10. /\ todo' \subseteq connections' /\ to_close' \subseteq connections'
         /\ asked' \subseteq connections'
    BY <1>1, <1>2, <1>3 DEF ServerInv
  <1>11. \A d \in Clients \ connections' :
             fail_counts'[d] = 0 /\ rounds'[d] = 0 /\ outcomes'[d] = <<>>
    BY <1>1, <1>2, <1>5 DEF ServerInv
  <1>12. \A d \in connections' : EndsWithFailures(outcomes'[d], fail_counts'[d])
    BY <1>1, <1>5, <1>7, <1>9 DEF ServerInv
  <1>13. \A d \in connections :
             /\ Len(outcomes[d]) + (IF d \in todo THEN 1 ELSE 0) = rounds[d]
             /\ running => (d \in asked \cup to_close <=> ThreeFailed(outcomes[d]))
    BY SlowIsThreeFailed DEF ServerInv, SlowIsClosed
  <1>14. ASSUME NEW d \in connections'
         PROVE  /\ Len(outcomes'[d]) + (IF d \in todo' THEN 1 ELSE 0) = rounds'[d]
                /\ running' => (d \in asked' \cup to_close' <=> ThreeFailed(outcomes'[d]))
    <2>1. CASE d = c
      <3>1. Len(outcomes'[d]) + (IF d \in todo' THEN 1 ELSE 0) = rounds'[d]
        <4>1. Len(outcomes[c]) + 1 = rounds[c]
          BY <1>1, <1>2, <1>13
        <4>2. c \notin todo' /\ rounds'[c] = rounds[c]
          BY <1>1
        <4> QED BY <1>8, <2>1, <4>1, <4>2
      <3>2. running' => (d \in asked' \cup to_close' <=> ThreeFailed(outcomes'[d]))
        BY <1>1, <1>2, <1>3, <1>7, <1>13, <2>1
      <3> QED BY <3>1, <3>2
    <2>2. CASE d # c
      BY <1>1, <1>3, <1>5, <1>9, <1>13, <2>2
    <2> QED BY <2>1, <2>2
  <1>15. SlowIsClosed'
    BY <1>14 DEF SlowIsClosed, Slow, ThreeFailed
  <1> QED BY <1>1, <1>10, <1>11, <1>12, <1>15 DEF ServerInv

LEMMA ServerInvStep == TypeOK /\ ServerInv /\ [Next]_vars => ServerInv'
  <1> SUFFICES ASSUME TypeOK, ServerInv, [Next]_vars PROVE ServerInv'
    OBVIOUS
  <1>1. CASE ServerQuiet
    BY <1>1 DEF ServerQuiet, ServerInv, SlowIsClosed, Slow, drainer, history
  <1>2. CASE StopServer
    BY <1>2 DEF StopServer, Goes, StopRunning, ServerInv, SlowIsClosed, Slow, drainer, history
  <1>3. CASE Close
    <2>1. ~running /\ running' = running /\ asked' = asked \cup connections
          /\ UNCHANGED <<connections, drain, todo, fail_counts, to_close, rounds, outcomes>>
      BY <1>3 DEF Close, Goes, CloseAll, ServerInv, Stopping, drainer, history
    <2> QED BY <2>1 DEF ServerInv, SlowIsClosed
  <1>4. ASSUME NEW c \in Clients, OnOpen(c), main' = main PROVE ServerInv'
    <2>1. /\ drain # "send" /\ c \notin connections /\ c \notin asked
          /\ connections' = connections \cup {c}
          /\ UNCHANGED <<running, drain, todo, fail_counts, to_close, asked, rounds, outcomes>>
      BY <1>4 DEF OnOpen, Locked, drainer, history
    <2>2. /\ todo = {} /\ to_close = {}
          /\ fail_counts[c] = 0 /\ rounds[c] = 0 /\ outcomes[c] = <<>>
      BY <2>1 DEF ServerInv
    <2>3. EndsWithFailures(<<>>, 0) /\ Len(<<>>) = 0 /\ DOMAIN <<>> = {}
      BY DEF EndsWithFailures
    <2>4. EndsWithFailures(outcomes[c], fail_counts[c]) /\ Len(outcomes[c]) = 0 /\ ~Slow(c)
      BY <2>2, <2>3 DEF Slow
    <2>5. \A d : Slow(d)' <=> Slow(d)
      BY <2>1 DEF Slow
    <2>6. SlowIsClosed'
      BY <2>1, <2>2, <2>4, <2>5 DEF ServerInv, SlowIsClosed
    <2> QED BY <1>4, <2>1, <2>4, <2>6 DEF ServerInv
  <1>5. ASSUME NEW c \in Clients, OnClose(c), main' = main PROVE ServerInv'
    <2>1. /\ drain # "send" /\ connections' = connections \ {c} /\ asked' = asked \ {c}
          /\ fail_counts' = [fail_counts EXCEPT ![c] = 0]
          /\ rounds' = [rounds EXCEPT ![c] = 0] /\ outcomes' = [outcomes EXCEPT ![c] = <<>>]
          /\ UNCHANGED <<running, drain, todo, to_close>>
      BY <1>5 DEF OnClose, Locked
    <2>2. todo = {} /\ to_close = {}
      BY <2>1 DEF ServerInv
    <2>3. /\ fail_counts'[c] = 0 /\ rounds'[c] = 0 /\ outcomes'[c] = <<>>
          /\ \A d \in Clients : d # c => fail_counts'[d] = fail_counts[d]
                 /\ rounds'[d] = rounds[d] /\ outcomes'[d] = outcomes[d]
      BY <2>1 DEF TypeOK, ServerTypes
    <2>4. connections \subseteq Clients
      BY DEF TypeOK, ServerTypes
    <2>5. \A d \in connections' : Slow(d)' <=> Slow(d)
      BY <2>1, <2>3, <2>4 DEF Slow
    <2>6. SlowIsClosed'
      BY <2>1, <2>2, <2>3, <2>4, <2>5 DEF ServerInv, SlowIsClosed
    <2>7. \A d \in Clients \ connections' :
              fail_counts'[d] = 0 /\ rounds'[d] = 0 /\ outcomes'[d] = <<>>
      BY <2>1, <2>3 DEF ServerInv
    <2>8. \A d \in connections' : EndsWithFailures(outcomes'[d], fail_counts'[d])
      BY <2>1, <2>3, <2>4 DEF ServerInv
    <2>9. todo' \subseteq connections' /\ to_close' \subseteq connections'
          /\ asked' \subseteq connections'
      BY <2>1, <2>2 DEF ServerInv
    <2>10. main' \in Stopping => ~running'
      BY <1>5, <2>1 DEF ServerInv
    <2> QED BY <2>1, <2>2, <2>6, <2>7, <2>8, <2>9, <2>10 DEF ServerInv
  <1>6. CASE (Pop \/ DrainExit) /\ main' = main
    <2>1. /\ UNCHANGED <<running, connections, todo, fail_counts, to_close, asked, rounds, outcomes>>
          /\ drain # "send" /\ drain' # "send"
      BY <1>6 DEF Pop, DrainExit, Drain, history
    <2> QED BY <1>6, <2>1 DEF ServerInv, SlowIsClosed, Slow
  <1>7. CASE LockClients /\ main' = main
    <2>1. /\ drain # "send" /\ drain' = "send" /\ todo' = connections
          /\ rounds' = [c \in Clients |-> IF c \in connections THEN rounds[c] + 1 ELSE 0]
          /\ UNCHANGED <<running, connections, fail_counts, to_close, asked, outcomes>>
      BY <1>7 DEF LockClients, Drain
    <2>2. todo = {} /\ connections \subseteq Clients
      BY <2>1 DEF ServerInv, TypeOK, ServerTypes
    <2>3. /\ \A c \in connections : rounds'[c] = rounds[c] + 1
          /\ \A c \in Clients \ connections : rounds'[c] = 0
      BY <2>1, <2>2
    <2>4. \A c : Slow(c)' <=> Slow(c)
      BY <2>1 DEF Slow
    <2>5. \A c \in connections : Len(outcomes[c]) = rounds[c]
      <3>1. \A c \in connections : Len(outcomes[c]) + 0 = rounds[c] /\ rounds[c] \in Nat
            /\ outcomes[c] \in Seq(BOOLEAN)
        BY <2>2 DEF ServerInv, SlowIsClosed, TypeOK, ServerTypes
      <3> QED BY <3>1
    <2>6. SlowIsClosed'
      BY <2>1, <2>3, <2>4, <2>5 DEF ServerInv, SlowIsClosed
    <2> QED BY <1>7, <2>1, <2>3, <2>6 DEF ServerInv
  <1>8. CASE CloseSlow /\ main' = main
    <2>1. /\ todo = {} /\ asked' = asked \cup to_close /\ to_close' = {} /\ drain' = "loop"
          /\ UNCHANGED <<running, connections, todo, fail_counts, rounds, outcomes>>
      BY <1>8 DEF CloseSlow, Drain, history
    <2>2. \A c : Slow(c)' <=> Slow(c)
      BY <2>1 DEF Slow
    <2>3. SlowIsClosed'
      BY <2>1, <2>2 DEF ServerInv, SlowIsClosed
    <2> QED BY <1>8, <2>1, <2>3 DEF ServerInv
  <1>9. ASSUME NEW c \in Clients, Send(c), main' = main PROVE ServerInv'
    BY <1>9, SendOf
  <1> QED BY <1>1, <1>2, <1>3, <1>4, <1>5, <1>6, <1>7, <1>8, <1>9, ServerSteps DEF DrainStep

-----------------------------------------------------------------------------
(* The theorems *)

LEMMA ReportingInvInit == Init => ReportingInv
  <1> SUFFICES ASSUME Init PROVE ReportingInv
    OBVIOUS
  <1>1. /\ writer = Nobody /\ faults = 0 /\ exposed = {} /\ mode \in DOMAIN KeptFiles
        /\ \A t \in Trades : stage[t] = "none"
        /\ main = "loop" /\ total = {} /\ per_pair = {} /\ before = {}
    BY ReportingConstants DEF Init, LogInit
  <1>2. PICK f \in KeptFiles[mode] : lines = f.lines /\ ended = f.ended /\ torn = ~f.ended
    BY DEF Init, LogInit
  <1>3. /\ IsFile(lines, ended) /\ torn = ~ended
        /\ \A i \in DOMAIN lines : \A j \in DOMAIN lines[i] : lines[i][j].trade \in Earlier
    BY <1>1, <1>2, LoggerConstants
  <1>4. LogInv
    BY <1>1, <1>3 DEF LogInv, IsFile
  <1>5. InLines \subseteq Earlier /\ Logged = {}
    <2>1. InLines \subseteq Earlier
      BY <1>3 DEF InLines
    <2>2. Logged = {}
      BY <1>1 DEF Logged
    <2> QED BY <2>1, <2>2
  <1>6. LostInv
    <2>1. IsFiniteSet({}) /\ Cardinality({}) = 0
      BY FS_EmptySet
    <2>2. Hanging = IF torn THEN 1 ELSE 0
      BY <1>1, <1>3 DEF Hanging, IsFile
    <2> QED BY <1>1, <1>5, <2>1, <2>2 DEF LostInv
  <1>7. StageInv
    BY <1>1, <1>5 DEF StageInv
  <1>8. ReadInv
    BY <1>1 DEF ReadInv
  <1>9. ServerInv
    BY DEF Init, ServerInit, ServerInv, SlowIsClosed, Stopping
  <1> QED BY <1>4, <1>6, <1>7, <1>8, <1>9, TypeInit DEF ReportingInv

\* Every state of the composition is of the types of its variables: each place of
\* the file is a record of a trade, also when a write is cut short or two trades
\* share a line (Appended and Written of trade_logger.cpp's log_trade()).
THEOREM TypeCorrect == Spec => []TypeOK
  <1>1. Init => TypeOK /\ LogInv
    BY ReportingInvInit DEF ReportingInv
  <1>2. TypeOK /\ LogInv /\ [Next]_vars => (TypeOK /\ LogInv)'
    BY TypeStep, LogInvStep
  <1> QED BY <1>1, <1>2, PTL DEF Spec

\* The inductive invariant of log, reads and server.
THEOREM ReportingInvHolds == Spec => []ReportingInv
  <1>1. ReportingInv /\ [Next]_vars => ReportingInv'
    BY TypeStep, LogInvStep, LostInvStep, StageInvStep, ReadInvStep, ServerInvStep
       DEF ReportingInv
  <1> QED BY <1>1, ReportingInvInit, PTL DEF Spec

\* However many trades are logged, and whenever the file is loaded: a trade of
\* this run that is logged and not found is one of at most two for each write that
\* was short or failed, or that of the line that an earlier run left without its
\* end (log_trade() appends to such a line, and load_all_trades() skips what does
\* not parse).
THEOREM LostIsBoundedHolds == Spec => []LostIsBounded
  <1>1. ReportingInv => LostIsBounded
    <2> SUFFICES ASSUME ReportingInv PROVE LostIsBounded
      OBVIOUS
    <2> DEFINE kept == IF torn THEN 1 ELSE 0
    <2>1. IsFiniteSet(exposed) /\ Cardinality(exposed) + Hanging <= 2 * faults + kept
      BY DEF ReportingInv, LostInv
    <2>2. /\ Cardinality(exposed) \in Nat /\ faults \in Nat /\ Hanging \in Nat /\ kept \in Nat
      BY <2>1, FS_CardinalityType DEF ReportingInv, TypeOK, LogTypes, Hanging
    <2> HIDE DEF kept
    <2>3. Cardinality(exposed) <= 2 * faults + kept
      BY <2>1, <2>2
    <2> QED BY <2>3, LostIsExposed DEF LostIsBounded, ReportingInv, kept
  <1> QED BY <1>1, ReportingInvHolds, PTL

\* The figures of a P&L message are ordered as the loads they come from, up to the
\* trades that share a line: main's reads of total_pnl, pnl_for_pair() and the
\* cached statistics, with trades logged in between by any io threads, and with
\* the trades of earlier runs in the file, which the total of paper mode lacks.
THEOREM ReportIsOrderedHolds == Spec => []ReportIsOrdered
  <1>1. ReportingInv => ReportIsOrdered
    BY DEF ReportingInv, ReadInv, ReportIsOrdered, Reference, Counted
  <1> QED BY <1>1, ReportingInvHolds, PTL

\* The drain thread sends each client what it pops, once, and the server asks
\* those to close, and only those, of which three sends failed on end: for any
\* clients that come and go between the rounds of drain_loop().
THEOREM SlowIsClosedHolds == Spec => []SlowIsClosed
  <1>1. ReportingInv => SlowIsClosed
    BY DEF ReportingInv, ServerInv
  <1> QED BY <1>1, ReportingInvHolds, PTL
=============================================================================
