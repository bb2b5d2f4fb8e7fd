------------------------------ MODULE LogStream ------------------------------
(***************************************************************************)
(* The page that follows a log as it is written: stream_logs of            *)
(* backend/routers/logs.py over the readings of                            *)
(* backend/services/log_sources.py.  A source cannot be subscribed to: the *)
(* stream reads its last lines again and again and sends those it has not  *)
(* seen, and it knows a line by its time, its sender and its text.         *)
(*                                                                         *)
(* Some of what a request leaves out is left out where the log is, before  *)
(* the cut to the last lines, and some after it; which is which depends on *)
(* the source.  A kind of line is its text with the one thing that leaves  *)
(* it out.  Left out: what the parsers make of a line but its time, the    *)
(* counts by level and sender of a single page.                            *)
(***************************************************************************)
EXTENDS Integers, Sequences, FiniteSets

CONSTANTS
    LsSources,    \* where a log may be read: router, journal, plain, backend, audit
    LsKinds,      \* what a line may be: its text and what leaves it out
    LsAsked,      \* how many lines a request may ask for (`lines`, any integer)
    LsDefault,    \* what asking for none means (200 in the code)
    LsMost,       \* logs.max_lines
    LsKeep,       \* how many times the lines asked for the stream remembers (4 in the code)
    LsTolerance,  \* how far in the future a time of this year may be (a minute)
    LsAheads,     \* how far ahead the clock of the router may be
    LsMaxLines,   \* bound on the lines written
    LsMaxTime     \* bound on the clock

ASSUME LsCuts ==
    /\ LsAsked \subseteq Int /\ LsDefault \in Int /\ LsMost \in Int
    /\ LsKeep \in Nat \ {0} /\ LsTolerance \in Nat
ASSUME LsPlaces ==
    /\ LsSources \subseteq {"router", "journal", "plain", "backend", "audit"}
    /\ LsAheads \subseteq Nat
ASSUME LsBounds == LsMaxLines \in Nat

VARIABLES
    lsSource,  \* the source followed
    lsLines,   \* `lines` of the request, as it came
    lsAhead,   \* how far ahead its clock is
    lsNow,     \* the clock of the backend
    lsLog,     \* the lines of the source, with the time its clock gave them
    lsStep,    \* the stream: not asked for, on, or ended
    lsSeen,    \* visti: the keys of the lines already on the page
    lsFrom,    \* history: how many lines there were at the first reading
    lsUnread,  \* history: the first reading has failed
    lsReads,   \* history: how long the log was at each reading
    lsSent     \* history: how many times each line was sent, 2 standing for more than once

lsVars == <<lsSource, lsLines, lsAhead, lsNow, lsLog, lsStep, lsSeen, lsFrom, lsUnread,
            lsReads, lsSent>>
lsLogVars == <<lsSource, lsLines, lsAhead, lsNow, lsLog>>
lsHistory == <<lsFrom, lsUnread, lsReads, lsSent>>

-----------------------------------------------------------------------------
\* What is left out before the cut.  On the router a grep takes the text, the exclusions
\* of the page and the rules in plain text; on a host journalctl -g takes the text,
\* unless it is built without it ("plain"); the buffer of the backend is read whole; of
\* the audit file the last lines are read as they are.
AtSource ==
    [router |-> {"filter", "exclude", "rule"}, journal |-> {"filter"}, plain |-> {},
     backend |-> {"filter", "exclude", "rule", "regex"}, audit |-> {}]

\* What is left out at all: no rule of logs.exclude touches the audit.
NeverShown ==
    [s \in {"router", "journal", "plain", "backend", "audit"} |->
        {"filter", "exclude", "level"} \cup (IF s = "audit" THEN {} ELSE {"rule", "regex"})]

Counts(i) == lsLog[i].kind.drop \notin AtSource[lsSource]

Visible(i) == lsLog[i].kind.drop \notin NeverShown[lsSource]

\* The lines of one reading: those asked for, or the default, but one at least and no more
\* than logs.max_lines.
Cut ==
    LET asked == IF lsLines = 0 THEN LsDefault ELSE lsLines
        most == IF asked > LsMost THEN LsMost ELSE asked
    IN  IF most > 1 THEN most ELSE 1

\* The lines the stream remembers: some times those of the request as it came.
Memory == LsKeep * (IF lsLines > 1 THEN lsLines ELSE 1)

\* leggi: of the last lines that count, the ones that may be shown.
Leggi ==
    {i \in DOMAIN lsLog :
        /\ Counts(i) /\ Visible(i)
        /\ Cardinality({j \in DOMAIN lsLog : j > i /\ Counts(j)}) < Cut}

\* _syslog_ts_ms: the syslog of the router tells no year, and a time too far in the
\* future is of the year before.  The other sources tell the whole of it.
Anno(stamp) ==
    IF lsSource = "router" /\ stamp > lsNow + LsTolerance THEN "last" ELSE "this"

\* _chiave: what tells a line already seen.
Chiave(i) == [year |-> Anno(lsLog[i].stamp), stamp |-> lsLog[i].stamp, text |-> lsLog[i].kind.text]

-----------------------------------------------------------------------------
LsInit ==
    /\ lsSource \in LsSources /\ lsLines \in LsAsked
    /\ lsAhead \in (IF lsSource = "router" THEN LsAheads ELSE {0})
    /\ lsNow = 1 /\ lsLog = <<>>
    /\ lsStep = "off" /\ lsSeen = {}
    /\ lsFrom = 0 /\ lsUnread = FALSE /\ lsReads = <<>>
    /\ lsSent = [i \in 1 .. LsMaxLines |-> 0]

LsTick ==
    /\ lsNow < LsMaxTime /\ lsStep # "ended"
    /\ lsNow' = lsNow + 1
    /\ UNCHANGED <<lsSource, lsLines, lsAhead, lsLog, lsStep, lsSeen, lsHistory>>

\* The source writes a line.
LineWritten(kind) ==
    /\ Len(lsLog) < LsMaxLines /\ lsStep # "ended"
    /\ lsLog' = Append(lsLog, [kind |-> kind, stamp |-> lsNow + lsAhead])
    /\ UNCHANGED <<lsSource, lsLines, lsAhead, lsNow, lsStep, lsSeen, lsHistory>>

\* The first reading: what is on the page already is not sent.
StreamLogs ==
    /\ lsStep = "off"
    /\ lsStep' = "on"
    /\ lsSeen' = {Chiave(i) : i \in Leggi}
    /\ lsFrom' = Len(lsLog) /\ lsReads' = <<Len(lsLog)>>
    /\ UNCHANGED <<lsLogVars, lsUnread, lsSent>>

\* It fails.  The router's failure ends the stream; any other is a warning, and the
\* stream goes on with nothing seen of what was there already.
StreamUnread ==
    /\ lsStep = "off"
    /\ lsStep' = IF lsSource = "router" THEN "ended" ELSE "on"
    /\ lsFrom' = Len(lsLog) /\ lsUnread' = TRUE
    /\ UNCHANGED <<lsLogVars, lsSeen, lsReads, lsSent>>

\* Slip: the memory is emptied when it is full, the lines of this reading included.
SeenAfterEmptied(read) ==
    LET visti == lsSeen \cup {Chiave(i) : i \in read}
    IN  IF Cardinality(visti) > Memory THEN {} ELSE visti

\* Slip: the memory is never cut.
SeenAfterUncut(read) == lsSeen \cup {Chiave(i) : i \in read}

\* The memory grows with what was sent; full, it starts again from this reading, which
\* may be empty or larger than the memory itself.
SeenAfter(read) ==
    LET visti == lsSeen \cup {Chiave(i) : i \in read}
    IN  IF Cardinality(visti) > Memory THEN {Chiave(i) : i \in read} ELSE visti

\* A round: the lines not seen are sent, two alike in one reading both of them.
StreamRound ==
    /\ lsStep = "on"
    /\ lsSent' = [i \in DOMAIN lsSent |->
                    IF i \in Leggi /\ Chiave(i) \notin lsSeen /\ lsSent[i] < 2
                    THEN lsSent[i] + 1 ELSE lsSent[i]]
    /\ lsSeen' = SeenAfter(Leggi)
    /\ lsReads' = IF lsReads # <<>> /\ lsReads[Len(lsReads)] = Len(lsLog) THEN lsReads
                  ELSE Append(lsReads, Len(lsLog))
    /\ UNCHANGED <<lsLogVars, lsStep, lsFrom, lsUnread>>

\* A round that reads nothing: the router's failure ends the stream, any other goes
\* unsaid; so does the end of the time allowed, and a page that has gone.
RoundFails ==
    /\ lsStep = "on"
    /\ \/ lsSource = "router" /\ lsStep' = "ended" /\ UNCHANGED lsSeen
       \/ lsSource # "router" /\ lsSeen' = SeenAfter({}) /\ UNCHANGED lsStep
    /\ UNCHANGED <<lsLogVars, lsHistory>>

StreamEnds ==
    /\ lsStep = "on"
    /\ lsStep' = "ended"
    /\ UNCHANGED <<lsLogVars, lsSeen, lsHistory>>

LsNext ==
    \/ LsTick
    \/ \E kind \in LsKinds : LineWritten(kind)
    \/ StreamLogs \/ StreamUnread \/ StreamRound \/ RoundFails \/ StreamEnds

LsSpec == LsInit /\ [][LsNext]_lsVars

-----------------------------------------------------------------------------
LsTypeOK ==
    /\ lsSource \in LsSources /\ lsLines \in LsAsked /\ lsAhead \in LsAheads \cup {0}
    /\ lsNow \in 1 .. LsMaxTime
    /\ Len(lsLog) <= LsMaxLines
    /\ \A i \in DOMAIN lsLog :
          lsLog[i].kind \in LsKinds /\ lsLog[i].stamp \in 1 .. (lsNow + lsAhead)
    /\ lsStep \in {"off", "on", "ended"}
    /\ lsFrom \in 0 .. Len(lsLog) /\ lsUnread \in BOOLEAN
    /\ Cardinality(lsSeen) <= Memory \/ Cardinality(lsSeen) <= Cut
    /\ lsSent \in [1 .. LsMaxLines -> 0 .. 2]

\* The reading number n is the first that could find line i.
FirstReading(i, n) == lsReads[n] >= i /\ \A m \in 1 .. (n - 1) : lsReads[m] < i

\* As many lines as the cut came between a line and the first reading that could find it.
Pushed(i) ==
    \E n \in DOMAIN lsReads :
        /\ FirstReading(i, n)
        /\ Cardinality({j \in (i + 1) .. lsReads[n] : Counts(j)}) >= Cut

\* A line that may be shown, the same in time and text, was there at an earlier reading.
Twin(i) ==
    \E n \in DOMAIN lsReads, j \in 1 .. (i - 1) :
        /\ lsReads[n] < i /\ j <= lsReads[n] /\ Visible(j)
        /\ lsLog[j].stamp = lsLog[i].stamp /\ lsLog[j].kind.text = lsLog[i].kind.text

\* The lines the stream knows to be on the page: those the first reading found.
Known == IF lsUnread THEN 0 ELSE lsFrom

\* The page that follows a log gets each line once (stream_logs: "Le chiavi servono a non
\* ripetere le righe", and the first reading is not sent: "senza rimandare tutto il log
\* gia' in pagina"), and every line that may be shown, but for those that a reading could
\* not reach or that another line is not told from.  But when the first reading of a
\* source other than the router has failed, what was on the page already is sent once
\* (logs.py:131).  When the clock of the router is ahead by more than the tolerance, a
\* line may be sent again, its year read otherwise.  And when the request asks for 0
\* lines, the memory is smaller than a reading: a failed round may empty it, and all is
\* sent again (logs.py:148, log_sources.py:520).
StreamHonest ==
    /\ lsAhead <= LsTolerance /\ lsLines # 0 =>
          \A i \in DOMAIN lsLog : lsSent[i] <= (IF i <= Known THEN 0 ELSE 1)
    /\ lsReads # <<>> =>
          \A i \in (Known + 1) .. lsReads[Len(lsReads)] :
              Visible(i) => lsSent[i] > 0 \/ Pushed(i) \/ Twin(i)
    /\ \A i \in DOMAIN lsLog : lsSent[i] > 0 => Visible(i)
=============================================================================
