-------------------------------- MODULE Log --------------------------------
(***************************************************************************)
(* Loggers, appenders and the files they write (src/src/system/log.cc,     *)
(* src/include/system/log.h).  A thread builds an event when the logging   *)
(* statement starts and hands it over when the statement ends, under the   *)
(* one global s_log_mutex, so events may reach a file in another order     *)
(* than their time stamps.  A hand-over calls the appenders of a list one  *)
(* after the other; the clock, the disk and other threads' statements go   *)
(* on between two of them.  Configuration takes no lock in the code and is *)
(* modelled as not overlapping a hand-over.                                *)
(***************************************************************************)
EXTENDS LogFormat

CONSTANTS LoggerNames,        \* names of the loggers besides the root
          Root,         \* the root logger
          Files,        \* file appenders
          Console,      \* the root's StdOutLogAppender
          LogThreads,
          Levels,       \* the levels in use, of 0 (UNKNOW) .. 5 (FATAL)
          Patterns,     \* patterns a program sets
          Unset,        \* a null pointer, an absent event
          Shared,       \* the mark of an appender that changed hands
          Bare,         \* that of one whose formatter was taken while in a list
          MaxCalls,     \* bound on configuration calls
          MaxEvents,    \* bound on logging statements
          Moments,      \* the values of the clock looked at, in seconds
          MaxFaults     \* bound on changes of the disk's state

ASSUME LevelsAssumption == Levels \subseteq 0..5 /\ 1 \in Levels
ASSUME MomentsAssumption == Moments \subseteq Nat /\ Moments # {}
ASSUME BoundsAssumption == MaxCalls \in Nat /\ MaxEvents \in Nat /\ MaxFaults \in Nat

Loggers   == LoggerNames \cup {Root}
Appenders == Files \cup {Console}
DEBUG == 1
ReopenEvery == 3        \* seconds
DefaultPattern == <<"%", "c", "%", "m">>   \* stands for the constructor's pattern

Event == [content : 1..MaxEvents, logger : Loggers, level : Levels,
          time : Moments, thread : LogThreads]
Formatters == Patterns \cup {DefaultPattern}
Logger == [level : Levels, formatter : Formatters, appenders : Seq(Appenders)]
HandOver == [thread : LogThreads, logger : Loggers, left : Seq(Appenders) \ {<<>>}]

ASSUME NamesAssumption ==
    /\ Console \notin Files
    /\ Unset \notin Loggers \cup Formatters \cup Event \cup Logger
    /\ Shared \notin Loggers \cup {Unset, Bare} /\ Bare \notin Loggers \cup {Unset}

VARIABLES loggers,     \* Logger objects by name, Unset until getLogger makes one
          appenders,   \* LogAppender objects
          sink,        \* what each appender has written: its stream, the events
                       \* the file holds, m_lastTime, the last line accepted
          pending,     \* the event each thread is building
          handing,     \* who holds s_log_mutex in Logger::log: the thread, the
                       \* logger whose appenders it calls, those still to call
          clock,       \* time(0)
          disk,        \* can files be opened, can they be written
          loyal,       \* history: the one logger an appender has been in, or a mark
          calls, events, faults   \* how often each happened, for the bounds

logVars == <<loggers, appenders, sink, pending, handing, clock, disk, loyal,
          calls, events, faults>>

NewLogger(n) == [level |-> DEBUG, formatter |-> DefaultPattern, appenders |-> <<>>]

\* m_level has no initializer in log.h: it holds whatever the memory held.
NewAppender(level) == [level |-> level, own |-> FALSE, formatter |-> Unset]

\* FileLogAppender's constructor opens the file.
FreshSink == [stream |-> "good", lines |-> <<>>, lastTime |-> 0, last |-> Unset]

\* LoggerManager(): the root with its console appender.
LogInit ==
    /\ appenders \in {[a \in Appenders |->
                        IF a = Console
                        THEN [NewAppender(level[a]) EXCEPT !.formatter = DefaultPattern]
                        ELSE NewAppender(level[a])] : level \in [Appenders -> Levels]}
    /\ loggers = [n \in Loggers |->
                    IF n = Root THEN [NewLogger(n) EXCEPT !.appenders = <<Console>>]
                    ELSE Unset]
    /\ sink = [a \in Appenders |-> FreshSink]
    /\ pending = [t \in LogThreads |-> Unset]
    /\ handing = Unset
    /\ clock \in Moments /\ \A later \in Moments : clock <= later
    /\ disk = [opens |-> TRUE, room |-> TRUE]
    /\ loyal = [a \in Appenders |-> IF a = Console THEN Root ELSE Unset]
    /\ calls = 0 /\ events = 0 /\ faults = 0

Made(n) == loggers[n] # Unset
Attached(a) == \E n \in Loggers : Made(n) /\ a \in Range(loggers[n].appenders)

Configures ==
    /\ calls < MaxCalls
    /\ calls' = calls + 1
    /\ handing = Unset
    /\ UNCHANGED <<sink, pending, handing, clock, disk, events, faults>>

\* LoggerManager::getLogger for a name not met before.
GetLogger(n) ==
    /\ ~Made(n)
    /\ loggers' = [loggers EXCEPT ![n] = NewLogger(n)]
    /\ UNCHANGED <<appenders, sink, pending, handing, clock, disk, loyal, calls, events,
                   faults>>

\* Logger::setLevel and LogAppender::setLevel.
SetLoggerLevel(n, level) ==
    /\ Configures
    /\ Made(n)
    /\ loggers' = [loggers EXCEPT ![n].level = level]
    /\ UNCHANGED <<appenders, loyal>>

SetAppenderLevel(a, level) ==
    /\ Configures
    /\ appenders' = [appenders EXCEPT ![a].level = level]
    /\ UNCHANGED <<loggers, loyal>>

(***************************************************************************)
(* LogAppender::setFormatter.  With a null formatter the appender follows  *)
(* its logger again, but has nothing to format with until it is added or   *)
(* the logger's formatter is set.                                          *)
(***************************************************************************)
SetAppenderFormatter(a, f) ==
    /\ Configures
    /\ appenders' = [appenders EXCEPT ![a] =
                        [level |-> @.level, own |-> (f # Unset), formatter |-> f]]
    /\ loyal' = [loyal EXCEPT ![a] = IF f = Unset /\ Attached(a) THEN Bare ELSE @]
    /\ UNCHANGED loggers

\* Whether Logger::setFormatter hands the new formatter on to appender a.
Follows(a, n) == a \in Range(loggers[n].appenders) /\ ~appenders[a].own

\* Logger::setFormatter(LogFormatter::ptr).
SetFormatterPtr(n, f) ==
    /\ loggers' = [loggers EXCEPT ![n].formatter = f]
    /\ appenders' = [a \in Appenders |->
                        IF Follows(a, n) THEN [appenders[a] EXCEPT !.formatter = f]
                        ELSE appenders[a]]

(***************************************************************************)
(* Logger::setFormatter(const std::string&).  A pattern that init() found  *)
(* wrong is ignored.  m_error has no initializer, so a right pattern may   *)
(* be ignored too.                                                         *)
(***************************************************************************)
SetFormatter(n, p) ==
    /\ Configures
    /\ Made(n)
    /\ \/ ~InitItems(p).error /\ SetFormatterPtr(n, p)
       \/ UNCHANGED <<loggers, appenders>>
    /\ UNCHANGED loyal

\* A fault: see GivenFormatter.
GivenFormatterKept(a, n) == appenders[a].formatter

\* The formatter addAppender leaves the appender with.
GivenFormatter(a, n) ==
    IF appenders[a].formatter = Unset THEN loggers[n].formatter
    ELSE appenders[a].formatter

\* Logger::addAppender; nothing keeps an appender from being added twice.
AddAppender(n, a) ==
    /\ Configures
    /\ Made(n)
    /\ loggers' = [loggers EXCEPT ![n].appenders = Append(@, a)]
    /\ appenders' = [appenders EXCEPT ![a].formatter = GivenFormatter(a, n)]
    /\ loyal' = [loyal EXCEPT ![a] = IF @ \in {Unset, n} THEN n ELSE Shared]

\* Logger::delAppender erases the first match only.
DelAppender(n, a) ==
    /\ Configures
    /\ Made(n)
    /\ \E k \in 1..Len(loggers[n].appenders) :
          /\ loggers[n].appenders[k] = a
          /\ \A j \in 1..k - 1 : loggers[n].appenders[j] # a
          /\ loggers' = [loggers EXCEPT ![n].appenders = RemoveAt(@, k)]
    /\ loyal' = [loyal EXCEPT ![a] = IF @ = Bare THEN Bare ELSE Shared]
    /\ UNCHANGED appenders

(***************************************************************************)
(* HPGS_LOG_LEVEL: the level is looked at when the statement starts, and   *)
(* the event takes its time then.                                          *)
(***************************************************************************)
StartEvent(t, n, level) ==
    /\ events < MaxEvents
    /\ pending[t] = Unset
    /\ Made(n)
    /\ loggers[n].level <= level
    /\ events' = events + 1
    /\ pending' = [pending EXCEPT ![t] =
          [content |-> events + 1, logger |-> n, level |-> level,
           time |-> clock, thread |-> t]]
    /\ UNCHANGED <<loggers, appenders, sink, handing, clock, disk, loyal, calls, faults>>

(***************************************************************************)
(* FileLogAppender::reopen.  The file is opened for writing without        *)
(* ios::app, which empties it.  A stream on which a write failed is not    *)
(* closed first, and opening an open stream fails: it stays as it is.      *)
(***************************************************************************)
Reopened(s) ==
    IF s.stream = "stuck" THEN s
    ELSE IF disk.opens THEN [s EXCEPT !.stream = "good", !.lines = <<>>]
    ELSE [s EXCEPT !.stream = "shut"]

\* Formatting a line into a stream.
Written(s, event) ==
    IF s.stream # "good" THEN s
    ELSE IF disk.room THEN [s EXCEPT !.lines = Append(@, event)]
    ELSE [s EXCEPT !.stream = "stuck"]

\* A fault: see FileLog.
FileLogReopensAfter(s, event) ==
    IF event.time >= s.lastTime + ReopenEvery
    THEN Reopened([Written(s, event) EXCEPT !.lastTime = event.time])
    ELSE Written(s, event)

(***************************************************************************)
(* FileLogAppender::log once the level has passed: a file last opened      *)
(* three seconds ago or more is opened again before the line is written.   *)
(***************************************************************************)
FileLog(s, event) ==
    IF event.time >= s.lastTime + ReopenEvery
    THEN Written([Reopened(s) EXCEPT !.lastTime = event.time], event)
    ELSE Written(s, event)

\* StdOutLogAppender::log once the level has passed; std::cout is not a file.
StdOutLog(s, event) == [s EXCEPT !.lines = <<event>>]

\* Appender a in the loop of Logger::log of logger n: what its sink becomes.
AppenderLog(a, n, event) ==
    IF event.level < appenders[a].level THEN sink[a]
    ELSE LET text == Format(appenders[a].formatter, n, event.level, event)
             s    == [sink[a] EXCEPT !.last = [event |-> event, text |-> text]]
         IN  IF a = Console THEN StdOutLog(s, event) ELSE FileLog(s, event)

\* Logger::log of n calls the appenders of m: its own, or the root's if it has none.
Calls(n, m, event) ==
    /\ event.level >= loggers[n].level
    /\ m = n \/ (loggers[n].appenders = <<>> /\ m = Root)
    /\ event.level >= loggers[m].level
    /\ loggers[m].appenders # <<>>

\* ~LogEventWrap: s_log_mutex is taken, and kept while there are appenders to call.
Deliver(t) ==
    /\ pending[t] # Unset
    /\ handing = Unset
    /\ \/ \E m \in Loggers :
             /\ Calls(pending[t].logger, m, pending[t])
             /\ handing' = [thread |-> t, logger |-> m, left |-> loggers[m].appenders]
             /\ UNCHANGED pending
       \/ /\ \A m \in Loggers : ~Calls(pending[t].logger, m, pending[t])
          /\ pending' = [pending EXCEPT ![t] = Unset]
          /\ UNCHANGED handing
    /\ UNCHANGED <<loggers, appenders, sink, clock, disk, loyal, calls, events, faults>>

\* One turn of the loop in Logger::log; the mutex is given back after the last.
CallAppender ==
    /\ handing # Unset
    /\ LET t == handing.thread
           a == Head(handing.left)
       IN  /\ sink' = [sink EXCEPT ![a] = AppenderLog(a, handing.logger, pending[t])]
           /\ IF Tail(handing.left) = <<>>
              THEN handing' = Unset /\ pending' = [pending EXCEPT ![t] = Unset]
              ELSE /\ handing' = [handing EXCEPT !.left = Tail(@)]
                   /\ UNCHANGED pending
    /\ UNCHANGED <<loggers, appenders, clock, disk, loyal, calls, events, faults>>

(***************************************************************************)
(* m_formatter->format with a null m_formatter: the process is at its end, *)
(* and so is the specification.                                            *)
(***************************************************************************)
Crashing ==
    /\ handing # Unset
    /\ pending[handing.thread].level >= appenders[Head(handing.left)].level
    /\ appenders[Head(handing.left)].formatter = Unset

Tick ==
    /\ \E later \in Moments : later > clock /\ clock' = later
    /\ UNCHANGED <<loggers, appenders, sink, pending, handing, disk, loyal, calls, events,
                   faults>>

\* The directory appears or goes away, the disk fills up or is cleared.
DiskChanges(what) ==
    /\ faults < MaxFaults
    /\ faults' = faults + 1
    /\ disk' = [disk EXCEPT ![what] = ~@]
    /\ UNCHANGED <<loggers, appenders, sink, pending, handing, clock, loyal, calls, events>>

LogNext ==
    \/ \E n \in LoggerNames : GetLogger(n)
    \/ \E n \in Loggers, l \in Levels : SetLoggerLevel(n, l)
    \/ \E a \in Files, l \in Levels : SetAppenderLevel(a, l)
    \/ \E a \in Files, f \in Patterns \cup {Unset} : SetAppenderFormatter(a, f)
    \/ \E n \in Loggers, p \in Patterns : SetFormatter(n, p)
    \/ \E n \in Loggers, a \in Files : AddAppender(n, a) \/ DelAppender(n, a)
    \/ \E t \in LogThreads, n \in Loggers, l \in Levels : StartEvent(t, n, l)
    \/ \E t \in LogThreads : Deliver(t)
    \/ CallAppender
    \/ Tick
    \/ \E what \in {"opens", "room"} : DiskChanges(what)

LogSpec == LogInit /\ [][~Crashing /\ LogNext]_logVars
-----------------------------------------------------------------------------
LogTypeOK ==
    /\ loggers \in [Loggers -> Logger \cup {Unset}]
    /\ appenders \in [Appenders -> [level : Levels, own : BOOLEAN,
                                    formatter : Formatters \cup {Unset}]]
    /\ DOMAIN sink = Appenders
    /\ \A a \in Appenders : /\ sink[a].stream \in {"good", "shut", "stuck"}
                             /\ sink[a].lines \in Seq(Event)
                             /\ sink[a].lastTime \in Moments \cup {0}
    /\ pending \in [LogThreads -> Event \cup {Unset}]
    /\ handing \in HandOver \cup {Unset}
    /\ handing # Unset => pending[handing.thread] # Unset
    /\ clock \in Moments /\ disk \in [opens : BOOLEAN, room : BOOLEAN]
    /\ loyal \in [Appenders -> Loggers \cup {Unset, Shared, Bare}]
    /\ calls \in 0..MaxCalls /\ events \in 0..MaxEvents /\ faults \in 0..MaxFaults

(***************************************************************************)
(* An appender in some logger's list has a formatter, whatever was added,  *)
(* taken out and set before, unless a null one was set while it was in a   *)
(* list: only then do the m_formatter->format calls of                     *)
(* FileLogAppender::log and StdOutLogAppender::log meet a null one.        *)
(***************************************************************************)
Printable ==
    \A a \in Appenders : Attached(a) /\ loyal[a] # Bare => appenders[a].formatter # Unset

(***************************************************************************)
(* An appender without a formatter of its own that has only ever been in   *)
(* one logger, and still is, prints with that logger's present formatter   *)
(* (Logger::setFormatter, addAppender).  One that was taken out and added  *)
(* again, or is shared, may print with an old or a foreign one, and one    *)
(* whose formatter was taken has none.                                     *)
(***************************************************************************)
InheritsWhileAttached ==
    \A a \in Appenders :
        (loyal[a] \in Loggers /\ ~appenders[a].own)
            => appenders[a].formatter = loggers[loyal[a]].formatter

(***************************************************************************)
(* Whatever order appenders are added, shared, taken out and configured    *)
(* in, each has the formatter it should print with.                        *)
(***************************************************************************)
FormattersKept == LogTypeOK /\ Printable /\ InheritsWhileAttached

(***************************************************************************)
(* Opening the file again never costs the line being written: while its    *)
(* stream is in order, the last event a file appender accepted is the last *)
(* one in its file, whatever order the time stamps came in and whatever    *)
(* the disk did before (FileLogAppender::log, reopen).                     *)
(***************************************************************************)
LastLineKept ==
    \A a \in Files :
        (sink[a].stream = "good" /\ sink[a].last # Unset)
            => sink[a].lines # <<>> /\ Last(sink[a].lines) = sink[a].last.event

(***************************************************************************)
(* A file never spans more than one period: every line in it is stamped    *)
(* before m_lastTime + 3, also when events arrive out of the order of      *)
(* their time stamps (FileLogAppender::log).                               *)
(***************************************************************************)
FileWindow ==
    \A a \in Files : \A k \in 1..Len(sink[a].lines) :
        sink[a].lines[k].time < sink[a].lastTime + ReopenEvery

(***************************************************************************)
(* What a file holds: the last line accepted, and no line of a later       *)
(* period than the one it was opened for.                                  *)
(***************************************************************************)
FileKept == LastLineKept /\ FileWindow
=============================================================================
