------------------------------ MODULE Logging ------------------------------
(***************************************************************************)
(* The log sessions (sim-core, logging/logging.rs and cli/set_cmd.rs): the *)
(* CLI opens and closes a transcript and a debug session, which may share  *)
(* a file, and both threads write to them.  Three kinds of mutex guard a   *)
(* write: DebugState, TranscriptInner and SharedSink.                      *)
(*                                                                         *)
(* A call is a thread with the locks it still has to take, in order; its   *)
(* effect comes when it holds them all, and releases them.                 *)
(***************************************************************************)
EXTENDS Integers, Sequences

CONSTANTS
  Cli, Sim,      \* the two threads
  Sinks,         \* files that are opened
  Transcripts,   \* TranscriptSink objects
  Sessions,      \* DebugState objects
  None,          \* no session, no transcript, nobody
  MaxWrites,     \* bound: entries of a file
  MaxChars       \* bound: console characters of a transcript

Writers == {Cli, Sim}
Locks == Sinks \cup Transcripts \cup Sessions

\* A call that a thread is in, with the locks it still needs.
Calls == [op : {"line", "part", "char", "newline", "flush", "record", "share log", "share debug"},
          need : Seq(Locks)]

ASSUME LoggingAssumption ==
  /\ Cli # Sim /\ MaxWrites \in Nat /\ MaxChars \in Nat
  /\ Sinks \cap Transcripts = {} /\ Sinks \cap Sessions = {} /\ Transcripts \cap Sessions = {}
  /\ None \notin Locks /\ None \notin Writers /\ None \notin Calls

VARIABLES
  file,        \* what has been written to each sink
  transcript,  \* the TranscriptSinks: their writer and line buffer
  session,     \* the DebugStates: their sink and transcript
  owner,       \* who holds each mutex
  cliLog,      \* REPLState::transcript_sink
  cliDebug,    \* REPLState::debug_state
  simDebug,    \* SimEnvironment::debug_state
  doing,       \* the call each thread is in
  pushed       \* history: console characters each transcript was given

loggingVars == <<file, transcript, session, owner, cliLog, cliDebug, simDebug, doing, pushed>>

\* What one write to a file is.  A part leaves the line unfinished; a cut is
\* the copy of an unfinished console line that precedes a debug record, with
\* a newline of its own; the other entries end their line.
Entry == [kind : {"part", "line", "console", "cut", "marker", "record"}, by : Transcripts \cup {None},
          text : Seq(1 .. MaxChars)]

\* Types, and no mutex is held by a thread that is not in a call.
LoggingTypeOK ==
  /\ file \in [Sinks -> Seq(Entry)]
  /\ transcript \in [Transcripts -> [writer : Sinks \cup {None}, buffer : Seq(1 .. MaxChars)]]
  /\ session \in [Sessions -> [sink : Sinks \cup {None}, transcript : Transcripts \cup {None}]]
  /\ owner \in [Locks -> Writers \cup {None}]
  /\ cliLog \in Transcripts \cup {None}
  /\ {cliDebug, simDebug} \subseteq Sessions \cup {None}
  /\ doing \in [Writers -> Calls \cup {None}]
  /\ pushed \in [Transcripts -> 0 .. MaxChars]
  /\ \A l \in Locks : owner[l] # None => doing[owner[l]] # None

LoggingInit ==
  /\ file = [s \in Sinks |-> <<>>]
  /\ transcript = [t \in Transcripts |-> [writer |-> None, buffer |-> <<>>]]
  /\ session = [d \in Sessions |-> [sink |-> None, transcript |-> None]]
  /\ owner = [l \in Locks |-> None]
  /\ cliLog = None /\ cliDebug = None /\ simDebug = None
  /\ doing = [th \in Writers |-> None]
  /\ pushed = [t \in Transcripts |-> 0]

\* The locks that a write to a transcript takes, and those a record takes.
ViaTranscript(t) == <<t, transcript[t].writer>>

\* Mutant: a record locks the file, which the session knows, before the transcript.
ViaSession_SinkFirst(d) ==
  <<d>> \o (IF session[d].transcript = None THEN <<session[d].sink>>
            ELSE <<session[d].sink, session[d].transcript>>)

ViaSession(d) ==
  <<d>> \o (IF session[d].transcript = None THEN <<session[d].sink>>
            ELSE ViaTranscript(session[d].transcript))

Room(need) == \A i \in DOMAIN need : need[i] \in Sinks => Len(file[need[i]]) < MaxWrites

Free(th) == doing[th] = None
Held(th) == {l \in Locks : owner[l] = th}
Released(th) == [l \in Locks |-> IF owner[l] = th THEN None ELSE owner[l]]

Start(th, op, need) ==
  /\ Free(th)
  /\ Room(need)
  /\ doing' = [doing EXCEPT ![th] = [op |-> op, need |-> need]]
  /\ UNCHANGED <<file, transcript, session, owner, cliLog, cliDebug, simDebug, pushed>>

-----------------------------------------------------------------------------
\* Calls that write: println and the echo of a command line end a line, the
\* prompt and the pieces of an examine do not; characters of the simulated
\* console go through the line buffer.
StartCli ==
  \/ /\ cliLog # None
     /\ \/ \E op \in {"line", "part"} : Start(Cli, op, ViaTranscript(cliLog))
        \/ pushed[cliLog] < MaxChars /\ Start(Cli, "char", <<cliLog>>)
        \/ pushed[cliLog] < MaxChars /\ Start(Cli, "newline", ViaTranscript(cliLog))
        \/ Start(Cli, "flush", ViaTranscript(cliLog))
  \/ cliDebug # None /\ Start(Cli, "record", ViaSession(cliDebug))

\* sim_debug!, whose check of the category (DebugRegistry) may say either.
StartSim ==
  /\ simDebug # None
  /\ Start(Sim, "record", ViaSession(simDebug))

Acquire(th) ==
  /\ doing[th] # None /\ doing[th].need # <<>>
  /\ owner[Head(doing[th].need)] = None
  /\ owner' = [owner EXCEPT ![Head(doing[th].need)] = th]
  /\ doing' = [doing EXCEPT ![th].need = Tail(@)]
  /\ UNCHANGED <<file, transcript, session, cliLog, cliDebug, simDebug, pushed>>

Ready(th, op) == doing[th] # None /\ doing[th].op = op /\ doing[th].need = <<>>

Return(th) ==
  /\ owner' = Released(th)
  /\ doing' = [doing EXCEPT ![th] = None]

Plain(kind) == [kind |-> kind, by |-> None, text |-> <<>>]
Text(kind, t) == [kind |-> kind, by |-> t, text |-> transcript[t].buffer]

\* write_line, write_str.
Write(th) ==
  \E op \in {"line", "part"} :
    /\ Ready(th, op)
    /\ \E s \in Sinks \cap Held(th) : file' = [file EXCEPT ![s] = Append(@, Plain(op))]
    /\ Return(th)
    /\ UNCHANGED <<transcript, session, cliLog, cliDebug, simDebug, pushed>>

\* push_char: any character goes into the buffer, a newline empties it.
PushChar(th) ==
  /\ Ready(th, "char")
  /\ \E t \in Transcripts \cap Held(th) :
       /\ transcript' = [transcript EXCEPT ![t].buffer = Append(@, pushed[t] + 1)]
       /\ pushed' = [pushed EXCEPT ![t] = @ + 1]
  /\ Return(th)
  /\ UNCHANGED <<file, session, cliLog, cliDebug, simDebug>>

PushNewline(th) ==
  /\ Ready(th, "newline")
  /\ \E t \in Transcripts \cap Held(th), s \in Sinks \cap Held(th) :
       LET line == [Text("console", t) EXCEPT !.text = Append(@, pushed[t] + 1)] IN
       /\ file' = [file EXCEPT ![s] = Append(@, line)]
       /\ transcript' = [transcript EXCEPT ![t].buffer = <<>>]
       /\ pushed' = [pushed EXCEPT ![t] = @ + 1]
  /\ Return(th)
  /\ UNCHANGED <<session, cliLog, cliDebug, simDebug>>

\* TranscriptSink::flush, after each command line: also a line with no end.
Flush(th) ==
  /\ Ready(th, "flush")
  /\ \E t \in Transcripts \cap Held(th), s \in Sinks \cap Held(th) :
       IF transcript[t].buffer = <<>> THEN UNCHANGED <<file, transcript>>
       ELSE /\ file' = [file EXCEPT ![s] = Append(@, Text("console", t))]
            /\ transcript' = [transcript EXCEPT ![t].buffer = <<>>]
  /\ Return(th)
  /\ UNCHANGED <<session, cliLog, cliDebug, simDebug, pushed>>

\* Mutant: the buffer is emptied by the copy that goes before the record.
Record_TakesBuffer(th) ==
  /\ Ready(th, "record")
  /\ \E s \in Sinks \cap Held(th) :
       LET ts == {t \in Transcripts \cap Held(th) : transcript[t].buffer # <<>>} IN
       /\ file' = [file EXCEPT ![s] =
            IF ts = {} THEN Append(@, Plain("record"))
            ELSE @ \o <<Text("cut", CHOOSE t \in ts : TRUE), Plain("marker"), Plain("record")>>]
       /\ transcript' = [t \in Transcripts |->
            IF t \in ts THEN [transcript[t] EXCEPT !.buffer = <<>>] ELSE transcript[t]]
  /\ Return(th)
  /\ UNCHANGED <<session, cliLog, cliDebug, simDebug, pushed>>

\* Mutant: the file's lock is dropped between the marker and the record.
Record_DropsLock(th) ==
  /\ Ready(th, "record")
  /\ \E s \in Sinks \cap Held(th) :
       LET ts == {t \in Transcripts \cap Held(th) : transcript[t].buffer # <<>>}
           marked == file[s] # <<>> /\ file[s][Len(file[s])].kind = "marker"
       IN
       IF ts = {} \/ marked
       THEN /\ file' = [file EXCEPT ![s] = Append(@, Plain("record"))]
            /\ Return(th)
       ELSE /\ file' = [file EXCEPT ![s] = @ \o <<Text("cut", CHOOSE t \in ts : TRUE), Plain("marker")>>]
            /\ owner' = [owner EXCEPT ![s] = None]
            /\ doing' = [doing EXCEPT ![th].need = <<s>>]
  /\ UNCHANGED <<transcript, session, cliLog, cliDebug, simDebug, pushed>>

\* write_sim, write_cli: straight to the file, or by write_debug_with_flush,
\* which copies an unfinished console line and keeps it.
Record(th) ==
  /\ Ready(th, "record")
  /\ \E s \in Sinks \cap Held(th) :
       LET ts == {t \in Transcripts \cap Held(th) : transcript[t].buffer # <<>>} IN
       file' = [file EXCEPT ![s] =
         IF ts = {} THEN Append(@, Plain("record"))
         ELSE @ \o <<Text("cut", CHOOSE t \in ts : TRUE), Plain("marker"), Plain("record")>>]
  /\ Return(th)
  /\ UNCHANGED <<transcript, session, cliLog, cliDebug, simDebug, pushed>>

-----------------------------------------------------------------------------
Unopened == {s \in Sinks : /\ \A t \in Transcripts : transcript[t].writer # s
                           /\ \A d \in Sessions : session[d].sink # s}
Unused == {t \in Transcripts : transcript[t].writer = None}
Unborn == {d \in Sessions : session[d].sink = None}

\* SET LOG: a new transcript over a file, which is the CLI's from now on.
OpenLog(s) ==
  \E t \in Unused :
    /\ transcript' = [transcript EXCEPT ![t].writer = s]
    /\ cliLog' = t

\* SET DEBUG: a new session, which the simulator has before the command ends.
OpenDebug(s, t) ==
  \E d \in Unborn :
    /\ session' = [session EXCEPT ![d] = [sink |-> s, transcript |-> t]]
    /\ cliDebug' = d /\ simDebug' = d

\* SET LOG <file>
SetLogFile ==
  /\ Free(Cli)
  /\ \E s \in Unopened : OpenLog(s)
  /\ UNCHANGED <<file, session, owner, cliDebug, simDebug, doing, pushed>>

\* SET LOG DEBUG locks the session to clone its sink.
SetLogDebug ==
  \/ cliDebug # None /\ Start(Cli, "share debug", <<cliDebug>>)
  \/ /\ Ready(Cli, "share debug")
     /\ OpenLog(session[cliDebug].sink)
     /\ Return(Cli)
     /\ UNCHANGED <<file, session, cliDebug, simDebug, pushed>>

\* SET NOLOG: a debug session that shares the transcript goes on using it.
SetNolog ==
  /\ Free(Cli)
  /\ cliLog # None
  /\ cliLog' = None
  /\ UNCHANGED <<file, transcript, session, owner, cliDebug, simDebug, doing, pushed>>

\* SET DEBUG <file>: the simulator takes the request between two instructions.
SetDebugFile ==
  /\ Free(Cli) /\ Free(Sim)
  /\ \E s \in Unopened : OpenDebug(s, None)
  /\ UNCHANGED <<file, transcript, owner, cliLog, doing, pushed>>

\* SET DEBUG LOG locks the transcript to clone its sink.
SetDebugLog ==
  \/ cliLog # None /\ Start(Cli, "share log", <<cliLog>>)
  \/ /\ Ready(Cli, "share log")
     /\ Free(Sim)
     /\ OpenDebug(transcript[cliLog].writer, cliLog)
     /\ Return(Cli)
     /\ UNCHANGED <<file, transcript, cliLog, pushed>>

\* SET NODEBUG
SetNodebug ==
  /\ Free(Cli) /\ Free(Sim)
  /\ cliDebug # None
  /\ cliDebug' = None /\ simDebug' = None
  /\ UNCHANGED <<file, transcript, session, owner, cliLog, doing, pushed>>

LoggingNext ==
  \/ StartCli \/ StartSim
  \/ \E th \in Writers :
       Acquire(th) \/ Write(th) \/ PushChar(th) \/ PushNewline(th) \/ Flush(th) \/ Record(th)
  \/ SetLogFile \/ SetLogDebug \/ SetNolog \/ SetDebugFile \/ SetDebugLog \/ SetNodebug

LoggingSpec == LoggingInit /\ [][LoggingNext]_loggingVars

-----------------------------------------------------------------------------
\* No deadly embrace: the threads are never each waiting for a mutex that the
\* other holds, whatever the sessions share ("Lock ordering is strict",
\* logging.rs:35-38).
Waits(th) == doing[th] # None /\ doing[th].need # <<>>

NoDeadlyEmbrace ==
  ~(/\ Waits(Cli) /\ owner[Head(doing[Cli].need)] = Sim
    /\ Waits(Sim) /\ owner[Head(doing[Sim].need)] = Cli)

OfConsole(t, entry) == entry.kind = "console" /\ entry.by = t

\* The characters 1 .. n of t are in these entries, once each and in order.
InOrder(t, entries, n) ==
  LET lines == {i \in DOMAIN entries : OfConsole(t, entries[i])} IN
  /\ \A i \in lines : \A a \in DOMAIN entries[i].text : entries[i].text[a] <= n
  /\ \A c \in 1 .. n : \E i \in lines : \E a \in DOMAIN entries[i].text : entries[i].text[a] = c
  /\ \A i, j \in lines : \A a \in DOMAIN entries[i].text, b \in DOMAIN entries[j].text :
       i < j \/ (i = j /\ a < b) => entries[i].text[a] < entries[j].text[b]

\* What a transcript has been given: its file, then the line buffer.
Received(t) == Append(file[transcript[t].writer], Text("console", t))

\* The console's characters are in the transcript's file and its line buffer
\* in the order in which they came, each once, whatever records were written
\* between them (logging.rs:203-218, 266-283); the copies before records are
\* extra.
ConsoleKept ==
  \A t \in Transcripts :
    transcript[t].writer # None => InOrder(t, Received(t), pushed[t])

\* The marker stands between the unfinished line and the record it announces
\* (logging.rs:270-283): no other writer gets between them, also when a
\* transcript and a debug session write to the file directly.
MarkersAnnounce ==
  \A s \in Sinks : \A i \in DOMAIN file[s] :
    file[s][i].kind = "marker" =>
      /\ i > 1 /\ file[s][i - 1].kind = "cut"
      /\ i < Len(file[s]) /\ file[s][i + 1].kind = "record"

\* Violated: "ensuring the debug record is not interleaved mid-line"
\* (logging.rs:23).  The prompt is written past the line buffer.
RecordsStartLines ==
  \A s \in Sinks : \A i \in DOMAIN file[s] :
    file[s][i].kind = "record" /\ i > 1 => file[s][i - 1].kind # "part"
=============================================================================
