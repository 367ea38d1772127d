----------------------------- MODULE AgentMemory -----------------------------
(***************************************************************************)
(* The memory files of one bot, and of its org's review agents.  Every       *)
(* decision of the bot is appended to the raw file of the day; at night the  *)
(* compactor writes a summary of the day before beside it, which readers     *)
(* take instead; at the weekend the self critique reads the last days and    *)
(* appends a lesson, and the review agents append their recommendations.     *)
(* Objects in S3 have no append: each one is read and put back whole.  What  *)
(* a summary keeps is the language model's choice, down to nothing at all.   *)
(***************************************************************************)
EXTENDS Naturals, FiniteSets

CONSTANTS
  Processes,   \* processes that run the bot; one, but for restarts
  Critics,     \* self critiques there may be at a time
  Advisers,    \* runs of the review agent there may be at a time
  PerDay,      \* units of time in a day
  AppendTime,  \* longest time between the two halves of an append
  CompactHour, \* units after midnight at which the compactor is invoked
  Window,      \* days a critique reads, counting today
  MaxTime, MaxLines \* (bound)

ASSUME MemoryAssumption ==
  /\ {AppendTime, MaxTime, MaxLines} \subseteq Nat
  /\ PerDay \in Nat \ {0} /\ Window \in Nat \ {0}
  /\ AppendTime < CompactHour /\ CompactHour \in 0..(PerDay - 1)

Days == 0..(MaxTime \div PerDay)
Lines == 1..MaxLines
Runs == Critics \cup Advisers
Files == {"lessons", "recommendations"}
FileOf(r) == IF r \in Critics THEN "lessons" ELSE "recommendations"
None == {0}                 \* there is no compressed file

VARIABLES
  clock,
  raw,        \* the lines in each day's file
  compressed, \* the lines its summary keeps, or None
  append,     \* what each process is at: the line, its day, what it read when
  compaction, \* the day being summarised and what was read of it
  run,        \* what each critique or review is at
  notes,      \* the runs whose entries are in lessons.md, recommendations.md
  lines,      \* (history) lines each day's file was told
  omitted,    \* (history) lines its summary was made from and left out
  told,       \* (history) lines of the window when a critique began
  missed,     \* (history) lines left out of the summaries it has loaded
  noted,      \* (history) runs that finished an append to each file
  racedDays,  \* (history) days whose file had two appends at a time
  racedFiles  \* (history) other files of which that is true

dayVars == <<raw, lines, racedDays>>
noteVars == <<notes, noted, racedFiles>>
summaryVars == <<compressed, omitted>>
runVars == <<run, told, missed>>
memoryVars == <<clock, dayVars, summaryVars, append, compaction, runVars, noteVars>>

NoAppend == [pc |-> "idle", line |-> 0, day |-> 0, seen |-> {}, since |-> 0]
NoCompaction == [busy |-> FALSE, day |-> 0, seen |-> {}]
NoRun == [pc |-> "idle", next |-> 0, read |-> 0, seen |-> {}, found |-> {}]

MemoryInit ==
  /\ clock = 0
  /\ raw = [d \in Days |-> {}]
  /\ compressed = [d \in Days |-> None]
  /\ append = [p \in Processes |-> NoAppend]
  /\ compaction = NoCompaction
  /\ run = [r \in Runs |-> NoRun]
  /\ notes = [f \in Files |-> {}]
  /\ lines = [d \in Days |-> {}]
  /\ omitted = [d \in Days |-> {}]
  /\ told = [r \in Runs |-> {}] /\ missed = [r \in Runs |-> {}]
  /\ noted = [f \in Files |-> {}]
  /\ racedDays = {} /\ racedFiles = {}

Today == clock \div PerDay

\* The run is over, with nothing of it kept.
EndRun(r) ==
  /\ run' = [run EXCEPT ![r] = NoRun]
  /\ told' = [told EXCEPT ![r] = {}]
  /\ missed' = [missed EXCEPT ![r] = {}]

-----------------------------------------------------------------------------
\* decide: the model has answered, with whatever decision.
BotDecides(p, n) ==
  /\ append[p].pc = "idle"
  /\ \A d \in Days : n \notin lines[d] /\ n \notin raw[d]
  /\ \A q \in Processes : append[q].line # n
  /\ append' = [append EXCEPT ![p] = [@ EXCEPT !.pc = "open", !.line = n]]
  /\ UNCHANGED <<clock, summaryVars, compaction, runVars, dayVars, noteVars>>

\* append_to_today reads the day's file ...
OpenDay(p) ==
  /\ append[p].pc = "open"
  /\ append' = [append EXCEPT ![p] =
       [@ EXCEPT !.pc = "write", !.day = Today, !.seen = raw[Today], !.since = clock]]
  /\ racedDays' = racedDays \cup
       {d \in {Today} : \E q \in Processes : append[q].pc = "write" /\ append[q].day = d}
  /\ UNCHANGED <<clock, raw, lines, summaryVars, compaction, runVars, noteVars>>

\* ... and puts it back with the line.
WriteDay(p) ==
  LET d == append[p].day IN
  /\ append[p].pc = "write"
  /\ raw' = [raw EXCEPT ![d] = append[p].seen \cup {append[p].line}]
  /\ lines' = [lines EXCEPT ![d] = @ \cup {append[p].line}]
  /\ append' = [append EXCEPT ![p] = NoAppend]
  /\ UNCHANGED <<clock, racedDays, summaryVars, compaction, runVars, noteVars>>

\* Either call fails, which _append_memory_line only logs, or the process dies.
AppendFails(p) ==
  /\ append[p].pc # "idle"
  /\ append' = [append EXCEPT ![p] = NoAppend]
  /\ UNCHANGED <<clock, summaryVars, compaction, runVars, dayVars, noteVars>>

-----------------------------------------------------------------------------
\* The day that is not over is summarised.
DayToCompact_slip == Today

\* _yesterday_utc, as the provisioner's invocations name no date.
DayToCompact == Today - 1

\* run_compact_day: a day without a line is skipped.
StartCompaction ==
  /\ ~compaction.busy
  /\ Today > 0 /\ clock % PerDay >= CompactHour
  /\ raw[DayToCompact] # {}
  /\ compaction' = [busy |-> TRUE, day |-> DayToCompact, seen |-> raw[DayToCompact]]
  /\ UNCHANGED <<clock, summaryVars, append, runVars, dayVars, noteVars>>

\* The model's answer is stored as it is, whatever it keeps of the day; a blank
\* one becomes a file too, of a newline.  It replaces an earlier summary and
\* leaves the raw file alone.
WriteCompressed ==
  /\ compaction.busy
  /\ \E kept \in SUBSET compaction.seen :
       /\ compressed' = [compressed EXCEPT ![compaction.day] = kept]
       /\ omitted' = [omitted EXCEPT ![compaction.day] = compaction.seen \ kept]
  /\ compaction' = NoCompaction
  /\ UNCHANGED <<clock, append, runVars, dayVars, noteVars>>

CompactionFails ==
  /\ compaction.busy
  /\ compaction' = NoCompaction
  /\ UNCHANGED <<clock, summaryVars, append, runVars, dayVars, noteVars>>

-----------------------------------------------------------------------------
\* A day that has no summary yet reads as empty.
ReadCompressed_slip(d) == IF compressed[d] = None THEN {} ELSE compressed[d]

\* read_compressed: the summary, a blank one too, or the raw file as long as
\* there is none.
ReadCompressed(d) == IF compressed[d] = None THEN raw[d] ELSE compressed[d]

WindowDays == {d \in Days : d <= Today /\ d + Window > Today}

\* A critique begins to load the recent days, from today backwards.
StartCritique(r) ==
  /\ r \in Critics /\ run[r].pc = "idle"
  /\ run' = [run EXCEPT ![r] = [@ EXCEPT !.pc = "days", !.next = Today]]
  /\ told' = [told EXCEPT ![r] = UNION {raw[d] : d \in WindowDays}]
  /\ UNCHANGED <<clock, summaryVars, append, compaction, missed, dayVars, noteVars>>

LoadDay(r) ==
  /\ run[r].pc = "days" /\ run[r].read < Window
  /\ run' = [run EXCEPT ![r] =
       [@ EXCEPT !.seen = run[r].seen \cup ReadCompressed(run[r].next),
                 !.next = IF run[r].next = 0 THEN 0 ELSE run[r].next - 1,
                 !.read = IF run[r].next = 0 THEN Window ELSE run[r].read + 1]]
  /\ missed' = [missed EXCEPT ![r] = @ \cup omitted[run[r].next]]
  /\ UNCHANGED <<clock, summaryVars, append, compaction, told, dayVars, noteVars>>

\* A critique has read its days, or a review agent its ledgers, and the model
\* has answered.
Reflect(r) ==
  /\ \/ run[r].pc = "days" /\ run[r].read = Window
     \/ r \in Advisers /\ run[r].pc = "idle"
  /\ run' = [run EXCEPT ![r].pc = "open"]
  /\ UNCHANGED <<clock, summaryVars, append, compaction, told, missed, dayVars, noteVars>>

\* The file is taken to be empty.
Contents_slip(f) == {}

\* append_lesson and append_recommendation read the file ...
Contents(f) == notes[f]

OpenNotes(r) ==
  LET f == FileOf(r) IN
  /\ run[r].pc = "open"
  /\ run' = [run EXCEPT ![r] = [@ EXCEPT !.pc = "write", !.found = Contents(f)]]
  /\ racedFiles' = racedFiles \cup
       {g \in {f} : \E q \in Runs : run[q].pc = "write" /\ FileOf(q) = g}
  /\ UNCHANGED <<clock, summaryVars, append, compaction, told, missed, notes, noted, dayVars>>

\* ... and put it back with the entry.
WriteNotes(r) ==
  LET f == FileOf(r) IN
  /\ run[r].pc = "write"
  /\ notes' = [notes EXCEPT ![f] = run[r].found \cup {r}]
  /\ noted' = [noted EXCEPT ![f] = @ \cup {r}]
  /\ EndRun(r)
  /\ UNCHANGED <<clock, summaryVars, append, compaction, racedFiles, dayVars>>

\* A read, the model or a write fails, or the time is up.
RunFails(r) ==
  /\ run[r].pc # "idle"
  /\ EndRun(r)
  /\ UNCHANGED <<clock, summaryVars, append, compaction, dayVars, noteVars>>

Tick ==
  /\ clock < MaxTime
  /\ \A p \in Processes : append[p].pc = "write" => clock < append[p].since + AppendTime
  /\ clock' = clock + 1
  /\ UNCHANGED <<summaryVars, append, compaction, runVars, dayVars, noteVars>>

MemoryNext ==
  \/ Tick
  \/ \E p \in Processes :
       \/ \E n \in Lines : BotDecides(p, n)
       \/ OpenDay(p) \/ WriteDay(p) \/ AppendFails(p)
  \/ StartCompaction \/ WriteCompressed \/ CompactionFails
  \/ \E r \in Runs :
       \/ StartCritique(r) \/ LoadDay(r) \/ Reflect(r)
       \/ OpenNotes(r) \/ WriteNotes(r) \/ RunFails(r)

MemorySpec == MemoryInit /\ [][MemoryNext]_memoryVars

-----------------------------------------------------------------------------
MemoryTypeOK ==
  /\ clock \in 0..MaxTime
  /\ raw \in [Days -> SUBSET Lines] /\ lines \in [Days -> SUBSET Lines]
  /\ compressed \in [Days -> (SUBSET Lines) \cup {None}]
  /\ append \in [Processes -> [pc : {"idle", "open", "write"}, line : 0..MaxLines,
                               day : Days, seen : SUBSET Lines, since : 0..MaxTime]]
  /\ compaction \in [busy : BOOLEAN, day : Days, seen : SUBSET Lines]
  /\ run \in [Runs -> [pc : {"idle", "days", "open", "write"}, next : Days,
                       read : 0..Window, seen : SUBSET Lines, found : SUBSET Runs]]
  /\ omitted \in [Days -> SUBSET Lines]
  /\ told \in [Runs -> SUBSET Lines] /\ missed \in [Runs -> SUBSET Lines]
  /\ notes \in [Files -> SUBSET Runs] /\ noted \in [Files -> SUBSET Runs]
  /\ racedDays \subseteq Days /\ racedFiles \subseteq Files

\* What the bot wrote of a day is in the day's file for good, and what readers
\* are given in the file's place lacks only what the model left out of a summary
\* made from all of it: no line of the day comes after its summary or unseen by
\* it.  Two processes that append to the day at a time lose lines.
NothingForgotten ==
  \A d \in Days : d \notin racedDays =>
    /\ lines[d] \subseteq raw[d]
    /\ raw[d] \subseteq ReadCompressed(d) \cup omitted[d]

\* A critique reflects on every line its days held when it began but for those
\* the model left out of the summaries it was given, though days turn from
\* files into summaries, and summaries are made anew, while it reads one day
\* after another.
WeekIsRead ==
  \A r \in Critics :
    run[r].pc \in {"open", "write"} =>
      told[r] \subseteq run[r].seen \cup missed[r] \/ racedDays # {}

\* An entry stays in its file, unless two appends to it overlapped.
NotesAreKept ==
  \A f \in Files : f \in racedFiles \/ noted[f] \subseteq notes[f]
=============================================================================
