------------------------------ MODULE Watchers --------------------------------
(***************************************************************************)
(* The three watchers of watchers/: threads that read on in files which    *)
(* other programs append to.  Claude's transcripts and Codex's rollouts    *)
(* are lines of text, read from an offset; Antigravity's conversations are *)
(* rows of a database, read from an index.  Claude and Antigravity wait    *)
(* for notices of the file system, Codex polls.  One behaviour has one     *)
(* kind of watcher.                                                        *)
(*                                                                         *)
(* A line is two cells, its text and its newline, so that a reader can see *)
(* half of one; offsets count cells.  Lines are numbered in the order in   *)
(* which they are written, over all files.  What a line says is left out,  *)
(* but for its age and for the rate limits that a Codex line carries: they *)
(* are known by the number of the line.                                    *)
(***************************************************************************)
EXTENDS Integers, Sequences, FiniteSets, FiniteSetsExt, SequencesExt

CONSTANTS Kind,       \* the watchers that run
          File,
          PingFile,   \* transcripts of the app's own quota pings
          DeepFile,   \* transcripts in a directory below a project's own
          Limit,      \* how many threads Codex's poll looks at
          MaxLines,   \* bound: lines written
          MaxCuts     \* bound: files cut

ASSUME WatchersAssumption ==
  /\ Kind \subseteq {"claude", "codex", "antigravity"}
  /\ IsFiniteSet(File) /\ PingFile \subseteq File /\ DeepFile \subseteq File
  /\ Limit \in Nat /\ MaxLines \in Nat \ {0} /\ MaxCuts \in Nat

VARIABLES
  kind,
  file,       \* file -> its cells
  written,    \* lines written so far
  old,        \* lines more than five hours old
  stage,      \* of the watcher: "start", "watching", "scan", "scanned", "live"
  watched,    \* the file system's notices are being collected
  notices,    \* files with a notice in the channel
  todo,       \* files that the scan or the poll still has to read, in order
  offsets,    \* file -> where to read on, Unknown if it was never read
  sent,       \* lines sent to the aggregator, in order
  limits,     \* Codex: the line whose rate limits are in CodexQuota, or 0
  \* history
  cuts,       \* files that were cut
  missed,     \* Antigravity: lines that came before the watch was registered
  due,        \* Codex: lines that the last poll found in the threads it looked at
  broken      \* files whose last read failed, or broke off before their last newline

watcherVars == <<stage, watched, notices, todo, offsets, sent, limits>>
watchersVars == <<kind, file, written, old, watcherVars, cuts, missed, due, broken>>

Unknown == -1
Text(i) == <<i, 1>>
Newline(i) == <<i, 2>>
LineOf(i) == <<Text(i), Newline(i)>>
Lines(f) == {i \in 1 .. written : \E k \in DOMAIN file[f] : file[f][k] = Newline(i)}

WatchersInit ==
  /\ kind \in Kind
  /\ written \in 0 .. 1
  /\ old \in SUBSET (1 .. written)
  /\ \E f0 \in File :
       file = [f \in File |-> IF f = f0 /\ written = 1 THEN LineOf(1) ELSE <<>>]
  /\ stage = "start" /\ watched = FALSE /\ notices = {} /\ todo = <<>>
  /\ offsets = [f \in File |-> Unknown]
  /\ sent = <<>> /\ limits = 0
  /\ cuts = {} /\ missed = {} /\ due = {} /\ broken = {}

-------------------------------------------------------------------------------
(* The programs that write the files *)

Noticed(f) == notices' = IF watched THEN notices \union {f} ELSE notices

\* A line in one write or in two; a line may also follow half a line that was cut.
Write(f) ==
  LET cells == file[f]
      open == cells # <<>> /\ Last(cells)[2] = 1
      closed == ~open \/ f \in cuts
      Added(new, i) ==
        /\ file' = [file EXCEPT ![f] = @ \o new]
        /\ written' = i
        /\ missed' = IF kind = "antigravity" /\ stage = "scan" /\ ~Contains(todo, f)
                     THEN missed \union {i} ELSE missed
  IN  /\ \/ open /\ Added(<<Newline(Last(cells)[1])>>, written)
         \/ closed /\ written < MaxLines /\ Added(LineOf(written + 1), written + 1)
         \/ closed /\ written < MaxLines /\ kind # "antigravity" /\ Added(<<Text(written + 1)>>, written + 1)
      /\ Noticed(f)
      /\ UNCHANGED <<kind, old, stage, watched, todo, offsets, sent, limits, cuts, due, broken>>

\* Rotated or rewritten: the file keeps at most a part of what it held.
Cut(f) ==
  /\ kind # "antigravity"
  /\ Cardinality(cuts) < MaxCuts /\ file[f] # <<>>
  /\ \E n \in 0 .. Len(file[f]) - 1 : file' = [file EXCEPT ![f] = SubSeq(@, 1, n)]
  /\ cuts' = cuts \union {f}
  /\ Noticed(f)
  /\ UNCHANGED <<kind, written, old, stage, watched, todo, offsets, sent, limits, missed, due, broken>>

-------------------------------------------------------------------------------
(* Reading on: tail_file, tail_rollout, tail_conversation_db *)

\* Mutant: a file of just the length read is taken for a new one.
FromTooEager(f) == IF offsets[f] = Unknown \/ Len(file[f]) <= offsets[f] THEN 0 ELSE offsets[f]

\* A file that has become shorter is read from its start.
From(f) == IF offsets[f] = Unknown \/ Len(file[f]) < offsets[f] THEN 0 ELSE offsets[f]

\* Mutant: the rest of the file counts as read, complete or not.
ReadToTheEnd(f) == Len(file[f])

\* Only whole lines are consumed.
ReadUpTo(f) ==
  Max({k \in From(f) + 1 .. Len(file[f]) : file[f][k][2] = 2} \union {From(f)})

\* A newline whose text lies before the offset, or that ends the halves of two
\* lines, makes a line that does not parse and is dropped.
Parsed(f, upto) ==
  {k \in From(f) + 2 .. upto :
     /\ file[f][k][2] = 2 /\ file[f][k - 1] = Text(file[f][k][1])
     /\ k - 2 > From(f) => file[f][k - 2][2] = 2}

\* The lines that end there, in the order of the file.
LinesAt(f, ends) ==
  MapThenFoldSet(LAMBDA k, lines : Append(lines, file[f][k][1]), <<>>, LAMBDA k : k, Max, ends)

\* A ping is read over.  Antigravity passes nothing older than five hours, Codex
\* only what it finds in a file it did not know.
Passes(f, i) ==
  CASE kind = "claude"      -> f \notin PingFile
    [] kind = "codex"       -> offsets[f] # Unknown \/ i \notin old
    [] kind = "antigravity" -> i \notin old

ReadTo(f, upto) ==
  /\ sent' = sent \o LinesAt(f, {k \in Parsed(f, upto) : Passes(f, file[f][k][1])})
  /\ offsets' = [offsets EXCEPT ![f] = upto]
  \* Each line's rate limits are applied, whatever its age.
  /\ limits' = IF kind = "codex" /\ Parsed(f, upto) # {}
               THEN file[f][Max(Parsed(f, upto))][1] ELSE limits

\* An error ends the read after any of the lines.
BreaksOff(f) ==
  \E upto \in {From(f)} \union {k \in From(f) + 1 .. ReadUpTo(f) : file[f][k][2] = 2} :
    upto < ReadUpTo(f) /\ ReadTo(f, upto)

\* The file cannot be opened.  Claude's and Codex' watchers have then noted an offset
\* for it all the same; Codex passes over a file that is not there.
CannotRead(f) ==
  /\ \/ kind # "claude" /\ UNCHANGED offsets
     \/ kind # "antigravity" /\ offsets' = [offsets EXCEPT ![f] = IF @ = Unknown THEN 0 ELSE @]
  /\ UNCHANGED <<sent, limits>>

Tailed(f) ==
  \/ ReadTo(f, ReadUpTo(f)) /\ broken' = broken \ {f}
  \/ (BreaksOff(f) \/ CannotRead(f)) /\ broken' = broken \union {f}

-------------------------------------------------------------------------------
(* The thread *)

\* Mutant: the files are read before the watch is registered.
ScanUnwatched == kind # "codex" /\ stage = "start"

\* Claude registers the watch first, Antigravity lists the files first.
MayScan ==
  \/ kind = "claude" /\ stage = "watching"
  \/ kind = "antigravity" /\ stage = "start"

MayRegister ==
  \/ kind = "claude" /\ stage = "start"
  \/ kind = "antigravity" /\ stage = "scan" /\ todo = <<>>

Register ==
  /\ MayRegister
  /\ watched' = TRUE
  /\ stage' = IF kind = "claude" THEN "watching" ELSE "live"
  /\ UNCHANGED <<kind, file, written, old, notices, todo, offsets, sent, limits, cuts, missed, due, broken>>

\* The files that exist, in the order the directory yields them.  Claude lists those
\* of one level below its root, though its watch is for all levels.
Listed == {f \in File : file[f] # <<>> /\ (kind = "claude" => f \notin DeepFile)}

StartScan ==
  /\ MayScan
  /\ stage' = "scan"
  /\ todo' \in SetToSeqs(Listed)
  /\ UNCHANGED <<kind, file, written, old, watched, notices, offsets, sent, limits, cuts, missed, due, broken>>

\* The scan reads every file from its start.
ScanNext ==
  /\ stage = "scan" /\ todo # <<>> /\ kind # "codex"
  /\ Tailed(Head(todo))
  /\ todo' = Tail(todo)
  /\ UNCHANGED <<kind, file, written, old, stage, watched, notices, cuts, missed, due>>

ScanDone ==
  /\ kind = "claude" /\ stage = "scan" /\ todo = <<>>
  /\ stage' = "live"
  /\ UNCHANGED <<kind, file, written, old, watched, notices, todo, offsets, sent, limits, cuts, missed, due, broken>>

TakeNotice(f) ==
  /\ stage = "live" /\ kind # "codex" /\ f \in notices
  /\ notices' = notices \ {f}
  /\ Tailed(f)
  /\ UNCHANGED <<kind, file, written, old, stage, watched, todo, cuts, missed, due>>

\* Codex: the threads that changed last, newest first.
Newest(n) ==
  LET age(f) == IF file[f] = <<>> THEN 0 ELSE Last(file[f])[1]
      ordered == {s \in SetToSeqs({f \in File : file[f] # <<>>}) :
                    \A i, j \in DOMAIN s : i < j => age(s[i]) >= age(s[j])}
  IN  {SubSeq(s, 1, IF Len(s) < n THEN Len(s) ELSE n) : s \in ordered}

Poll ==
  /\ kind = "codex" /\ stage \in {"start", "live"}
  /\ todo' \in Newest(Limit)
  /\ due' = UNION {Lines(f) : f \in Range(todo')}
  /\ stage' = "scan"
  /\ UNCHANGED <<kind, file, written, old, watched, notices, offsets, sent, limits, cuts, missed, broken>>

PollNext ==
  /\ kind = "codex" /\ stage = "scan" /\ todo # <<>>
  /\ Tailed(Head(todo))
  /\ todo' = Tail(todo)
  /\ UNCHANGED <<kind, file, written, old, stage, watched, notices, cuts, missed, due>>

PollDone ==
  /\ kind = "codex" /\ stage = "scan" /\ todo = <<>>
  /\ stage' = "live"
  /\ UNCHANGED <<kind, file, written, old, watched, notices, todo, offsets, sent, limits, cuts, missed, due, broken>>

WatchersNext ==
  \/ \E f \in File : Write(f) \/ Cut(f) \/ TakeNotice(f)
  \/ Register \/ StartScan \/ ScanNext \/ ScanDone
  \/ Poll \/ PollNext \/ PollDone

WatchersSpec == WatchersInit /\ [][WatchersNext]_watchersVars

-------------------------------------------------------------------------------
(* Properties *)

WatchersTypeOK ==
  /\ kind \in Kind /\ written \in 0 .. MaxLines /\ old \in SUBSET (1 .. MaxLines)
  /\ \A f \in File : file[f] \in Seq((1 .. written) \X {1, 2})
  /\ stage \in {"start", "watching", "scan", "live"} /\ watched \in BOOLEAN
  /\ notices \in SUBSET File /\ todo \in Seq(File)
  /\ offsets \in [File -> Nat \union {Unknown}]
  /\ sent \in Seq(1 .. written) /\ limits \in 0 .. written
  /\ cuts \in SUBSET File /\ missed \in SUBSET (1 .. written) /\ broken \in SUBSET File

\* The last whole line read of f, or 0.
LastRead(f) == Max({0} \union {i \in Lines(f) : \E k \in 1 .. offsets[f] : file[f][k] = Newline(i)})

\* No use is counted twice and none is missed ("the same line is never counted twice",
\* watchers/claude.rs:173-176): the scan, the notices of what it read already, halves
\* of lines, reads that broke off and polls add up to each line once, in the order of
\* its file, also for a line written while the watcher starts.  Where no notice is in
\* the channel every whole line was sent; Codex has sent what its poll found.  Lines
\* wait for the next notice, or poll, of their file: when its last read failed or broke
\* off (claude.rs:227-248, codex.rs:282-303, antigravity.rs:463-489); for Claude in a
\* deeper directory, which the scan leaves out (claude.rs:209-224), as long as the file
\* was never noticed; for Antigravity when written between its file's scan and the
\* watch.  Codex' limits are those of a thread's last line (not, though, of the newest
\* thread: codex.rs:364).  Only a file that was cut is read again.
EachLineOnce ==
  /\ \A f \in File \ cuts, i, j \in DOMAIN sent :
       i < j /\ {sent[i], sent[j]} \subseteq Lines(f) => sent[i] < sent[j]
  /\ stage = "live" =>
       \A f \in File \ (cuts \union broken) :
         /\ kind = "codex" => (Lines(f) \intersect due) \ old \subseteq Range(sent)
         /\ kind # "codex" /\ f \notin notices \union PingFile =>
              \/ Lines(f) \ (IF kind = "claude" THEN {} ELSE old \union missed) \subseteq Range(sent)
              \/ kind = "claude" /\ f \in DeepFile /\ offsets[f] = Unknown
  /\ cuts = {} => \E f \in File : limits \in {0, LastRead(f)}

\* "Each file is read from 0" at the start, so that the five hours come back
\* (claude.rs:172-174): once the watcher is live, every whole line was sent of a file
\* that could be read and whose notices were all taken.  The code does not keep to it
\* for a file that lies deeper than the scan lists.
StartReadsEachFile ==
  kind = "claude" /\ stage = "live" =>
    \A f \in File \ (cuts \union broken \union notices \union PingFile) : Lines(f) \subseteq Range(sent)
=============================================================================
