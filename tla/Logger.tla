------------------------------- MODULE Logger -------------------------------
(***************************************************************************)
(* The shared logger of the appliance (logger/logger.go), as one process   *)
(* runs it: the goroutines that log, toggle modules and tail the file, the *)
(* mutex between them, the two files a path owns on disk, and the process  *)
(* ending at any moment and being started again.                           *)
(*                                                                         *)
(* Everything the code does under its mutex is one action, except rotate(): *)
(* its remove, rename, open and notice are four steps of the mutex holder, *)
(* because Tail reads the two files without the mutex and because the      *)
(* process can end between any two of them.                                *)
(*                                                                         *)
(* A row is one physical line of a file.  A message may hold several rows; *)
(* what the rows say is abstracted to who wrote them and why.              *)
(***************************************************************************)
EXTENDS Integers, Sequences, SequencesExt

CONSTANTS
  Modules,      \* the module keys in use (normalised: "SSH " and "ssh" are one)
  KnownModules, \* those the program ships with
  Sys,          \* the module under which toggles and notices are written
  DisabledEnv,  \* the modules named in ZTNA_LOG_DISABLED_MODULES
  MaxLines,     \* rows per file before recycling
  MaxBytes,     \* bytes per file before recycling
  Messages,     \* what callers pass to Log, as records [rows, size]
  MaxMessage,   \* no message or toggle line is larger than this
  ToggleSize,   \* bytes of a "log module M switched on" line
  NoticeSize,   \* bytes of a "log recycled" line
  LogPath,      \* the configured path
  FallbackPath, \* <tmpdir>/ztna_lab.log
  NoPath,       \* curPath = ""
  NoFile,       \* no such file on disk
  TailSizes,    \* the n of the calls Tail(n)
  Faults,       \* which system calls may fail, and whether the process may end
  MaxRows,      \* bound: rows written over the whole behaviour
  MaxEnds       \* bound: how often the process ends

Paths == {LogPath, FallbackPath}

ASSUME ModulesAssumption ==
  /\ Sys \in KnownModules
  /\ KnownModules \subseteq Modules
  /\ DisabledEnv \subseteq Modules

\* envInt64 refuses limits below 100 lines and 64 KiB, so a file never starts
\* its life over a limit: the notice of a rotation fits in it.
ASSUME LimitsAssumption ==
  /\ MaxLines \in Nat /\ MaxLines > 1
  /\ MaxBytes \in Nat
  /\ NoticeSize \in 1 .. MaxBytes - 1
  /\ MaxMessage \in Nat
  /\ ToggleSize \in 1 .. MaxMessage
  /\ \A m \in Messages : m.rows \in Nat \ {0} /\ m.size \in 1 .. MaxMessage

ASSUME PathsAssumption ==
  /\ LogPath # FallbackPath
  /\ NoPath \notin Paths

ASSUME TailAssumption == TailSizes \subseteq Nat \ {0}

ASSUME FaultsAssumption == Faults \subseteq {"write", "rename", "open", "end"}

ASSUME BoundsAssumption == MaxRows \in Nat /\ MaxEnds \in Nat

-----------------------------------------------------------------------------
VARIABLES
  disk,     \* path -> the file and its ".1" backup
  file,     \* the package variable file is not nil
  curPath, written, lineCnt, enabled, \* the package variables of these names
  pc,       \* "down", "idle" (mutex free), or the step rotate() takes next
  boots,    \* how often the process was started (history)
  hist,     \* path -> how many rows were ever written to it (history)
  tail      \* one call of Tail in progress

vars == <<disk, file, curPath, written, lineCnt, enabled, pc, boots, hist, tail>>

Switch == {"on", "off", "unknown"}

Row == [id : Nat, boot : Nat, kind : {"log", "toggle", "notice"},
        mod : Modules, on : BOOLEAN]

File == [rows : Seq(Row), size : Nat]

PathFiles == [cur : File \cup {NoFile}, bak : File \cup {NoFile}]

\* One call of Tail: how far it is, its path, n and answer, and (history) the
\* newest row of the path when it was called and whether a rotation overtook it.
TailCall == [pc : {"idle", "cur", "bak", "done"}, path : Paths \cup {NoPath},
             n : Nat, lines : Seq(Row), newest : Nat, rotated : BOOLEAN]

EmptyFile == [rows |-> <<>>, size |-> 0]

RowsOf(f) == IF f = NoFile THEN <<>> ELSE f.rows
SizeOf(f) == IF f = NoFile THEN 0 ELSE f.size

\* The rows of a path that are still on disk, oldest first.
OnDisk(p) == RowsOf(disk[p].bak) \o RowsOf(disk[p].cur)

ASSUME NoFileAssumption == NoFile \notin File

IdleTail == [pc |-> "idle", path |-> NoPath, n |-> 0, lines |-> <<>>,
             newest |-> 0, rotated |-> FALSE]

\* defaultModuleState, then the modules ZTNA_LOG_DISABLED_MODULES names.
DefaultModuleState ==
  [m \in Modules |-> IF m \in KnownModules THEN "on" ELSE "unknown"]
ModuleStateFromEnv ==
  [m \in Modules |-> IF m \in DisabledEnv THEN "off" ELSE DefaultModuleState[m]]

Full(size, lines) == size >= MaxBytes \/ lines >= MaxLines

\* What a fallible system call may do: succeed, or fail if that fault is on.
Outcomes(fault) == {TRUE} \cup (IF fault \in Faults THEN {FALSE} ELSE {})

Init ==
  /\ disk = [p \in Paths |-> [cur |-> NoFile, bak |-> NoFile]]
  /\ file = FALSE
  /\ curPath = NoPath
  /\ written = 0
  /\ lineCnt = 0
  /\ enabled = DefaultModuleState
  /\ pc = "down"
  /\ boots = 0
  /\ hist = [p \in Paths |-> 0]
  /\ tail = IdleTail

-----------------------------------------------------------------------------
(* Starting and ending the process                                         *)

OpenedAt(p) == IF disk[p].cur = NoFile THEN EmptyFile ELSE disk[p].cur

\* Mutation of InitAt: the counters start from zero on a file that has rows.
InitAtUnseeded(p) ==
  /\ pc = "down"
  /\ enabled' = ModuleStateFromEnv
  /\ disk' = [disk EXCEPT ![p].cur = OpenedAt(p)]
  /\ file' = TRUE /\ curPath' = p
  /\ written' = 0 /\ lineCnt' = 0
  /\ pc' = "idle"
  /\ boots' = boots + 1
  /\ UNCHANGED <<hist, tail>>

\* Mutation of InitAt: the line count of an existing file is one too low.
InitAtMiscounted(p) ==
  /\ pc = "down"
  /\ enabled' = ModuleStateFromEnv
  /\ disk' = [disk EXCEPT ![p].cur = OpenedAt(p)]
  /\ file' = TRUE /\ curPath' = p
  /\ written' = OpenedAt(p).size /\ lineCnt' = Len(OpenedAt(p).rows) - 1
  /\ pc' = IF Full(written', lineCnt') THEN "remove" ELSE "idle"
  /\ boots' = boots + 1
  /\ UNCHANGED <<hist, tail>>

\* Mutation of InitAt: the file is opened with O_TRUNC instead of O_APPEND.
InitAtTruncating(p) ==
  /\ pc = "down"
  /\ enabled' = ModuleStateFromEnv
  /\ disk' = [disk EXCEPT ![p].cur = EmptyFile]
  /\ file' = TRUE /\ curPath' = p
  /\ written' = 0 /\ lineCnt' = 0
  /\ pc' = "idle"
  /\ boots' = boots + 1
  /\ UNCHANGED <<hist, tail>>

\* Mutation of InitAt: an overfull file waits for the next line to be recycled.
InitAtLazy(p) ==
  /\ pc = "down"
  /\ enabled' = ModuleStateFromEnv
  /\ disk' = [disk EXCEPT ![p].cur = OpenedAt(p)]
  /\ file' = TRUE /\ curPath' = p
  /\ written' = OpenedAt(p).size /\ lineCnt' = Len(OpenedAt(p).rows)
  /\ pc' = "idle"
  /\ boots' = boots + 1
  /\ UNCHANGED <<hist, tail>>

\* logger.Init, as main calls it before anything else runs: the registry is
\* read from the environment, the file is opened (created) at the configured
\* path, or else at the fallback, and the counters are seeded from what it
\* already holds; an overfull file is rotated while the mutex is still held.
InitAt(p) ==
  /\ pc = "down"
  /\ enabled' = ModuleStateFromEnv
  /\ disk' = [disk EXCEPT ![p].cur = OpenedAt(p)]
  /\ file' = TRUE
  /\ curPath' = p
  /\ written' = OpenedAt(p).size
  /\ lineCnt' = Len(OpenedAt(p).rows)
  /\ pc' = IF Full(written', lineCnt') THEN "remove" ELSE "idle"
  /\ boots' = boots + 1
  /\ UNCHANGED <<hist, tail>>

\* Neither path can be opened: stdout only.
InitDegraded ==
  /\ pc = "down"
  /\ "open" \in Faults
  /\ enabled' = ModuleStateFromEnv
  /\ curPath' = NoPath
  /\ pc' = "idle"
  /\ boots' = boots + 1
  /\ UNCHANGED <<disk, file, written, lineCnt, hist, tail>>

Start ==
  \/ InitAt(LogPath)
  \/ "open" \in Faults /\ InitAt(FallbackPath)
  \/ InitDegraded

\* The process ends (stopped, killed, crashed), between any two steps.
End ==
  /\ pc # "down"
  /\ "end" \in Faults
  /\ boots <= MaxEnds
  /\ pc' = "down"
  /\ file' = FALSE
  /\ curPath' = NoPath
  /\ written' = 0
  /\ lineCnt' = 0
  /\ enabled' = DefaultModuleState
  /\ tail' = IdleTail
  /\ UNCHANGED <<disk, boots, hist>>

-----------------------------------------------------------------------------
(* Writing                                                                 *)

\* The file f of path p after a write of k rows and size bytes.
Appended(f, p, k, size, kind, mod, on) ==
  [rows |-> f.rows \o [i \in 1 .. k |->
              [id |-> hist[p] + i, boot |-> boots, kind |-> kind,
               mod |-> mod, on |-> on]],
   size |-> f.size + size]

\* WriteString on the open file: all of it lands, or (disk full) none of it.
\* The byte counter follows what landed; the line counter counts the call.
Write(landed, k, size, kind, mod, on) ==
  /\ IF landed
     THEN /\ disk' = [disk EXCEPT ![curPath].cur =
                        Appended(@, curPath, k, size, kind, mod, on)]
          /\ hist' = [hist EXCEPT ![curPath] = @ + k]
          /\ written' = written + size
     ELSE UNCHANGED <<disk, hist, written>>
  /\ lineCnt' = lineCnt + 1

\* writeLocked: with no file the line only goes to stdout; otherwise it is
\* written and the file rotated, still under the mutex, if a limit is reached.
WriteLocked(k, size, kind, mod, on) ==
  \/ /\ ~file
     /\ UNCHANGED <<disk, hist, written, lineCnt, pc>>
  \/ /\ file
     /\ hist[LogPath] + hist[FallbackPath] + k <= MaxRows
     /\ \E landed \in Outcomes("write") :
          Write(landed, k, size, kind, mod, on)
     /\ pc' = IF Full(written', lineCnt') THEN "remove" ELSE "idle"

\* Log(module, message): dropped while the module is off; a module never seen
\* before registers itself, enabled.
Log(m, msg) ==
  /\ pc = "idle"
  /\ enabled[m] # "off"
  /\ enabled' = [enabled EXCEPT ![m] = "on"]
  /\ WriteLocked(msg.rows, msg.size, "log", m, TRUE)
  /\ UNCHANGED <<file, curPath, boots, tail>>

\* Mutation of SetEnabled: the notice goes through Log, so the switch of SYS
\* decides whether it is written.
SetEnabledGated(m, on) ==
  /\ pc = "idle"
  /\ enabled[m] # IF on THEN "on" ELSE "off"
  /\ enabled' = [enabled EXCEPT ![m] = IF on THEN "on" ELSE "off"]
  /\ IF enabled'[Sys] = "off"
     THEN UNCHANGED <<disk, hist, written, lineCnt, pc>>
     ELSE WriteLocked(1, ToggleSize, "toggle", m, on)
  /\ UNCHANGED <<file, curPath, boots, tail>>

\* SetEnabled(module, on): a change of state is written, whatever the switch
\* of SYS says.
SetEnabled(m, on) ==
  /\ pc = "idle"
  /\ enabled[m] # IF on THEN "on" ELSE "off"
  /\ enabled' = [enabled EXCEPT ![m] = IF on THEN "on" ELSE "off"]
  /\ WriteLocked(1, ToggleSize, "toggle", m, on)
  /\ UNCHANGED <<file, curPath, boots, tail>>

-----------------------------------------------------------------------------
(* rotate(), one step per system call, the mutex held throughout           *)

Overlapped == [tail EXCEPT !.rotated = tail.pc # "idle"]

\* Close, then os.Remove(backup), its error ignored.
RotateRemove ==
  /\ pc = "remove"
  /\ file' = FALSE
  /\ \E removed \in Outcomes("rename") :
       disk' = IF removed THEN [disk EXCEPT ![curPath].bak = NoFile] ELSE disk
  /\ pc' = "rename"
  /\ tail' = Overlapped
  /\ UNCHANGED <<curPath, written, lineCnt, enabled, boots, hist>>

\* Mutation of RotateRename: the full file is removed instead of kept.
RotateDiscard ==
  /\ pc = "rename"
  /\ disk' = [disk EXCEPT ![curPath].cur = NoFile]
  /\ pc' = "open"
  /\ tail' = Overlapped
  /\ UNCHANGED <<file, curPath, written, lineCnt, enabled, boots, hist>>

\* os.Rename(curPath, backup), its error ignored.
RotateRename ==
  /\ pc = "rename"
  /\ \E renamed \in Outcomes("rename") :
       disk' = IF renamed
               THEN [disk EXCEPT ![curPath] =
                       [cur |-> NoFile, bak |-> disk[curPath].cur]]
               ELSE disk
  /\ pc' = "open"
  /\ tail' = Overlapped
  /\ UNCHANGED <<file, curPath, written, lineCnt, enabled, boots, hist>>

\* Mutation of RotateOpen: the byte counter is not reset.
RotateOpenStale ==
  /\ pc = "open"
  /\ \E opened \in Outcomes("open") :
       /\ disk' = IF opened
                  THEN [disk EXCEPT ![curPath].cur = OpenedAt(curPath)]
                  ELSE disk
       /\ file' = opened
       /\ pc' = IF opened THEN "notice" ELSE "idle"
  /\ lineCnt' = 0
  /\ tail' = Overlapped
  /\ UNCHANGED <<written, curPath, enabled, boots, hist>>

\* openLog(curPath), then the counters start again from zero.
RotateOpen ==
  /\ pc = "open"
  /\ \E opened \in Outcomes("open") :
       /\ disk' = IF opened
                  THEN [disk EXCEPT ![curPath].cur = OpenedAt(curPath)]
                  ELSE disk
       /\ file' = opened
       /\ pc' = IF opened THEN "notice" ELSE "idle"
  /\ written' = 0
  /\ lineCnt' = 0
  /\ tail' = Overlapped
  /\ UNCHANGED <<curPath, enabled, boots, hist>>

\* The "log recycled" line; no limit is looked at after it.
RotateNotice ==
  /\ pc = "notice"
  /\ \E landed \in Outcomes("write") :
       Write(landed, 1, NoticeSize, "notice", Sys, TRUE)
  /\ pc' = "idle"
  /\ tail' = Overlapped
  /\ UNCHANGED <<file, curPath, enabled, boots>>

Rotate == RotateRemove \/ RotateRename \/ RotateOpen \/ RotateNotice

-----------------------------------------------------------------------------
(* Tail(n): the path is read under the mutex, the files are not            *)

LastRows(n, s) == IF Len(s) > n THEN SubSeq(s, Len(s) - n + 1, Len(s)) ELSE s

\* Tail refuses at once when there is no path.
TailStart(n) ==
  /\ pc = "idle"
  /\ tail.pc = "idle"
  /\ curPath # NoPath
  /\ tail' = [IdleTail EXCEPT !.pc = "cur", !.path = curPath, !.n = n,
                              !.newest = hist[curPath]]
  /\ UNCHANGED <<disk, file, curPath, written, lineCnt, enabled, pc, boots, hist>>

\* Mutation of TailReadCur: the backup is read first.
TailReadBakFirst ==
  /\ tail.pc = "cur"
  /\ LET got == LastRows(tail.n, RowsOf(disk[tail.path].bak))
     IN  tail' = [tail EXCEPT !.lines = got,
                              !.pc = IF Len(got) < tail.n THEN "bak" ELSE "done"]
  /\ UNCHANGED <<disk, file, curPath, written, lineCnt, enabled, pc, boots, hist>>

\* tailFile(path, n): a missing file counts as an empty one.
TailReadCur ==
  /\ tail.pc = "cur"
  /\ LET got == LastRows(tail.n, RowsOf(disk[tail.path].cur))
     IN  tail' = [tail EXCEPT !.lines = got,
                              !.pc = IF Len(got) < tail.n THEN "bak" ELSE "done"]
  /\ UNCHANGED <<disk, file, curPath, written, lineCnt, enabled, pc, boots, hist>>

\* Mutation of TailReadBak: n rows of the backup, whatever was read already.
TailReadBakAll ==
  /\ tail.pc = "bak"
  /\ LET prev == LastRows(tail.n, RowsOf(disk[tail.path].bak))
     IN  tail' = [tail EXCEPT !.lines = prev \o @, !.pc = "done"]
  /\ UNCHANGED <<disk, file, curPath, written, lineCnt, enabled, pc, boots, hist>>

\* tailFile(path.1, n - len(lines)), put before the lines already read.
TailReadBak ==
  /\ tail.pc = "bak"
  /\ LET prev == LastRows(tail.n - Len(tail.lines), RowsOf(disk[tail.path].bak))
     IN  tail' = [tail EXCEPT !.lines = prev \o @, !.pc = "done"]
  /\ UNCHANGED <<disk, file, curPath, written, lineCnt, enabled, pc, boots, hist>>

TailReturn ==
  /\ tail.pc = "done"
  /\ tail' = IdleTail
  /\ UNCHANGED <<disk, file, curPath, written, lineCnt, enabled, pc, boots, hist>>

TailStep == TailReadCur \/ TailReadBak \/ TailReturn

-----------------------------------------------------------------------------
Next ==
  \/ Start
  \/ End
  \/ \E m \in Modules, msg \in Messages : Log(m, msg)
  \/ \E m \in Modules, on \in BOOLEAN : SetEnabled(m, on)
  \/ Rotate
  \/ \E n \in TailSizes : TailStart(n)
  \/ TailStep

Spec == Init /\ [][Next]_vars

\* The goroutine that holds the mutex runs as long as its process does.  Nobody owes
\* the log a line, a toggle, a Tail or another process.
FairSpec == Spec /\ WF_vars(Rotate)

-----------------------------------------------------------------------------
(* Properties                                                              *)

\* The shape of the state.
TypeOK ==
  /\ disk \in [Paths -> PathFiles]
  /\ file \in BOOLEAN
  /\ curPath \in Paths \cup {NoPath}
  /\ written \in Nat
  /\ lineCnt \in Nat
  /\ enabled \in [Modules -> Switch]
  /\ pc \in {"down", "idle", "remove", "rename", "open", "notice"}
  /\ boots \in Nat
  /\ hist \in [Paths -> Nat]
  /\ tail \in TailCall

\* "disk usage is bounded at roughly 2x the limit" (logger.go:12): neither the
\* file nor its backup ever holds more than the byte limit and one last line,
\* whatever restarts, failed writes and failed opens happen.
DiskBounded ==
  \A p \in Paths :
    /\ SizeOf(disk[p].cur) < MaxBytes + MaxMessage
    /\ SizeOf(disk[p].bak) < MaxBytes + MaxMessage

\* The rows left on disk, backup first, are the newest rows of that path, in
\* the order they were written and with none missing between them: a recycle,
\* interrupted anywhere, discards only from the old end.
NoGap ==
  \A p \in Paths :
    \A i \in 1 .. Len(OnDisk(p)) :
      OnDisk(p)[i].id = hist[p] - Len(OnDisk(p)) + i

\* "the file is rotated whenever it reaches EITHER the line limit or the byte
\* limit" (logger.go:8-10): rows are discarded only by recycling files that
\* were full, so either every row ever written is still on disk or at least a
\* full file's worth of rows or bytes is.
Retained ==
  \A p \in Paths :
    \/ Len(OnDisk(p)) = hist[p]
    \/ Len(OnDisk(p)) >= MaxLines
    \/ SizeOf(disk[p].bak) + SizeOf(disk[p].cur) >= MaxBytes

\* Stat().Size, which the admin panel shows and the rotation trusts, is the
\* size of the file on disk whenever the mutex is free.
StatSizeExact ==
  pc = "idle" /\ file => SizeOf(disk[curPath].cur) = written

\* "a log that suddenly goes quiet still says why" (logger.go:190-193): replay
\* the toggles of one process run and no line of a module follows a switch-off
\* that no switch-on has ended.
LogConsistent ==
  \A p \in Paths :
    LET rows == OnDisk(p)
    IN  \A i, j \in 1 .. Len(rows) :
          /\ i < j
          /\ rows[i].kind = "toggle" /\ ~rows[i].on
          /\ rows[j].kind = "log"
          /\ rows[i].mod = rows[j].mod
          /\ rows[i].boot = rows[j].boot
          => \E k \in i + 1 .. j - 1 :
               /\ rows[k].kind = "toggle" /\ rows[k].on
               /\ rows[k].mod = rows[i].mod

\* Whatever rotations overtake a Tail, a nonempty answer ends with a row no
\* older than the newest row of the log when Tail was called.
TailNeverStale ==
  tail.pc = "done" /\ tail.lines # <<>> => Last(tail.lines).id >= tail.newest

\* "Tail returns the last n lines of the log" (logger.go:320): when no step of
\* a rotation overtook the call, the answer is the last n rows, backup and file
\* taken together, as they stood at a moment of the call.
TailExact ==
  tail.pc = "done" /\ ~tail.rotated =>
    LET rows == OnDisk(tail.path)
    IN  \E k \in 0 .. Len(rows) :
          /\ tail.lines = LastRows(tail.n, SubSeq(rows, 1, k))
          /\ k > 0 => rows[k].id >= tail.newest
          /\ k = 0 => tail.newest = 0

\* A process that stays with a file does not leave it overfull, though it may have
\* found it so (its predecessor ended in the middle of recycling it) and nothing
\* may ever be written to make it look again.
FullFileRecycled ==
  \A p \in Paths :
    <>[](curPath = p) => []<>(SizeOf(disk[p].cur) < MaxBytes)

-----------------------------------------------------------------------------
(* Inductive strengthenings of the properties above                        *)

\* Which steps the mutex holder can be at, and with the file open or closed.
HolderInv ==
  /\ file => curPath \in Paths /\ disk[curPath].cur # NoFile
  /\ pc \in {"remove", "rename", "open", "notice"} => curPath \in Paths
  /\ pc \in {"remove", "notice"} => file
  /\ pc \in {"down", "rename", "open"} => ~file
  /\ tail.pc # "idle" => tail.path \in Paths
  /\ tail.pc = "bak" => Len(tail.lines) < tail.n

\* Why the files stay bounded: the byte counter is the size of the open file,
\* nothing is written past the limit while the mutex is free, and a rotation
\* opens a file only where there is none.
SizeInv ==
  /\ DiskBounded
  /\ file => written = SizeOf(disk[curPath].cur)
  /\ pc = "idle" /\ file => written < MaxBytes
  /\ pc = "open" => disk[curPath].cur = NoFile
  /\ pc = "notice" => written = 0

\* Why enough is kept: the line counter never runs ahead of the rows of the
\* open file, and a backup is removed only when a full file takes its place.
RetainInv ==
  /\ Retained
  /\ file => lineCnt <= Len(RowsOf(disk[curPath].cur))
  /\ file => written <= SizeOf(disk[curPath].cur)
  /\ pc \in {"remove", "rename"} =>
       Full(SizeOf(disk[curPath].cur), Len(RowsOf(disk[curPath].cur)))

\* NoGap, said of the rows of a path's two files: count rows were written to
\* the path, and these end with the last of them.
Unbroken(count, cur, bak) ==
  /\ \A i \in 1 .. Len(cur) : cur[i].id = count - Len(cur) + i
  /\ \A i \in 1 .. Len(bak) : bak[i].id = count - Len(cur) - Len(bak) + i

GapInv ==
  \A p \in Paths : Unbroken(hist[p], RowsOf(disk[p].cur), RowsOf(disk[p].bak))

\* Why Tail is never stale: rows only get newer, and if the file had none to give,
\* the backup ends with the newest row there was, until a full file replaces it.
NotOlder(rows, id) == rows # <<>> => Last(rows).id >= id

FreshInv ==
  tail.pc # "idle" =>
    /\ tail.newest <= hist[tail.path]
    /\ tail.pc # "cur" => NotOlder(tail.lines, tail.newest)
    /\ tail.pc = "bak" /\ tail.lines = <<>> =>
         NotOlder(RowsOf(disk[tail.path].bak), tail.newest)

\* Why an answer no rotation overtook is exact: what was read of the file still
\* starts it, and with the backup reaches the newest row there was; and as a file
\* without rows has no bytes, both are empty only if nothing was ever written.
Reaches(rows, k, newest) == IF k = 0 THEN newest = 0 ELSE rows[k].id >= newest

ExactInv ==
  /\ TailExact
  /\ \A p \in Paths :
       /\ RowsOf(disk[p].cur) = <<>> => SizeOf(disk[p].cur) = 0
       /\ RowsOf(disk[p].bak) = <<>> => SizeOf(disk[p].bak) = 0
  /\ tail.pc = "bak" /\ ~tail.rotated =>
       \E k \in 0 .. Len(RowsOf(disk[tail.path].cur)) :
         /\ tail.lines = SubSeq(RowsOf(disk[tail.path].cur), 1, k)
         /\ Reaches(OnDisk(tail.path), Len(RowsOf(disk[tail.path].bak)) + k, tail.newest)

\* Why the toggles on disk explain the lines: while this run of the process can still
\* write, a switch-off it wrote is followed by a switch-on or the module is off.
SwitchesOff(row) == row.kind = "toggle" /\ ~row.on
SwitchesOn(row, m) == row.kind = "toggle" /\ row.on /\ row.mod = m

Writing == file \/ pc \in {"rename", "open"}

SwitchInv ==
  /\ LogConsistent
  /\ \A p \in Paths :
       LET rows == OnDisk(p)
       IN  \A i \in 1 .. Len(rows) :
             /\ rows[i].boot <= boots
             /\ pc # "down" /\ rows[i].boot = boots => p = curPath
             /\ /\ Writing
                /\ rows[i].boot = boots
                /\ SwitchesOff(rows[i])
                /\ enabled[rows[i].mod] # "off"
                => \E k \in i + 1 .. Len(rows) : SwitchesOn(rows[k], rows[i].mod)
=============================================================================
