---------------------------- MODULE LoggerProofs ----------------------------
(***************************************************************************)
(* What the logger guarantees for every choice of limits, messages,        *)
(* modules, bounds and, where not said otherwise, faults: the shape of its *)
(* state; that the files stay bounded and Stat tells their size; that no   *)
(* row is missing between the rows on disk, and full files of rows are     *)
(* kept; that Tail, which reads without the mutex, returns exactly the     *)
(* newest rows; and that the toggles on disk explain what is on disk.      *)
(***************************************************************************)
EXTENDS Logger, SequenceTheorems, TLAPS

LEMMA AppendedIsFile ==
  ASSUME TypeOK, NEW f \in File, NEW p \in Paths, NEW k \in Nat, NEW size \in Nat,
         NEW kind \in {"log", "toggle", "notice"}, NEW mod \in Modules,
         NEW on \in BOOLEAN
  PROVE  /\ Appended(f, p, k, size, kind, mod, on) \in File
         /\ Appended(f, p, k, size, kind, mod, on).size = f.size + size
         /\ Len(Appended(f, p, k, size, kind, mod, on).rows) = Len(f.rows) + k
<1> DEFINE new == [i \in 1 .. k |->
              [id |-> hist[p] + i, boot |-> boots, kind |-> kind,
               mod |-> mod, on |-> on]]
<1>1. \A i \in 1 .. k : new[i] \in Row
  BY DEF Row, TypeOK
<1>2. new \in Seq(Row) /\ Len(new) = k
  BY <1>1
<1>3. f.rows \in Seq(Row) /\ f.size \in Nat
  BY DEF File
<1>4. f.rows \o new \in Seq(Row) /\ Len(f.rows \o new) = Len(f.rows) + k
  BY <1>2, <1>3
<1> QED
  BY <1>3, <1>4 DEF Appended, File

LEMMA NoticeIsFile ==
  ASSUME TypeOK, NEW f \in File, NEW p \in Paths
  PROVE  LET new == Appended(f, p, 1, NoticeSize, "notice", Sys, TRUE)
         IN  new \in File /\ new.size = f.size + NoticeSize /\ Len(new.rows) = Len(f.rows) + 1
<1>1. NoticeSize \in Nat
  BY LimitsAssumption
<1>2. Sys \in Modules
  BY ModulesAssumption
<1> DEFINE row == [i \in 1 .. 1 |->
              [id |-> hist[p] + i, boot |-> boots, kind |-> "notice",
               mod |-> Sys, on |-> TRUE]]
<1>3. row \in Seq(Row) /\ Len(row) = 1
  BY <1>2 DEF Row, TypeOK
<1>4. f.rows \in Seq(Row) /\ f.size \in Nat
  BY DEF File
<1>5. f.rows \o row \in Seq(Row) /\ Len(f.rows \o row) = Len(f.rows) + 1
  BY <1>3, <1>4
<1> QED
  BY <1>1, <1>4, <1>5 DEF Appended, File

LEMMA LastRowsType ==
  ASSUME NEW n \in Nat, NEW s \in Seq(Row)
  PROVE  LastRows(n, s) \in Seq(Row) /\ Len(LastRows(n, s)) <= n
  BY DEF LastRows

\* Facts about the shape of one path's files.
LEMMA DiskShape ==
  ASSUME TypeOK, NEW p \in Paths
  PROVE  /\ OpenedAt(p) \in File
         /\ disk[p].cur \in File \cup {NoFile}
         /\ disk[p].bak \in File \cup {NoFile}
         /\ RowsOf(disk[p].cur) \in Seq(Row)
         /\ RowsOf(disk[p].bak) \in Seq(Row)
         /\ SizeOf(disk[p].cur) \in Nat
         /\ SizeOf(disk[p].bak) \in Nat
<1>1. EmptyFile \in File
  BY DEF EmptyFile, File
<1> QED
  BY <1>1 DEF TypeOK, PathFiles, OpenedAt, RowsOf, SizeOf, File

LEMMA IdleTailType ==
  IdleTail \in TailCall
BY DEF IdleTail, TailCall

LEMMA EnvType ==
  DefaultModuleState \in [Modules -> Switch] /\ ModuleStateFromEnv \in [Modules -> Switch]
BY DEF DefaultModuleState, ModuleStateFromEnv, Switch

\* What a write does to the two files of each path.
LEMMA WriteEffect ==
  ASSUME TypeOK, curPath \in Paths, disk[curPath].cur # NoFile,
         NEW landed \in BOOLEAN, NEW k \in Nat, NEW size \in Nat,
         NEW kind \in {"log", "toggle", "notice"}, NEW mod \in Modules,
         NEW on \in BOOLEAN, Write(landed, k, size, kind, mod, on)
  PROVE  /\ disk' \in [Paths -> PathFiles]
         /\ hist' \in [Paths -> Nat]
         /\ written' \in Nat
         /\ lineCnt' = lineCnt + 1
         /\ \A p \in Paths \ {curPath} : disk'[p] = disk[p] /\ hist'[p] = hist[p]
         /\ disk'[curPath].bak = disk[curPath].bak
         /\ disk'[curPath].cur # NoFile
         /\ landed =>
              /\ disk'[curPath].cur =
                   Appended(disk[curPath].cur, curPath, k, size, kind, mod, on)
              /\ hist'[curPath] = hist[curPath] + k
              /\ written' = written + size
         /\ ~landed => disk' = disk /\ hist' = hist /\ written' = written
<1> DEFINE new == Appended(disk[curPath].cur, curPath, k, size, kind, mod, on)
<1>1. disk[curPath].cur \in File
  BY DiskShape
<1>2. new \in File
  BY <1>1, AppendedIsFile
<1>3. CASE landed
  <2>1. disk' = [disk EXCEPT ![curPath] = [@ EXCEPT !.cur = new]]
    BY <1>3 DEF Write
  <2>2. disk[curPath] \in PathFiles
    BY DEF TypeOK
  <2>3. hist' = [hist EXCEPT ![curPath] = @ + k] /\ written' = written + size
        /\ lineCnt' = lineCnt + 1
    BY <1>3 DEF Write
  <2> HIDE DEF new
  <2>4. [disk[curPath] EXCEPT !.cur = new] \in PathFiles
    BY <1>2, <2>2 DEF PathFiles
  <2>5. /\ disk' \in [Paths -> PathFiles]
        /\ \A p \in Paths \ {curPath} : disk'[p] = disk[p]
        /\ disk'[curPath].bak = disk[curPath].bak
        /\ disk'[curPath].cur = new
    BY <2>1, <2>2, <2>4 DEF TypeOK, PathFiles
  <2>6. /\ hist' \in [Paths -> Nat]
        /\ \A p \in Paths \ {curPath} : hist'[p] = hist[p]
        /\ hist'[curPath] = hist[curPath] + k
        /\ written' \in Nat
    BY <2>3 DEF TypeOK
  <2>7. new # NoFile
    BY <1>2, NoFileAssumption
  <2> QED
    BY <1>3, <2>3, <2>5, <2>6, <2>7 DEF new
<1>4. CASE ~landed
  BY <1>4 DEF Write, TypeOK
<1> QED
  BY <1>3, <1>4

\* writeLocked, whichever way it goes.
LEMMA WriteLockedType ==
  ASSUME TypeOK, HolderInv, pc = "idle", NEW k \in Nat, NEW size \in Nat,
         NEW kind \in {"log", "toggle", "notice"}, NEW mod \in Modules,
         NEW on \in BOOLEAN, WriteLocked(k, size, kind, mod, on)
  PROVE  /\ disk' \in [Paths -> PathFiles]
         /\ hist' \in [Paths -> Nat]
         /\ written' \in Nat
         /\ lineCnt' \in Nat
         /\ pc' \in {"idle", "remove"}
         /\ pc' = "remove" => file
         /\ file => disk'[curPath].cur # NoFile
<1>1. CASE ~file
  BY <1>1 DEF WriteLocked, TypeOK
<1>2. CASE file
  <2>1. PICK landed \in Outcomes("write") : Write(landed, k, size, kind, mod, on)
    BY <1>2 DEF WriteLocked
  <2>2. landed \in BOOLEAN
    BY <2>1 DEF Outcomes
  <2>3. curPath \in Paths /\ disk[curPath].cur # NoFile
    BY <1>2 DEF HolderInv
  <2>4. pc' \in {"idle", "remove"}
    BY <1>2 DEF WriteLocked
  <2>5. /\ disk' \in [Paths -> PathFiles]
        /\ hist' \in [Paths -> Nat]
        /\ written' \in Nat
        /\ lineCnt' = lineCnt + 1
        /\ disk'[curPath].cur # NoFile
    BY <2>1, <2>2, <2>3, WriteEffect
  <2> QED
    BY <1>2, <2>4, <2>5 DEF TypeOK
<1> QED
  BY <1>1, <1>2

-----------------------------------------------------------------------------
(* Type correctness                                                        *)

LEMMA ShapeInit == Init => TypeOK /\ HolderInv
<1> SUFFICES ASSUME Init PROVE TypeOK /\ HolderInv
  OBVIOUS
<1> QED
  BY EnvType, IdleTailType, PathsAssumption DEF Init, TypeOK, PathFiles, HolderInv, IdleTail

LEMMA ShapeStart == TypeOK /\ HolderInv /\ Start => (TypeOK /\ HolderInv)'
<1> SUFFICES ASSUME TypeOK, HolderInv, Start PROVE (TypeOK /\ HolderInv)'
  OBVIOUS
<1>1. ASSUME NEW p \in Paths, InitAt(p) PROVE (TypeOK /\ HolderInv)'
  <2>1. OpenedAt(p) \in File
    BY DiskShape
  <2>2. OpenedAt(p).size \in Nat /\ Len(OpenedAt(p).rows) \in Nat /\ OpenedAt(p) # NoFile
    BY <2>1, NoFileAssumption DEF File
  <2>3. disk' = [disk EXCEPT ![p] = [@ EXCEPT !.cur = OpenedAt(p)]]
    BY <1>1 DEF InitAt
  <2>4. disk' \in [Paths -> PathFiles]
        /\ disk'[p].cur = OpenedAt(p)
    BY <2>1, <2>3 DEF TypeOK, PathFiles
  <2>5. /\ enabled' = ModuleStateFromEnv /\ file' = TRUE /\ curPath' = p
        /\ written' = OpenedAt(p).size /\ lineCnt' = Len(OpenedAt(p).rows)
        /\ pc' \in {"remove", "idle"} /\ boots' = boots + 1
        /\ hist' = hist /\ tail' = tail
    BY <1>1 DEF InitAt
  <2>6. TypeOK'
    BY <2>2, <2>4, <2>5, EnvType DEF TypeOK
  <2>7. HolderInv'
    BY <2>2, <2>4, <2>5 DEF HolderInv
  <2> QED
    BY <2>6, <2>7
<1>2. CASE InitDegraded
  BY <1>2, EnvType DEF InitDegraded, TypeOK, HolderInv
<1> QED
  BY <1>1, <1>2 DEF Start, Paths

LEMMA ShapeLog ==
  ASSUME TypeOK, HolderInv, NEW m \in Modules, NEW msg \in Messages, Log(m, msg)
  PROVE  (TypeOK /\ HolderInv)'
<1>1. msg.rows \in Nat /\ msg.size \in Nat
  BY LimitsAssumption
<1>2. enabled' \in [Modules -> Switch]
  BY DEF Log, TypeOK, Switch
<1>3. /\ pc = "idle"
      /\ WriteLocked(msg.rows, msg.size, "log", m, TRUE)
      /\ UNCHANGED <<file, curPath, boots, tail>>
  BY DEF Log
<1>4. /\ disk' \in [Paths -> PathFiles]
      /\ hist' \in [Paths -> Nat]
      /\ written' \in Nat
      /\ lineCnt' \in Nat
      /\ pc' \in {"idle", "remove"}
      /\ pc' = "remove" => file
      /\ file => disk'[curPath].cur # NoFile
  BY <1>1, <1>3, WriteLockedType
<1> QED
  BY <1>2, <1>3, <1>4 DEF TypeOK, HolderInv

LEMMA ShapeSetEnabled ==
  ASSUME TypeOK, HolderInv, NEW m \in Modules, NEW on \in BOOLEAN, SetEnabled(m, on)
  PROVE  (TypeOK /\ HolderInv)'
<1>1. ToggleSize \in Nat
  BY LimitsAssumption
<1>2. enabled' \in [Modules -> Switch]
  BY DEF SetEnabled, TypeOK, Switch
<1>3. /\ pc = "idle"
      /\ WriteLocked(1, ToggleSize, "toggle", m, on)
      /\ UNCHANGED <<file, curPath, boots, tail>>
  BY DEF SetEnabled
<1>4. /\ disk' \in [Paths -> PathFiles]
      /\ hist' \in [Paths -> Nat]
      /\ written' \in Nat
      /\ lineCnt' \in Nat
      /\ pc' \in {"idle", "remove"}
      /\ pc' = "remove" => file
      /\ file => disk'[curPath].cur # NoFile
  BY <1>1, <1>3, WriteLockedType
<1> QED
  BY <1>2, <1>3, <1>4 DEF TypeOK, HolderInv

LEMMA ShapeRotate == TypeOK /\ HolderInv /\ Rotate => (TypeOK /\ HolderInv)'
<1> SUFFICES ASSUME TypeOK, HolderInv, Rotate PROVE (TypeOK /\ HolderInv)'
  OBVIOUS
<1>1. curPath \in Paths /\ OpenedAt(curPath) \in File
  BY DiskShape DEF Rotate, RotateRemove, RotateRename, RotateOpen, RotateNotice, HolderInv
<1>2. Overlapped \in TailCall
  BY DEF Overlapped, TypeOK, TailCall
<1>3. /\ Overlapped.pc = tail.pc /\ Overlapped.path = tail.path
      /\ Overlapped.lines = tail.lines /\ Overlapped.n = tail.n
  BY DEF Overlapped, TypeOK, TailCall
<1>4. disk[curPath] \in PathFiles
  BY <1>1 DEF TypeOK
<1>5. CASE RotateRemove
  <2>1. disk' \in [Paths -> PathFiles]
    <3>1. [disk[curPath] EXCEPT !.bak = NoFile] \in PathFiles
      BY <1>4 DEF PathFiles
    <3>2. disk' = disk \/ disk' = [disk EXCEPT ![curPath] = [@ EXCEPT !.bak = NoFile]]
      BY <1>5 DEF RotateRemove
    <3> QED
      BY <3>1, <3>2 DEF TypeOK
  <2> QED
    BY <1>1, <1>2, <1>3, <1>5, <2>1 DEF RotateRemove, TypeOK, HolderInv
<1>6. CASE RotateRename
  <2>1. disk' \in [Paths -> PathFiles]
    <3>1. [cur |-> NoFile, bak |-> disk[curPath].cur] \in PathFiles
      BY <1>4 DEF PathFiles
    <3>2. \/ disk' = disk
          \/ disk' = [disk EXCEPT ![curPath] = [cur |-> NoFile, bak |-> disk[curPath].cur]]
      BY <1>6 DEF RotateRename
    <3> QED
      BY <3>1, <3>2 DEF TypeOK
  <2> QED
    BY <1>1, <1>2, <1>3, <1>6, <2>1 DEF RotateRename, TypeOK, HolderInv
<1>7. CASE RotateOpen
  <2>1. PICK opened \in Outcomes("open") :
          /\ disk' = IF opened THEN [disk EXCEPT ![curPath].cur = OpenedAt(curPath)] ELSE disk
          /\ file' = opened
          /\ pc' = IF opened THEN "notice" ELSE "idle"
    BY <1>7 DEF RotateOpen
  <2>2. opened \in BOOLEAN
    BY DEF Outcomes
  <2>3. [disk[curPath] EXCEPT !.cur = OpenedAt(curPath)] \in PathFiles
    BY <1>1, <1>4 DEF PathFiles
  <2>4. disk' \in [Paths -> PathFiles]
    <3>1. \/ disk' = disk
          \/ disk' = [disk EXCEPT ![curPath] = [@ EXCEPT !.cur = OpenedAt(curPath)]]
      BY <2>1
    <3> QED
      BY <2>3, <3>1 DEF TypeOK
  <2>5. opened => disk'[curPath].cur # NoFile
    BY <1>1, <1>4, <2>1, NoFileAssumption DEF TypeOK, PathFiles
  <2> QED
    BY <1>1, <1>2, <1>3, <1>7, <2>1, <2>2, <2>4, <2>5 DEF RotateOpen, TypeOK, HolderInv
<1>8. CASE RotateNotice
  <2>1. PICK landed \in Outcomes("write") : Write(landed, 1, NoticeSize, "notice", Sys, TRUE)
    BY <1>8 DEF RotateNotice
  <2>2. landed \in BOOLEAN /\ NoticeSize \in Nat /\ Sys \in Modules
    <3>1. landed \in BOOLEAN
      BY DEF Outcomes
    <3>2. NoticeSize \in Nat
      BY LimitsAssumption
    <3>3. Sys \in Modules
      BY ModulesAssumption
    <3> QED
      BY <3>1, <3>2, <3>3
  <2>3. file /\ disk[curPath].cur # NoFile
    BY <1>8 DEF RotateNotice, HolderInv
  <2>4. /\ disk' \in [Paths -> PathFiles]
        /\ hist' \in [Paths -> Nat]
        /\ written' \in Nat
        /\ lineCnt' = lineCnt + 1
        /\ disk'[curPath].cur # NoFile
    BY <1>1, <2>1, <2>2, <2>3, WriteEffect
  <2> QED
    BY <1>1, <1>2, <1>3, <1>8, <2>3, <2>4 DEF RotateNotice, TypeOK, HolderInv
<1> QED
  BY <1>5, <1>6, <1>7, <1>8 DEF Rotate

LEMMA ShapeTail ==
  ASSUME TypeOK, HolderInv, TailStep \/ \E n \in TailSizes : TailStart(n)
  PROVE  (TypeOK /\ HolderInv)'
<1>1. ASSUME NEW n \in TailSizes, TailStart(n) PROVE (TypeOK /\ HolderInv)'
  <2>1. n \in Nat /\ curPath \in Paths /\ hist[curPath] \in Nat
    BY <1>1, TailAssumption DEF TailStart, TypeOK
  <2>2. tail' = [pc |-> "cur", path |-> curPath, n |-> n, lines |-> <<>>,
                 newest |-> hist[curPath], rotated |-> FALSE]
    BY <1>1 DEF TailStart, IdleTail
  <2>3. tail' \in TailCall /\ tail'.path \in Paths /\ tail'.pc = "cur"
    BY <2>1, <2>2 DEF TailCall
  <2> QED
    BY <1>1, <2>3 DEF TailStart, TypeOK, HolderInv
<1>2. CASE TailReadCur
  <2>1. tail.n \in Nat /\ tail.path \in Paths
    BY <1>2 DEF TailReadCur, TypeOK, TailCall, HolderInv
  <2>2. LastRows(tail.n, RowsOf(disk[tail.path].cur)) \in Seq(Row)
    BY <2>1, LastRowsType, DiskShape
  <2>3. /\ tail' \in TailCall /\ tail'.path = tail.path
        /\ tail'.pc = "bak" => Len(tail'.lines) < tail'.n
    BY <1>2, <2>2 DEF TailReadCur, TypeOK, TailCall
  <2> QED
    BY <1>2, <2>1, <2>3 DEF TailReadCur, TypeOK, HolderInv
<1>3. CASE TailReadBak
  <2>1. tail.n \in Nat /\ tail.path \in Paths /\ tail.lines \in Seq(Row)
    BY <1>3 DEF TailReadBak, TypeOK, TailCall, HolderInv
  <2> DEFINE prev == LastRows(tail.n - Len(tail.lines), RowsOf(disk[tail.path].bak))
  <2>2. prev \in Seq(Row)
    <3>1. tail.n - Len(tail.lines) \in Nat
      BY <1>3, <2>1 DEF TailReadBak, HolderInv
    <3> QED
      BY <2>1, <3>1, LastRowsType, DiskShape
  <2>3. tail' \in TailCall /\ tail'.path = tail.path /\ tail'.pc = "done"
    <3>1. prev \o tail.lines \in Seq(Row)
      BY <2>1, <2>2
    <3>2. tail' = [tail EXCEPT !.lines = prev \o tail.lines, !.pc = "done"]
      BY <1>3 DEF TailReadBak
    <3> HIDE DEF prev
    <3> QED
      BY <3>1, <3>2 DEF TypeOK, TailCall
  <2> QED
    BY <1>3, <2>1, <2>3 DEF TailReadBak, TypeOK, HolderInv
<1>4. CASE TailReturn
  BY <1>4, IdleTailType DEF TailReturn, IdleTail, TypeOK, HolderInv
<1> QED
  BY <1>1, <1>2, <1>3, <1>4 DEF TailStep

LEMMA ShapeStep == TypeOK /\ HolderInv /\ [Next]_vars => (TypeOK /\ HolderInv)'
<1> SUFFICES ASSUME TypeOK, HolderInv, [Next]_vars PROVE (TypeOK /\ HolderInv)'
  OBVIOUS
<1>1. CASE End
  BY <1>1, EnvType, IdleTailType DEF End, IdleTail, TypeOK, HolderInv
<1>2. ASSUME NEW m \in Modules, NEW msg \in Messages, Log(m, msg)
      PROVE  (TypeOK /\ HolderInv)'
  BY <1>2, ShapeLog
<1>3. ASSUME NEW m \in Modules, NEW on \in BOOLEAN, SetEnabled(m, on)
      PROVE  (TypeOK /\ HolderInv)'
  BY <1>3, ShapeSetEnabled
<1>4. CASE UNCHANGED vars
  BY <1>4 DEF vars, TypeOK, HolderInv
<1> QED
  BY <1>1, <1>2, <1>3, <1>4, ShapeStart, ShapeRotate, ShapeTail DEF Next

\* The state keeps its shape, for every choice of the constants.
THEOREM TypeCorrect == Spec => []TypeOK
<1>1. Spec => [](TypeOK /\ HolderInv)
  BY ShapeInit, ShapeStep, PTL DEF Spec
<1> QED
  BY <1>1, PTL

-----------------------------------------------------------------------------
(* What the steps do to the two files of each path                         *)

LEMMA TailFrame ==
  ASSUME TailStep \/ \E n \in TailSizes : TailStart(n)
  PROVE  UNCHANGED <<disk, file, curPath, written, lineCnt, enabled, pc, boots, hist>>
<1>1. CASE \E n \in TailSizes : TailStart(n)
  BY <1>1 DEF TailStart
<1>2. CASE TailReadCur
  BY <1>2 DEF TailReadCur
<1>3. CASE TailReadBak
  BY <1>3 DEF TailReadBak
<1>4. CASE TailReturn
  BY <1>4 DEF TailReturn
<1> QED
  BY <1>1, <1>2, <1>3, <1>4 DEF TailStep

LEMMA InitAtEffect ==
  ASSUME TypeOK, NEW p \in Paths, InitAt(p)
  PROVE  /\ \A q \in Paths \ {p} : disk'[q] = disk[q]
         /\ disk'[p].cur = OpenedAt(p)
         /\ disk'[p].bak = disk[p].bak
<1>1. disk' = [disk EXCEPT ![p] = [@ EXCEPT !.cur = OpenedAt(p)]]
  BY DEF InitAt
<1> QED
  BY <1>1 DEF TypeOK, PathFiles

LEMMA RemoveEffect ==
  ASSUME TypeOK, HolderInv, RotateRemove
  PROVE  /\ curPath \in Paths
         /\ \A q \in Paths \ {curPath} : disk'[q] = disk[q]
         /\ disk'[curPath].cur = disk[curPath].cur
         /\ \/ disk'[curPath].bak = NoFile
            \/ "rename" \in Faults /\ disk'[curPath].bak = disk[curPath].bak
<1>1. PICK removed \in Outcomes("rename") :
        disk' = IF removed THEN [disk EXCEPT ![curPath].bak = NoFile] ELSE disk
  BY DEF RotateRemove
<1>2. removed \in BOOLEAN /\ ("rename" \notin Faults => removed = TRUE)
  BY DEF Outcomes
<1>3. curPath \in Paths
  BY DEF RotateRemove, HolderInv
<1>4. CASE removed
  <2>1. disk' = [disk EXCEPT ![curPath] = [@ EXCEPT !.bak = NoFile]]
    BY <1>1, <1>4
  <2> QED
    BY <1>3, <2>1 DEF TypeOK, PathFiles
<1>5. CASE ~removed
  BY <1>1, <1>2, <1>3, <1>5
<1> QED
  BY <1>2, <1>4, <1>5

LEMMA RenameEffect ==
  ASSUME TypeOK, HolderInv, RotateRename
  PROVE  /\ curPath \in Paths
         /\ \A q \in Paths \ {curPath} : disk'[q] = disk[q]
         /\ \/ disk'[curPath].cur = NoFile /\ disk'[curPath].bak = disk[curPath].cur
            \/ "rename" \in Faults /\ disk' = disk
<1>1. PICK renamed \in Outcomes("rename") :
        disk' = IF renamed
                THEN [disk EXCEPT ![curPath] = [cur |-> NoFile, bak |-> disk[curPath].cur]]
                ELSE disk
  BY DEF RotateRename
<1>2. renamed \in BOOLEAN /\ ("rename" \notin Faults => renamed = TRUE)
  BY DEF Outcomes
<1>3. curPath \in Paths
  BY DEF RotateRename, HolderInv
<1>4. CASE renamed
  BY <1>1, <1>3, <1>4 DEF TypeOK
<1>5. CASE ~renamed
  BY <1>1, <1>2, <1>3, <1>5
<1> QED
  BY <1>2, <1>4, <1>5

LEMMA OpenEffect ==
  ASSUME TypeOK, HolderInv, RotateOpen
  PROVE  /\ curPath \in Paths
         /\ \A q \in Paths \ {curPath} : disk'[q] = disk[q]
         /\ disk'[curPath].cur = IF file' THEN OpenedAt(curPath) ELSE disk[curPath].cur
         /\ disk'[curPath].bak = disk[curPath].bak
<1>1. PICK opened \in Outcomes("open") :
        /\ disk' = IF opened THEN [disk EXCEPT ![curPath].cur = OpenedAt(curPath)] ELSE disk
        /\ file' = opened
  BY DEF RotateOpen
<1>2. curPath \in Paths
  BY DEF RotateOpen, HolderInv
<1>3. \/ file' /\ disk' = [disk EXCEPT ![curPath] = [@ EXCEPT !.cur = OpenedAt(curPath)]]
      \/ ~file' /\ disk' = disk
  BY <1>1
<1> QED
  BY <1>2, <1>3 DEF TypeOK, PathFiles

\* The notice of a rotation, and a line written with the mutex free.
LEMMA WriteLockedPick ==
  ASSUME TypeOK, HolderInv, pc = "idle", file, NEW k \in Nat, NEW size \in Nat,
         NEW kind \in {"log", "toggle", "notice"}, NEW mod \in Modules,
         NEW on \in BOOLEAN, WriteLocked(k, size, kind, mod, on)
  PROVE  /\ curPath \in Paths
         /\ disk[curPath].cur \in File
         /\ "write" \notin Faults => Write(TRUE, k, size, kind, mod, on)
         /\ pc' = IF Full(written', lineCnt') THEN "remove" ELSE "idle"
<1>1. PICK landed \in Outcomes("write") : Write(landed, k, size, kind, mod, on)
  BY DEF WriteLocked
<1>2. landed \in BOOLEAN /\ ("write" \notin Faults => landed = TRUE)
  BY DEF Outcomes
<1>3. curPath \in Paths /\ disk[curPath].cur \in File
  BY DiskShape DEF HolderInv
<1>4. pc' = IF Full(written', lineCnt') THEN "remove" ELSE "idle"
  BY DEF WriteLocked
<1> QED
  BY <1>1, <1>2, <1>3, <1>4

\* The notice of a rotation is a write.
LEMMA NoticeEffect ==
  ASSUME TypeOK, HolderInv, RotateNotice
  PROVE  /\ curPath \in Paths
         /\ disk[curPath].cur \in File
         /\ \A q \in Paths \ {curPath} : disk'[q] = disk[q] /\ hist'[q] = hist[q]
         /\ disk'[curPath].bak = disk[curPath].bak
         /\ lineCnt' = lineCnt + 1
         /\ \/ /\ disk'[curPath].cur =
                    Appended(disk[curPath].cur, curPath, 1, NoticeSize, "notice", Sys, TRUE)
               /\ hist'[curPath] = hist[curPath] + 1
               /\ written' = written + NoticeSize
            \/ /\ "write" \in Faults
               /\ UNCHANGED <<disk, hist, written>>
<1>1. PICK landed \in Outcomes("write") : Write(landed, 1, NoticeSize, "notice", Sys, TRUE)
  BY DEF RotateNotice
<1>2. landed \in BOOLEAN /\ ("write" \notin Faults => landed = TRUE)
  BY DEF Outcomes
<1>3. curPath \in Paths /\ disk[curPath].cur \in File /\ disk[curPath].cur # NoFile
  BY DiskShape DEF HolderInv, RotateNotice
<1>4. NoticeSize \in Nat
  BY LimitsAssumption
<1>5. Sys \in Modules
  BY ModulesAssumption
<1>6. /\ lineCnt' = lineCnt + 1
      /\ \A p \in Paths \ {curPath} : disk'[p] = disk[p] /\ hist'[p] = hist[p]
      /\ disk'[curPath].bak = disk[curPath].bak
      /\ landed =>
           /\ disk'[curPath].cur =
                Appended(disk[curPath].cur, curPath, 1, NoticeSize, "notice", Sys, TRUE)
           /\ hist'[curPath] = hist[curPath] + 1
           /\ written' = written + NoticeSize
      /\ ~landed => disk' = disk /\ hist' = hist /\ written' = written
  BY <1>1, <1>2, <1>3, <1>4, <1>5, WriteEffect
<1> QED
  BY <1>2, <1>3, <1>6

\* What one step may do to the files of a path: nothing that shows in their rows and
\* sizes, ...
Kept(p) ==
  /\ RowsOf(disk'[p].cur) = RowsOf(disk[p].cur) /\ SizeOf(disk'[p].cur) = SizeOf(disk[p].cur)
  /\ RowsOf(disk'[p].bak) = RowsOf(disk[p].bak) /\ SizeOf(disk'[p].bak) = SizeOf(disk[p].bak)
  /\ hist'[p] = hist[p]

\* ... rows written to the open file, ...
Wrote(p, k, size, kind, mod, on) ==
  /\ disk'[p].cur = Appended(disk[p].cur, p, k, size, kind, mod, on)
  /\ hist'[p] = hist[p] + k

Grown(p) ==
  /\ p = curPath /\ file /\ pc \in {"idle", "notice"}
  /\ disk[p].cur \in File
  /\ disk'[p].bak = disk[p].bak
  /\ \E k \in Nat \ {0}, size \in Nat, kind \in {"log", "toggle", "notice"},
        mod \in Modules, on \in BOOLEAN : Wrote(p, k, size, kind, mod, on)

\* ... the backup removed, ...
Dropped(p) ==
  /\ p = curPath /\ pc = "remove"
  /\ disk'[p].cur = disk[p].cur /\ disk'[p].bak = NoFile
  /\ hist'[p] = hist[p] /\ tail' = Overlapped

\* ... or the file made the backup.
Moved(p) ==
  /\ p = curPath /\ pc = "rename"
  /\ disk'[p].cur = NoFile /\ disk'[p].bak = disk[p].cur
  /\ hist'[p] = hist[p] /\ tail' = Overlapped

LEMMA WriteLockedFiles ==
  ASSUME TypeOK, HolderInv, pc = "idle", NEW k \in Nat \ {0}, NEW size \in Nat,
         NEW kind \in {"log", "toggle", "notice"}, NEW mod \in Modules,
         NEW on \in BOOLEAN, WriteLocked(k, size, kind, mod, on), NEW p \in Paths
  PROVE  Kept(p) \/ Grown(p)
<1>1. CASE ~file
  BY <1>1 DEF WriteLocked, Kept
<1>2. CASE file
  <2>1. /\ curPath \in Paths /\ disk[curPath].cur \in File /\ disk[curPath].cur # NoFile
        /\ k \in Nat
    BY <1>2, DiskShape DEF HolderInv
  <2>2. PICK landed \in BOOLEAN : Write(landed, k, size, kind, mod, on)
    BY <1>2 DEF WriteLocked, Outcomes
  <2>3. /\ \A q \in Paths \ {curPath} : disk'[q] = disk[q] /\ hist'[q] = hist[q]
        /\ disk'[curPath].bak = disk[curPath].bak
        /\ landed =>
             /\ disk'[curPath].cur = Appended(disk[curPath].cur, curPath, k, size, kind, mod, on)
             /\ hist'[curPath] = hist[curPath] + k
        /\ ~landed => disk' = disk /\ hist' = hist
    BY <2>1, <2>2, WriteEffect
  <2> QED
    BY <1>2, <2>1, <2>3 DEF Kept, Grown, Wrote
<1> QED
  BY <1>1, <1>2

\* One step does one of these to each path.
LEMMA FilesStep ==
  ASSUME TypeOK, HolderInv, [Next]_vars, NEW p \in Paths
  PROVE  Kept(p) \/ Grown(p) \/ Dropped(p) \/ Moved(p)
<1>1. \A q \in Paths : /\ RowsOf(OpenedAt(q)) = RowsOf(disk[q].cur)
                       /\ SizeOf(OpenedAt(q)) = SizeOf(disk[q].cur)
  BY NoFileAssumption DEF OpenedAt, RowsOf, SizeOf, EmptyFile
<1>2. ASSUME NEW q \in Paths, InitAt(q) PROVE Kept(p)
  <2>1. /\ \A r \in Paths \ {q} : disk'[r] = disk[r]
        /\ disk'[q].cur = OpenedAt(q)
        /\ disk'[q].bak = disk[q].bak
        /\ hist' = hist
    BY <1>2, InitAtEffect DEF InitAt
  <2> QED
    BY <1>1, <2>1 DEF Kept
<1>3. CASE InitDegraded \/ End
  BY <1>3 DEF InitDegraded, End, Kept
<1>4. ASSUME NEW m \in Modules, NEW msg \in Messages, Log(m, msg) PROVE Kept(p) \/ Grown(p)
  <2>1. msg.rows \in Nat \ {0} /\ msg.size \in Nat
    BY LimitsAssumption
  <2> QED
    BY <1>4, <2>1, WriteLockedFiles DEF Log
<1>5. ASSUME NEW m \in Modules, NEW on \in BOOLEAN, SetEnabled(m, on)
      PROVE  Kept(p) \/ Grown(p)
  <2>1. ToggleSize \in Nat /\ 1 \in Nat \ {0}
    BY LimitsAssumption
  <2> QED
    BY <1>5, <2>1, WriteLockedFiles DEF SetEnabled
<1>6. CASE RotateRemove
  <2>1. /\ \A q \in Paths \ {curPath} : disk'[q] = disk[q]
        /\ disk'[curPath].cur = disk[curPath].cur
        /\ disk'[curPath].bak \in {NoFile, disk[curPath].bak}
        /\ hist' = hist /\ pc = "remove" /\ tail' = Overlapped
    BY <1>6, RemoveEffect DEF RotateRemove
  <2> QED
    BY <2>1 DEF Kept, Dropped
<1>7. CASE RotateRename
  <2>1. /\ \A q \in Paths \ {curPath} : disk'[q] = disk[q]
        /\ \/ disk'[curPath].cur = NoFile /\ disk'[curPath].bak = disk[curPath].cur
           \/ disk' = disk
        /\ hist' = hist /\ pc = "rename" /\ tail' = Overlapped
    BY <1>7, RenameEffect DEF RotateRename
  <2> QED
    BY <2>1 DEF Kept, Moved
<1>8. CASE RotateOpen
  <2>1. /\ curPath \in Paths
        /\ \A q \in Paths \ {curPath} : disk'[q] = disk[q]
        /\ disk'[curPath].cur \in {OpenedAt(curPath), disk[curPath].cur}
        /\ disk'[curPath].bak = disk[curPath].bak
        /\ hist' = hist
    BY <1>8, OpenEffect DEF RotateOpen
  <2> QED
    BY <1>1, <2>1 DEF Kept
<1>9. CASE RotateNotice
  <2>1. /\ disk[curPath].cur \in File
        /\ \A q \in Paths \ {curPath} : disk'[q] = disk[q] /\ hist'[q] = hist[q]
        /\ disk'[curPath].bak = disk[curPath].bak
        /\ \/ /\ disk'[curPath].cur =
                   Appended(disk[curPath].cur, curPath, 1, NoticeSize, "notice", Sys, TRUE)
              /\ hist'[curPath] = hist[curPath] + 1
           \/ UNCHANGED <<disk, hist>>
    BY <1>9, NoticeEffect
  <2>2. file /\ pc = "notice" /\ NoticeSize \in Nat /\ Sys \in Modules /\ 1 \in Nat \ {0}
    BY <1>9, LimitsAssumption, ModulesAssumption DEF RotateNotice, HolderInv
  <2>3. CASE p # curPath \/ UNCHANGED <<disk, hist>>
    BY <2>1, <2>3 DEF Kept
  <2>4. CASE /\ p = curPath
             /\ disk'[p].cur = Appended(disk[p].cur, p, 1, NoticeSize, "notice", Sys, TRUE)
             /\ hist'[p] = hist[p] + 1
    BY <2>1, <2>2, <2>4 DEF Grown, Wrote
  <2> QED
    BY <2>1, <2>3, <2>4
<1>10. CASE TailStep \/ \E n \in TailSizes : TailStart(n)
  BY <1>10, TailFrame DEF Kept
<1>11. CASE UNCHANGED vars
  BY <1>11 DEF vars, Kept
<1> QED
  BY <1>2, <1>3, <1>4, <1>5, <1>6, <1>7, <1>8, <1>9, <1>10, <1>11
     DEF Next, Start, Rotate, Paths

-----------------------------------------------------------------------------
(* The files stay bounded                                                  *)

LEMMA SizeWriteLocked ==
  ASSUME TypeOK, HolderInv, SizeInv, pc = "idle", NEW k \in Nat, NEW size \in Nat, size <= MaxMessage,
         NEW kind \in {"log", "toggle", "notice"}, NEW mod \in Modules,
         NEW on \in BOOLEAN, WriteLocked(k, size, kind, mod, on),
         UNCHANGED <<file, curPath>>
  PROVE  SizeInv'
<1>0. MaxBytes \in Nat /\ MaxMessage \in Nat /\ size \in Nat
  BY LimitsAssumption
<1>1. CASE ~file
  BY <1>1 DEF WriteLocked, SizeInv, DiskBounded, SizeOf
<1>2. CASE file
  <2>1. /\ curPath \in Paths
        /\ disk[curPath].cur \in File
        /\ pc' = IF Full(written', lineCnt') THEN "remove" ELSE "idle"
    BY <1>0, <1>2, WriteLockedPick
  <2>2. PICK landed \in BOOLEAN : Write(landed, k, size, kind, mod, on)
    BY <1>2 DEF WriteLocked, Outcomes
  <2>3. curPath \in Paths /\ disk[curPath].cur \in File
    BY <2>1
  <2> DEFINE new == Appended(disk[curPath].cur, curPath, k, size, kind, mod, on)
  <2>4. new \in File /\ new.size = disk[curPath].cur.size + size
    BY <2>3, AppendedIsFile
  <2>5. /\ \A q \in Paths \ {curPath} : disk'[q] = disk[q]
        /\ disk'[curPath].bak = disk[curPath].bak
        /\ landed => disk'[curPath].cur = new /\ written' = written + size
        /\ ~landed => disk' = disk /\ written' = written
    BY <1>0, <1>2, <2>1, <2>2, WriteEffect DEF HolderInv
  <2>6. disk[curPath].cur.size = written /\ written < MaxBytes /\ written \in Nat
    BY <1>2, <2>1, NoFileAssumption DEF SizeInv, SizeOf, TypeOK
  <2> HIDE DEF new
  <2>7. SizeOf(disk'[curPath].cur) = written' /\ written' < MaxBytes + MaxMessage
    BY <1>0, <2>1, <2>4, <2>5, <2>6, NoFileAssumption DEF SizeOf
  <2>8. DiskBounded'
    <3>1. SizeOf(disk[curPath].bak) < MaxBytes + MaxMessage
      BY <2>1 DEF SizeInv, DiskBounded
    <3>2. SizeOf(disk'[curPath].bak) < MaxBytes + MaxMessage
      BY <2>5, <3>1
    <3>3. ASSUME NEW q \in Paths \ {curPath}
          PROVE  /\ SizeOf(disk'[q].cur) < MaxBytes + MaxMessage
                 /\ SizeOf(disk'[q].bak) < MaxBytes + MaxMessage
      BY <2>5 DEF SizeInv, DiskBounded
    <3> QED
      BY <2>7, <2>1, <3>2, <3>3 DEF DiskBounded, SizeOf
  <2>9. pc' = "idle" => written' < MaxBytes
    <3>1. written' \in Nat
      BY <1>0, <2>5, <2>6
    <3> QED
      BY <1>0, <2>1, <3>1 DEF Full
  <2> QED
    BY <2>1, <2>7, <2>8, <2>9 DEF SizeInv
<1> QED
  BY <1>1, <1>2

LEMMA SizeStep ==
  ASSUME "rename" \notin Faults, TypeOK, HolderInv, SizeInv, [Next]_vars
  PROVE  SizeInv'
<1> USE DEF SizeOf
<1>1. MaxBytes \in Nat /\ MaxMessage \in Nat /\ MaxBytes > 0 /\ NoticeSize \in Nat
      /\ NoticeSize < MaxBytes
  BY LimitsAssumption
<1>2. ASSUME NEW p \in Paths, InitAt(p) PROVE SizeInv'
  <2>1. /\ OpenedAt(p) \in File /\ OpenedAt(p) # NoFile
        /\ OpenedAt(p).size < MaxBytes + MaxMessage
    BY <1>1, DiskShape, NoFileAssumption DEF OpenedAt, EmptyFile, SizeInv, DiskBounded
  <2>2. /\ \A q \in Paths \ {p} : disk'[q] = disk[q]
        /\ disk'[p].cur = OpenedAt(p)
        /\ disk'[p].bak = disk[p].bak
    BY <1>2, InitAtEffect
  <2>3. /\ file' /\ curPath' = p /\ written' = OpenedAt(p).size
        /\ pc' = IF Full(written', lineCnt') THEN "remove" ELSE "idle"
    BY <1>2 DEF InitAt
  <2>4. DiskBounded'
    BY <2>1, <2>2 DEF SizeInv, DiskBounded
  <2>5. OpenedAt(p).size \in Nat
    BY <2>1 DEF File
  <2> QED
    BY <1>1, <2>1, <2>2, <2>3, <2>4, <2>5 DEF SizeInv, Full
<1>3. CASE InitDegraded
  BY <1>3 DEF InitDegraded, SizeInv, DiskBounded, HolderInv
<1>4. CASE End
  BY <1>4 DEF End, SizeInv, DiskBounded
<1>5. ASSUME NEW m \in Modules, NEW msg \in Messages, Log(m, msg) PROVE SizeInv'
  <2>1. msg.rows \in Nat /\ msg.size \in Nat /\ msg.size <= MaxMessage
    BY LimitsAssumption
  <2>2. /\ pc = "idle" /\ WriteLocked(msg.rows, msg.size, "log", m, TRUE)
        /\ UNCHANGED <<file, curPath>>
    BY <1>5 DEF Log
  <2> QED
    BY <2>1, <2>2, SizeWriteLocked
<1>6. ASSUME NEW m \in Modules, NEW on \in BOOLEAN, SetEnabled(m, on) PROVE SizeInv'
  <2>1. ToggleSize \in Nat /\ ToggleSize <= MaxMessage
    BY LimitsAssumption
  <2>2. /\ pc = "idle" /\ WriteLocked(1, ToggleSize, "toggle", m, on)
        /\ UNCHANGED <<file, curPath>>
    BY <1>6 DEF SetEnabled
  <2> QED
    BY <2>1, <2>2, SizeWriteLocked
<1>7. CASE RotateRemove
  <2>1. /\ curPath \in Paths
        /\ \A q \in Paths \ {curPath} : disk'[q] = disk[q]
        /\ disk'[curPath].cur = disk[curPath].cur
        /\ disk'[curPath].bak = NoFile
    BY <1>7, RemoveEffect
  <2>2. DiskBounded'
    BY <1>1, <2>1 DEF SizeInv, DiskBounded
  <2> QED
    BY <1>7, <2>1, <2>2 DEF RotateRemove, SizeInv
<1>8. CASE RotateRename
  <2>1. /\ curPath \in Paths
        /\ \A q \in Paths \ {curPath} : disk'[q] = disk[q]
        /\ disk'[curPath].cur = NoFile
        /\ disk'[curPath].bak = disk[curPath].cur
    BY <1>8, RenameEffect
  <2>2. DiskBounded'
    BY <1>1, <2>1 DEF SizeInv, DiskBounded
  <2> QED
    BY <1>8, <2>1, <2>2 DEF RotateRename, SizeInv, HolderInv
<1>9. CASE RotateOpen
  <2>1. /\ curPath \in Paths
        /\ \A q \in Paths \ {curPath} : disk'[q] = disk[q]
        /\ disk'[curPath].cur = IF file' THEN OpenedAt(curPath) ELSE disk[curPath].cur
        /\ disk'[curPath].bak = disk[curPath].bak
    BY <1>9, OpenEffect
  <2>2. OpenedAt(curPath) = EmptyFile /\ EmptyFile # NoFile /\ EmptyFile.size = 0
    BY <1>9, <2>1, NoFileAssumption, DiskShape DEF RotateOpen, SizeInv, OpenedAt, EmptyFile
  <2>3. /\ written' = 0 /\ curPath' = curPath
        /\ pc' = "notice" \/ pc' = "idle"
    BY <1>9 DEF RotateOpen
  <2>4. DiskBounded'
    BY <1>1, <2>1, <2>2 DEF SizeInv, DiskBounded
  <2>5. pc' = "notice" => file'
    BY <1>9 DEF RotateOpen
  <2> QED
    BY <1>1, <2>1, <2>2, <2>3, <2>4, <2>5 DEF SizeInv
<1>10. CASE RotateNotice
  <2> DEFINE new == Appended(disk[curPath].cur, curPath, 1, NoticeSize, "notice", Sys, TRUE)
  <2>1. /\ curPath \in Paths /\ disk[curPath].cur \in File
        /\ \A q \in Paths \ {curPath} : disk'[q] = disk[q]
        /\ disk'[curPath].bak = disk[curPath].bak
        /\ \/ disk'[curPath].cur = new /\ written' = written + NoticeSize
           \/ disk' = disk /\ written' = written
    BY <1>10, NoticeEffect
  <2>2. new.size = disk[curPath].cur.size + NoticeSize /\ new \in File
    BY <2>1, NoticeIsFile
  <2>3. file /\ pc = "notice" /\ pc' = "idle" /\ UNCHANGED <<file, curPath>>
    BY <1>10 DEF RotateNotice, HolderInv
  <2>4. written = 0 /\ disk[curPath].cur.size = 0
    BY <2>1, <2>3, NoFileAssumption DEF SizeInv
  <2> HIDE DEF new
  <2>5. SizeOf(disk'[curPath].cur) = written' /\ written' < MaxBytes
        /\ written' < MaxBytes + MaxMessage
    BY <1>1, <2>1, <2>2, <2>4, NoFileAssumption
  <2>6. DiskBounded'
    BY <2>1, <2>5 DEF SizeInv, DiskBounded
  <2> QED
    BY <2>3, <2>5, <2>6 DEF SizeInv
<1>11. CASE TailStep \/ \E n \in TailSizes : TailStart(n)
  BY <1>11, TailFrame DEF SizeInv, DiskBounded
<1>12. CASE UNCHANGED vars
  BY <1>12 DEF vars, SizeInv, DiskBounded
<1> QED
  BY <1>2, <1>3, <1>4, <1>5, <1>6, <1>7, <1>8, <1>9, <1>10, <1>11, <1>12
     DEF Next, Start, Rotate, Paths

LEMMA SizeInit == Init => SizeInv
<1> SUFFICES ASSUME Init PROVE SizeInv
  OBVIOUS
<1>1. MaxBytes \in Nat /\ MaxMessage \in Nat /\ MaxBytes > 0
  BY LimitsAssumption
<1> QED
  BY <1>1 DEF Init, SizeInv, DiskBounded, SizeOf

\* SizeInv stays as long as renaming works.
LEMMA SizeInvariant ==
  ASSUME "rename" \notin Faults
  PROVE  Spec => []SizeInv
<1>1. Init => TypeOK /\ HolderInv /\ SizeInv
  BY ShapeInit, SizeInit
<1>2. TypeOK /\ HolderInv /\ SizeInv /\ [Next]_vars => (TypeOK /\ HolderInv /\ SizeInv)'
  BY ShapeStep, SizeStep
<1> QED
  BY <1>1, <1>2, PTL DEF Spec

\* As long as renaming works, neither the log nor its backup outgrows the byte
\* limit by more than one line, whatever ends, restarts, failed writes and
\* failed opens there are.
THEOREM FilesBounded ==
  ASSUME "rename" \notin Faults
  PROVE  Spec => []DiskBounded
<1>1. SizeInv => DiskBounded
  BY DEF SizeInv
<1> QED
  BY <1>1, SizeInvariant, PTL

\* And the size Stat reports is that of the file.
THEOREM SizeReported ==
  ASSUME "rename" \notin Faults
  PROVE  Spec => []StatSizeExact
<1>1. SizeInv => StatSizeExact
  BY DEF SizeInv, StatSizeExact
<1> QED
  BY <1>1, SizeInvariant, PTL

-----------------------------------------------------------------------------
(* The rows on disk are the newest ones, in order, with none missing       *)

LEMMA AppendedIds ==
  ASSUME TypeOK, NEW f \in File, NEW p \in Paths, NEW k \in Nat, NEW size, NEW kind,
         NEW mod, NEW on
  PROVE  LET new == Appended(f, p, k, size, kind, mod, on).rows
         IN  /\ Len(new) = Len(f.rows) + k
             /\ \A i \in 1 .. Len(f.rows) : new[i] = f.rows[i]
             /\ \A i \in Len(f.rows) + 1 .. Len(f.rows) + k :
                  new[i] = [id |-> hist[p] + (i - Len(f.rows)), boot |-> boots,
                            kind |-> kind, mod |-> mod, on |-> on]
<1> DEFINE more == [i \in 1 .. k |->
              [id |-> hist[p] + i, boot |-> boots, kind |-> kind,
               mod |-> mod, on |-> on]]
<1>1. f.rows \in Seq(Row)
  BY DEF File
<1>2. more \in Seq({more[i] : i \in 1 .. k}) /\ Len(more) = k
  OBVIOUS
<1>3. \A i \in 1 .. k : more[i] = [id |-> hist[p] + i, boot |-> boots, kind |-> kind,
                                  mod |-> mod, on |-> on]
  OBVIOUS
<1>4. Appended(f, p, k, size, kind, mod, on).rows = f.rows \o more
  BY DEF Appended
<1> HIDE DEF more
<1>5. /\ Len(f.rows \o more) = Len(f.rows) + k
      /\ \A i \in 1 .. Len(f.rows) : (f.rows \o more)[i] = f.rows[i]
      /\ \A i \in Len(f.rows) + 1 .. Len(f.rows) + k :
            (f.rows \o more)[i] = more[i - Len(f.rows)]
  BY <1>1, <1>2
<1>6. \A i \in Len(f.rows) + 1 .. Len(f.rows) + k : i - Len(f.rows) \in 1 .. k
  BY <1>1
<1> QED
  BY <1>3, <1>4, <1>5, <1>6

LEMMA UnbrokenAppended ==
  ASSUME TypeOK, NEW f \in File, NEW p \in Paths, NEW k \in Nat, NEW size, NEW kind,
         NEW mod, NEW on, NEW bak \in Seq(Row), Unbroken(hist[p], f.rows, bak)
  PROVE  Unbroken(hist[p] + k, Appended(f, p, k, size, kind, mod, on).rows, bak)
<1> DEFINE new == Appended(f, p, k, size, kind, mod, on).rows
<1>1. /\ Len(new) = Len(f.rows) + k
      /\ \A i \in 1 .. Len(f.rows) : new[i] = f.rows[i]
      /\ \A i \in Len(f.rows) + 1 .. Len(f.rows) + k :
           new[i].id = hist[p] + (i - Len(f.rows))
  <2>1. /\ Len(new) = Len(f.rows) + k
        /\ \A i \in 1 .. Len(f.rows) : new[i] = f.rows[i]
        /\ \A i \in Len(f.rows) + 1 .. Len(f.rows) + k :
             new[i] = [id |-> hist[p] + (i - Len(f.rows)), boot |-> boots,
                       kind |-> kind, mod |-> mod, on |-> on]
    BY AppendedIds
  <2> HIDE DEF new
  <2>2. ASSUME NEW i \in Len(f.rows) + 1 .. Len(f.rows) + k
        PROVE  new[i].id = hist[p] + (i - Len(f.rows))
    <3>1. new[i] = [id |-> hist[p] + (i - Len(f.rows)), boot |-> boots,
                    kind |-> kind, mod |-> mod, on |-> on]
      BY <2>1
    <3> QED
      BY <3>1
  <2> QED
    BY <2>1, <2>2
<1>2. hist[p] \in Nat /\ Len(f.rows) \in Nat /\ Len(bak) \in Nat
  BY DEF TypeOK, File
<1> HIDE DEF new
<1>3. \A i \in 1 .. Len(f.rows) : f.rows[i].id = hist[p] - Len(f.rows) + i
  BY DEF Unbroken
<1>4. \A i \in 1 .. Len(bak) : bak[i].id = hist[p] - Len(f.rows) - Len(bak) + i
  BY DEF Unbroken
<1>5. ASSUME NEW i \in 1 .. Len(new) PROVE new[i].id = (hist[p] + k) - Len(new) + i
  <2>1. CASE i <= Len(f.rows)
    <3>1. new[i] = f.rows[i] /\ f.rows[i].id = hist[p] - Len(f.rows) + i
      BY <1>1, <1>2, <1>3, <2>1
    <3>2. (hist[p] + k) - Len(new) = hist[p] - Len(f.rows)
      BY <1>1, <1>2
    <3> QED
      BY <3>1, <3>2
  <2>2. CASE i > Len(f.rows)
    <3>1. i \in Len(f.rows) + 1 .. Len(f.rows) + k
      BY <1>1, <1>2, <2>2
    <3>2. new[i].id = hist[p] + (i - Len(f.rows))
      BY <1>1, <3>1
    <3> QED
      BY <1>1, <1>2, <3>1, <3>2
  <2> QED
    BY <1>2, <2>1, <2>2
<1>6. ASSUME NEW i \in 1 .. Len(bak)
      PROVE  bak[i].id = (hist[p] + k) - Len(new) - Len(bak) + i
  BY <1>1, <1>2, <1>4
<1>7. Unbroken(hist[p] + k, new, bak)
  BY <1>5, <1>6 DEF Unbroken
<1> QED
  BY <1>7 DEF new

LEMMA UnbrokenEmpty ==
  ASSUME NEW count \in Nat, NEW cur \in Seq(Row), NEW bak \in Seq(Row),
         Unbroken(count, cur, bak)
  PROVE  Unbroken(count, cur, <<>>) /\ Unbroken(count, <<>>, cur)
<1>1. Len(cur) \in Nat /\ Len(<<>>) = 0 /\ \A i \in 1 .. 0 : FALSE
  OBVIOUS
<1>2. \A i \in 1 .. Len(cur) : cur[i].id = count - Len(cur) + i
  BY DEF Unbroken
<1>3. Unbroken(count, cur, <<>>)
  BY <1>1, <1>2 DEF Unbroken
<1>4. Unbroken(count, <<>>, cur)
  <2>1. count - Len(<<>>) - Len(cur) = count - Len(cur)
    BY <1>1
  <2> QED
    BY <1>1, <1>2, <2>1 DEF Unbroken
<1> QED
  BY <1>3, <1>4

\* Every step leaves the rows of a path without a gap.
LEMMA GapStep ==
  ASSUME TypeOK, HolderInv, GapInv, [Next]_vars
  PROVE  GapInv'
<1> SUFFICES ASSUME NEW p \in Paths
             PROVE  Unbroken(hist[p], RowsOf(disk[p].cur), RowsOf(disk[p].bak))'
  BY DEF GapInv
<1> DEFINE cur == RowsOf(disk[p].cur)
           bak == RowsOf(disk[p].bak)
<1>1. /\ cur \in Seq(Row) /\ bak \in Seq(Row) /\ hist[p] \in Nat
      /\ Unbroken(hist[p], cur, bak)
  BY DiskShape DEF GapInv, TypeOK
<1>2. CASE Kept(p)
  BY <1>1, <1>2 DEF Kept
<1>3. CASE Grown(p)
  <2>1. PICK k \in Nat \ {0}, size \in Nat, kind \in {"log", "toggle", "notice"},
             mod \in Modules, on \in BOOLEAN :
          /\ disk'[p].cur = Appended(disk[p].cur, p, k, size, kind, mod, on)
          /\ hist'[p] = hist[p] + k
    BY <1>3 DEF Grown, Wrote
  <2>2. disk[p].cur \in File /\ disk'[p].bak = disk[p].bak /\ cur = disk[p].cur.rows
    BY <1>3, NoFileAssumption DEF Grown, Wrote, RowsOf
  <2>3. Appended(disk[p].cur, p, k, size, kind, mod, on) # NoFile
    <3>1. k \in Nat
      OBVIOUS
    <3> QED
      BY <2>2, <3>1, AppendedIsFile, NoFileAssumption
  <2> QED
    BY <1>1, <2>1, <2>2, <2>3, UnbrokenAppended DEF RowsOf
<1>4. CASE Dropped(p) \/ Moved(p)
  BY <1>1, <1>4, UnbrokenEmpty DEF Dropped, Moved, RowsOf
<1> QED
  BY <1>2, <1>3, <1>4, FilesStep

LEMMA GapNoGap == TypeOK /\ GapInv => NoGap
<1> SUFFICES ASSUME TypeOK, GapInv, NEW p \in Paths, NEW i \in 1 .. Len(OnDisk(p))
             PROVE  OnDisk(p)[i].id = hist[p] - Len(OnDisk(p)) + i
  BY DEF NoGap
<1> DEFINE cur == RowsOf(disk[p].cur)
           bak == RowsOf(disk[p].bak)
<1>1. cur \in Seq(Row) /\ bak \in Seq(Row) /\ hist[p] \in Nat
  BY DiskShape DEF TypeOK
<1>2. Unbroken(hist[p], cur, bak)
  BY DEF GapInv
<1>3. OnDisk(p) = bak \o cur
  BY DEF OnDisk
<1> HIDE DEF cur, bak
<1>4. Len(OnDisk(p)) = Len(bak) + Len(cur)
  BY <1>1, <1>3
<1>5. CASE i <= Len(bak)
  <2>1. OnDisk(p)[i] = bak[i]
    BY <1>1, <1>3, <1>5
  <2> QED
    BY <1>1, <1>2, <1>4, <1>5, <2>1 DEF Unbroken
<1>6. CASE i > Len(bak)
  <2>1. OnDisk(p)[i] = cur[i - Len(bak)] /\ i - Len(bak) \in 1 .. Len(cur)
    BY <1>1, <1>3, <1>4, <1>6
  <2> QED
    BY <1>1, <1>2, <1>4, <1>6, <2>1 DEF Unbroken
<1> QED
  BY <1>1, <1>5, <1>6

\* Whatever fails and whenever the process ends, the rows on disk are the
\* newest rows written to their path, in order and with none missing.
THEOREM NothingLostInside == Spec => []NoGap
<1>1. Init => GapInv
  BY DEF Init, GapInv, Unbroken, RowsOf
<1>2. GapInv /\ TypeOK /\ HolderInv /\ [Next]_vars => GapInv'
  BY GapStep
<1> QED
  BY <1>1, <1>2, ShapeInit, ShapeStep, GapNoGap, PTL DEF Spec

-----------------------------------------------------------------------------
(* A full file's worth is kept                                             *)

\* Retained, said of the two files of a path to which count rows were written.
EnoughIn(count, cur, bak) ==
  \/ Len(RowsOf(bak)) + Len(RowsOf(cur)) = count
  \/ Len(RowsOf(bak)) + Len(RowsOf(cur)) >= MaxLines
  \/ SizeOf(bak) + SizeOf(cur) >= MaxBytes

LEMMA AppendedMeasures ==
  ASSUME TypeOK, NEW f \in File, NEW p \in Paths, NEW k \in Nat, NEW size \in Nat,
         NEW kind \in {"log", "toggle", "notice"}, NEW mod \in Modules,
         NEW on \in BOOLEAN
  PROVE  LET new == Appended(f, p, k, size, kind, mod, on)
         IN  /\ Len(RowsOf(new)) = Len(RowsOf(f)) + k
             /\ SizeOf(new) = SizeOf(f) + size
<1> DEFINE new == Appended(f, p, k, size, kind, mod, on)
<1>1. new \in File /\ new.size = f.size + size
  BY AppendedIsFile
<1>2. Len(new.rows) = Len(f.rows) + k
  BY AppendedIds
<1> HIDE DEF new
<1>3. Len(RowsOf(new)) = Len(RowsOf(f)) + k /\ SizeOf(new) = SizeOf(f) + size
  BY <1>1, <1>2, NoFileAssumption DEF RowsOf, SizeOf
<1> QED
  BY <1>3 DEF new

LEMMA RetainedMeans ==
  TypeOK => (Retained <=> \A p \in Paths : EnoughIn(hist[p], disk[p].cur, disk[p].bak))
<1>1. ASSUME TypeOK, NEW p \in Paths
      PROVE  Len(OnDisk(p)) = Len(RowsOf(disk[p].bak)) + Len(RowsOf(disk[p].cur))
  BY DiskShape DEF OnDisk
<1> QED
  BY <1>1 DEF Retained, EnoughIn

LEMMA EnoughStep ==
  ASSUME TypeOK, HolderInv, RetainInv, [Next]_vars, NEW p \in Paths
  PROVE  EnoughIn(hist[p], disk[p].cur, disk[p].bak)'
<1> DEFINE cur == disk[p].cur
           bak == disk[p].bak
<1>1. EnoughIn(hist[p], cur, bak)
  BY RetainedMeans DEF RetainInv
<1>2. /\ Len(RowsOf(cur)) \in Nat /\ SizeOf(cur) \in Nat /\ hist[p] \in Nat
      /\ Len(RowsOf(bak)) \in Nat /\ SizeOf(bak) \in Nat
      /\ MaxLines \in Nat /\ MaxBytes \in Nat
  BY DiskShape, LimitsAssumption DEF TypeOK
<1>3. CASE Kept(p)
  BY <1>1, <1>3 DEF Kept, EnoughIn
<1>4. CASE Grown(p)
  <2>1. PICK k \in Nat \ {0}, size \in Nat, kind \in {"log", "toggle", "notice"},
             mod \in Modules, on \in BOOLEAN :
          /\ disk'[p].cur = Appended(cur, p, k, size, kind, mod, on)
          /\ hist'[p] = hist[p] + k
    BY <1>4 DEF Grown, Wrote
  <2> DEFINE new == Appended(cur, p, k, size, kind, mod, on)
  <2>2. cur \in File /\ disk'[p].bak = bak /\ k \in Nat
    BY <1>4 DEF Grown, Wrote
  <2>4. /\ Len(RowsOf(new)) = Len(RowsOf(cur)) + k
        /\ SizeOf(new) = SizeOf(cur) + size
    <3> HIDE DEF cur
    <3> QED
      BY <2>2, AppendedMeasures
  <2> HIDE DEF new
  <2>5. EnoughIn(hist[p] + k, new, bak)
    <3> HIDE DEF cur, bak
    <3> QED
      BY <1>1, <1>2, <2>2, <2>4 DEF EnoughIn
  <2> QED
    BY <2>1, <2>2, <2>5 DEF new
<1>5. CASE Dropped(p) \/ Moved(p)
  <2>1. Full(SizeOf(cur), Len(RowsOf(cur)))
    BY <1>5 DEF Dropped, Moved, RetainInv
  <2>2. Len(RowsOf(NoFile)) = 0 /\ SizeOf(NoFile) = 0
    BY DEF RowsOf, SizeOf
  <2>3. EnoughIn(hist[p], cur, NoFile) /\ EnoughIn(hist[p], NoFile, cur)
    <3> HIDE DEF cur, bak
    <3> QED
      BY <1>2, <2>1, <2>2 DEF EnoughIn, Full
  <2> QED
    BY <1>5, <2>3 DEF Dropped, Moved
<1> QED
  BY <1>3, <1>4, <1>5, FilesStep

\* The two counters never run ahead of the open file, and a recycle is of a full one.
CountersOK ==
  /\ file => lineCnt <= Len(RowsOf(disk[curPath].cur))
  /\ file => written <= SizeOf(disk[curPath].cur)
  /\ pc \in {"remove", "rename"} =>
       Full(SizeOf(disk[curPath].cur), Len(RowsOf(disk[curPath].cur)))

LEMMA CountersWriteLocked ==
  ASSUME "write" \notin Faults, TypeOK, HolderInv, CountersOK, pc = "idle",
         NEW k \in Nat \ {0}, NEW size \in Nat,
         NEW kind \in {"log", "toggle", "notice"}, NEW mod \in Modules,
         NEW on \in BOOLEAN, WriteLocked(k, size, kind, mod, on), UNCHANGED <<file, curPath>>
  PROVE  CountersOK'
<1>1. CASE ~file
  BY <1>1 DEF WriteLocked, CountersOK
<1>2. CASE file
  <2> DEFINE cur == disk[curPath].cur
             new == Appended(cur, curPath, k, size, kind, mod, on)
  <2>1. /\ curPath \in Paths /\ cur \in File /\ cur # NoFile /\ k \in Nat
        /\ pc' = IF Full(written', lineCnt') THEN "remove" ELSE "idle"
    BY <1>2, WriteLockedPick, NoFileAssumption
  <2>2. disk'[curPath].cur = new /\ written' = written + size /\ lineCnt' = lineCnt + 1
    <3>1. PICK landed \in Outcomes("write") : Write(landed, k, size, kind, mod, on)
      BY <1>2 DEF WriteLocked
    <3>2. landed \in BOOLEAN
      BY DEF Outcomes
    <3>3. /\ lineCnt' = lineCnt + 1
          /\ landed => disk'[curPath].cur = new /\ written' = written + size
      BY <2>1, <3>1, <3>2, WriteEffect
    <3>4. landed
      BY DEF Outcomes
    <3> QED
      BY <3>3, <3>4
  <2>4. /\ Len(RowsOf(new)) = Len(RowsOf(cur)) + k
        /\ SizeOf(new) = SizeOf(cur) + size
    <3>1. cur \in File /\ k \in Nat
      BY <2>1
    <3> HIDE DEF cur
    <3> QED
      BY <2>1, <3>1, AppendedMeasures
  <2>5. /\ lineCnt <= Len(RowsOf(cur)) /\ written <= SizeOf(cur)
        /\ lineCnt \in Nat /\ written \in Nat
        /\ Len(RowsOf(cur)) \in Nat /\ SizeOf(cur) \in Nat
        /\ MaxLines \in Nat /\ MaxBytes \in Nat
    BY <1>2, <2>1, DiskShape, LimitsAssumption DEF CountersOK, TypeOK
  <2> HIDE DEF cur, new
  <2>6. lineCnt' <= Len(RowsOf(new)) /\ written' <= SizeOf(new)
    BY <2>1, <2>2, <2>4, <2>5
  <2>7. Full(written', lineCnt') => Full(SizeOf(new), Len(RowsOf(new)))
    BY <2>1, <2>2, <2>4, <2>5, <2>6 DEF Full
  <2> QED
    BY <2>1, <2>2, <2>6, <2>7 DEF CountersOK
<1> QED
  BY <1>1, <1>2

LEMMA CountersStep ==
  ASSUME "write" \notin Faults, TypeOK, HolderInv, CountersOK, [Next]_vars
  PROVE  CountersOK'
<1>1. ASSUME NEW p \in Paths, InitAt(p) PROVE CountersOK'
  <2>1. disk'[p].cur = OpenedAt(p) /\ OpenedAt(p) \in File
    BY <1>1, InitAtEffect, DiskShape
  <2>2. /\ curPath' = p /\ written' = SizeOf(OpenedAt(p)) /\ lineCnt' = Len(RowsOf(OpenedAt(p)))
        /\ pc' = IF Full(written', lineCnt') THEN "remove" ELSE "idle"
    BY <1>1, <2>1, NoFileAssumption DEF InitAt, SizeOf, RowsOf
  <2>3. SizeOf(OpenedAt(p)) \in Nat /\ Len(RowsOf(OpenedAt(p))) \in Nat
    BY <2>1 DEF SizeOf, RowsOf, File
  <2> QED
    BY <2>1, <2>2, <2>3 DEF CountersOK
<1>2. CASE InitDegraded \/ End
  BY <1>2 DEF InitDegraded, End, CountersOK, HolderInv
<1>3. ASSUME NEW m \in Modules, NEW msg \in Messages, Log(m, msg) PROVE CountersOK'
  <2>1. msg.rows \in Nat \ {0} /\ msg.size \in Nat
    BY LimitsAssumption
  <2> QED
    BY <1>3, <2>1, CountersWriteLocked DEF Log
<1>4. ASSUME NEW m \in Modules, NEW on \in BOOLEAN, SetEnabled(m, on) PROVE CountersOK'
  <2>1. ToggleSize \in Nat /\ 1 \in Nat \ {0}
    BY LimitsAssumption
  <2> QED
    BY <1>4, <2>1, CountersWriteLocked DEF SetEnabled
<1>5. CASE RotateRemove
  BY <1>5, RemoveEffect DEF RotateRemove, CountersOK
<1>6. CASE RotateRename
  BY <1>6 DEF RotateRename, CountersOK, HolderInv
<1>7. CASE RotateOpen
  <2>1. written' = 0 /\ lineCnt' = 0 /\ pc' \in {"notice", "idle"} /\ curPath' = curPath
    BY <1>7 DEF RotateOpen
  <2>2. curPath \in Paths /\ disk'[curPath].cur \in {OpenedAt(curPath), disk[curPath].cur}
    BY <1>7, OpenEffect
  <2>3. Len(RowsOf(disk'[curPath].cur)) \in Nat /\ SizeOf(disk'[curPath].cur) \in Nat
    BY <2>2, DiskShape DEF RowsOf, SizeOf, File
  <2> QED
    BY <2>1, <2>3 DEF CountersOK
<1>8. CASE RotateNotice
  <2> DEFINE cur == disk[curPath].cur
             new == Appended(cur, curPath, 1, NoticeSize, "notice", Sys, TRUE)
  <2>1. /\ curPath \in Paths /\ cur \in File /\ disk'[curPath].cur = new
        /\ lineCnt' = lineCnt + 1 /\ written' = written + NoticeSize
    BY <1>8, NoticeEffect
  <2>2. file /\ UNCHANGED <<file, curPath>> /\ pc' = "idle" /\ NoticeSize \in Nat
    BY <1>8, LimitsAssumption DEF RotateNotice, HolderInv
  <2>4. /\ Len(RowsOf(new)) = Len(RowsOf(cur)) + 1
        /\ SizeOf(new) = SizeOf(cur) + NoticeSize
    <3>1. new \in File /\ new.size = cur.size + NoticeSize /\ Len(new.rows) = Len(cur.rows) + 1
      BY <2>1, NoticeIsFile
    <3> QED
      BY <2>1, <3>1, NoFileAssumption DEF RowsOf, SizeOf
  <2>5. /\ lineCnt <= Len(RowsOf(cur)) /\ written <= SizeOf(cur)
        /\ lineCnt \in Nat /\ written \in Nat
        /\ Len(RowsOf(cur)) \in Nat /\ SizeOf(cur) \in Nat
    BY <2>1, <2>2, DiskShape DEF CountersOK, TypeOK
  <2> HIDE DEF cur, new
  <2> QED
    BY <2>1, <2>2, <2>4, <2>5 DEF CountersOK
<1>9. CASE TailStep \/ \E n \in TailSizes : TailStart(n)
  BY <1>9, TailFrame DEF CountersOK
<1>10. CASE UNCHANGED vars
  BY <1>10 DEF vars, CountersOK
<1> QED
  BY <1>1, <1>2, <1>3, <1>4, <1>5, <1>6, <1>7, <1>8, <1>9, <1>10
     DEF Next, Start, Rotate, Paths

LEMMA RetainStep ==
  ASSUME "write" \notin Faults, TypeOK, TypeOK', HolderInv, RetainInv, [Next]_vars
  PROVE  RetainInv'
<1>1. CountersOK'
  BY CountersStep DEF RetainInv, CountersOK
<1>2. \A p \in Paths : EnoughIn(hist[p], disk[p].cur, disk[p].bak)'
  BY EnoughStep
<1>3. (TypeOK => (Retained <=> \A p \in Paths : EnoughIn(hist[p], disk[p].cur, disk[p].bak)))'
  BY RetainedMeans, PTL
<1>4. Retained'
  BY <1>2, <1>3
<1> QED
  BY <1>1, <1>4 DEF RetainInv, CountersOK

\* RetainInv stays as long as the disk takes every write.
LEMMA RetainInvariant ==
  ASSUME "write" \notin Faults
  PROVE  Spec => []RetainInv
<1>1. Init => TypeOK /\ HolderInv /\ RetainInv
  <2> SUFFICES ASSUME Init PROVE TypeOK /\ HolderInv /\ RetainInv
    OBVIOUS
  <2>1. TypeOK /\ HolderInv
    BY ShapeInit
  <2>2. \A p \in Paths : EnoughIn(hist[p], disk[p].cur, disk[p].bak)
    BY DEF Init, EnoughIn, RowsOf
  <2> QED
    BY <2>1, <2>2, RetainedMeans DEF Init, RetainInv
<1>2. (TypeOK /\ HolderInv /\ RetainInv) /\ [Next]_vars => (TypeOK /\ HolderInv /\ RetainInv)'
  BY ShapeStep, RetainStep
<1> QED
  BY <1>1, <1>2, PTL DEF Spec

\* As long as the disk takes every write, rows go only by recycling full files,
\* whatever renames and opens fail and whenever the process ends.
THEOREM FullFilesKept ==
  ASSUME "write" \notin Faults
  PROVE  Spec => []Retained
<1>1. RetainInv => Retained
  BY DEF RetainInv
<1> QED
  BY <1>1, RetainInvariant, PTL

-----------------------------------------------------------------------------
(* What Tail answers                                                       *)

LEMMA NotOlderLess ==
  ASSUME NEW s \in Seq(Row), NEW newer \in Nat, NEW id \in Nat, id <= newer,
         NotOlder(s, newer)
  PROVE  NotOlder(s, id)
<1> SUFFICES ASSUME s # <<>> PROVE s[Len(s)].id >= id
  BY DEF NotOlder, Last
<1>1. s[Len(s)] \in Row
  OBVIOUS
<1>2. s[Len(s)].id \in Nat /\ s[Len(s)].id >= newer
  BY <1>1 DEF NotOlder, Last, Row
<1> QED
  BY <1>2

LEMMA LastRowsEnd ==
  ASSUME NEW n \in Nat, NEW s \in Seq(Row), NEW id \in Nat, NotOlder(s, id)
  PROVE  /\ NotOlder(LastRows(n, s), id)
         /\ n > 0 /\ LastRows(n, s) = <<>> => s = <<>>
<1>1. CASE Len(s) <= n
  BY <1>1 DEF LastRows
<1>2. CASE Len(s) > n
  <2> DEFINE got == SubSeq(s, Len(s) - n + 1, Len(s))
  <2>1. got \in Seq(Row) /\ Len(got) = n
    BY <1>2
  <2>2. n > 0 => got[n] = s[Len(s)]
    BY <1>2
  <2>3. LastRows(n, s) = got /\ s # <<>>
    BY <1>2 DEF LastRows
  <2> HIDE DEF got
  <2>4. got # <<>> <=> n > 0
    BY <2>1
  <2> QED
    BY <2>1, <2>2, <2>3, <2>4 DEF NotOlder, Last
<1> QED
  BY <1>1, <1>2

\* What a step may do to the call of Tail: only its own steps, and the process
\* ending, do more than note that a rotation went on.
LEMMA TailSteps ==
  ASSUME TypeOK, [Next]_vars
  PROVE  \/ tail'.pc = "idle"
         \/ \E n \in TailSizes : TailStart(n)
         \/ TailReadCur
         \/ TailReadBak
         \/ /\ tail' \in {tail, Overlapped}
            /\ tail'.pc = tail.pc /\ tail'.path = tail.path /\ tail'.n = tail.n
            /\ tail'.lines = tail.lines /\ tail'.newest = tail.newest
<1>1. CASE End \/ TailReturn
  BY <1>1 DEF End, TailReturn, IdleTail
<1>2. CASE tail' = tail
  BY <1>2
<1>3. CASE tail' = Overlapped
  BY <1>3 DEF Overlapped, TypeOK, TailCall
<1>4. CASE Start \/ UNCHANGED vars
  BY <1>2, <1>4 DEF Start, InitAt, InitDegraded, vars
<1>5. CASE \/ \E m \in Modules, msg \in Messages : Log(m, msg)
           \/ \E m \in Modules, on \in BOOLEAN : SetEnabled(m, on)
  BY <1>2, <1>5 DEF Log, SetEnabled
<1>6. CASE Rotate
  BY <1>3, <1>6 DEF Rotate, RotateRemove, RotateRename, RotateOpen, RotateNotice
<1> QED
  BY <1>1, <1>4, <1>5, <1>6 DEF Next, TailStep

\* The last row of the file is the last row written.
LEMMA NewestLast ==
  ASSUME TypeOK, GapInv, NEW p \in Paths
  PROVE  /\ NotOlder(RowsOf(disk[p].cur), hist[p])
         /\ RowsOf(disk[p].cur) = <<>> => NotOlder(RowsOf(disk[p].bak), hist[p])
<1> DEFINE cur == RowsOf(disk[p].cur)
           bak == RowsOf(disk[p].bak)
<1>1. cur \in Seq(Row) /\ bak \in Seq(Row) /\ hist[p] \in Nat
  BY DiskShape DEF TypeOK
<1>2. Unbroken(hist[p], cur, bak)
  BY DEF GapInv
<1> HIDE DEF cur, bak
<1>3. NotOlder(cur, hist[p])
  <2>1. cur # <<>> => Len(cur) \in 1 .. Len(cur)
    BY <1>1
  <2>2. cur # <<>> => cur[Len(cur)].id = hist[p] - Len(cur) + Len(cur)
    BY <1>2, <2>1 DEF Unbroken
  <2> QED
    BY <1>1, <2>2 DEF NotOlder, Last
<1>4. cur = <<>> => NotOlder(bak, hist[p])
  <2>1. bak # <<>> => Len(bak) \in 1 .. Len(bak)
    BY <1>1
  <2>2. bak # <<>> => bak[Len(bak)].id = hist[p] - Len(cur) - Len(bak) + Len(bak)
    BY <1>2, <2>1 DEF Unbroken
  <2> QED
    BY <1>1, <2>2 DEF NotOlder, Last
<1> QED
  BY <1>3, <1>4 DEF cur, bak

LEMMA FreshStep ==
  ASSUME TypeOK, HolderInv, GapInv, FreshInv, [Next]_vars
  PROVE  FreshInv'
<1>1. CASE tail'.pc = "idle"
  BY <1>1 DEF FreshInv
<1>2. ASSUME NEW n \in TailSizes, TailStart(n) PROVE FreshInv'
  <2>1. /\ tail' = [pc |-> "cur", path |-> curPath, n |-> n, lines |-> <<>>,
                    newest |-> hist[curPath], rotated |-> FALSE]
        /\ hist' = hist /\ curPath \in Paths
    BY <1>2 DEF TailStart, IdleTail, TypeOK
  <2> QED
    BY <2>1 DEF FreshInv, TypeOK
<1>3. CASE TailReadCur
  <2> DEFINE cur == RowsOf(disk[tail.path].cur)
             bak == RowsOf(disk[tail.path].bak)
             got == LastRows(tail.n, cur)
  <2>1. /\ tail.pc = "cur" /\ tail.path \in Paths /\ tail.newest <= hist[tail.path]
        /\ UNCHANGED <<disk, hist>>
    BY <1>3 DEF TailReadCur, HolderInv, FreshInv
  <2>2. /\ cur \in Seq(Row) /\ bak \in Seq(Row) /\ tail.n \in Nat /\ tail.newest \in Nat
        /\ hist[tail.path] \in Nat
    BY <2>1, DiskShape DEF TypeOK, TailCall
  <2>3. /\ tail' = [tail EXCEPT !.lines = got,
                               !.pc = IF Len(got) < tail.n THEN "bak" ELSE "done"]
    BY <1>3 DEF TailReadCur
  <2>4. /\ tail'.lines = got /\ tail'.newest = tail.newest /\ tail'.path = tail.path
        /\ tail'.pc = IF Len(got) < tail.n THEN "bak" ELSE "done"
    <3> HIDE DEF got
    <3> QED
      BY <2>3 DEF TypeOK, TailCall
  <2>5. /\ NotOlder(cur, hist[tail.path])
        /\ cur = <<>> => NotOlder(bak, hist[tail.path])
    BY <2>1, NewestLast
  <2> HIDE DEF cur, bak
  <2>6. \A s \in Seq(Row) : NotOlder(s, hist[tail.path]) => NotOlder(s, tail.newest)
    BY <2>1, <2>2, NotOlderLess
  <2>7. NotOlder(got, tail.newest) /\ (tail.n > 0 /\ got = <<>> => cur = <<>>)
    BY <2>2, <2>5, <2>6, LastRowsEnd
  <2>8. tail'.pc = "bak" /\ tail'.lines = <<>> => NotOlder(bak, tail.newest)
    BY <2>2, <2>4, <2>5, <2>6, <2>7
  <2> QED
    BY <2>1, <2>4, <2>7, <2>8 DEF FreshInv, bak
<1>4. CASE TailReadBak
  <2> DEFINE bak == RowsOf(disk[tail.path].bak)
             prev == LastRows(tail.n - Len(tail.lines), bak)
  <2>1. /\ tail.pc = "bak" /\ tail.path \in Paths /\ tail.newest <= hist[tail.path]
        /\ NotOlder(tail.lines, tail.newest)
        /\ tail.lines = <<>> => NotOlder(bak, tail.newest)
        /\ UNCHANGED <<disk, hist>>
    BY <1>4 DEF TailReadBak, HolderInv, FreshInv
  <2>2. /\ bak \in Seq(Row) /\ tail.lines \in Seq(Row) /\ tail.newest \in Nat
        /\ tail.n - Len(tail.lines) \in Nat
    BY <2>1, DiskShape DEF TypeOK, TailCall, HolderInv
  <2>3. tail' = [tail EXCEPT !.lines = prev \o tail.lines, !.pc = "done"]
    BY <1>4 DEF TailReadBak
  <2> HIDE DEF bak
  <2>4. prev \in Seq(Row) /\ (tail.lines = <<>> => NotOlder(prev, tail.newest))
    BY <2>1, <2>2, LastRowsType, LastRowsEnd
  <2> HIDE DEF prev
  <2>5. NotOlder(prev \o tail.lines, tail.newest)
    <3>1. CASE tail.lines = <<>>
      <4>1. prev \o tail.lines = prev
        BY <2>4, <3>1
      <4> QED
        BY <2>4, <3>1, <4>1
    <3>2. CASE tail.lines # <<>>
      <4>1. /\ Len(prev \o tail.lines) = Len(prev) + Len(tail.lines) /\ Len(tail.lines) > 0
            /\ (prev \o tail.lines)[Len(prev) + Len(tail.lines)] = tail.lines[Len(tail.lines)]
        BY <2>2, <2>4, <3>2
      <4> QED
        BY <2>1, <3>2, <4>1 DEF NotOlder, Last
    <3> QED
      BY <3>1, <3>2
  <2>6. /\ tail'.lines = prev \o tail.lines /\ tail'.newest = tail.newest
        /\ tail'.path = tail.path /\ tail'.pc = "done"
    BY <2>3 DEF TypeOK, TailCall
  <2> QED
    BY <2>1, <2>5, <2>6 DEF FreshInv
<1>5. ASSUME tail.pc # "idle",
             tail'.pc = tail.pc, tail'.path = tail.path,
             tail'.lines = tail.lines, tail'.newest = tail.newest
      PROVE  FreshInv'
  <2> DEFINE p == tail.path
             cur == RowsOf(disk[p].cur)
             bak == RowsOf(disk[p].bak)
  <2>1. /\ p \in Paths /\ tail.newest \in Nat /\ hist[p] \in Nat /\ tail.newest <= hist[p]
        /\ tail.pc # "cur" => NotOlder(tail.lines, tail.newest)
        /\ tail.pc = "bak" /\ tail.lines = <<>> => NotOlder(bak, tail.newest)
    BY <1>5 DEF FreshInv, HolderInv, TypeOK, TailCall
  <2>2. NotOlder(<<>>, tail.newest)
    BY DEF NotOlder
  <2>3. NotOlder(cur, tail.newest)
    <3>1. NotOlder(cur, hist[p]) /\ cur \in Seq(Row)
      BY <2>1, NewestLast, DiskShape
    <3> HIDE DEF cur
    <3> QED
      BY <2>1, <3>1, NotOlderLess
  <2>4. /\ tail.newest <= hist'[p]
        /\ \/ RowsOf(disk'[p].bak) = bak
           \/ RowsOf(disk'[p].bak) = <<>>
           \/ RowsOf(disk'[p].bak) = cur
    <3>1. Kept(p) \/ Grown(p) \/ Dropped(p) \/ Moved(p)
      BY <2>1, FilesStep
    <3>2. CASE Grown(p)
      <4>1. PICK k \in Nat \ {0} : hist'[p] = hist[p] + k
        BY <3>2 DEF Grown, Wrote
      <4> QED
        BY <2>1, <3>2, <4>1 DEF Grown, Wrote
    <3> QED
      BY <2>1, <3>1, <3>2 DEF Kept, Dropped, Moved, RowsOf
  <2> HIDE DEF cur, bak
  <2> QED
    BY <1>5, <2>1, <2>2, <2>3, <2>4 DEF FreshInv
<1> QED
  BY <1>1, <1>2, <1>3, <1>4, <1>5, TailSteps

\* However many recycles overtake a Tail, and whatever fails, its answer ends with a
\* row at least as new as the newest row there was when Tail was called.
THEOREM TailStaysFresh == Spec => []TailNeverStale
<1>1. Init => GapInv /\ FreshInv
  BY DEF Init, GapInv, Unbroken, RowsOf, FreshInv, IdleTail
<1>2. GapInv /\ FreshInv /\ TypeOK /\ HolderInv /\ [Next]_vars => GapInv' /\ FreshInv'
  BY GapStep, FreshStep
<1>3. FreshInv => TailNeverStale
  BY DEF FreshInv, TailNeverStale, NotOlder
<1> QED
  BY <1>1, <1>2, <1>3, ShapeInit, ShapeStep, PTL DEF Spec

\* The rows of a path, as those of its two files.
OnDiskShape(p) ==
  LET cur == RowsOf(disk[p].cur)
      bak == RowsOf(disk[p].bak)
  IN  /\ OnDisk(p) \in Seq(Row)
      /\ Len(OnDisk(p)) = Len(bak) + Len(cur)
      /\ \A i \in 1 .. Len(bak) : OnDisk(p)[i] = bak[i]
      /\ \A i \in 1 .. Len(cur) : OnDisk(p)[Len(bak) + i] = cur[i]

OnDiskShapes == \A p \in Paths : OnDiskShape(p)

LEMMA OnDiskRows == TypeOK => OnDiskShapes
<1> SUFFICES ASSUME TypeOK, NEW p \in Paths PROVE OnDiskShape(p)
  BY DEF OnDiskShapes
<1> DEFINE cur == RowsOf(disk[p].cur)
           bak == RowsOf(disk[p].bak)
<1>1. cur \in Seq(Row) /\ bak \in Seq(Row)
  BY DiskShape
<1>2. OnDisk(p) = bak \o cur
  BY DEF OnDisk
<1> HIDE DEF cur, bak
<1>3. /\ bak \o cur \in Seq(Row) /\ Len(bak \o cur) = Len(bak) + Len(cur)
      /\ \A i \in 1 .. Len(bak) + Len(cur) :
           (bak \o cur)[i] = IF i <= Len(bak) THEN bak[i] ELSE cur[i - Len(bak)]
  BY <1>1, ConcatProperties
<1>4. Len(bak) \in Nat /\ Len(cur) \in Nat
  BY <1>1
<1>5. \A i \in 1 .. Len(bak) : (bak \o cur)[i] = bak[i]
  BY <1>3, <1>4
<1>6. ASSUME NEW i \in 1 .. Len(cur) PROVE (bak \o cur)[Len(bak) + i] = cur[i]
  <2>1. Len(bak) + i \in 1 .. Len(bak) + Len(cur) /\ ~(Len(bak) + i <= Len(bak))
    BY <1>4
  <2>2. Len(bak) + i - Len(bak) = i
    BY <1>4
  <2> QED
    BY <1>3, <2>1, <2>2
<1> QED
  BY <1>2, <1>3, <1>5, <1>6 DEF OnDiskShape, cur, bak

\* s is where t begins.
Starts(s, t) == Len(s) <= Len(t) /\ \A i \in 1 .. Len(s) : t[i] = s[i]

LEMMA StartsSubSeq ==
  ASSUME NEW s \in Seq(Row), NEW t \in Seq(Row), Starts(s, t), NEW k \in 0 .. Len(s)
  PROVE  SubSeq(t, 1, k) = SubSeq(s, 1, k)
<1>1. /\ Len(s) \in Nat /\ Len(t) \in Nat /\ k \in Int /\ 1 \in Int
      /\ \A i \in 1 .. k : s[i] \in Row /\ t[i] \in Row /\ t[i] = s[i]
  BY DEF Starts
<1>2. /\ SubSeq(s, 1, k) \in Seq(Row) /\ SubSeq(t, 1, k) \in Seq(Row)
      /\ Len(SubSeq(s, 1, k)) = k /\ Len(SubSeq(t, 1, k)) = k
      /\ \A i \in 1 .. k : SubSeq(s, 1, k)[i] = s[i] /\ SubSeq(t, 1, k)[i] = t[i]
  BY <1>1
<1> QED
  BY <1>1, <1>2, SeqEqual

\* Rows written to a path are put behind all it has.
LEMMA WroteRows ==
  ASSUME TypeOK, TypeOK', NEW p \in Paths, Grown(p),
         NEW k \in Nat \ {0}, NEW size \in Nat, NEW kind \in {"log", "toggle", "notice"},
         NEW mod \in Modules, NEW on \in BOOLEAN, Wrote(p, k, size, kind, mod, on)
  PROVE  /\ RowsOf(disk'[p].bak) = RowsOf(disk[p].bak)
         /\ Starts(RowsOf(disk[p].cur), RowsOf(disk'[p].cur))
         /\ RowsOf(disk'[p].cur) # <<>>
         /\ Starts(OnDisk(p), OnDisk(p)')
         /\ Len(OnDisk(p)) < Len(OnDisk(p)')
         /\ \A i \in Len(OnDisk(p)) + 1 .. Len(OnDisk(p)') :
              /\ OnDisk(p)'[i].boot = boots /\ OnDisk(p)'[i].mod = mod
              /\ OnDisk(p)'[i].kind = kind /\ OnDisk(p)'[i].on = on
<1> DEFINE cur == RowsOf(disk[p].cur)
           bak == RowsOf(disk[p].bak)
           more == RowsOf(disk'[p].cur)
<1>1. disk'[p].cur = Appended(disk[p].cur, p, k, size, kind, mod, on)
  BY DEF Wrote
<1>2. disk[p].cur \in File /\ disk'[p].bak = disk[p].bak /\ cur = disk[p].cur.rows /\ k \in Nat
  BY NoFileAssumption DEF Grown, Wrote, RowsOf
<1> DEFINE f == disk[p].cur
           new == Appended(f, p, k, size, kind, mod, on)
<1>3. new # NoFile
  <2>1. f \in File /\ k \in Nat
    BY <1>2
  <2> HIDE DEF f
  <2> QED
    BY <2>1, AppendedIsFile, NoFileAssumption
<1>4. /\ Len(more) = Len(cur) + k
      /\ \A i \in 1 .. Len(cur) : more[i] = cur[i]
      /\ \A i \in Len(cur) + 1 .. Len(cur) + k :
           more[i] = [id |-> hist[p] + (i - Len(cur)), boot |-> boots,
                      kind |-> kind, mod |-> mod, on |-> on]
  <2>1. more = new.rows
    BY <1>1, <1>3 DEF RowsOf
  <2>2. /\ Len(new.rows) = Len(f.rows) + k
        /\ \A i \in 1 .. Len(f.rows) : new.rows[i] = f.rows[i]
        /\ \A i \in Len(f.rows) + 1 .. Len(f.rows) + k :
             new.rows[i] = [id |-> hist[p] + (i - Len(f.rows)), boot |-> boots,
                            kind |-> kind, mod |-> mod, on |-> on]
    <3>1. f \in File /\ k \in Nat
      BY <1>2
    <3> HIDE DEF f
    <3> QED
      BY <3>1, AppendedIds
  <2> HIDE DEF new, more
  <2> QED
    BY <1>2, <2>1, <2>2
<1>5. Len(cur) \in Nat /\ Len(bak) \in Nat
  BY DiskShape
<1>6. /\ Len(OnDisk(p)) = Len(bak) + Len(cur)
      /\ \A i \in 1 .. Len(bak) : OnDisk(p)[i] = bak[i]
      /\ \A i \in 1 .. Len(cur) : OnDisk(p)[Len(bak) + i] = cur[i]
  BY OnDiskRows DEF OnDiskShapes, OnDiskShape
<1>7. /\ Len(OnDisk(p)') = Len(bak) + Len(more)
      /\ \A i \in 1 .. Len(bak) : OnDisk(p)'[i] = bak[i]
      /\ \A i \in 1 .. Len(more) : OnDisk(p)'[Len(bak) + i] = more[i]
  <2>1. (TypeOK => OnDiskShapes)'
    BY OnDiskRows, PTL
  <2> QED
    BY <1>2, <2>1 DEF OnDiskShapes, OnDiskShape
<1> HIDE DEF cur, bak, more
<1>8. Starts(cur, more)
  BY <1>4, <1>5 DEF Starts
<1>9. ASSUME NEW i \in 1 .. Len(bak) + Len(more)
      PROVE  \/ i \in 1 .. Len(bak)
             \/ i - Len(bak) \in 1 .. Len(cur) /\ Len(bak) + (i - Len(bak)) = i
             \/ i - Len(bak) \in Len(cur) + 1 .. Len(cur) + k /\ Len(bak) + (i - Len(bak)) = i
  BY <1>4, <1>5
<1>10. Starts(OnDisk(p), OnDisk(p)')
  <2>1. Len(OnDisk(p)) <= Len(OnDisk(p)')
    BY <1>4, <1>5, <1>6, <1>7
  <2>2. ASSUME NEW i \in 1 .. Len(OnDisk(p)) PROVE OnDisk(p)'[i] = OnDisk(p)[i]
    <3>1. CASE i \in 1 .. Len(bak)
      BY <1>6, <1>7, <3>1
    <3>2. CASE i \notin 1 .. Len(bak)
      <4>1. i - Len(bak) \in 1 .. Len(cur) /\ i - Len(bak) \in 1 .. Len(more)
            /\ Len(bak) + (i - Len(bak)) = i
        BY <1>4, <1>5, <1>6, <3>2
      <4>2. OnDisk(p)[i] = cur[i - Len(bak)]
        BY <1>6, <4>1
      <4>3. OnDisk(p)'[i] = more[i - Len(bak)]
        BY <1>7, <4>1
      <4> QED
        BY <1>4, <4>1, <4>2, <4>3
    <3> QED
      BY <3>1, <3>2
  <2> QED
    BY <2>1, <2>2 DEF Starts
<1>11. ASSUME NEW i \in Len(OnDisk(p)) + 1 .. Len(OnDisk(p)')
       PROVE  /\ OnDisk(p)'[i].boot = boots /\ OnDisk(p)'[i].mod = mod
              /\ OnDisk(p)'[i].kind = kind /\ OnDisk(p)'[i].on = on
  <2>1. /\ i - Len(bak) \in Len(cur) + 1 .. Len(cur) + k /\ i - Len(bak) \in 1 .. Len(more)
        /\ Len(bak) + (i - Len(bak)) = i
    BY <1>2, <1>4, <1>5, <1>6, <1>7
  <2>2. OnDisk(p)'[i] = more[i - Len(bak)]
    BY <1>7, <2>1
  <2>3. OnDisk(p)'[i] = [id |-> hist[p] + ((i - Len(bak)) - Len(cur)), boot |-> boots,
                        kind |-> kind, mod |-> mod, on |-> on]
    BY <1>4, <2>1, <2>2
  <2> QED
    BY <2>3
<1>12. more # <<>>
  BY <1>2, <1>4, <1>5
<1>13. RowsOf(disk'[p].bak) = bak
  BY <1>2 DEF bak
<1>14. Len(OnDisk(p)) < Len(OnDisk(p)')
  <2>1. Len(OnDisk(p)') = Len(bak) + (Len(cur) + k)
    BY <1>4, <1>7
  <2>2. Len(OnDisk(p)) = Len(bak) + Len(cur)
    BY <1>6
  <2>3. k \in Nat /\ k > 0
    BY <1>2
  <2> QED
    BY <1>5, <2>1, <2>2, <2>3
<1> QED
  BY <1>8, <1>10, <1>11, <1>12, <1>13, <1>14 DEF cur, bak, more

LEMMA GrownRows ==
  ASSUME TypeOK, TypeOK', NEW p \in Paths, Grown(p)
  PROVE  /\ RowsOf(disk'[p].bak) = RowsOf(disk[p].bak)
         /\ Starts(RowsOf(disk[p].cur), RowsOf(disk'[p].cur))
         /\ RowsOf(disk'[p].cur) # <<>>
         /\ Starts(OnDisk(p), OnDisk(p)')
<1>1. PICK k \in Nat \ {0}, size \in Nat, kind \in {"log", "toggle", "notice"},
           mod \in Modules, on \in BOOLEAN : Wrote(p, k, size, kind, mod, on)
  BY DEF Grown
<1> QED
  BY <1>1, WroteRows

LEMMA LastRowsAt ==
  ASSUME NEW n \in Nat, NEW s \in Seq(Row)
  PROVE  LET got == LastRows(n, s)
         IN  /\ got \in Seq(Row)
             /\ Len(got) = IF Len(s) > n THEN n ELSE Len(s)
             /\ \A i \in 1 .. Len(got) : got[i] = s[Len(s) - Len(got) + i]
<1>1. CASE Len(s) <= n
  <2>1. LastRows(n, s) = s /\ ~(Len(s) > n)
    BY <1>1 DEF LastRows
  <2>2. \A i \in 1 .. Len(s) : s[i] = s[Len(s) - Len(s) + i]
    OBVIOUS
  <2> QED
    BY <2>1, <2>2
<1>2. CASE Len(s) > n
  <2> DEFINE got == SubSeq(s, Len(s) - n + 1, Len(s))
  <2>1. LastRows(n, s) = got
    BY <1>2 DEF LastRows
  <2>2. /\ Len(s) - n + 1 \in Int /\ Len(s) \in Int
        /\ \A i \in Len(s) - n + 1 .. Len(s) : s[i] \in Row
    BY <1>2
  <2>3. /\ got \in Seq(Row)
        /\ Len(got) = IF Len(s) - n + 1 <= Len(s) THEN Len(s) - (Len(s) - n + 1) + 1 ELSE 0
        /\ \A i \in 1 .. Len(s) - (Len(s) - n + 1) + 1 : got[i] = s[(Len(s) - n + 1) + i - 1]
    BY <2>2, SubSeqProperties
  <2> HIDE DEF got
  <2>4. Len(got) = n
    BY <1>2, <2>3
  <2>5. ASSUME NEW i \in 1 .. n PROVE got[i] = s[Len(s) - n + i]
    <3>1. (Len(s) - n + 1) + i - 1 = Len(s) - n + i
          /\ i \in 1 .. Len(s) - (Len(s) - n + 1) + 1
      OBVIOUS
    <3> QED
      BY <2>3, <3>1
  <2> QED
    BY <1>2, <2>1, <2>3, <2>4, <2>5
<1> QED
  BY <1>1, <1>2

\* The last n rows of two files: those of the second, or all of it behind the last
\* ones of the first.
LEMMA LastRowsSplit ==
  ASSUME NEW n \in Nat, NEW s \in Seq(Row), NEW t \in Seq(Row)
  PROVE  /\ Len(t) >= n => LastRows(n, s \o t) = LastRows(n, t)
         /\ Len(t) <= n => LastRows(n, s \o t) = LastRows(n - Len(t), s) \o t
<1> DEFINE st == s \o t
           whole == LastRows(n, st)
           right == LastRows(n, t)
           left == LastRows(n - Len(t), s)
<1>1. /\ st \in Seq(Row) /\ Len(st) = Len(s) + Len(t)
      /\ \A i \in 1 .. Len(s) + Len(t) : st[i] = IF i <= Len(s) THEN s[i] ELSE t[i - Len(s)]
  BY ConcatProperties
<1> HIDE DEF st
<1>2. /\ whole \in Seq(Row) /\ Len(whole) = IF Len(st) > n THEN n ELSE Len(st)
      /\ \A i \in 1 .. Len(whole) : whole[i] = st[Len(st) - Len(whole) + i]
  BY <1>1, LastRowsAt
<1>3. /\ right \in Seq(Row) /\ Len(right) = IF Len(t) > n THEN n ELSE Len(t)
      /\ \A i \in 1 .. Len(right) : right[i] = t[Len(t) - Len(right) + i]
  BY LastRowsAt
<1> HIDE DEF whole, right, left
<1>4. Len(s) \in Nat /\ Len(t) \in Nat
  OBVIOUS
<1>5. ASSUME Len(t) >= n PROVE whole = right
  <2>1. Len(whole) = n /\ Len(right) = n
    BY <1>1, <1>2, <1>3, <1>4, <1>5
  <2>2. ASSUME NEW i \in 1 .. n PROVE whole[i] = right[i]
    <3>1. /\ Len(st) - n + i \in 1 .. Len(s) + Len(t)
          /\ ~(Len(st) - n + i <= Len(s))
          /\ Len(st) - n + i - Len(s) = Len(t) - n + i
      BY <1>1, <1>4, <1>5
    <3>2. whole[i] = st[Len(st) - n + i] /\ right[i] = t[Len(t) - n + i]
      BY <1>2, <1>3, <2>1
    <3> QED
      BY <1>1, <3>1, <3>2
  <2> QED
    BY <1>2, <1>3, <2>1, <2>2, SeqEqual
<1>6. ASSUME Len(t) <= n PROVE whole = left \o t
  <2>1. n - Len(t) \in Nat
    BY <1>4, <1>6
  <2>2. /\ left \in Seq(Row) /\ Len(left) = IF Len(s) > n - Len(t) THEN n - Len(t) ELSE Len(s)
        /\ \A i \in 1 .. Len(left) : left[i] = s[Len(s) - Len(left) + i]
    BY <2>1, LastRowsAt DEF left
  <2>3. /\ left \o t \in Seq(Row) /\ Len(left \o t) = Len(left) + Len(t)
        /\ \A i \in 1 .. Len(left) + Len(t) :
             (left \o t)[i] = IF i <= Len(left) THEN left[i] ELSE t[i - Len(left)]
    BY <2>2, ConcatProperties
  <2>4. Len(whole) = Len(left) + Len(t) /\ Len(left) \in Nat /\ Len(left) <= Len(s)
    BY <1>1, <1>2, <1>4, <1>6, <2>2
  <2>5. ASSUME NEW i \in 1 .. Len(whole) PROVE whole[i] = (left \o t)[i]
    <3>1. /\ Len(st) - Len(whole) = Len(s) - Len(left)
          /\ Len(s) - Len(left) + i \in 1 .. Len(s) + Len(t)
      BY <1>1, <1>4, <2>4
    <3>2. whole[i] = st[Len(s) - Len(left) + i]
      BY <1>2, <3>1
    <3>3. CASE i <= Len(left)
      <4>1. i \in 1 .. Len(left) /\ Len(s) - Len(left) + i <= Len(s)
        BY <1>4, <2>4, <3>3
      <4> QED
        BY <1>1, <2>2, <2>3, <2>4, <3>1, <3>2, <3>3, <4>1
    <3>4. CASE i > Len(left)
      <4>1. /\ ~(i <= Len(left)) /\ ~(Len(s) - Len(left) + i <= Len(s))
            /\ Len(s) - Len(left) + i - Len(s) = i - Len(left)
        BY <1>4, <2>4, <3>4
      <4>2. st[Len(s) - Len(left) + i] = t[i - Len(left)]
        BY <1>1, <3>1, <4>1
      <4> QED
        BY <2>3, <2>4, <3>2, <4>1, <4>2
    <3> QED
      BY <2>4, <3>3, <3>4
  <2> QED
    BY <1>2, <2>3, <2>4, <2>5, SeqEqual
<1> QED
  BY <1>5, <1>6 DEF st, whole, right, left

\* A file without rows has no bytes.
Weightless ==
  \A p \in Paths :
    /\ RowsOf(disk[p].cur) = <<>> => SizeOf(disk[p].cur) = 0
    /\ RowsOf(disk[p].bak) = <<>> => SizeOf(disk[p].bak) = 0

LEMMA WeightlessStep ==
  ASSUME TypeOK, TypeOK', HolderInv, Weightless, [Next]_vars
  PROVE  Weightless'
<1> SUFFICES ASSUME NEW p \in Paths
             PROVE  /\ RowsOf(disk'[p].cur) = <<>> => SizeOf(disk'[p].cur) = 0
                    /\ RowsOf(disk'[p].bak) = <<>> => SizeOf(disk'[p].bak) = 0
  BY DEF Weightless
<1>1. /\ RowsOf(disk[p].cur) = <<>> => SizeOf(disk[p].cur) = 0
      /\ RowsOf(disk[p].bak) = <<>> => SizeOf(disk[p].bak) = 0
  BY DEF Weightless
<1>2. CASE Grown(p)
  <2>1. RowsOf(disk'[p].cur) # <<>>
    BY <1>2, GrownRows
  <2> QED
    BY <1>1, <1>2, <2>1 DEF Grown, Wrote
<1>3. CASE Kept(p) \/ Dropped(p) \/ Moved(p)
  BY <1>1, <1>3 DEF Kept, Dropped, Moved, RowsOf, SizeOf
<1> QED
  BY <1>2, <1>3, FilesStep

\* All the rows on disk together reach the newest row there ever was.
LEMMA AllReach ==
  ASSUME TypeOK, GapInv, RetainInv, Weightless, NEW p \in Paths, NEW newest \in Nat,
         newest <= hist[p]
  PROVE  Reaches(OnDisk(p), Len(OnDisk(p)), newest)
<1> DEFINE cur == RowsOf(disk[p].cur)
           bak == RowsOf(disk[p].bak)
           rows == OnDisk(p)
<1>1. /\ cur \in Seq(Row) /\ bak \in Seq(Row) /\ hist[p] \in Nat
      /\ rows \in Seq(Row) /\ Len(rows) = Len(bak) + Len(cur)
  BY DiskShape, OnDiskRows DEF TypeOK, OnDiskShapes, OnDiskShape
<1>2. \A i \in 1 .. Len(rows) : rows[i].id = hist[p] - Len(rows) + i
  BY GapNoGap DEF NoGap
<1>3. /\ cur = <<>> => SizeOf(disk[p].cur) = 0
      /\ bak = <<>> => SizeOf(disk[p].bak) = 0
  BY DEF Weightless
<1>4. \/ Len(rows) = hist[p]
      \/ Len(rows) >= MaxLines
      \/ SizeOf(disk[p].bak) + SizeOf(disk[p].cur) >= MaxBytes
  BY DEF RetainInv, Retained
<1>5. MaxLines > 1 /\ MaxLines \in Nat /\ MaxBytes > 0 /\ MaxBytes \in Nat
  BY LimitsAssumption
<1> HIDE DEF cur, bak, rows
<1>6. CASE Len(rows) = 0
  <2>1. cur = <<>> /\ bak = <<>>
    <3>1. Len(bak) \in Nat /\ Len(cur) \in Nat
      BY <1>1
    <3>2. Len(bak) + Len(cur) = 0
      BY <1>1, <1>6
    <3>3. \A i, j \in Nat : i + j = 0 => i = 0 /\ j = 0
      OBVIOUS
    <3>4. Len(bak) = 0 /\ Len(cur) = 0
      BY <3>1, <3>2, <3>3
    <3> QED
      BY <1>1, <3>4
  <2>2. hist[p] = 0
    BY <1>3, <1>4, <1>5, <1>6, <2>1
  <2> QED
    BY <1>6, <2>2 DEF Reaches, rows
<1>7. CASE Len(rows) # 0
  <2>1. Len(rows) \in 1 .. Len(rows) /\ Len(rows) \in Nat
    BY <1>1, <1>7
  <2>2. rows[Len(rows)].id = hist[p] - Len(rows) + Len(rows)
    BY <1>2, <2>1
  <2>3. rows[Len(rows)].id >= newest
    BY <1>1, <2>1, <2>2
  <2> QED
    BY <1>7, <2>3 DEF Reaches, rows
<1> QED
  BY <1>6, <1>7

\* What has been read when the call goes on to the backup.
ReadSoFar(p, lines, newest) ==
  \E k \in 0 .. Len(RowsOf(disk[p].cur)) :
    /\ lines = SubSeq(RowsOf(disk[p].cur), 1, k)
    /\ Reaches(OnDisk(p), Len(RowsOf(disk[p].bak)) + k, newest)

\* What TailExact says of an answer.
ExactAnswer(p, n, lines, newest) ==
  \E k \in 0 .. Len(OnDisk(p)) :
    /\ lines = LastRows(n, SubSeq(OnDisk(p), 1, k))
    /\ Reaches(OnDisk(p), k, newest)

LEMMA ExactMeans ==
  TypeOK =>
    (ExactInv <=>
       /\ Weightless
       /\ tail.pc = "bak" /\ ~tail.rotated => ReadSoFar(tail.path, tail.lines, tail.newest)
       /\ tail.pc = "done" /\ ~tail.rotated =>
            ExactAnswer(tail.path, tail.n, tail.lines, tail.newest))
<1>1. ASSUME NEW p
      PROVE  \A k \in 0 .. Len(OnDisk(p)) :
               Reaches(OnDisk(p), k, tail.newest) <=>
                 /\ k > 0 => OnDisk(p)[k].id >= tail.newest
                 /\ k = 0 => tail.newest = 0
  BY DEF Reaches
<1> QED
  BY <1>1 DEF ExactInv, TailExact, Weightless, ReadSoFar, ExactAnswer

LEMMA ReadCurExact ==
  ASSUME TypeOK, GapInv, RetainInv, Weightless, NEW p \in Paths, NEW n \in Nat,
         NEW newest \in Nat, newest <= hist[p], NEW lines, 
         lines = LastRows(n, RowsOf(disk[p].cur))
  PROVE  /\ Len(lines) < n => ReadSoFar(p, lines, newest)
         /\ ~(Len(lines) < n) => ExactAnswer(p, n, lines, newest)
<1> DEFINE cur == RowsOf(disk[p].cur)
           bak == RowsOf(disk[p].bak)
           rows == OnDisk(p)
<1>1. /\ cur \in Seq(Row) /\ bak \in Seq(Row) /\ rows \in Seq(Row)
      /\ Len(rows) = Len(bak) + Len(cur) /\ rows = bak \o cur
  BY DiskShape, OnDiskRows DEF TypeOK, OnDiskShapes, OnDiskShape, OnDisk
<1>2. Reaches(rows, Len(rows), newest)
  BY AllReach
<1> HIDE DEF cur, bak, rows
<1>3. Len(lines) = IF Len(cur) > n THEN n ELSE Len(cur)
  BY <1>1, LastRowsAt DEF cur
<1>4. ASSUME Len(lines) < n PROVE ReadSoFar(p, lines, newest)
  <2>1. ~(Len(cur) > n)
    BY <1>1, <1>3, <1>4
  <2>2. lines = cur
    BY <2>1 DEF LastRows, cur
  <2>3. cur = SubSeq(cur, 1, Len(cur))
    BY <1>1, SubSeqFull
  <2>4. Len(cur) \in 0 .. Len(cur)
    BY <1>1
  <2> QED
    BY <1>1, <1>2, <2>2, <2>3, <2>4 DEF ReadSoFar, cur, bak, rows
<1>5. ASSUME ~(Len(lines) < n) PROVE ExactAnswer(p, n, lines, newest)
  <2>1. Len(cur) >= n
    BY <1>1, <1>3, <1>5
  <2>2. LastRows(n, rows) = LastRows(n, cur)
    BY <1>1, <2>1, LastRowsSplit
  <2>3. rows = SubSeq(rows, 1, Len(rows)) /\ Len(rows) \in 0 .. Len(rows)
    BY <1>1, SubSeqFull
  <2>4. lines = LastRows(n, SubSeq(rows, 1, Len(rows)))
    BY <2>2, <2>3 DEF cur
  <2> QED
    BY <1>2, <2>3, <2>4 DEF ExactAnswer, rows
<1> QED
  BY <1>4, <1>5

LEMMA ReadBakExact ==
  ASSUME TypeOK, NEW p \in Paths, NEW n \in Nat, NEW newest \in Nat, NEW lines \in Seq(Row),
         Len(lines) < n, ReadSoFar(p, lines, newest)
  PROVE  ExactAnswer(p, n, LastRows(n - Len(lines), RowsOf(disk[p].bak)) \o lines, newest)
<1> DEFINE cur == RowsOf(disk[p].cur)
           bak == RowsOf(disk[p].bak)
           rows == OnDisk(p)
<1>1. /\ cur \in Seq(Row) /\ bak \in Seq(Row) /\ rows \in Seq(Row)
      /\ Len(rows) = Len(bak) + Len(cur)
      /\ \A i \in 1 .. Len(bak) : rows[i] = bak[i]
      /\ \A i \in 1 .. Len(cur) : rows[Len(bak) + i] = cur[i]
  BY DiskShape, OnDiskRows DEF TypeOK, OnDiskShapes, OnDiskShape
<1>2. PICK k \in 0 .. Len(cur) : /\ lines = SubSeq(cur, 1, k)
                                /\ Reaches(rows, Len(bak) + k, newest)
  BY DEF ReadSoFar
<1> HIDE DEF cur, bak, rows
<1>3. /\ Len(lines) = k /\ \A i \in 1 .. k : lines[i] = cur[i]
      /\ Len(bak) \in Nat /\ Len(cur) \in Nat /\ k \in Nat
  BY <1>1, <1>2
<1> DEFINE m == Len(bak) + k
<1>4. /\ m \in 0 .. Len(rows) /\ m \in Nat /\ 1 \in Int /\ m \in Int /\ m - 1 + 1 = m
      /\ \A i \in 1 .. m : rows[i] \in Row
  BY <1>1, <1>3
<1>5. SubSeq(rows, 1, m) = bak \o lines
  <2> HIDE DEF m
  <2>1. /\ SubSeq(rows, 1, m) \in Seq(Row)
        /\ Len(SubSeq(rows, 1, m)) = m
        /\ \A i \in 1 .. m : SubSeq(rows, 1, m)[i] = rows[i]
    BY <1>1, <1>4
  <2>2. /\ bak \o lines \in Seq(Row) /\ Len(bak \o lines) = m
        /\ \A i \in 1 .. m :
             (bak \o lines)[i] = IF i <= Len(bak) THEN bak[i] ELSE lines[i - Len(bak)]
    BY <1>1, <1>3, ConcatProperties DEF m
  <2>3. ASSUME NEW i \in 1 .. m PROVE SubSeq(rows, 1, m)[i] = (bak \o lines)[i]
    <3>1. CASE i <= Len(bak)
      BY <1>1, <1>3, <1>4, <2>1, <2>2, <3>1
    <3>2. CASE i > Len(bak)
      <4>1. i - Len(bak) \in 1 .. k /\ i - Len(bak) \in 1 .. Len(cur)
            /\ Len(bak) + (i - Len(bak)) = i /\ ~(i <= Len(bak))
        BY <1>3, <1>4, <3>2 DEF m
      <4>2. rows[i] = cur[i - Len(bak)]
        BY <1>1, <4>1
      <4>3. lines[i - Len(bak)] = cur[i - Len(bak)]
        BY <1>3, <4>1
      <4> QED
        BY <2>1, <2>2, <4>1, <4>2, <4>3
    <3>3. i <= Len(bak) \/ i > Len(bak)
      <4>1. i \in Nat /\ Len(bak) \in Nat
        BY <1>3, <1>4
      <4> QED
        BY <4>1
    <3> QED
      BY <3>1, <3>2, <3>3
  <2> QED
    BY <2>1, <2>2, <2>3, SeqEqual
<1>6. LastRows(n, bak \o lines) = LastRows(n - Len(lines), bak) \o lines
  <2>1. bak \in Seq(Row) /\ Len(lines) <= n
    BY <1>1, <1>3
  <2> HIDE DEF m
  <2> QED
    BY <2>1, LastRowsSplit
<1>7. LastRows(n - Len(lines), bak) \o lines = LastRows(n, SubSeq(rows, 1, m))
  BY <1>5, <1>6
<1>8. Reaches(rows, m, newest)
  BY <1>2
<1> HIDE DEF m
<1> QED
  BY <1>4, <1>7, <1>8 DEF ExactAnswer, rows, bak

\* What was read, and an answer, stay right while rows are only added.
LEMMA ExactKept ==
  ASSUME TypeOK, TypeOK', NEW p \in Paths, NEW n \in Nat, NEW newest \in Nat, NEW lines,
         Kept(p) \/ Grown(p)
  PROVE  /\ ReadSoFar(p, lines, newest) => ReadSoFar(p, lines, newest)'
         /\ ExactAnswer(p, n, lines, newest) => ExactAnswer(p, n, lines, newest)'
<1> DEFINE cur == RowsOf(disk[p].cur)
           bak == RowsOf(disk[p].bak)
           rows == OnDisk(p)
           curN == RowsOf(disk'[p].cur)
           rowsN == OnDisk(p)'
<1>1. CASE Kept(p)
  BY <1>1 DEF Kept, ReadSoFar, ExactAnswer, OnDisk
<1>2. CASE Grown(p)
  <2>1. /\ RowsOf(disk'[p].bak) = bak /\ Starts(cur, curN) /\ Starts(rows, rowsN)
    BY <1>2, GrownRows
  <2>2. /\ cur \in Seq(Row) /\ bak \in Seq(Row) /\ rows \in Seq(Row)
        /\ Len(rows) = Len(bak) + Len(cur)
    BY DiskShape, OnDiskRows DEF TypeOK, OnDiskShapes, OnDiskShape
  <2>3. (TypeOK => OnDiskShapes)'
    BY OnDiskRows, PTL
  <2>4. rowsN \in Seq(Row)
    BY <2>3 DEF OnDiskShapes, OnDiskShape
  <2>5. curN \in Seq(Row)
    <3>1. disk'[p].cur \in File \cup {NoFile}
      BY DEF TypeOK, PathFiles
    <3> QED
      BY <3>1 DEF RowsOf, File
  <2> HIDE DEF cur, bak, rows, curN, rowsN
  <2>6. ASSUME NEW k \in 0 .. Len(rows), Reaches(rows, k, newest) PROVE Reaches(rowsN, k, newest)
    <3>1. k # 0 => rowsN[k] = rows[k]
      BY <2>1, <2>2 DEF Starts
    <3> QED
      BY <2>6, <3>1 DEF Reaches
  <2>7. ASSUME ReadSoFar(p, lines, newest) PROVE ReadSoFar(p, lines, newest)'
    <3>1. PICK k \in 0 .. Len(cur) : /\ lines = SubSeq(cur, 1, k)
                                    /\ Reaches(rows, Len(bak) + k, newest)
      BY <2>7 DEF ReadSoFar, cur, bak, rows
    <3>2. lines = SubSeq(curN, 1, k)
      BY <2>1, <2>2, <2>5, <3>1, StartsSubSeq
    <3>3. k \in 0 .. Len(curN)
      BY <2>1, <2>2, <2>5 DEF Starts
    <3>4. Len(bak) + k \in 0 .. Len(rows)
      BY <2>2
    <3>5. Reaches(rowsN, Len(bak) + k, newest)
      BY <2>6, <3>1, <3>4
    <3> QED
      BY <2>1, <3>2, <3>3, <3>5 DEF ReadSoFar, curN, rowsN
  <2>8. ASSUME ExactAnswer(p, n, lines, newest) PROVE ExactAnswer(p, n, lines, newest)'
    <3>1. PICK k \in 0 .. Len(rows) : /\ lines = LastRows(n, SubSeq(rows, 1, k))
                                     /\ Reaches(rows, k, newest)
      BY <2>8 DEF ExactAnswer, rows
    <3>2. SubSeq(rowsN, 1, k) = SubSeq(rows, 1, k)
      BY <2>1, <2>2, <2>4, StartsSubSeq
    <3>3. k \in 0 .. Len(rowsN)
      BY <2>1, <2>2, <2>4 DEF Starts
    <3>4. lines = LastRows(n, SubSeq(rowsN, 1, k))
      BY <3>1, <3>2
    <3>5. Reaches(rowsN, k, newest)
      BY <2>6, <3>1
    <3> QED
      BY <3>3, <3>4, <3>5 DEF ExactAnswer, rowsN
  <2> QED
    BY <2>7, <2>8
<1> QED
  BY <1>1, <1>2

\* Every step leaves what Tail has read exact, unless a rotation overtakes it.
LEMMA ExactStep ==
  ASSUME TypeOK, TypeOK', HolderInv, GapInv, RetainInv, FreshInv, ExactInv, [Next]_vars
  PROVE  ExactInv'
<1>1. /\ Weightless
      /\ tail.pc = "bak" /\ ~tail.rotated => ReadSoFar(tail.path, tail.lines, tail.newest)
      /\ tail.pc = "done" /\ ~tail.rotated =>
           ExactAnswer(tail.path, tail.n, tail.lines, tail.newest)
  BY ExactMeans
<1>2. Weightless'
  BY <1>1, WeightlessStep
<1>3. (TypeOK =>
        (ExactInv <=>
           /\ Weightless
           /\ tail.pc = "bak" /\ ~tail.rotated => ReadSoFar(tail.path, tail.lines, tail.newest)
           /\ tail.pc = "done" /\ ~tail.rotated =>
                ExactAnswer(tail.path, tail.n, tail.lines, tail.newest)))'
  BY ExactMeans, PTL
<1>4. CASE tail'.pc \in {"idle", "cur"}
  BY <1>2, <1>3, <1>4
<1>5. CASE \E n \in TailSizes : TailStart(n)
  <2>1. tail'.pc = "cur"
    BY <1>5 DEF TailStart, IdleTail
  <2> QED
    BY <1>4, <2>1
<1>6. CASE TailReadCur
  <2>1. PICK p \in Paths : p = tail.path
    BY <1>6 DEF TailReadCur, HolderInv
  <2> DEFINE got == LastRows(tail.n, RowsOf(disk[p].cur))
  <2>2. /\ tail' = [tail EXCEPT !.lines = got,
                               !.pc = IF Len(got) < tail.n THEN "bak" ELSE "done"]
        /\ disk' = disk /\ tail.newest <= hist[p]
    BY <1>6, <2>1 DEF TailReadCur, FreshInv
  <2>3. tail.n \in Nat /\ tail.newest \in Nat
    BY DEF TypeOK, TailCall
  <2>4. /\ Len(got) < tail.n => ReadSoFar(p, got, tail.newest)
        /\ ~(Len(got) < tail.n) => ExactAnswer(p, tail.n, got, tail.newest)
    BY <1>1, <2>2, <2>3, ReadCurExact
  <2> HIDE DEF got
  <2>5. /\ tail'.lines = got /\ tail'.newest = tail.newest /\ tail'.path = p /\ tail'.n = tail.n
        /\ tail'.pc = IF Len(got) < tail.n THEN "bak" ELSE "done"
    BY <2>1, <2>2 DEF TypeOK, TailCall
  <2>6. /\ ReadSoFar(p, got, tail.newest) => ReadSoFar(tail.path, tail.lines, tail.newest)'
        /\ ExactAnswer(p, tail.n, got, tail.newest) =>
             ExactAnswer(tail.path, tail.n, tail.lines, tail.newest)'
    BY <2>2, <2>5 DEF ReadSoFar, ExactAnswer, OnDisk
  <2> QED
    BY <1>2, <1>3, <2>4, <2>5, <2>6
<1>7. CASE TailReadBak
  <2>1. PICK p \in Paths : p = tail.path
    BY <1>7 DEF TailReadBak, HolderInv
  <2> DEFINE prev == LastRows(tail.n - Len(tail.lines), RowsOf(disk[p].bak))
             got == prev \o tail.lines
  <2>2. /\ tail' = [tail EXCEPT !.lines = got, !.pc = "done"]
        /\ disk' = disk /\ tail.pc = "bak"
    BY <1>7, <2>1 DEF TailReadBak
  <2>3. /\ tail.n \in Nat /\ tail.newest \in Nat /\ tail.lines \in Seq(Row)
        /\ Len(tail.lines) < tail.n
    BY <2>2 DEF TypeOK, TailCall, HolderInv
  <2>4. ASSUME ~tail.rotated PROVE ExactAnswer(p, tail.n, got, tail.newest)
    <3>1. ReadSoFar(p, tail.lines, tail.newest)
      BY <1>1, <2>1, <2>2, <2>4
    <3> QED
      BY <2>3, <3>1, ReadBakExact
  <2> HIDE DEF got
  <2>5. /\ tail'.lines = got /\ tail'.newest = tail.newest /\ tail'.path = p /\ tail'.n = tail.n
        /\ tail'.pc = "done" /\ tail'.rotated = tail.rotated
    BY <2>1, <2>2 DEF TypeOK, TailCall
  <2>6. ExactAnswer(p, tail.n, got, tail.newest) =>
          ExactAnswer(tail.path, tail.n, tail.lines, tail.newest)'
    BY <2>2, <2>5 DEF ExactAnswer, OnDisk
  <2> QED
    BY <1>2, <1>3, <2>4, <2>5, <2>6
<1>8. CASE /\ tail' \in {tail, Overlapped}
           /\ tail'.pc = tail.pc /\ tail'.path = tail.path /\ tail'.n = tail.n
           /\ tail'.lines = tail.lines /\ tail'.newest = tail.newest
  <2>1. CASE tail'.rotated \/ tail.pc = "idle"
    BY <1>2, <1>3, <1>8, <2>1
  <2>2. CASE ~tail'.rotated /\ tail.pc # "idle"
    <3>1. PICK p \in Paths : p = tail.path
      BY <2>2 DEF HolderInv
    <3>2. tail' # Overlapped
      BY <2>2 DEF Overlapped, TypeOK, TailCall
    <3>3. tail' = tail
      BY <1>8, <3>2
    <3>4. Kept(p) \/ Grown(p)
      BY <3>2, FilesStep DEF Dropped, Moved
    <3>5. tail.n \in Nat /\ tail.newest \in Nat /\ tail.lines \in Seq(Row)
      BY DEF TypeOK, TailCall
    <3>6. PICK n \in Nat, newest \in Nat, lines \in Seq(Row) :
            n = tail.n /\ newest = tail.newest /\ lines = tail.lines
      BY <3>5
    <3>7. /\ ReadSoFar(p, lines, newest) => ReadSoFar(p, lines, newest)'
          /\ ExactAnswer(p, n, lines, newest) => ExactAnswer(p, n, lines, newest)'
      BY <3>4, ExactKept
    <3>8. /\ ReadSoFar(p, lines, newest)' => ReadSoFar(tail.path, tail.lines, tail.newest)'
          /\ ExactAnswer(p, n, lines, newest)' =>
               ExactAnswer(tail.path, tail.n, tail.lines, tail.newest)'
      BY <3>1, <3>3, <3>6 DEF ReadSoFar, ExactAnswer
    <3>9. /\ tail.pc = "bak" /\ ~tail.rotated => ReadSoFar(p, lines, newest)
          /\ tail.pc = "done" /\ ~tail.rotated => ExactAnswer(p, n, lines, newest)
      BY <1>1, <3>1, <3>6
    <3> QED
      BY <1>2, <1>3, <3>3, <3>7, <3>8, <3>9
  <2> QED
    BY <2>1, <2>2
<1> QED
  BY <1>4, <1>5, <1>6, <1>7, <1>8, TailSteps

\* As long as the disk takes every write, the answer of a Tail that no rotation
\* overtook is the last n rows of the two files as they stood during the call.
THEOREM TailAnswersExactly ==
  ASSUME "write" \notin Faults
  PROVE  Spec => []TailExact
<1>1. Init => GapInv /\ FreshInv /\ ExactInv
  BY DEF Init, GapInv, Unbroken, RowsOf, SizeOf, FreshInv, IdleTail, ExactInv, TailExact
<1>2. /\ GapInv /\ FreshInv /\ ExactInv /\ RetainInv /\ TypeOK /\ TypeOK' /\ HolderInv
      /\ [Next]_vars
      => GapInv' /\ FreshInv' /\ ExactInv'
  BY GapStep, FreshStep, ExactStep
<1>3. ExactInv => TailExact
  BY DEF ExactInv
<1> QED
  BY <1>1, <1>2, <1>3, ShapeInit, ShapeStep, RetainInvariant, PTL DEF Spec

-----------------------------------------------------------------------------
(* The toggles on disk explain the lines                                   *)

\* Row i of rows is a switch-off that a later one has ended.
Followed(rows, i) == \E k \in i + 1 .. Len(rows) : SwitchesOn(rows[k], rows[i].mod)

\* LogConsistent, of the rows of one path.
Consistent(rows) ==
  \A i, j \in 1 .. Len(rows) :
    /\ i < j
    /\ SwitchesOff(rows[i])
    /\ rows[j].kind = "log"
    /\ rows[i].mod = rows[j].mod
    /\ rows[i].boot = rows[j].boot
    => \E k \in i + 1 .. j - 1 : SwitchesOn(rows[k], rows[i].mod)

\* The rest of SwitchInv, of row i of path p.
RowOK(p, i) ==
  /\ OnDisk(p)[i].boot <= boots
  /\ pc # "down" /\ OnDisk(p)[i].boot = boots => p = curPath
  /\ /\ Writing
     /\ OnDisk(p)[i].boot = boots
     /\ SwitchesOff(OnDisk(p)[i])
     /\ enabled[OnDisk(p)[i].mod] # "off"
     => Followed(OnDisk(p), i)

PathOK(p) == Consistent(OnDisk(p)) /\ \A i \in 1 .. Len(OnDisk(p)) : RowOK(p, i)

AllPathsOK == \A p \in Paths : PathOK(p)

LEMMA SwitchMeans == SwitchInv <=> AllPathsOK
BY DEF SwitchInv, LogConsistent, AllPathsOK, PathOK, RowOK, Consistent, Followed,
       SwitchesOff, SwitchesOn

\* t is how s ends.
Ends(t, s) ==
  /\ Len(t) <= Len(s)
  /\ \A i \in 1 .. Len(t) : t[i] = s[Len(s) - Len(t) + i]

\* Dropping rows from the old end takes no switch-on from behind a switch-off.
LEMMA EndsConsistent ==
  ASSUME NEW s \in Seq(Row), NEW t \in Seq(Row), Ends(t, s)
  PROVE  /\ Consistent(s) => Consistent(t)
         /\ \A i \in 1 .. Len(t) : Followed(s, Len(s) - Len(t) + i) => Followed(t, i)
<1> DEFINE d == Len(s) - Len(t)
<1>1. /\ d \in Nat /\ Len(s) \in Nat /\ Len(t) \in Nat /\ Len(s) = d + Len(t)
      /\ \A i \in 1 .. Len(t) : d + i \in 1 .. Len(s) /\ t[i] = s[d + i]
  BY DEF Ends
<1> HIDE DEF d
<1>2. ASSUME Consistent(s), NEW i \in 1 .. Len(t), NEW j \in 1 .. Len(t), i < j,
             SwitchesOff(t[i]), t[j].kind = "log", t[i].mod = t[j].mod, t[i].boot = t[j].boot
      PROVE  \E k \in i + 1 .. j - 1 : SwitchesOn(t[k], t[i].mod)
  <2>1. d + i \in 1 .. Len(s) /\ d + j \in 1 .. Len(s) /\ d + i < d + j
        /\ t[i] = s[d + i] /\ t[j] = s[d + j]
    BY <1>1, <1>2
  <2>2. PICK k \in (d + i) + 1 .. (d + j) - 1 : SwitchesOn(s[k], s[d + i].mod)
    BY <1>2, <2>1 DEF Consistent
  <2>3. /\ k - d \in i + 1 .. j - 1 /\ k - d \in 1 .. Len(t) /\ d + (k - d) = k
    BY <1>1
  <2>4. t[k - d] = s[k]
    BY <1>1, <2>3
  <2> QED
    BY <2>1, <2>2, <2>3, <2>4
<1>3. ASSUME NEW i \in 1 .. Len(t), Followed(s, d + i) PROVE Followed(t, i)
  <2>1. PICK k \in (d + i) + 1 .. Len(s) : SwitchesOn(s[k], s[d + i].mod)
    BY <1>3 DEF Followed
  <2>2. /\ k - d \in i + 1 .. Len(t) /\ k - d \in 1 .. Len(t) /\ d + (k - d) = k
    BY <1>1
  <2>3. t[k - d] = s[k] /\ t[i] = s[d + i]
    BY <1>1, <2>2
  <2> QED
    BY <2>1, <2>2, <2>3 DEF Followed
<1> QED
  BY <1>2, <1>3 DEF Consistent, d

\* What a step that writes nothing to a path does to its rows.
LEMMA EndRows ==
  ASSUME TypeOK, TypeOK', NEW p \in Paths, Kept(p) \/ Dropped(p) \/ Moved(p)
  PROVE  Ends(OnDisk(p)', OnDisk(p))
<1> DEFINE cur == RowsOf(disk[p].cur)
           bak == RowsOf(disk[p].bak)
<1>1. /\ cur \in Seq(Row) /\ bak \in Seq(Row) /\ OnDisk(p) \in Seq(Row)
      /\ Len(OnDisk(p)) = Len(bak) + Len(cur)
      /\ \A i \in 1 .. Len(cur) : OnDisk(p)[Len(bak) + i] = cur[i]
  BY DiskShape, OnDiskRows DEF OnDiskShapes, OnDiskShape
<1>2. Len(bak) \in Nat /\ Len(cur) \in Nat
  BY <1>1
<1>3. CASE Kept(p)
  <2>1. OnDisk(p)' = OnDisk(p)
    BY <1>3 DEF Kept, OnDisk
  <2>2. Len(OnDisk(p)) \in Nat
        /\ \A i \in 1 .. Len(OnDisk(p)) : Len(OnDisk(p)) - Len(OnDisk(p)) + i = i
    BY <1>1
  <2> QED
    BY <2>1, <2>2 DEF Ends
<1>4. CASE Dropped(p) \/ Moved(p)
  <2>1. OnDisk(p)' = cur
    <3>1. \/ RowsOf(disk'[p].bak) = <<>> /\ RowsOf(disk'[p].cur) = cur
          \/ RowsOf(disk'[p].bak) = cur /\ RowsOf(disk'[p].cur) = <<>>
      BY <1>4 DEF Dropped, Moved, RowsOf
    <3>2. cur \o <<>> = cur /\ <<>> \o cur = cur
      BY <1>1, ConcatEmptySeq
    <3> HIDE DEF cur
    <3> QED
      BY <3>1, <3>2 DEF OnDisk
  <2> HIDE DEF cur, bak
  <2>2. Len(OnDisk(p)) - Len(cur) = Len(bak) /\ Len(cur) <= Len(OnDisk(p))
    BY <1>1, <1>2
  <2> QED
    BY <1>1, <2>1, <2>2 DEF Ends
<1> QED
  BY <1>3, <1>4

LEMMA PathOKEnds ==
  ASSUME TypeOK, TypeOK', NEW p \in Paths, PathOK(p), Ends(OnDisk(p)', OnDisk(p)),
         boots' = boots, pc' # "down" => pc # "down" /\ curPath' = curPath,
         \/ \A m \in Modules : Writing' /\ enabled'[m] # "off" => Writing /\ enabled[m] # "off"
         \/ pc # "down" /\ p # curPath
  PROVE  PathOK(p)'
<1> DEFINE s == OnDisk(p)
           t == OnDisk(p)'
           d == Len(s) - Len(t)
<1>1. s \in Seq(Row) /\ t \in Seq(Row)
  <2>1. (TypeOK => OnDiskShapes)'
    BY OnDiskRows, PTL
  <2> QED
    BY <2>1, OnDiskRows DEF OnDiskShapes, OnDiskShape
<1>2. Consistent(s) /\ \A i \in 1 .. Len(s) : RowOK(p, i)
  BY DEF PathOK
<1>3. Ends(t, s)
  OBVIOUS
<1> HIDE DEF s, t
<1>4. /\ Consistent(t)
      /\ \A i \in 1 .. Len(t) : Followed(s, d + i) => Followed(t, i)
  BY <1>1, <1>2, <1>3, EndsConsistent
<1>5. ASSUME NEW i \in 1 .. Len(t) PROVE RowOK(p, i)'
  <2>1. d + i \in 1 .. Len(s) /\ t[i] = s[d + i]
    BY <1>1, <1>3 DEF Ends
  <2>2. t[i] \in Row
    BY <1>1
  <2>3. t[i].mod \in Modules
    BY <2>2 DEF Row
  <2>4. /\ s[d + i].boot <= boots
        /\ pc # "down" /\ s[d + i].boot = boots => p = curPath
        /\ /\ Writing
           /\ s[d + i].boot = boots
           /\ SwitchesOff(s[d + i])
           /\ enabled[s[d + i].mod] # "off"
           => Followed(s, d + i)
    BY <1>2, <2>1 DEF RowOK, s
  <2> HIDE DEF d
  <2>5. Writing' /\ t[i].boot = boots /\ SwitchesOff(t[i]) /\ enabled'[t[i].mod] # "off"
        => Followed(t, i)
    BY <1>4, <2>1, <2>3, <2>4
  <2>6. pc' # "down" /\ t[i].boot = boots => p = curPath'
    BY <2>1, <2>4
  <2>7. t[i].boot <= boots
    BY <2>1, <2>4
  <2> QED
    BY <2>5, <2>6, <2>7 DEF RowOK, t
<1> QED
  BY <1>4, <1>5 DEF PathOK, t

\* A line of a module is written while the module is on, and a toggle says what the
\* switch of its module is from then on.
SwitchedBy(kind, mod, on) ==
  /\ kind = "log" => enabled[mod] # "off"
  /\ kind = "toggle" /\ ~on => enabled'[mod] = "off"
  /\ \A m \in Modules : enabled'[m] # "off" =>
        enabled[m] # "off" \/ (kind = "toggle" /\ on /\ m = mod)

LEMMA PathOKWrote ==
  ASSUME TypeOK, TypeOK', NEW p \in Paths, PathOK(p), Grown(p),
         NEW k \in Nat \ {0}, NEW size \in Nat, NEW kind \in {"log", "toggle", "notice"},
         NEW mod \in Modules, NEW on \in BOOLEAN, Wrote(p, k, size, kind, mod, on),
         boots' = boots, curPath' = curPath,
         SwitchedBy(kind, mod, on)
  PROVE  PathOK(p)'
<1> DEFINE s == OnDisk(p)
           t == OnDisk(p)'
<1>1. s \in Seq(Row) /\ t \in Seq(Row)
  <2>1. (TypeOK => OnDiskShapes)'
    BY OnDiskRows, PTL
  <2> QED
    BY <2>1, OnDiskRows DEF OnDiskShapes, OnDiskShape
<1>2. Consistent(s) /\ \A i \in 1 .. Len(s) : RowOK(p, i)
  BY DEF PathOK
<1>3. /\ Starts(s, t) /\ Len(s) < Len(t)
      /\ \A i \in Len(s) + 1 .. Len(t) :
           t[i].boot = boots /\ t[i].mod = mod /\ t[i].kind = kind /\ t[i].on = on
  <2>1. Starts(s, t)
    BY GrownRows
  <2>2. Len(s) < Len(t)
    BY WroteRows
  <2>3. \A i \in Len(s) + 1 .. Len(t) :
           t[i].boot = boots /\ t[i].mod = mod /\ t[i].kind = kind /\ t[i].on = on
    BY WroteRows
  <2> QED
    BY <2>1, <2>2, <2>3
<1>4. p = curPath /\ Writing /\ pc # "down"
  BY DEF Grown, Writing
<1>9. /\ kind = "log" => enabled[mod] # "off"
      /\ kind = "toggle" /\ ~on => enabled'[mod] = "off"
      /\ \A m \in Modules : enabled'[m] # "off" =>
            enabled[m] # "off" \/ (kind = "toggle" /\ on /\ m = mod)
  BY DEF SwitchedBy
<1>5. \A i \in 1 .. Len(s) :
        /\ s[i].boot <= boots
        /\ s[i].boot = boots /\ SwitchesOff(s[i]) /\ enabled[s[i].mod] # "off" => Followed(s, i)
  BY <1>2, <1>4 DEF RowOK, s
<1> HIDE DEF s, t
<1>6. /\ Len(s) \in Nat /\ Len(t) \in Nat
      /\ \A i \in 1 .. Len(s) : i \in 1 .. Len(t) /\ t[i] = s[i]
      /\ \A i \in 1 .. Len(t) : i \in 1 .. Len(s) \/ i \in Len(s) + 1 .. Len(t)
  BY <1>1, <1>3 DEF Starts
<1>7. ASSUME NEW i \in 1 .. Len(t), NEW j \in 1 .. Len(t), i < j,
             SwitchesOff(t[i]), t[j].kind = "log", t[i].mod = t[j].mod, t[i].boot = t[j].boot
      PROVE  \E l \in i + 1 .. j - 1 : SwitchesOn(t[l], t[i].mod)
  <2>1. CASE j \in 1 .. Len(s)
    <3>1. i \in 1 .. Len(s)
      BY <1>6, <1>7, <2>1
    <3>2. t[i] = s[i] /\ t[j] = s[j]
      BY <1>6, <2>1, <3>1
    <3>3. PICK l \in i + 1 .. j - 1 : SwitchesOn(s[l], s[i].mod)
      BY <1>2, <1>7, <2>1, <3>1, <3>2 DEF Consistent
    <3>4. l \in 1 .. Len(s)
      BY <1>6, <2>1
    <3> QED
      BY <1>6, <3>2, <3>3, <3>4
  <2>2. CASE j \in Len(s) + 1 .. Len(t)
    <3>1. t[j].boot = boots /\ t[j].mod = mod /\ kind = "log"
      BY <1>3, <1>7, <2>2
    <3>2. i \notin Len(s) + 1 .. Len(t)
      BY <1>3, <1>7, <3>1 DEF SwitchesOff
    <3>3. i \in 1 .. Len(s) /\ t[i] = s[i]
      BY <1>6, <3>2
    <3>4. Followed(s, i)
      BY <1>5, <1>7, <1>9, <3>1, <3>3
    <3>5. PICK l \in i + 1 .. Len(s) : SwitchesOn(s[l], s[i].mod)
      BY <3>4 DEF Followed
    <3>6. l \in 1 .. Len(s) /\ l \in i + 1 .. j - 1
      BY <1>6, <2>2
    <3> QED
      BY <1>6, <3>3, <3>5, <3>6
  <2> QED
    BY <1>6, <2>1, <2>2
<1>8. ASSUME NEW i \in 1 .. Len(t) PROVE RowOK(p, i)'
  <2>1. ASSUME t[i].boot = boots, SwitchesOff(t[i]), enabled'[t[i].mod] # "off"
        PROVE  Followed(t, i)
    <3>1. t[i] \in Row
      BY <1>1
    <3>2. t[i].mod \in Modules
      BY <3>1 DEF Row
    <3>3. i \notin Len(s) + 1 .. Len(t)
      BY <1>3, <1>9, <2>1 DEF SwitchesOff
    <3>4. i \in 1 .. Len(s) /\ t[i] = s[i]
      BY <1>6, <3>3
    <3>5. CASE enabled[t[i].mod] # "off"
      <4>1. PICK l \in i + 1 .. Len(s) : SwitchesOn(s[l], s[i].mod)
        BY <1>5, <2>1, <3>4, <3>5 DEF Followed
      <4>2. l \in 1 .. Len(s) /\ l \in i + 1 .. Len(t)
        BY <1>3, <1>6
      <4> QED
        BY <1>6, <3>4, <4>1, <4>2 DEF Followed
    <3>6. CASE kind = "toggle" /\ on /\ t[i].mod = mod
      <4>1. Len(s) + 1 \in Len(s) + 1 .. Len(t) /\ Len(s) + 1 \in i + 1 .. Len(t)
        BY <1>3, <1>6, <3>4
      <4>2. SwitchesOn(t[Len(s) + 1], t[i].mod)
        BY <1>3, <3>6, <4>1 DEF SwitchesOn
      <4> QED
        BY <4>1, <4>2 DEF Followed
    <3> QED
      BY <1>9, <2>1, <3>2, <3>5, <3>6
  <2>2. t[i].boot <= boots
    <3>1. boots \in Nat
      BY DEF TypeOK
    <3> QED
      BY <1>3, <1>5, <1>6, <3>1
  <2> QED
    BY <1>4, <2>1, <2>2 DEF RowOK, t
<1> QED
  BY <1>7, <1>8 DEF PathOK, Consistent, t

LEMMA LandedRows ==
  ASSUME "write" \notin Faults, TypeOK, HolderInv, pc = "idle", file,
         NEW k \in Nat \ {0}, NEW size \in Nat,
         NEW kind \in {"log", "toggle", "notice"}, NEW mod \in Modules,
         NEW on \in BOOLEAN, WriteLocked(k, size, kind, mod, on), NEW p \in Paths
  PROVE  /\ p = curPath => Grown(p) /\ Wrote(p, k, size, kind, mod, on)
         /\ p # curPath => Kept(p)
<1>1. curPath \in Paths /\ disk[curPath].cur \in File /\ disk[curPath].cur # NoFile /\ k \in Nat
  BY DiskShape DEF HolderInv
<1>2. PICK landed \in Outcomes("write") : Write(landed, k, size, kind, mod, on)
  BY DEF WriteLocked
<1>4. landed \in BOOLEAN
  BY DEF Outcomes
<1>3. /\ \A q \in Paths \ {curPath} : disk'[q] = disk[q] /\ hist'[q] = hist[q]
      /\ disk'[curPath].bak = disk[curPath].bak
      /\ landed =>
           /\ disk'[curPath].cur = Appended(disk[curPath].cur, curPath, k, size, kind, mod, on)
           /\ hist'[curPath] = hist[curPath] + k
  BY <1>1, <1>2, <1>4, WriteEffect
<1>5. landed
  BY DEF Outcomes
<1> QED
  BY <1>1, <1>3, <1>5 DEF Kept, Grown, Wrote

\* A line written, or not for want of a file.
LEMMA PathOKWriteLocked ==
  ASSUME "write" \notin Faults, TypeOK, TypeOK', HolderInv, pc = "idle",
         NEW k \in Nat \ {0}, NEW size \in Nat,
         NEW kind \in {"log", "toggle"}, NEW mod \in Modules,
         NEW on \in BOOLEAN, WriteLocked(k, size, kind, mod, on), NEW p \in Paths,
         PathOK(p), UNCHANGED <<file, curPath, boots>>,
         SwitchedBy(kind, mod, on)
  PROVE  PathOK(p)'
<1>1. CASE ~file
  <2>1. Kept(p) /\ ~Writing' /\ pc' = pc
    BY <1>1 DEF WriteLocked, Kept, Writing
  <2>2. Ends(OnDisk(p)', OnDisk(p))
    BY <2>1, EndRows
  <2> QED
    BY <2>1, <2>2, PathOKEnds
<1>2. CASE file
  <2>1. kind \in {"log", "toggle", "notice"}
    OBVIOUS
  <2>2. /\ p = curPath => Grown(p) /\ Wrote(p, k, size, kind, mod, on)
        /\ p # curPath => Kept(p)
    BY <1>2, <2>1, LandedRows
  <2>3. CASE p = curPath
    BY <2>1, <2>2, <2>3, PathOKWrote
  <2>4. CASE p # curPath
    <3>1. Ends(OnDisk(p)', OnDisk(p)) /\ pc # "down"
      BY <2>2, <2>4, EndRows
    <3> QED
      BY <2>4, <3>1, PathOKEnds
  <2> QED
    BY <2>3, <2>4
<1> QED
  BY <1>1, <1>2

LEMMA SwitchStep ==
  ASSUME "write" \notin Faults, TypeOK, TypeOK', HolderInv, AllPathsOK, [Next]_vars
  PROVE  AllPathsOK'
<1> SUFFICES ASSUME NEW p \in Paths PROVE PathOK(p)'
  BY DEF AllPathsOK
<1>1. PathOK(p) /\ (Kept(p) \/ Grown(p) \/ Dropped(p) \/ Moved(p))
  BY FilesStep DEF AllPathsOK
<1>2. CASE Start
  <2>1. pc = "down" /\ boots' = boots + 1
    BY <1>2 DEF Start, InitAt, InitDegraded
  <2>2. Kept(p)
    BY <1>1, <2>1 DEF Grown, Dropped, Moved
  <2>3. OnDisk(p)' = OnDisk(p)
    BY <2>2 DEF Kept, OnDisk
  <2>4. OnDisk(p) \in Seq(Row) /\ boots \in Nat
    BY OnDiskRows DEF OnDiskShapes, OnDiskShape, TypeOK
  <2>5. ASSUME NEW i \in 1 .. Len(OnDisk(p)) PROVE RowOK(p, i)'
    <3>1. OnDisk(p)[i].boot <= boots
      BY <1>1 DEF PathOK, RowOK
    <3>2. OnDisk(p)[i] \in Row
      BY <2>4
    <3>3. OnDisk(p)[i].boot \in Nat
      BY <3>2 DEF Row
    <3>4. OnDisk(p)[i].boot <= boots' /\ OnDisk(p)[i].boot # boots'
      BY <2>1, <2>4, <3>1, <3>3
    <3> QED
      BY <2>3, <3>4 DEF RowOK
  <2> QED
    BY <1>1, <2>3, <2>5 DEF PathOK
<1>3. CASE End
  <2>1. /\ Kept(p) /\ pc' = "down" /\ boots' = boots /\ ~Writing'
    BY <1>3 DEF End, Kept, Writing
  <2>2. Ends(OnDisk(p)', OnDisk(p))
    BY <2>1, EndRows
  <2> QED
    BY <1>1, <2>1, <2>2, PathOKEnds
<1>4. ASSUME NEW m \in Modules, NEW msg \in Messages, Log(m, msg) PROVE PathOK(p)'
  <2>1. msg.rows \in Nat \ {0} /\ msg.size \in Nat
    BY LimitsAssumption
  <2>2. /\ pc = "idle" /\ WriteLocked(msg.rows, msg.size, "log", m, TRUE)
        /\ UNCHANGED <<file, curPath, boots>> /\ enabled[m] # "off"
        /\ enabled' = [enabled EXCEPT ![m] = "on"]
    BY <1>4 DEF Log
  <2>3. \A n \in Modules : enabled'[n] # "off" => enabled[n] # "off"
    BY <2>2 DEF TypeOK
  <2>4. PICK on \in BOOLEAN : on
    OBVIOUS
  <2>5. WriteLocked(msg.rows, msg.size, "log", m, on) /\ SwitchedBy("log", m, on)
    BY <2>2, <2>3, <2>4 DEF SwitchedBy
  <2> QED
    BY <1>1, <2>1, <2>2, <2>5, PathOKWriteLocked
<1>5. ASSUME NEW m \in Modules, NEW on \in BOOLEAN, SetEnabled(m, on) PROVE PathOK(p)'
  <2>1. ToggleSize \in Nat /\ 1 \in Nat \ {0}
    BY LimitsAssumption
  <2>2. /\ pc = "idle" /\ WriteLocked(1, ToggleSize, "toggle", m, on)
        /\ UNCHANGED <<file, curPath, boots>>
        /\ enabled' = [enabled EXCEPT ![m] = IF on THEN "on" ELSE "off"]
    BY <1>5 DEF SetEnabled
  <2>3. /\ ~on => enabled'[m] = "off"
        /\ \A n \in Modules : enabled'[n] # "off" => enabled[n] # "off" \/ (on /\ n = m)
    BY <2>2 DEF TypeOK
  <2>4. SwitchedBy("toggle", m, on)
    BY <2>3 DEF SwitchedBy
  <2> QED
    BY <1>1, <2>1, <2>2, <2>4, PathOKWriteLocked
<1>6. CASE RotateRemove \/ RotateRename \/ RotateOpen
  <2>1. /\ pc \in {"remove", "rename", "open"} /\ UNCHANGED <<curPath, enabled, boots>>
    BY <1>6 DEF RotateRemove, RotateRename, RotateOpen
  <2>2. Kept(p) \/ Dropped(p) \/ Moved(p)
    BY <1>1, <2>1 DEF Grown
  <2>3. Writing
    BY <2>1 DEF Writing, HolderInv
  <2>4. Ends(OnDisk(p)', OnDisk(p))
    BY <2>2, EndRows
  <2> QED
    BY <1>1, <2>1, <2>3, <2>4, PathOKEnds
<1>7. CASE RotateNotice
  <2>1. /\ curPath \in Paths /\ disk[curPath].cur \in File
        /\ \A q \in Paths \ {curPath} : disk'[q] = disk[q] /\ hist'[q] = hist[q]
        /\ disk'[curPath].bak = disk[curPath].bak
        /\ disk'[curPath].cur =
             Appended(disk[curPath].cur, curPath, 1, NoticeSize, "notice", Sys, TRUE)
        /\ hist'[curPath] = hist[curPath] + 1
    BY <1>7, NoticeEffect
  <2>2. /\ pc = "notice" /\ file /\ UNCHANGED <<curPath, enabled, boots>>
        /\ \A on \in BOOLEAN : SwitchedBy("notice", Sys, on)
    BY <1>7 DEF RotateNotice, HolderInv, SwitchedBy
  <2>3. NoticeSize \in Nat /\ 1 \in Nat \ {0}
    BY LimitsAssumption
  <2>4. Sys \in Modules
    BY ModulesAssumption
  <2>5. CASE p = curPath
    <3>1. PICK on \in BOOLEAN : on
      OBVIOUS
    <3>2. Wrote(p, 1, NoticeSize, "notice", Sys, on)
      BY <2>1, <2>5, <3>1 DEF Wrote
    <3>3. Grown(p)
      BY <2>1, <2>2, <2>3, <2>4, <2>5, <3>2 DEF Grown
    <3> QED
      BY <1>1, <2>2, <2>3, <2>4, <3>2, <3>3, PathOKWrote
  <2>6. CASE p # curPath
    <3>1. Kept(p)
      BY <2>1, <2>6 DEF Kept
    <3>2. Ends(OnDisk(p)', OnDisk(p))
      BY <3>1, EndRows
    <3> QED
      BY <1>1, <2>2, <2>6, <3>2, PathOKEnds
  <2> QED
    BY <2>5, <2>6
<1>8. CASE TailStep \/ (\E n \in TailSizes : TailStart(n)) \/ UNCHANGED vars
  <2>1. UNCHANGED <<disk, file, curPath, enabled, pc, boots, hist>>
    BY <1>8, TailFrame DEF vars
  <2>2. Kept(p) /\ (Writing' <=> Writing)
    BY <2>1 DEF Kept, Writing
  <2>3. Ends(OnDisk(p)', OnDisk(p))
    BY <2>2, EndRows
  <2> QED
    BY <1>1, <2>1, <2>2, <2>3, PathOKEnds
<1> QED
  BY <1>2, <1>3, <1>4, <1>5, <1>6, <1>7, <1>8 DEF Next, Rotate

\* As long as the disk takes every write, no line of a module follows a switch-off
\* of the same run of the process that no switch-on has ended, whatever is
\* recycled, for any modules, and also when the process logs at another path.
THEOREM LogExplainsItself ==
  ASSUME "write" \notin Faults
  PROVE  Spec => []LogConsistent
<1>1. Init => AllPathsOK
  BY DEF Init, AllPathsOK, PathOK, Consistent, RowOK, OnDisk, RowsOf
<1>2. AllPathsOK /\ TypeOK /\ TypeOK' /\ HolderInv /\ [Next]_vars => AllPathsOK'
  BY SwitchStep
<1>3. AllPathsOK => LogConsistent
  BY SwitchMeans DEF SwitchInv
<1> QED
  BY <1>1, <1>2, <1>3, ShapeInit, ShapeStep, PTL DEF Spec
=============================================================================
