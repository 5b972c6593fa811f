----------------------------- MODULE DnsRecords -----------------------------
(***************************************************************************)
(* The DNS record store (dns/records.go): the A and CNAME maps in memory,  *)
(* the JSON file they are loaded from when a process starts, and the save  *)
(* of every change through a temporary file and a rename.                  *)
(*                                                                         *)
(* Usually one process, the daemon, owns the file.  The interactive shell  *)
(* (ztna-lab without arguments on a terminal) is a second process with its *)
(* own maps over the same file and the same temporary file; Procs says how *)
(* many there are.  Within a process store.mu is held from the change of   *)
(* the maps to the return, so a process is inside one operation at a time; *)
(* the system calls of its save are steps of their own, because it can end *)
(* between them and another process can come between them.                 *)
(*                                                                         *)
(* Names and addresses are the normalised, validated ones; the file is one *)
(* that the program wrote.                                                 *)
(***************************************************************************)
EXTENDS Naturals

CONSTANTS
  Procs,    \* processes that share the record file
  Names,    \* domain names, lower case, without the final dot
  Ips,      \* addresses net.ParseIP accepts
  NoValue,  \* the name is not a key of the map
  Absent,   \* no such file
  Torn,     \* a file that is not the JSON of a store: empty or half written
  Nothing,  \* the name has no record
  Unknown,  \* an operation on the name is under way, or failed
  Faults,   \* which system calls may fail, and whether processes may end
  MaxEnds   \* bound: how often processes end, together

ASSUME ValuesAssumption ==
  /\ NoValue \notin Ips /\ NoValue \notin Names
  /\ Names \cap Ips = {}

ASSUME FaultsAssumption ==
  Faults \subseteq {"read", "write", "rename", "end"} /\ MaxEnds \in Nat

Store == [a : [Names -> Ips \cup {NoValue}], cname : [Names -> Names \cup {NoValue}]]

EmptyStore == [a |-> [n \in Names |-> NoValue], cname |-> [n \in Names |-> NoValue]]

ASSUME FilesAssumption ==
  Absent \notin Store /\ Torn \notin Store /\ Absent # Torn

Records == ({"A"} \X Ips) \cup ({"CNAME"} \X Names)

ASSUME RecordsAssumption ==
  Nothing \notin Records /\ Unknown \notin Records /\ Nothing # Unknown

\* The record a store has for a name.
Entry(t, n) ==
  IF t.a[n] # NoValue THEN <<"A", t.a[n]>>
  ELSE IF t.cname[n] # NoValue THEN <<"CNAME", t.cname[n]>> ELSE Nothing

-----------------------------------------------------------------------------
VARIABLES
  mem,    \* process -> its A and CNAME maps
  disk,   \* the record file
  tmp,    \* the temporary file next to it
  pc,     \* process -> what it does next
  op,     \* process -> the name it changes and the record the name is to have
  opened, \* process -> the path of the file it has open for writing, now
  told,   \* name -> what clients were last told it has (history)
  ends    \* how often processes ended (history)

vars == <<mem, disk, tmp, pc, op, opened, told, ends>>

Files == Store \cup {Absent, Torn}

NoOp == [name |-> Nothing, record |-> Nothing]

Outcomes(fault) == {TRUE} \cup (IF fault \in Faults THEN {FALSE} ELSE {})

Init ==
  /\ mem = [p \in Procs |-> EmptyStore]
  /\ disk = Absent
  /\ tmp = Absent
  /\ pc = [p \in Procs |-> "down"]
  /\ op = [p \in Procs |-> NoOp]
  /\ opened = [p \in Procs |-> "none"]
  /\ told = [n \in Names |-> Nothing]
  /\ ends = 0

-----------------------------------------------------------------------------
\* Mutation of Load: the maps stay empty.
LoadNothing(p) ==
  /\ pc[p] = "down"
  /\ mem' = [mem EXCEPT ![p] = EmptyStore]
  /\ pc' = [pc EXCEPT ![p] = "idle"]
  /\ UNCHANGED <<disk, tmp, op, opened, told, ends>>

\* NewServer calls LoadRecords once, when the process starts: a missing file
\* and a file that cannot be read or parsed both leave the maps empty, the
\* latter with a warning in the log.
Load(p) ==
  /\ pc[p] = "down"
  /\ \E readable \in Outcomes("read") :
       mem' = [mem EXCEPT ![p] = IF readable /\ disk \in Store THEN disk ELSE EmptyStore]
  /\ pc' = [pc EXCEPT ![p] = "idle"]
  /\ UNCHANGED <<disk, tmp, op, opened, told, ends>>

\* The process ends, between any two of its steps; its files stay.
End(p) ==
  /\ pc[p] # "down"
  /\ "end" \in Faults /\ ends < MaxEnds
  /\ pc' = [pc EXCEPT ![p] = "down"]
  /\ op' = [op EXCEPT ![p] = NoOp]
  /\ opened' = [opened EXCEPT ![p] = "none"]
  /\ ends' = ends + 1
  /\ UNCHANGED <<mem, disk, tmp, told>>

-----------------------------------------------------------------------------
\* The part every change has in common: store.mu is taken, the maps become t.
Change(p, n, record, t) ==
  /\ pc[p] = "idle"
  /\ mem' = [mem EXCEPT ![p] = t]
  /\ pc' = [pc EXCEPT ![p] = "create"]
  /\ op' = [op EXCEPT ![p] = [name |-> n, record |-> record]]
  /\ told' = [told EXCEPT ![n] = Unknown]
  /\ UNCHANGED <<disk, tmp, opened, ends>>

\* Mutation of AddA: the CNAME the name had is kept.
AddABesideCNAME(p, n, ip) ==
  Change(p, n, <<"A", ip>>,
         [a |-> [mem[p].a EXCEPT ![n] = ip], cname |-> mem[p].cname])

AddA(p, n, ip) ==
  Change(p, n, <<"A", ip>>,
         [a     |-> [mem[p].a EXCEPT ![n] = ip],
          cname |-> [mem[p].cname EXCEPT ![n] = NoValue]])

AddCNAME(p, n, target) ==
  /\ n # target
  /\ Change(p, n, <<"CNAME", target>>,
            [a     |-> [mem[p].a EXCEPT ![n] = NoValue],
             cname |-> [mem[p].cname EXCEPT ![n] = target]])

Remove(p, n) ==
  /\ Entry(mem[p], n) # Nothing
  /\ Change(p, n, Nothing,
            [a     |-> [mem[p].a EXCEPT ![n] = NoValue],
             cname |-> [mem[p].cname EXCEPT ![n] = NoValue]])

-----------------------------------------------------------------------------
(* saveLocked                                                              *)

\* The save failed: the error is returned, the maps keep the change.
Fail(p) ==
  /\ pc' = [pc EXCEPT ![p] = "idle"]
  /\ op' = [op EXCEPT ![p] = NoOp]
  /\ opened' = [opened EXCEPT ![p] = "none"]
  /\ UNCHANGED <<mem, disk, told, ends>>

\* Mutation of CreateTmp: the record file itself is opened and truncated.
CreateInPlace(p) ==
  /\ pc[p] = "create"
  /\ \/ /\ disk' = Torn
        /\ opened' = [opened EXCEPT ![p] = "disk"]
        /\ pc' = [pc EXCEPT ![p] = "write"]
        /\ UNCHANGED <<mem, tmp, op, told, ends>>
     \/ "write" \in Faults /\ Fail(p) /\ UNCHANGED tmp

\* os.WriteFile opens path.tmp, creating or truncating it ...
CreateTmp(p) ==
  /\ pc[p] = "create"
  /\ \/ /\ tmp' = Torn
        /\ opened' = [opened EXCEPT ![p] = "tmp"]
        /\ pc' = [pc EXCEPT ![p] = "write"]
        /\ UNCHANGED <<mem, disk, op, told, ends>>
     \/ "write" \in Faults /\ Fail(p) /\ UNCHANGED tmp

\* What writing the maps of p leaves in a file: over bytes that another process
\* put there since p truncated it, a shorter text leaves the end of a longer.
Written(p, f) == IF f = Torn THEN {mem[p]} ELSE {mem[p], Torn}

\* Mutation of WriteTmp: the operation returns without the rename.
WriteTmpOnly(p) ==
  /\ pc[p] = "write"
  /\ tmp' \in Written(p, tmp)
  /\ opened' = [opened EXCEPT ![p] = "none"]
  /\ pc' = [pc EXCEPT ![p] = "reply"]
  /\ UNCHANGED <<mem, disk, op, told, ends>>

\* Mutation of WriteTmp: only the A records are written.
WriteTmpPart(p) ==
  /\ pc[p] = "write"
  /\ tmp' = [mem[p] EXCEPT !.cname = EmptyStore.cname]
  /\ opened' = [opened EXCEPT ![p] = "none"]
  /\ pc' = [pc EXCEPT ![p] = "rename"]
  /\ UNCHANGED <<mem, disk, op, told, ends>>

\* ... and writes the JSON of both maps into the file it has opened.
WriteTmp(p) ==
  /\ pc[p] = "write"
  /\ \/ /\ \/ opened[p] = "tmp" /\ tmp' \in Written(p, tmp) /\ UNCHANGED disk
           \/ opened[p] = "disk" /\ disk' \in Written(p, disk) /\ UNCHANGED tmp
           \/ opened[p] = "none" /\ UNCHANGED <<disk, tmp>>
        /\ opened' = [opened EXCEPT ![p] = "none"]
        /\ pc' = [pc EXCEPT ![p] = "rename"]
        /\ UNCHANGED <<mem, op, told, ends>>
     \/ "write" \in Faults /\ Fail(p) /\ UNCHANGED tmp

\* os.Rename(path.tmp, path): the file other processes have open under the name
\* path.tmp is the record file from now on, the old record file is gone.
Rename(p) ==
  /\ pc[p] = "rename"
  /\ \/ /\ tmp # Absent
        /\ disk' = tmp
        /\ tmp' = Absent
        /\ opened' = [q \in Procs |-> IF opened[q] = "tmp" THEN "disk" ELSE "none"]
        /\ pc' = [pc EXCEPT ![p] = "reply"]
        /\ UNCHANGED <<mem, op, told, ends>>
     \/ tmp = Absent /\ Fail(p) /\ UNCHANGED tmp
     \/ "rename" \in Faults /\ Fail(p) /\ UNCHANGED tmp

\* The operation returns nil and its caller tells the client.
Reply(p) ==
  /\ pc[p] = "reply"
  /\ pc' = [pc EXCEPT ![p] = "idle"]
  /\ op' = [op EXCEPT ![p] = NoOp]
  /\ told' = IF \E q \in Procs \ {p} : op[q].name = op[p].name THEN told
             ELSE [told EXCEPT ![op[p].name] = op[p].record]
  /\ UNCHANGED <<mem, disk, tmp, opened, ends>>

saveLocked(p) == CreateTmp(p) \/ WriteTmp(p) \/ Rename(p) \/ Reply(p)

-----------------------------------------------------------------------------
Next ==
  \E p \in Procs :
    \/ Load(p)
    \/ End(p)
    \/ \E n \in Names, ip \in Ips : AddA(p, n, ip)
    \/ \E n, target \in Names : AddCNAME(p, n, target)
    \/ \E n \in Names : Remove(p, n)
    \/ saveLocked(p)

Spec == Init /\ [][Next]_vars

-----------------------------------------------------------------------------
(* Properties                                                              *)

\* The shape of the state.
TypeOK ==
  /\ mem \in [Procs -> Store]
  /\ disk \in Files
  /\ tmp \in Files
  /\ pc \in [Procs -> {"down", "idle", "create", "write", "rename", "reply"}]
  /\ op \in [Procs -> [name : Names \cup {Nothing}, record : Records \cup {Nothing}]]
  /\ opened \in [Procs -> {"none", "tmp", "disk"}]
  /\ told \in [Names -> Records \cup {Nothing, Unknown}]
  /\ ends \in Nat

\* The store a process would load now.
Durable == IF disk \in Store THEN disk ELSE EmptyStore

ExclusiveIn(t) == \A n \in Names : t.a[n] = NoValue \/ t.cname[n] = NoValue

\* "um nome não pode ter A e CNAME simultaneamente" (records.go:125), in memory
\* and in the file alike, whatever order changes, saves and loads come in.
OneKind ==
  /\ \A p \in Procs : ExclusiveIn(mem[p])
  /\ disk \in Store => ExclusiveIn(disk)
  /\ tmp \in Store => ExclusiveIn(tmp)

\* "gravação atômica" (records.go:80): whenever a process ends or a write fails,
\* the record file is absent or a complete store, never half written.
SaveAtomic == disk # Torn

\* A client that was told that a name has a record, or that it has none, will
\* find just that after any restart: the file never falls behind or ahead of
\* what was acknowledged.
AckedDurable ==
  \A n \in Names :
    told[n] # Unknown =>
      Entry(Durable, n) = told[n]

\* What a process serves of the names whose last operation succeeded is what
\* clients were told: a failed save of one record never spoils another.
AckedServed ==
  \A p \in Procs, n \in Names :
    pc[p] # "down" /\ told[n] # Unknown => Entry(mem[p], n) = told[n]

\* Why AckedDurable and SaveAtomic hold of one process that owns the file: what
\* the temporary file holds at each step of a save, and that the name being
\* changed is the only one memory and file may disagree about.
SaveInv ==
  /\ SaveAtomic /\ AckedDurable /\ AckedServed
  /\ \A p \in Procs :
       /\ opened[p] = IF pc[p] = "write" THEN "tmp" ELSE "none"
       /\ pc[p] = "write" => tmp = Torn
       /\ pc[p] = "rename" => tmp = mem[p]
       /\ pc[p] = "reply" => disk = mem[p]
       /\ pc[p] \in {"create", "write", "rename", "reply"} =>
            /\ op[p].name \in Names
            /\ told[op[p].name] = Unknown
            /\ Entry(mem[p], op[p].name) = op[p].record

-----------------------------------------------------------------------------
(* The store of one process as the table RecordTable describes             *)

AsTable(t) == [n \in Names |-> Entry(t, n)]

Owner == CHOOSE p \in Procs : TRUE

Table == INSTANCE RecordTable
         WITH served <- AsTable(mem[Owner]), durable <- AsTable(Durable)

\* At most one record per name, saved all at once, served again after a restart:
\* the one process that owns the file does what RecordTable promises.
ImplementsTable == Table!Spec
=============================================================================
