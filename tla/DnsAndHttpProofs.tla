--------------------------- MODULE DnsAndHttpProofs ---------------------------
(***************************************************************************)
(* What the DNS record store guarantees for any set of names, addresses    *)
(* and, where said, processes; then what the theorems about the other      *)
(* parts of DnsAndHttp, each in a module of its own, say of the whole.     *)
(***************************************************************************)
EXTENDS DnsAndHttp, TLAPS

-----------------------------------------------------------------------------
(* The record store                                                        *)

LEMMA EmptyIsStore == EmptyStore \in Store /\ ExclusiveIn(EmptyStore)
BY DEF EmptyStore, Store, ExclusiveIn

LEMMA EmptyHasNothing == \A n \in Names : Entry(EmptyStore, n) = Nothing
BY DEF EmptyStore, Entry

\* The three changes, as one step with the record the name is to have.
LEMMA ChangeStep ==
  ASSUME TypeOK, OneKind, NEW p \in Procs,
         \/ \E n \in Names, ip \in Ips : AddA(p, n, ip)
         \/ \E n, target \in Names : AddCNAME(p, n, target)
         \/ \E n \in Names : Remove(p, n)
  PROVE  \E n \in Names, record \in Records \cup {Nothing}, t \in Store :
           /\ Change(p, n, record, t)
           /\ ExclusiveIn(t)
           /\ Entry(t, n) = record
           /\ \A other \in Names \ {n} : Entry(t, other) = Entry(mem[p], other)
<1>1. mem[p] \in Store /\ ExclusiveIn(mem[p])
  BY DEF TypeOK, OneKind
<1>2. ASSUME NEW n \in Names, NEW ip \in Ips, AddA(p, n, ip)
      PROVE  \E record \in Records \cup {Nothing}, t \in Store :
               /\ Change(p, n, record, t) /\ ExclusiveIn(t) /\ Entry(t, n) = record
               /\ \A other \in Names \ {n} : Entry(t, other) = Entry(mem[p], other)
  <2> DEFINE t == [a     |-> [mem[p].a EXCEPT ![n] = ip],
                   cname |-> [mem[p].cname EXCEPT ![n] = NoValue]]
  <2>1. t \in Store /\ ExclusiveIn(t)
    BY <1>1 DEF Store, ExclusiveIn
  <2>2. Entry(t, n) = <<"A", ip>> /\ <<"A", ip>> \in Records
    BY <1>1, ValuesAssumption DEF Store, Entry, Records
  <2>3. \A other \in Names \ {n} : Entry(t, other) = Entry(mem[p], other)
    BY <1>1 DEF Store, Entry
  <2>4. Change(p, n, <<"A", ip>>, t)
    BY <1>2 DEF AddA
  <2> QED
    BY <2>1, <2>2, <2>3, <2>4
<1>3. ASSUME NEW n \in Names, NEW target \in Names, AddCNAME(p, n, target)
      PROVE  \E record \in Records \cup {Nothing}, t \in Store :
               /\ Change(p, n, record, t) /\ ExclusiveIn(t) /\ Entry(t, n) = record
               /\ \A other \in Names \ {n} : Entry(t, other) = Entry(mem[p], other)
  <2> DEFINE t == [a     |-> [mem[p].a EXCEPT ![n] = NoValue],
                   cname |-> [mem[p].cname EXCEPT ![n] = target]]
  <2>1. t \in Store /\ ExclusiveIn(t)
    BY <1>1 DEF Store, ExclusiveIn
  <2>2. Entry(t, n) = <<"CNAME", target>> /\ <<"CNAME", target>> \in Records
    BY <1>1, ValuesAssumption DEF Store, Entry, Records
  <2>3. \A other \in Names \ {n} : Entry(t, other) = Entry(mem[p], other)
    BY <1>1 DEF Store, Entry
  <2>4. Change(p, n, <<"CNAME", target>>, t)
    BY <1>3 DEF AddCNAME
  <2> QED
    BY <2>1, <2>2, <2>3, <2>4
<1>4. ASSUME NEW n \in Names, Remove(p, n)
      PROVE  \E record \in Records \cup {Nothing}, t \in Store :
               /\ Change(p, n, record, t) /\ ExclusiveIn(t) /\ Entry(t, n) = record
               /\ \A other \in Names \ {n} : Entry(t, other) = Entry(mem[p], other)
  <2> DEFINE t == [a     |-> [mem[p].a EXCEPT ![n] = NoValue],
                   cname |-> [mem[p].cname EXCEPT ![n] = NoValue]]
  <2>1. t \in Store /\ ExclusiveIn(t)
    BY <1>1 DEF Store, ExclusiveIn
  <2>2. Entry(t, n) = Nothing
    BY <1>1 DEF Store, Entry
  <2>3. \A other \in Names \ {n} : Entry(t, other) = Entry(mem[p], other)
    BY <1>1 DEF Store, Entry
  <2>4. Change(p, n, Nothing, t)
    BY <1>4 DEF Remove
  <2> QED
    BY <2>1, <2>2, <2>3, <2>4
<1> QED
  BY <1>2, <1>3, <1>4

-----------------------------------------------------------------------------
(* Types, and one kind of record per name, for any number of processes     *)

LEMMA KindInit == Init => TypeOK /\ OneKind
<1> SUFFICES ASSUME Init PROVE TypeOK /\ OneKind
  OBVIOUS
<1> QED
  BY EmptyIsStore, FilesAssumption DEF Init, TypeOK, OneKind, Files, NoOp

LEMMA KindChange ==
  ASSUME TypeOK, OneKind, NEW p \in Procs, NEW n \in Names,
         NEW record \in Records \cup {Nothing}, NEW t \in Store,
         Change(p, n, record, t), ExclusiveIn(t)
  PROVE  (TypeOK /\ OneKind)'
<1>1. TypeOK'
  BY DEF Change, TypeOK
<1>2. OneKind'
  BY DEF Change, TypeOK, OneKind
<1> QED
  BY <1>1, <1>2

LEMMA FailKeeps ==
  ASSUME TypeOK, OneKind, NEW p \in Procs, Fail(p), UNCHANGED tmp
  PROVE  (TypeOK /\ OneKind)'
BY DEF Fail, NoOp, TypeOK, OneKind

LEMMA KindSave ==
  ASSUME TypeOK, OneKind, NEW p \in Procs, saveLocked(p)
  PROVE  (TypeOK /\ OneKind)'
<1>1. CASE CreateTmp(p)
  BY <1>1, FailKeeps, FilesAssumption DEF CreateTmp, TypeOK, OneKind, Files
<1>2. CASE WriteTmp(p)
  <2>1. mem[p] \in Store /\ ExclusiveIn(mem[p])
    BY DEF TypeOK, OneKind
  <2>2. CASE "write" \in Faults /\ Fail(p) /\ UNCHANGED tmp
    BY <2>2, FailKeeps
  <2>3. CASE ~("write" \in Faults /\ Fail(p) /\ UNCHANGED tmp)
    <3>1. /\ tmp' \in {tmp, mem[p], Torn}
          /\ disk' \in {disk, mem[p], Torn}
          /\ opened' = [opened EXCEPT ![p] = "none"]
          /\ pc' = [pc EXCEPT ![p] = "rename"]
          /\ UNCHANGED <<mem, op, told, ends>>
      BY <1>2, <2>3 DEF WriteTmp, Written
    <3>2. TypeOK'
      BY <2>1, <3>1 DEF TypeOK, Files
    <3>3. OneKind'
      BY <2>1, <3>1, FilesAssumption DEF OneKind
    <3> QED
      BY <3>2, <3>3
  <2> QED
    BY <2>2, <2>3
<1>3. CASE Rename(p)
  <2>1. CASE Fail(p) /\ UNCHANGED tmp
    BY <2>1, FailKeeps
  <2>2. CASE ~(Fail(p) /\ UNCHANGED tmp)
    <3>1. /\ disk' = tmp /\ tmp' = Absent
          /\ opened' = [q \in Procs |-> IF opened[q] = "tmp" THEN "disk" ELSE "none"]
          /\ pc' = [pc EXCEPT ![p] = "reply"]
          /\ UNCHANGED <<mem, op, told, ends>>
      BY <1>3, <2>2 DEF Rename
    <3>2. TypeOK'
      BY <3>1 DEF TypeOK, Files
    <3>3. OneKind'
      BY <3>1, FilesAssumption DEF OneKind
    <3> QED
      BY <3>2, <3>3
  <2> QED
    BY <2>1, <2>2
<1>4. CASE Reply(p)
  <2>1. op[p].name \in Names \cup {Nothing} /\ op[p].record \in Records \cup {Nothing}
    BY DEF TypeOK
  <2>2. told' \in [Names -> Records \cup {Nothing, Unknown}]
    BY <1>4, <2>1 DEF Reply, TypeOK
  <2> QED
    BY <1>4, <2>2 DEF Reply, NoOp, TypeOK, OneKind
<1> QED
  BY <1>1, <1>2, <1>3, <1>4 DEF saveLocked

LEMMA KindStep == TypeOK /\ OneKind /\ [Next]_vars => (TypeOK /\ OneKind)'
<1> SUFFICES ASSUME TypeOK, OneKind, [Next]_vars PROVE (TypeOK /\ OneKind)'
  OBVIOUS
<1>1. ASSUME NEW p \in Procs, Load(p) PROVE (TypeOK /\ OneKind)'
  <2>1. PICK t \in Store : mem' = [mem EXCEPT ![p] = t] /\ ExclusiveIn(t)
    BY <1>1, EmptyIsStore DEF Load, OneKind
  <2> QED
    BY <1>1, <2>1 DEF Load, TypeOK, OneKind
<1>2. ASSUME NEW p \in Procs, End(p) PROVE (TypeOK /\ OneKind)'
  BY <1>2 DEF End, NoOp, TypeOK, OneKind
<1>3. ASSUME NEW p \in Procs,
             \/ \E n \in Names, ip \in Ips : AddA(p, n, ip)
             \/ \E n, target \in Names : AddCNAME(p, n, target)
             \/ \E n \in Names : Remove(p, n)
      PROVE  (TypeOK /\ OneKind)'
  BY <1>3, ChangeStep, KindChange
<1>4. ASSUME NEW p \in Procs, saveLocked(p) PROVE (TypeOK /\ OneKind)'
  BY <1>4, KindSave
<1>5. CASE UNCHANGED vars
  BY <1>5 DEF vars, TypeOK, OneKind
<1> QED
  BY <1>1, <1>2, <1>3, <1>4, <1>5 DEF Next

\* However many processes share the files, whatever fails and whenever they
\* end, no name ever has an A and a CNAME record at once.
THEOREM OneKindAlways == Spec => []OneKind
BY KindInit, KindStep, PTL DEF Spec

-----------------------------------------------------------------------------
(* One process that owns the file and can read it back                     *)

LEMMA SaveInit == Init => SaveInv
<1> SUFFICES ASSUME Init PROVE SaveInv
  OBVIOUS
<1>1. Durable = EmptyStore /\ disk # Torn
  BY FilesAssumption DEF Init, Durable
<1>2. AckedDurable
  BY <1>1, EmptyHasNothing DEF Init, AckedDurable
<1> QED
  BY <1>1, <1>2 DEF Init, SaveInv, SaveAtomic, AckedServed

LEMMA SaveChange ==
  ASSUME NEW d, Procs = {d}, TypeOK, SaveInv, NEW n \in Names,
         NEW record \in Records \cup {Nothing}, NEW t \in Store,
         Change(d, n, record, t), Entry(t, n) = record,
         \A other \in Names \ {n} : Entry(t, other) = Entry(mem[d], other)
  PROVE  SaveInv'
<1>1. /\ mem'[d] = t /\ pc'[d] = "create" /\ op'[d].name = n /\ op'[d].record = record
      /\ told'[n] = Unknown /\ \A other \in Names \ {n} : told'[other] = told[other]
      /\ UNCHANGED <<disk, tmp, opened>> /\ pc[d] = "idle"
  BY DEF Change, TypeOK
<1>2. AckedDurable' /\ SaveAtomic'
  BY <1>1 DEF SaveInv, AckedDurable, SaveAtomic, Durable
<1>3. AckedServed'
  BY <1>1 DEF SaveInv, AckedServed
<1> QED
  BY <1>1, <1>2, <1>3 DEF SaveInv

LEMMA SaveFail ==
  ASSUME NEW d, Procs = {d}, TypeOK, SaveInv, pc[d] # "down", Fail(d), UNCHANGED disk
  PROVE  SaveInv'
<1>1. pc'[d] = "idle" /\ opened'[d] = "none" /\ UNCHANGED <<mem, disk, told>>
  BY DEF Fail, TypeOK
<1> QED
  BY <1>1 DEF SaveInv, AckedDurable, AckedServed, SaveAtomic, Durable

LEMMA SaveSteps ==
  ASSUME NEW d, Procs = {d}, TypeOK, SaveInv, saveLocked(d)
  PROVE  SaveInv'
<1>1. CASE Fail(d) /\ pc[d] # "down"
  BY <1>1, SaveFail DEF Fail
<1>2. CASE CreateTmp(d) /\ ~Fail(d)
  <2>1. tmp' = Torn /\ opened'[d] = "tmp" /\ pc'[d] = "write" /\ UNCHANGED <<mem, disk, op, told>>
    BY <1>2 DEF CreateTmp, TypeOK
  <2> QED
    BY <1>2, <2>1 DEF CreateTmp, SaveInv, AckedDurable, AckedServed, SaveAtomic, Durable
<1>3. CASE WriteTmp(d) /\ ~Fail(d)
  <2>1. /\ tmp' = mem[d] /\ opened'[d] = "none" /\ pc'[d] = "rename"
        /\ UNCHANGED <<mem, disk, op, told>> /\ pc[d] = "write"
    BY <1>3 DEF WriteTmp, Written, TypeOK, SaveInv
  <2> QED
    BY <2>1 DEF SaveInv, AckedDurable, AckedServed, SaveAtomic, Durable
<1>4. CASE Rename(d) /\ ~Fail(d)
  <2>1. /\ disk' = mem[d] /\ opened'[d] = "none" /\ pc'[d] = "reply"
        /\ UNCHANGED <<mem, op, told>> /\ pc[d] = "rename"
    BY <1>4 DEF Rename, TypeOK, SaveInv
  <2>2. mem[d] \in Store
    BY DEF TypeOK
  <2>3. Durable' = mem[d] /\ disk' # Torn
    BY <2>1, <2>2, FilesAssumption DEF Durable
  <2>4. AckedDurable'
    BY <2>1, <2>3 DEF SaveInv, AckedServed, AckedDurable
  <2> QED
    BY <2>1, <2>3, <2>4 DEF SaveInv, AckedServed, SaveAtomic
<1>5. CASE Reply(d)
  <2>1. /\ pc[d] = "reply" /\ op[d].name \in Names
        /\ Entry(mem[d], op[d].name) = op[d].record
        /\ disk = mem[d]
    BY <1>5 DEF Reply, SaveInv
  <2>2. /\ told' = [told EXCEPT ![op[d].name] = op[d].record]
        /\ pc'[d] = "idle" /\ UNCHANGED <<mem, disk, tmp, opened>>
    BY <1>5 DEF Reply, TypeOK
  <2>3. mem[d] \in Store /\ Durable = mem[d]
    BY <2>1 DEF TypeOK, Durable
  <2>4. \A n \in Names : told'[n] # Unknown => Entry(mem[d], n) = told'[n]
    <3>1. \A n \in Names : told[n] # Unknown => Entry(mem[d], n) = told[n]
      BY <2>1 DEF SaveInv, AckedServed
    <3> QED
      BY <2>1, <2>2, <3>1 DEF TypeOK
  <2>5. AckedDurable' /\ AckedServed'
    BY <2>2, <2>3, <2>4 DEF AckedDurable, AckedServed, Durable
  <2> QED
    BY <2>1, <2>2, <2>5 DEF SaveInv, SaveAtomic
<1> QED
  BY <1>1, <1>2, <1>3, <1>4, <1>5 DEF saveLocked, CreateTmp, WriteTmp, Rename

LEMMA SaveStep ==
  ASSUME NEW d, Procs = {d}, "read" \notin Faults, TypeOK, OneKind, SaveInv, [Next]_vars
  PROVE  SaveInv'
<1>1. CASE Load(d)
  <2>1. mem'[d] = Durable /\ pc[d] = "down" /\ pc'[d] = "idle"
        /\ UNCHANGED <<disk, tmp, op, opened, told>>
    BY <1>1 DEF Load, Outcomes, Durable, TypeOK
  <2>2. AckedServed'
    BY <2>1 DEF SaveInv, AckedServed, AckedDurable
  <2> QED
    BY <2>1, <2>2 DEF SaveInv, AckedDurable, SaveAtomic, Durable
<1>2. CASE End(d)
  <2>1. pc'[d] = "down" /\ opened'[d] = "none" /\ UNCHANGED <<mem, disk, told>>
    BY <1>2 DEF End, TypeOK
  <2> QED
    BY <2>1 DEF SaveInv, AckedDurable, AckedServed, SaveAtomic, Durable
<1>3. CASE \/ \E n \in Names, ip \in Ips : AddA(d, n, ip)
           \/ \E n, target \in Names : AddCNAME(d, n, target)
           \/ \E n \in Names : Remove(d, n)
  BY <1>3, ChangeStep, SaveChange
<1>4. CASE saveLocked(d)
  BY <1>4, SaveSteps
<1>5. CASE UNCHANGED vars
  BY <1>5 DEF vars, SaveInv, AckedDurable, AckedServed, SaveAtomic, Durable
<1> QED
  BY <1>1, <1>2, <1>3, <1>4, <1>5 DEF Next

\* With one process on the file, and a file that can be read, SaveInv stays.
LEMMA SaveInvariant ==
  ASSUME NEW d, Procs = {d}, "read" \notin Faults
  PROVE  Spec => []SaveInv
<1>1. Init => TypeOK /\ OneKind /\ SaveInv
  BY KindInit, SaveInit
<1>2. (TypeOK /\ OneKind /\ SaveInv) /\ [Next]_vars => (TypeOK /\ OneKind /\ SaveInv)'
  BY KindStep, SaveStep
<1> QED
  BY <1>1, <1>2, PTL DEF Spec

\* The record file is never half written, whichever writes and renames fail and
\* whenever the process ends.
THEOREM SaveIsAtomic ==
  ASSUME NEW d, Procs = {d}, "read" \notin Faults
  PROVE  Spec => []SaveAtomic
<1>1. SaveInv => SaveAtomic
  BY DEF SaveInv
<1> QED
  BY <1>1, SaveInvariant, PTL

\* What a client was told of a name is what any restart will serve.
THEOREM AcknowledgedStays ==
  ASSUME NEW d, Procs = {d}, "read" \notin Faults
  PROVE  Spec => []AckedDurable
<1>1. SaveInv => AckedDurable
  BY DEF SaveInv
<1> QED
  BY <1>1, SaveInvariant, PTL

\* And it is what the process serves: a save of one record that fails spoils no other.
THEOREM AcknowledgedServed ==
  ASSUME NEW d, Procs = {d}, "read" \notin Faults
  PROVE  Spec => []AckedServed
<1>1. SaveInv => AckedServed
  BY DEF SaveInv
<1> QED
  BY <1>1, SaveInvariant, PTL

-----------------------------------------------------------------------------
(* The one process's store implements RecordTable                          *)

LEMMA TableStep ==
  ASSUME NEW d, Procs = {d}, "read" \notin Faults, TypeOK, OneKind, SaveInv, [Next]_vars
  PROVE  [Table!Next]_(Table!tableVars)
<1>1. Owner = d
  BY DEF Owner
<1> USE DEF Table!tableVars, Table!Next
<1>2. CASE Load(d)
  <2>1. mem'[d] = Durable /\ disk' = disk
    BY <1>2 DEF Load, Outcomes, Durable, TypeOK, SaveInv, SaveAtomic, Files
  <2>2. Table!Restart
    BY <1>1, <2>1 DEF Table!Restart, Durable
  <2> QED
    BY <2>2
<1>3. CASE \/ \E n \in Names, ip \in Ips : AddA(d, n, ip)
           \/ \E n, target \in Names : AddCNAME(d, n, target)
           \/ \E n \in Names : Remove(d, n)
  <2>1. PICK n \in Names, record \in Records \cup {Nothing}, t \in Store :
          /\ Change(d, n, record, t)
          /\ Entry(t, n) = record
          /\ \A other \in Names \ {n} : Entry(t, other) = Entry(mem[d], other)
    BY <1>3, ChangeStep
  <2>2. mem'[d] = t /\ disk' = disk
    BY <2>1 DEF Change, TypeOK
  <2>3. AsTable(t) = [AsTable(mem[d]) EXCEPT ![n] = record]
    BY <2>1 DEF AsTable
  <2>4. Table!Change
    BY <1>1, <2>2, <2>3 DEF Table!Change, Durable
  <2> QED
    BY <2>4
<1>4. CASE Rename(d) /\ ~Fail(d)
  <2>1. disk' = mem[d] /\ mem' = mem /\ mem[d] \in Store
    BY <1>4 DEF Rename, SaveInv, TypeOK
  <2>2. Table!Save
    BY <1>1, <2>1 DEF Table!Save, Durable
  <2> QED
    BY <2>2
<1>5. CASE UNCHANGED <<mem, disk>>
  BY <1>5 DEF Durable
<1>6. \/ Load(d)
      \/ (Rename(d) /\ ~Fail(d))
      \/ \E n \in Names, ip \in Ips : AddA(d, n, ip)
      \/ \E n, target \in Names : AddCNAME(d, n, target)
      \/ \E n \in Names : Remove(d, n)
      \/ UNCHANGED <<mem, disk>>
  BY DEF Next, saveLocked, End, CreateTmp, WriteTmp, Rename, Reply, Fail, SaveInv, vars
<1> QED
  BY <1>2, <1>3, <1>4, <1>5, <1>6

\* One process with a file it can read implements the table of RecordTable: at
\* most one record per name, saved as a whole, served again after a restart.
THEOREM StoreIsTable ==
  ASSUME NEW d, Procs = {d}, "read" \notin Faults
  PROVE  Spec => ImplementsTable
<1>1. Init => Table!Init
  <2> SUFFICES ASSUME Init PROVE Table!Init
    OBVIOUS
  <2>1. Owner = d
    BY DEF Owner
  <2>2. Durable = EmptyStore /\ mem[d] = EmptyStore
    BY FilesAssumption DEF Init, Durable
  <2>3. AsTable(EmptyStore) = [n \in Names |-> Nothing]
    BY EmptyHasNothing DEF AsTable
  <2> QED
    BY <2>1, <2>2, <2>3 DEF Table!Init
<1>2. Init => TypeOK /\ OneKind /\ SaveInv
  BY KindInit, SaveInit
<1>3. (TypeOK /\ OneKind /\ SaveInv) /\ [Next]_vars => (TypeOK /\ OneKind /\ SaveInv)'
  BY KindStep, SaveStep
<1>4. (TypeOK /\ OneKind /\ SaveInv) /\ [Next]_vars => [Table!Next]_(Table!tableVars)
  BY TableStep
<1> QED
  BY <1>1, <1>2, <1>3, <1>4, PTL DEF Spec, ImplementsTable, Table!Spec

-----------------------------------------------------------------------------
(* The other parts                                                         *)

\* The theorems about each part, about the instance of it DnsAndHttp is made of.
QT == INSTANCE DnsQueriesProofs WITH Names <- QueryNames
GT == INSTANCE GeoCacheProofs WITH Conns <- Visitors, Ips <- Addresses
ST == INSTANCE TestServersProofs

\* Whatever the whole does, it does to the queries what DnsQueries does.
LEMMA QueriesPart == PartsSpec => QT!Spec
<1>1. PartsInit => QT!Init
  BY DEF PartsInit, Queries!Init, QT!Init, Queries!IdleQuery, QT!IdleQuery,
     Queries!NoReply, QT!NoReply
<1>2. [PartsNext]_allVars => [Queries!Next]_(Queries!vars)
  <2> SUFFICES ASSUME [PartsNext]_allVars PROVE [Queries!Next]_(Queries!vars)
    OBVIOUS
  <2>1. CASE QueriesNext
    BY <2>1 DEF QueriesNext
  <2>2. CASE RecordsNext \/ GeoNext \/ ServersNext \/ UNCHANGED allVars
    BY <2>2 DEF RecordsNext, GeoNext, ServersNext, allVars, queryVars,
       Queries!vars
  <2> QED
    BY <2>1, <2>2 DEF PartsNext
<1>3. [Queries!Next]_(Queries!vars) => [QT!Next]_(QT!vars)
  BY DEF Queries!vars, QT!vars, Queries!NoReply, QT!NoReply, Queries!IdleQuery,
     QT!IdleQuery, Queries!NoReader, QT!NoReader, Queries!AddA, QT!AddA,
     Queries!AddCNAME, QT!AddCNAME, Queries!Remove, QT!Remove, Queries!Become,
     QT!Become, Queries!Answered, QT!Answered, Queries!handle, QT!handle,
     Queries!Walking, QT!Walking, Queries!To4, QT!To4, Queries!WalkHit, QT!WalkHit,
     Queries!WalkHop, QT!WalkHop, Queries!WalkMiss, QT!WalkMiss, Queries!answerCNAME,
     QT!answerCNAME, Queries!forward, QT!forward, Queries!Return, QT!Return,
     Queries!Step, QT!Step, Queries!Next, QT!Next, Queries!AnyIps, QT!AnyIps
<1> QED
  BY <1>1, <1>2, <1>3, PTL DEF PartsSpec, QT!Spec

\* To the GeoIP cache, what GeoCache does.
LEMMA GeoPart == PartsSpec => GT!Spec
<1>1. PartsInit => GT!Init
  BY DEF PartsInit, Geo!Init, GT!Init, Geo!Idle, GT!Idle
<1>2. [PartsNext]_allVars => [Geo!Next]_(Geo!vars)
  <2> SUFFICES ASSUME [PartsNext]_allVars PROVE [Geo!Next]_(Geo!vars)
    OBVIOUS
  <2>1. CASE GeoNext
    BY <2>1 DEF GeoNext
  <2>2. CASE RecordsNext \/ QueriesNext \/ ServersNext \/ UNCHANGED allVars
    BY <2>2 DEF RecordsNext, QueriesNext, ServersNext, allVars, geoVars,
       Geo!vars
  <2> QED
    BY <2>1, <2>2 DEF PartsNext
<1>3. [Geo!Next]_(Geo!vars) => [GT!Next]_(GT!vars)
  BY DEF Geo!Kinds, GT!Kinds, Geo!vars, GT!vars, Geo!Replies, GT!Replies, Geo!Idle,
     GT!Idle, Geo!Ttl, GT!Ttl, Geo!Fresh, GT!Fresh, Geo!Return, GT!Return,
     Geo!LookupLocal, GT!LookupLocal, Geo!LookupHit, GT!LookupHit, Geo!LookupMiss,
     GT!LookupMiss, Geo!Heard, GT!Heard, Geo!Taken, GT!Taken, Geo!fetchIPAPI,
     GT!fetchIPAPI, Geo!fetchIPWho, GT!fetchIPWho, Geo!Store, GT!Store, Geo!Tick,
     GT!Tick, Geo!Proceed, GT!Proceed, Geo!Next, GT!Next
<1> QED
  BY <1>1, <1>2, <1>3, PTL DEF PartsSpec, GT!Spec

\* And to the two servers, what TestServers does.
LEMMA ServersPart == PartsSpec => ST!Spec
<1>1. PartsInit => ST!Init
  BY DEF PartsInit, Servers!Init, ST!Init, Servers!Http!Init, ST!Http!Init,
     Servers!Http!Starts, ST!Http!Starts, Servers!Dns!Init, ST!Dns!Init,
     Servers!Dns!Starts, ST!Dns!Starts
<1>2. [PartsNext]_allVars => [Servers!Next]_(Servers!vars)
  <2> SUFFICES ASSUME [PartsNext]_allVars PROVE [Servers!Next]_(Servers!vars)
    OBVIOUS
  <2>1. CASE ServersNext
    BY <2>1 DEF ServersNext
  <2>2. CASE RecordsNext \/ QueriesNext \/ GeoNext \/ UNCHANGED allVars
    BY <2>2 DEF RecordsNext, QueriesNext, GeoNext, allVars, serverVars,
       Servers!vars, Servers!httpVars, Servers!dnsVars
  <2> QED
    BY <2>1, <2>2 DEF PartsNext
<1>3. [Servers!Next]_(Servers!vars) => [ST!Next]_(ST!vars)
  BY DEF Servers!httpVars, ST!httpVars, Servers!dnsVars, ST!dnsVars, Servers!vars,
     ST!vars, Servers!HttpNext, ST!HttpNext, Servers!DnsNext, ST!DnsNext,
     Servers!Next, ST!Next, Servers!Http!vars, ST!Http!vars, Servers!Http!Starts,
     ST!Http!Starts, Servers!Http!StartServer, ST!Http!StartServer,
     Servers!Http!Listen, ST!Http!Listen, Servers!Http!ListenFails,
     ST!Http!ListenFails, Servers!Http!Serve, ST!Http!Serve, Servers!Http!Shutdown,
     ST!Http!Shutdown, Servers!Http!Drained, ST!Http!Drained,
     Servers!Http!ShutdownDone, ST!Http!ShutdownDone, Servers!Http!ShutdownTimeout,
     ST!Http!ShutdownTimeout, Servers!Http!Refused, ST!Http!Refused,
     Servers!Http!Accept, ST!Http!Accept, Servers!Http!Finish, ST!Http!Finish,
     Servers!Http!Proceed, ST!Http!Proceed, Servers!Http!Next, ST!Http!Next,
     Servers!Dns!vars, ST!Dns!vars, Servers!Dns!Starts, ST!Dns!Starts,
     Servers!Dns!StartServer, ST!Dns!StartServer, Servers!Dns!Bind, ST!Dns!Bind,
     Servers!Dns!BindFails, ST!Dns!BindFails, Servers!Dns!StartFails,
     ST!Dns!StartFails, Servers!Dns!StartTimer, ST!Dns!StartTimer,
     Servers!Dns!Shutdown, ST!Dns!Shutdown, Servers!Dns!ShutdownDone,
     ST!Dns!ShutdownDone, Servers!Dns!Refused, ST!Dns!Refused, Servers!Dns!Receive,
     ST!Dns!Receive, Servers!Dns!Answer, ST!Dns!Answer, Servers!Dns!Proceed,
     ST!Dns!Proceed, Servers!Dns!Next, ST!Dns!Next
<1> QED
  BY <1>1, <1>2, <1>3, PTL DEF PartsSpec, ST!Spec

\* The trail and the address of a local answer are a path through the records of
\* one moment, whatever was added and removed while the query was handled (answerA,
\* lookupA).
THEOREM AnswersConsistent ==
  PartsSpec => []AnswerConsistent
<1>1. QT!ConstantsOK
  BY PartsAssumption DEF Queries!ConstantsOK, QT!ConstantsOK,
     Queries!AnyIps, QT!AnyIps
<1>2. QT!Spec => []QT!AnswerConsistent
  BY <1>1, QT!AnswersConsistent
<1>3. QT!AnswerConsistent => AnswerConsistent
  BY DEF AnswerConsistent, Queries!AnswerConsistent, QT!AnswerConsistent,
     Queries!Follows, QT!Follows, Queries!Trail, QT!Trail, Queries!IsPath, QT!IsPath,
     Queries!To4, QT!To4
<1> QED
  BY <1>2, <1>3, QueriesPart, PTL

\* An A query goes upstream (answerA) exactly when the records lead to no address in
\* fewer than MaxDepth hops: loops and chains that are too long included.
THEOREM UpstreamIffUnresolved ==
  PartsSpec => []ForwardedIffUnresolved
<1>1. QT!ConstantsOK
  BY PartsAssumption DEF Queries!ConstantsOK, QT!ConstantsOK,
     Queries!AnyIps, QT!AnyIps
<1>2. QT!Spec => []QT!ForwardedIffUnresolved
  BY <1>1, QT!UpstreamIffUnresolved
<1>3. QT!ForwardedIffUnresolved => ForwardedIffUnresolved
  BY DEF ForwardedIffUnresolved, Queries!ForwardedIffUnresolved,
     QT!ForwardedIffUnresolved, Queries!Resolves, QT!Resolves, Queries!IsPath,
     QT!IsPath
<1> QED
  BY <1>2, <1>3, QueriesPart, PTL

\* LookupGeo gives no address, and no failure without a reason, that an API gave more
\* than 24 hours ago, nor an error more than five minutes old (up to the unit a
\* lookup may last).
THEOREM AnswersRecent ==
  PartsSpec => []AnswerRecent
<1>1. GT!ConstantsOK
  BY PartsAssumption DEF Geo!ConstantsOK, GT!ConstantsOK, Geo!Entry, GT!Entry,
     Geo!Info, GT!Info, Geo!Kinds, GT!Kinds
<1>2. GT!Spec => []GT!AnswerRecent
  BY <1>1, GT!AnswersRecent
<1>3. GT!AnswerRecent => AnswerRecent
  BY DEF AnswerRecent, Geo!AnswerRecent, GT!AnswerRecent, Geo!Ttl, GT!Ttl, Geo!Taken,
     GT!Taken
<1> QED
  BY <1>2, <1>3, GeoPart, PTL

\* Once a lookup of an address has returned, LookupGeo does not ask the APIs about it
\* again for five minutes.
THEOREM ApisSpared ==
  PartsSpec => NoRefetch
<1>1. GT!ConstantsOK
  BY PartsAssumption DEF Geo!ConstantsOK, GT!ConstantsOK, Geo!Entry, GT!Entry,
     Geo!Info, GT!Info, Geo!Kinds, GT!Kinds
<1>2. GT!Spec => GT!NoRefetch
  BY <1>1, GT!ApisSpared
<1>3. GT!NoRefetch => NoRefetch
  BY DEF NoRefetch, Geo!NoRefetch, GT!NoRefetch, Geo!Asks, GT!Asks, Geo!vars, GT!vars
<1> QED
  BY <1>2, <1>3, GeoPart, PTL

\* A failure displaces an address in geoCache only after its 24 hours, or as the end
\* of a lookup that began before the address came in.
THEOREM HitsKept ==
  PartsSpec => HitKept
<1>1. GT!ConstantsOK
  BY PartsAssumption DEF Geo!ConstantsOK, GT!ConstantsOK, Geo!Entry, GT!Entry,
     Geo!Info, GT!Info, Geo!Kinds, GT!Kinds
<1>2. GT!Spec => GT!HitKept
  BY <1>1, GT!HitsKept
<1>3. GT!HitKept => HitKept
  BY DEF HitKept, Geo!HitKept, GT!HitKept, Geo!Asks, GT!Asks, Geo!vars, GT!vars
<1> QED
  BY <1>2, <1>3, GeoPart, PTL

\* Whoever holds the HTTP port can be stopped (httpd Stop): it is the server s.srv
\* points to.
THEOREM PortOwned ==
  ASSUME "late" \notin HttpFaults
  PROVE  PartsSpec => []PortHasOwner
<1>1. ST!ConstantsOK
  BY PartsAssumption DEF Servers!ConstantsOK, ST!ConstantsOK,
     Servers!Http!ConstantsOK, ST!Http!ConstantsOK, Servers!Dns!ConstantsOK,
     ST!Dns!ConstantsOK
<1>2. ST!Spec => []ST!PortHasOwner
  BY <1>1, ST!PortOwned
<1>3. ST!PortHasOwner => PortHasOwner
  BY DEF PortHasOwner, Servers!PortHasOwner, ST!PortHasOwner,
     Servers!Http!PortHasOwner, ST!Http!PortHasOwner
<1> QED
  BY <1>2, <1>3, ServersPart, PTL

\* The HTTP and the DNS server implement Service: each reports itself running only
\* once it is bound, and stopped only when its listener and everybody it let in are
\* gone (Stop of httpd and of dns).
THEOREM BothAreServices ==
  ASSUME "late" \notin HttpFaults, "slow" \notin DnsFaults
  PROVE  PartsSpec => ServersAreServices
<1>1. ST!ConstantsOK
  BY PartsAssumption DEF Servers!ConstantsOK, ST!ConstantsOK,
     Servers!Http!ConstantsOK, ST!Http!ConstantsOK, Servers!Dns!ConstantsOK,
     ST!Dns!ConstantsOK
<1>2. ST!Spec => ST!ServersAreServices
  BY <1>1, ST!BothAreServices
<1>3. ST!ServersAreServices => ServersAreServices
  BY DEF ServersAreServices, Servers!ServersAreServices, ST!ServersAreServices,
     Servers!Http!ImplementsService, ST!Http!ImplementsService, Servers!Http!Starts,
     ST!Http!Starts, Servers!Dns!ImplementsService, ST!Dns!ImplementsService,
     Servers!Dns!Listening, ST!Dns!Listening, Servers!Dns!Starts, ST!Dns!Starts,
     Servers!Http!AsService!serviceVars, ST!Http!AsService!serviceVars,
     Servers!Http!AsService!Init, ST!Http!AsService!Init,
     Servers!Http!AsService!Start, ST!Http!AsService!Start,
     Servers!Http!AsService!Close, ST!Http!AsService!Close,
     Servers!Http!AsService!Stop, ST!Http!AsService!Stop,
     Servers!Http!AsService!Admit, ST!Http!AsService!Admit,
     Servers!Http!AsService!Leave, ST!Http!AsService!Leave,
     Servers!Http!AsService!Next, ST!Http!AsService!Next, Servers!Http!AsService!Spec,
     ST!Http!AsService!Spec, Servers!Dns!AsService!serviceVars,
     ST!Dns!AsService!serviceVars, Servers!Dns!AsService!Init, ST!Dns!AsService!Init,
     Servers!Dns!AsService!Start, ST!Dns!AsService!Start, Servers!Dns!AsService!Close,
     ST!Dns!AsService!Close, Servers!Dns!AsService!Stop, ST!Dns!AsService!Stop,
     Servers!Dns!AsService!Admit, ST!Dns!AsService!Admit, Servers!Dns!AsService!Leave,
     ST!Dns!AsService!Leave, Servers!Dns!AsService!Next, ST!Dns!AsService!Next,
     Servers!Dns!AsService!Spec, ST!Dns!AsService!Spec
<1> QED
  BY <1>2, <1>3, ServersPart, PTL
=============================================================================
