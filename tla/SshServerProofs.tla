---------------------------- MODULE SshServerProofs ----------------------------
(***************************************************************************)
(* What the SSH mock guarantees for any number of connections, restarts    *)
(* and keys: the server that says it runs can be reached, the one that     *)
(* says it does not holds no port, nobody is let in by a stopped server,   *)
(* the host key a client was shown stays, and the table of sessions lists  *)
(* who is there.                                                           *)
(***************************************************************************)
EXTENDS SshServer, TLAPS

LEMMA NoConnShape == NoConn \in Conn
  BY ConstantsAssumption DEF Conn, NoConn

\* The changes a connection can go through leave it a connection.
LEMMA ConnShape ==
  ASSUME NEW r \in Conn
  PROVE  /\ \A s \in {"queued", "handshake", "session"} : [r EXCEPT !.pc = s] \in Conn
         /\ \A s \in {"open", "exited"} : [r EXCEPT !.shell = s] \in Conn
         /\ [r EXCEPT !.hungup = TRUE] \in Conn
         /\ \A i \in 0 .. MaxIDs : [r EXCEPT !.pc = "session", !.sid = i] \in Conn
         /\ \A l \in 0 .. MaxStarts : [r EXCEPT !.pc = "queued", !.ln = l] \in Conn
  BY DEF Conn

LEMMA SetConnType ==
  ASSUME TypeOK, NEW c \in Conns, NEW r \in Conn, SetConn(c, r),
         nextID' \in 0 .. MaxIDs, sessions' \subseteq (1 .. MaxIDs) \X Conns,
         shown' \in 0 .. MaxKeys
  PROVE  TypeOK'
<1>1. conn' \in [Conns -> Conn]
  BY DEF TypeOK, SetConn
<1> QED
  BY <1>1 DEF TypeOK, SetConn

LEMMA TypeStep == TypeOK /\ [Next]_vars => TypeOK'
<1> SUFFICES ASSUME TypeOK, [Next]_vars PROVE TypeOK'
  OBVIOUS
<1>a. /\ loop \in [Listeners -> Loop]
      /\ conn \in [Conns -> Conn]
      /\ nextID \in 0 .. MaxIDs
      /\ MaxIDs \in Nat /\ MaxStarts \in Nat
      /\ listener \in 0 .. MaxStarts
      /\ open \subseteq 0 .. MaxStarts
      /\ starts \in 0 .. MaxStarts
  BY ConstantsAssumption DEF TypeOK
<1>1. CASE NewServer
  BY <1>1 DEF NewServer, TypeOK
<1>2. CASE End
  <2>1. conn' \in [Conns -> Conn]
    BY <1>2, NoConnShape DEF End
  <2>2. NoLoop \in Loop
    BY <1>a DEF Loop, NoLoop
  <2>3. loop' \in [Listeners -> Loop]
    BY <1>2, <2>2 DEF End
  <2> QED
    <3>1. /\ pc' = "down" /\ key' = 0 /\ config' = 0 /\ running' = FALSE
          /\ listener' = 0 /\ open' = {} /\ sessions' = {} /\ nextID' = 0
          /\ ends' = ends + 1 /\ ends < MaxEnds
          /\ UNCHANGED <<keyFile, starts, keys, shown>>
      BY <1>2 DEF End
    <3>2. /\ pc' \in {"down", "free", "create", "write", "listen"}
          /\ pc' \notin {"create", "write", "listen"}
          /\ running' \in BOOLEAN
      BY <3>1
    <3>3. /\ key' \in 0 .. MaxKeys /\ config' \in 0 .. MaxKeys
          /\ nextID' \in 0 .. MaxIDs /\ listener' \in 0 .. starts'
          /\ ends' \in 0 .. MaxEnds
      BY <3>1, ConstantsAssumption DEF TypeOK
    <3>4. open' \subseteq 1 .. starts' /\ sessions' \subseteq (1 .. MaxIDs) \X Conns
      BY <3>1
    <3> QED
      BY <2>1, <2>3, <3>1, <3>2, <3>3, <3>4 DEF TypeOK
<1>3. CASE LoadOrGenerateKey
  BY <1>3, ConstantsAssumption DEF LoadOrGenerateKey, TypeOK
<1>4. CASE PersistCreate
  BY <1>4, ConstantsAssumption DEF PersistCreate, TypeOK
<1>5. CASE PersistWrite
  BY <1>5, ConstantsAssumption DEF PersistWrite, TypeOK
<1>6. CASE Listen
  <2>1. CASE UNCHANGED <<starts, listener, open, running, loop>>
    BY <1>6, <2>1, ConstantsAssumption DEF Listen, TypeOK
  <2>2. ASSUME starts' = starts + 1, listener' = starts', open' = open \cup {starts'},
               running' = TRUE,
               loop' = [loop EXCEPT ![starts'] = [pc |-> "read", ln |-> 0]]
        PROVE  TypeOK'
    <3>1. [pc |-> "read", ln |-> 0] \in Loop
      BY <1>a DEF Loop
    <3>2. loop' \in [Listeners -> Loop]
      BY <1>a, <2>2, <3>1
    <3>3. starts' \in 0 .. MaxStarts
      BY <1>6, <1>a, <2>2 DEF Listen, TypeOK
    <3> QED
      BY <1>6, <2>2, <3>2, <3>3, ConstantsAssumption DEF Listen, TypeOK
  <2> QED
    BY <1>6, <2>1, <2>2 DEF Listen
<1>7. CASE Stop
  <2>1. conn' \in [Conns -> Conn]
    BY <1>7, <1>a, NoConnShape DEF Stop
  <2> QED
    <3>1. /\ pc = "free" /\ open' = open \ {listener} /\ listener' = 0 /\ running' = FALSE
          /\ UNCHANGED <<pc, key, keyFile, config, loop, sessions, nextID, starts,
                         keys, ends, shown>>
      BY <1>7 DEF Stop
    <3>2. listener' \in 0 .. starts' /\ open' \subseteq 1 .. starts'
      BY <3>1, ConstantsAssumption DEF TypeOK
    <3>3. running' \in BOOLEAN
      BY <3>1
    <3> QED
      BY <2>1, <3>1, <3>2, <3>3 DEF TypeOK
<1>8. CASE Refused
  BY <1>8 DEF Refused, vars, TypeOK
<1>9. ASSUME NEW k \in Listeners, acceptLoop(k) PROVE TypeOK'
  <2>1. CASE LoopRead(k)
    <3>1. /\ [pc |-> "ended", ln |-> 0] \in Loop
          /\ [pc |-> "accept", ln |-> listener] \in Loop
      BY <1>a DEF Loop
    <3>2. loop' \in [Listeners -> Loop]
      BY <1>a, <2>1, <3>1 DEF LoopRead
    <3> QED
      BY <2>1, <3>2 DEF LoopRead, TypeOK
  <2>2. CASE LoopAccept(k)
    <3>1. [pc |-> "read", ln |-> 0] \in Loop
      BY <1>a DEF Loop
    <3>2. loop' \in [Listeners -> Loop]
      BY <1>a, <2>2, <3>1 DEF LoopAccept
    <3>3. PICK c \in Conns : conn' = [conn EXCEPT ![c].pc = "handshake"]
      BY <2>2 DEF LoopAccept, Taken
    <3>4. [conn[c] EXCEPT !.pc = "handshake"] \in Conn
      BY <1>a, ConnShape
    <3>5. conn' \in [Conns -> Conn]
      BY <1>a, <3>3, <3>4
    <3> QED
      BY <2>2, <3>2, <3>5 DEF LoopAccept, TypeOK
  <2>3. CASE LoopError(k)
    <3>1. [pc |-> "ended", ln |-> 0] \in Loop
      BY <1>a DEF Loop
    <3>2. loop' \in [Listeners -> Loop]
      BY <1>a, <2>3, <3>1 DEF LoopError
    <3> QED
      BY <2>3, <3>2 DEF LoopError, TypeOK
  <2> QED
    BY <1>9, <2>1, <2>2, <2>3 DEF acceptLoop
<1>10. ASSUME NEW c \in Conns, ConnStep(c) PROVE TypeOK'
  <2>a. conn[c] \in Conn
    BY <1>a
  <2>b. shown \in 0 .. MaxKeys /\ config \in 0 .. MaxKeys
        /\ sessions \subseteq (1 .. MaxIDs) \X Conns
    BY DEF TypeOK
  <2>1. CASE Connect(c)
    <3>1. PICK l \in open : SetConn(c, [NoConn EXCEPT !.pc = "queued", !.ln = l])
      BY <2>1 DEF Connect
    <3>2. [NoConn EXCEPT !.pc = "queued", !.ln = l] \in Conn
      BY <1>a, ConnShape, NoConnShape
    <3>3. UNCHANGED <<sessions, nextID, shown>>
      BY <2>1 DEF Connect
    <3> QED
      BY <1>a, <2>b, <3>1, <3>2, <3>3, SetConnType
  <2>2. CASE HangUp(c)
    <3>1. [conn[c] EXCEPT !.hungup = TRUE] \in Conn
      BY <2>a, ConnShape
    <3> QED
      BY <1>a, <2>b, <2>2, <3>1, SetConnType DEF HangUp
  <2>3. CASE Handshake(c)
    <3>1. nextID + 1 \in 1 .. MaxIDs /\ nextID + 1 \in 0 .. MaxIDs
      BY <1>a, <2>3 DEF Handshake
    <3>2. [conn[c] EXCEPT !.pc = "session", !.sid = nextID + 1] \in Conn
      BY <2>a, <3>1, ConnShape
    <3>3. sessions' \subseteq (1 .. MaxIDs) \X Conns
      BY <2>b, <2>3, <3>1 DEF Handshake
    <3>4. nextID' \in 0 .. MaxIDs /\ shown' \in 0 .. MaxKeys
      BY <2>b, <2>3, <3>1 DEF Handshake
    <3>5. SetConn(c, [conn[c] EXCEPT !.pc = "session", !.sid = nextID + 1])
      BY <2>3 DEF Handshake
    <3> QED
      BY <3>2, <3>3, <3>4, <3>5, SetConnType
  <2>4. CASE OpenShell(c)
    <3>1. [conn[c] EXCEPT !.shell = "open"] \in Conn
      BY <2>a, ConnShape
    <3> QED
      BY <1>a, <2>b, <2>4, <3>1, SetConnType DEF OpenShell
  <2>5. CASE ExitShell(c)
    <3>1. [conn[c] EXCEPT !.shell = "exited"] \in Conn
      BY <2>a, ConnShape
    <3> QED
      BY <1>a, <2>b, <2>5, <3>1, SetConnType DEF ExitShell
  <2>6. CASE HandlerEnd(c)
    BY <1>a, <2>b, <2>6, NoConnShape, SetConnType DEF HandlerEnd
  <2> QED
    BY <1>10, <2>1, <2>2, <2>3, <2>4, <2>5, <2>6 DEF ConnStep
<1>11. CASE UNCHANGED vars
  BY <1>11 DEF vars, TypeOK
<1> QED
  BY <1>1, <1>2, <1>3, <1>4, <1>5, <1>6, <1>7, <1>8, <1>9, <1>10, <1>11
  DEF Next, StartStep

\* The state of the SSH server keeps its shape.
THEOREM TypeCorrect == Spec => []TypeOK
<1>1. ASSUME Init PROVE TypeOK
  <2>1. NoLoop \in Loop
    BY ConstantsAssumption DEF Loop, NoLoop
  <2>2. loop \in [Listeners -> Loop] /\ conn \in [Conns -> Conn]
    BY <1>1, <2>1, NoConnShape DEF Init
  <2>3. /\ pc = "down" /\ key = 0 /\ keyFile = 0 /\ config = 0
        /\ running = FALSE /\ listener = 0 /\ open = {} /\ sessions = {} /\ nextID = 0
        /\ starts = 0 /\ keys = 0 /\ ends = 0 /\ shown = 0
    BY <1>1 DEF Init
  <2>4. /\ open \subseteq 1 .. starts /\ sessions \subseteq (1 .. MaxIDs) \X Conns
        /\ running \in BOOLEAN
    BY <2>3
  <2>5. /\ key \in 0 .. MaxKeys /\ keys \in 0 .. MaxKeys /\ config \in 0 .. MaxKeys
        /\ shown \in 0 .. MaxKeys /\ keyFile \in (0 .. MaxKeys) \cup {Torn}
        /\ starts \in 0 .. MaxStarts /\ listener \in 0 .. starts
        /\ nextID \in 0 .. MaxIDs /\ ends \in 0 .. MaxEnds
    BY <2>3, ConstantsAssumption
  <2> QED
    BY <2>2, <2>3, <2>4, <2>5 DEF TypeOK
<1> QED
  BY <1>1, TypeStep, PTL DEF Spec

-----------------------------------------------------------------------------
LEMMA ListenerStep ==
  ASSUME "accept" \notin Faults, TypeOK, ListenerInv, [Next]_vars
  PROVE  ListenerInv'
<1> USE ConstantsAssumption
        DEF TypeOK, Listeners, Loop, Conn, NoLoop, NoConn, ListenerInv, Serves
<1>1. CASE NewServer
  BY <1>1 DEF NewServer
<1>2. CASE End
  BY <1>2 DEF End
<1>3. CASE LoadOrGenerateKey
  BY <1>3 DEF LoadOrGenerateKey
<1>4. CASE PersistCreate
  BY <1>4 DEF PersistCreate
<1>5. CASE PersistWrite
  BY <1>5 DEF PersistWrite
<1>6. CASE Listen
  <2>1. CASE starts' = starts + 1
    BY <1>6, <2>1 DEF Listen
  <2>2. CASE UNCHANGED <<starts, listener, open, running, loop>>
    BY <1>6, <2>2 DEF Listen
  <2> QED
    BY <1>6, <2>1, <2>2 DEF Listen
<1>7. CASE Stop
  BY <1>7 DEF Stop
<1>8. CASE Refused
  BY <1>8 DEF Refused, vars
<1>9. ASSUME NEW k \in Listeners, acceptLoop(k) PROVE ListenerInv'
  <2>1. CASE LoopRead(k)
    BY <2>1 DEF LoopRead
  <2>2. CASE LoopAccept(k)
    BY <2>2 DEF LoopAccept, Taken
  <2>3. CASE LoopError(k)
    BY <2>3 DEF LoopError
  <2> QED
    BY <1>9, <2>1, <2>2, <2>3 DEF acceptLoop
<1>10. ASSUME NEW c \in Conns, ConnStep(c) PROVE ListenerInv'
  <2>1. CASE Connect(c)
    BY <2>1 DEF Connect, SetConn
  <2>2. CASE HangUp(c)
    BY <2>2 DEF HangUp, SetConn
  <2>3. CASE Handshake(c)
    BY <2>3 DEF Handshake, SetConn
  <2>4. CASE OpenShell(c)
    BY <2>4 DEF OpenShell, SetConn
  <2>5. CASE ExitShell(c)
    BY <2>5 DEF ExitShell, SetConn
  <2>6. CASE HandlerEnd(c)
    BY <2>6 DEF HandlerEnd, SetConn
  <2> QED
    BY <1>10, <2>1, <2>2, <2>3, <2>4, <2>5, <2>6 DEF ConnStep
<1>11. CASE UNCHANGED vars
  BY <1>11 DEF vars
<1> QED
  BY <1>1, <1>2, <1>3, <1>4, <1>5, <1>6, <1>7, <1>8, <1>9, <1>10, <1>11
  DEF Next, StartStep

LEMMA ListenerImplies == TypeOK /\ ListenerInv => RunningIffActive
  BY ConstantsAssumption DEF TypeOK, ListenerInv, RunningIffActive, Active, Listeners

\* As long as Accept fails only on a closed listener, a server that says it runs
\* has an open listener and a loop to serve it, and one that says it does not
\* run holds no port: for any number of Starts, Stops, loops and crashes.
THEOREM RunsWhenItSays ==
  ASSUME "accept" \notin Faults
  PROVE  Spec => []RunningIffActive
<1>1. Init => ListenerInv
  BY DEF Init, ListenerInv, NoConn
<1>2. TypeOK /\ ListenerInv /\ [Next]_vars => ListenerInv'
  BY ListenerStep
<1> QED
  BY <1>1, <1>2, TypeCorrect, ListenerImplies, PTL DEF Spec

-----------------------------------------------------------------------------
LEMMA KeyStep ==
  ASSUME Faults \cap {"read", "write"} = {}, TypeOK, KeyInv, [Next]_vars
  PROVE  KeyInv'
<1> USE ConstantsAssumption DEF TypeOK, KeyInv, HostKeyStable
<1>1. CASE NewServer
  BY <1>1 DEF NewServer
<1>2. CASE End
  BY <1>2 DEF End
<1>3. CASE LoadOrGenerateKey
  BY <1>3 DEF LoadOrGenerateKey
<1>4. CASE PersistCreate
  <2>1. Outcomes("write") = {TRUE}
    BY DEF Outcomes
  <2>2. /\ pc = "create" /\ pc' = "write" /\ keyFile' = Torn
        /\ UNCHANGED <<key, config, shown>>
    BY <1>4, <2>1 DEF PersistCreate
  <2> QED
    BY <2>2
<1>5. CASE PersistWrite
  <2>1. Outcomes("write") = {TRUE}
    BY DEF Outcomes
  <2>2. /\ pc = "write" /\ pc' = "listen" /\ keyFile' = key
        /\ UNCHANGED <<key, config, shown>>
    BY <1>5, <2>1 DEF PersistWrite
  <2> QED
    BY <2>2
<1>6. CASE Listen
  BY <1>6 DEF Listen
<1>7. CASE Stop
  BY <1>7 DEF Stop
<1>8. CASE Refused
  BY <1>8 DEF Refused, vars
<1>9. ASSUME NEW k \in Listeners, acceptLoop(k) PROVE KeyInv'
  BY <1>9 DEF acceptLoop, LoopRead, LoopAccept, LoopError
<1>10. ASSUME NEW c \in Conns, ConnStep(c) PROVE KeyInv'
  BY <1>10 DEF ConnStep, Connect, HangUp, Handshake, OpenShell, ExitShell,
               HandlerEnd, SetConn
<1>11. CASE UNCHANGED vars
  BY <1>11 DEF vars
<1> QED
  BY <1>1, <1>2, <1>3, <1>4, <1>5, <1>6, <1>7, <1>8, <1>9, <1>10, <1>11
  DEF Next, StartStep

\* As long as the key file can be read and written, the host key a client was
\* shown is the one on disk, hence the one of every later start, wherever the
\* process ended.
THEOREM HostKeyKept ==
  ASSUME Faults \cap {"read", "write"} = {}
  PROVE  Spec => []HostKeyStable
<1>1. Init => KeyInv
  BY DEF Init, KeyInv, HostKeyStable
<1>2. TypeOK /\ KeyInv /\ [Next]_vars => KeyInv'
  BY KeyStep
<1>3. KeyInv => HostKeyStable
  BY DEF KeyInv
<1> QED
  BY <1>1, <1>2, <1>3, TypeCorrect, PTL DEF Spec

-----------------------------------------------------------------------------
\* A step that lets every connection keep its session or its lack of one, and gives
\* out no id, leaves the table as it is.
LEMMA SessionsKept ==
  ASSUME TypeOK, SessionInv, UNCHANGED <<sessions, nextID>>,
         \A c \in Conns : /\ conn'[c].pc = "session" <=> conn[c].pc = "session"
                          /\ conn'[c].sid = conn[c].sid
  PROVE  SessionInv'
  BY DEF SessionInv

LEMMA SessionStep ==
  ASSUME TypeOK, SessionInv, [Next]_vars
  PROVE  SessionInv'
<1>1. CASE UNCHANGED <<conn, sessions, nextID>>
  BY <1>1 DEF SessionInv
<1>2. CASE End
  BY <1>2 DEF End, SessionInv, NoConn
<1>3. CASE Stop
  <2>1. \A c \in Conns : conn'[c] = conn[c] \/ (conn[c].pc = "queued" /\ conn'[c] = NoConn)
    BY <1>3 DEF Stop
  <2>2. \A c \in Conns : /\ conn'[c].pc = "session" <=> conn[c].pc = "session"
                         /\ conn'[c].sid = conn[c].sid
    BY <2>1 DEF NoConn, SessionInv
  <2> QED
    BY <1>3, <2>2, SessionsKept DEF Stop
<1>4. ASSUME NEW k \in Listeners, LoopAccept(k) PROVE SessionInv'
  <2>1. PICK c \in Conns : conn[c].pc = "queued" /\ conn' = [conn EXCEPT ![c].pc = "handshake"]
    BY <1>4 DEF LoopAccept, Taken
  <2>2. \A d \in Conns : /\ conn'[d].pc = "session" <=> conn[d].pc = "session"
                         /\ conn'[d].sid = conn[d].sid
    BY <2>1 DEF TypeOK, Conn
  <2> QED
    BY <1>4, <2>2, SessionsKept DEF LoopAccept
<1>5. ASSUME NEW c \in Conns, Connect(c) \/ HangUp(c) \/ OpenShell(c) \/ ExitShell(c)
      PROVE  SessionInv'
  <2>1. UNCHANGED <<sessions, nextID>>
    BY <1>5 DEF Connect, HangUp, OpenShell, ExitShell
  <2>2. /\ \A d \in Conns \ {c} : conn'[d] = conn[d]
        /\ conn'[c].pc = "session" <=> conn[c].pc = "session"
        /\ conn'[c].sid = conn[c].sid
    <3>1. CASE Connect(c)
      BY <3>1 DEF Connect, SetConn, NoConn, TypeOK, SessionInv
    <3>2. CASE HangUp(c)
      BY <3>2 DEF HangUp, SetConn, TypeOK, Conn
    <3>3. CASE OpenShell(c)
      BY <3>3 DEF OpenShell, SetConn, TypeOK, Conn
    <3>4. CASE ExitShell(c)
      BY <3>4 DEF ExitShell, SetConn, TypeOK, Conn
    <3> QED
      BY <1>5, <3>1, <3>2, <3>3, <3>4
  <2> QED
    BY <2>1, <2>2, SessionsKept
<1>6. ASSUME NEW c \in Conns, Handshake(c) PROVE SessionInv'
  <2>1. /\ \A d \in Conns \ {c} : conn'[d] = conn[d]
        /\ conn'[c].pc = "session" /\ conn'[c].sid = nextID + 1
        /\ conn[c].pc = "handshake" /\ conn[c].sid = 0
        /\ nextID' = nextID + 1 /\ nextID \in Nat
        /\ sessions' = sessions \cup {<<nextID + 1, c>>}
    BY <1>6, ConstantsAssumption DEF Handshake, SetConn, TypeOK, Conn, SessionInv
  <2>2. \A d \in Conns \ {c} : conn[d].sid \in 0 .. nextID
    BY <2>1 DEF SessionInv
  <2>3. sessions' = {s \in (1 .. nextID') \X Conns :
                       conn'[s[2]].pc = "session" /\ conn'[s[2]].sid = s[1]}
    <3>1. ASSUME NEW i \in 1 .. nextID', NEW d \in Conns
          PROVE  <<i, d>> \in sessions' <=> conn'[d].pc = "session" /\ conn'[d].sid = i
      <4>1. CASE d = c
        BY <2>1, <4>1 DEF SessionInv
      <4>2. CASE d # c
        BY <2>1, <2>2, <4>2 DEF SessionInv
      <4> QED
        BY <4>1, <4>2
    <3>2. sessions' \subseteq (1 .. nextID') \X Conns
      BY <2>1 DEF SessionInv
    <3> QED
      BY <3>1, <3>2
  <2>4. \A d \in Conns : IF conn'[d].pc = "session" THEN conn'[d].sid \in 1 .. nextID'
                                                  ELSE conn'[d].sid = 0
    BY <2>1 DEF SessionInv
  <2>5. \A d, e \in Conns : conn'[d].sid # 0 /\ conn'[d].sid = conn'[e].sid => d = e
    BY <2>1, <2>2 DEF SessionInv
  <2> QED
    BY <2>3, <2>4, <2>5 DEF SessionInv
<1>7. ASSUME NEW c \in Conns, HandlerEnd(c) PROVE SessionInv'
  <2>1. /\ \A d \in Conns \ {c} : conn'[d] = conn[d]
        /\ conn'[c].pc = "none" /\ conn'[c].sid = 0
        /\ nextID' = nextID
        /\ sessions' = {s \in sessions : s[1] # conn[c].sid}
    BY <1>7 DEF HandlerEnd, SetConn, NoConn, TypeOK
  <2>2. sessions' = {s \in (1 .. nextID') \X Conns :
                       conn'[s[2]].pc = "session" /\ conn'[s[2]].sid = s[1]}
    <3>1. ASSUME NEW i \in 1 .. nextID', NEW d \in Conns
          PROVE  <<i, d>> \in sessions' <=> conn'[d].pc = "session" /\ conn'[d].sid = i
      <4>1. CASE d = c
        BY <2>1, <4>1 DEF SessionInv
      <4>2. CASE d # c
        BY <2>1, <4>2 DEF SessionInv
      <4> QED
        BY <4>1, <4>2
    <3>2. sessions' \subseteq (1 .. nextID') \X Conns
      BY <2>1 DEF SessionInv
    <3> QED
      BY <3>1, <3>2
  <2>3. /\ \A d \in Conns : IF conn'[d].pc = "session" THEN conn'[d].sid \in 1 .. nextID'
                                                     ELSE conn'[d].sid = 0
        /\ \A d, e \in Conns : conn'[d].sid # 0 /\ conn'[d].sid = conn'[e].sid => d = e
    BY <2>1 DEF SessionInv
  <2> QED
    BY <2>2, <2>3 DEF SessionInv
<1>8. CASE NewServer \/ StartStep \/ Refused \/ UNCHANGED vars
  BY <1>1, <1>8 DEF NewServer, StartStep, LoadOrGenerateKey, PersistCreate, PersistWrite,
                    Listen, Refused, vars
<1>9. ASSUME NEW k \in Listeners, LoopRead(k) \/ LoopError(k) PROVE SessionInv'
  BY <1>1, <1>9 DEF LoopRead, LoopError
<1> QED
  BY <1>2, <1>3, <1>4, <1>5, <1>6, <1>7, <1>8, <1>9 DEF Next, acceptLoop, ConnStep

\* `ssh who` lists every connection past its handshake, once, under an id of its
\* own, and nobody else: for any number of connections, Stops and restarts.
THEOREM SessionsListed == Spec => []SessionsExact
<1>1. Init => SessionInv
  BY DEF Init, SessionInv, NoConn
<1>2. TypeOK /\ SessionInv /\ [Next]_vars => SessionInv'
  BY SessionStep
<1>3. TypeOK /\ SessionInv => SessionsExact
  <2> SUFFICES ASSUME TypeOK, SessionInv PROVE SessionsExact
    OBVIOUS
  <2>1. \A c \in Conns : conn[c].pc = "session" => <<conn[c].sid, c>> \in sessions
    BY DEF SessionInv
  <2>2. {s[2] : s \in sessions} = {c \in Conns : conn[c].pc = "session"}
    <3>1. ASSUME NEW s \in sessions PROVE s[2] \in Conns /\ conn[s[2]].pc = "session"
      BY DEF SessionInv
    <3>2. ASSUME NEW c \in Conns, conn[c].pc = "session"
          PROVE  \E s \in sessions : s[2] = c
      <4>1. <<conn[c].sid, c>> \in sessions /\ <<conn[c].sid, c>>[2] = c
        BY <2>1, <3>2
      <4> QED
        BY <4>1
    <3> QED
      BY <3>1, <3>2
  <2>3. \A s \in sessions : conn[s[2]].sid = s[1] /\ s[1] <= nextID
    BY DEF SessionInv, TypeOK
  <2>4. \A s, t \in sessions : s[1] = t[1] \/ s[2] = t[2] => s = t
    BY DEF SessionInv
  <2> QED
    BY <2>2, <2>3, <2>4 DEF SessionsExact
<1> QED
  BY <1>1, <1>2, <1>3, TypeCorrect, PTL DEF Spec

-----------------------------------------------------------------------------
LEMMA ActiveIsRunning ==
  ASSUME TypeOK, ListenerInv
  PROVE  \/ running = TRUE /\ Active = TRUE
         \/ running = FALSE /\ Active = FALSE
  BY ConstantsAssumption DEF TypeOK, ListenerInv, Active, Listeners

Admitted == {c \in Conns : conn[c].pc \in {"handshake", "session"}}

\* What each step of the SSH server is to Service.
LEMMA ServiceStep ==
  ASSUME "accept" \notin Faults, TypeOK, ListenerInv, TypeOK', ListenerInv', [Next]_vars
  PROVE  [AsService!Next]_(AsService!serviceVars)
<1>1. \/ running = TRUE /\ Active = TRUE
      \/ running = FALSE /\ Active = FALSE
  BY ActiveIsRunning
<1>2. \/ running' = TRUE /\ Active' = TRUE
      \/ running' = FALSE /\ Active' = FALSE
  BY ConstantsAssumption DEF TypeOK, ListenerInv, Active, Listeners
<1>3. running \in BOOLEAN /\ running' \in BOOLEAN
  BY DEF TypeOK
<1>4. ASSUME UNCHANGED <<running, conn>> PROVE UNCHANGED AsService!serviceVars
  BY <1>1, <1>2, <1>4 DEF AsService!serviceVars
<1>5. ASSUME UNCHANGED running, Admitted' \in SUBSET Admitted PROVE AsService!Next
  BY <1>1, <1>2, <1>5 DEF AsService!Next, AsService!Leave, Admitted
<1>6. ASSUME running, ~running', Admitted' \in SUBSET Admitted PROVE AsService!Next
  BY <1>1, <1>2, <1>3, <1>6 DEF AsService!Next, AsService!Stop, Admitted
<1>7. CASE NewServer \/ LoadOrGenerateKey \/ PersistCreate \/ PersistWrite \/ Refused
  BY <1>4, <1>7 DEF NewServer, LoadOrGenerateKey, PersistCreate, PersistWrite, Refused, vars
<1>8. CASE End
  <2>1. ~running' /\ Admitted' = {}
    BY <1>8 DEF End, NoConn, Admitted
  <2>2. CASE running
    BY <1>6, <2>1, <2>2
  <2>3. CASE ~running
    BY <1>3, <1>5, <2>1, <2>3
  <2> QED
    BY <2>2, <2>3
<1>9. CASE Listen
  <2>1. UNCHANGED conn
    BY <1>9 DEF Listen
  <2>2. CASE running' = TRUE
    <3>1. ~running
      BY <1>9 DEF Listen, ListenerInv
    <3> QED
      BY <1>1, <1>2, <1>3, <2>1, <2>2, <3>1 DEF AsService!Next, AsService!Start
  <2>3. CASE running' = running
    BY <1>4, <2>1, <2>3
  <2> QED
    BY <1>9, <2>2, <2>3 DEF Listen
<1>10. CASE Stop
  <2>1. \A c \in Conns : conn'[c].pc \in {"handshake", "session"} => conn'[c] = conn[c]
    BY <1>10 DEF Stop, NoConn
  <2>2. Admitted' \in SUBSET Admitted
    BY <2>1 DEF Admitted
  <2> QED
    BY <1>6, <1>10, <2>2 DEF Stop
<1>11. ASSUME NEW k \in Listeners, acceptLoop(k)
       PROVE  [AsService!Next]_(AsService!serviceVars)
  <2>1. CASE LoopRead(k) \/ LoopError(k)
    BY <1>4, <2>1 DEF LoopRead, LoopError
  <2>2. CASE LoopAccept(k)
    <3>1. PICK c \in Conns : /\ conn[c].pc = "queued"
                             /\ conn' = [conn EXCEPT ![c].pc = "handshake"]
                             /\ UNCHANGED running
      BY <2>2 DEF LoopAccept, Taken
    <3>2. running
      BY <3>1 DEF ListenerInv
    <3>3. /\ conn'[c].pc = "handshake"
          /\ \A d \in Conns \ {c} : conn'[d] = conn[d]
      BY <3>1 DEF TypeOK, Conn
    <3>4. c \notin Admitted /\ Admitted' = Admitted \cup {c}
      BY <3>1, <3>3 DEF Admitted
    <3>5. AsService!Admit
      BY <1>1, <1>2, <3>1, <3>2, <3>4 DEF AsService!Admit, Admitted
    <3> QED
      BY <3>5 DEF AsService!Next
  <2> QED
    BY <1>11, <2>1, <2>2 DEF acceptLoop
<1>12. ASSUME NEW c \in Conns, ConnStep(c) PROVE AsService!Next
  <2>1. UNCHANGED running
    BY <1>12 DEF ConnStep, Connect, HangUp, Handshake, OpenShell, ExitShell,
                 HandlerEnd, SetConn
  <2>2. /\ \A d \in Conns \ {c} : conn'[d] = conn[d]
        /\ conn'[c].pc \in {"handshake", "session"} => conn[c].pc \in {"handshake", "session"}
    <3>1. CASE Connect(c)
      BY <3>1 DEF Connect, SetConn, TypeOK, Conn, NoConn
    <3>2. CASE HangUp(c)
      BY <3>2 DEF HangUp, SetConn, TypeOK, Conn
    <3>3. CASE Handshake(c)
      BY <3>3 DEF Handshake, SetConn, TypeOK, Conn
    <3>4. CASE OpenShell(c)
      BY <3>4 DEF OpenShell, SetConn, TypeOK, Conn
    <3>5. CASE ExitShell(c)
      BY <3>5 DEF ExitShell, SetConn, TypeOK, Conn
    <3>6. CASE HandlerEnd(c)
      BY <3>6 DEF HandlerEnd, SetConn, TypeOK, NoConn
    <3> QED
      BY <1>12, <3>1, <3>2, <3>3, <3>4, <3>5, <3>6 DEF ConnStep
  <2>3. Admitted' \in SUBSET Admitted
    BY <2>2 DEF Admitted
  <2> QED
    BY <1>5, <2>1, <2>3
<1>13. CASE UNCHANGED vars
  BY <1>4, <1>13 DEF vars
<1> QED
  BY <1>7, <1>8, <1>9, <1>10, <1>11, <1>12, <1>13 DEF Next, StartStep

\* The SSH server implements Service: it is up exactly when it says so, and only
\* a server that is up lets connections in.
THEOREM SshImplementsService ==
  ASSUME "accept" \notin Faults
  PROVE  Spec => ImplementsService
<1>1. Init => ListenerInv
  BY DEF Init, ListenerInv, NoConn
<1>2. TypeOK /\ ListenerInv /\ [Next]_vars => ListenerInv'
  BY ListenerStep
<1>3. Init => AsService!Init
  BY DEF Init, AsService!Init, Active, NoConn
<1>4. /\ TypeOK /\ ListenerInv /\ TypeOK' /\ ListenerInv' /\ [Next]_vars
      => [AsService!Next]_(AsService!serviceVars)
  BY ServiceStep
<1> QED
  BY <1>1, <1>2, <1>3, <1>4, TypeCorrect, PTL DEF Spec, ImplementsService, AsService!Spec
=============================================================================
