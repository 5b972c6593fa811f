------------------------------ MODULE SshServer ------------------------------
(***************************************************************************)
(* The SSH mock (sshd/server.go): Start and Stop under the mutex of the    *)
(* server, the accept loop each Start leaves behind, the connections the   *)
(* loops hand to handlers, the table of sessions, and the host key file.   *)
(*                                                                         *)
(* A Start loads or generates the host key before it listens; the system   *)
(* calls that store a new key are steps of their own, because the process  *)
(* can end between them.  One host key is configured (the second, Ed25519, *)
(* goes through the same steps on a file of its own).  Listeners and keys  *)
(* are numbered in the order they are made; 0 is none.  Debug only changes *)
(* what is logged and is left out.                                         *)
(***************************************************************************)
EXTENDS Integers

CONSTANTS
  Conns,     \* client connections that can exist at once
  Torn,      \* a key file that does not parse: empty or half written
  Faults,    \* "read", "write": the key file cannot be read, written
             \* "bind": the port is taken    "accept": Accept fails
             \* "end": the process may end
  MaxStarts, \* bound: listeners opened
  MaxKeys,   \* bound: keys generated
  MaxIDs,    \* bound: sessions of one process
  MaxEnds    \* bound: how often the process ends

ASSUME ConstantsAssumption ==
  /\ MaxStarts \in Nat /\ MaxKeys \in Nat /\ MaxIDs \in Nat /\ MaxEnds \in Nat
  /\ Torn \notin Nat
  /\ Faults \subseteq {"read", "write", "bind", "accept", "end"}

VARIABLES
  pc,       \* "down", "free" (s.mu free), or what Start does next
  key,      \* the host key Start has in hand
  keyFile,  \* the host key file: a key, 0 (no file) or Torn
  config,   \* s.config: the host key handshakes use
  running,  \* s.running
  listener, \* s.listener
  open,     \* the listeners the kernel holds open
  loop,     \* listener -> the accept loop its Start spawned
  conn,     \* client connection -> how far it is
  sessions, \* s.sessions: the pairs <<id, connection>>
  nextID,   \* s.nextID
  starts, keys, ends, \* listeners opened, keys made, ends of the process (history)
  shown     \* the last host key a client was shown (history)

vars == <<pc, key, keyFile, config, running, listener, open, loop, conn,
          sessions, nextID, starts, keys, ends, shown>>

Listeners == 1 .. MaxStarts

Outcomes(fault) == {TRUE} \cup (IF fault \in Faults THEN {FALSE} ELSE {})

Loop == [pc : {"none", "read", "accept", "ended"}, ln : 0 .. MaxStarts]

\* A connection: how far it is, the listener it came to, its session id, its
\* shell, and whether the client has gone away.
Conn == [pc : {"none", "queued", "handshake", "session"}, ln : 0 .. MaxStarts,
         sid : 0 .. MaxIDs, shell : {"none", "open", "exited"}, hungup : BOOLEAN]

NoLoop == [pc |-> "none", ln |-> 0]
NoConn == [pc |-> "none", ln |-> 0, sid |-> 0, shell |-> "none", hungup |-> FALSE]

Init ==
  /\ pc = "down"
  /\ key = 0 /\ keyFile = 0 /\ config = 0
  /\ running = FALSE /\ listener = 0 /\ open = {}
  /\ loop = [k \in Listeners |-> NoLoop]
  /\ conn = [c \in Conns |-> NoConn]
  /\ sessions = {} /\ nextID = 0
  /\ starts = 0 /\ keys = 0 /\ ends = 0 /\ shown = 0

-----------------------------------------------------------------------------
(* The process                                                             *)

NewServer ==
  /\ pc = "down"
  /\ pc' = "free"
  /\ UNCHANGED <<key, keyFile, config, running, listener, open, loop, conn,
                 sessions, nextID, starts, keys, ends, shown>>

\* The process ends; only the key file stays.
End ==
  /\ pc # "down"
  /\ "end" \in Faults /\ ends < MaxEnds
  /\ pc' = "down"
  /\ key' = 0 /\ config' = 0
  /\ running' = FALSE /\ listener' = 0 /\ open' = {}
  /\ loop' = [k \in Listeners |-> NoLoop]
  /\ conn' = [c \in Conns |-> NoConn]
  /\ sessions' = {} /\ nextID' = 0
  /\ ends' = ends + 1
  /\ UNCHANGED <<keyFile, starts, keys, shown>>

-----------------------------------------------------------------------------
(* Start: the host key, then the listener, s.mu held throughout            *)

\* Mutation of LoadOrGenerateKey: a new key is used but not stored.
LoadOrGenerateUnsaved ==
  /\ pc = "free"
  /\ ~running
  /\ starts < MaxStarts
  /\ \/ keyFile \in 1 .. MaxKeys /\ key' = keyFile /\ UNCHANGED keys
     \/ /\ keyFile \in {0, Torn} \/ "read" \in Faults
        /\ keys < MaxKeys
        /\ keys' = keys + 1
        /\ key' = keys'
  /\ pc' = "listen"
  /\ UNCHANGED <<keyFile, config, running, listener, open, loop, conn, sessions,
                 nextID, starts, ends, shown>>

\* loadOrGenerateRSAKey: a key file that can be read and parsed is used; in any
\* other case a new key is made, to be stored in its place.
LoadOrGenerateKey ==
  /\ pc = "free"
  /\ ~running
  /\ starts < MaxStarts
  /\ \/ /\ keyFile \in 1 .. MaxKeys
        /\ key' = keyFile
        /\ pc' = "listen"
        /\ UNCHANGED keys
     \/ /\ keyFile \in {0, Torn} \/ "read" \in Faults
        /\ keys < MaxKeys
        /\ keys' = keys + 1
        /\ key' = keys'
        /\ pc' = "create"
  /\ UNCHANGED <<keyFile, config, running, listener, open, loop, conn, sessions,
                 nextID, starts, ends, shown>>

\* persistKey: os.WriteFile creates or truncates the file, then writes it; when
\* it fails there is a warning in the log and Start goes on.
PersistCreate ==
  /\ pc = "create"
  /\ \E created \in Outcomes("write") :
       /\ keyFile' = IF created THEN Torn ELSE keyFile
       /\ pc' = IF created THEN "write" ELSE "listen"
  /\ UNCHANGED <<key, config, running, listener, open, loop, conn, sessions,
                 nextID, starts, keys, ends, shown>>

PersistWrite ==
  /\ pc = "write"
  /\ \E written \in Outcomes("write") : keyFile' = IF written THEN key ELSE keyFile
  /\ pc' = "listen"
  /\ UNCHANGED <<key, config, running, listener, open, loop, conn, sessions,
                 nextID, starts, keys, ends, shown>>

\* Mutation of Listen: no loop is spawned while one of an earlier Start lives.
ListenReusingLoop ==
  /\ pc = "listen"
  /\ config' = key
  /\ pc' = "free"
  /\ starts' = starts + 1
  /\ listener' = starts'
  /\ open' = open \cup {starts'}
  /\ running' = TRUE
  /\ loop' = IF \E k \in Listeners : loop[k].pc \in {"read", "accept"} THEN loop
             ELSE [loop EXCEPT ![starts'] = [pc |-> "read", ln |-> 0]]
  /\ UNCHANGED <<key, keyFile, conn, sessions, nextID, keys, ends, shown>>

\* s.config is replaced; the port is bound and an accept loop spawned, or Start
\* returns an error.
Listen ==
  /\ pc = "listen"
  /\ config' = key
  /\ pc' = "free"
  /\ \/ /\ starts' = starts + 1
        /\ listener' = starts'
        /\ open' = open \cup {starts'}
        /\ running' = TRUE
        /\ loop' = [loop EXCEPT ![starts'] = [pc |-> "read", ln |-> 0]]
     \/ "bind" \in Faults /\ UNCHANGED <<starts, listener, open, running, loop>>
  /\ UNCHANGED <<key, keyFile, conn, sessions, nextID, keys, ends, shown>>

StartStep == LoadOrGenerateKey \/ PersistCreate \/ PersistWrite \/ Listen

\* Mutation of Stop: the listener is forgotten, not closed.
StopForgetting ==
  /\ pc = "free"
  /\ running
  /\ listener' = 0
  /\ running' = FALSE
  /\ UNCHANGED <<pc, key, keyFile, config, open, loop, conn, sessions, nextID,
                 starts, keys, ends, shown>>

\* Stop closes the listener; the kernel resets what waits at it.
Stop ==
  /\ pc = "free"
  /\ running
  /\ open' = open \ {listener}
  /\ listener' = 0
  /\ running' = FALSE
  /\ conn' = [c \in Conns |-> IF conn[c].pc = "queued" /\ conn[c].ln = listener
                              THEN NoConn ELSE conn[c]]
  /\ UNCHANGED <<pc, key, keyFile, config, loop, sessions, nextID, starts, keys,
                 ends, shown>>

\* A Start of a running server, and a Stop of one that is not, only returns an
\* error.
Refused == pc = "free" /\ UNCHANGED vars

-----------------------------------------------------------------------------
(* acceptLoop, one goroutine per Start                                     *)

\* Mutation of LoopRead: without a listener the loop waits for one.
LoopReadWaiting(k) ==
  /\ pc = "free"
  /\ loop[k].pc = "read"
  /\ listener # 0
  /\ loop' = [loop EXCEPT ![k] = [pc |-> "accept", ln |-> listener]]
  /\ UNCHANGED <<pc, key, keyFile, config, running, listener, open, conn, sessions,
                 nextID, starts, keys, ends, shown>>

\* The loop reads s.listener under the mutex, whichever Start put it there.
LoopRead(k) ==
  /\ pc = "free"
  /\ loop[k].pc = "read"
  /\ loop' = [loop EXCEPT ![k] = IF listener = 0 THEN [pc |-> "ended", ln |-> 0]
                                 ELSE [pc |-> "accept", ln |-> listener]]
  /\ UNCHANGED <<pc, key, keyFile, config, running, listener, open, conn, sessions,
                 nextID, starts, keys, ends, shown>>

Taken(k, c) ==
  /\ conn[c].pc = "queued" /\ conn[c].ln = loop[k].ln
  /\ conn' = [conn EXCEPT ![c].pc = "handshake"]

\* Mutation of LoopAccept: one connection is accepted, then the loop ends.
LoopAcceptOnce(k) ==
  /\ loop[k].pc = "accept"
  /\ \E c \in Conns : Taken(k, c)
  /\ loop' = [loop EXCEPT ![k] = [pc |-> "ended", ln |-> 0]]
  /\ UNCHANGED <<pc, key, keyFile, config, running, listener, open, sessions, nextID,
                 starts, keys, ends, shown>>

\* Accept returns a connection, for a handler of its own.
LoopAccept(k) ==
  /\ loop[k].pc = "accept"
  /\ \E c \in Conns : Taken(k, c)
  /\ loop' = [loop EXCEPT ![k] = [pc |-> "read", ln |-> 0]]
  /\ UNCHANGED <<pc, key, keyFile, config, running, listener, open, sessions, nextID,
                 starts, keys, ends, shown>>

\* Accept returns an error: the listener was closed, or the system refuses.
LoopError(k) ==
  /\ loop[k].pc = "accept"
  /\ loop[k].ln \notin open \/ "accept" \in Faults
  /\ loop' = [loop EXCEPT ![k] = [pc |-> "ended", ln |-> 0]]
  /\ UNCHANGED <<pc, key, keyFile, config, running, listener, open, conn, sessions,
                 nextID, starts, keys, ends, shown>>

acceptLoop(k) == LoopRead(k) \/ LoopAccept(k) \/ LoopError(k)

-----------------------------------------------------------------------------
(* Clients, and handleConn, one goroutine per connection                   *)

SetConn(c, r) ==
  /\ conn' = [conn EXCEPT ![c] = r]
  /\ UNCHANGED <<pc, key, keyFile, config, running, listener, open, loop, starts,
                 keys, ends>>

Connect(c) ==
  /\ conn[c].pc = "none"
  /\ \E l \in open : SetConn(c, [NoConn EXCEPT !.pc = "queued", !.ln = l])
  /\ UNCHANGED <<sessions, nextID, shown>>

HangUp(c) ==
  /\ conn[c].pc # "none" /\ ~conn[c].hungup
  /\ SetConn(c, [conn[c] EXCEPT !.hungup = TRUE])
  /\ UNCHANGED <<sessions, nextID, shown>>

\* Mutation of Handshake: the table is keyed by the id before the increment.
HandshakeEarlyID(c) ==
  /\ conn[c].pc = "handshake" /\ ~conn[c].hungup
  /\ nextID < MaxIDs
  /\ SetConn(c, [conn[c] EXCEPT !.pc = "session", !.sid = nextID])
  /\ nextID' = nextID + 1
  /\ sessions' = sessions \cup {<<nextID, c>>}
  /\ shown' = config

\* ssh.NewServerConn with the config of the moment, any credential accepted;
\* the session gets the next id and enters the table.
Handshake(c) ==
  /\ conn[c].pc = "handshake" /\ ~conn[c].hungup
  /\ nextID < MaxIDs
  /\ SetConn(c, [conn[c] EXCEPT !.pc = "session", !.sid = nextID + 1])
  /\ nextID' = nextID + 1
  /\ sessions' = sessions \cup {<<nextID', c>>}
  /\ shown' = config

\* The client opens a session channel; handleShell serves it.
OpenShell(c) ==
  /\ conn[c].pc = "session" /\ ~conn[c].hungup
  /\ conn[c].shell = "none"
  /\ SetConn(c, [conn[c] EXCEPT !.shell = "open"])
  /\ UNCHANGED <<sessions, nextID, shown>>

\* exit, quit, logout, ^C or ^D: handleShell returns and closes its channel.
ExitShell(c) ==
  /\ conn[c].shell = "open"
  /\ SetConn(c, [conn[c] EXCEPT !.shell = "exited"])
  /\ UNCHANGED <<sessions, nextID, shown>>

\* Mutation of HandlerEnd: the newest session is deleted, not its own.
HandlerEndNewest(c) ==
  /\ conn[c].pc \in {"handshake", "session"} /\ conn[c].hungup
  /\ SetConn(c, NoConn)
  /\ sessions' = {s \in sessions : s[1] # nextID}
  /\ UNCHANGED <<nextID, shown>>

\* The connection is gone: the handshake fails, or the channel loop of the
\* handler ends and its deferred functions take the session from the table.
HandlerEnd(c) ==
  /\ conn[c].pc \in {"handshake", "session"} /\ conn[c].hungup
  /\ SetConn(c, NoConn)
  /\ sessions' = {s \in sessions : s[1] # conn[c].sid}
  /\ UNCHANGED <<nextID, shown>>

ConnStep(c) ==
  \/ Connect(c) \/ HangUp(c) \/ Handshake(c)
  \/ OpenShell(c) \/ ExitShell(c) \/ HandlerEnd(c)

-----------------------------------------------------------------------------
Next ==
  \/ NewServer
  \/ End
  \/ StartStep
  \/ Stop
  \/ Refused
  \/ \E k \in Listeners : acceptLoop(k)
  \/ \E c \in Conns : ConnStep(c)

Spec == Init /\ [][Next]_vars

\* A Start that has begun goes on; goroutines run, and a loop that waits for the
\* mutex gets it (Go's mutexes hand over to a waiter after a millisecond), hence
\* strong fairness; the kernel hands connections out in the order they came, so
\* none is passed over for ever; a handler notices that its connection is
\* gone.  Nobody owes the server a Start, a Stop, a connection or the end of one.
FairSpec ==
  /\ Spec
  /\ WF_vars(PersistCreate \/ PersistWrite \/ Listen)
  /\ \A k \in Listeners :
       SF_vars(acceptLoop(k)) /\ \A c \in Conns : SF_vars(LoopAccept(k) /\ Taken(k, c))
  /\ \A c \in Conns : WF_vars(HandlerEnd(c))

-----------------------------------------------------------------------------
(* Properties                                                              *)

\* The shape of the state.
TypeOK ==
  /\ pc \in {"down", "free", "create", "write", "listen"}
  /\ key \in 0 .. MaxKeys /\ keys \in 0 .. MaxKeys
  /\ keyFile \in (0 .. MaxKeys) \cup {Torn}
  /\ config \in 0 .. MaxKeys /\ shown \in 0 .. MaxKeys
  /\ running \in BOOLEAN
  /\ starts \in 0 .. MaxStarts
  /\ listener \in 0 .. starts /\ open \subseteq 1 .. starts
  /\ pc \in {"create", "write", "listen"} => starts < MaxStarts
  /\ loop \in [Listeners -> Loop]
  /\ conn \in [Conns -> Conn]
  /\ nextID \in 0 .. MaxIDs
  /\ sessions \subseteq (1 .. MaxIDs) \X Conns
  /\ ends \in 0 .. MaxEnds

\* An accept loop that is at listener l, or is about to read it.
Serves(k, l) ==
  loop[k].pc = "read" \/ (loop[k].pc = "accept" /\ loop[k].ln = l)

Active ==
  /\ listener # 0 /\ listener \in open
  /\ \E k \in Listeners : Serves(k, listener)

\* "IsRunning indica se o listener está ativo" (server.go:184): whatever order
\* Starts, Stops and the loops of earlier Starts come in, a server that says it
\* runs has an open listener and a loop that takes connections from it, and one
\* that says it does not run holds no port.
RunningIffActive == IF running THEN Active ELSE open = {}

\* Sessions(), which `ssh who` and all-users show, lists each connection that is
\* past its handshake and not yet over, once, under an id of its own.
SessionsExact ==
  /\ {s[2] : s \in sessions} = {c \in Conns : conn[c].pc = "session"}
  /\ \A s, t \in sessions : s[1] = t[1] \/ s[2] = t[2] => s = t
  /\ \A s \in sessions : conn[s[2]].sid = s[1] /\ s[1] <= nextID

\* "SSH mock with persistent host key" (CHANGELOG.md:147): the key a client was
\* shown is the one any later start of the process will show it, however often
\* the process ends, also in the middle of storing a key.
HostKeyStable == shown # 0 => keyFile = shown

\* A connection that waits at the listener is accepted, reset by a Stop, or the
\* process is gone: it never waits for ever.
QueuedAnswered == \A c \in Conns : conn[c].pc = "queued" ~> conn[c].pc # "queued"

\* Once the server is stopped for good, every accept loop ends: none is left
\* waiting on a listener that no longer exists.
LoopsEnd ==
  <>[](~running /\ pc # "down") =>
    <>[](\A k \in Listeners : loop[k].pc \in {"none", "ended"})

\* The server does what Service promises of all three, except that its sessions
\* outlive a Stop.
AsService == INSTANCE Service
  WITH Drains <- FALSE,
       active <- Active,
       admitted <- {c \in Conns : conn[c].pc \in {"handshake", "session"}}

ImplementsService == AsService!Spec

-----------------------------------------------------------------------------
(* Why RunningIffActive, HostKeyStable and SessionsExact hold, inductively *)

\* Only the listener of s.listener is open, and the loop of its own Start is
\* there to serve it; the loops of earlier Starts end or move on to it.
ListenerInv ==
  /\ running <=> listener # 0
  /\ open = IF running THEN {listener} ELSE {}
  /\ running => Serves(listener, listener)
  /\ pc \in {"down", "create", "write", "listen"} => ~running
  /\ \A c \in Conns : conn[c].pc = "queued" => conn[c].ln \in open

\* A key is shown only after it was stored, and while one is being stored none
\* was shown yet.
KeyInv ==
  /\ HostKeyStable
  /\ pc \in {"create", "write", "listen"} => key # 0
  /\ pc = "create" => keyFile \in {0, Torn}
  /\ pc = "write" => keyFile = Torn
  /\ pc = "listen" => keyFile = key
  /\ config # 0 => keyFile = config

\* The table is a function of the connections: each that is past its handshake has
\* an id that was given out, no two have the same, and nobody else has one.
SessionInv ==
  /\ sessions = {s \in (1 .. nextID) \X Conns :
                   conn[s[2]].pc = "session" /\ conn[s[2]].sid = s[1]}
  /\ \A c \in Conns : IF conn[c].pc = "session" THEN conn[c].sid \in 1 .. nextID
                                                ELSE conn[c].sid = 0
  /\ \A c, d \in Conns :
       conn[c].sid # 0 /\ conn[c].sid = conn[d].sid => c = d

-----------------------------------------------------------------------------
(* What the comments say and the code does not do                          *)

\* server.go:168: "Stop fecha o listener e termina conexões em curso".
StopEndsConnections ==
  \A c \in Conns :
    ~running /\ conn[c].pc = "session" ~> running \/ conn[c].pc # "session"
=============================================================================
