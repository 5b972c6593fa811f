------------------------------ MODULE HttpServer ------------------------------
(***************************************************************************)
(* The lifecycle of the HTTP test server (httpd/server.go): Start and Stop *)
(* under the mutex of the server, and the goroutine each Start leaves      *)
(* behind, which reads s.srv WITHOUT the mutex when it first runs.  Start  *)
(* sets s.srv before it binds the port, and Stop holds the mutex while     *)
(* Shutdown waits for the requests in progress, so both take two steps.    *)
(*                                                                         *)
(* net/http is external: Shutdown closes the listeners its server serves,  *)
(* waits until that server has no request in progress, and gives up when   *)
(* its context expires; a server once shut down serves nothing any more.   *)
(* What handlers do is not here, only that a request may last.  Starts are *)
(* numbered; 0 is no server.                                               *)
(***************************************************************************)
EXTENDS Integers

CONSTANTS
  Conns,    \* requests that can be in progress at once
  Faults,   \* "bind": the port is taken by another process
            \* "timeout": a request outlives the grace period of Stop
            \* "late": the goroutine of a Start runs only after the next call
  MaxStarts \* bound: how often Start gets as far as making a server

ConstantsOK ==
  MaxStarts \in Nat /\ Faults \subseteq {"bind", "timeout", "late"}

VARIABLES
  pc,       \* "free" (s.mu free), "listen" (in Start), "shutdown" (in Stop),
            \* or "crashed": a panic ended the process
  running,  \* s.running
  srv,      \* s.srv
  shut,     \* servers that were shut down
  port,     \* the Start whose listener holds the port
  goroutine,\* Start -> its goroutine: none, spawned, serving or ended
  servedBy, \* the server whose Serve has the listener that holds the port
  request,  \* request -> the server that handles it
  starts    \* Starts so far (history)

vars == <<pc, running, srv, shut, port, goroutine, servedBy, request, starts>>

Starts == 1 .. MaxStarts

Init ==
  /\ pc = "free"
  /\ running = FALSE
  /\ srv = 0
  /\ shut = {}
  /\ port = 0
  /\ goroutine = [k \in Starts |-> "none"]
  /\ servedBy = 0
  /\ request = [c \in Conns |-> 0]
  /\ starts = 0

-----------------------------------------------------------------------------
(* Start                                                                   *)

\* Under the mutex: s.srv is a new http.Server ...
StartServer ==
  /\ pc = "free"
  /\ ~running
  /\ starts < MaxStarts
  /\ "late" \in Faults \/ \A k \in Starts : goroutine[k] # "spawned"
  /\ starts' = starts + 1
  /\ srv' = starts'
  /\ pc' = "listen"
  /\ UNCHANGED <<running, shut, port, goroutine, servedBy, request>>

\* ... net.Listen binds the port, and a goroutine is spawned to serve it.
Listen ==
  /\ pc = "listen"
  /\ port = 0
  /\ port' = srv
  /\ goroutine' = [goroutine EXCEPT ![srv] = "spawned"]
  /\ running' = TRUE
  /\ pc' = "free"
  /\ UNCHANGED <<srv, shut, servedBy, request, starts>>

\* ... or fails, and Start returns its error.
ListenFails ==
  /\ pc = "listen"
  /\ port # 0 \/ "bind" \in Faults
  /\ srv' = 0
  /\ pc' = "free"
  /\ UNCHANGED <<running, shut, port, goroutine, servedBy, request, starts>>

\* s.srv.Serve(ln), in the goroutine of Start k, with whatever s.srv is now: a
\* server, one that was shut down (Serve closes the listener and returns), or
\* nil, on which Serve panics.
Serve(k) ==
  /\ pc # "crashed"
  /\ goroutine[k] = "spawned"
  /\ IF srv = 0
     THEN pc' = "crashed" /\ UNCHANGED <<port, goroutine, servedBy>>
     ELSE IF srv \in shut
     THEN /\ goroutine' = [goroutine EXCEPT ![k] = "ended"]
          /\ port' = 0
          /\ UNCHANGED <<pc, servedBy>>
     ELSE /\ goroutine' = [goroutine EXCEPT ![k] = "serving"]
          /\ servedBy' = srv
          /\ UNCHANGED <<pc, port>>
  /\ UNCHANGED <<running, srv, shut, request, starts>>

-----------------------------------------------------------------------------
(* Stop                                                                    *)

\* Mutation of Shutdown: the requests are waited for, the listener stays open.
ShutdownKeepsPort ==
  /\ pc = "free"
  /\ running
  /\ \A k \in Starts : goroutine[k] # "spawned"
  /\ shut' = shut \cup {srv}
  /\ pc' = "shutdown"
  /\ UNCHANGED <<running, srv, port, goroutine, servedBy, request, starts>>

\* Mutation of Shutdown: running is reset before anything else.
ShutdownResetsFirst ==
  /\ pc = "free"
  /\ running
  /\ \A k \in Starts : goroutine[k] # "spawned"
  /\ shut' = shut \cup {srv}
  /\ IF servedBy = srv
     THEN /\ goroutine' = [goroutine EXCEPT ![port] = "ended"]
          /\ port' = 0
          /\ servedBy' = 0
     ELSE UNCHANGED <<goroutine, port, servedBy>>
  /\ running' = FALSE
  /\ pc' = "shutdown"
  /\ UNCHANGED <<srv, request, starts>>

\* Shutdown begins: the server is marked, the listener it serves is closed,
\* and the Serve of that listener returns.
Shutdown ==
  /\ pc = "free"
  /\ running
  /\ "late" \in Faults \/ \A k \in Starts : goroutine[k] # "spawned"
  /\ shut' = shut \cup {srv}
  /\ IF servedBy = srv
     THEN /\ goroutine' = [goroutine EXCEPT ![port] = "ended"]
          /\ port' = 0
          /\ servedBy' = 0
     ELSE UNCHANGED <<goroutine, port, servedBy>>
  /\ pc' = "shutdown"
  /\ UNCHANGED <<running, srv, request, starts>>

Drained(s) == \A c \in Conns : request[c] # s

\* No request is left: Stop succeeds.
ShutdownDone ==
  /\ pc = "shutdown"
  /\ Drained(srv)
  /\ srv' = 0
  /\ running' = FALSE
  /\ pc' = "free"
  /\ UNCHANGED <<shut, port, goroutine, servedBy, request, starts>>

\* Mutation of ShutdownTimeout: Shutdown is called without a deadline.
NoTimeout == pc = "shutdown" /\ UNCHANGED vars

\* Five seconds are over: Stop returns the error and leaves everything as it is.
ShutdownTimeout ==
  /\ pc = "shutdown"
  /\ "timeout" \in Faults
  /\ ~Drained(srv)
  /\ pc' = "free"
  /\ UNCHANGED <<running, srv, shut, port, goroutine, servedBy, request, starts>>

\* A Start of a running server and a Stop of one that is not only return errors.
Refused == pc = "free" /\ UNCHANGED vars

-----------------------------------------------------------------------------
(* Clients (external)                                                      *)

Accept(c) ==
  /\ pc # "crashed"
  /\ servedBy # 0
  /\ request[c] = 0
  /\ request' = [request EXCEPT ![c] = servedBy]
  /\ UNCHANGED <<pc, running, srv, shut, port, goroutine, servedBy, starts>>

Finish(c) ==
  /\ pc # "crashed"
  /\ request[c] # 0
  /\ request' = [request EXCEPT ![c] = 0]
  /\ UNCHANGED <<pc, running, srv, shut, port, goroutine, servedBy, starts>>

-----------------------------------------------------------------------------
\* What goes on once a Start or a Stop has begun.
Proceed == Listen \/ ListenFails \/ ShutdownDone \/ ShutdownTimeout

Next ==
  \/ StartServer
  \/ Shutdown
  \/ Refused
  \/ Proceed
  \/ \E k \in Starts : Serve(k)
  \/ \E c \in Conns : Accept(c) \/ Finish(c)

Spec == Init /\ [][Next]_vars

\* A call that has begun goes on (the context of Shutdown expires), goroutines
\* run; a request may last for ever.
Fairness == WF_vars(Proceed) /\ \A k \in Starts : WF_vars(Serve(k))

-----------------------------------------------------------------------------
(* Properties                                                              *)

\* Whoever holds the port can be stopped: it is the server s.srv points to, and
\* that server serves it or is about to (again provided that goroutines run in
\* time).
PortHasOwner == port # 0 => port = srv /\ (servedBy = srv \/ goroutine[srv] = "spawned")

\* A Start and a Stop return, however long the requests last (and with it the mutex that
\* IsRunning, hence /api/status, waits for).
CallsReturn == pc \in {"listen", "shutdown"} ~> pc = "free"

\* The server does what Service says of all three, however many Stops time
\* out, provided the goroutine of a Start runs before the next call.
AsService == INSTANCE Service
  WITH Drains <- TRUE,
       active <- port # 0,
       admitted <- {c \in Conns : request[c] # 0}

ImplementsService == AsService!Spec

-----------------------------------------------------------------------------
(* What a comment says and the code does not do                            *)

\* "IsRunning indica se o listener está ativo" (server.go:102): while nobody holds
\* the mutex, so that IsRunning can answer, running is the truth about the listener.
IsRunningTrue == pc = "free" => (running <=> port # 0)
=============================================================================
