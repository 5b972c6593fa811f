------------------------------- MODULE DnsServer -------------------------------
(***************************************************************************)
(* The lifecycle of the DNS server (dns/server.go, lines 15-98): Start     *)
(* spawns ListenAndServe and takes 200 ms of silence for success; Stop is  *)
(* the Shutdown of the library.  The library is external: Shutdown fails   *)
(* on a server that has not begun to serve, otherwise it waits for the     *)
(* handlers in progress, each of which forward's Exchange holds up for 3 s *)
(* at most.  Starts are numbered; 0 is no server.                          *)
(***************************************************************************)
EXTENDS Integers

CONSTANTS
  Conns,    \* queries that can be in progress at once
  Faults,   \* "bind": the port is taken    "slow": ListenAndServe needs longer
            \* than 200 ms to bind or fail
  MaxStarts \* bound: Starts that spawn a ListenAndServe

ConstantsOK == MaxStarts \in Nat /\ Faults \subseteq {"bind", "slow"}

VARIABLES
  pc,      \* "free" (s.mu free), "wait" (in Start), "shutdown" (in Stop)
  running, \* s.running
  srv,     \* s.srv
  listen,  \* Start -> its ListenAndServe: none, spawned, serving, failed, ended
  errCh,   \* Starts whose error is in their channel
  query,   \* query -> the server that handles it
  starts   \* Starts so far (history)

vars == <<pc, running, srv, listen, errCh, query, starts>>

Starts == 1 .. MaxStarts

Init ==
  /\ pc = "free"
  /\ running = FALSE
  /\ srv = 0
  /\ listen = [k \in Starts |-> "none"]
  /\ errCh = {}
  /\ query = [c \in Conns |-> 0]
  /\ starts = 0

-----------------------------------------------------------------------------
\* Start, under the mutex: a server is made and a goroutine told to serve it.
StartServer ==
  /\ pc = "free"
  /\ ~running
  /\ starts < MaxStarts
  /\ starts' = starts + 1
  /\ srv' = starts'
  /\ listen' = [listen EXCEPT ![starts'] = "spawned"]
  /\ pc' = "wait"
  /\ UNCHANGED <<running, errCh, query>>

\* ListenAndServe binds the port, or returns an error into errCh.
Bind(k) ==
  /\ listen[k] = "spawned"
  /\ \A j \in Starts : listen[j] # "serving"
  /\ listen' = [listen EXCEPT ![k] = "serving"]
  /\ UNCHANGED <<pc, running, srv, errCh, query, starts>>

BindFails(k) ==
  /\ listen[k] = "spawned"
  /\ "bind" \in Faults \/ \E j \in Starts : listen[j] = "serving"
  /\ listen' = [listen EXCEPT ![k] = "failed"]
  /\ errCh' = errCh \cup {k}
  /\ UNCHANGED <<pc, running, srv, query, starts>>

\* The select of Start: an error arrives in time ...
StartFails ==
  /\ pc = "wait"
  /\ srv \in errCh
  /\ srv' = 0
  /\ pc' = "free"
  /\ UNCHANGED <<running, listen, errCh, query, starts>>

\* Mutation of StartTimer: Start waits until ListenAndServe has returned.
StartInForeground ==
  /\ pc = "wait"
  /\ srv \notin errCh
  /\ listen[srv] = "ended"
  /\ running' = TRUE
  /\ pc' = "free"
  /\ UNCHANGED <<srv, listen, errCh, query, starts>>

\* ... or 200 ms pass.
StartTimer ==
  /\ pc = "wait"
  /\ srv \notin errCh
  /\ "slow" \in Faults \/ listen[srv] # "spawned"
  /\ running' = TRUE
  /\ pc' = "free"
  /\ UNCHANGED <<srv, listen, errCh, query, starts>>

\* Stop: Shutdown of the library; the socket is no longer read ...
Shutdown ==
  /\ pc = "free"
  /\ running
  /\ listen[srv] = "serving"
  /\ listen' = [listen EXCEPT ![srv] = "ended"]
  /\ pc' = "shutdown"
  /\ UNCHANGED <<running, srv, errCh, query, starts>>

\* Mutation of ShutdownDone: the handlers are not waited for.
ShutdownAtOnce ==
  /\ pc = "shutdown"
  /\ srv' = 0
  /\ running' = FALSE
  /\ pc' = "free"
  /\ UNCHANGED <<listen, errCh, query, starts>>

\* ... and Stop returns when the handlers are done.
ShutdownDone ==
  /\ pc = "shutdown"
  /\ \A c \in Conns : query[c] # srv
  /\ srv' = 0
  /\ running' = FALSE
  /\ pc' = "free"
  /\ UNCHANGED <<listen, errCh, query, starts>>

\* Calls that only return an error: Start of a server that runs, Stop of one that
\* does not or, by Shutdown's error, of one that says it runs and does not serve.
Refused == pc = "free" /\ UNCHANGED vars

-----------------------------------------------------------------------------
(* Queries (DnsQueries has what is done with them)                         *)

Receive(c) ==
  /\ query[c] = 0
  /\ \E k \in Starts : listen[k] = "serving" /\ query' = [query EXCEPT ![c] = k]
  /\ UNCHANGED <<pc, running, srv, listen, errCh, starts>>

Answer(c) ==
  /\ query[c] # 0
  /\ query' = [query EXCEPT ![c] = 0]
  /\ UNCHANGED <<pc, running, srv, listen, errCh, starts>>

-----------------------------------------------------------------------------
Proceed == StartFails \/ StartTimer \/ ShutdownDone

Next ==
  \/ StartServer
  \/ \E k \in Starts : Bind(k) \/ BindFails(k)
  \/ Proceed
  \/ Shutdown \/ Refused
  \/ \E c \in Conns : Receive(c) \/ Answer(c)

Spec == Init /\ [][Next]_vars

\* Timers fire, goroutines run, and every query is answered (EveryQueryAnswered
\* of DnsQueries).
Fairness ==
  /\ WF_vars(Proceed)
  /\ \A k \in Starts : WF_vars(Bind(k) \/ BindFails(k))
  /\ \A c \in Conns : WF_vars(Answer(c))

-----------------------------------------------------------------------------
(* Properties                                                              *)

Listening == \E k \in Starts : listen[k] = "serving"

\* Start and Stop return, so the mutex that IsRunning, hence /api/status, waits
\* for becomes free again, whatever the port and the queries do.
CallsReturn == pc # "free" ~> pc = "free"

\* The server does what Service promises of all three, provided ListenAndServe
\* binds or fails within the 200 ms.  A Start takes effect when the port is bound.
AsService == INSTANCE Service
  WITH Drains <- TRUE,
       running <- running \/ (pc = "wait" /\ Listening),
       active <- Listening,
       admitted <- {c \in Conns : query[c] # 0}

ImplementsService == AsService!Spec
=============================================================================
