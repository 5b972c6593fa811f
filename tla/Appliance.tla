------------------------------- MODULE Appliance -------------------------------
(***************************************************************************)
(* One process of the binary: the three test servers, and the goroutines   *)
(* that call them.  As a daemon (main_appliance.go) it starts the servers  *)
(* and the Admin API (admin/server.go), whose handlers call the servers    *)
(* each on its own, until a signal makes it stop everything, the API       *)
(* first.  As a REPL (main.go) its main goroutine runs one command after   *)
(* the other and stops the servers on exit.                                *)
(*                                                                         *)
(* Each server is the Service its own module is shown to implement, behind *)
(* its mutex: a call waits until the mutex is free and holds it to the end *)
(* of the Start or Stop.  SSH calls are one step, as Stop waits for        *)
(* nobody.  Handlers that hold no server's mutex for long (records, log,   *)
(* sessions, debug, health) are left out; the latency tool keeps its       *)
(* caller busy for as long as it likes.  A server whose autostart is       *)
(* switched off starts like one whose Start failed.                        *)
(***************************************************************************)
EXTENDS Integers, Sequences, FiniteSets

CONSTANTS
  Handlers, \* goroutines of the Admin API, each serving one request at a time
  Main,     \* the main goroutine
  Conns,    \* clients of the HTTP and the DNS server
  Faults,   \* servers whose Start can fail; "api": the admin port is taken
  MaxCalls  \* bound: requests and commands

ASSUME ConstantsAssumption ==
  /\ Main \notin Handlers
  /\ MaxCalls \in Nat
  /\ Faults \subseteq {"dns", "http", "ssh", "api"}

VARIABLES
  mode,   \* "daemon" or "repl"
  at,     \* how far main has come in its Program
  call,   \* caller -> what it is doing
  calls,  \* requests and commands so far
  late,   \* what main could not stop within the time limit
  api,    \* the Admin API: down, spawned, serving, failed, closing or closed
  dnsRunning, dnsActive, dnsQueries,      \* the servers, as in Service
  httpRunning, httpActive, httpRequests,
  sshRunning, sshActive, sshConns

dnsVars == <<dnsRunning, dnsActive, dnsQueries>>
httpVars == <<httpRunning, httpActive, httpRequests>>
sshVars == <<sshRunning, sshActive, sshConns>>
serverVars == <<dnsVars, httpVars, sshVars>>
callVars == <<mode, at, call, calls, late, api>>
vars == <<callVars, serverVars>>

Dns == INSTANCE Service
  WITH Drains <- TRUE, running <- dnsRunning, active <- dnsActive,
       admitted <- dnsQueries

Http == INSTANCE Service
  WITH Drains <- TRUE, running <- httpRunning, active <- httpActive,
       admitted <- httpRequests

Ssh == INSTANCE Service
  WITH Conns <- {}, Drains <- FALSE, running <- sshRunning, active <- sshActive,
       admitted <- sshConns

Servers == {"dns", "http", "ssh"}
Callers == Handlers \cup {Main}

\* What IsRunning of each server reports, and whether its mutex is free.
Running == {s \in Servers : CASE s = "dns" -> dnsRunning
                              [] s = "http" -> httpRunning
                              [] s = "ssh" -> sshRunning}
Free(s) == \A p \in Callers : ~(call[p].at = "in" /\ call[p].svc = s)

\* Mutation of Shutdowns: the Admin API is stopped last.
ShutdownsApiLast == <<"ssh", "http", "dns", "api">>

\* What main stops, in this order, when the signal or the end of the input comes.
Shutdowns == IF mode = "daemon" THEN <<"api", "ssh", "http", "dns">>
                                ELSE <<"dns", "http", "ssh">>

\* The calls main makes; at "wait" it waits for the signal, or reads commands.
Startups == IF mode = "daemon" THEN <<"dns", "http", "ssh", "api">> ELSE << >>
Program ==
  [i \in DOMAIN Startups |-> <<"start", Startups[i]>>]
    \o <<<<"wait", "api">>>>
    \o [i \in DOMAIN Shutdowns |-> <<"stop", Shutdowns[i]>>]

Alive == at <= Len(Program)

Idle == [op |-> "none", svc |-> "api", at |-> "idle"]

Init ==
  /\ mode \in {"daemon", "repl"}
  /\ at = 1
  /\ call = [p \in Callers |-> Idle]
  /\ calls = 0
  /\ late = {}
  /\ api = "down"
  /\ Dns!Init
  /\ Http!Init
  /\ Ssh!Init

-----------------------------------------------------------------------------
(* Who calls what                                                          *)

Ask(p, op, s) ==
  /\ call[p].at = "idle"
  /\ call' = [call EXCEPT ![p] = [op |-> op, svc |-> s, at |-> "asked"]]

\* A request an Admin API handler has to serve, or a command of the local REPL.
Order(p) ==
  /\ calls < MaxCalls
  /\ calls' = calls + 1
  /\ \/ \E op \in {"start", "stop"}, s \in Servers : Ask(p, op, s)
     \/ Ask(p, "status", "dns")
     \/ Ask(p, "latency", "api")
  /\ UNCHANGED <<mode, at, late, api, serverVars>>

Request(h) == Alive /\ api = "serving" /\ Order(h)
Command == Alive /\ mode = "repl" /\ Program[at][1] = "wait" /\ Order(Main)

\* The next call of runDaemon, or of runREPL on its way out.
MainAsk ==
  /\ Alive
  /\ Program[at][1] # "wait"
  /\ Ask(Main, Program[at][1], Program[at][2])
  /\ UNCHANGED <<mode, at, calls, late, api, serverVars>>

\* SIGTERM, SIGINT; exit, quit or the end of the input.
Signal ==
  /\ Alive
  /\ call[Main].at = "idle"
  /\ Program[at][1] = "wait"
  /\ at' = at + 1
  /\ UNCHANGED <<mode, call, calls, late, api, serverVars>>

-----------------------------------------------------------------------------
(* The calls                                                               *)

Becomes(p, where) == call' = [call EXCEPT ![p].at = where]

\* The answer is written, or main goes on, whatever the answer.
Returns(p) ==
  /\ call' = [call EXCEPT ![p] = Idle]
  /\ at' = IF p = Main /\ Program[at][1] # "wait" THEN at + 1 ELSE at

Within(p, op) == Alive /\ call[p].at = "in" /\ call[p].op = op
Asked(p, op, s) == Alive /\ call[p].at = "asked" /\ call[p].op = op /\ call[p].svc = s

\* Start and Stop take the mutex; a Start of what runs and a Stop of what does
\* not return their error at once.
Refuse(p) ==
  /\ \E s \in Servers :
       /\ Free(s)
       /\ \/ Asked(p, "start", s) /\ s \in Running
          \/ Asked(p, "stop", s) /\ s \notin Running
  /\ Returns(p)
  /\ UNCHANGED <<mode, calls, late, api, serverVars>>

\* Start makes its server and binds the port; the mutex is held meanwhile ...
StartBegins(p) ==
  /\ \E s \in {"dns", "http"} : Asked(p, "start", s) /\ Free(s) /\ s \notin Running
  /\ Becomes(p, "in")
  /\ UNCHANGED <<mode, at, calls, late, api, serverVars>>

StartEnds(p) ==
  /\ Within(p, "start")
  /\ \/ /\ \/ call[p].svc = "dns" /\ Dns!Start /\ UNCHANGED httpVars
           \/ call[p].svc = "http" /\ Http!Start /\ UNCHANGED dnsVars
        /\ Returns(p)
     \/ /\ call[p].svc \in Faults
        /\ Returns(p)
        /\ UNCHANGED <<dnsVars, httpVars>>
  /\ UNCHANGED <<mode, calls, late, api, sshVars>>

\* ... Stop closes the listener, unless a Stop that timed out has done so ...
StopBegins(p) ==
  /\ \/ /\ Asked(p, "stop", "dns") /\ Free("dns") /\ dnsRunning
        /\ Dns!Close
        /\ UNCHANGED httpVars
     \/ /\ Asked(p, "stop", "http") /\ Free("http") /\ httpRunning
        /\ Http!Close \/ (~httpActive /\ UNCHANGED httpVars)
        /\ UNCHANGED dnsVars
  /\ Becomes(p, "in")
  /\ UNCHANGED <<mode, at, calls, late, api, sshVars>>

\* ... waits for those who were let in ...
StopEnds(p) ==
  /\ Within(p, "stop")
  /\ \/ call[p].svc = "dns" /\ dnsQueries = {} /\ Dns!Stop /\ UNCHANGED httpVars
     \/ call[p].svc = "http" /\ httpRequests = {} /\ Http!Stop /\ UNCHANGED dnsVars
  /\ Returns(p)
  /\ UNCHANGED <<mode, calls, late, api, sshVars>>

\* Mutation of StopTimesOut: Stop waits for ever.
StopWaits(p) == FALSE /\ UNCHANGED vars /\ p = p

\* ... and that of HTTP gives up after 5 s.
StopTimesOut(p) ==
  /\ Within(p, "stop")
  /\ call[p].svc = "http" /\ httpRequests # {}
  /\ Returns(p)
  /\ late' = IF p = Main THEN late \cup {"http"} ELSE late
  /\ UNCHANGED <<mode, calls, api, serverVars>>

CallSsh(p) ==
  /\ \/ Asked(p, "start", "ssh") /\ Ssh!Start /\ Returns(p)
     \/ /\ Asked(p, "start", "ssh") /\ ~sshRunning /\ "ssh" \in Faults
        /\ Returns(p)
        /\ UNCHANGED sshVars
     \/ Asked(p, "stop", "ssh") /\ Ssh!Stop /\ Returns(p)
  /\ UNCHANGED <<mode, calls, late, api, dnsVars, httpVars>>

\* A status asks one server after the other, each under its mutex.
StatusStep(p) ==
  /\ \E s \in {"dns", "http"} :
       /\ Asked(p, "status", s) /\ Free(s)
       /\ call' = [call EXCEPT ![p].svc = IF s = "dns" THEN "http" ELSE "ssh"]
  /\ UNCHANGED <<mode, at, calls, late, api, serverVars>>

StatusDone(p) ==
  /\ Asked(p, "status", "ssh") /\ Free("ssh")
  /\ Returns(p)
  /\ UNCHANGED <<mode, calls, late, api, serverVars>>

\* The latency tool takes as long as its caller has asked for.
LatencyDone(p) ==
  /\ Asked(p, "latency", "api")
  /\ Returns(p)
  /\ UNCHANGED <<mode, calls, late, api, serverVars>>

-----------------------------------------------------------------------------
(* The Admin API                                                           *)

\* Start of the Admin API leaves ListenAndServe to a goroutine, and succeeds.
ApiStart ==
  /\ Asked(Main, "start", "api")
  /\ api' = "spawned"
  /\ Returns(Main)
  /\ UNCHANGED <<mode, calls, late, serverVars>>

\* The goroutine binds the port, or logs that it cannot.
ApiBind ==
  /\ Alive
  /\ api = "spawned"
  /\ api' \in {"serving"} \cup IF "api" \in Faults THEN {"failed"} ELSE {}
  /\ UNCHANGED <<mode, at, call, calls, late, serverVars>>

\* Stop of the Admin API: Shutdown takes no more requests ...
ApiShutdown ==
  /\ Asked(Main, "stop", "api")
  /\ api' = "closing"
  /\ Becomes(Main, "in")
  /\ UNCHANGED <<mode, at, calls, late, serverVars>>

\* ... returns when no handler is busy ...
ApiDrained ==
  /\ api = "closing"
  /\ \A h \in Handlers : call[h].at = "idle"
  /\ api' = "closed"
  /\ Returns(Main)
  /\ UNCHANGED <<mode, calls, late, serverVars>>

\* Mutation of ApiTimeout: Shutdown is given no deadline.
ApiNoTimeout == FALSE /\ UNCHANGED vars

\* ... or after 5 s, with handlers that go on.
ApiTimeout ==
  /\ api = "closing"
  /\ \E h \in Handlers : call[h].at # "idle"
  /\ api' = "closed"
  /\ late' = late \cup {"api"}
  /\ Returns(Main)
  /\ UNCHANGED <<mode, calls, serverVars>>

-----------------------------------------------------------------------------
(* What the servers and their clients do meanwhile                         *)

\* A DNS query is answered in the end, an HTTP request may last for ever.
DnsReceive == Alive /\ Dns!Admit /\ UNCHANGED <<callVars, httpVars, sshVars>>
DnsAnswer ==
  /\ Alive
  /\ \E c \in dnsQueries : dnsQueries' = dnsQueries \ {c}
  /\ UNCHANGED <<callVars, dnsRunning, dnsActive, httpVars, sshVars>>
HttpReceive == Alive /\ Http!Admit /\ UNCHANGED <<callVars, dnsVars, sshVars>>
HttpAnswer ==
  /\ Alive
  /\ \E c \in httpRequests : httpRequests' = httpRequests \ {c}
  /\ UNCHANGED <<callVars, httpRunning, httpActive, dnsVars, sshVars>>

-----------------------------------------------------------------------------
\* What waits for a mutex, and what goes on with it or without.
Enter(p) ==
  \/ Refuse(p) \/ StatusStep(p) \/ StatusDone(p)
  \/ StartBegins(p) \/ StopBegins(p) \/ CallSsh(p)

Leave(p) == StartEnds(p) \/ StopEnds(p) \/ StopTimesOut(p)

ApiStep == ApiStart \/ ApiBind \/ ApiShutdown \/ ApiDrained \/ ApiTimeout

\* The process has ended.
Ended == ~Alive /\ UNCHANGED vars

Next ==
  \/ \E h \in Handlers : Request(h)
  \/ Command \/ MainAsk \/ Signal
  \/ \E p \in Callers : Enter(p) \/ Leave(p) \/ LatencyDone(p)
  \/ ApiStep
  \/ DnsReceive \/ DnsAnswer \/ HttpReceive \/ HttpAnswer
  \/ Ended

Spec == Init /\ [][Next]_vars

\* A caller waiting for a mutex gets it in the end (Go hands a mutex over to who
\* has waited for 1 ms), calls that hold one go on, goroutines run, timers fire.
\* Nobody owes the process a signal, or an HTTP request or the latency tool an
\* end.
FairSpec ==
  /\ Spec
  /\ WF_vars(MainAsk \/ ApiStep \/ \E p \in Callers : Enter(p) \/ Leave(p))
  /\ WF_vars(DnsAnswer)

-----------------------------------------------------------------------------
(* Properties                                                              *)

\* main_appliance.go:126-129: when the process ends, a server still runs only if
\* its own Stop timed out, or that of the Admin API did and a handler was left to
\* start it again.
NothingRunsAtEnd ==
  ~Alive => \A s \in Running : s \in late \/ "api" \in late

\* Every request for a server is answered, whatever the others ask and however
\* long the latency tool and the clients of the servers take, unless the process
\* ends.
RequestsAnswered ==
  \A h \in Handlers :
    call[h].op \in {"start", "stop", "status"} ~> call[h].at = "idle" \/ ~Alive

\* After the signal the process ends, whoever is connected to what.
ProcessEnds == Alive /\ Program[at][1] = "stop" ~> ~Alive

-----------------------------------------------------------------------------
(* What NothingRunsAtEnd rests on, step by step                            *)

Call ==
  [op : {"none", "start", "stop", "status", "latency"}, svc : Servers \cup {"api"},
   at : {"idle", "asked", "in"}]

TypeOK ==
  /\ mode \in {"daemon", "repl"}
  /\ at \in 1 .. Len(Program) + 1
  /\ call \in [Callers -> Call]
  /\ calls \in 0 .. MaxCalls
  /\ late \subseteq Servers \cup {"api"}
  /\ api \in {"down", "spawned", "serving", "failed", "closing", "closed"}
  /\ dnsRunning \in BOOLEAN /\ dnsActive \in BOOLEAN /\ dnsQueries \subseteq Conns
  /\ httpRunning \in BOOLEAN /\ httpActive \in BOOLEAN /\ httpRequests \subseteq Conns
  /\ sshRunning \in BOOLEAN /\ sshActive \in BOOLEAN /\ sshConns = {}

\* A caller is where its call can be: inside a Start or Stop that waits.
CallsInv ==
  \A p \in Callers :
    /\ call[p].at = "idle" => call[p] = Idle
    /\ call[p].at = "in" =>
         \/ call[p].op \in {"start", "stop"} /\ call[p].svc \in {"dns", "http"}
         \/ call[p].op = "stop" /\ call[p].svc = "api"
    /\ call[p].op \in {"start", "stop"} /\ call[p].svc = "api" =>
         p = Main /\ Program[at][1] # "wait"

\* main is in the call its program says it makes, or waits with none.
MainInv ==
  call[Main].at # "idle" =>
    /\ Alive
    /\ IF Program[at][1] = "wait" THEN mode = "repl"
       ELSE call[Main].op = Program[at][1] /\ call[Main].svc = Program[at][2]

\* What main has tried to stop so far.
Stopped == {Program[i][2] : i \in {j \in 1 .. at - 1 : Program[j][1] = "stop"}}

\* The Admin API of a daemon is closed once main is past its Stop, and while it is
\* closing main is in that Stop; a REPL has none.
ApiInv ==
  /\ mode = "repl" => api = "down"
  /\ api = "closing" <=> call[Main].at = "in" /\ call[Main].svc = "api"
  /\ "api" \in Stopped => api = "closed"

\* Once the API has stopped in time, and in a REPL always, no handler is at work.
QuietInv ==
  mode = "repl" \/ (api = "closed" /\ "api" \notin late) =>
    \A h \in Handlers : call[h].at = "idle"

\* NothingRunsAtEnd, of what main has stopped so far.
StoppedInv == \A s \in Stopped \cap Running : s \in late \/ "api" \in late

ApplianceInv == TypeOK /\ CallsInv /\ MainInv /\ ApiInv /\ QuietInv /\ StoppedInv
=============================================================================
