-------------------------------- MODULE Console --------------------------------
(***************************************************************************)
(* One session of "ztna-lab cli" (cli_client.go), or of any other client   *)
(* of the Admin API: a line typed at the prompt, the HTTP request it is    *)
(* translated to, the call the handler (admin/server.go) makes into the    *)
(* packages, its status code, and what the client prints.  Beside it, the  *)
(* call the local REPL (main.go) makes for the same line.                  *)
(*                                                                         *)
(* Lines and paths are sequences of words.  What the packages do has its   *)
(* own modules: here a call succeeds or fails, except that the latency     *)
(* tool runs probe by probe, against the time limit of the client.         *)
(***************************************************************************)
EXTENDS Latency, Sequences, SequencesExt

CONSTANTS
  Names, Values, Modules, Urls,  \* words for <name> and <alias>, <ip> and
                                 \* <target>, <NAME>, <url>
  BadUrls,                       \* Urls that do not begin with http(s)://
  Sizes, Counts, Intervals,      \* words for [N], [count], [ms]: any numerals
  Malformed,                     \* other lines
  Requests,                      \* requests only other clients make
  Atoi, Scan,                    \* word -> what strconv.Atoi and Sscanf("%d")
                                 \* make of it
  Missing,                       \* Atoi of what is not a number; an absent field,
                                 \* or a body that is not JSON
  ClientLimit                    \* ticks the CLI waits for an answer (10 s)

\* Names and modules are not empty.  Both ways to read a number agree on numerals.
\* Missing is none of what the CLI sends.
ASSUME WordsAssumption ==
  /\ "" \notin Names \cup Modules
  /\ \A w \in Sizes : Atoi[w] \in Int
  /\ Atoi["50"] = 50
  /\ \A w \in Counts \cup Intervals : Atoi[w] \in Int /\ Scan[w] = Atoi[w]
  /\ Missing \notin Int \cup BOOLEAN
  /\ Missing \notin [type : {"A", "CNAME"}, name : Names, value : Values]
  /\ Missing \notin [module : Modules, enabled : BOOLEAN]
  /\ Missing \notin [url : Urls, count : Int, interval : Int]

VARIABLES
  stage,      \* start, prompt, sent, serving, answered, exited
  authorized, \* the client has the token of the daemon, or none is needed
  line,       \* the line being handled; << >> for a request of another client
  request,    \* the request, or NoRequest
  call,       \* the call its handler made, or NoCall
  done,       \* that call has succeeded
  status,     \* the status code of the answer, 0 before it
  said        \* what is printed: "usage" (nothing was asked), "done" (the
              \* answer), "null" (nothing of it), "refused" (the error in it),
              \* "unreachable"

vars == <<stage, authorized, line, request, call, done, status, said, run>>

NoCall == <<"none">>
NoRequest == [verb |-> "none", path |-> << >>, body |-> << >>]

\* The lines the help text documents (that of the CLI and that of the REPL).
Syntax ==
  {<<"status">>, <<"dns", "list">>, <<"ssh", "who">>, <<"log", "tail">>,
   <<"log", "modules">>}
    \cup {<<s, o>> : s \in {"dns", "http", "ssh"}, o \in {"start", "stop"}}
    \cup {<<"dns", "add", n, v>> : n \in Names, v \in Values}
    \cup {<<"dns", "remove", n>> : n \in Names}
    \cup {<<"dns", "cname", "add", n, v>> : n \in Names, v \in Values}
    \cup {<<"log", "tail", n>> : n \in Sizes}
    \cup {<<"log", "module", m, o>> : m \in Modules, o \in {"on", "off"}}
    \cup {<<"latency", "run", u>> : u \in Urls}
    \cup {<<"latency", "run", u, c>> : u \in Urls, c \in Counts}
    \cup {<<"latency", "run", u, c, i>> : u \in Urls, c \in Counts, i \in Intervals}

Word(l, k) == IF k \in DOMAIN l THEN l[k] ELSE ""

-----------------------------------------------------------------------------
(* The local REPL                                                          *)

\* A number that cannot be parsed leaves the default.
Number(l, k, default) ==
  IF k \in DOMAIN l /\ Atoi[l[k]] # Missing THEN Atoi[l[k]] ELSE default

\* dispatchLocal: the call a line makes.
Local(l) ==
  LET n == Len(l)
      sub == Word(l, 2)
  IN CASE l[1] = "status" -> <<"IsRunning">>
       [] l[1] = "dns" ->
            CASE sub \in {"start", "stop"} -> <<"dns", sub>>
              [] sub = "list" -> <<"ListRecords">>
              [] sub = "add" /\ n = 4 -> <<"AddA", l[3], l[4]>>
              [] sub = "remove" /\ n = 3 -> <<"Remove", l[3]>>
              [] sub = "cname" /\ n = 5 /\ l[3] = "add" -> <<"AddCNAME", l[4], l[5]>>
              [] OTHER -> NoCall
       [] l[1] = "http" /\ n = 2 /\ sub \in {"start", "stop"} -> <<"http", sub>>
       [] l[1] = "ssh" /\ sub \in {"start", "stop"} -> <<"ssh", sub>>
       [] l[1] = "ssh" /\ sub = "who" -> <<"Sessions">>
       [] l[1] = "log" /\ sub = "modules" -> <<"Modules">>
       [] l[1] = "log" /\ sub = "module" /\ n = 4 /\ Word(l, 4) \in {"on", "off"} ->
            <<"SetEnabled", l[3], l[4] = "on">>
       [] l[1] = "log" /\ sub = "tail" -> <<"Tail", Number(l, 3, 50)>>
       [] l[1] = "latency" /\ n >= 3 /\ sub = "run" ->
            <<"runLatency", l[3], Params(Number(l, 4, 50), Number(l, 5, 200))>>
       [] OTHER -> NoCall

-----------------------------------------------------------------------------
(* The CLI                                                                 *)

Req(verb, path, body) == [verb |-> verb, path |-> path, body |-> body]
Get(path) == Req("GET", path, << >>)
Post(path, body) == Req("POST", path, body)

\* A number is read as far as it goes, and is 0 if there is none.
Scanned(l, k) == IF k \in DOMAIN l THEN Scan[l[k]] ELSE 0

\* dispatchRemote: the request a line makes.
Remote(l) ==
  LET n == Len(l)
      sub == Word(l, 2)
      Record(type, name, value) ==
        Post(<<"dns", "records">>, [type |-> type, name |-> name, value |-> value])
  IN CASE l[1] = "status" -> Get(<<"status">>)
       [] l[1] = "dns" ->
            CASE sub \in {"start", "stop"} -> Post(<<"dns", sub>>, << >>)
              [] sub = "list" -> Get(<<"dns", "records">>)
              [] sub = "add" /\ n = 4 -> Record("A", l[3], l[4])
              [] sub = "remove" /\ n = 3 -> Req("DELETE", <<"dns", "records", l[3]>>, << >>)
              [] sub = "cname" /\ n = 5 /\ l[3] = "add" -> Record("CNAME", l[4], l[5])
              [] OTHER -> NoRequest
       [] l[1] = "http" /\ n >= 2 -> Post(<<"http", sub>>, << >>)
       [] l[1] = "ssh" /\ n = 2 /\ sub \in {"start", "stop"} -> Post(<<"ssh", sub>>, << >>)
       [] l[1] = "ssh" /\ n = 2 /\ sub = "who" -> Get(<<"ssh", "sessions">>)
       [] l[1] = "log" /\ sub = "tail" -> Get(<<"log", "tail", IF n >= 3 THEN l[3] ELSE "50">>)
       [] l[1] = "log" /\ sub = "modules" /\ n = 2 -> Get(<<"log", "modules">>)
       [] l[1] = "log" /\ sub = "module" /\ n = 4 /\ Word(l, 4) \in {"on", "off"} ->
            Post(<<"log", "modules">>, [module |-> l[3], enabled |-> l[4] = "on"])
       [] l[1] = "latency" /\ n >= 3 /\ sub = "run" ->
            Post(<<"latency">>, [url |-> l[3], count |-> Scanned(l, 4), interval |-> Scanned(l, 5)])
       [] OTHER -> NoRequest

-----------------------------------------------------------------------------
(* The Admin API                                                           *)

\* What a handler does: it makes a call and answers with one of two codes, or
\* makes none and answers with a code at once.
Calls(c, ok, failed) == [call |-> c, ok |-> ok, failed |-> failed]
Answers(code) == Calls(NoCall, code, code)

\* Mutation of RecordCall: the type is not looked at.
RecordCallA(b) ==
  IF b = Missing THEN Answers(400) ELSE Calls(<<"AddA", b.name, b.value>>, 201, 400)

RecordCall(b) ==
  CASE b = Missing -> Answers(400)
    [] b # Missing /\ b.type = "A" -> Calls(<<"AddA", b.name, b.value>>, 201, 400)
    [] b # Missing /\ b.type = "CNAME" -> Calls(<<"AddCNAME", b.name, b.value>>, 201, 400)
    [] OTHER -> Answers(400)

handleDNSRecords(q) ==
  CASE q.verb = "GET" -> Calls(<<"ListRecords">>, 200, 200)
    [] q.verb = "POST" -> RecordCall(q.body)
    [] OTHER -> Answers(405)

handleDNSRecordDelete(q) ==
  LET name == q.path[3]
  IN  CASE q.verb # "DELETE" -> Answers(405)
        [] q.verb = "DELETE" /\ name = "" -> Answers(400)
        [] OTHER -> Calls(<<"Remove", name>>, 200, 404)

handleSSHDebug(q) ==
  CASE q.verb # "POST" -> Answers(405)
    [] q.verb = "POST" /\ q.body = Missing -> Answers(400)
    [] OTHER -> Calls(<<"SetDebug", q.body.enabled>>, 200, 200)

\* A number of lines that is not in 1 .. 1000 stands for 50.
handleLogTail(q) ==
  LET n == Atoi[q.path[3]]
  IN  Calls(<<"Tail", IF n # Missing /\ n > 0 /\ n <= 1000 THEN n ELSE 50>>, 200, 500)

handleLogModules(q) ==
  LET b == q.body
      incomplete == b = Missing \/ b.module = "" \/ b.enabled = Missing
  IN  CASE q.verb = "GET" -> Calls(<<"Modules">>, 200, 200)
        [] q.verb = "POST" -> IF incomplete THEN Answers(400)
                              ELSE Calls(<<"SetEnabled", b.module, b.enabled>>, 200, 200)
        [] OTHER -> Answers(405)

handleLatency(q) ==
  LET b == q.body
      count == IF b.count = 0 THEN 50 ELSE b.count
      interval == IF b.interval = 0 THEN 200 ELSE b.interval
  IN  IF b = Missing THEN Answers(400)
      ELSE Calls(<<"runLatency", b.url, Params(count, interval)>>, 200, 400)

\* /api/health and the paths of no handler need no token.
Open == {Answers(200), Answers(404)}

\* What the mux finds for a path, past auth.  Only some handlers look at the method.
Handler(q) ==
  LET p == q.path
  IN CASE p = <<"health">> -> Answers(200)
       [] p = <<"status">> -> Calls(<<"IsRunning">>, 200, 200)
       [] p \in {"dns", "http", "ssh"} \X {"start", "stop"} -> Calls(p, 200, 500)
       [] p = <<"dns", "records">> -> handleDNSRecords(q)
       [] Len(p) = 3 /\ IsPrefix(<<"dns", "records">>, p) -> handleDNSRecordDelete(q)
       [] p = <<"ssh", "sessions">> -> Calls(<<"Sessions">>, 200, 200)
       [] p = <<"ssh", "debug">> -> handleSSHDebug(q)
       [] Len(p) = 3 /\ IsPrefix(<<"log", "tail">>, p) -> handleLogTail(q)
       [] p = <<"log", "modules">> -> handleLogModules(q)
       [] p = <<"latency">> -> handleLatency(q)
       [] OTHER -> Answers(404)

\* The body of a request for the latency tool decodes into two ints, absent ones 0.
Numeric(q) ==
  q.path = <<"latency">> /\ q.body # Missing =>
    q.body.count \in Int /\ q.body.interval \in Int

ASSUME BodiesAssumption ==
  \A q \in Requests \cup {Remote(l) : l \in Malformed} : Numeric(q)

-----------------------------------------------------------------------------
(* A session                                                               *)

Init ==
  /\ stage = "start"
  /\ authorized \in BOOLEAN
  /\ line = << >>
  /\ request = NoRequest
  /\ call = NoCall
  /\ done = FALSE
  /\ status = 0
  /\ said = "usage"
  /\ run = NoRun

\* runCLIClient asks for /api/health, which needs no token, and exits when it
\* gets no answer.  (--health-check exits after it in any case.)
Hello ==
  /\ stage = "start"
  /\ stage' \in {"prompt", "exited"}
  /\ UNCHANGED <<authorized, line, request, call, done, status, said, run>>

Ask(l, q) ==
  /\ stage = "prompt"
  /\ stage' = IF q = NoRequest THEN "prompt" ELSE "sent"
  /\ line' = l
  /\ request' = q
  /\ call' = NoCall /\ done' = FALSE /\ status' = 0 /\ said' = "usage" /\ run' = NoRun
  /\ UNCHANGED authorized

Type(l) == Ask(l, Remote(l))
Send(q) == Ask(<< >>, q)

Says(what) ==
  /\ said' = what
  /\ stage' = "prompt"
  /\ run' = NoRun
  /\ UNCHANGED <<authorized, line, request, call, done, status>>

\* The connection is refused, or the daemon ends before it has answered.
Unreachable == stage \in {"sent", "serving"} /\ Says("unreachable")

\* The Timeout of the client: any call may take that long, one probe of the latency
\* tool alone may.  The handler goes on, unheard.
GiveUp == stage \in {"sent", "serving"} /\ Says("unreachable")

Reply(code) == status' = code /\ stage' = "answered"

\* The middleware and the handler, up to the call it makes.
Serve ==
  /\ stage = "sent"
  /\ LET h == Handler(request)
     IN  IF ~authorized /\ h \notin Open
         THEN Reply(401) /\ UNCHANGED <<call, run>>
         ELSE IF h.call = NoCall
         THEN Reply(h.ok) /\ UNCHANGED <<call, run>>
         ELSE /\ call' = h.call
              /\ stage' = "serving"
              /\ IF h.call[1] = "runLatency" /\ h.call[2] \notin BadUrls
                 THEN Begin(h.call[3])
                 ELSE UNCHANGED run
              /\ UNCHANGED status
  /\ UNCHANGED <<authorized, line, request, done, said>>

\* The call returns, without an error or with one.
Return ==
  /\ stage = "serving"
  /\ run # NoRun => Complete
  /\ LET h == Handler(request)
     IN  \/ /\ run = NoRun => call[1] # "runLatency"
            /\ done' = TRUE /\ Reply(h.ok)
         \/ /\ run = NoRun /\ h.ok # h.failed
            /\ done' = FALSE /\ Reply(h.failed)
  /\ UNCHANGED <<authorized, line, request, call, said, run>>

\* A probe that ends while the client still waits.
RunProbe ==
  /\ stage = "serving"
  /\ Probe
  /\ run'.elapsed <= ClientLimit
  /\ UNCHANGED <<stage, authorized, line, request, call, done, status, said>>

\* Mutation of Failed: the boundary is off by one.
FailedAbove(code) == code > 400

Failed(code) == code >= 400

\* The answer is decoded into a map, and an error of that is ignored: of an array,
\* which only the list of the sessions is, nothing is left.
Printed == IF request.path = <<"ssh", "sessions">> THEN "null" ELSE "done"

\* call of the apiClient, and what printJSON and the others make of it.
Show == stage = "answered" /\ Says(IF Failed(status) THEN "refused" ELSE Printed)

\* exit, quit, Ctrl-D.
Exit ==
  /\ stage = "prompt"
  /\ stage' = "exited"
  /\ UNCHANGED <<authorized, line, request, call, done, status, said, run>>

Ended == stage = "exited" /\ UNCHANGED vars

Next ==
  \/ Hello
  \/ \E l \in Syntax \cup Malformed : Type(l)
  \/ \E q \in Requests : Send(q)
  \/ Unreachable \/ GiveUp
  \/ Serve \/ Return \/ RunProbe
  \/ Show
  \/ Exit \/ Ended

Spec == Init /\ [][Next]_vars

-----------------------------------------------------------------------------
(* Properties                                                              *)

\* A line that asks for more rows of the log than the Admin API gives at once, or for
\* none: the handler takes it for one that names no number.
BeyondTail(l) == \E n \in Sizes : l = <<"log", "tail", n>> /\ Atoi[n] \notin 1 .. 1000

\* The call a documented line amounts to: that of the REPL but for BeyondTail.
Intended(l) == IF BeyondTail(l) THEN <<"Tail", 50>> ELSE Local(l)

\* What a documented line does when it is sent to the daemon (dispatchRemote,
\* cli_client.go:138) is what it does in the REPL, through a translation, an HTTP
\* request and a handler that each have their own idea of defaults and of what a
\* number is; and it does not do less.  BeyondTail is exempt: see SameAsRepl.
SameEffect ==
  line \in Syntax =>
    /\ call # NoCall => call = Intended(line)
    /\ authorized /\ said \in {"done", "null", "refused"} => call = Intended(line)

\* The client (printJSON, cli_client.go:262) reports success only for a request whose
\* call was made and returned no error, and an error of the daemon only if no call was
\* made or it returned one.  (What a call that returns an error has changed all the
\* same is the matter of DnsRecords.  That the client got no answer says nothing about
\* the call.)
PrintedTrue ==
  /\ said \in {"done", "null"} => done \/ request.path = <<"health">>
  /\ said = "refused" => ~done

\* "It keeps the same syntax as the original local REPL" (cli_client.go:137), whose
\* help promises the "last N lines of the log" for any N (line 245) and to "list
\* sessions" (line 244): a documented line does what it does in the REPL, and what
\* comes of it is printed.  The code differs for BeyondTail, and prints nothing of the
\* answer to "ssh who".
SameAsRepl ==
  line \in Syntax =>
    /\ call # NoCall => call = Local(line)
    /\ said # "null"

-----------------------------------------------------------------------------
(* What SameEffect, PrintedTrue and the truth of a result rest on          *)

\* The request is that of the line, and the call that of the request, once made:
\* at the latest when an authorized client has its answer.
EffectInv ==
  /\ line \in Syntax => request = Remote(line)
  /\ call # NoCall => call = Handler(request).call
  /\ authorized /\ (stage = "answered" \/ said \in {"done", "null", "refused"}) =>
       call = Handler(request).call

\* A call that is being made has not succeeded yet, and a status code tells whether
\* it has, unless there was nothing to call.
AnswerInv ==
  /\ stage = "sent" => call = NoCall
  /\ stage = "serving" => call # NoCall
  /\ stage \in {"sent", "serving"} => ~done
  /\ stage \in {"sent", "serving", "answered"} => said = "usage"
  /\ stage = "answered" => IF Failed(status) THEN ~done
                           ELSE done \/ request.path = <<"health">>

\* A run in progress has whole counts, and so has a request that may begin one.
RunInv ==
  /\ run # NoRun => run \in Runs
  /\ line \notin Syntax => Numeric(request)
=============================================================================
