# A verification development for the ZTNA lab appliance

The appliance is one Go binary that offers three targets to test a zero-trust
gateway against (a DNS server, an HTTP test server, an SSH mock), an Admin API
that starts and stops them, a shared log file, and a command line in front of
it all. This directory models the parts of it that keep state, checks the
models with TLC on small instances, and proves the most important guarantees
with TLAPS for all instances.

    tlc -workers 2 -config X.cfg MCM.tla     the run X (table below)
    tlapm MProofs.tla                        the proofs about M

## 1. The system

| Component | State | Operations | Hard behaviour |
|---|---|---|---|
| Shared logger `logger/logger.go` | package variables under `mu` (file, path, byte and line counters, module switches); the file and its `.1` backup | `Init`, `Log`, `SetEnabled`, `Tail`, `Stat`, `Path`, internal `rotate` | rotation is four system calls, any of which may fail and between any two of which the process may end; `Tail` reads both files without the mutex; counters must agree with a file another run wrote |
| DNS record store `dns/records.go` | A and CNAME maps under an RWMutex; a JSON file, a temporary file | `LoadRecords`, `AddA`, `AddCNAME`, `Remove`, `ListRecords`, `saveLocked`, `lookupA` | ends and failures inside a save; a failed save leaves the change in memory; the local REPL is a second process on the same files |
| DNS queries `dns/server.go` 100-187 | none of their own: one goroutine per query | `handle`, `answerA`, `answerCNAME`, `forward` | CNAME chains and loops walked while records change; a silent upstream |
| DNS server `dns/server.go` 15-98 | `srv`, `running` under `mu` | `Start`, `Stop`, `IsRunning` | success is 200 ms of silence; Stop waits for handlers with the mutex held |
| HTTP test server `httpd/server.go` | `srv`, `running` under `mu` | `Start`, `Stop`, `IsRunning`; handlers | a goroutine that reads `s.srv` without the mutex; a Stop that times out half done |
| SSH mock `sshd/server.go`, `config.go` | `listener`, `running`, `config` under `mu`; session table under `sessMu`; host key file | `Start`, `Stop`, `IsRunning`, `Sessions`, `SetDebug`; accept loop, `handleConn`, `handleShell` | accept loops of earlier Starts; connections that drop at any point; an end of the process while a key is stored |
| GeoIP cache `httpd/geoip.go` | map under an RWMutex, two lifetimes | `LookupGeo` | check, fetch without the lock, store: concurrent lookups overwrite each other |
| Inspector and handlers `httpd/inspector.go` | none | render one request | none |
| Latency probe `main.go`, `admin/latency.go` | none | `runLatency`, `verdict` | percentile indexes at the edges; a run as long as its client's patience |
| Admin API `admin/server.go` | none of its own | one handler per endpoint | every handler waits for the mutex of the server it asks; answers after partial failures |
| Appliance `main_appliance.go` | none of its own | autostart, wiring, shutdown on a signal | order of shutdown, bind errors that nobody sees |
| Local REPL `main.go`, remote CLI `cli_client.go` | none | parse a line, call a package or the API | a second process on the daemon's files |
| Web panel `admin/ui.html` | last polled status | poll, toggle | stale status decides between start and stop |
| Installer `setup.sh`, `deployments/` | the host | stop, fetch, build, install | interrupted anywhere |

How they interact: the daemon makes the three servers, starts them (each unless
switched off) and then the Admin API; CLI, panel and health check talk HTTP to
the Admin API, whose handlers call `Start`, `Stop`, `IsRunning`, the record
functions and the logger in goroutines of their own; every component writes to
the logger; the HTTP handlers ask the GeoIP cache. The components share no state
other than the logger's and, between processes, the files under `/data`.

What makes each correct:

* logger: the files stay bounded; what is on disk is the newest part of the log,
  unbroken, and at least a file's worth; `Tail` and `Stat` tell the truth.
* record store: one kind of record per name; what was acknowledged survives, what
  was not acknowledged spoils nothing else; the file is never half written.
* queries: an answer is true of one moment; local exactly when the walk finds an
  address within its depth; every query is answered.
* process and API: every request for a server is answered and the process ends,
  whoever is connected to what; what it leaves running is what could not be
  stopped in time.
* CLI: it does what the REPL does, and what it prints is true. Latency: the figures
  are those of the samples, the verdict is deserved.
* GeoIP cache: no answer is older than the lifetime of its kind, no address is
  asked for again too early.
* servers: reported as running exactly when they serve; a Stop that succeeded
  leaves nothing behind; no call holds its mutex for ever. For SSH also: the
  session table lists exactly the sessions there are, and the host key a client
  has seen stays.

## 2. Modules

| Module | Models | State and actions |
|---|---|---|
| `Logger` | `logger/logger.go`, one process after the other on one disk | package variables keep their names; `disk` is what the file system holds of each path. `InitAt`/`InitDegraded`, `Log`, `SetEnabled`; `RotateRemove`, `RotateRename`, `RotateOpen`, `RotateNotice` are rotate() with the mutex held; `TailStart`, `TailReadCur`, `TailReadBak`, `TailReturn` one call of Tail; `End` the process ending |
| `RecordTable` | what the record store promises | a served and a durable table; change, save, restart |
| `DnsRecords` | `dns/records.go` | `mem` (maps), `disk`, `tmp` (files); `Load`; `AddA`, `AddCNAME`, `Remove` up to the save; `CreateTmp`, `WriteTmp`, `Rename`, `Reply` the save with `store.mu` held |
| `DnsQueries` | `handle` to `forward`, `lookupA` | `A`, `CNAME`; per query how far its walk is; `WalkHit`, `WalkHop`, `WalkMiss` are the turns of lookupA's loop with the read lock held |
| `Service` | what each server promises | `running`, `active`, `admitted`; Start, Close and Stop, Admit, Leave |
| `SshServer` | `sshd/server.go` | one action per step of Start (`LoadOrGenerateKey`, `PersistCreate`, `PersistWrite`, `Listen`), `Stop`; `LoopRead`, `LoopAccept`, `LoopError` the accept loop of each Start; `Handshake`, `OpenShell`, `ExitShell`, `HandlerEnd` per connection |
| `HttpServer` | `httpd/server.go` 30-107 | Start in two steps (`StartServer`, then `Listen` or `ListenFails`), its goroutine (`Serve`), Stop in two (`Shutdown`, then `ShutdownDone` or `ShutdownTimeout`) |
| `DnsServer` | `dns/server.go` 15-98 | `StartServer`, then `StartFails` or `StartTimer`; `Bind`/`BindFails` in the goroutine; `Shutdown`, `ShutdownDone`; `Refused` for the calls that only return an error |
| `TestServers` | the HTTP and the DNS server in one process | a step of either; they have no state in common |
| `DnsAndHttp` | what the DNS and the HTTP server consist of: `DnsRecords`, `DnsQueries`, `GeoCache`, `TestServers` | `part` says which of the four runs; see below |
| `Appliance` | `runDaemon`, `runREPL`, `Start`/`Stop` of `admin/server.go` and its handlers that hold a server's mutex | each server is an instance of `Service` behind its mutex. `Program` is what main calls, in order (`at` is how far it is), `call` what main and each handler is doing: `StartBegins`, `StartEnds`, `StopBegins`, `StopEnds`, `StopTimesOut`, `CallSsh`, `Refuse`, `StatusStep`; `ApiStart`, `ApiBind`, `ApiShutdown`, `ApiDrained`, `ApiTimeout` the API |
| `Latency` | `runLatency`, `verdict`, `runLatencyAPI` | `run`: the probes so far as a bag of durations; `Probe`; `Result` |
| `Console` | `cli_client.go`, `dispatchLocal` of `main.go`, mux and handlers of `admin/server.go` | `Local` is the call the REPL makes for a line; `Remote` the request the CLI makes, `Handler` the call and the status codes of its handler. `Type`, `Send`, `Serve`, `Return`, `RunProbe`, `Show`, `GiveUp`, `Unreachable`: one exchange; `Printed` is what the CLI makes of an answer that is no error |
| `GeoCache` | `httpd/geoip.go` | `cache` (geoCache) under a clock; an API says an address, a failure with a message, a failure without one (`Kinds`), or nothing; `LookupLocal`, `LookupHit`, `LookupMiss` are the ways into LookupGeo; `fetchIPAPI`, `fetchIPWho` (no lock held) and `Store` the way of a miss |
| `MC*` | | model values and message sets for TLC |
| `LoggerProofs`, `DnsAndHttpProofs`, `DnsQueriesProofs`, `SshServerProofs`, `TestServersProofs`, `GeoCacheProofs`, `ApplianceProofs`, `ConsoleProofs` | | section 5 |

`DnsAndHttp` does not interleave its four parts. At this level they share no state:
`DnsQueries` has maps of its own, which change as those of the store do, because a
walk holds the read lock for all of its hops and the saves of the store do not matter
to it. Whatever interleaving is taken, what it is to each part is a behaviour of that
part with stutters in between, so a property of one part holds in it exactly if it
holds of the part alone.

What is abstracted, everywhere: wording and timestamps of log lines; names,
addresses and keys are model values; a mutex is the absence of another step
(an action that takes and releases it within the code is one action; where the
holder does system calls, `pc` says so and the others wait for it). Environment
variables are read into constants. In `Logger` a row is a physical line with its
author, its cause and a number that counts the rows of its path; in `DnsRecords`
a file is a store, absent, or torn. What the code calls (net/http, the DNS and
SSH libraries, the kernel's listen queue, the file system) is modelled from how
the code uses it and marked external in the map.

Definitions headed "Mutation of X" are X with a plausible bug; no specification
uses them. They are there to show that the properties notice.

## 3. Runs

| Run | Asks | Bounds | Result |
|---|---|---|---|
| `Logger` | do the files stay bounded, unbroken, full enough and truthful while logging, toggling, recycling, tailing, failing opens and ends of the process interleave; is a full file recycled | files of 2 rows or 4 bytes, messages of 1 and 2 rows, 5 rows per path in all, one end, Tail of 2: enough for two recycles, an end inside each step of one, logging to the fallback or to nothing, and a Tail overtaken by a recycle | pass |
| `LoggerDiskFull` | are only full files recycled when the disk refuses writes | files of 3 rows, 6 rows per path | violated |
| `DnsAndHttp` | records: what survives ends and failed writes, is the store a `RecordTable` | 2 names, 2 addresses, 2 ends: a failed save, a save of another name, an end inside it and a restart fit | pass |
| | queries: are answers consistent, local when they should be, and given | 3 names, 2 hops instead of 8: chains shorter than, as long as and longer than the limit, and loops, all exist | |
| | GeoIP: lookups that overlap, expire and fail | 2 requests, a public and a private address, lifetimes of 3 and 2 units, a clock of 5: an address and a miss can each expire and be replaced, with a second lookup under way at any step | |
| | servers: ports that are taken, requests and queries in progress, Stops that time out; is each server a `Service` | 2 connections, 4 Starts of HTTP and 3 of DNS: a second Stop after one that timed out, and two restarts | |
| `DnsRecordsUnread` | do records survive if the file may be unreadable once | the records above, one process | violated |
| `DnsQueriesForward` | is the server authoritative for what was added | the queries above | violated |
| `GeoCacheMiss` | is a miss kept for 5 minutes only | the lookups above | violated |
| `TestServersStop` | does IsRunning tell whether the listener is active | 2 Starts of HTTP, Stops may time out | violated |
| `SshServer` | sessions, keys, listeners and accept loops in every order; liveness | 2 connections, 2 Starts with an end between or a Stop between, 2 keys, 2 sessions | pass |
| `SshServerStop` | does Stop end sessions | 1 connection, no faults | violated |
| `Appliance` | does every request get its answer and the process its end, and what is left running, with a signal at any moment from when main waits for it | 2 handlers and main, 3 requests or commands in all, 1 client per server: one handler can hold a mutex, the second wait for it and main for both, with a request still to come after the signal | pass |
| `Console` | does the CLI do what it should, is what it prints true, are the latency figures right | each documented line with one or two words per argument and numerals below, at and above what the API gives, malformed lines, every way a handler answers; runs of up to 20 probes of 3 durations, one each side of both thresholds of the verdict, and the default 50 as far as 10 s allow | pass |
| `ConsoleRepl` | does the CLI do what the REPL does | as `Console`, with the one number of rows 2000 | violated |

The properties of the passing runs, by the question they answer:

* `Logger`: `DiskBounded` (2x the limit and two lines, whatever restarts and failed
  opens), `NoGap` (only the old end is ever lost), `Retained` (and only when a full
  file remains), `StatSizeExact`, `LogConsistent` (replaying the toggles explains
  every line), `TailNeverStale` (also when overtaken by a rotation), `TailExact`
  (when not), `FullFileRecycled`.
* `DnsAndHttp`, records: `OneKind`, `SaveAtomic`, `AckedDurable`, `AckedServed`,
  `ImplementsTable`; queries: `AnswerConsistent`, `ForwardedIffUnresolved`,
  `EveryQueryAnswered`; GeoIP: `AnswerRecent`, `NoRefetch`, `HitKept`; servers:
  `PortHasOwner`, `CallsReturn`, `ServersAreServices`.
* `SshServer`: `RunningIffActive`, `SessionsExact`, `HostKeyStable`,
  `ImplementsService`, `QueuedAnswered`, `LoopsEnd`.
* `Appliance`: `NothingRunsAtEnd` (but for what timed out, or what a handler
  started that outlived the API), `RequestsAnswered`, `ProcessEnds`.
* `Console`: `SameEffect` (but for the numbers of rows of `BeyondTail`),
  `PrintedTrue`, `PercentilesRight`, `VerdictTrue`.

Each of the queries', lookups', servers' and CLI's properties says what the code
means to do; what a document says beyond that and the code does not do has a run
of its own, which violates it.

`Service` lets a Stop take two steps, because Shutdown closes the listener first
and may then time out, and asks with `Drains` that HTTP and DNS report themselves
stopped only when everybody has left. `DnsServer` maps `running` to true from
the moment the port is bound, inside Start: nobody can ask before Start returns.
`Appliance` builds on `Service` instead of the detailed servers: `BothAreServices`
and `SshImplementsService` show that each does what `Service` says.

### What the code does not do

Seven runs end in a counterexample, each against a line of the repository:

* `LoggerDiskFull`: `lineCnt++` (logger.go:184) also counts lines that were not
  written, so a full disk rotates the log until both files are empty, against
  "rotated whenever it reaches EITHER the line limit ... or the byte limit".
* `DnsRecordsUnread`: after a read error LoadRecords leaves the maps empty
  (records.go:47), nothing remembers that, and the next change overwrites the
  file. The deployment guide promises records that persist.
* `DnsQueriesForward`: a query for an alias goes upstream when the chain does not end
  at a local address within 8 records, against "Authoritative for any A/CNAME records
  you add" (README.md:35). The run ends at an alias whose target is not local; a
  chain of exactly 8 CNAMEs goes the same way, as lookupA looks 8 names up and the
  address of such a chain is the ninth. `ForwardedIffUnresolved` is about the walk
  the code takes: what it says is "local" is what `MaxDepth` look-ups reach.
* `GeoCacheMiss`: a failure that an API reports without a message has an empty `Error`
  and is taken for an address (geoip.go:83, 96): the second API is not asked, and
  the miss is kept for 24 hours, against "5 min (erro/miss)" (geoip.go:4).
  `AnswerRecent` holds of such answers too, as those of a hit.
* `TestServersStop`: an HTTP Stop that timed out has closed the listener and leaves a
  server that says it runs until another Stop succeeds; the comment of IsRunning
  says that it tells whether the listener is active (server.go:102). `Service` asks
  the other direction, that an active listener is reported.
* `SshServerStop`: Stop closes the listener only; its comment says it ends the
  connections in progress.
* `ConsoleRepl`: `log tail 2000` gives 2000 lines locally and 50 remotely, as
  handleLogTail ignores numbers outside 1..1000 (server.go:290); the CLI "keeps the
  same syntax as the original local REPL" (cli_client.go:137). `SameAsRepl` also asks
  that something is printed of an answer, and with `Sizes = {"5"}` the run ends at
  `ssh who`, which prints `null` whoever is connected: the answer is an array and is
  decoded into a map and the error ignored (cli_client.go:68).

Others were met while modelling, and have no run, because no line of the repository
speaks against them or because the model has the fault switched off:

* the goroutine of an HTTP Start evaluates `s.srv` when it first runs
  (server.go:76). If Stop comes first it succeeds with the port still bound; the
  goroutine then panics on nil, or serves the old listener with the server of
  the next Start (the fault "late" of `HttpServer`, with which `PortHasOwner` and
  `ServersAreServices` fail);
* if ListenAndServe of the DNS server fails after the 200 ms of Start, nobody
  reads its error (server.go:69): the server says it runs, does not, and Stop
  fails for ever (the fault "slow" of `DnsServer`, with which `ServersAreServices`
  fails);
* any error of Accept ends the accept loop of a running SSH server (the fault
  "accept", with which `RunningIffActive` fails); `exit` ends the shell, not the
  session;
* `latency run <url>` with its defaults takes 9.8 s of pauses alone, and its client
  gives up after 10 s (cli_client.go:41): with probes of more than 4 ms the CLI
  says that it could not reach the daemon, which goes on probing;
* lines that are no documented ones (`Malformed`) may differ between CLI and REPL:
  `http start now` starts the server remotely and is refused locally, `ssh start
  now` the reverse; `latency run <url> 7x` makes 50 probes locally and 7 remotely;
* a Remove whose save failed is answered 404 (admin/server.go:221) although the
  record is gone from memory, and is back after a restart: `PrintedTrue` asks of a
  refusal only that the call returned an error, `AckedServed` and `AckedDurable`
  exempt the name;
* Start of the Admin API cannot fail (server.go:88): the exit of
  main_appliance.go:107-110 is never taken, and a daemon without an API runs on;
* the 10 s context of main_appliance.go:124 bounds nothing: shutdown takes up to 5 s
  for the API, 5 s for HTTP and 3 s and more for DNS, and a handler that outlives
  the API may start a server again before the process ends;
* `rc-service ztna-lab reload` sends SIGHUP ("sem restart",
  deployments/alpine/README.md:61), which the daemon does not handle: it ends;
* several processes open one log: every invocation of the binary, the health check
  of the container included, runs logger.Init (main_appliance.go:31) and may rotate
  the file the daemon goes on writing to;
* a lookup whose two APIs failed overwrites the address that an overlapping
  lookup has just stored for 24 hours (geoip.go:92); `HitKept` says that an
  overlap is the only way. The cache never forgets an address it is not asked for
  again;
* a rename that fails in rotate() (logger.go:300) reopens the full file with its
  counters at zero, so it outgrows its limit (switch the fault "rename" on);
* a rotation that cannot reopen leaves `Path()` naming a file nothing is written
  to, where the comment promises "";
* a message with newlines counts as one line until the next restart;
* a Tail overtaken by a rotation may return lines twice or out of order: what
  holds is `TailNeverStale`;
* the switch-off of a module leaves the log with the second recycle after it, and
  what follows is then a silence nothing explains: `LogConsistent` says that no line
  of a module follows its switch-off;
* two processes that save records share one temporary file, so one may rename
  what the other has just truncated (set `Procs` to two);
* a chased A record carries the alias as its owner; an IPv6 address is accepted and
  then answered as an A record without an address (set `Ipv6s`).

## 4. Fairness

Only what the code schedules itself is fair:

* `Logger`: the holder of the mutex goes on (`Rotate`) while its process does. No
  restart is assumed, and nobody owes the log a line or a Tail. `FullFileRecycled`
  is about a process that stays with a file, and cannot lean on a later write.
* `DnsAndHttp`: the goroutine of a query runs; Exchange has a limit of 3 s, so a
  forward is answered (`servfail` is an answer). Timers and contexts of the servers
  expire, goroutines run; an HTTP request may last for ever, a DNS query may not
  (`EveryQueryAnswered`). A lookup of the GeoIP cache owes nobody anything: its
  properties are about what it stores and returns. The fair actions of a part that
  does not run are not enabled in its initial state.
* `SshServer`: a Start that has begun goes on. Accept loops are strongly fair: one
  waiting for `mu` may find it taken again and again, but Go's mutex hands itself
  over to a waiter after a millisecond. Strong fairness for each connection in a
  listen queue: the kernel's queue is first in, first out. A handler notices
  that its connection is gone. No client owes anybody a handshake.
* `Appliance`: a caller waiting for a mutex gets it in the end, who holds one goes
  on, goroutines run, timers fire: one condition for all callers is enough, as
  requests are finitely many. Nobody owes the process a signal, or an HTTP
  request or the latency tool an end.
* `Console`: none, its properties are about what has been said and done.

Deadlock is checked in every run.

## 5. Proofs

| Theorem | For all instances |
|---|---|
| `LoggerProofs!TypeCorrect` | `TypeOK` of the logger |
| `LoggerProofs!FilesBounded` | `DiskBounded`, if renames do not fail |
| `LoggerProofs!SizeReported` | `StatSizeExact`, if renames do not fail |
| `LoggerProofs!NothingLostInside` | `NoGap`, whatever fails |
| `LoggerProofs!FullFilesKept` | `Retained`, if writes do not fail |
| `LoggerProofs!TailStaysFresh` | `TailNeverStale`, whatever fails |
| `LoggerProofs!TailAnswersExactly` | `TailExact`, if writes do not fail |
| `LoggerProofs!LogExplainsItself` | `LogConsistent`, if writes do not fail |
| `DnsAndHttpProofs!OneKindAlways` | `OneKind`, for any number of processes |
| `DnsAndHttpProofs!SaveIsAtomic` | `SaveAtomic`, for one process that can read its file |
| `DnsAndHttpProofs!AcknowledgedStays` | `AckedDurable`, likewise |
| `DnsAndHttpProofs!AcknowledgedServed` | `AckedServed`, likewise |
| `DnsAndHttpProofs!StoreIsTable` | the store implements `RecordTable`, likewise |
| `DnsAndHttpProofs!AnswersConsistent` | `AnswerConsistent`, for any records, clients and depth |
| `DnsAndHttpProofs!UpstreamIffUnresolved` | `ForwardedIffUnresolved`, likewise |
| `DnsAndHttpProofs!AnswersRecent` | `AnswerRecent`, for any number of overlapping lookups and any mix of API answers, failures without a message included |
| `DnsAndHttpProofs!ApisSpared` | `NoRefetch`, likewise |
| `DnsAndHttpProofs!HitsKept` | `HitKept`, likewise |
| `DnsAndHttpProofs!PortOwned` | `PortHasOwner`, if a Start's goroutine runs before the next call |
| `DnsAndHttpProofs!BothAreServices` | `ServersAreServices`, if besides ListenAndServe binds or fails within 200 ms |
| `SshServerProofs!TypeCorrect` | `TypeOK` of the SSH mock |
| `SshServerProofs!RunsWhenItSays` | `RunningIffActive`, if Accept does not fail |
| `SshServerProofs!SessionsListed` | `SessionsExact`, whatever fails |
| `SshServerProofs!HostKeyKept` | `HostKeyStable`, if the key file can be read and written |
| `SshServerProofs!SshImplementsService` | the SSH mock implements `Service`, if Accept does not fail |
| `ApplianceProofs!NothingLeftRunning` | `NothingRunsAtEnd`, for any number of handlers, requests and clients |
| `ConsoleProofs!CliTellsTruth` | `PrintedTrue`, for any lines and requests, answers that print nothing included |
| `ConsoleProofs!CliActsAsRepl` | `SameEffect`, for any words and any numerals (`WordsAssumption`): the call of the REPL, and for `log tail N` with N outside 1..1000 a Tail of 50 |
| `ConsoleProofs!FiguresRight` | `PercentilesRight`, for any durations, number of probes and clock |
| `ConsoleProofs!VerdictDeserved` | `VerdictTrue`, likewise |

"If X does not fail" is a premise of the theorem, not of the model: X remains a
fault TLC can be given, and with it the property is false. Besides their premises
the theorems rest on the named assumptions of their modules. The only assumptions
that are not about sizes and distinct values are those of `Console`.
`BodiesAssumption`: the body of a latency request, if it decodes at all, has two
integers, as the struct it is decoded into. `WordsAssumption`: `strconv.Atoi` and
`Sscanf("%d")` read a numeral as the same number, whatever number it is, names are
not empty, and a body that is missing or not JSON is not one the CLI sends. Lines
with other words are `Malformed`, and differ (section 3).

The theorems about queries, lookups and servers are proved in modules of their own,
`DnsQueriesProofs`, `GeoCacheProofs` and `TestServersProofs`, under the `ConstantsOK`
of each component. `DnsAndHttpProofs` instantiates them and shows that a behaviour of
`PartsSpec` is one of each part (`QueriesPart`, `GeoPart`, `ServersPart`), for all
constants that satisfy `PartsAssumption`.

Each invariance proof has the same form: a named invariant, stated beside the
properties of its module and checked by TLC before it was proved, holds initially and
is kept by each action. What each invariant adds to its property, and why:

* *Files bounded, size reported* (`SizeInv`). The code never looks at a file's size
  but at its counter, so the counter must equal the size of the open file; while the
  mutex is free it must be below the limit, so one more write exceeds it by less than
  a message; and a rotation must reopen a path only when there is no file under it.
  With a failing rename the last part is false, and so is the theorem.
* *Nothing lost* (`GapInv`): the property, restated for the two files apart, because
  a rename moves one into the place of the other.
* *Full files kept* (`RetainInv`): the line counter never runs ahead of the rows, so
  a recycle that has begun has a full file to put in place of the backup it removes,
  and this stays so when the process ends between its system calls. A failed write is
  excluded because the code counts the line all the same (`LoggerDiskFull`). All
  proofs about the rows share one lemma, `FilesStep`: whatever the step, the two files
  of a path are as before, or the current file has grown, or the backup is gone, or
  the current file has taken its place.
* *Tail fresh* (`FreshInv`): a Tail that has read a current file without rows depends
  on the backup; until it is read the backup ends with the newest row there was, or
  a recycle has put a newer file there. *Tail exact* (`ExactInv`): what was read of
  the file still starts it, and if no row was found there is none: files without rows
  have no bytes, which a failed write may falsify.
* *The log explains itself* (`SwitchInv`): the property says nothing of the switches in
  memory; so while this run of the process can still write, a switch-off it wrote is
  followed by a switch-on or the module is off, and all rows of the run are in one
  path. A recycle takes away an old end, which can only take away switch-offs together
  with all that precedes them.
* *Records* (`SaveInv`): what the temporary file holds at each step of a save, and that
  memory and file disagree only about the name being changed and names whose last
  operation failed.
* *Answers consistent* (`Inv` of `DnsQueriesProofs`): the trail of a walk is a path
  through the records as they were when it began. That a path is the only way a name
  leads (two of one length agree, and none goes on from an address) makes "no address
  within the depth" of the walk that ran out into a statement about all paths.
* *Runs when it says* (`ListenerInv`): only the listener of `s.listener` is open, and
  the loop spawned with it is there; earlier loops may or may not have moved on to
  it. *Sessions listed* (`SessionInv`): the table is a function of the connections.
  *Host key* (`KeyInv`): a key in hand is on disk before it is configured, and while
  the file is torn no client has seen a key.
* *HTTP and DNS implement Service* (`HttpInv` and `DnsInv` of `TestServersProofs`;
  every step of the two is a step or a stutter of each): only the server the package
  points to is bound, about to be bound, or has requests; for HTTP a server that a
  Stop has begun to shut down is never served again, for DNS no error in the channel
  after the wait means bound. The refinements map every action to an action of the
  abstract module or to a stutter; `End` of a running SSH server is a Stop.
* *GeoIP cache* (`Inv` of `GeoCacheProofs`): a lookup in progress found no entry, or
  one that had outlived its time, or an entry has been stored since it began
  (`MissInv`); an entry is no older than what its lookup heard, within the one unit a
  lookup may last, and is filed as a hit just if what was heard has no message
  (`EntryInv`; a failure without one is therefore among the hits, as in the code). An
  overlap of two lookups is therefore the only way a failure displaces a hit.
* *Nothing left running* (`ApplianceInv`): the property speaks of the end only, so it
  is strengthened to what main has stopped so far (`StoppedInv`). Who could start it
  again? Not main, which is past its Starts (`MainInv`, and the order of `Program`);
  not a handler, because the API is closed before the first server is stopped
  (`ApiInv`) and, unless its Stop timed out, none is at work any more (`QuietInv`).
* *CLI and REPL* (`EffectInv`, `AnswerInv`): a call that was made is that of the
  request and the request that of the line, and the status code tells whether it
  succeeded. The rest is about pure operators: `HandlerTells`, that every handler
  answers a call with codes the CLI tells apart, and `SyntaxReaches`, that for each
  form of line `Handler(Remote(line))` makes the call `Intended(line)`: `Local(line)`
  but for `BeyondTail`, the one form where `SameAsRepl` is false.
* *Figures of the latency tool* (`RunInv`): whoever asks for a run, its samples are a
  bag of durations; the rest is about any such bag. Its counts and totals are sums of
  the community modules, known only as folds. Induction over a set is out of the
  prover's reach, but a minimal counterexample does the same: `LeastSubset` gives one,
  from the well-foundedness of the finite subsets, and with it sums exist, may be
  taken apart at any element, grow with the set, and stay between the multiples that
  bound their summands. From these follow `SortedCounts` (`samples[k]` is at most x
  just if more than k samples are), where in the slice a percentile is read, that the
  average lies between the extremes, and that the squares of the deviations have a
  root, no larger than the distance of the extremes.

Checked by TLC only is liveness, which is out of the prover's reach:
`FullFileRecycled`, `EveryQueryAnswered`, `QueuedAnswered`, `LoopsEnd`,
`CallsReturn`, `RequestsAnswered`, `ProcessEnds`. Every other property of the passing
runs is a theorem.

## 6. Not modelled

Not modelled:

* rendering (inspector, test handlers, printing of answers), environment variables,
  the subcommands of `main()`;
* the web panel: it keeps nothing but what it last polled. A button that lags behind
  asks for a start or stop that is no longer due, which is among the requests of
  `Appliance`, where it is refused;
* several processes over one log file: each would have counters of its own for a file
  all of them rename;
* the installer and the deployment files: what they do is done by package managers,
  Docker and init systems. `setup.sh` stops what runs after it has fetched the new
  sources and before it has built them (line 424), and records what is deployed
  only at the end;
* two host keys at once (the second goes through the same code on its own file);
  what `SetDebug` switches; a read error of Tail; `maxTailBytes`; host names with
  characters that mean something in a URL.
