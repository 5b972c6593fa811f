----------------------------- MODULE ConsoleProofs -----------------------------
(***************************************************************************)
(* That the remote CLI does what the REPL does, for any words: first that  *)
(* the translation of a documented line, the request it becomes and the    *)
(* handler that serves it amount to the call of the REPL, then that a      *)
(* session makes that call and tells the truth about it.                   *)
(*                                                                         *)
(* And that the latency tool reports what it measured: facts about the     *)
(* sums its result is made of, then the result of any samples, then that   *)
(* whatever asks for a run, its samples are a bag of durations.            *)
(***************************************************************************)
EXTENDS Console, SequenceTheorems, FiniteSetTheorems, TLAPS

\* A line reaches, through the daemon, the call the REPL makes for it, or the one that
\* stands for it.
Arrives(l) == Remote(l) # NoRequest /\ Handler(Remote(l)).call = Intended(l)
Reaches(l) == Remote(l) # NoRequest /\ Handler(Remote(l)).call = Local(l)

\* What the assumption on the words says, part by part.
LEMMA MissingIsNone ==
  /\ \A x \in Int : x # Missing
  /\ \A x \in BOOLEAN : x # Missing
<1>1. Missing \notin Int \cup BOOLEAN
  BY WordsAssumption
<1> QED
  BY <1>1

LEMMA NumeralsAgree ==
  /\ \A w \in Counts : Atoi[w] \in Int /\ Scan[w] = Atoi[w]
  /\ \A w \in Intervals : Atoi[w] \in Int /\ Scan[w] = Atoi[w]
  /\ \A w \in Sizes : Atoi[w] \in Int
<1>1. /\ \A w \in Sizes : Atoi[w] \in Int
      /\ \A w \in Counts \cup Intervals : Atoi[w] \in Int /\ Scan[w] = Atoi[w]
  BY WordsAssumption
<1> QED
  BY <1>1

LEMMA PrefixTwo ==
  ASSUME NEW a, NEW b, NEW c, NEW d, NEW e
  PROVE  IsPrefix(<<a, b>>, <<c, d, e>>) <=> a = c /\ b = d
BY DEF IsPrefix

LEMMA StatusReaches == Reaches(<<"status">>)
BY DEF Reaches, Remote, Local, Handler, Get, Req, NoRequest, Calls, Word

LEMMA AddReaches ==
  ASSUME NEW n \in Names, NEW v \in Values
  PROVE  Reaches(<<"dns", "add", n, v>>)
<1> DEFINE l == <<"dns", "add", n, v>>
           b == [type |-> "A", name |-> n, value |-> v]
           q == Post(<<"dns", "records">>, b)
<1>1. /\ l[1] = "dns" /\ Word(l, 2) = "add" /\ l[3] = n /\ l[4] = v /\ Len(l) = 4
  BY DEF Word
<1> HIDE DEF l
<1>2. Local(l) = <<"AddA", n, v>>
  BY <1>1 DEF Local
<1>3. Remote(l) = q
  BY <1>1 DEF Remote
<1>4. q # NoRequest
  BY DEF Post, Req, NoRequest
<1>5. q.verb = "POST" /\ q.path = <<"dns", "records">> /\ q.body = b
  BY DEF Post, Req
<1>6. b # Missing /\ b.type = "A" /\ b.name = n /\ b.value = v
  <2>1. b \in [type : {"A", "CNAME"}, name : Names, value : Values]
    OBVIOUS
  <2> QED
    BY <2>1, WordsAssumption
<1> HIDE DEF q, b
<1>7. Handler(q) = RecordCall(b)
  BY <1>5 DEF Handler, handleDNSRecords
<1>8. RecordCall(b).call = <<"AddA", n, v>>
  BY <1>6 DEF RecordCall, Calls
<1> QED
  BY <1>2, <1>3, <1>4, <1>7, <1>8 DEF Reaches, l

LEMMA CnameReaches ==
  ASSUME NEW n \in Names, NEW v \in Values
  PROVE  Reaches(<<"dns", "cname", "add", n, v>>)
<1> DEFINE l == <<"dns", "cname", "add", n, v>>
           b == [type |-> "CNAME", name |-> n, value |-> v]
           q == Post(<<"dns", "records">>, b)
<1>1. /\ l[1] = "dns" /\ Word(l, 2) = "cname" /\ l[3] = "add" /\ l[4] = n /\ l[5] = v
      /\ Len(l) = 5
  BY DEF Word
<1> HIDE DEF l
<1>2. Local(l) = <<"AddCNAME", n, v>>
  BY <1>1 DEF Local
<1>3. Remote(l) = q
  BY <1>1 DEF Remote
<1>4. q # NoRequest
  BY DEF Post, Req, NoRequest
<1>5. q.verb = "POST" /\ q.path = <<"dns", "records">> /\ q.body = b
  BY DEF Post, Req
<1>6. b # Missing /\ b.type = "CNAME" /\ b.name = n /\ b.value = v
  <2>1. b \in [type : {"A", "CNAME"}, name : Names, value : Values]
    OBVIOUS
  <2> QED
    BY <2>1, WordsAssumption
<1> HIDE DEF q, b
<1>7. Handler(q) = RecordCall(b)
  BY <1>5 DEF Handler, handleDNSRecords
<1>8. RecordCall(b).call = <<"AddCNAME", n, v>>
  BY <1>6 DEF RecordCall, Calls
<1> QED
  BY <1>2, <1>3, <1>4, <1>7, <1>8 DEF Reaches, l

LEMMA RemoveReaches ==
  ASSUME NEW n \in Names
  PROVE  Reaches(<<"dns", "remove", n>>)
<1> DEFINE l == <<"dns", "remove", n>>
           p == <<"dns", "records", n>>
           q == Req("DELETE", p, << >>)
<1>1. l[1] = "dns" /\ Word(l, 2) = "remove" /\ l[3] = n /\ Len(l) = 3
  BY DEF Word
<1> HIDE DEF l
<1>2. Local(l) = <<"Remove", n>>
  BY <1>1 DEF Local
<1>3. Remote(l) = q
  BY <1>1 DEF Remote
<1>4. q # NoRequest
  BY DEF Req, NoRequest
<1>5. q.verb = "DELETE" /\ q.path = p
  BY DEF Req
<1>6. /\ Len(p) = 3 /\ p[3] = n /\ IsPrefix(<<"dns", "records">>, p)
      /\ ~IsPrefix(<<"log", "tail">>, p)
      /\ p # <<"health">> /\ p # <<"status">> /\ p # <<"dns", "records">>
      /\ p # <<"ssh", "sessions">> /\ p # <<"ssh", "debug">> /\ p # <<"log", "modules">>
      /\ p # <<"latency">>
      /\ p \notin {"dns", "http", "ssh"} \X {"start", "stop"}
  BY PrefixTwo
<1>7. n # ""
  BY WordsAssumption
<1> HIDE DEF q, p
<1>8. Handler(q) = handleDNSRecordDelete(q)
  BY <1>5, <1>6 DEF Handler
<1>9. handleDNSRecordDelete(q).call = <<"Remove", n>>
  BY <1>5, <1>6, <1>7 DEF handleDNSRecordDelete, Calls
<1> QED
  BY <1>2, <1>3, <1>4, <1>8, <1>9 DEF Reaches, l

LEMMA ListsReach ==
  /\ Reaches(<<"dns", "list">>)
  /\ Reaches(<<"ssh", "who">>)
  /\ Reaches(<<"log", "modules">>)
<1>1. Reaches(<<"dns", "list">>)
  <2> DEFINE l == <<"dns", "list">>
             q == Get(<<"dns", "records">>)
  <2>1. l[1] = "dns" /\ Word(l, 2) = "list" /\ Len(l) = 2
    BY DEF Word
  <2> HIDE DEF l
  <2>2. Local(l) = <<"ListRecords">> /\ Remote(l) = q
    BY <2>1 DEF Local, Remote
  <2>3. q # NoRequest /\ q.verb = "GET" /\ q.path = <<"dns", "records">>
    BY DEF Get, Req, NoRequest
  <2> HIDE DEF q
  <2>4. Handler(q) = handleDNSRecords(q)
    BY <2>3 DEF Handler
  <2>5. handleDNSRecords(q).call = <<"ListRecords">>
    BY <2>3 DEF handleDNSRecords, Calls
  <2> QED
    BY <2>2, <2>3, <2>4, <2>5 DEF Reaches, l
<1>2. Reaches(<<"ssh", "who">>)
  <2> DEFINE l == <<"ssh", "who">>
             q == Get(<<"ssh", "sessions">>)
  <2>1. l[1] = "ssh" /\ Word(l, 2) = "who" /\ Len(l) = 2
    BY DEF Word
  <2> HIDE DEF l
  <2>2. Local(l) = <<"Sessions">> /\ Remote(l) = q
    BY <2>1 DEF Local, Remote
  <2>3. q # NoRequest /\ q.path = <<"ssh", "sessions">>
    BY DEF Get, Req, NoRequest
  <2> HIDE DEF q
  <2>4. Handler(q) = Calls(<<"Sessions">>, 200, 200)
    BY <2>3 DEF Handler
  <2> QED
    BY <2>2, <2>3, <2>4 DEF Reaches, Calls, l
<1>3. Reaches(<<"log", "modules">>)
  <2> DEFINE l == <<"log", "modules">>
             q == Get(<<"log", "modules">>)
  <2>1. l[1] = "log" /\ Word(l, 2) = "modules" /\ Len(l) = 2
    BY DEF Word
  <2> HIDE DEF l
  <2>2. Local(l) = <<"Modules">> /\ Remote(l) = q
    BY <2>1 DEF Local, Remote
  <2>3. q # NoRequest /\ q.verb = "GET" /\ q.path = <<"log", "modules">>
    BY DEF Get, Req, NoRequest
  <2> HIDE DEF q
  <2>4. Handler(q) = handleLogModules(q)
    BY <2>3 DEF Handler
  <2>5. handleLogModules(q).call = <<"Modules">>
    BY <2>3 DEF handleLogModules, Calls
  <2> QED
    BY <2>2, <2>3, <2>4, <2>5 DEF Reaches, l
<1> QED
  BY <1>1, <1>2, <1>3

LEMMA ServersReach ==
  ASSUME NEW s \in {"dns", "http", "ssh"}, NEW o \in {"start", "stop"}
  PROVE  Reaches(<<s, o>>)
<1> DEFINE l == <<s, o>>
           p == <<s, o>>
           q == Post(p, << >>)
<1>1. l[1] = s /\ Word(l, 2) = o /\ Len(l) = 2
  BY DEF Word
<1>2. /\ p # <<"health">> /\ p # <<"status">>
      /\ p \in {"dns", "http", "ssh"} \X {"start", "stop"}
  OBVIOUS
<1> HIDE DEF l
<1>3. Local(l) = <<s, o>>
  BY <1>1 DEF Local
<1>4. Remote(l) = q
  BY <1>1 DEF Remote
<1>5. q # NoRequest /\ q.path = p
  BY DEF Post, Req, NoRequest
<1> HIDE DEF q, p
<1>6. Handler(q) = Calls(p, 200, 500)
  BY <1>2, <1>5 DEF Handler
<1> QED
  BY <1>3, <1>4, <1>5, <1>6 DEF Reaches, Calls, l, p

\* The handler of /api/log/tail/{n} and the REPL ask for the same number of lines, or
\* the handler asks for 50.
LEMMA TailHandler ==
  ASSUME NEW n, Atoi[n] \in Int
  PROVE  LET q == Get(<<"log", "tail", n>>)
         IN  /\ q # NoRequest
             /\ Atoi[n] \in 1 .. 1000 => Handler(q).call = <<"Tail", Atoi[n]>>
             /\ Atoi[n] \notin 1 .. 1000 => Handler(q).call = <<"Tail", 50>>
<1> DEFINE p == <<"log", "tail", n>>
           q == Get(p)
<1>1. /\ Len(p) = 3 /\ p[3] = n
      /\ IsPrefix(<<"log", "tail">>, p) /\ ~IsPrefix(<<"dns", "records">>, p)
      /\ p # <<"health">> /\ p # <<"status">> /\ p # <<"dns", "records">>
      /\ p # <<"ssh", "sessions">> /\ p # <<"ssh", "debug">>
      /\ p \notin {"dns", "http", "ssh"} \X {"start", "stop"}
  BY PrefixTwo
<1>2. q # NoRequest /\ q.path = p
  BY DEF Get, Req, NoRequest
<1> HIDE DEF q, p
<1>3. Handler(q) = handleLogTail(q)
  BY <1>1, <1>2 DEF Handler
<1>4. Atoi[n] # Missing
  BY MissingIsNone
<1>5. Atoi[n] \in 1 .. 1000 <=> Atoi[n] > 0 /\ Atoi[n] <= 1000
  OBVIOUS
<1>6. Atoi[n] \in 1 .. 1000 => handleLogTail(q).call = <<"Tail", Atoi[n]>>
  BY <1>1, <1>2, <1>4, <1>5 DEF handleLogTail, Calls
<1>7. Atoi[n] \notin 1 .. 1000 => handleLogTail(q).call = <<"Tail", 50>>
  BY <1>1, <1>2, <1>4, <1>5 DEF handleLogTail, Calls
<1> QED
  BY <1>2, <1>3, <1>6, <1>7 DEF q, p

LEMMA TailReaches ==
  /\ Reaches(<<"log", "tail">>)
  /\ \A n \in Sizes : Atoi[n] \in 1 .. 1000 => Reaches(<<"log", "tail", n>>)
  /\ \A n \in Sizes : Atoi[n] \notin 1 .. 1000 =>
       /\ Remote(<<"log", "tail", n>>) # NoRequest
       /\ Handler(Remote(<<"log", "tail", n>>)).call = <<"Tail", 50>>
<1>1. Reaches(<<"log", "tail">>)
  <2> DEFINE l == <<"log", "tail">>
  <2>1. l[1] = "log" /\ Word(l, 2) = "tail" /\ Len(l) = 2 /\ 3 \notin DOMAIN l
    BY DEF Word
  <2> HIDE DEF l
  <2>2. Local(l) = <<"Tail", 50>>
    BY <2>1 DEF Local, Number
  <2>3. Remote(l) = Get(<<"log", "tail", "50">>)
    BY <2>1 DEF Remote
  <2>4. Atoi["50"] = 50
    BY WordsAssumption
  <2>5. Atoi["50"] \in Int /\ Atoi["50"] \in 1 .. 1000
    BY <2>4
  <2> QED
    BY <2>2, <2>3, <2>4, <2>5, TailHandler DEF Reaches, l
<1>2. ASSUME NEW n \in Sizes
      PROVE  /\ Remote(<<"log", "tail", n>>) = Get(<<"log", "tail", n>>)
             /\ Local(<<"log", "tail", n>>) = <<"Tail", Atoi[n]>>
  <2> DEFINE l == <<"log", "tail", n>>
  <2>1. l[1] = "log" /\ Word(l, 2) = "tail" /\ Len(l) = 3 /\ 3 \in DOMAIN l /\ l[3] = n
    BY DEF Word
  <2> HIDE DEF l
  <2>2. Atoi[n] # Missing
    BY NumeralsAgree, MissingIsNone
  <2>3. Local(l) = <<"Tail", Atoi[n]>>
    BY <2>1, <2>2 DEF Local, Number
  <2>4. Remote(l) = Get(<<"log", "tail", n>>)
    BY <2>1 DEF Remote
  <2> QED
    BY <2>3, <2>4 DEF l
<1>3. \A n \in Sizes : Atoi[n] \in Int
  BY NumeralsAgree
<1> QED
  BY <1>1, <1>2, <1>3, TailHandler DEF Reaches

LEMMA ModuleReaches ==
  ASSUME NEW m \in Modules, NEW o \in {"on", "off"}
  PROVE  Reaches(<<"log", "module", m, o>>)
<1> DEFINE l == <<"log", "module", m, o>>
           e == o = "on"
           b == [module |-> m, enabled |-> e]
           q == Post(<<"log", "modules">>, b)
<1>1. /\ l[1] = "log" /\ Word(l, 2) = "module" /\ l[3] = m /\ l[4] = o /\ Len(l) = 4
      /\ Word(l, 4) = o
  BY DEF Word
<1>e. e \in BOOLEAN
  OBVIOUS
<1> HIDE DEF l
<1>2. Local(l) = <<"SetEnabled", m, e>>
  BY <1>1 DEF Local
<1>3. Remote(l) = q
  BY <1>1 DEF Remote
<1> HIDE DEF e
<1>4. q # NoRequest
  BY DEF Post, Req, NoRequest
<1>5. q.verb = "POST" /\ q.path = <<"log", "modules">> /\ q.body = b
  BY DEF Post, Req
<1>6. b # Missing /\ b.module = m /\ m # "" /\ b.enabled = e /\ e # Missing
  <2>1. b \in [module : Modules, enabled : BOOLEAN]
    BY <1>e
  <2>2. b # Missing /\ m # ""
    BY <2>1, WordsAssumption
  <2> QED
    BY <1>e, <2>2, MissingIsNone
<1> HIDE DEF q, b
<1>7. Handler(q) = handleLogModules(q)
  BY <1>5 DEF Handler
<1>8. handleLogModules(q).call = <<"SetEnabled", m, e>>
  BY <1>5, <1>6 DEF handleLogModules, Calls
<1> QED
  BY <1>2, <1>3, <1>4, <1>7, <1>8 DEF Reaches, l

\* Zero, less than zero and nothing at all stand for the default on either way.
LEMMA LatencyHandler ==
  ASSUME NEW u \in Urls, NEW c \in Int, NEW i \in Int
  PROVE  LET q == Post(<<"latency">>, [url |-> u, count |-> c, interval |-> i])
         IN  /\ q # NoRequest
             /\ Handler(q).call = <<"runLatency", u, Params(c, i)>>
<1> DEFINE b == [url |-> u, count |-> c, interval |-> i]
           q == Post(<<"latency">>, b)
<1>1. q # NoRequest /\ q.path = <<"latency">> /\ q.body = b
  BY DEF Post, Req, NoRequest
<1>2. b # Missing /\ b.url = u /\ b.count = c /\ b.interval = i
  <2>1. b \in [url : Urls, count : Int, interval : Int]
    OBVIOUS
  <2> QED
    BY <2>1, WordsAssumption
<1> HIDE DEF q, b
<1>3. Handler(q) = handleLatency(q)
  BY <1>1 DEF Handler
<1>4. Params(IF c = 0 THEN 50 ELSE c, IF i = 0 THEN 200 ELSE i) = Params(c, i)
  BY DEF Params
<1>5. handleLatency(q).call = <<"runLatency", u, Params(c, i)>>
  BY <1>1, <1>2, <1>4 DEF handleLatency, Calls
<1> QED
  BY <1>1, <1>3, <1>5 DEF q, b

LEMMA LatencyReaches ==
  ASSUME NEW u \in Urls
  PROVE  /\ Reaches(<<"latency", "run", u>>)
         /\ \A c \in Counts : Reaches(<<"latency", "run", u, c>>)
         /\ \A c \in Counts, i \in Intervals : Reaches(<<"latency", "run", u, c, i>>)
<1>1. Reaches(<<"latency", "run", u>>)
  <2> DEFINE l == <<"latency", "run", u>>
  <2>1. /\ l[1] = "latency" /\ Word(l, 2) = "run" /\ l[3] = u /\ Len(l) = 3
        /\ Number(l, 4, 50) = 50 /\ Number(l, 5, 200) = 200
        /\ Scanned(l, 4) = 0 /\ Scanned(l, 5) = 0
    BY DEF Word, Number, Scanned
  <2> HIDE DEF l
  <2>2. Local(l) = <<"runLatency", u, Params(50, 200)>>
    BY <2>1 DEF Local
  <2>3. Remote(l) = Post(<<"latency">>, [url |-> u, count |-> 0, interval |-> 0])
    BY <2>1 DEF Remote
  <2>4. Params(50, 200) = Params(0, 0)
    BY DEF Params
  <2> QED
    BY <2>2, <2>3, <2>4, LatencyHandler DEF Reaches, l
<1>2. ASSUME NEW c \in Counts PROVE Reaches(<<"latency", "run", u, c>>)
  <2> DEFINE l == <<"latency", "run", u, c>>
  <2>0. Atoi[c] \in Int /\ Scan[c] = Atoi[c] /\ Atoi[c] # Missing
    BY NumeralsAgree, MissingIsNone
  <2>1. /\ l[1] = "latency" /\ Word(l, 2) = "run" /\ l[3] = u /\ Len(l) = 4
        /\ Number(l, 4, 50) = Atoi[c] /\ Number(l, 5, 200) = 200
        /\ Scanned(l, 4) = Atoi[c] /\ Scanned(l, 5) = 0
    BY <2>0 DEF Word, Number, Scanned
  <2> HIDE DEF l
  <2>2. Local(l) = <<"runLatency", u, Params(Atoi[c], 200)>>
    BY <2>1 DEF Local
  <2>3. Remote(l) = Post(<<"latency">>, [url |-> u, count |-> Atoi[c], interval |-> 0])
    BY <2>1 DEF Remote
  <2>4. Params(Atoi[c], 200) = Params(Atoi[c], 0)
    BY DEF Params
  <2> QED
    BY <2>0, <2>2, <2>3, <2>4, LatencyHandler DEF Reaches, l
<1>3. ASSUME NEW c \in Counts, NEW i \in Intervals
      PROVE  Reaches(<<"latency", "run", u, c, i>>)
  <2> DEFINE l == <<"latency", "run", u, c, i>>
  <2>0. /\ Atoi[c] \in Int /\ Scan[c] = Atoi[c] /\ Atoi[c] # Missing
        /\ Atoi[i] \in Int /\ Scan[i] = Atoi[i] /\ Atoi[i] # Missing
    BY NumeralsAgree, MissingIsNone
  <2>1. /\ l[1] = "latency" /\ Word(l, 2) = "run" /\ l[3] = u /\ Len(l) = 5
        /\ Number(l, 4, 50) = Atoi[c] /\ Number(l, 5, 200) = Atoi[i]
        /\ Scanned(l, 4) = Atoi[c] /\ Scanned(l, 5) = Atoi[i]
    BY <2>0 DEF Word, Number, Scanned
  <2> HIDE DEF l
  <2>2. Local(l) = <<"runLatency", u, Params(Atoi[c], Atoi[i])>>
    BY <2>1 DEF Local
  <2>3. Remote(l) = Post(<<"latency">>, [url |-> u, count |-> Atoi[c], interval |-> Atoi[i]])
    BY <2>1 DEF Remote
  <2> QED
    BY <2>0, <2>2, <2>3, LatencyHandler DEF Reaches, l
<1> QED
  BY <1>1, <1>2, <1>3

\* Every documented line reaches through the daemon the call it is meant to, whatever
\* the words in it.
LEMMA SyntaxReaches == \A l \in Syntax : Arrives(l)
<1> SUFFICES ASSUME NEW l \in Syntax PROVE Arrives(l)
  OBVIOUS
<1>a. CASE BeyondTail(l)
  BY <1>a, TailReaches DEF BeyondTail, Intended, Arrives
<1>b. SUFFICES ASSUME ~BeyondTail(l) PROVE Reaches(l)
  BY <1>a DEF Intended, Arrives, Reaches
<1>1. CASE l \in {<<"status">>, <<"dns", "list">>, <<"ssh", "who">>, <<"log", "tail">>,
                  <<"log", "modules">>}
  BY <1>1, StatusReaches, ListsReach, TailReaches
<1>2. CASE \E s \in {"dns", "http", "ssh"}, o \in {"start", "stop"} : l = <<s, o>>
  BY <1>2, ServersReach
<1>3. CASE \E n \in Names, v \in Values : l = <<"dns", "add", n, v>>
  BY <1>3, AddReaches
<1>4. CASE \E n \in Names : l = <<"dns", "remove", n>>
  BY <1>4, RemoveReaches
<1>5. CASE \E n \in Names, v \in Values : l = <<"dns", "cname", "add", n, v>>
  BY <1>5, CnameReaches
<1>6. CASE \E n \in Sizes : l = <<"log", "tail", n>>
  BY <1>b, <1>6, TailReaches DEF BeyondTail
<1>7. CASE \E m \in Modules, o \in {"on", "off"} : l = <<"log", "module", m, o>>
  BY <1>7, ModuleReaches
<1>8. CASE \E u \in Urls : l = <<"latency", "run", u>>
  BY <1>8, LatencyReaches
<1>9. CASE \E u \in Urls, c \in Counts : l = <<"latency", "run", u, c>>
  BY <1>9, LatencyReaches
<1>10. CASE \E u \in Urls, c \in Counts, i \in Intervals :
              l = <<"latency", "run", u, c, i>>
  BY <1>10, LatencyReaches
<1> HIDE DEF Reaches
<1> QED
  BY <1>1, <1>2, <1>3, <1>4, <1>5, <1>6, <1>7, <1>8, <1>9, <1>10 DEF Syntax

-----------------------------------------------------------------------------
\* A handler that makes no call reports an error, and one that makes a call
\* reports success and failure with codes the CLI tells apart.
Telling(h) ==
  IF h.call = NoCall THEN h.ok \in {400, 404, 405}
  ELSE h.ok \in {200, 201} /\ (h.failed = h.ok \/ h.failed \in {400, 404, 500})

LEMMA CallsTell ==
  ASSUME NEW c, c # NoCall, NEW ok \in {200, 201}, NEW failed \in {400, 404, 500}
  PROVE  Telling(Calls(c, ok, failed)) /\ Telling(Calls(c, ok, ok))
BY DEF Telling, Calls

LEMMA AnswersTell ==
  ASSUME NEW code \in {400, 404, 405}
  PROVE  Telling(Answers(code))
BY DEF Telling, Answers, Calls

LEMMA CallsAreCalls ==
  /\ <<"IsRunning">> # NoCall /\ <<"ListRecords">> # NoCall /\ <<"Sessions">> # NoCall
  /\ <<"Modules">> # NoCall
  /\ \A x, y : /\ <<"AddA", x, y>> # NoCall /\ <<"AddCNAME", x, y>> # NoCall
               /\ <<"SetEnabled", x, y>> # NoCall /\ <<"runLatency", x, y>> # NoCall
               /\ <<x, y>> # NoCall
BY DEF NoCall

LEMMA HandlersTell ==
  ASSUME NEW q
  PROVE  /\ Telling(handleDNSRecords(q))
         /\ Telling(handleDNSRecordDelete(q))
         /\ Telling(handleSSHDebug(q))
         /\ Telling(handleLogTail(q))
         /\ Telling(handleLogModules(q))
         /\ Telling(handleLatency(q))
<1> USE CallsTell, AnswersTell, CallsAreCalls
<1>1. ASSUME NEW b PROVE Telling(RecordCall(b))
  <2> HIDE DEF Telling
  <2> QED
    BY DEF RecordCall
<1>2. Telling(handleDNSRecords(q))
  BY <1>1 DEF handleDNSRecords
<1>3. Telling(handleDNSRecordDelete(q))
  <2>1. Telling(Calls(<<"Remove", q.path[3]>>, 200, 404))
    OBVIOUS
  <2>2. Telling(Answers(405)) /\ Telling(Answers(400))
    OBVIOUS
  <2> QED
    BY <2>1, <2>2 DEF handleDNSRecordDelete
<1>4. Telling(handleSSHDebug(q))
  BY DEF handleSSHDebug
<1>5. Telling(handleLogTail(q))
  BY DEF handleLogTail
<1>6. Telling(handleLogModules(q))
  <2> DEFINE b == q.body
  <2>1. /\ Telling(Calls(<<"SetEnabled", b.module, b.enabled>>, 200, 200))
        /\ Telling(Calls(<<"Modules">>, 200, 200))
    OBVIOUS
  <2>2. Telling(Answers(405)) /\ Telling(Answers(400))
    OBVIOUS
  <2> QED
    BY <2>1, <2>2 DEF handleLogModules
<1>7. Telling(handleLatency(q))
  BY DEF handleLatency
<1> QED
  BY <1>2, <1>3, <1>4, <1>5, <1>6, <1>7

LEMMA HandlerTells ==
  ASSUME NEW q
  PROVE  q.path # <<"health">> => Telling(Handler(q))
<1>1. Telling(Calls(<<"IsRunning">>, 200, 200)) /\ Telling(Calls(<<"Sessions">>, 200, 200))
      /\ Telling(Answers(404))
  BY CallsTell, AnswersTell, CallsAreCalls
<1>2. ASSUME NEW p \in {"dns", "http", "ssh"} \X {"start", "stop"}
      PROVE  Telling(Calls(p, 200, 500))
  <2>1. p = <<p[1], p[2]>>
    OBVIOUS
  <2> QED
    BY <2>1, CallsTell, CallsAreCalls
<1> QED
  BY <1>1, <1>2, HandlersTell DEF Handler

-----------------------------------------------------------------------------
ConsoleInv == EffectInv /\ AnswerInv /\ PrintedTrue

LEMMA NoLineIsEmpty == << >> \notin Syntax
<1>1. \A a : << >> # <<a>>
  OBVIOUS
<1>2. \A a, b : << >> # <<a, b>>
  OBVIOUS
<1>3. \A a, b, c : << >> # <<a, b, c>>
  OBVIOUS
<1>4. \A a, b, c, d : << >> # <<a, b, c, d>>
  OBVIOUS
<1>5. \A a, b, c, d, e : << >> # <<a, b, c, d, e>>
  OBVIOUS
<1> QED
  BY <1>1, <1>2, <1>3, <1>4, <1>5 DEF Syntax

LEMMA ConsoleInit == Init => ConsoleInv
BY NoLineIsEmpty DEF Init, ConsoleInv, EffectInv, AnswerInv, PrintedTrue

LEMMA AskKeeps ==
  ASSUME ConsoleInv, NEW l, NEW q, Ask(l, q), l \in Syntax => q = Remote(l)
  PROVE  ConsoleInv'
BY DEF ConsoleInv, EffectInv, AnswerInv, PrintedTrue, Ask

LEMMA SaysKeeps ==
  ASSUME ConsoleInv, NEW what, Says(what),
         what = "unreachable" \/ (stage = "answered"
           /\ what = IF Failed(status) THEN "refused" ELSE Printed)
  PROVE  ConsoleInv'
<1>0. Printed \in {"done", "null"}
  BY DEF Printed
<1>1. EffectInv'
  BY <1>0 DEF ConsoleInv, EffectInv, Says
<1>2. AnswerInv'
  BY DEF Says, AnswerInv
<1>3. PrintedTrue'
  BY <1>0 DEF ConsoleInv, AnswerInv, PrintedTrue, Says
<1> QED
  BY <1>1, <1>2, <1>3 DEF ConsoleInv

LEMMA ServeKeeps ==
  ASSUME ConsoleInv, Serve
  PROVE  ConsoleInv'
<1> DEFINE h == Handler(request)
<1>1. /\ stage = "sent" /\ call = NoCall /\ ~done /\ said = "usage"
      /\ UNCHANGED <<authorized, line, request, done, said>>
  BY DEF Serve, ConsoleInv, AnswerInv
<1>2. request.path # <<"health">> => Telling(h)
  BY HandlerTells
<1>3. CASE ~authorized /\ h \notin Open
  <2>1. status' = 401 /\ stage' = "answered" /\ call' = call
    BY <1>3 DEF Serve, Reply
  <2> QED
    BY <1>1, <1>3, <2>1 DEF ConsoleInv, EffectInv, AnswerInv, PrintedTrue, Failed
<1>4. CASE ~(~authorized /\ h \notin Open) /\ h.call = NoCall
  <2>1. status' = h.ok /\ stage' = "answered" /\ call' = call
    BY <1>4 DEF Serve, Reply
  <2>2. request.path = <<"health">> \/ Failed(h.ok)
    BY <1>2, <1>4 DEF Telling, Failed
  <2> HIDE DEF h
  <2>3. AnswerInv'
    BY <1>1, <2>1, <2>2 DEF AnswerInv, Failed
  <2>4. EffectInv'
    BY <1>1, <1>4, <2>1 DEF ConsoleInv, EffectInv, h
  <2> QED
    BY <1>1, <2>3, <2>4 DEF ConsoleInv, PrintedTrue
<1>5. CASE ~(~authorized /\ h \notin Open) /\ h.call # NoCall
  <2>1. call' = h.call /\ stage' = "serving"
    BY <1>5 DEF Serve
  <2> QED
    BY <1>1, <1>5, <2>1 DEF ConsoleInv, EffectInv, AnswerInv, PrintedTrue
<1> QED
  BY <1>3, <1>4, <1>5

LEMMA ReturnKeeps ==
  ASSUME ConsoleInv, Return
  PROVE  ConsoleInv'
<1> DEFINE h == Handler(request)
<1>1. /\ stage = "serving" /\ call # NoCall /\ call = h.call /\ said = "usage"
      /\ UNCHANGED <<authorized, line, request, call, said>>
  BY DEF Return, ConsoleInv, AnswerInv, EffectInv
<1>2. /\ stage' = "answered"
      /\ \/ done' = TRUE /\ status' = h.ok
         \/ done' = FALSE /\ status' = h.failed /\ h.ok # h.failed
  BY DEF Return, Reply
<1>3. EffectInv'
  BY <1>1, <1>2 DEF ConsoleInv, EffectInv
<1>4. CASE request.path = <<"health">>
  <2>1. h = Answers(200)
    BY <1>4 DEF Handler
  <2> QED
    BY <1>1, <2>1 DEF Answers, Calls
<1>5. CASE request.path # <<"health">>
  <2>1. h.ok \in {200, 201} /\ (h.failed = h.ok \/ h.failed \in {400, 404, 500})
    BY <1>1, <1>5, HandlerTells DEF Telling
  <2>2. ~Failed(h.ok) /\ (h.ok # h.failed => Failed(h.failed))
    BY <2>1 DEF Failed
  <2>3. Failed(status') <=> ~done'
    BY <1>2, <2>2
  <2>4. AnswerInv'
    BY <1>1, <1>2, <2>3 DEF AnswerInv, Failed
  <2> QED
    BY <1>1, <1>3, <2>4 DEF ConsoleInv, PrintedTrue
<1> QED
  BY <1>4, <1>5

LEMMA ConsoleStep == ConsoleInv /\ [Next]_vars => ConsoleInv'
<1> SUFFICES ASSUME ConsoleInv, [Next]_vars PROVE ConsoleInv'
  OBVIOUS
<1>1. CASE Hello
  BY <1>1 DEF Hello, ConsoleInv, EffectInv, AnswerInv, PrintedTrue
<1>2. ASSUME NEW l \in Syntax \cup Malformed, Type(l) PROVE ConsoleInv'
  BY <1>2, AskKeeps DEF Type
<1>3. ASSUME NEW q \in Requests, Send(q) PROVE ConsoleInv'
  BY <1>3, AskKeeps, NoLineIsEmpty DEF Send
<1>4. CASE Unreachable \/ GiveUp
  BY <1>4, SaysKeeps DEF Unreachable, GiveUp
<1>5. CASE Serve
  BY <1>5, ServeKeeps
<1>6. CASE Return
  BY <1>6, ReturnKeeps
<1>7. CASE RunProbe
  BY <1>7 DEF RunProbe, ConsoleInv, EffectInv, AnswerInv, PrintedTrue
<1>8. CASE Show
  BY <1>8, SaysKeeps DEF Show
<1>9. CASE Exit \/ Ended \/ UNCHANGED vars
  BY <1>9 DEF Exit, Ended, vars, ConsoleInv, EffectInv, AnswerInv, PrintedTrue
<1> QED
  BY <1>1, <1>2, <1>3, <1>4, <1>5, <1>6, <1>7, <1>8, <1>9 DEF Next

LEMMA ConsoleAlways == Spec => []ConsoleInv
BY ConsoleInit, ConsoleStep, PTL DEF Spec

\* The CLI reports success, with the answer or (for ssh who, whose answer it cannot
\* decode) with null, only for a call that was made and returned no error, and an error
\* of the daemon only if none was made or it returned one: whatever is asked, by whom,
\* and however the daemon and the connection fail (call and printJSON, cli_client.go).
THEOREM CliTellsTruth == Spec => []PrintedTrue
<1>1. ConsoleInv => PrintedTrue
  BY DEF ConsoleInv
<1> QED
  BY <1>1, ConsoleAlways, PTL

\* A documented line, whatever its words, does through the translation of the CLI
\* (dispatchRemote), an HTTP request and the handler what it does in the REPL; but a
\* log tail of a number that is not in 1 .. 1000 asks for 50 rows (handleLogTail).
THEOREM CliActsAsRepl == Spec => []SameEffect
<1>1. ConsoleInv => SameEffect
  BY SyntaxReaches DEF ConsoleInv, EffectInv, SameEffect, Arrives
<1> QED
  BY <1>1, ConsoleAlways, PTL

-----------------------------------------------------------------------------
(* Sums over finite sets                                                   *)

\* h adds up f over the subsets of S, an element at a time.
Totals(h, f, S) ==
  h = [s \in SUBSET S |->
         IF s = {} THEN 0 ELSE LET x == CHOOSE x \in s : TRUE IN f[x] + h[s \ {x}]]

Tot(f, S) == CHOOSE h : Totals(h, f, S)

\* The sum of the community modules is what a total gives to the whole set.
LEMMA SumIsTotal == ASSUME NEW f, NEW S
  PROVE SumFunctionOnSet(f, S) = Tot(f, S)[S]
  BY DEF SumFunctionOnSet, FoldFunctionOnSet, MapThenFoldSet, Tot, Totals

\* Among the subsets of a finite set, one that is minimal: what stands for induction
\* over finite sets in the proofs below.
LEMMA LeastSubset ==
  ASSUME NEW S, IsFiniteSet(S), NEW B, B \subseteq SUBSET S, B # {}
  PROVE  \E T \in B : \A U \in B : U \subseteq T => U = T
<1>1. IsWellFoundedOn(StrictSubsetOrdering(S), FiniteSubsetsOf(S))
  BY FS_StrictSubsetOrderingWellFounded
<1>2. FiniteSubsetsOf(S) = SUBSET S
  BY FS_FiniteSubsetsOfFinite
<1>3. PICK T \in B : \A U \in B : <<U, T>> \notin StrictSubsetOrdering(S)
  <2>1. IsWellFoundedOn(StrictSubsetOrdering(S), SUBSET S)
    BY <1>1, <1>2
  <2> QED
    BY <2>1, WFMin
<1>4. \A U \in B : U \subseteq T => U = T
  BY <1>3 DEF StrictSubsetOrdering
<1> QED
  BY <1>4

\* Two totals agree wherever both are defined.
LEMMA TotalsAgree ==
  ASSUME NEW f, NEW S, NEW T, NEW g, NEW h, IsFiniteSet(T), T \subseteq S,
         Totals(g, f, S), Totals(h, f, T)
  PROVE  \A U \in SUBSET T : g[U] = h[U]
<1> DEFINE B == {U \in SUBSET T : g[U] # h[U]}
<1> SUFFICES ASSUME B # {} PROVE FALSE
  OBVIOUS
<1>1. PICK U \in B : \A V \in B : V \subseteq U => V = U
  <2>1. B \subseteq SUBSET T
    OBVIOUS
  <2> HIDE DEF B
  <2> QED
    BY <2>1, LeastSubset
<1>2. CASE U = {}
  BY <1>2 DEF Totals
<1>3. CASE U # {}
  <2> DEFINE x == CHOOSE y \in U : TRUE
  <2>1. x \in U
    BY <1>3
  <2>2. U \ {x} \notin B
    BY <1>1, <2>1
  <2>3. g[U \ {x}] = h[U \ {x}]
    BY <2>2
  <2>4. g[U] = f[x] + g[U \ {x}] /\ h[U] = f[x] + h[U \ {x}]
    BY <1>3 DEF Totals
  <2> QED
    BY <2>3, <2>4
<1> QED
  BY <1>2, <1>3

\* Every finite set has a total.
LEMMA TotalsExist ==
  ASSUME NEW f, NEW S, IsFiniteSet(S)
  PROVE  Totals(Tot(f, S), f, S)
<1> DEFINE B == {T \in SUBSET S : ~ \E h : Totals(h, f, T)}
<1>1. ASSUME B # {} PROVE FALSE
  <2>1. PICK T \in B : \A V \in B : V \subseteq T => V = T
    <3>1. B \subseteq SUBSET S
      OBVIOUS
    <3> HIDE DEF B
    <3> QED
      BY <1>1, <3>1, LeastSubset
  <2>2. ASSUME NEW V, V \subseteq T, V # T
        PROVE  Totals(Tot(f, V), f, V) /\ IsFiniteSet(V)
    <3>1. \E h : Totals(h, f, V)
      BY <2>1, <2>2
    <3>2. IsFiniteSet(V)
      BY <2>2, FS_Subset
    <3> QED
      BY <3>1, <3>2 DEF Tot
  <2> DEFINE Rest(U) == U \ {CHOOSE y \in U : TRUE}
             h == [U \in SUBSET T |->
                     IF U = {} THEN 0
                     ELSE f[CHOOSE y \in U : TRUE] + Tot(f, Rest(U))[Rest(U)]]
  <2>3. ASSUME NEW U \in SUBSET T, U # {}
        PROVE  h[Rest(U)] = Tot(f, Rest(U))[Rest(U)]
    <3> DEFINE V == Rest(U)
               W == Rest(V)
    <3>1. V \subseteq T /\ V # T
      BY <2>3
    <3>2. Totals(Tot(f, V), f, V) /\ IsFiniteSet(V)
      BY <2>2, <3>1
    <3>3. CASE V = {}
      <4>1. Tot(f, V)[V] = 0
        BY <3>2, <3>3 DEF Totals
      <4>2. h[V] = 0
        BY <3>3
      <4> QED
        BY <4>1, <4>2
    <3>4. CASE V # {}
      <4>1. W \subseteq V /\ W # V /\ W \subseteq T /\ W # T
        BY <3>1, <3>4
      <4>2. Totals(Tot(f, W), f, W) /\ IsFiniteSet(W)
        BY <2>2, <4>1
      <4>3. Tot(f, V)[W] = Tot(f, W)[W]
        <5> HIDE DEF V, W
        <5> QED
          BY <3>2, <4>1, <4>2, TotalsAgree
      <4>4. Tot(f, V)[V] = f[CHOOSE y \in V : TRUE] + Tot(f, V)[W]
        BY <3>2, <3>4 DEF Totals
      <4>5. h[V] = f[CHOOSE y \in V : TRUE] + Tot(f, W)[W]
        <5> HIDE DEF V
        <5> QED
          BY <3>1, <3>4
      <4> QED
        BY <4>3, <4>4, <4>5
    <3> QED
      BY <3>3, <3>4
  <2>4. Totals(h, f, T)
    <3>1. \A U \in SUBSET T :
            h[U] = IF U = {} THEN 0 ELSE f[CHOOSE y \in U : TRUE] + h[Rest(U)]
      <4> SUFFICES ASSUME NEW U \in SUBSET T, U # {}
                   PROVE  h[U] = f[CHOOSE y \in U : TRUE] + h[Rest(U)]
        OBVIOUS
      <4>1. h[U] = f[CHOOSE y \in U : TRUE] + Tot(f, Rest(U))[Rest(U)]
        OBVIOUS
      <4> HIDE DEF h
      <4> QED
        BY <2>3, <4>1
    <3>2. h = [U \in SUBSET T |-> h[U]]
      OBVIOUS
    <3> HIDE DEF h
    <3> QED
      BY <3>1, <3>2 DEF Totals
  <2> QED
    BY <2>1, <2>4
<1>2. S \notin B
  BY <1>1
<1> QED
  BY <1>2 DEF Tot

\* A sum is that of one element and of the others.
LEMMA SumUnfolds ==
  ASSUME NEW f, NEW S, IsFiniteSet(S)
  PROVE  SumFunctionOnSet(f, S)
           = IF S = {} THEN 0
             ELSE f[CHOOSE y \in S : TRUE]
                    + SumFunctionOnSet(f, S \ {CHOOSE y \in S : TRUE})
<1> DEFINE R == S \ {CHOOSE y \in S : TRUE}
<1>1. Totals(Tot(f, S), f, S)
  BY TotalsExist
<1>2. IsFiniteSet(R)
  BY FS_Subset
<1>3. Totals(Tot(f, R), f, R)
  BY <1>2, TotalsExist
<1>4. Tot(f, S)[R] = Tot(f, R)[R]
  BY <1>1, <1>2, <1>3, TotalsAgree
<1>5. Tot(f, S)[S] = IF S = {} THEN 0 ELSE f[CHOOSE y \in S : TRUE] + Tot(f, S)[R]
  BY <1>1 DEF Totals
<1> QED
  BY <1>4, <1>5, SumIsTotal

\* What nothing adds up to.
LEMMA SumEmpty == ASSUME NEW f PROVE SumFunctionOnSet(f, {}) = 0
BY SumUnfolds, FS_EmptySet

\* Naturals add up to a natural.
LEMMA SumNat ==
  ASSUME NEW S, IsFiniteSet(S), NEW f, \A x \in S : f[x] \in Nat
  PROVE  SumFunctionOnSet(f, S) \in Nat
<1> DEFINE B == {T \in SUBSET S : SumFunctionOnSet(f, T) \notin Nat}
<1>1. ASSUME B # {} PROVE FALSE
  <2>1. PICK T \in B : \A V \in B : V \subseteq T => V = T
    <3>1. B \subseteq SUBSET S
      OBVIOUS
    <3> HIDE DEF B
    <3> QED
      BY <1>1, <3>1, LeastSubset
  <2>2. IsFiniteSet(T)
    BY FS_Subset
  <2>3. T # {}
    BY SumEmpty
  <2> DEFINE x == CHOOSE y \in T : TRUE
  <2>4. x \in T
    BY <2>3
  <2>5. SumFunctionOnSet(f, T \ {x}) \in Nat
    BY <2>1, <2>4
  <2>6. SumFunctionOnSet(f, T) = f[x] + SumFunctionOnSet(f, T \ {x})
    BY <2>2, <2>3, SumUnfolds
  <2>7. f[x] \in Nat
    BY <2>4
  <2> QED
    BY <2>5, <2>6, <2>7
<1> QED
  BY <1>1

\* Any element may be taken first.
LEMMA SumTakes ==
  ASSUME NEW S, IsFiniteSet(S), NEW f, \A x \in S : f[x] \in Nat, NEW e \in S
  PROVE  SumFunctionOnSet(f, S) = f[e] + SumFunctionOnSet(f, S \ {e})
<1> DEFINE Sum(T) == SumFunctionOnSet(f, T)
           B == {T \in SUBSET S : \E y \in T : Sum(T) # f[y] + Sum(T \ {y})}
<1>1. ASSUME B # {} PROVE FALSE
  <2>1. PICK T \in B : \A V \in B : V \subseteq T => V = T
    <3>1. B \subseteq SUBSET S
      OBVIOUS
    <3> HIDE DEF B
    <3> QED
      BY <1>1, <3>1, LeastSubset
  <2>2. PICK y \in T : Sum(T) # f[y] + Sum(T \ {y})
    BY <2>1
  <2>3. \A V \in SUBSET T : IsFiniteSet(V) /\ Sum(V) \in Nat
    BY FS_Subset, SumNat
  <2> DEFINE x == CHOOSE z \in T : TRUE
  <2>4. x \in T
    BY <2>2
  <2>5. Sum(T) = f[x] + Sum(T \ {x})
    BY <2>2, <2>3, SumUnfolds
  <2>6. x # y
    BY <2>2, <2>5
  <2>7. Sum(T \ {x}) = f[y] + Sum((T \ {x}) \ {y})
    <3>1. T \ {x} \notin B
      BY <2>1, <2>4
    <3> HIDE DEF x, Sum
    <3> QED
      BY <2>6, <3>1
  <2>8. Sum(T \ {y}) = f[x] + Sum((T \ {y}) \ {x})
    <3>1. T \ {y} \notin B
      BY <2>1, <2>2
    <3> HIDE DEF x, Sum
    <3> QED
      BY <2>4, <2>6, <3>1
  <2>9. (T \ {x}) \ {y} = (T \ {y}) \ {x}
    OBVIOUS
  <2>10. f[x] \in Nat /\ f[y] \in Nat /\ Sum((T \ {x}) \ {y}) \in Nat
    BY <2>3, <2>4
  <2> HIDE DEF x, Sum
  <2> QED
    BY <2>2, <2>5, <2>7, <2>8, <2>9, <2>10
<1>2. S \notin B
  BY <1>1
<1> QED
  BY <1>2

\* A part adds up to no more than the whole.
LEMMA SumGrows ==
  ASSUME NEW S, IsFiniteSet(S), NEW f, \A x \in S : f[x] \in Nat,
         NEW T, T \subseteq S
  PROVE  SumFunctionOnSet(f, T) <= SumFunctionOnSet(f, S)
<1> DEFINE Sum(U) == SumFunctionOnSet(f, U)
           B == {U \in SUBSET S : T \subseteq U /\ ~(Sum(T) <= Sum(U))}
<1>1. ASSUME B # {} PROVE FALSE
  <2>1. PICK U \in B : \A V \in B : V \subseteq U => V = U
    <3>1. B \subseteq SUBSET S
      OBVIOUS
    <3> HIDE DEF B
    <3> QED
      BY <1>1, <3>1, LeastSubset
  <2>2. \A V \in SUBSET S : IsFiniteSet(V) /\ Sum(V) \in Nat
    BY FS_Subset, SumNat
  <2>3. T # U
    BY <2>1, <2>2
  <2>4. PICK e \in U : e \notin T
    BY <2>1, <2>3
  <2>5. Sum(U) = f[e] + Sum(U \ {e})
    BY <2>2, SumTakes
  <2>6. Sum(T) <= Sum(U \ {e})
    <3>1. U \ {e} \notin B
      BY <2>1, <2>4
    <3> QED
      BY <2>1, <2>4, <3>1
  <2>7. f[e] \in Nat /\ Sum(T) \in Nat /\ Sum(U) \in Nat /\ Sum(U \ {e}) \in Nat
    BY <2>2
  <2>8. ~(Sum(T) <= Sum(U))
    BY <2>1
  <2> HIDE DEF Sum
  <2> QED
    BY <2>5, <2>6, <2>7, <2>8
<1>2. S \notin B
  BY <1>1
<1> QED
  BY <1>2

\* Summands between two multiples of s add up to between the multiples of its sum.
LEMMA SumBetween ==
  ASSUME NEW S, IsFiniteSet(S), NEW s, NEW f, \A x \in S : s[x] \in Nat /\ f[x] \in Nat,
         NEW lo \in Nat, NEW hi \in Nat,
         \A x \in S : lo * s[x] <= f[x] /\ f[x] <= hi * s[x]
  PROVE  /\ lo * SumFunctionOnSet(s, S) <= SumFunctionOnSet(f, S)
         /\ SumFunctionOnSet(f, S) <= hi * SumFunctionOnSet(s, S)
<1> DEFINE Sum(g, U) == SumFunctionOnSet(g, U)
           Fits(U) == lo * Sum(s, U) <= Sum(f, U) /\ Sum(f, U) <= hi * Sum(s, U)
           B == {U \in SUBSET S : ~Fits(U)}
<1>1. ASSUME B # {} PROVE FALSE
  <2>1. PICK U \in B : \A V \in B : V \subseteq U => V = U
    <3>1. B \subseteq SUBSET S
      OBVIOUS
    <3> HIDE DEF B
    <3> QED
      BY <1>1, <3>1, LeastSubset
  <2>2. \A V \in SUBSET S : IsFiniteSet(V) /\ Sum(f, V) \in Nat /\ Sum(s, V) \in Nat
    BY FS_Subset, SumNat
  <2>3. U # {}
    <3>1. Fits({})
      BY SumEmpty
    <3> QED
      BY <2>1, <3>1
  <2>4. PICK e \in U : TRUE
    BY <2>3
  <2>5. Sum(f, U) = f[e] + Sum(f, U \ {e}) /\ Sum(s, U) = s[e] + Sum(s, U \ {e})
    BY <2>2, SumTakes
  <2>6. Fits(U \ {e})
    <3>1. U \ {e} \notin B
      BY <2>1, <2>4
    <3> QED
      BY <2>1, <3>1
  <2>7. /\ f[e] \in Nat /\ s[e] \in Nat /\ lo * s[e] <= f[e] /\ f[e] <= hi * s[e]
        /\ Sum(f, U \ {e}) \in Nat /\ Sum(s, U \ {e}) \in Nat
    BY <2>2, <2>4
  <2>8. Fits(U)
    <3> HIDE DEF Sum, B
    <3>1. lo * Sum(s, U) = lo * s[e] + lo * Sum(s, U \ {e})
      BY <2>5, <2>7
    <3>2. hi * Sum(s, U) = hi * s[e] + hi * Sum(s, U \ {e})
      BY <2>5, <2>7
    <3>3. \A a \in Nat, b \in Nat : a * b \in Nat
      OBVIOUS
    <3> QED
      BY <2>5, <2>6, <2>7, <3>1, <3>2, <3>3
  <2> QED
    BY <2>1, <2>8
<1>2. S \notin B
  BY <1>1
<1> QED
  BY <1>2
-----------------------------------------------------------------------------
(* The figures of a latency run                                            *)

\* A set of naturals has a least element, and a finite one a greatest.
LEMMA LeastNat ==
  ASSUME NEW S, S \subseteq Nat, S # {}
  PROVE  \E m \in S : \A x \in S : m <= x
<1>1. PICK m \in S : \A x \in S : <<x, m>> \notin OpToRel(<, Nat)
  BY NatLessThanWellFounded, WFMin
<1>2. \A x \in S : ~(x < m)
  BY <1>1 DEF OpToRel
<1> QED
  BY <1>2

\* Min and Max are what they are called.
LEMMA MinOfNats ==
  ASSUME NEW S, S \subseteq Nat, S # {}
  PROVE  Min(S) \in S /\ \A x \in S : Min(S) <= x
BY LeastNat DEF Min

LEMMA MaxOfNats ==
  ASSUME NEW S, IsFiniteSet(S), S \subseteq Nat, S # {}
  PROVE  Max(S) \in S /\ \A x \in S : x <= Max(S)
<1> DEFINE Bounded(T) == \E m \in T : \A x \in T : x <= m
           B == {T \in SUBSET S : T # {} /\ ~Bounded(T)}
<1>1. ASSUME B # {} PROVE FALSE
  <2>1. PICK T \in B : \A V \in B : V \subseteq T => V = T
    <3>1. B \subseteq SUBSET S
      OBVIOUS
    <3> HIDE DEF B, Bounded
    <3>2. IsFiniteSet(S)
      OBVIOUS
    <3> QED
      BY ONLY <1>1, <3>1, <3>2, LeastSubset
  <2>2. PICK x \in T : TRUE
    OBVIOUS
  <2>3. CASE T \ {x} = {}
    BY <2>2, <2>3
  <2>4. CASE T \ {x} # {}
    <3>1. T \ {x} \notin B
      BY <2>1, <2>2
    <3>2. PICK m \in T \ {x} : \A y \in T \ {x} : y <= m
      BY <2>4, <3>1
    <3>3. Bounded(T)
      <4>1. CASE m <= x
        <5>1. \A y \in T : y <= x
          BY <3>2, <4>1
        <5> QED
          BY <5>1
      <4>2. CASE ~(m <= x)
        <5>1. \A y \in T : y <= m
          BY <3>2, <4>2
        <5> QED
          BY <5>1
      <4> QED
        BY <4>1, <4>2
    <3> QED
      BY <2>1, <3>3
  <2> QED
    BY <2>3, <2>4
<1>2. Bounded(S)
  BY <1>1
<1>3. \E m \in S : \A x \in S : m >= x
  BY <1>2
<1> QED
  BY <1>3 DEF Max

-----------------------------------------------------------------------------
(* The samples                                                             *)

\* The counts are naturals, and grow with the duration.
LEMMA CountsNat ==
  ASSUME NEW s \in Samples
  PROVE  /\ Success(s) \in Nat
         /\ \A x : AtMost(s, x) \in Nat /\ AtMost(s, x) <= Success(s)
         /\ \A x \in Int, y \in Int : x <= y => AtMost(s, x) <= AtMost(s, y)
<1> USE LatencyAssumption DEF Samples
<1>1. Success(s) \in Nat
  BY SumNat DEF Success
<1>2. ASSUME NEW x PROVE AtMost(s, x) \in Nat /\ AtMost(s, x) <= Success(s)
  <2> DEFINE T == {d \in Durations : d <= x}
  <2>1. IsFiniteSet(T) /\ T \subseteq Durations
    BY FS_Subset
  <2> QED
    BY <2>1, SumNat, SumGrows DEF AtMost, Success
<1>3. ASSUME NEW x \in Int, NEW y \in Int, x <= y PROVE AtMost(s, x) <= AtMost(s, y)
  <2> DEFINE T == {d \in Durations : d <= x}
             U == {d \in Durations : d <= y}
  <2>1. U \subseteq Durations
    OBVIOUS
  <2>2. IsFiniteSet(U)
    BY <2>1, FS_Subset
  <2>3. T \subseteq U
    <3>1. ASSUME NEW d \in Durations, d <= x PROVE d <= y
      <4>1. d \in Nat
        OBVIOUS
      <4> QED
        BY <1>3, <3>1, <4>1
    <3> QED
      BY <3>1
  <2>4. \A d \in U : s[d] \in Nat
    BY <2>1
  <2> HIDE DEF T, U
  <2>5. SumFunctionOnSet(s, T) <= SumFunctionOnSet(s, U)
    BY <2>2, <2>3, <2>4, SumGrows
  <2> QED
    BY <2>5 DEF AtMost, T, U
<1> QED
  BY <1>1, <1>2, <1>3

\* samples[k] is a sample, and is no longer than x just if more than k of them are.
LEMMA SortedCounts ==
  ASSUME NEW s \in Samples, NEW k \in Nat, k < Success(s)
  PROVE  /\ Sorted(s, k) \in Durations
         /\ \A x \in Int : Sorted(s, k) <= x <=> AtMost(s, x) > k
<1> USE LatencyAssumption
<1> DEFINE Over == {d \in Durations : AtMost(s, d) > k}
<1>1. Over # {}
  <2> DEFINE m == Max(Durations)
  <2>1. m \in Durations /\ \A d \in Durations : d <= m
    BY MaxOfNats
  <2>2. {d \in Durations : d <= m} = Durations
    BY <2>1
  <2>3. AtMost(s, m) = Success(s)
    BY <2>2 DEF AtMost, Success
  <2> QED
    BY <2>1, <2>3, CountsNat
<1>2. Sorted(s, k) \in Over /\ \A d \in Over : Sorted(s, k) <= d
  BY <1>1, MinOfNats DEF Sorted
<1>3. ASSUME NEW x \in Int, Sorted(s, k) <= x PROVE AtMost(s, x) > k
  <2> DEFINE d == Sorted(s, k)
  <2>1. AtMost(s, d) > k /\ d \in Int
    <3>1. d \in Over
      BY <1>2
    <3> HIDE DEF d
    <3> QED
      BY <3>1
  <2>2. AtMost(s, Sorted(s, k)) <= AtMost(s, x)
    BY <1>3, <2>1, CountsNat
  <2>3. AtMost(s, Sorted(s, k)) \in Nat /\ AtMost(s, x) \in Nat
    BY CountsNat
  <2> QED
    BY <2>1, <2>2, <2>3
<1>4. ASSUME NEW x \in Int, AtMost(s, x) > k PROVE Sorted(s, k) <= x
  <2> DEFINE T == {d \in Durations : d <= x}
             m == Max(T)
  <2>1. T # {}
    BY <1>4, SumEmpty DEF AtMost
  <2>2. IsFiniteSet(T) /\ T \subseteq Nat
    BY FS_Subset
  <2>3. m \in T /\ \A d \in T : d <= m
    BY <2>1, <2>2, MaxOfNats
  <2>4. {d \in Durations : d <= m} = T
    <3>1. m \in Nat /\ m <= x /\ \A d \in T : d <= m
      BY <2>3
    <3>2. T = {d \in Durations : d <= x}
      OBVIOUS
    <3> HIDE DEF T, m
    <3>3. ASSUME NEW d \in Durations PROVE d <= m <=> d \in T
      BY <3>1, <3>2
    <3> QED
      BY <3>2, <3>3
  <2>5. AtMost(s, m) = AtMost(s, x)
    BY <2>4 DEF AtMost
  <2>6. m \in Over
    BY <1>4, <2>3, <2>5
  <2>7. Sorted(s, k) <= m /\ m <= x /\ m \in Nat /\ Sorted(s, k) \in Nat
    BY <1>2, <2>3, <2>6
  <2> QED
    BY <2>7
<1> QED
  BY <1>2, <1>3, <1>4

\* The samples the percentiles are read from: q % of the way up.
LEMMA PercentileRank ==
  ASSUME NEW s \in Samples, Success(s) > 0, NEW q \in 0 .. 99
  PROVE  \E k \in Nat : /\ k < Success(s) /\ 100 * k <= q * Success(s)
                        /\ q * Success(s) < 100 * k + 100
                        /\ k = (Success(s) * q) \div 100
                        /\ Percentile(s, q) = Sorted(s, k)
<1> DEFINE n == Success(s)
           k == (n * q) \div 100
<1>1. n \in Nat /\ n > 0
  BY CountsNat
<1> HIDE DEF n
<1>2. n * q \in Nat /\ n * q <= n * 99 /\ q * n = n * q
  BY <1>1
<1>3. k \in Nat /\ 100 * k <= n * q /\ n * q < 100 * k + 100
  BY <1>2
<1> HIDE DEF k
<1>4. k < n
  BY <1>1, <1>2, <1>3
<1>5. Min({n - 1, k}) = k
  <2> DEFINE T == {n - 1, k}
  <2>1. T \subseteq Nat /\ T # {} /\ k \in T /\ n - 1 \in T
    BY <1>1, <1>3
  <2>2. Min(T) \in T /\ Min(T) <= k
    BY <2>1, MinOfNats
  <2> QED
    BY <1>1, <1>3, <1>4, <2>2
<1>6. Percentile(s, q) = Sorted(s, k)
  BY <1>5 DEF Percentile, n, k
<1> QED
  BY <1>2, <1>3, <1>4, <1>6 DEF n, k

\* What runLatencyAPI reports when a probe has succeeded.
LEMMA ResultFields ==
  ASSUME NEW r, Success(r.samples) # 0
  PROVE  LET s == r.samples
             n == Success(s)
             R == Result(r)
         IN  /\ R.min = Sorted(s, 0) \div Ms /\ R.max = Sorted(s, n - 1) \div Ms
             /\ R.p50 = Percentile(s, 50) \div Ms /\ R.p95 = Percentile(s, 95) \div Ms
             /\ R.p99 = Percentile(s, 99) \div Ms
             /\ R.avg = Average(s) \div Ms /\ R.jitter = Jitter(s) \div Ms
             /\ \E m : /\ R.verdict = Verdict(m)
                       /\ m.total = r.total /\ m.success = n /\ m.p95 = Percentile(s, 95)
<1> DEFINE s == r.samples
           n == Success(s)
           m == [total |-> r.total, success |-> n,
                   min |-> Sorted(s, 0), avg |-> Average(s), p50 |-> Percentile(s, 50),
                   p95 |-> Percentile(s, 95), p99 |-> Percentile(s, 99),
                   max |-> Sorted(s, n - 1), jitter |-> Jitter(s)]
<1>1. Result(r) = [f \in DOMAIN m \cup {"verdict"} |->
              IF f = "verdict" THEN Verdict(m)
              ELSE IF f \in {"total", "success"} THEN m[f]
              ELSE m[f] \div Ms]
  BY DEF Result
<1>2. DOMAIN m = {"total", "success", "min", "avg", "p50", "p95", "p99", "max", "jitter"}
  OBVIOUS
<1>3. /\ m.total = r.total /\ m.success = n
      /\ m.min = Sorted(s, 0) /\ m.avg = Average(s) /\ m.p50 = Percentile(s, 50)
      /\ m.p95 = Percentile(s, 95) /\ m.p99 = Percentile(s, 99)
      /\ m.max = Sorted(s, n - 1) /\ m.jitter = Jitter(s)
  OBVIOUS
<1> HIDE DEF m
<1> QED
  BY <1>1, <1>2, <1>3

\* What a verdict says of the share of failures and of the 95th percentile.
VerdictSays(w, t, k, p) ==
  /\ w \in {"SLOW", "OK", "GOOD"} <=> 10 * k >= 9 * t
  /\ w = "GOOD" <=> 10 * k >= 9 * t /\ p <= 250 * Ms
  /\ w = "SLOW" => ~(p <= 1000 * Ms)
  /\ w = "OK" => p <= 1000 * Ms /\ ~(p <= 250 * Ms)
  /\ w = "MOSTLY FAILING" <=> 2 * k < t
  /\ w # "TOTAL FAILURE"

\* The verdict says that, whichever case it is.
LEMMA VerdictRight ==
  ASSUME NEW m, m.total \in Nat, m.success \in Nat, m.p95 \in Nat, m.success > 0
  PROVE  VerdictSays(Verdict(m), m.total, m.success, m.p95)
<1> DEFINE total == m.total
           n == m.success
           p95 == m.p95
           failed == total - n
           v == Verdict(m)
           a == 1000 * Ms
           b == 250 * Ms
<1>1. a \in Nat /\ b \in Nat /\ b < a
  BY LatencyAssumption
<1>2. v = CASE n = 0 -> "TOTAL FAILURE"
        [] n # 0 /\ 2 * failed > total -> "MOSTLY FAILING"
        [] 2 * failed <= total /\ 10 * failed > total -> "DEGRADED"
        [] 10 * failed <= total /\ p95 > a -> "SLOW"
        [] 10 * failed <= total /\ p95 \in b + 1 .. a -> "OK"
        [] OTHER -> "GOOD"
  BY DEF Verdict
<1>3. total \in Nat /\ n \in Nat /\ p95 \in Nat /\ n > 0
  OBVIOUS
<1> HIDE DEF v, a, b, total, n, p95
<1>4. failed \in Int /\ failed = total - n
  BY <1>3
<1> HIDE DEF failed
<1>5. ASSUME 2 * failed > total PROVE v = "MOSTLY FAILING"
  <2>1. /\ ~(n = 0) /\ n # 0 /\ ~(2 * failed <= total) /\ ~(10 * failed <= total)
    BY <1>3, <1>4, <1>5
  <2> QED
    BY ONLY <1>2, <1>5, <2>1, Zenon
<1>6. ASSUME 2 * failed <= total, 10 * failed > total PROVE v = "DEGRADED"
  <2>1. ~(n = 0) /\ ~(2 * failed > total) /\ ~(10 * failed <= total)
    BY <1>3, <1>4, <1>6
  <2> QED
    BY ONLY <1>2, <1>6, <2>1, Zenon
<1>7. ASSUME 10 * failed <= total
      PROVE  v = IF p95 > a THEN "SLOW" ELSE IF p95 > b THEN "OK" ELSE "GOOD"
  <2>1. ~(n = 0) /\ ~(2 * failed > total) /\ ~(10 * failed > total)
    BY <1>3, <1>4, <1>7
  <2>2. /\ p95 > a => p95 > b /\ ~(p95 \in b + 1 .. a)
        /\ ~(p95 > a) /\ p95 > b => p95 \in b + 1 .. a
        /\ ~(p95 > b) => ~(p95 > a) /\ ~(p95 \in b + 1 .. a)
    BY <1>1, <1>3
  <2> QED
    BY ONLY <1>2, <1>7, <2>1, <2>2, Zenon
<1>8. /\ 2 * failed > total <=> 2 * n < total
      /\ 10 * failed <= total <=> 10 * n >= 9 * total
      /\ 10 * failed <= total => ~(2 * failed > total)
      /\ 2 * failed <= total <=> ~(2 * failed > total)
      /\ 10 * failed > total <=> ~(10 * failed <= total)
  BY <1>3, <1>4
<1>9. /\ (p95 <= a <=> ~(p95 > a)) /\ (p95 <= b <=> ~(p95 > b))
      /\ p95 > a => p95 > b
  BY <1>1, <1>3
<1>10. /\ v \in {"SLOW", "OK", "GOOD"} <=> 10 * n >= 9 * total
       /\ v = "GOOD" <=> 10 * n >= 9 * total /\ p95 <= b
       /\ v = "SLOW" => ~(p95 <= a)
       /\ v = "OK" => p95 <= a /\ ~(p95 <= b)
       /\ v = "MOSTLY FAILING" <=> 2 * n < total
       /\ v # "TOTAL FAILURE"
  <2> DEFINE A == 2 * failed > total
             B == 10 * failed <= total
             C == p95 > a
             D == p95 > b
  <2>1. (A => v = "MOSTLY FAILING") /\ (~A /\ ~B => v = "DEGRADED")
    BY <1>5, <1>6, <1>8
  <2>2. B => /\ C => v = "SLOW"
             /\ ~C /\ D => v = "OK"
             /\ ~C /\ ~D => v = "GOOD"
    BY <1>7
  <2>3. /\ B => ~A
        /\ C => D
    BY <1>8, <1>9
  <2> HIDE DEF A, B, C, D
  <2>4. /\ v \in {"SLOW", "OK", "GOOD"} <=> B
        /\ v = "GOOD" <=> B /\ ~D
        /\ v = "SLOW" => C
        /\ v = "OK" => ~C /\ D
        /\ v = "MOSTLY FAILING" <=> A
        /\ v # "TOTAL FAILURE"
    BY <2>1, <2>2, <2>3
  <2> QED
    BY ONLY <1>8, <1>9, <2>4 DEF A, B, C, D
<1>11. VerdictSays(v, total, n, p95)
  BY ONLY <1>10 DEF VerdictSays, a, b
<1> QED
  BY ONLY <1>11 DEF v, total, n, p95

\* The verdict of a run whose samples are a bag of durations is true of them.
LEMMA VerdictOfRun == RunInv => VerdictTrue
<1> SUFFICES ASSUME run \in Runs PROVE VerdictTrue
  BY DEF RunInv, VerdictTrue, Complete
<1> DEFINE s == run.samples
           n == Success(s)
           v == Result(run).verdict
<1>1. s \in Samples /\ n \in Nat /\ run.total \in Nat
  <2>1. s \in Samples /\ run.total \in Nat
    BY DEF Runs
  <2> QED
    BY <2>1, CountsNat
<1>2. CASE n = 0
  <2>1. v = "TOTAL FAILURE"
    BY <1>2 DEF Result
  <2>2. /\ v \in {"SLOW", "OK", "GOOD"} <=> FALSE
        /\ v # "GOOD" /\ v # "SLOW" /\ v # "OK" /\ v # "MOSTLY FAILING"
    BY ONLY <2>1
  <2>3. ~(n > 0)
    BY <1>2
  <2> HIDE DEF v, n
  <2> QED
    BY <1>2, <2>1, <2>2, <2>3 DEF VerdictTrue, v, n, s
<1>3. CASE n # 0
  <2>1. PICK k \in Nat : /\ k < n /\ 100 * k <= 95 * n /\ 95 * n < 100 * k + 100
                         /\ Percentile(s, 95) = Sorted(s, k)
    <3>1. n > 0
      BY <1>1, <1>3
    <3>2. 95 \in 0 .. 99
      OBVIOUS
    <3> HIDE DEF s
    <3> QED
      BY <1>1, <3>1, <3>2, PercentileRank
  <2> DEFINE p95 == Sorted(s, k)
             Fast(ms) == 100 * AtMost(s, ms * Ms) > 95 * n
  <2>2. p95 \in Nat /\ \A x \in Int : p95 <= x <=> AtMost(s, x) > k
    <3> HIDE DEF s
    <3>1. p95 \in Durations
      BY <1>1, <2>1, SortedCounts
    <3>2. p95 \in Nat
      BY <3>1, LatencyAssumption
    <3> QED
      BY <1>1, <2>1, <3>2, SortedCounts
  <2>3. ASSUME NEW ms \in Nat PROVE Fast(ms) <=> p95 <= ms * Ms
    <3>1. ms * Ms \in Int /\ AtMost(s, ms * Ms) \in Nat
      BY <1>1, CountsNat, LatencyAssumption
    <3>2. p95 <= ms * Ms <=> AtMost(s, ms * Ms) > k
      BY <2>2, <3>1
    <3> HIDE DEF n, s
    <3> QED
      BY <1>1, <2>1, <3>1, <3>2
  <2>4. PICK m : v = Verdict(m) /\ m.total = run.total /\ m.success = n /\ m.p95 = p95
    <3>1. \E m : /\ v = Verdict(m)
                 /\ m.total = run.total /\ m.success = n /\ m.p95 = Percentile(s, 95)
      BY <1>3, ResultFields
    <3> QED
      BY <2>1, <3>1
  <2> DEFINE total == run.total
             F(ms) == p95 <= ms * Ms
  <2>5. VerdictSays(v, total, n, p95)
    <3>1. n > 0
      BY <1>1, <1>3
    <3>2. m.total \in Nat /\ m.success \in Nat /\ m.p95 \in Nat /\ m.success > 0
      <4> HIDE DEF n, v, p95
      <4> QED
        BY <1>1, <2>2, <2>4, <3>1
    <3>3. VerdictSays(Verdict(m), m.total, m.success, m.p95)
      BY <3>2, VerdictRight
    <3> HIDE DEF n, v, p95
    <3> QED
      BY <2>4, <3>3
  <2>6. /\ v \in {"SLOW", "OK", "GOOD"} <=> 10 * n >= 9 * total
        /\ v = "GOOD" <=> 10 * n >= 9 * total /\ F(250)
        /\ v = "SLOW" => ~F(1000)
        /\ v = "OK" => F(1000) /\ ~F(250)
        /\ v = "MOSTLY FAILING" <=> 2 * n < total
        /\ v # "TOTAL FAILURE"
    <3> HIDE DEF n, v, p95, total
    <3> QED
      BY <2>5 DEF VerdictSays
  <2>7. (Fast(250) <=> F(250)) /\ (Fast(1000) <=> F(1000))
    BY <2>3
  <2>8. n > 0
    BY <1>1, <1>3
  <2>9. /\ v \in {"SLOW", "OK", "GOOD"} <=> n > 0 /\ 10 * n >= 9 * total
        /\ v = "GOOD" <=> n > 0 /\ 10 * n >= 9 * total /\ Fast(250)
        /\ v = "SLOW" => ~Fast(1000)
        /\ v = "OK" => Fast(1000) /\ ~Fast(250)
        /\ v = "MOSTLY FAILING" <=> n > 0 /\ 2 * n < total
        /\ v = "TOTAL FAILURE" <=> n = 0
    <3> DEFINE f2 == Fast(250)
               f10 == Fast(1000)
               g2 == F(250)
               g10 == F(1000)
               most == 10 * n >= 9 * total
               few == 2 * n < total
               some == n > 0
               none == n = 0
    <3>1. (f2 <=> g2) /\ (f10 <=> g10)
      BY <2>7
    <3>2. some /\ ~none
      BY <1>3, <2>8
    <3>3. /\ v \in {"SLOW", "OK", "GOOD"} <=> most
          /\ v = "GOOD" <=> most /\ g2
          /\ v = "SLOW" => ~g10
          /\ v = "OK" => g10 /\ ~g2
          /\ v = "MOSTLY FAILING" <=> few
          /\ v # "TOTAL FAILURE"
      BY <2>6
    <3> HIDE DEF n, v, f2, f10, g2, g10, most, few, some, none
    <3>4. /\ v \in {"SLOW", "OK", "GOOD"} <=> some /\ most
          /\ v = "GOOD" <=> some /\ most /\ f2
          /\ v = "SLOW" => ~f10
          /\ v = "OK" => f10 /\ ~f2
          /\ v = "MOSTLY FAILING" <=> some /\ few
          /\ v = "TOTAL FAILURE" <=> none
      BY ONLY <3>1, <3>2, <3>3
    <3> QED
      BY ONLY <3>4 DEF f2, f10, most, few, some, none
  <2> QED
    BY <2>9 DEF VerdictTrue
<1> QED
  BY <1>2, <1>3

\* A percentile in whole milliseconds is true to the millisecond.
LEMMA MillisecondsRight ==
  ASSUME NEW s \in Samples, Success(s) > 0, NEW q \in 0 .. 99
  PROVE  LET p == Percentile(s, q) \div Ms
         IN  /\ 100 * AtMost(s, p * Ms - 1) <= q * Success(s)
             /\ 100 * AtMost(s, p * Ms + Ms - 1) >= q * Success(s)
<1> DEFINE d == Percentile(s, q)
           p == d \div Ms
           n == Success(s)
           lo == p * Ms - 1
           hi == p * Ms + Ms - 1
<1>1. PICK k \in Nat : /\ k < n /\ 100 * k <= q * n /\ q * n < 100 * k + 100
                       /\ d = Sorted(s, k)
  BY PercentileRank
<1>2. d \in Nat /\ \A x \in Int : d <= x <=> AtMost(s, x) > k
  <2>1. d \in Durations /\ \A x \in Int : d <= x <=> AtMost(s, x) > k
    <3> HIDE DEF d
    <3> QED
      BY <1>1, SortedCounts
  <2> QED
    BY <2>1, LatencyAssumption
<1> HIDE DEF d
<1>3. p \in Nat /\ lo \in Int /\ hi \in Int /\ lo < d /\ d <= hi
  <2>1. Ms \in Nat \ {0}
    BY LatencyAssumption
  <2>2. p \in Nat /\ Ms * p <= d /\ d < Ms * p + Ms
    BY <1>2, <2>1
  <2> HIDE DEF p
  <2>3. Ms * p = p * Ms /\ p * Ms \in Nat
    BY <2>1, <2>2
  <2> QED
    BY <1>2, <2>1, <2>2, <2>3
<1> HIDE DEF lo, hi
<1>4. AtMost(s, lo) <= k /\ k + 1 <= AtMost(s, hi)
  <2>1. AtMost(s, lo) \in Nat /\ AtMost(s, hi) \in Nat
    BY CountsNat
  <2>2. ~(AtMost(s, lo) > k) /\ AtMost(s, hi) > k
    BY <1>2, <1>3
  <2> QED
    BY <2>1, <2>2
<1>5. n \in Nat /\ q * n \in Nat /\ AtMost(s, lo) \in Nat /\ AtMost(s, hi) \in Nat
  BY CountsNat
<1> HIDE DEF n
<1>6. 100 * AtMost(s, lo) <= q * n /\ 100 * AtMost(s, hi) >= q * n
  BY <1>1, <1>4, <1>5
<1> QED
  BY <1>6 DEF lo, hi, n, p, d

\* The slice is sorted.
LEMMA SortedAscends ==
  ASSUME NEW s \in Samples, NEW j \in Nat, NEW k \in Nat, j <= k, k < Success(s)
  PROVE  /\ Sorted(s, j) \in Nat /\ Sorted(s, k) \in Nat
         /\ Sorted(s, j) <= Sorted(s, k)
<1> DEFINE d == Sorted(s, j)
           e == Sorted(s, k)
<1>1. j < Success(s) /\ Success(s) \in Nat
  BY CountsNat
<1>2. /\ d \in Durations /\ \A x \in Int : d <= x <=> AtMost(s, x) > j
      /\ e \in Durations /\ \A x \in Int : e <= x <=> AtMost(s, x) > k
  BY <1>1, SortedCounts
<1>3. d \in Nat /\ e \in Nat
  BY <1>2, LatencyAssumption
<1> HIDE DEF d, e
<1>4. AtMost(s, e) > k /\ AtMost(s, e) \in Nat
  BY <1>2, <1>3, CountsNat
<1>5. AtMost(s, e) > j
  BY <1>4
<1>6. d <= e
  BY <1>2, <1>3, <1>5
<1> QED
  BY <1>3, <1>6 DEF d, e

\* Every sample lies between the first and the last.
LEMMA SamplesBetween ==
  ASSUME NEW s \in Samples, Success(s) > 0, NEW d \in Durations, s[d] > 0
  PROVE  Sorted(s, 0) <= d /\ d <= Sorted(s, Success(s) - 1)
<1> DEFINE n == Success(s)
           last == Sorted(s, n - 1)
<1> USE LatencyAssumption
<1>1. n \in Nat /\ n > 0 /\ s[d] \in Nat /\ d \in Nat
  BY CountsNat DEF Samples
<1>2. Sorted(s, 0) <= d
  <2> DEFINE T == {e \in Durations : e <= d}
  <2>1. IsFiniteSet(T) /\ d \in T
    BY <1>1, FS_Subset
  <2>2. \A e \in T : s[e] \in Nat
    BY DEF Samples
  <2>3. AtMost(s, d) = s[d] + SumFunctionOnSet(s, T \ {d})
    <3>1. AtMost(s, d) = SumFunctionOnSet(s, T)
      BY DEF AtMost
    <3> HIDE DEF T
    <3> QED
      BY <2>1, <2>2, <3>1, SumTakes
  <2>4. SumFunctionOnSet(s, T \ {d}) \in Nat
    <3> HIDE DEF T
    <3>1. IsFiniteSet(T \ {d})
      BY <2>1, FS_Subset
    <3> QED
      BY <2>2, <3>1, SumNat
  <2>5. AtMost(s, d) > 0
    BY <1>1, <2>3, <2>4
  <2> QED
    BY <1>1, <2>5, SortedCounts
<1>3. d <= last
  <2>1. n - 1 \in Nat /\ n - 1 < n
    BY <1>1
  <2>2. last \in Nat /\ AtMost(s, last) > n - 1
    <3>1. last \in Durations /\ \A x \in Int : last <= x <=> AtMost(s, x) > n - 1
      <4> DEFINE k == n - 1
      <4>1. k \in Nat /\ k < Success(s)
        BY <2>1
      <4> HIDE DEF k
      <4>2. Sorted(s, k) \in Durations /\ \A x \in Int : Sorted(s, k) <= x <=> AtMost(s, x) > k
        BY <4>1, SortedCounts
      <4> QED
        BY <4>2 DEF k
    <3> HIDE DEF last, n
    <3>2. last \in Nat
      BY <3>1
    <3> QED
      BY <3>1, <3>2
  <2> SUFFICES ASSUME ~(d <= last) PROVE FALSE
    OBVIOUS
  <2> DEFINE T == {e \in Durations : e <= last}
             R == Durations \ {d}
  <2>3. T \subseteq R /\ IsFiniteSet(R) /\ \A e \in R : s[e] \in Nat
    BY FS_Subset DEF Samples
  <2>4. n = s[d] + SumFunctionOnSet(s, R)
    BY SumTakes DEF Success, Samples
  <2>5. AtMost(s, last) <= SumFunctionOnSet(s, R)
    <3>1. AtMost(s, last) = SumFunctionOnSet(s, T)
      BY DEF AtMost
    <3> HIDE DEF T, R
    <3> QED
      BY <2>3, <3>1, SumGrows
  <2>6. SumFunctionOnSet(s, R) \in Nat /\ AtMost(s, last) \in Nat
    <3> HIDE DEF R
    <3> QED
      BY <2>3, SumNat, CountsNat
  <2> HIDE DEF n, R, last
  <2> QED
    BY <1>1, <2>2, <2>4, <2>5, <2>6
<1> QED
  BY <1>2, <1>3

\* The average lies between the extremes.
LEMMA AverageBetween ==
  ASSUME NEW s \in Samples, Success(s) > 0
  PROVE  /\ Average(s) \in Nat
         /\ Sorted(s, 0) <= Average(s) /\ Average(s) <= Sorted(s, Success(s) - 1)
<1> DEFINE n == Success(s)
           lo == Sorted(s, 0)
           hi == Sorted(s, n - 1)
           f == [d \in Durations |-> d * s[d]]
           total == SumFunctionOnSet(f, Durations)
<1> USE LatencyAssumption
<1>1. n \in Nat /\ n > 0
  BY CountsNat
<1>2. lo \in Nat /\ hi \in Nat
  <2>1. 0 <= n - 1 /\ n - 1 < n /\ n - 1 \in Nat
    BY <1>1
  <2> HIDE DEF n
  <2> QED
    BY <2>1, SortedAscends DEF n
<1>3. ASSUME NEW d \in Durations
      PROVE  /\ s[d] \in Nat /\ f[d] \in Nat
             /\ lo * s[d] <= f[d] /\ f[d] <= hi * s[d]
  <2>1. d \in Nat /\ s[d] \in Nat /\ f[d] = d * s[d]
    BY DEF Samples
  <2>2. s[d] > 0 => lo <= d /\ d <= hi
    BY SamplesBetween
  <2> DEFINE c == s[d]
  <2> HIDE DEF lo, hi, f, c
  <2>3. c > 0 => lo * c <= d * c /\ d * c <= hi * c
    BY <1>2, <2>1, <2>2 DEF c
  <2>4. ~(c > 0) => lo * c = 0 /\ d * c = 0 /\ hi * c = 0
    BY <1>2, <2>1 DEF c
  <2>5. d * c \in Nat
    BY <2>1 DEF c
  <2> QED
    BY <2>1, <2>3, <2>4, <2>5 DEF c
<1>4. total \in Nat /\ lo * n <= total /\ total <= hi * n
  <2> HIDE DEF f, lo, hi
  <2>1. total \in Nat
    BY <1>3, SumNat
  <2>2. /\ lo * SumFunctionOnSet(s, Durations) <= total
        /\ total <= hi * SumFunctionOnSet(s, Durations)
    BY <1>2, <1>3, SumBetween
  <2> QED
    BY <2>1, <2>2 DEF Success
<1>5. Average(s) = total \div n
  BY DEF Average
<1> HIDE DEF total, n, lo, hi
<1>6. total \div n \in Nat /\ n * (total \div n) <= total /\ total < n * (total \div n) + n
  BY <1>1, <1>4
<1> DEFINE a == total \div n
<1>7. a \in Nat /\ n * a <= total /\ total < n * a + n
  BY <1>6
<1> HIDE DEF a
<1>8. lo <= a
  <2> SUFFICES ASSUME a + 1 <= lo PROVE FALSE
    BY <1>2, <1>7
  <2>1. n * (a + 1) <= n * lo /\ n * (a + 1) = n * a + n /\ n * lo = lo * n
    BY <1>1, <1>2, <1>7
  <2>2. n * a \in Nat /\ lo * n \in Nat
    BY <1>1, <1>2, <1>7
  <2> QED
    BY <1>1, <1>4, <1>7, <2>1, <2>2
<1>9. a <= hi
  <2> SUFFICES ASSUME hi + 1 <= a PROVE FALSE
    BY <1>2, <1>7
  <2>1. n * (hi + 1) <= n * a /\ n * (hi + 1) = hi * n + n
    BY <1>1, <1>2, <1>7
  <2>2. n * a \in Nat /\ hi * n \in Nat
    BY <1>1, <1>2, <1>7
  <2> QED
    BY <1>1, <1>4, <1>7, <2>1, <2>2
<1> QED
  BY <1>5, <1>7, <1>8, <1>9 DEF a, n, lo, hi

\* Every natural has an integer root, of whatever it is the multiple of.
LEMMA RootExists ==
  ASSUME NEW n \in Nat, n > 0, NEW q \in Nat, NEW m \in Nat, q <= m * m * n
  PROVE  \E j \in 0 .. m : j * j * n <= q /\ q < (j + 1) * (j + 1) * n
<1> DEFINE J == {j \in Nat : q < (j + 1) * (j + 1) * n}
<1>1. m \in J
  <2>1. (m + 1) * (m + 1) * n = m * m * n + 2 * (m * n) + n
    OBVIOUS
  <2>2. m * n \in Nat /\ m * m * n \in Nat
    OBVIOUS
  <2>3. q < m * m * n + 2 * (m * n) + n
    <3> DEFINE u == m * n
               w == m * m * n
    <3> HIDE DEF u, w
    <3>1. q <= w /\ u \in Nat /\ w \in Nat
      BY <2>2 DEF u, w
    <3> QED
      BY <3>1 DEF u, w
  <2> QED
    BY <2>1, <2>3
<1>2. PICK j \in J : \A x \in J : j <= x
  BY <1>1, LeastNat
<1>3. j \in Nat /\ j <= m
  BY <1>1, <1>2
<1>4. j * j * n <= q
  <2>1. CASE j = 0
    <3>1. j * j * n = 0
      BY <2>1
    <3> QED
      BY <3>1
  <2>2. CASE j # 0
    <3> DEFINE i == j - 1
    <3>1. i \in Nat /\ i + 1 = j /\ i < j
      BY <1>3, <2>2
    <3>2. i \notin J
      <4> HIDE DEF i, J
      <4> QED
        BY <1>2, <1>3, <3>1
    <3>3. ~(q < j * j * n)
      BY <3>1, <3>2
    <3>4. j * j * n \in Nat
      BY <1>3
    <3> QED
      BY <3>3, <3>4
  <2> QED
    BY <2>1, <2>2
<1>5. q < (j + 1) * (j + 1) * n
  BY <1>2
<1> QED
  BY <1>3, <1>4, <1>5

\* A deviation of at most w has a square of at most that of w.
LEMMA SquareGrows ==
  ASSUME NEW x \in Int, NEW w \in Nat, x <= w, -w <= x
  PROVE  x * x \in Nat /\ x * x <= w * w
<1>1. CASE x >= 0
  <2>1. x \in Nat
    BY <1>1
  <2>2. x * x <= w * x /\ w * x <= w * w
    BY <2>1
  <2> QED
    BY <2>1, <2>2
<1>2. CASE x < 0
  <2> DEFINE y == -x
  <2>1. y \in Nat /\ y <= w /\ x * x = y * y
    BY <1>2
  <2> HIDE DEF y
  <2>2. y * y <= w * y /\ w * y <= w * w
    BY <2>1
  <2> QED
    BY <2>1, <2>2
<1> QED
  BY <1>1, <1>2

\* The squares of the deviations, bounded sample by sample.
LEMMA SquaresBound ==
  ASSUME NEW s \in Samples, NEW a \in Nat, NEW w \in Nat,
         \A d \in Durations : s[d] > 0 => d - a <= w /\ -w <= d - a
  PROVE  LET q == SumFunctionOnSet([d \in Durations |-> s[d] * (d - a) * (d - a)], Durations)
         IN  q \in Nat /\ q <= w * w * Success(s)
<1> DEFINE f == [d \in Durations |-> s[d] * (d - a) * (d - a)]
           q == SumFunctionOnSet(f, Durations)
           hi == w * w
<1> USE LatencyAssumption
<1>1. ASSUME NEW d \in Durations
      PROVE  s[d] \in Nat /\ f[d] \in Nat /\ 0 * s[d] <= f[d] /\ f[d] <= hi * s[d]
  <2> DEFINE c == s[d]
             x == d - a
  <2>1. c \in Nat /\ x \in Int /\ f[d] = c * x * x
    BY DEF Samples
  <2>2. c > 0 => x <= w /\ -w <= x
    OBVIOUS
  <2> HIDE DEF c, x, f
  <2>3. CASE c > 0
    <3>1. x * x \in Nat /\ x * x <= w * w
      BY <2>1, <2>2, <2>3, SquareGrows
    <3> DEFINE y == x * x
               z == w * w
    <3>2. y \in Nat /\ z \in Nat /\ y <= z
      BY <3>1
    <3>3. c * x * x = c * y
      BY <2>1
    <3> HIDE DEF y, z
    <3>4. c * y \in Nat /\ c * y <= z * c
      BY <2>1, <3>2
    <3> QED
      BY <2>1, <3>3, <3>4 DEF c, z
  <2>4. CASE ~(c > 0)
    <3>1. c = 0 /\ c * x * x = 0 /\ hi * c = 0
      BY <2>1, <2>4
    <3> QED
      BY <2>1, <3>1 DEF c
  <2> QED
    BY <2>3, <2>4
<1>2. hi \in Nat
  OBVIOUS
<1> HIDE DEF f, hi
<1>3. q \in Nat
  BY <1>1, SumNat
<1>4. q <= hi * SumFunctionOnSet(s, Durations)
  BY <1>1, <1>2, SumBetween
<1> QED
  BY <1>3, <1>4 DEF Success, f, hi

\* The jitter is no more than the distance of the extremes.
LEMMA JitterBetween ==
  ASSUME NEW s \in Samples, Success(s) > 0
  PROVE  /\ Jitter(s) \in Nat
         /\ Jitter(s) <= Sorted(s, Success(s) - 1) - Sorted(s, 0)
<1> DEFINE n == Success(s)
           lo == Sorted(s, 0)
           hi == Sorted(s, n - 1)
           a == Average(s)
           m == Max(Durations)
           w == hi - lo
           q == SumFunctionOnSet([d \in Durations |-> s[d] * (d - a) * (d - a)], Durations)
<1> USE LatencyAssumption
<1>1. n \in Nat /\ n > 0
  BY CountsNat
<1>2. lo \in Nat /\ hi \in Nat /\ lo <= hi
  <2>1. 0 <= n - 1 /\ n - 1 < n /\ n - 1 \in Nat
    BY <1>1
  <2> HIDE DEF n
  <2> QED
    BY <2>1, SortedAscends DEF n
<1>3. a \in Nat /\ lo <= a /\ a <= hi
  BY AverageBetween
<1>4. m \in Nat /\ \A d \in Durations : d <= m
  BY MaxOfNats
<1>5. hi <= m
  <2> DEFINE k == n - 1
  <2>1. k \in Nat /\ k < Success(s)
    BY <1>1
  <2> HIDE DEF k, m
  <2>2. Sorted(s, k) \in Durations
    BY <2>1, SortedCounts
  <2> QED
    BY <1>4, <2>2 DEF k
<1>6. ASSUME NEW d \in Durations, s[d] > 0
      PROVE  /\ d - a <= w /\ -w <= d - a
             /\ d - a <= m /\ -m <= d - a
  <2>1. lo <= d /\ d <= hi
    BY <1>6, SamplesBetween
  <2>2. d \in Nat
    OBVIOUS
  <2> HIDE DEF lo, hi, a, m
  <2> QED
    BY <1>2, <1>3, <1>4, <1>5, <2>1, <2>2
<1>7. w \in Nat
  <2> HIDE DEF lo, hi
  <2> QED
    BY <1>2
<1>8. q \in Nat /\ q <= w * w * n /\ q <= m * m * n
  <2> HIDE DEF a, w, m
  <2>1. \A d \in Durations : s[d] > 0 => d - a <= w /\ -w <= d - a
    BY <1>6
  <2>2. \A d \in Durations : s[d] > 0 => d - a <= m /\ -m <= d - a
    BY <1>6
  <2>3. q \in Nat /\ q <= w * w * Success(s)
    BY <1>3, <1>7, <2>1, SquaresBound
  <2>4. q <= m * m * Success(s)
    BY <1>3, <1>4, <2>2, SquaresBound
  <2> QED
    BY <2>3, <2>4
<1> DEFINE Root(j) == j * j * n <= q /\ q < (j + 1) * (j + 1) * n
           J == Jitter(s)
<1>9. J = CHOOSE j \in 0 .. m : Root(j)
  BY DEF Jitter
<1> HIDE DEF n, m, q, w, J
<1>10. \E j \in 0 .. m : Root(j)
  BY <1>1, <1>4, <1>8, RootExists
<1>11. J \in 0 .. m /\ Root(J)
  <2> HIDE DEF Root
  <2> QED
    BY <1>9, <1>10
<1>12. J <= w
  <2>1. J \in Nat
    BY <1>4, <1>11
  <2>2. J * J * n <= w * w * n
    <3>1. J * J * n \in Nat /\ w * w * n \in Nat
      BY <1>1, <1>7, <2>1
    <3> QED
      BY <1>8, <1>11, <3>1
  <2> DEFINE x == J * J
             y == w * w
  <2>3. x \in Nat /\ y \in Nat
    BY <1>7, <2>1
  <2>4. x <= y
    <3>1. x * n <= y * n
      BY <2>2
    <3> HIDE DEF x, y
    <3> QED
      BY <1>1, <2>3, <3>1
  <2> QED
    BY <1>7, <2>1, <2>4
<1> QED
  BY <1>4, <1>11, <1>12 DEF J, w, n

\* What is rounded down to milliseconds keeps its order, and a difference its bound,
\* but for one.
LEMMA Rounded ==
  ASSUME NEW a \in Nat, NEW b \in Nat, a <= b
  PROVE  /\ a \div Ms \in Nat /\ b \div Ms \in Nat
         /\ a \div Ms <= b \div Ms
         /\ \A c \in Nat : c <= b - a => c \div Ms <= b \div Ms - a \div Ms + 1
<1>1. Ms \in Nat /\ Ms > 0
  BY LatencyAssumption
<1>2. ASSUME NEW x \in Nat
      PROVE  /\ x \div Ms \in Nat /\ Ms * (x \div Ms) <= x
             /\ x < Ms * (x \div Ms) + Ms
  BY <1>1
<1> DEFINE A == a \div Ms
           B == b \div Ms
<1>3. A \in Nat /\ Ms * A <= a /\ a < Ms * A + Ms
  BY <1>2
<1>4. B \in Nat /\ Ms * B <= b /\ b < Ms * B + Ms
  BY <1>2
<1> HIDE DEF A, B
<1>5. A <= B
  <2> SUFFICES ASSUME B + 1 <= A PROVE FALSE
    BY <1>3, <1>4
  <2>1. /\ Ms * (B + 1) <= Ms * A /\ Ms * (B + 1) = Ms * B + Ms
        /\ Ms * B \in Nat /\ Ms * A \in Nat
    BY <1>1, <1>3, <1>4
  <2> QED
    BY <1>1, <1>3, <1>4, <2>1
<1>6. ASSUME NEW c \in Nat, c <= b - a PROVE c \div Ms <= B - A + 1
  <2> DEFINE C == c \div Ms
  <2>1. C \in Nat /\ Ms * C <= c
    BY <1>2
  <2> HIDE DEF C
  <2>2. C <= B - A + 1
    <3> SUFFICES ASSUME A + C >= B + 2 PROVE FALSE
      BY <1>3, <1>4, <2>1
    <3>1. Ms * (B + 2) <= Ms * (A + C)
      BY <1>1, <1>3, <1>4, <2>1
    <3>2. Ms * (B + 2) = Ms * B + Ms + Ms /\ Ms * (A + C) = Ms * A + Ms * C
      BY <1>1, <1>3, <1>4, <2>1
    <3>3. Ms * B \in Nat /\ Ms * A \in Nat /\ Ms * C \in Nat
      BY <1>1, <1>3, <1>4, <2>1
    <3> QED
      BY <1>1, <1>3, <1>4, <1>6, <2>1, <3>1, <3>2, <3>3
  <2> QED
    BY <2>2 DEF C
<1> QED
  BY <1>3, <1>4, <1>5, <1>6 DEF A, B

\* The percentiles lie in order between the first sample and the last.
LEMMA PercentilesAscend ==
  ASSUME NEW s \in Samples, Success(s) > 0
  PROVE  LET p(q) == Percentile(s, q)
             lo == Sorted(s, 0)
             hi == Sorted(s, Success(s) - 1)
         IN  /\ lo \in Nat /\ hi \in Nat
             /\ p(50) \in Nat /\ p(95) \in Nat /\ p(99) \in Nat
             /\ lo <= p(50) /\ p(50) <= p(95) /\ p(95) <= p(99) /\ p(99) <= hi
<1> DEFINE n == Success(s)
           k(q) == (n * q) \div 100
<1>1. n \in Nat /\ n > 0
  BY CountsNat
<1>2. ASSUME NEW q \in {50, 95, 99}
      PROVE  k(q) \in Nat /\ k(q) <= n - 1 /\ Percentile(s, q) = Sorted(s, k(q))
  <2>1. q \in 0 .. 99
    OBVIOUS
  <2>2. PICK i \in Nat : i < n /\ i = k(q) /\ Percentile(s, q) = Sorted(s, i)
    BY <2>1, PercentileRank
  <2> HIDE DEF n, k
  <2> QED
    BY <1>1, <2>2
<1>3. k(50) <= k(95) /\ k(95) <= k(99)
  <2> HIDE DEF n
  <2> QED
    BY <1>1
<1> DEFINE i == k(50)
           j == k(95)
           l == k(99)
           m == n - 1
<1>4. /\ i \in Nat /\ j \in Nat /\ l \in Nat /\ m \in Nat
      /\ 0 <= i /\ i <= j /\ j <= l /\ l <= m /\ m < Success(s)
  <2>1. i \in Nat /\ j \in Nat /\ l \in Nat /\ l <= m
    BY <1>2
  <2>2. i <= j /\ j <= l
    BY <1>3
  <2>3. m \in Nat /\ m < Success(s)
    BY <1>1
  <2> HIDE DEF i, j, l, m
  <2> QED
    BY <2>1, <2>2, <2>3
<1>5. Percentile(s, 50) = Sorted(s, i) /\ Percentile(s, 95) = Sorted(s, j)
      /\ Percentile(s, 99) = Sorted(s, l)
  BY <1>2
<1> HIDE DEF i, j, l, m
<1>6. i < Success(s) /\ j < Success(s) /\ l < Success(s)
  BY <1>1, <1>4
<1>7. /\ Sorted(s, 0) \in Nat /\ Sorted(s, i) \in Nat /\ Sorted(s, 0) <= Sorted(s, i)
  BY <1>4, <1>6, SortedAscends
<1>8. Sorted(s, j) \in Nat /\ Sorted(s, i) <= Sorted(s, j)
  BY <1>4, <1>6, SortedAscends
<1>9. Sorted(s, l) \in Nat /\ Sorted(s, j) <= Sorted(s, l)
  BY <1>4, <1>6, SortedAscends
<1>10. Sorted(s, m) \in Nat /\ Sorted(s, l) <= Sorted(s, m)
  BY <1>4, SortedAscends
<1> QED
  BY <1>5, <1>7, <1>8, <1>9, <1>10 DEF m, n

\* The figures of such a run are right.
LEMMA PercentilesOfRun == RunInv => PercentilesRight
<1> SUFFICES ASSUME run \in Runs, Success(run.samples) > 0
             PROVE  PercentilesRight
  BY DEF RunInv, PercentilesRight, Complete
<1> DEFINE s == run.samples
           n == Success(s)
           r == Result(run)
           lo == Sorted(s, 0)
           hi == Sorted(s, n - 1)
           p(q) == Percentile(s, q)
<1>1. s \in Samples /\ n > 0
  BY DEF Runs
<1>2. n # 0
  BY <1>1, CountsNat
<1>3. /\ r.min = lo \div Ms /\ r.max = hi \div Ms
      /\ r.p50 = p(50) \div Ms /\ r.p95 = p(95) \div Ms /\ r.p99 = p(99) \div Ms
      /\ r.avg = Average(s) \div Ms /\ r.jitter = Jitter(s) \div Ms
  BY <1>2, ResultFields
<1> DEFINE Right(x, q) == /\ 100 * AtMost(s, x * Ms - 1) <= q * n
                          /\ 100 * AtMost(s, x * Ms + Ms - 1) >= q * n
<1>4. ASSUME NEW q \in {50, 95, 99} PROVE Right(p(q) \div Ms, q)
  <2>1. q \in 0 .. 99
    OBVIOUS
  <2> HIDE DEF s
  <2> QED
    BY <1>1, <2>1, MillisecondsRight
<1>5. Right(r.p50, 50) /\ Right(r.p95, 95) /\ Right(r.p99, 99)
  <2>1. Right(p(50) \div Ms, 50) /\ Right(p(95) \div Ms, 95) /\ Right(p(99) \div Ms, 99)
    BY <1>4
  <2> HIDE DEF Right, p, r
  <2> QED
    BY <1>3, <2>1
<1>6. /\ lo \in Nat /\ hi \in Nat /\ p(50) \in Nat /\ p(95) \in Nat /\ p(99) \in Nat
      /\ lo <= p(50) /\ p(50) <= p(95) /\ p(95) <= p(99) /\ p(99) <= hi
  <2> HIDE DEF s
  <2> QED
    BY <1>1, PercentilesAscend DEF n
<1>7. /\ Average(s) \in Nat /\ lo <= Average(s) /\ Average(s) <= hi
      /\ Jitter(s) \in Nat /\ Jitter(s) <= hi - lo
  <2> HIDE DEF s
  <2> QED
    BY <1>1, AverageBetween, JitterBetween DEF n
<1> DEFINE a == Average(s)
           j == Jitter(s)
           p5 == p(50)
           p9 == p(95)
           pp == p(99)
<1>8. /\ r.min <= r.p50 /\ r.p50 <= r.p95 /\ r.p95 <= r.p99 /\ r.p99 <= r.max
      /\ r.min <= r.avg /\ r.avg <= r.max
      /\ r.jitter <= r.max - r.min + 1
  <2>1. /\ lo \in Nat /\ hi \in Nat /\ p5 \in Nat /\ p9 \in Nat /\ pp \in Nat
        /\ lo <= p5 /\ p5 <= p9 /\ p9 <= pp /\ pp <= hi
        /\ a \in Nat /\ lo <= a /\ a <= hi /\ j \in Nat /\ j <= hi - lo
    BY <1>6, <1>7
  <2>2. /\ r.min = lo \div Ms /\ r.max = hi \div Ms
        /\ r.p50 = p5 \div Ms /\ r.p95 = p9 \div Ms /\ r.p99 = pp \div Ms
        /\ r.avg = a \div Ms /\ r.jitter = j \div Ms
    BY <1>3
  <2> HIDE DEF lo, hi, p5, p9, pp, a, j, r
  <2>3. lo \div Ms <= p5 \div Ms /\ p5 \div Ms <= p9 \div Ms
    BY <2>1, Rounded
  <2>4. p9 \div Ms <= pp \div Ms /\ pp \div Ms <= hi \div Ms
    BY <2>1, Rounded
  <2>5. lo \div Ms <= a \div Ms /\ a \div Ms <= hi \div Ms
    BY <2>1, Rounded
  <2>6. lo <= hi
    BY <2>1
  <2>7. j \div Ms <= hi \div Ms - lo \div Ms + 1
    BY <2>1, <2>6, Rounded
  <2> QED
    BY <2>2, <2>3, <2>4, <2>5, <2>7
<1> HIDE DEF r, Right
<1> QED
  BY <1>5, <1>8 DEF PercentilesRight, r, Right

-----------------------------------------------------------------------------
(* The runs of the latency tool                                            *)

\* What the assumption on the bodies says.
LEMMA BodiesNumeric ==
  /\ \A q \in Requests : Numeric(q)
  /\ \A l \in Malformed : Numeric(Remote(l))
<1> DEFINE Q == Requests \cup {Remote(l) : l \in Malformed}
<1>1. \A q \in Q : Numeric(q)
  BY BodiesAssumption
<1>2. \A q \in Requests : q \in Q
  OBVIOUS
<1>3. \A l \in Malformed : Remote(l) \in Q
  OBVIOUS
<1> HIDE DEF Q
<1> QED
  BY <1>1, <1>2, <1>3

\* Whether c is no call of the latency tool.
OtherCall(c) == c[1] # "runLatency"

\* No call but one is that of the latency tool.
LEMMA OtherCalls ==
  /\ OtherCall(NoCall)
  /\ OtherCall(<<"IsRunning">>) /\ OtherCall(<<"ListRecords">>) /\ OtherCall(<<"Sessions">>)
  /\ OtherCall(<<"Modules">>)
  /\ \A x, y : /\ OtherCall(<<"AddA", x, y>>) /\ OtherCall(<<"AddCNAME", x, y>>)
               /\ OtherCall(<<"SetEnabled", x, y>>) /\ OtherCall(<<"Remove", x>>)
               /\ OtherCall(<<"SetDebug", x>>) /\ OtherCall(<<"Tail", x>>)
  /\ \A p \in {"dns", "http", "ssh"} \X {"start", "stop"} : OtherCall(p)
BY DEF OtherCall, NoCall

\* Whether a handler makes no call of the latency tool.
Spares(h) == OtherCall(h.call)

LEMMA CallsSpare ==
  ASSUME NEW c, OtherCall(c), NEW ok, NEW failed
  PROVE  Spares(Calls(c, ok, failed))
BY DEF Spares, Calls

LEMMA AnswersSpare ==
  ASSUME NEW code
  PROVE  Spares(Answers(code))
BY OtherCalls DEF Spares, Answers, Calls

\* No handler but one makes it.
LEMMA OthersSpare ==
  ASSUME NEW q
  PROVE  /\ Spares(handleDNSRecords(q))
         /\ Spares(handleDNSRecordDelete(q))
         /\ Spares(handleSSHDebug(q))
         /\ Spares(handleLogTail(q))
         /\ Spares(handleLogModules(q))
<1>1. Spares(Answers(400)) /\ Spares(Answers(405))
  BY AnswersSpare
<1>2. ASSUME NEW b PROVE Spares(RecordCall(b))
  <2>1. /\ Spares(Calls(<<"AddA", b.name, b.value>>, 201, 400))
        /\ Spares(Calls(<<"AddCNAME", b.name, b.value>>, 201, 400))
    BY CallsSpare, OtherCalls
  <2> QED
    BY <1>1, <2>1 DEF RecordCall
<1>3. Spares(handleDNSRecords(q))
  <2>1. Spares(Calls(<<"ListRecords">>, 200, 200))
    BY CallsSpare, OtherCalls
  <2> QED
    BY <1>1, <1>2, <2>1 DEF handleDNSRecords
<1>4. Spares(handleDNSRecordDelete(q))
  <2>1. Spares(Calls(<<"Remove", q.path[3]>>, 200, 404))
    BY CallsSpare, OtherCalls
  <2> QED
    BY <1>1, <2>1 DEF handleDNSRecordDelete
<1>5. Spares(handleSSHDebug(q))
  <2>1. Spares(Calls(<<"SetDebug", q.body.enabled>>, 200, 200))
    BY CallsSpare, OtherCalls
  <2> QED
    BY <1>1, <2>1 DEF handleSSHDebug
<1>6. Spares(handleLogTail(q))
  <2>1. ASSUME NEW n PROVE Spares(Calls(<<"Tail", n>>, 200, 500))
    BY CallsSpare, OtherCalls
  <2> QED
    BY <2>1 DEF handleLogTail
<1>7. Spares(handleLogModules(q))
  <2> DEFINE b == q.body
  <2>1. /\ Spares(Calls(<<"SetEnabled", b.module, b.enabled>>, 200, 200))
        /\ Spares(Calls(<<"Modules">>, 200, 200))
    BY CallsSpare, OtherCalls
  <2> QED
    BY <1>1, <2>1 DEF handleLogModules
<1> QED
  BY <1>3, <1>4, <1>5, <1>6, <1>7

\* Only requests for the latency tool call it.
LEMMA OnlyLatencyRuns ==
  ASSUME NEW q, q.path # <<"latency">>
  PROVE  Spares(Handler(q))
<1>1. /\ Spares(Answers(200)) /\ Spares(Answers(404))
      /\ Spares(Calls(<<"IsRunning">>, 200, 200)) /\ Spares(Calls(<<"Sessions">>, 200, 200))
  BY CallsSpare, AnswersSpare, OtherCalls
<1>2. \A p \in {"dns", "http", "ssh"} \X {"start", "stop"} : Spares(Calls(p, 200, 500))
  BY CallsSpare, OtherCalls
<1> QED
  BY <1>1, <1>2, OthersSpare DEF Handler

\* runLatency replaces what is not positive.
LEMMA ParamsNat ==
  ASSUME NEW c \in Int, NEW i \in Int
  PROVE  Params(c, i).total \in Nat /\ Params(c, i).interval \in Nat
BY DEF Params

\* The parameters of a run a request asks for,
LEMMA HandlerParams ==
  ASSUME NEW q, Numeric(q), ~Spares(Handler(q))
  PROVE  Handler(q).call[3].total \in Nat /\ Handler(q).call[3].interval \in Nat
<1> DEFINE b == q.body
           count == IF b.count = 0 THEN 50 ELSE b.count
           interval == IF b.interval = 0 THEN 200 ELSE b.interval
<1>1. q.path = <<"latency">>
  BY OnlyLatencyRuns
<1>2. Handler(q) = handleLatency(q)
  BY <1>1 DEF Handler
<1>3. b # Missing
  BY <1>2, AnswersSpare DEF handleLatency
<1>4. Handler(q).call = <<"runLatency", b.url, Params(count, interval)>>
  BY <1>2, <1>3 DEF handleLatency, Calls
<1>5. count \in Int /\ interval \in Int
  BY <1>1, <1>3 DEF Numeric
<1> HIDE DEF b, count, interval
<1> QED
  BY <1>4, <1>5, ParamsNat

\* and of one a documented line asks for.
LEMMA LineParams ==
  ASSUME NEW l \in Syntax, ~OtherCall(Local(l))
  PROVE  Local(l)[3].total \in Nat /\ Local(l)[3].interval \in Nat
<1>1. /\ l[1] = "latency"
      /\ Local(l) = <<"runLatency", l[3], Params(Number(l, 4, 50), Number(l, 5, 200))>>
  <2> DEFINE Wanted == l[1] = "latency" /\ Len(l) >= 3 /\ Word(l, 2) = "run"
  <2>1. CASE Wanted
    BY <2>1 DEF Local
  <2>2. CASE ~Wanted
    <3>1. OtherCall(Local(l))
      <4>1. \A s \in {"start", "stop"} : /\ OtherCall(<<"dns", s>>) /\ OtherCall(<<"http", s>>)
                                         /\ OtherCall(<<"ssh", s>>)
        BY DEF OtherCall
      <4> QED
        BY <2>2, <4>1, OtherCalls DEF Local
    <3> QED
      BY <3>1
  <2> QED
    BY <2>1, <2>2
<1>2. \A k \in {4, 5} : k \in DOMAIN l => Atoi[l[k]] \in Int
  <2>1. \/ \E u \in Urls : l = <<"latency", "run", u>>
        \/ \E u \in Urls, c \in Counts : l = <<"latency", "run", u, c>>
        \/ \E u \in Urls, c \in Counts, i \in Intervals : l = <<"latency", "run", u, c, i>>
    BY <1>1 DEF Syntax
  <2>2. CASE \E u \in Urls : l = <<"latency", "run", u>>
    BY <2>2
  <2>3. CASE \E u \in Urls, c \in Counts : l = <<"latency", "run", u, c>>
    BY <2>3, NumeralsAgree
  <2>4. CASE \E u \in Urls, c \in Counts, i \in Intervals : l = <<"latency", "run", u, c, i>>
    BY <2>4, NumeralsAgree
  <2> QED
    BY <2>1, <2>2, <2>3, <2>4
<1>3. Number(l, 4, 50) \in Int /\ Number(l, 5, 200) \in Int
  BY <1>2 DEF Number
<1> QED
  BY <1>1, <1>3, ParamsNat

\* A run begins with whole counts,
LEMMA BeginsWhole ==
  ASSUME NEW p, p.total \in Nat, p.interval \in Nat, Begin(p)
  PROVE  run' \in Runs
<1>1. Ms * p.interval \in Nat
  BY LatencyAssumption
<1> QED
  BY <1>1 DEF Begin, Runs, Samples

\* and every probe keeps them whole.
LEMMA ProbeWhole ==
  ASSUME run \in Runs, Probe
  PROVE  run' \in Runs
<1> DEFINE pause == IF run.sent < run.total - 1 THEN run.interval ELSE 0
<1>1. pause \in Nat
  BY DEF Runs
<1>2. ASSUME NEW d \in Durations,
             run' = [run EXCEPT !.sent = @ + 1, !.samples[d] = @ + 1,
                                !.elapsed = @ + d + pause]
      PROVE  run' \in Runs
  <2> HIDE DEF pause
  <2>1. d \in Nat
    BY LatencyAssumption
  <2>2. [run.samples EXCEPT ![d] = @ + 1] \in Samples
    BY DEF Runs, Samples
  <2>3. run' = [total |-> run.total, interval |-> run.interval, sent |-> run.sent + 1,
                samples |-> [run.samples EXCEPT ![d] = @ + 1],
                elapsed |-> run.elapsed + d + pause]
    BY <1>2 DEF Runs
  <2>4. run.sent + 1 \in Nat /\ run.elapsed + d + pause \in Nat
    BY <1>1, <2>1 DEF Runs
  <2>5. run.total \in Nat /\ run.interval \in Nat
    BY DEF Runs
  <2> QED
    BY <2>2, <2>3, <2>4, <2>5 DEF Runs
<1>3. ASSUME NEW f \in FailTimes,
             run' = [run EXCEPT !.sent = @ + 1, !.elapsed = @ + f + pause]
      PROVE  run' \in Runs
  <2> HIDE DEF pause
  <2>1. f \in Nat
    BY LatencyAssumption
  <2>2. run' = [total |-> run.total, interval |-> run.interval, sent |-> run.sent + 1,
                samples |-> run.samples, elapsed |-> run.elapsed + f + pause]
    BY <1>3 DEF Runs
  <2>3. run.sent + 1 \in Nat /\ run.elapsed + f + pause \in Nat
    BY <1>1, <2>1 DEF Runs
  <2>4. run.total \in Nat /\ run.interval \in Nat /\ run.samples \in Samples
    BY DEF Runs
  <2> QED
    BY <2>2, <2>3, <2>4 DEF Runs
<1> QED
  BY <1>2, <1>3 DEF Probe

\* The handler begins a run with parameters of either kind.
LEMMA ServeWhole ==
  ASSUME ConsoleInv, RunInv, Serve
  PROVE  RunInv'
<1> DEFINE h == Handler(request)
<1>1. UNCHANGED <<line, request>>
  BY DEF Serve
<1>2. UNCHANGED run \/ (h.call[1] = "runLatency" /\ Begin(h.call[3]))
  BY DEF Serve
<1>3. ASSUME h.call[1] = "runLatency", Begin(h.call[3]) PROVE run' \in Runs
  <2>1. ~OtherCall(h.call)
    BY <1>3 DEF OtherCall
  <2>2. h.call[3].total \in Nat /\ h.call[3].interval \in Nat
    <3>1. CASE line \in Syntax
      <4>1. h.call = Intended(line)
        BY <3>1, SyntaxReaches DEF Arrives, ConsoleInv, EffectInv
      <4> HIDE DEF h
      <4>2. h.call = Local(line)
        BY <2>1, <4>1, OtherCalls DEF Intended
      <4> QED
        BY <2>1, <3>1, <4>2, LineParams
    <3>2. CASE line \notin Syntax
      <4>1. Numeric(request)
        BY <3>2 DEF RunInv
      <4> QED
        BY <2>1, <4>1, HandlerParams DEF Spares
    <3> QED
      BY <3>1, <3>2
  <2> HIDE DEF h
  <2> QED
    BY <1>3, <2>2, BeginsWhole
<1> QED
  BY <1>1, <1>2, <1>3 DEF RunInv, Numeric

\* No run is in progress at the start.
LEMMA RunInit == Init => RunInv
BY DEF Init, RunInv, Numeric, NoRequest

\* Every step keeps them whole.
LEMMA RunStep == ConsoleInv /\ RunInv /\ [Next]_vars => RunInv'
<1> SUFFICES ASSUME ConsoleInv, RunInv, [Next]_vars PROVE RunInv'
  OBVIOUS
<1>1. ASSUME NEW l \in Syntax \cup Malformed, Type(l) PROVE RunInv'
  <2>1. run' = NoRun /\ line' = l /\ request' = Remote(l)
    BY <1>1 DEF Type, Ask
  <2>2. l \notin Syntax => Numeric(Remote(l))
    BY BodiesNumeric
  <2> QED
    BY <2>1, <2>2 DEF RunInv, Numeric
<1>2. ASSUME NEW q \in Requests, Send(q) PROVE RunInv'
  <2>1. run' = NoRun /\ request' = q
    BY <1>2 DEF Send, Ask
  <2> QED
    BY <2>1, BodiesNumeric DEF RunInv, Numeric
<1>3. CASE Unreachable \/ GiveUp \/ Show
  <2>1. run' = NoRun /\ UNCHANGED <<line, request>>
    BY <1>3 DEF Unreachable, GiveUp, Show, Says
  <2> QED
    BY <2>1 DEF RunInv, Numeric
<1>4. CASE Serve
  BY <1>4, ServeWhole
<1>5. CASE RunProbe
  <2>1. Probe /\ UNCHANGED <<line, request>>
    BY <1>5 DEF RunProbe
  <2>2. run \in Runs
    BY <2>1 DEF Probe, RunInv
  <2> QED
    BY <2>1, <2>2, ProbeWhole DEF RunInv, Numeric
<1>6. CASE Hello \/ Return \/ Exit \/ Ended \/ UNCHANGED vars
  <2>1. UNCHANGED <<run, line, request>>
    BY <1>6 DEF Hello, Return, Exit, Ended, vars
  <2> QED
    BY <2>1 DEF RunInv, Numeric
<1> QED
  BY <1>1, <1>2, <1>3, <1>4, <1>5, <1>6 DEF Next

LEMMA RunAlways == Spec => []RunInv
<1>1. Init => ConsoleInv /\ RunInv
  BY ConsoleInit, RunInit
<1>2. (ConsoleInv /\ RunInv) /\ [Next]_vars => (ConsoleInv /\ RunInv)'
  BY ConsoleStep, RunStep
<1> QED
  BY <1>1, <1>2, PTL DEF Spec

\* The figures of a complete run are those of its samples: the percentiles, to the
\* millisecond, are in order, and the average and the jitter (runLatency, main.go)
\* fit between the extremes, for any durations, number of probes and clock.
THEOREM FiguresRight == Spec => []PercentilesRight
BY RunAlways, PercentilesOfRun, PTL

\* The verdict (main.go:363) on a complete run is deserved: it says what share of the
\* probes succeeded and whether 95 % of those were fast enough.
THEOREM VerdictDeserved == Spec => []VerdictTrue
BY RunAlways, VerdictOfRun, PTL
=============================================================================
