--------------------------- MODULE TestServersProofs ---------------------------
(***************************************************************************)
(* The theorems about the HTTP and the DNS test server in one process, for *)
(* any number of requests, queries and Starts: for each of the two its     *)
(* inductive invariant and what each of its steps is to Service.  They     *)
(* hold if the goroutine of an HTTP Start runs before the next call and    *)
(* the library's ListenAndServe binds or fails within the 200 ms a DNS     *)
(* Start waits.                                                            *)
(***************************************************************************)
EXTENDS TestServers, TLAPS

-----------------------------------------------------------------------------
(* The HTTP test server                                                    *)

\* The shape of the state.
HttpShape ==
  /\ httpPc \in {"free", "listen", "shutdown"}
  /\ httpRunning \in BOOLEAN
  /\ httpCount \in 0 .. HttpStarts
  /\ httpSrv \in 0 .. httpCount
  /\ httpShut \subseteq 1 .. httpCount
  /\ httpGoroutine \in [Http!Starts -> {"none", "spawned", "serving", "ended"}]
  /\ httpRequest \in [Conns -> 0 .. HttpStarts]

\* There is a server exactly while a Start makes one or it counts as running; it is
\* shut down from the first Stop on, and only it has requests.
HttpServerInv ==
  /\ httpRunning => httpSrv # 0
  /\ httpPc = "listen" => httpSrv # 0 /\ ~httpRunning /\ httpSrv \notin httpShut
  /\ httpPc = "listen" => \A c \in Conns : httpRequest[c] = 0
  /\ httpPc = "shutdown" => httpSrv \in httpShut /\ httpRunning
  /\ httpPc = "free" /\ ~httpRunning => httpSrv = 0
  /\ \A c \in Conns : httpRequest[c] \in {0, httpSrv}

\* Only a running server that nobody has begun to stop has a listener, and a
\* goroutine that serves it or is about to.
ListenerInv ==
  /\ httpPort \in {0, httpSrv} /\ httpServedBy \in {0, httpPort}
  /\ httpPort # 0 => httpRunning /\ httpPc = "free" /\ httpSrv \notin httpShut
  /\ httpPort # 0 => httpServedBy = httpSrv \/ httpGoroutine[httpSrv] = "spawned"
  /\ \A k \in Http!Starts :
       httpGoroutine[k] = "spawned" => k = httpSrv /\ httpPort = httpSrv /\ httpServedBy = 0

HttpInv == HttpShape /\ HttpServerInv /\ ListenerInv

\* The invariant holds before any Start.
LEMMA HttpInvInit ==
  ASSUME Http!ConstantsOK, Http!Init
  PROVE  HttpInv
<1>1. HttpShape
  <2>1. httpCount \in 0 .. HttpStarts /\ httpSrv \in 0 .. httpCount
    BY DEF Http!ConstantsOK, Http!Init
  <2>2. /\ httpGoroutine \in [Http!Starts -> {"none", "spawned", "serving", "ended"}]
        /\ httpRequest \in [Conns -> 0 .. HttpStarts]
    BY DEF Http!ConstantsOK, Http!Init
  <2>3. /\ httpPc \in {"free", "listen", "shutdown"} /\ httpRunning \in BOOLEAN
        /\ httpShut \subseteq 1 .. httpCount
    BY DEF Http!Init
  <2> QED
    BY <2>1, <2>2, <2>3 DEF HttpShape
<1>2. HttpServerInv
  BY DEF Http!Init, HttpServerInv
<1>3. ListenerInv
  BY DEF Http!Init, ListenerInv
<1> QED
  BY <1>1, <1>2, <1>3 DEF HttpInv

\* Every step of a Start, a Stop, their goroutines and the requests keeps it.
LEMMA HttpInvStep ==
  ASSUME Http!ConstantsOK, "late" \notin HttpFaults, HttpInv, [Http!Next]_(Http!vars)
  PROVE  HttpInv'
<1> USE DEF HttpInv
<1>1. CASE Http!StartServer
  <2>1. /\ httpCount' \in 0 .. HttpStarts /\ httpSrv' = httpCount' /\ httpCount' # 0
        /\ httpSrv' \notin httpShut
    BY <1>1 DEF Http!StartServer, HttpShape, Http!ConstantsOK
  <2>2. httpPort = 0 /\ httpServedBy = 0 /\ httpSrv = 0
    BY <1>1 DEF Http!StartServer, HttpServerInv, ListenerInv
  <2>3. HttpShape'
    BY <1>1, <2>1 DEF Http!StartServer, HttpShape
  <2>4. HttpServerInv'
    BY <1>1, <2>1, <2>2 DEF Http!StartServer, HttpServerInv
  <2>5. ListenerInv'
    BY <1>1, <2>1, <2>2 DEF Http!StartServer, ListenerInv
  <2> QED
    BY <2>3, <2>4, <2>5
<1>2. CASE Http!Listen
  <2>1. httpSrv \in Http!Starts
    BY <1>2 DEF Http!Listen, HttpShape, HttpServerInv, Http!ConstantsOK, Http!Starts
  <2>2. httpGoroutine'[httpSrv] = "spawned"
        /\ \A k \in Http!Starts \ {httpSrv} : httpGoroutine'[k] = httpGoroutine[k]
    BY <1>2, <2>1 DEF Http!Listen, HttpShape
  <2>3. HttpShape'
    BY <1>2, <2>1 DEF Http!Listen, HttpShape
  <2>4. HttpServerInv'
    BY <1>2, <2>1 DEF Http!Listen, HttpServerInv
  <2>5. ListenerInv'
    BY <1>2, <2>1, <2>2 DEF Http!Listen, HttpServerInv, ListenerInv
  <2> QED
    BY <2>3, <2>4, <2>5
<1>3. CASE Http!ListenFails
  BY <1>3 DEF Http!ListenFails, HttpShape, HttpServerInv, ListenerInv
<1>4. CASE Http!Shutdown
  <2>1. /\ httpSrv # 0 /\ httpPort \in {0, httpSrv}
        /\ httpPort # 0 => httpServedBy = httpSrv
        /\ \A k \in Http!Starts : httpGoroutine[k] # "spawned"
    <3>1. \A k \in Http!Starts : httpGoroutine[k] # "spawned"
      BY <1>4 DEF Http!Shutdown
    <3>2. httpSrv # 0 /\ httpSrv \in Http!Starts /\ httpPort \in {0, httpSrv}
      BY <1>4 DEF Http!Shutdown, HttpShape, HttpServerInv, ListenerInv,
           Http!ConstantsOK, Http!Starts
    <3> QED
      BY <3>1, <3>2 DEF ListenerInv
  <2>2. httpPort' = 0 /\ httpServedBy' = 0
    BY <1>4, <2>1 DEF Http!Shutdown, ListenerInv
  <2>3. /\ httpGoroutine' \in [Http!Starts -> {"none", "spawned", "serving", "ended"}]
        /\ \A k \in Http!Starts : httpGoroutine'[k] # "spawned"
    BY <1>4, <2>1 DEF Http!Shutdown, HttpShape
  <2>4. HttpShape'
    BY <1>4, <2>1, <2>3 DEF Http!Shutdown, HttpShape
  <2>5. HttpServerInv'
    BY <1>4, <2>1 DEF Http!Shutdown, HttpServerInv
  <2>6. ListenerInv'
    BY <2>2, <2>3 DEF ListenerInv
  <2> QED
    BY <2>4, <2>5, <2>6
<1>5. CASE Http!ShutdownDone
  <2>1. httpPort = 0 /\ httpServedBy = 0 /\ \A c \in Conns : httpRequest[c] = 0
    BY <1>5 DEF Http!ShutdownDone, Http!Drained, HttpServerInv, ListenerInv
  <2>2. HttpShape'
    <3>1. 0 \in 0 .. httpCount
      BY DEF HttpShape
    <3> QED
      BY <1>5, <3>1 DEF Http!ShutdownDone, HttpShape
  <2>3. HttpServerInv'
    BY <1>5, <2>1 DEF Http!ShutdownDone, HttpServerInv
  <2>4. ListenerInv'
    BY <1>5, <2>1 DEF Http!ShutdownDone, HttpServerInv, ListenerInv
  <2> QED
    BY <2>2, <2>3, <2>4
<1>6. CASE Http!ShutdownTimeout
  BY <1>6 DEF Http!ShutdownTimeout, HttpShape, HttpServerInv, ListenerInv
<1>7. ASSUME NEW k \in Http!Starts, Http!Serve(k) PROVE HttpInv'
  <2>1. /\ httpSrv # 0 /\ httpSrv \notin httpShut /\ k = httpSrv /\ httpPort = httpSrv
        /\ httpPc = "free" /\ httpRunning
    BY <1>7 DEF Http!Serve, HttpShape, HttpServerInv, ListenerInv, Http!Starts
  <2>2. httpServedBy' = httpSrv
        /\ httpGoroutine' = [httpGoroutine EXCEPT ![k] = "serving"]
    BY <1>7, <2>1 DEF Http!Serve
  <2>3. \A j \in Http!Starts : httpGoroutine'[j] # "spawned"
    BY <2>1, <2>2 DEF HttpShape, ListenerInv
  <2>4. HttpShape'
    BY <1>7, <2>1, <2>2 DEF Http!Serve, HttpShape
  <2>5. HttpServerInv'
    BY <1>7, <2>1 DEF Http!Serve, HttpServerInv
  <2>6. ListenerInv'
    BY <1>7, <2>1, <2>2, <2>3 DEF Http!Serve, ListenerInv
  <2> QED
    BY <2>4, <2>5, <2>6
<1>8. ASSUME NEW c \in Conns, Http!Accept(c) PROVE HttpInv'
  <2>1. httpServedBy = httpSrv /\ httpPc = "free"
    BY <1>8 DEF Http!Accept, ListenerInv
  <2>2. \A d \in Conns : httpRequest'[d] = IF d = c THEN httpSrv ELSE httpRequest[d]
    BY <1>8, <2>1 DEF Http!Accept, HttpShape
  <2>3. HttpShape'
    BY <1>8, <2>1 DEF Http!Accept, HttpShape, Http!ConstantsOK
  <2>4. HttpServerInv'
    BY <1>8, <2>1, <2>2 DEF Http!Accept, HttpServerInv
  <2>5. ListenerInv'
    BY <1>8 DEF Http!Accept, ListenerInv
  <2> QED
    BY <2>3, <2>4, <2>5
<1>9. ASSUME NEW c \in Conns, Http!Finish(c) PROVE HttpInv'
  <2>1. \A d \in Conns : httpRequest'[d] = IF d = c THEN 0 ELSE httpRequest[d]
    BY <1>9 DEF Http!Finish, HttpShape
  <2>2. HttpShape'
    BY <1>9 DEF Http!Finish, HttpShape, Http!ConstantsOK
  <2>3. HttpServerInv'
    BY <1>9, <2>1 DEF Http!Finish, HttpServerInv
  <2>4. ListenerInv'
    BY <1>9 DEF Http!Finish, ListenerInv
  <2> QED
    BY <2>2, <2>3, <2>4
<1>10. CASE Http!Refused \/ UNCHANGED Http!vars
  <2>1. HttpShape'
    BY <1>10 DEF Http!Refused, Http!vars, HttpShape
  <2>2. HttpServerInv'
    BY <1>10 DEF Http!Refused, Http!vars, HttpServerInv
  <2>3. ListenerInv'
    BY <1>10 DEF Http!Refused, Http!vars, ListenerInv
  <2> QED
    BY <2>1, <2>2, <2>3
<1> QED
  BY <1>1, <1>2, <1>3, <1>4, <1>5, <1>6, <1>7, <1>8, <1>9, <1>10 DEF Http!Next,
       Http!Proceed

\* Whoever holds the port can be stopped: it is the server s.srv points to.
LEMMA HttpInvPort ==
  ASSUME HttpInv
  PROVE  Http!PortHasOwner
BY DEF HttpInv, ListenerInv, Http!PortHasOwner


Requests == {c \in Conns : httpRequest[c] # 0}

\* What each step of the HTTP server is to Service.
LEMMA HttpServiceStep ==
  ASSUME Http!ConstantsOK, "late" \notin HttpFaults, HttpInv, HttpInv',
        [Http!Next]_(Http!vars)
  PROVE  [Http!AsService!Next]_(Http!AsService!serviceVars)
<1> USE DEF HttpInv, HttpShape, HttpServerInv, ListenerInv, Http!Starts,
      Http!AsService!serviceVars
<1>1. CASE Http!StartServer \/ Http!ListenFails \/ Http!ShutdownTimeout \/ Http!Refused
      \/ UNCHANGED Http!vars
  BY <1>1 DEF Http!StartServer, Http!ListenFails, Http!ShutdownTimeout, Http!Refused,
       Http!vars
<1>2. CASE Http!Listen
  BY <1>2 DEF Http!Listen, Http!AsService!Next, Http!AsService!Start
<1>3. CASE Http!Shutdown
  BY <1>3 DEF Http!Shutdown, Http!AsService!Next, Http!AsService!Close
<1>4. CASE Http!ShutdownDone
  <2>1. \A c \in Conns : httpRequest[c] = 0
    BY <1>4 DEF Http!ShutdownDone, Http!Drained
  <2> QED
    BY <1>4, <2>1 DEF Http!ShutdownDone, Http!AsService!Next, Http!AsService!Stop
<1>5. ASSUME NEW k \in Http!Starts, Http!Serve(k)
      PROVE  [Http!AsService!Next]_(Http!AsService!serviceVars)
  BY <1>5 DEF Http!Serve
<1>6. ASSUME NEW c \in Conns, Http!Accept(c) PROVE Http!AsService!Next
  <2>1. httpPort # 0 /\ c \in Conns \ Requests /\ Requests' = Requests \cup {c}
    BY <1>6 DEF Http!Accept, Requests
  <2>2. Http!AsService!Admit
    BY <1>6, <2>1 DEF Http!Accept, Http!AsService!Admit, Requests
  <2> QED
    BY <2>2 DEF Http!AsService!Next
<1>7. ASSUME NEW c \in Conns, Http!Finish(c) PROVE Http!AsService!Next
  <2>1. Requests' \in SUBSET Requests
    BY <1>7 DEF Http!Finish, Requests
  <2>2. Http!AsService!Leave
    BY <1>7, <2>1 DEF Http!Finish, Http!AsService!Leave, Requests
  <2> QED
    BY <2>2 DEF Http!AsService!Next
<1> QED
  BY <1>1, <1>2, <1>3, <1>4, <1>5, <1>6, <1>7 DEF Http!Next, Http!Proceed

-----------------------------------------------------------------------------
(* The DNS server                                                          *)

\* The shape of the state.
DnsShape ==
  /\ dnsPc \in {"free", "wait", "shutdown"}
  /\ dnsRunning \in BOOLEAN
  /\ dnsCount \in 0 .. DnsStarts
  /\ dnsSrv \in 0 .. dnsCount
  /\ dnsErrCh \subseteq 1 .. dnsCount
  /\ dnsListen \in [Dns!Starts -> {"none", "spawned", "serving", "failed", "ended"}]
  /\ dnsQuery \in [Conns -> 0 .. DnsStarts]

\* There is a server while a Start waits for it or it counts as running.
DnsServerInv ==
  /\ dnsPc = "wait" => dnsSrv # 0 /\ ~dnsRunning
  /\ dnsRunning => dnsSrv # 0
  /\ dnsPc = "shutdown" => dnsRunning
  /\ dnsPc = "free" /\ ~dnsRunning => dnsSrv = 0

\* Only that server is bound or will be; silence of its channel means it is bound.
DnsListenInv ==
  /\ \A k \in Dns!Starts : dnsListen[k] \in {"spawned", "serving"} => k = dnsSrv
  /\ \A k \in Dns!Starts : dnsListen[k] = "failed" <=> k \in dnsErrCh
  /\ dnsPc = "wait" => dnsListen[dnsSrv] \in {"spawned", "serving", "failed"}
  /\ dnsPc = "free" /\ dnsRunning => dnsListen[dnsSrv] = "serving"
  /\ dnsPc = "shutdown" => dnsListen[dnsSrv] = "ended"

\* Only a server that is or was bound has queries.
DnsQueryInv ==
  \A c \in Conns :
    dnsQuery[c] # 0 => dnsQuery[c] = dnsSrv /\ dnsListen[dnsSrv] \in {"serving", "ended"}

DnsInv == DnsShape /\ DnsServerInv /\ DnsListenInv /\ DnsQueryInv

\* The invariant holds before any Start.
LEMMA DnsInvInit ==
  ASSUME Dns!ConstantsOK, Dns!Init
  PROVE  DnsInv
<1>1. dnsCount \in 0 .. DnsStarts /\ dnsSrv \in 0 .. dnsCount
  BY DEF Dns!ConstantsOK, Dns!Init
<1>2. /\ dnsListen \in [Dns!Starts -> {"none", "spawned", "serving", "failed", "ended"}]
      /\ dnsQuery \in [Conns -> 0 .. DnsStarts]
  BY DEF Dns!ConstantsOK, Dns!Init
<1>3. /\ dnsPc \in {"free", "wait", "shutdown"} /\ dnsRunning \in BOOLEAN
      /\ dnsErrCh \subseteq 1 .. dnsCount
  BY DEF Dns!Init
<1>4. DnsShape
  BY <1>1, <1>2, <1>3 DEF DnsShape
<1>5. DnsServerInv /\ DnsListenInv /\ DnsQueryInv
  BY DEF Dns!Init, DnsServerInv, DnsListenInv, DnsQueryInv
<1> QED
  BY <1>4, <1>5 DEF DnsInv

\* The server a Start waits for, or that runs, is one of the Starts.
LEMMA ServerIsStart ==
  ASSUME Dns!ConstantsOK, DnsShape, dnsSrv # 0
  PROVE  dnsSrv \in Dns!Starts
BY DEF Dns!ConstantsOK, DnsShape, Dns!Starts

\* Nothing is bound and no query is in progress when there is no server.
LEMMA NoServerIdle ==
  ASSUME DnsInv, dnsSrv = 0
  PROVE  /\ \A k \in Dns!Starts : dnsListen[k] \notin {"spawned", "serving"}
         /\ \A c \in Conns : dnsQuery[c] = 0
<1>1. \A k \in Dns!Starts : k # 0
  BY DEF Dns!Starts
<1> QED
  BY <1>1 DEF DnsInv, DnsListenInv, DnsQueryInv

\* Every step of a Start, a Stop, ListenAndServe and the queries keeps it.
LEMMA DnsInvStep ==
  ASSUME Dns!ConstantsOK, "slow" \notin DnsFaults, DnsInv, [Dns!Next]_(Dns!vars)
  PROVE  DnsInv'
<1> USE DEF DnsInv
<1>1. CASE Dns!StartServer
  <2>1. /\ dnsCount' = dnsCount + 1 /\ dnsSrv' = dnsCount'
        /\ dnsCount' \in 1 .. DnsStarts /\ dnsCount' \notin dnsErrCh
    BY <1>1 DEF Dns!StartServer, DnsShape, Dns!ConstantsOK
  <2>2. dnsSrv = 0
    BY <1>1 DEF Dns!StartServer, DnsServerInv
  <2>3. /\ \A k \in Dns!Starts : dnsListen[k] \notin {"spawned", "serving"}
        /\ \A c \in Conns : dnsQuery[c] = 0
    BY <2>2, NoServerIdle
  <2>4. /\ dnsCount' \in Dns!Starts /\ dnsListen'[dnsCount'] = "spawned"
        /\ \A k \in Dns!Starts \ {dnsCount'} : dnsListen'[k] = dnsListen[k]
    BY <1>1, <2>1 DEF Dns!StartServer, DnsShape, Dns!Starts
  <2>5. DnsShape'
    <3>1. /\ dnsCount' \in 0 .. DnsStarts /\ dnsSrv' \in 0 .. dnsCount'
          /\ dnsErrCh' \subseteq 1 .. dnsCount'
      BY <1>1, <2>1 DEF Dns!StartServer, DnsShape
    <3> QED
      BY <1>1, <3>1 DEF Dns!StartServer, DnsShape
  <2>6. DnsServerInv'
    BY <1>1, <2>1 DEF Dns!StartServer, DnsServerInv
  <2>7. DnsListenInv'
    BY <1>1, <2>1, <2>3, <2>4 DEF Dns!StartServer, DnsListenInv
  <2>8. DnsQueryInv'
    BY <1>1, <2>3 DEF Dns!StartServer, DnsQueryInv
  <2> QED
    BY <2>5, <2>6, <2>7, <2>8
<1>2. ASSUME NEW k \in Dns!Starts, Dns!Bind(k) PROVE DnsInv'
  <2>1. k = dnsSrv /\ dnsSrv # 0
    BY <1>2 DEF Dns!Bind, DnsListenInv, Dns!Starts
  <2>2. /\ dnsListen'[k] = "serving"
        /\ \A j \in Dns!Starts \ {k} : dnsListen'[j] = dnsListen[j]
    BY <1>2 DEF Dns!Bind, DnsShape
  <2>3. k \notin dnsErrCh /\ dnsPc = "wait"
    BY <1>2, <2>1 DEF Dns!Bind, DnsShape, DnsServerInv, DnsListenInv
  <2>4. DnsShape'
    BY <1>2 DEF Dns!Bind, DnsShape
  <2>5. DnsServerInv'
    BY <1>2 DEF Dns!Bind, DnsServerInv
  <2>6. DnsListenInv'
    BY <1>2, <2>1, <2>2, <2>3 DEF Dns!Bind, DnsListenInv
  <2>7. DnsQueryInv'
    BY <1>2, <2>1, <2>2 DEF Dns!Bind, DnsQueryInv
  <2> QED
    BY <2>4, <2>5, <2>6, <2>7
<1>3. ASSUME NEW k \in Dns!Starts, Dns!BindFails(k) PROVE DnsInv'
  <2>1. k = dnsSrv /\ dnsSrv # 0
    BY <1>3 DEF Dns!BindFails, DnsListenInv, Dns!Starts
  <2>2. /\ dnsListen'[k] = "failed" /\ dnsErrCh' = dnsErrCh \cup {k}
        /\ \A j \in Dns!Starts \ {k} : dnsListen'[j] = dnsListen[j]
    BY <1>3 DEF Dns!BindFails, DnsShape
  <2>3. dnsPc = "wait"
    BY <1>3, <2>1 DEF Dns!BindFails, DnsShape, DnsServerInv, DnsListenInv
  <2>4. DnsShape'
    <3>1. k \in 1 .. dnsCount
      BY <2>1 DEF DnsShape, Dns!Starts
    <3> QED
      BY <1>3, <3>1 DEF Dns!BindFails, DnsShape
  <2>5. DnsServerInv'
    BY <1>3 DEF Dns!BindFails, DnsServerInv
  <2>6. DnsListenInv'
    BY <1>3, <2>1, <2>2, <2>3 DEF Dns!BindFails, DnsListenInv
  <2>7. DnsQueryInv'
    BY <1>3, <2>1 DEF Dns!BindFails, DnsQueryInv
  <2> QED
    BY <2>4, <2>5, <2>6, <2>7
<1>4. CASE Dns!StartFails
  <2>1. dnsSrv \in Dns!Starts
    BY <1>4, ServerIsStart DEF Dns!StartFails, DnsServerInv
  <2>2. dnsListen[dnsSrv] = "failed"
    BY <1>4, <2>1 DEF Dns!StartFails, DnsListenInv
  <2>3. \A c \in Conns : dnsQuery[c] = 0
    BY <2>2 DEF DnsQueryInv
  <2>4. DnsShape'
    <3>1. 0 \in 0 .. dnsCount
      BY DEF DnsShape
    <3> QED
      BY <1>4, <3>1 DEF Dns!StartFails, DnsShape
  <2>5. DnsServerInv'
    BY <1>4 DEF Dns!StartFails, DnsServerInv
  <2>6. DnsListenInv'
    BY <1>4, <2>2 DEF Dns!StartFails, DnsServerInv, DnsListenInv
  <2>7. DnsQueryInv'
    BY <1>4, <2>3 DEF Dns!StartFails, DnsQueryInv
  <2> QED
    BY <2>4, <2>5, <2>6, <2>7
<1>5. CASE Dns!StartTimer
  <2>1. dnsSrv \in Dns!Starts
    BY <1>5, ServerIsStart DEF Dns!StartTimer, DnsServerInv
  <2>2. dnsListen[dnsSrv] = "serving"
    BY <1>5, <2>1 DEF Dns!StartTimer, DnsListenInv
  <2>3. DnsShape'
    BY <1>5 DEF Dns!StartTimer, DnsShape
  <2>4. DnsServerInv'
    BY <1>5 DEF Dns!StartTimer, DnsServerInv
  <2>5. DnsListenInv'
    BY <1>5, <2>2 DEF Dns!StartTimer, DnsListenInv
  <2>6. DnsQueryInv'
    BY <1>5 DEF Dns!StartTimer, DnsQueryInv
  <2> QED
    BY <2>3, <2>4, <2>5, <2>6
<1>6. CASE Dns!Shutdown
  <2>1. dnsSrv \in Dns!Starts
    BY <1>6, ServerIsStart DEF Dns!Shutdown, DnsServerInv
  <2>2. /\ dnsListen'[dnsSrv] = "ended"
        /\ \A j \in Dns!Starts \ {dnsSrv} : dnsListen'[j] = dnsListen[j]
    BY <1>6, <2>1 DEF Dns!Shutdown, DnsShape
  <2>3. DnsShape'
    BY <1>6 DEF Dns!Shutdown, DnsShape
  <2>4. DnsServerInv'
    BY <1>6 DEF Dns!Shutdown, DnsServerInv
  <2>5. DnsListenInv'
    BY <1>6, <2>1, <2>2 DEF Dns!Shutdown, DnsListenInv
  <2>6. DnsQueryInv'
    BY <1>6, <2>2 DEF Dns!Shutdown, DnsQueryInv
  <2> QED
    BY <2>3, <2>4, <2>5, <2>6
<1>7. CASE Dns!ShutdownDone
  <2>1. dnsListen[dnsSrv] = "ended" /\ dnsSrv # 0
    BY <1>7 DEF Dns!ShutdownDone, DnsServerInv, DnsListenInv
  <2>2. \A c \in Conns : dnsQuery[c] = 0
    BY <1>7 DEF Dns!ShutdownDone, DnsQueryInv
  <2>3. DnsShape'
    <3>1. 0 \in 0 .. dnsCount
      BY DEF DnsShape
    <3> QED
      BY <1>7, <3>1 DEF Dns!ShutdownDone, DnsShape
  <2>4. DnsServerInv'
    BY <1>7 DEF Dns!ShutdownDone, DnsServerInv
  <2>5. DnsListenInv'
    BY <1>7, <2>1 DEF Dns!ShutdownDone, DnsListenInv
  <2>6. DnsQueryInv'
    BY <1>7, <2>2 DEF Dns!ShutdownDone, DnsQueryInv
  <2> QED
    BY <2>3, <2>4, <2>5, <2>6
<1>8. ASSUME NEW c \in Conns, Dns!Receive(c) PROVE DnsInv'
  <2>1. PICK k \in Dns!Starts : dnsListen[k] = "serving"
        /\ dnsQuery' = [dnsQuery EXCEPT ![c] = k]
    BY <1>8 DEF Dns!Receive
  <2>2. k = dnsSrv
    BY <2>1 DEF DnsListenInv
  <2>3. \A d \in Conns : dnsQuery'[d] = IF d = c THEN k ELSE dnsQuery[d]
    BY <2>1 DEF DnsShape
  <2>4. DnsShape'
    <3>1. k \in 0 .. DnsStarts
      BY DEF Dns!Starts
    <3> QED
      BY <1>8, <2>1, <3>1 DEF Dns!Receive, DnsShape
  <2>5. DnsServerInv' /\ DnsListenInv'
    BY <1>8 DEF Dns!Receive, DnsServerInv, DnsListenInv
  <2>6. DnsQueryInv'
    BY <1>8, <2>1, <2>2, <2>3 DEF Dns!Receive, DnsQueryInv
  <2> QED
    BY <2>4, <2>5, <2>6
<1>9. ASSUME NEW c \in Conns, Dns!Answer(c) PROVE DnsInv'
  <2>1. \A d \in Conns : dnsQuery'[d] = IF d = c THEN 0 ELSE dnsQuery[d]
    BY <1>9 DEF Dns!Answer, DnsShape
  <2>2. DnsShape'
    <3>1. 0 \in 0 .. DnsStarts
      BY DEF Dns!ConstantsOK
    <3> QED
      BY <1>9, <3>1 DEF Dns!Answer, DnsShape
  <2>3. DnsServerInv' /\ DnsListenInv'
    BY <1>9 DEF Dns!Answer, DnsServerInv, DnsListenInv
  <2>4. DnsQueryInv'
    BY <1>9, <2>1 DEF Dns!Answer, DnsQueryInv
  <2> QED
    BY <2>2, <2>3, <2>4
<1>10. CASE Dns!Refused \/ UNCHANGED Dns!vars
  <2>1. DnsShape'
    BY <1>10 DEF Dns!Refused, Dns!vars, DnsShape
  <2>2. DnsServerInv' /\ DnsQueryInv'
    BY <1>10 DEF Dns!Refused, Dns!vars, DnsServerInv, DnsQueryInv
  <2>3. DnsListenInv'
    BY <1>10 DEF Dns!Refused, Dns!vars, DnsListenInv
  <2> QED
    BY <2>1, <2>2, <2>3
<1> QED
  BY <1>1, <1>2, <1>3, <1>4, <1>5, <1>6, <1>7, <1>8, <1>9, <1>10 DEF Dns!Next, Dns!Proceed


\* What Service is shown: what IsRunning reports once Start returns, and who is
\* being answered.
Reported == dnsRunning \/ (dnsPc = "wait" /\ Dns!Listening)
Queries == {c \in Conns : dnsQuery[c] # 0}

\* What each step of the DNS server is to Service.
LEMMA DnsServiceStep ==
  ASSUME Dns!ConstantsOK, "slow" \notin DnsFaults, DnsInv, DnsInv', [Dns!Next]_(Dns!vars)
  PROVE  [Dns!AsService!Next]_(Dns!AsService!serviceVars)
<1> DEFINE Same == Reported' = Reported /\ Dns!Listening' = Dns!Listening
      /\ Queries' = Queries
<1>1. Same => [Dns!AsService!Next]_(Dns!AsService!serviceVars)
  BY DEF Dns!AsService!serviceVars, Reported, Queries
<1>2. CASE Dns!StartServer
  <2>1. dnsSrv = 0
    BY <1>2 DEF Dns!StartServer, DnsInv, DnsServerInv
  <2>2. ~Dns!Listening
    BY <2>1, NoServerIdle DEF Dns!Listening
  <2>3. ~Dns!Listening'
    <3>1. \A k \in Dns!Starts : dnsListen'[k] # "serving"
      BY <1>2, <2>2 DEF Dns!StartServer, Dns!Listening, DnsInv, DnsShape
    <3> QED
      BY <3>1 DEF Dns!Listening
  <2>4. ~Reported /\ ~Reported'
    BY <1>2, <2>2, <2>3 DEF Dns!StartServer, Reported
  <2>5. Queries' = Queries
    BY <1>2 DEF Dns!StartServer, Queries
  <2>6. Reported' = Reported /\ Dns!Listening' = Dns!Listening
    BY <2>2, <2>3, <2>4 DEF Reported, Dns!Listening
  <2> QED
    BY <1>1, <2>5, <2>6
<1>3. ASSUME NEW k \in Dns!Starts, Dns!Bind(k) PROVE Dns!AsService!Next
  <2>1. k = dnsSrv /\ dnsPc = "wait" /\ ~dnsRunning
    BY <1>3 DEF Dns!Bind, DnsInv, DnsShape, DnsServerInv, DnsListenInv, Dns!Starts
  <2>2. ~Dns!Listening /\ ~Reported
    BY <1>3, <2>1 DEF Dns!Bind, Dns!Listening, Reported
  <2>3. Dns!Listening'
    BY <1>3 DEF Dns!Bind, Dns!Listening, DnsInv, DnsShape
  <2>4. Reported' /\ Queries' = Queries
    BY <1>3, <2>1, <2>3 DEF Dns!Bind, Reported, Queries
  <2>5. Dns!AsService!Start
    BY <2>2, <2>3, <2>4 DEF Dns!AsService!Start, Reported, Queries
  <2> QED
    BY <2>5 DEF Dns!AsService!Next
<1>4. ASSUME NEW k \in Dns!Starts, Dns!BindFails(k) PROVE Same
  <2>1. Dns!Listening' = Dns!Listening
    <3>1. k = dnsSrv
      BY <1>4 DEF Dns!BindFails, DnsInv, DnsListenInv
    <3>2. \A j \in Dns!Starts : dnsListen[j] # "serving" /\ dnsListen'[j] # "serving"
      BY <1>4, <3>1 DEF Dns!BindFails, DnsInv, DnsShape, DnsListenInv
    <3> QED
      BY <3>2 DEF Dns!Listening
  <2> QED
    BY <1>4, <2>1 DEF Dns!BindFails, Reported, Queries
<1>5. CASE Dns!StartFails
  <2>1. dnsSrv \in Dns!Starts
    BY <1>5, ServerIsStart DEF Dns!StartFails, DnsInv, DnsServerInv
  <2>2. ~Dns!Listening
    BY <1>5, <2>1 DEF Dns!StartFails, Dns!Listening, DnsInv, DnsListenInv
  <2>3. Dns!Listening' = Dns!Listening
    BY <1>5 DEF Dns!StartFails, Dns!Listening
  <2> QED
    BY <1>1, <1>5, <2>2, <2>3 DEF Dns!StartFails, Reported, Queries
<1>6. CASE Dns!StartTimer
  <2>1. dnsSrv \in Dns!Starts
    BY <1>6, ServerIsStart DEF Dns!StartTimer, DnsInv, DnsServerInv
  <2>2. Dns!Listening /\ Dns!Listening'
    BY <1>6, <2>1 DEF Dns!StartTimer, Dns!Listening, DnsInv, DnsListenInv
  <2> QED
    BY <1>1, <1>6, <2>2 DEF Dns!StartTimer, Reported, Queries
<1>7. CASE Dns!Shutdown
  <2>1. dnsSrv \in Dns!Starts
    BY <1>7, ServerIsStart DEF Dns!Shutdown, DnsInv, DnsServerInv
  <2>2. Dns!Listening
    BY <1>7, <2>1 DEF Dns!Shutdown, Dns!Listening
  <2>3. ~Dns!Listening'
    <3>1. \A k \in Dns!Starts : dnsListen'[k] # "serving"
      BY <1>7, <2>1 DEF Dns!Shutdown, DnsInv, DnsShape, DnsListenInv
    <3> QED
      BY <3>1 DEF Dns!Listening
  <2>4. Dns!AsService!Close
    BY <1>7, <2>2, <2>3 DEF Dns!Shutdown, Dns!AsService!Close
  <2> QED
    BY <2>4 DEF Dns!AsService!Next
<1>8. CASE Dns!ShutdownDone
  <2>1. \A c \in Conns : dnsQuery[c] = 0
    BY <1>8 DEF Dns!ShutdownDone, DnsInv, DnsQueryInv
  <2>2. Queries = {} /\ Queries' = {}
    BY <1>8, <2>1 DEF Dns!ShutdownDone, Queries
  <2>3. ~Dns!Listening'
    <3>1. \A k \in Dns!Starts : dnsListen[k] # "serving"
      BY <1>8 DEF Dns!ShutdownDone, DnsInv, DnsListenInv
    <3> QED
      BY <1>8, <3>1 DEF Dns!ShutdownDone, Dns!Listening
  <2>4. dnsRunning /\ ~Reported'
    BY <1>8, <2>3 DEF Dns!ShutdownDone, DnsInv, DnsServerInv, Reported
  <2>5. Dns!AsService!Stop
    BY <2>2, <2>3, <2>4 DEF Dns!AsService!Stop, Reported, Queries
  <2> QED
    BY <2>5 DEF Dns!AsService!Next
<1>9. ASSUME NEW c \in Conns, Dns!Receive(c) PROVE Dns!AsService!Next
  <2>1. PICK k \in Dns!Starts : dnsListen[k] = "serving"
        /\ dnsQuery' = [dnsQuery EXCEPT ![c] = k]
    BY <1>9 DEF Dns!Receive
  <2>2. Dns!Listening /\ Dns!Listening' /\ Reported' = Reported
    BY <1>9, <2>1 DEF Dns!Receive, Dns!Listening, Reported
  <2>3. c \in Conns \ Queries /\ Queries' = Queries \cup {c}
    BY <1>9, <2>1 DEF Dns!Receive, Queries, DnsInv, DnsShape, Dns!Starts
  <2>4. Dns!AsService!Admit
    BY <2>2, <2>3 DEF Dns!AsService!Admit, Reported, Queries
  <2> QED
    BY <2>4 DEF Dns!AsService!Next
<1>10. ASSUME NEW c \in Conns, Dns!Answer(c) PROVE Dns!AsService!Next
  <2>1. Queries' \in SUBSET Queries
    BY <1>10 DEF Dns!Answer, Queries, DnsInv, DnsShape
  <2>2. Dns!Listening' = Dns!Listening /\ Reported' = Reported
    BY <1>10 DEF Dns!Answer, Dns!Listening, Reported
  <2>3. Dns!AsService!Leave
    BY <2>1, <2>2 DEF Dns!AsService!Leave, Reported, Queries
  <2> QED
    BY <2>3 DEF Dns!AsService!Next
<1>11. CASE Dns!Refused \/ UNCHANGED Dns!vars
  BY <1>1, <1>11 DEF Dns!Refused, Dns!vars, Reported, Dns!Listening, Queries
<1> QED
  BY <1>1, <1>2, <1>3, <1>4, <1>5, <1>6, <1>7, <1>8, <1>9, <1>10, <1>11 DEF Dns!Next,
       Dns!Proceed

-----------------------------------------------------------------------------
(* Both in one process                                                     *)

\* Every step of the two is a step or a stutter of each.
LEMMA StepOfEach ==
  ASSUME [Next]_vars
  PROVE  [Http!Next]_(Http!vars) /\ [Dns!Next]_(Dns!vars)
BY DEF Next, HttpNext, DnsNext, vars, httpVars, dnsVars, Http!vars, Dns!vars

\* The invariant of the HTTP server is one of the two together.
LEMMA HttpInvariant ==
  ASSUME ConstantsOK, "late" \notin HttpFaults
  PROVE  /\ Init => HttpInv
         /\ HttpInv /\ [Next]_vars => HttpInv'
BY HttpInvInit, HttpInvStep, StepOfEach DEF Init, ConstantsOK

\* And so is that of the DNS server.
LEMMA DnsInvariant ==
  ASSUME ConstantsOK, "slow" \notin DnsFaults
  PROVE  /\ Init => DnsInv
         /\ DnsInv /\ [Next]_vars => DnsInv'
BY DnsInvInit, DnsInvStep, StepOfEach DEF Init, ConstantsOK

\* Whoever holds the HTTP port can be stopped, whatever either server does: it is
\* the server s.srv points to.
THEOREM PortOwned ==
  ASSUME ConstantsOK, "late" \notin HttpFaults
  PROVE  Spec => []PortHasOwner
<1>1. Init => HttpInv
  BY HttpInvariant
<1>2. HttpInv /\ [Next]_vars => HttpInv'
  BY HttpInvariant
<1>3. HttpInv => PortHasOwner
  BY HttpInvPort DEF PortHasOwner
<1> QED
  BY <1>1, <1>2, <1>3, PTL DEF Spec

\* In one process, each of the two servers implements Service: it reports itself
\* running only once it is bound, and stopped only when its listener and everybody
\* it let in are gone.
THEOREM BothAreServices ==
  ASSUME ConstantsOK, "late" \notin HttpFaults, "slow" \notin DnsFaults
  PROVE  Spec => ServersAreServices
<1> DEFINE Both == HttpInv /\ DnsInv
<1>1. Init => Both
  BY HttpInvariant, DnsInvariant
<1>2. Both /\ [Next]_vars => Both'
  BY HttpInvariant, DnsInvariant
<1>3. Init => Http!AsService!Init /\ Dns!AsService!Init
  BY DEF Init, Http!Init, Dns!Init, Http!AsService!Init, Dns!AsService!Init, Dns!Listening
<1>4. Both /\ Both' /\ [Next]_vars => [Http!AsService!Next]_(Http!AsService!serviceVars)
  BY StepOfEach, HttpServiceStep DEF ConstantsOK
<1>5. Both /\ Both' /\ [Next]_vars => [Dns!AsService!Next]_(Dns!AsService!serviceVars)
  BY StepOfEach, DnsServiceStep DEF ConstantsOK
<1> QED
  BY <1>1, <1>2, <1>3, <1>4, <1>5, PTL DEF Spec, ServersAreServices,
     Http!ImplementsService, Dns!ImplementsService, Http!AsService!Spec, Dns!AsService!Spec
=============================================================================
