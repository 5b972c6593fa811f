----------------------------- MODULE DnsQueries -----------------------------
(***************************************************************************)
(* How the DNS server answers (dns/server.go, lookupA in dns/records.go):  *)
(* from the local records if they lead to an address, otherwise with what  *)
(* the upstream resolver says.  Queries run concurrently, each in its own  *)
(* goroutine; lookupA walks the CNAME chain hop by hop with the read lock  *)
(* of the store held, while the Admin API changes records under the write  *)
(* lock.  Only what queries see of a change is here, the maps before and   *)
(* after it; DnsRecords has its save and its failures.                     *)
(***************************************************************************)
EXTENDS Naturals, Sequences

CONSTANTS
  Clients,   \* queries that can be in progress at once
  Names,     \* domain names, normalised
  Ipv4s,     \* IPv4 addresses
  Ipv6s,     \* IPv6 addresses: net.ParseIP, hence AddA, accepts them too
  NoValue,   \* no entry in the map; also an A record without an address
  MaxDepth   \* hops of lookupA's loop (8)

AnyIps == Ipv4s \cup Ipv6s

ConstantsOK ==
  /\ MaxDepth \in Nat \ {0}
  /\ NoValue \notin AnyIps \cup Names
  /\ AnyIps \cap Names = {} /\ Ipv4s \cap Ipv6s = {}

VARIABLES
  A, CNAME, \* the maps of recordStore
  query     \* client -> its query in progress, or the one just answered

vars == <<A, CNAME, query>>

\* A reply: where the answer comes from (local, upstream, servfail, none), the
\* trail of CNAMEs it lists, the owner and address of its A record.
NoReply == [from |-> "none", chain |-> <<>>, owner |-> NoValue, ip |-> NoValue]

\* first is the pair of maps as they were when the query took the read lock
\* (history).
IdleQuery == [pc |-> "idle", type |-> "A", name |-> NoValue, at |-> NoValue, i |-> 0,
              chain |-> <<>>, reply |-> NoReply, first |-> <<>>]

Init ==
  /\ A = [n \in Names |-> NoValue]
  /\ CNAME = [n \in Names |-> NoValue]
  /\ query = [c \in Clients |-> IdleQuery]

-----------------------------------------------------------------------------
(* The records change, under the write lock: no walk is in progress        *)

\* Mutation of NoReader: a walk does not hold the read lock.
Unlocked == TRUE

NoReader == \A c \in Clients : query[c].pc # "walk"

AddA(n, ip) ==
  /\ NoReader
  /\ A' = [A EXCEPT ![n] = ip]
  /\ CNAME' = [CNAME EXCEPT ![n] = NoValue]
  /\ UNCHANGED query

AddCNAME(n, target) ==
  /\ NoReader
  /\ n # target
  /\ CNAME' = [CNAME EXCEPT ![n] = target]
  /\ A' = [A EXCEPT ![n] = NoValue]
  /\ UNCHANGED query

Remove(n) ==
  /\ NoReader
  /\ A[n] # NoValue \/ CNAME[n] # NoValue
  /\ A' = [A EXCEPT ![n] = NoValue]
  /\ CNAME' = [CNAME EXCEPT ![n] = NoValue]
  /\ UNCHANGED query

-----------------------------------------------------------------------------
(* A query                                                                 *)

Become(c, q) == query' = [query EXCEPT ![c] = q] /\ UNCHANGED <<A, CNAME>>

Answered(c, reply) == Become(c, [query[c] EXCEPT !.pc = "done", !.reply = reply])

\* handle: A and CNAME queries look at the local records (the walk of an A query
\* starts with the read lock), any other type goes upstream.
handle(c, name, type) ==
  /\ query[c].pc = "idle"
  /\ Become(c, [IdleQuery EXCEPT !.name = name, !.at = name, !.type = type,
                                 !.pc = IF type = "other" THEN "forward" ELSE "walk",
                                 !.first = <<A, CNAME>>])

Walking(c) == query[c].pc = "walk" /\ query[c].type = "A"

\* To4: the IPv4 form of an address, or none.
To4(ip) == IF ip \in Ipv4s THEN ip ELSE NoValue

\* Mutation of WalkHit: the name the last hop led to is looked up too.
WalkHitAfterLoop(c) ==
  /\ Walking(c)
  /\ A[query[c].at] # NoValue
  /\ Answered(c, [from |-> "local", chain |-> query[c].chain,
                  owner |-> query[c].name, ip |-> To4(A[query[c].at])])

\* The loop finds an A record within its hops: answerA replies with the trail
\* and an A record that carries the name asked for.
WalkHit(c) ==
  /\ Walking(c)
  /\ query[c].i < MaxDepth
  /\ A[query[c].at] # NoValue
  /\ Answered(c, [from |-> "local", chain |-> query[c].chain,
                  owner |-> query[c].name, ip |-> To4(A[query[c].at])])

\* Mutation of WalkHop: hops are not counted.
WalkHopForever(c) ==
  /\ Walking(c)
  /\ A[query[c].at] = NoValue
  /\ CNAME[query[c].at] # NoValue
  /\ Become(c, [query[c] EXCEPT !.at = CNAME[query[c].at]])

WalkHop(c) ==
  /\ Walking(c)
  /\ query[c].i < MaxDepth
  /\ A[query[c].at] = NoValue
  /\ CNAME[query[c].at] # NoValue
  /\ LET next == CNAME[query[c].at]
     IN  Become(c, [query[c] EXCEPT !.at = next, !.i = @ + 1,
                                    !.chain = Append(@, <<query[c].at, next>>)])

\* No record to follow, a loop, or too deep: the name asked for goes upstream.
WalkMiss(c) ==
  /\ Walking(c)
  /\ \/ query[c].i = MaxDepth
     \/ A[query[c].at] = NoValue /\ CNAME[query[c].at] = NoValue
  /\ Become(c, [query[c] EXCEPT !.pc = "forward"])

answerCNAME(c) ==
  /\ query[c].pc = "walk" /\ query[c].type = "CNAME"
  /\ LET n == query[c].name
     IN  IF CNAME[n] # NoValue
         THEN Answered(c, [NoReply EXCEPT !.from = "local", !.chain = <<<<n, CNAME[n]>>>>])
         ELSE Become(c, [query[c] EXCEPT !.pc = "forward"])

\* forward: Exchange returns the upstream's reply, or an error after at most 3 s.
forward(c) ==
  /\ query[c].pc = "forward"
  /\ \E from \in {"upstream", "servfail"} : Answered(c, [NoReply EXCEPT !.from = from])

\* The goroutine of the query is done.
Return(c) == query[c].pc = "done" /\ Become(c, IdleQuery)

Step(c) ==
  WalkHit(c) \/ WalkHop(c) \/ WalkMiss(c) \/ answerCNAME(c) \/ forward(c) \/ Return(c)

-----------------------------------------------------------------------------
Next ==
  \/ \E n \in Names, ip \in AnyIps : AddA(n, ip)
  \/ \E n, target \in Names : AddCNAME(n, target)
  \/ \E n \in Names : Remove(n)
  \/ \E c \in Clients :
       \/ \E n \in Names, type \in {"A", "CNAME", "other"} : handle(c, n, type)
       \/ Step(c)

Spec == Init /\ [][Next]_vars

\* The goroutine of a query runs; the time limit of Exchange bounds a forward.
Fairness == \A c \in Clients : WF_vars(Step(c))

FairSpec == Spec /\ Fairness

-----------------------------------------------------------------------------
(* Properties                                                              *)

\* Following CNAMEs, k hops from a name in a pair of maps, leads to p[1], ..., p[k];
\* a name with an A record leads nowhere further.
IsPath(maps, n, p, k) ==
  /\ p[0] = n
  /\ \A j \in 1 .. k : maps[1][p[j - 1]] = NoValue /\ maps[2][p[j - 1]] = p[j]

\* The name has an address after at most depth hops.
Resolves(maps, n, depth) ==
  \E k \in 0 .. depth : \E p \in [0 .. k -> Names] :
    IsPath(maps, n, p, k) /\ maps[1][p[k]] # NoValue

\* The names a trail of CNAMEs leads through, from n.
Trail(n, chain) == [j \in 0 .. Len(chain) |-> IF j = 0 THEN n ELSE chain[j][2]]

Follows(maps, n, chain) ==
  /\ IsPath(maps, n, Trail(n, chain), Len(chain))
  /\ \A j \in 1 .. Len(chain) : chain[j][1] = Trail(n, chain)[j - 1]

\* A local answer is true of one moment: its trail and its address are a path
\* through the records as they were together, never a mixture of the records
\* before and after a change made meanwhile.
AnswerConsistent ==
  \A c \in Clients :
    LET q == query[c]
        end == Trail(q.name, q.reply.chain)[Len(q.reply.chain)]
    IN  q.pc = "done" /\ q.type = "A" /\ q.reply.from = "local" =>
          /\ Follows(q.first, q.name, q.reply.chain)
          /\ q.first[1][end] # NoValue
          /\ q.reply.ip = To4(q.first[1][end])

\* lookupA's rule, through loops, deep chains and changes of the records: an A query
\* goes upstream exactly when no record leads to an address of either kind in fewer
\* than MaxDepth hops.  README.md:35 promises more: see Authoritative.
ForwardedIffUnresolved ==
  \A c \in Clients :
    LET q == query[c]
    IN  q.pc = "done" /\ q.type = "A" =>
          (q.reply.from = "local" <=> Resolves(q.first, q.name, MaxDepth - 1))

\* Every query is answered: a loop of CNAMEs ends, a silent upstream times out.
EveryQueryAnswered == \A c \in Clients : query[c].pc = "walk" ~> query[c].pc = "done"

-----------------------------------------------------------------------------
(* What the README says and the code does not do                           *)

\* "Authoritative for any A/CNAME records you add; forwards everything else"
\* (README.md:35): an A query for a name that has a record does not go upstream.
Authoritative ==
  \A c \in Clients :
    LET q == query[c]
    IN  /\ q.pc = "done" /\ q.type = "A"
        /\ q.first[1][q.name] # NoValue \/ q.first[2][q.name] # NoValue
        => q.reply.from = "local"
=============================================================================
