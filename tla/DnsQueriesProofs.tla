--------------------------- MODULE DnsQueriesProofs ---------------------------
(***************************************************************************)
(* What the answers to A queries promise for any number of queries and     *)
(* names, any records and any limit of hops, whatever the Admin API        *)
(* changes meanwhile: a local answer is a path through the records of one  *)
(* moment, and a query goes upstream exactly when there is none.           *)
(***************************************************************************)
EXTENDS DnsQueries, TLAPS

-----------------------------------------------------------------------------
(* Paths                                                                   *)

\* The two maps of the store.
Maps == [Names -> AnyIps \cup {NoValue}] \X [Names -> Names \cup {NoValue}]
Chains == Seq(Names \X Names)

\* All paths from n through i - 1 hops pass no address, and those that go on are at
\* the name at.
OnlyWay(maps, n, i, at) ==
  \A k \in Nat : \A p \in [0 .. k -> Names] :
    IsPath(maps, n, p, k) =>
      /\ k < i => maps[1][p[k]] = NoValue
      /\ k >= i => p[i] = at

\* A hop adds its name to the trail.
LEMMA TrailGrows ==
  ASSUME NEW n \in Names, NEW chain \in Chains, NEW hop \in Names \X Names
  PROVE  /\ Trail(n, Append(chain, hop))[Len(chain) + 1] = hop[2]
         /\ \A j \in 0 .. Len(chain) : Trail(n, Append(chain, hop))[j] = Trail(n, chain)[j]
         /\ Len(Append(chain, hop)) = Len(chain) + 1
         /\ Append(chain, hop) \in Chains
<1>1. /\ Len(chain) \in Nat /\ Len(Append(chain, hop)) = Len(chain) + 1
      /\ Append(chain, hop)[Len(chain) + 1] = hop
      /\ \A j \in 1 .. Len(chain) : Append(chain, hop)[j] = chain[j]
      /\ Append(chain, hop) \in Chains
  BY DEF Chains
<1> QED
  BY <1>1 DEF Trail

\* The names of a trail are names.
LEMMA TrailNames ==
  ASSUME NEW n \in Names, NEW chain \in Chains
  PROVE  /\ Len(chain) \in Nat
         /\ Trail(n, chain) \in [0 .. Len(chain) -> Names]
         /\ Trail(n, chain)[0] = n
<1>1. Len(chain) \in Nat /\ \A j \in 1 .. Len(chain) : chain[j] \in Names \X Names
  BY DEF Chains
<1> QED
  BY <1>1 DEF Trail

\* A hop from the end of a trail that follows the records yields another.
LEMMA HopFollows ==
  ASSUME NEW maps, NEW n \in Names, NEW chain \in Chains, NEW at \in Names, NEW next \in Names,
         Follows(maps, n, chain), at = Trail(n, chain)[Len(chain)],
         maps[1][at] = NoValue, maps[2][at] = next
  PROVE  Follows(maps, n, Append(chain, <<at, next>>))
<1> DEFINE longer == Append(chain, <<at, next>>)
           t == Trail(n, chain)
           u == Trail(n, longer)
           k == Len(chain)
<1>1. /\ k \in Nat /\ Len(longer) = k + 1
      /\ u[k + 1] = next /\ u[k] = at /\ u[0] = n
      /\ \A j \in 0 .. k : u[j] = t[j]
  <2>1. k \in Nat /\ t[0] = n
    BY TrailNames
  <2>2. <<at, next>> \in Names \X Names /\ <<at, next>>[2] = next
    OBVIOUS
  <2>3. /\ u[k + 1] = <<at, next>>[2] /\ Len(longer) = k + 1
        /\ \A j \in 0 .. k : u[j] = t[j]
    BY <2>2, TrailGrows
  <2>4. 0 \in 0 .. k /\ k \in 0 .. k
    BY <2>1
  <2> HIDE DEF longer, t, u, k
  <2>5. t[k] = at
    BY DEF t, k
  <2> QED
    BY <2>1, <2>2, <2>3, <2>4, <2>5
<1>2. /\ t[0] = n
      /\ \A j \in 1 .. k : /\ maps[1][t[j - 1]] = NoValue /\ maps[2][t[j - 1]] = t[j]
                           /\ chain[j][1] = t[j - 1]
  BY DEF Follows, IsPath
<1>3. \A j \in 1 .. k : j - 1 \in 0 .. k /\ j \in 0 .. k
  BY <1>1
<1>4. longer[k + 1] = <<at, next>> /\ \A j \in 1 .. k : longer[j] = chain[j]
  BY DEF Chains
<1> HIDE DEF longer, t, u, k
<1>5. \A j \in 1 .. k + 1 : maps[1][u[j - 1]] = NoValue /\ maps[2][u[j - 1]] = u[j]
  <2> TAKE j \in 1 .. k + 1
  <2>1. CASE j \in 1 .. k
    BY <1>1, <1>2, <1>3, <2>1
  <2>2. CASE j = k + 1
    <3>1. j - 1 = k
      BY <1>1, <2>2
    <3> QED
      BY <1>1, <2>2, <3>1
  <2> QED
    BY <1>1, <2>1, <2>2
<1>6. \A j \in 1 .. k + 1 : longer[j][1] = u[j - 1]
  <2> TAKE j \in 1 .. k + 1
  <2>1. CASE j \in 1 .. k
    BY <1>1, <1>2, <1>3, <1>4, <2>1
  <2>2. CASE j = k + 1
    <3>1. j - 1 = k /\ longer[j][1] = at
      BY <1>1, <1>4, <2>2
    <3> QED
      BY <1>1, <3>1
  <2> QED
    BY <1>1, <2>1, <2>2
<1> QED
  BY <1>1, <1>5, <1>6 DEF Follows, IsPath, longer, u

\* After a hop, there is still one way only.
LEMMA HopOnlyWay ==
  ASSUME NEW maps, NEW n \in Names, NEW i \in Nat, NEW at, NEW next,
         OnlyWay(maps, n, i, at), maps[1][at] = NoValue, maps[2][at] = next
  PROVE  OnlyWay(maps, n, i + 1, next)
<1> SUFFICES ASSUME NEW k \in Nat, NEW p \in [0 .. k -> Names], IsPath(maps, n, p, k)
             PROVE  /\ k < i + 1 => maps[1][p[k]] = NoValue
                    /\ k >= i + 1 => p[i + 1] = next
  BY DEF OnlyWay
<1>1. /\ k < i => maps[1][p[k]] = NoValue
      /\ k >= i => p[i] = at
  BY DEF OnlyWay
<1>2. ASSUME k >= i + 1 PROVE p[i + 1] = next
  <2>1. i + 1 \in 1 .. k /\ (i + 1) - 1 = i
    BY <1>2
  <2>2. maps[2][p[(i + 1) - 1]] = p[i + 1]
    BY <2>1 DEF IsPath
  <2> QED
    BY <1>1, <1>2, <2>1, <2>2
<1> QED
  BY <1>1, <1>2

\* A walk that found an address has found that the name resolves ...
LEMMA HitResolves ==
  ASSUME ConstantsOK, NEW maps, NEW n \in Names, NEW chain \in Chains,
         Follows(maps, n, chain), Len(chain) < MaxDepth,
         maps[1][Trail(n, chain)[Len(chain)]] # NoValue
  PROVE  Resolves(maps, n, MaxDepth - 1)
<1>1. Len(chain) \in 0 .. MaxDepth - 1
  BY TrailNames DEF ConstantsOK
<1> QED
  BY <1>1, TrailNames DEF Resolves, Follows

\* ... and one that gave up, that it does not.
LEMMA MissUnresolved ==
  ASSUME ConstantsOK, NEW maps, NEW n \in Names, NEW i \in Nat, NEW at, OnlyWay(maps, n, i, at),
         i = MaxDepth \/ (maps[1][at] = NoValue /\ maps[2][at] = NoValue)
  PROVE  ~Resolves(maps, n, MaxDepth - 1)
<1> SUFFICES ASSUME NEW k \in 0 .. MaxDepth - 1, NEW p \in [0 .. k -> Names],
                    IsPath(maps, n, p, k), maps[1][p[k]] # NoValue
             PROVE  FALSE
  BY DEF Resolves
<1>1. k \in Nat /\ k < MaxDepth /\ MaxDepth \in Nat
  BY DEF ConstantsOK
<1>2. k >= i /\ p[i] = at
  BY <1>1 DEF OnlyWay
<1>3. maps[1][at] = NoValue /\ maps[2][at] = NoValue
  BY <1>1, <1>2
<1>4. i # k
  BY <1>2, <1>3
<1>5. i + 1 \in 1 .. k /\ (i + 1) - 1 = i
  BY <1>1, <1>2, <1>4
<1>6. p[i + 1] = NoValue
  BY <1>2, <1>3, <1>5 DEF IsPath
<1> QED
  BY <1>5, <1>6 DEF ConstantsOK

-----------------------------------------------------------------------------
(* The invariant                                                           *)

Reply == [from : {"none", "local", "upstream", "servfail"}, chain : Chains,
          owner : Names \cup {NoValue}, ip : AnyIps \cup {NoValue}]

Query == [pc : {"idle", "walk", "forward", "done"}, type : {"A", "CNAME", "other"},
          name : Names \cup {NoValue}, at : Names \cup {NoValue}, i : Nat,
          chain : Chains, reply : Reply, first : Maps \cup {<<>>}]

Shape ==
  /\ <<A, CNAME>> \in Maps
  /\ query \in [Clients -> Query]

\* A walk sees the records as they were when it took the lock; it is at the end of a
\* trail through them, and there was no other way.
WalkOK(q) ==
  /\ q.first = <<A, CNAME>>
  /\ q.name \in Names
  /\ q.type = "A" =>
       /\ Len(q.chain) = q.i /\ q.i <= MaxDepth
       /\ Follows(q.first, q.name, q.chain)
       /\ q.at = Trail(q.name, q.chain)[q.i]
       /\ OnlyWay(q.first, q.name, q.i, q.at)

ReplyOK(q) ==
  LET end == Trail(q.name, q.reply.chain)[Len(q.reply.chain)]
  IN  /\ q.reply.from = "local" <=> Resolves(q.first, q.name, MaxDepth - 1)
      /\ q.reply.from = "local" =>
           /\ Follows(q.first, q.name, q.reply.chain)
           /\ q.first[1][end] # NoValue
           /\ q.reply.ip = To4(q.first[1][end])

QueryOK(q) ==
  /\ q.pc = "walk" => WalkOK(q)
  /\ q.pc = "forward" /\ q.type = "A" => ~Resolves(q.first, q.name, MaxDepth - 1)
  /\ q.pc = "done" /\ q.type = "A" => ReplyOK(q)

Inv == Shape /\ \A c \in Clients : QueryOK(query[c])

LEMMA IdleShape == IdleQuery \in Query /\ NoReply \in Reply /\ QueryOK(IdleQuery)
<1>1. <<>> \in Chains
  BY DEF Chains
<1>2. NoReply \in Reply
  BY <1>1 DEF NoReply, Reply
<1> QED
  BY <1>1, <1>2 DEF IdleQuery, Query, QueryOK

\* A query that becomes another leaves the rest alone.
LEMMA BecomeKeeps ==
  ASSUME Inv, NEW c \in Clients, NEW q \in Query, QueryOK(q), Become(c, q)
  PROVE  Inv'
<1>1. UNCHANGED <<A, CNAME>> /\ query' = [query EXCEPT ![c] = q]
  BY DEF Become
<1>2. Shape'
  BY <1>1 DEF Inv, Shape
<1>3. ASSUME NEW d \in Clients PROVE QueryOK(query[d])'
  <2>1. query'[d] = IF d = c THEN q ELSE query[d]
    BY <1>1 DEF Inv, Shape
  <2>2. QueryOK(query[d]) /\ QueryOK(q)
    BY DEF Inv
  <2> QED
    BY <1>1, <2>1, <2>2 DEF QueryOK, WalkOK, ReplyOK
<1> QED
  BY <1>2, <1>3 DEF Inv

\* A change of the records finds no walk under way.
LEMMA RecordsKeep ==
  ASSUME Inv, NoReader, UNCHANGED query, <<A, CNAME>>' \in Maps
  PROVE  Inv'
<1>1. ASSUME NEW c \in Clients PROVE QueryOK(query[c])'
  <2>1. QueryOK(query[c]) /\ query[c].pc # "walk"
    BY DEF Inv, NoReader
  <2> QED
    BY <2>1 DEF QueryOK, ReplyOK
<1> QED
  BY <1>1 DEF Inv, Shape

\* One step of a query.
LEMMA HandleStep ==
  ASSUME ConstantsOK, Inv, NEW c \in Clients, NEW n \in Names, NEW type \in {"A", "CNAME", "other"},
         handle(c, n, type)
  PROVE  Inv'
<1> DEFINE q == [IdleQuery EXCEPT !.name = n, !.at = n, !.type = type,
                                  !.pc = IF type = "other" THEN "forward" ELSE "walk",
                                  !.first = <<A, CNAME>>]
<1>1. q \in Query
  BY IdleShape DEF Query, Inv, Shape
<1>2. /\ q.name = n /\ q.at = n /\ q.type = type /\ q.first = <<A, CNAME>>
      /\ q.pc = IF type = "other" THEN "forward" ELSE "walk"
      /\ q.i = 0 /\ q.chain = <<>>
  BY DEF IdleQuery
<1>3. Follows(q.first, n, <<>>) /\ Trail(n, <<>>)[0] = n /\ Len(<<>>) = 0
  BY DEF Follows, IsPath, Trail
<1>4. OnlyWay(q.first, n, 0, n)
  BY DEF OnlyWay, IsPath
<1>5. QueryOK(q)
  BY <1>2, <1>3, <1>4 DEF QueryOK, WalkOK, ConstantsOK
<1> QED
  BY <1>1, <1>5, BecomeKeeps DEF handle

\* What a walk of an A query is at.
LEMMA WalkState ==
  ASSUME Inv, NEW c \in Clients, Walking(c)
  PROVE  /\ query[c] \in Query
         /\ query[c].first = <<A, CNAME>>
         /\ query[c].name \in Names /\ query[c].at \in Names
         /\ query[c].chain \in Chains /\ query[c].i \in Nat
         /\ Len(query[c].chain) = query[c].i /\ query[c].i <= MaxDepth
         /\ Follows(query[c].first, query[c].name, query[c].chain)
         /\ query[c].at = Trail(query[c].name, query[c].chain)[query[c].i]
         /\ OnlyWay(query[c].first, query[c].name, query[c].i, query[c].at)
<1>1. query[c] \in Query /\ WalkOK(query[c]) /\ query[c].type = "A"
  BY DEF Inv, Shape, QueryOK, Walking
<1>2. query[c].chain \in Chains /\ query[c].i \in Nat
  BY <1>1 DEF Query
<1>3. query[c].at \in Names
  BY <1>1, <1>2, TrailNames DEF WalkOK
<1> QED
  BY <1>1, <1>2, <1>3 DEF WalkOK

LEMMA HitStep ==
  ASSUME ConstantsOK, Inv, NEW c \in Clients, WalkHit(c)
  PROVE  Inv'
<1> DEFINE old == query[c]
           reply == [from |-> "local", chain |-> old.chain, owner |-> old.name,
                     ip |-> To4(A[old.at])]
           q == [old EXCEPT !.pc = "done", !.reply = reply]
<1>1. Walking(c) /\ old.i < MaxDepth /\ A[old.at] # NoValue
  BY DEF WalkHit
<1>2. /\ old \in Query /\ old.first = <<A, CNAME>> /\ old.name \in Names /\ old.at \in Names
      /\ old.chain \in Chains /\ Len(old.chain) = old.i
      /\ Follows(old.first, old.name, old.chain)
      /\ old.at = Trail(old.name, old.chain)[old.i]
  BY <1>1, WalkState
<1>3. reply \in Reply
  <2>1. To4(A[old.at]) \in AnyIps \cup {NoValue}
    BY DEF To4, AnyIps
  <2> QED
    BY <1>2, <2>1 DEF Reply
<1>4. /\ q \in Query /\ q.pc = "done" /\ q.reply = reply
      /\ q.first = old.first /\ q.name = old.name /\ q.type = old.type
  BY <1>2, <1>3 DEF Query
<1>5. Resolves(old.first, old.name, MaxDepth - 1)
  BY <1>1, <1>2, HitResolves
<1>6. /\ reply.from = "local" /\ reply.chain = old.chain /\ reply.ip = To4(A[old.at])
  OBVIOUS
<1> HIDE DEF reply, q
<1>7. ReplyOK(q)
  BY <1>1, <1>2, <1>4, <1>5, <1>6 DEF ReplyOK
<1>8. QueryOK(q)
  BY <1>4, <1>7 DEF QueryOK
<1>9. Become(c, q)
  BY DEF WalkHit, Answered, q, reply
<1> QED
  BY <1>4, <1>8, <1>9, BecomeKeeps

LEMMA HopStep ==
  ASSUME ConstantsOK, Inv, NEW c \in Clients, WalkHop(c)
  PROVE  Inv'
<1> DEFINE old == query[c]
           next == CNAME[old.at]
           q == [old EXCEPT !.at = next, !.i = @ + 1, !.chain = Append(@, <<old.at, next>>)]
<1>1. Walking(c) /\ old.i < MaxDepth /\ A[old.at] = NoValue /\ next # NoValue
  BY DEF WalkHop
<1>2. /\ old \in Query /\ old.first = <<A, CNAME>> /\ old.name \in Names /\ old.at \in Names
      /\ old.chain \in Chains /\ old.i \in Nat /\ Len(old.chain) = old.i
      /\ Follows(old.first, old.name, old.chain)
      /\ old.at = Trail(old.name, old.chain)[old.i]
      /\ OnlyWay(old.first, old.name, old.i, old.at)
  BY <1>1, WalkState
<1>3. next \in Names /\ <<old.at, next>> \in Names \X Names
  BY <1>1, <1>2 DEF Inv, Shape, Maps
<1>4. old.first[1][old.at] = NoValue /\ old.first[2][old.at] = next
  BY <1>1, <1>2
<1> HIDE DEF next
<1>5. /\ q.pc = old.pc /\ q.type = old.type /\ q.name = old.name /\ q.first = old.first
      /\ q.at = next /\ q.i = old.i + 1 /\ q.chain = Append(old.chain, <<old.at, next>>)
  BY <1>2 DEF Query
<1>6. q.chain \in Chains /\ Len(q.chain) = q.i /\ Trail(old.name, q.chain)[q.i] = next
  <2>1. <<old.at, next>>[2] = next
    OBVIOUS
  <2> DEFINE hop == <<old.at, next>>
             longer == Append(old.chain, hop)
  <2>2. /\ Trail(old.name, longer)[Len(old.chain) + 1] = hop[2]
        /\ Len(longer) = Len(old.chain) + 1
        /\ longer \in Chains
    BY <1>2, <1>3, TrailGrows
  <2>3. q.chain = longer /\ q.i = Len(old.chain) + 1
    BY <1>2, <1>5
  <2> HIDE DEF longer, q
  <2> QED
    BY <2>1, <2>2, <2>3
<1>7. q \in Query
  <2> DEFINE longer == Append(old.chain, <<old.at, next>>)
  <2>1. longer \in Chains /\ old.i + 1 \in Nat
    BY <1>2, <1>5, <1>6
  <2>2. q = [old EXCEPT !.at = next, !.i = old.i + 1, !.chain = longer]
    BY <1>2 DEF Query
  <2> HIDE DEF longer, q
  <2> QED
    BY <1>2, <1>3, <2>1, <2>2 DEF Query
<1>8. Follows(q.first, q.name, q.chain)
  BY <1>2, <1>3, <1>4, <1>5, HopFollows
<1>9. OnlyWay(q.first, q.name, q.i, q.at)
  BY <1>2, <1>4, <1>5, HopOnlyWay
<1>10. q.i <= MaxDepth
  BY <1>1, <1>2, <1>5 DEF ConstantsOK
<1>11. Become(c, q)
  BY DEF WalkHop, next
<1> HIDE DEF q
<1>12. WalkOK(q)
  BY <1>2, <1>5, <1>6, <1>8, <1>9, <1>10 DEF WalkOK
<1>13. QueryOK(q)
  BY <1>1, <1>5, <1>12 DEF QueryOK, Walking
<1> QED
  BY <1>7, <1>11, <1>13, BecomeKeeps

LEMMA MissStep ==
  ASSUME ConstantsOK, Inv, NEW c \in Clients, WalkMiss(c)
  PROVE  Inv'
<1> DEFINE old == query[c]
           q == [old EXCEPT !.pc = "forward"]
<1>1. /\ old \in Query /\ old.first = <<A, CNAME>> /\ old.name \in Names
      /\ old.i \in Nat /\ OnlyWay(old.first, old.name, old.i, old.at)
  BY WalkState DEF WalkMiss
<1>2. old.i = MaxDepth \/ (old.first[1][old.at] = NoValue /\ old.first[2][old.at] = NoValue)
  BY <1>1 DEF WalkMiss
<1>3. ~Resolves(old.first, old.name, MaxDepth - 1)
  BY <1>1, <1>2, MissUnresolved
<1>4. /\ q \in Query /\ q.pc = "forward" /\ q.first = old.first /\ q.name = old.name
  BY <1>1 DEF Query
<1>5. QueryOK(q)
  BY <1>3, <1>4 DEF QueryOK
<1> QED
  BY <1>4, <1>5, BecomeKeeps DEF WalkMiss

LEMMA CNAMEStep ==
  ASSUME Inv, NEW c \in Clients, answerCNAME(c)
  PROVE  Inv'
<1> DEFINE old == query[c]
           n == old.name
           reply == [NoReply EXCEPT !.from = "local", !.chain = <<<<n, CNAME[n]>>>>]
<1>1. old \in Query /\ old.type = "CNAME" /\ n \in Names
  BY DEF answerCNAME, Inv, Shape, QueryOK, WalkOK
<1>2. CASE CNAME[n] # NoValue
  <2>1. CNAME[n] \in Names
    BY <1>1, <1>2 DEF Inv, Shape, Maps
  <2>2. <<<<n, CNAME[n]>>>> \in Chains
    BY <1>1, <2>1 DEF Chains
  <2>3. reply \in Reply
    BY <2>2, IdleShape DEF Reply
  <2> DEFINE q == [old EXCEPT !.pc = "done", !.reply = reply]
  <2> HIDE DEF reply
  <2>4. q \in Query /\ q.pc = "done" /\ q.type = "CNAME"
    BY <1>1, <2>3 DEF Query
  <2>5. Become(c, q)
    BY <1>2 DEF answerCNAME, Answered, reply
  <2> QED
    BY <2>4, <2>5, BecomeKeeps DEF QueryOK
<1>3. CASE CNAME[n] = NoValue
  <2> DEFINE q == [old EXCEPT !.pc = "forward"]
  <2>1. q \in Query /\ q.pc = "forward" /\ q.type = "CNAME"
    BY <1>1 DEF Query
  <2>2. Become(c, q)
    BY <1>3 DEF answerCNAME
  <2> QED
    BY <2>1, <2>2, BecomeKeeps DEF QueryOK
<1> QED
  BY <1>2, <1>3

LEMMA ForwardStep ==
  ASSUME Inv, NEW c \in Clients, forward(c)
  PROVE  Inv'
<1>1. PICK from \in {"upstream", "servfail"} : Answered(c, [NoReply EXCEPT !.from = from])
  BY DEF forward
<1> DEFINE old == query[c]
           reply == [NoReply EXCEPT !.from = from]
           q == [old EXCEPT !.pc = "done", !.reply = reply]
<1>2. old \in Query /\ QueryOK(old) /\ old.pc = "forward"
  BY DEF forward, Inv, Shape
<1>3. reply \in Reply /\ reply.from # "local"
  BY IdleShape DEF Reply
<1> HIDE DEF reply
<1>4. /\ q \in Query /\ q.pc = "done" /\ q.reply = reply /\ q.type = old.type
      /\ q.first = old.first /\ q.name = old.name
  BY <1>2, <1>3 DEF Query
<1>5. QueryOK(q)
  BY <1>2, <1>3, <1>4 DEF QueryOK, ReplyOK
<1>6. Become(c, q)
  BY <1>1 DEF Answered, reply
<1> QED
  BY <1>4, <1>5, <1>6, BecomeKeeps

LEMMA InvStep ==
  ASSUME ConstantsOK
  PROVE  Inv /\ [Next]_vars => Inv'
<1> SUFFICES ASSUME Inv, [Next]_vars PROVE Inv'
  OBVIOUS
<1>0. A \in [Names -> AnyIps \cup {NoValue}] /\ CNAME \in [Names -> Names \cup {NoValue}]
  BY DEF Inv, Shape, Maps
<1>1. ASSUME NEW n \in Names, NEW ip \in AnyIps, AddA(n, ip) PROVE Inv'
  BY <1>0, <1>1, RecordsKeep DEF AddA, Maps
<1>2. ASSUME NEW n \in Names, NEW target \in Names, AddCNAME(n, target) PROVE Inv'
  BY <1>0, <1>2, RecordsKeep DEF AddCNAME, Maps
<1>3. ASSUME NEW n \in Names, Remove(n) PROVE Inv'
  BY <1>0, <1>3, RecordsKeep DEF Remove, Maps
<1>4. ASSUME NEW c \in Clients, Step(c) PROVE Inv'
  BY <1>4, HitStep, HopStep, MissStep, CNAMEStep, ForwardStep, BecomeKeeps, IdleShape
  DEF Step, Return
<1>5. CASE UNCHANGED vars
  BY <1>5 DEF vars, Inv, Shape, QueryOK, WalkOK, ReplyOK
<1> QED
  BY <1>1, <1>2, <1>3, <1>4, <1>5, HandleStep DEF Next

LEMMA InvInit == Init => Inv
  BY IdleShape DEF Init, Inv, Shape, Maps

LEMMA Invariance ==
  ASSUME ConstantsOK
  PROVE  Spec => []Inv
  BY InvInit, InvStep, PTL DEF Spec

\* The trail and the address of a local answer are a path through the records of
\* one moment, whatever was added and removed while the query was handled.
THEOREM AnswersConsistent ==
  ASSUME ConstantsOK
  PROVE  Spec => []AnswerConsistent
<1>1. Inv => AnswerConsistent
  BY DEF Inv, QueryOK, ReplyOK, AnswerConsistent
<1> QED
  BY <1>1, Invariance, PTL

\* An A query goes upstream exactly when the records lead to no address in fewer
\* than MaxDepth hops: loops and chains that are too long included.
THEOREM UpstreamIffUnresolved ==
  ASSUME ConstantsOK
  PROVE  Spec => []ForwardedIffUnresolved
<1>1. Inv => ForwardedIffUnresolved
  BY DEF Inv, QueryOK, ReplyOK, ForwardedIffUnresolved
<1> QED
  BY <1>1, Invariance, PTL
=============================================================================
