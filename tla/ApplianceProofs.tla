---------------------------- MODULE ApplianceProofs ----------------------------
(***************************************************************************)
(* What the shutdown of the appliance guarantees, for any number of        *)
(* goroutines of the Admin API, requests and clients of the servers: what  *)
(* main has stopped stays stopped, unless it could not stop the API in     *)
(* time.                                                                   *)
(***************************************************************************)
EXTENDS Appliance, SequenceTheorems, TLAPS

\* main's calls, spelt out.
DaemonProgram ==
  << <<"start", "dns">>, <<"start", "http">>, <<"start", "ssh">>, <<"start", "api">>,
     <<"wait", "api">>,
     <<"stop", "api">>, <<"stop", "ssh">>, <<"stop", "http">>, <<"stop", "dns">> >>

ReplProgram ==
  << <<"wait", "api">>, <<"stop", "dns">>, <<"stop", "http">>, <<"stop", "ssh">> >>

LEMMA JoinedNine ==
  ASSUME NEW S, NEW r \in Seq(S), NEW v \in Seq(S), NEW u \in Seq(S),
         Len(r) = 4, Len(v) = 1, Len(u) = 4
  PROVE  r \o v \o u = <<r[1], r[2], r[3], r[4], v[1], u[1], u[2], u[3], u[4]>>
<1> DEFINE s == r \o v
           t == s \o u
           q == <<r[1], r[2], r[3], r[4], v[1], u[1], u[2], u[3], u[4]>>
<1>a. /\ s \in Seq(S) /\ Len(s) = Len(r) + Len(v)
      /\ \A k \in 1 .. Len(r) + Len(v) : s[k] = IF k <= Len(r) THEN r[k] ELSE v[k - Len(r)]
  BY ConcatProperties
<1> HIDE DEF s
<1>1. Len(s) = 5 /\ \A k \in 1 .. 5 : s[k] = IF k <= 4 THEN r[k] ELSE v[k - 4]
  BY <1>a
<1>d. s \in Seq(S)
  BY <1>a
<1>b. /\ t \in Seq(S) /\ Len(t) = Len(s) + Len(u)
      /\ \A k \in 1 .. Len(s) + Len(u) : t[k] = IF k <= Len(s) THEN s[k] ELSE u[k - Len(s)]
  BY <1>d, ConcatProperties
<1>c. /\ r[1] \in S /\ r[2] \in S /\ r[3] \in S /\ r[4] \in S /\ v[1] \in S
      /\ u[1] \in S /\ u[2] \in S /\ u[3] \in S /\ u[4] \in S
  <2>1. /\ \A k \in 1 .. Len(r) : r[k] \in S
        /\ \A k \in 1 .. Len(v) : v[k] \in S
        /\ \A k \in 1 .. Len(u) : u[k] \in S
    BY ElementOfSeq
  <2> QED
    BY <2>1
<1> HIDE DEF t
<1>2. Len(t) = 9 /\ \A k \in 1 .. 9 : t[k] = IF k <= 5 THEN s[k] ELSE u[k - 5]
  BY <1>1, <1>b
<1>3. /\ q \in Seq(S) /\ Len(q) = 9
      /\ q[1] = r[1] /\ q[2] = r[2] /\ q[3] = r[3] /\ q[4] = r[4] /\ q[5] = v[1]
      /\ q[6] = u[1] /\ q[7] = u[2] /\ q[8] = u[3] /\ q[9] = u[4]
  BY <1>c
<1> HIDE DEF q
<1>4. \A k \in 1 .. 9 : t[k] = q[k]
  BY <1>1, <1>2, <1>3
<1>5. t = q
  BY <1>b, <1>2, <1>3, <1>4, SeqEqual
<1> QED
  BY <1>5 DEF s, t, q

LEMMA JoinedFour ==
  ASSUME NEW S, NEW e \in S, NEW f \in S, NEW g \in S, NEW h \in S
  PROVE  << >> \o <<e>> \o <<f, g, h>> = <<e, f, g, h>>
<1> DEFINE t == <<e>> \o <<f, g, h>>
<1>1. /\ <<e>> \in Seq(S) /\ <<f, g, h>> \in Seq(S) /\ <<e, f, g, h>> \in Seq(S)
  OBVIOUS
<1>2. << >> \o <<e>> = <<e>>
  BY <1>1, ConcatEmptySeq
<1>3. /\ t \in Seq(S) /\ Len(t) = 4
      /\ t[1] = e /\ t[2] = f /\ t[3] = g /\ t[4] = h
  BY <1>1, ConcatProperties
<1> HIDE DEF t
<1>4. t = <<e, f, g, h>>
  BY <1>1, <1>3, SeqEqual
<1> QED
  BY <1>2, <1>4 DEF t

LEMMA ProgramIs ==
  ASSUME mode \in {"daemon", "repl"}
  PROVE  Program = IF mode = "daemon" THEN DaemonProgram ELSE ReplProgram
<1>1. CASE mode = "daemon"
  <2>1. /\ [i \in DOMAIN Startups |-> <<"start", Startups[i]>>]
             = << <<"start", "dns">>, <<"start", "http">>, <<"start", "ssh">>, <<"start", "api">> >>
        /\ [i \in DOMAIN Shutdowns |-> <<"stop", Shutdowns[i]>>]
             = << <<"stop", "api">>, <<"stop", "ssh">>, <<"stop", "http">>, <<"stop", "dns">> >>
    BY <1>1 DEF Startups, Shutdowns
  <2> DEFINE Step == {"start", "wait", "stop"} \X (Servers \cup {"api"})
  <2>2. /\ \A s \in {"dns", "http", "ssh", "api"} :
             <<"start", s>> \in Step /\ <<"stop", s>> \in Step
        /\ <<"wait", "api">> \in Step
    BY DEF Servers
  <2> HIDE DEF Step
  <2> DEFINE r == << <<"start", "dns">>, <<"start", "http">>, <<"start", "ssh">>, <<"start", "api">> >>
             v == << <<"wait", "api">> >>
             u == << <<"stop", "api">>, <<"stop", "ssh">>, <<"stop", "http">>, <<"stop", "dns">> >>
  <2>3. /\ r \in Seq(Step) /\ v \in Seq(Step) /\ u \in Seq(Step)
        /\ Len(r) = 4 /\ Len(v) = 1 /\ Len(u) = 4
    BY <2>2
  <2>4. DaemonProgram = <<r[1], r[2], r[3], r[4], v[1], u[1], u[2], u[3], u[4]>>
    BY DEF DaemonProgram
  <2>5. Program = r \o v \o u
    BY <1>1, <2>1 DEF Program
  <2> HIDE DEF r, v, u
  <2>6. r \o v \o u = DaemonProgram
    BY <2>3, <2>4, JoinedNine
  <2> QED
    BY <1>1, <2>5, <2>6
<1>2. CASE mode = "repl"
  <2>1. /\ [i \in DOMAIN Startups |-> <<"start", Startups[i]>>] = << >>
        /\ [i \in DOMAIN Shutdowns |-> <<"stop", Shutdowns[i]>>]
             = << <<"stop", "dns">>, <<"stop", "http">>, <<"stop", "ssh">> >>
    BY <1>2 DEF Startups, Shutdowns
  <2> DEFINE Step == {"start", "wait", "stop"} \X (Servers \cup {"api"})
  <2>2. /\ \A s \in {"dns", "http", "ssh"} : <<"stop", s>> \in Step
        /\ <<"wait", "api">> \in Step
    BY DEF Servers
  <2> HIDE DEF Step
  <2>3. << >> \o << <<"wait", "api">> >>
          \o << <<"stop", "dns">>, <<"stop", "http">>, <<"stop", "ssh">> >>
          = ReplProgram
    BY <2>2, JoinedFour DEF ReplProgram
  <2> QED
    BY <1>2, <2>1, <2>3 DEF Program
<1> QED
  BY <1>1, <1>2

\* The order of the calls, as far as the shutdown rests on it.
ProgramOrder ==
  /\ Program \in Seq({"start", "wait", "stop"} \X (Servers \cup {"api"}))
  /\ Len(Program) \in {4, 9}
  /\ Program[1][1] # "stop"
  /\ \A i, j \in 1 .. Len(Program) :
       i < j /\ Program[i][1] = "stop" => Program[j][1] = "stop" /\ Program[i] # Program[j]
  /\ \A i \in 1 .. Len(Program) :
       /\ mode = "repl" => Program[i][1] \in {"wait", "stop"}
       /\ mode = "repl" /\ Program[i][1] = "stop" => Program[i][2] # "api"
       /\ mode = "daemon" /\ Program[i][1] = "stop" /\ Program[i][2] # "api" =>
            \E j \in 1 .. i - 1 : Program[j] = <<"stop", "api">>
  /\ \A s \in Servers : \E i \in 1 .. Len(Program) : Program[i] = <<"stop", s>>

LEMMA ProgramOrdered == mode \in {"daemon", "repl"} => ProgramOrder
<1> SUFFICES ASSUME mode \in {"daemon", "repl"} PROVE ProgramOrder
  OBVIOUS
<1>1. CASE mode = "daemon"
  <2>1. Program = DaemonProgram
    BY <1>1, ProgramIs
  <2>2. Program \in Seq({"start", "wait", "stop"} \X (Servers \cup {"api"}))
    BY <2>1 DEF DaemonProgram, Servers
  <2>3. Len(Program) = 9
    BY <2>1 DEF DaemonProgram
  <2>4. /\ Program[1] = <<"start", "dns">> /\ Program[2] = <<"start", "http">>
        /\ Program[3] = <<"start", "ssh">> /\ Program[4] = <<"start", "api">>
        /\ Program[5] = <<"wait", "api">> /\ Program[6] = <<"stop", "api">>
        /\ Program[7] = <<"stop", "ssh">> /\ Program[8] = <<"stop", "http">>
        /\ Program[9] = <<"stop", "dns">>
    BY <2>1 DEF DaemonProgram
  <2>5. \A s \in Servers : \E i \in 1 .. Len(Program) : Program[i] = <<"stop", s>>
    BY <2>3, <2>4 DEF Servers
  <2>6. \A i, j \in 1 .. Len(Program) :
          i < j /\ Program[i][1] = "stop" => Program[j][1] = "stop" /\ Program[i] # Program[j]
    BY <2>3, <2>4
  <2>7. \A i \in 1 .. Len(Program) :
          Program[i][1] = "stop" /\ Program[i][2] # "api" =>
            \E j \in 1 .. i - 1 : Program[j] = <<"stop", "api">>
    BY <2>3, <2>4
  <2>8. Program[1][1] # "stop"
    BY <2>4
  <2> QED
    BY <1>1, <2>2, <2>3, <2>5, <2>6, <2>7, <2>8 DEF ProgramOrder
<1>2. CASE mode = "repl"
  <2>1. Program = ReplProgram
    BY <1>2, ProgramIs
  <2>2. Program \in Seq({"start", "wait", "stop"} \X (Servers \cup {"api"}))
    BY <2>1 DEF ReplProgram, Servers
  <2>3. Len(Program) = 4
    BY <2>1 DEF ReplProgram
  <2>4. /\ Program[1] = <<"wait", "api">> /\ Program[2] = <<"stop", "dns">>
        /\ Program[3] = <<"stop", "http">> /\ Program[4] = <<"stop", "ssh">>
    BY <2>1 DEF ReplProgram
  <2>5. \A s \in Servers : \E i \in 1 .. Len(Program) : Program[i] = <<"stop", s>>
    BY <2>3, <2>4 DEF Servers
  <2>6. \A i, j \in 1 .. Len(Program) :
          i < j /\ Program[i][1] = "stop" => Program[j][1] = "stop" /\ Program[i] # Program[j]
    BY <2>3, <2>4
  <2>7. \A i \in 1 .. Len(Program) :
          /\ Program[i][1] \in {"wait", "stop"}
          /\ Program[i][1] = "stop" => Program[i][2] # "api"
    BY <2>3, <2>4
  <2>8. Program[1][1] # "stop"
    BY <2>4
  <2> QED
    BY <1>2, <2>2, <2>3, <2>5, <2>6, <2>7, <2>8 DEF ProgramOrder
<1> QED
  BY <1>1, <1>2

LEMMA SameProgram ==
  ASSUME mode' = mode
  PROVE  Program' = Program
BY DEF Program, Startups, Shutdowns

LEMMA CallShape ==
  ASSUME NEW r \in Call
  PROVE  /\ [r EXCEPT !.at = "in"] \in Call
         /\ [r EXCEPT !.at = "in"].op = r.op /\ [r EXCEPT !.at = "in"].svc = r.svc
         /\ [r EXCEPT !.at = "in"].at = "in"
         /\ \A s \in Servers : /\ [r EXCEPT !.svc = s] \in Call
                               /\ [r EXCEPT !.svc = s].op = r.op
                               /\ [r EXCEPT !.svc = s].svc = s
                               /\ [r EXCEPT !.svc = s].at = r.at
         /\ Idle \in Call /\ Idle.at = "idle" /\ Idle.op = "none"
         /\ r.op \in {"none", "start", "stop", "status", "latency"}
         /\ r.svc \in Servers \cup {"api"}
         /\ r.at \in {"idle", "asked", "in"}
BY DEF Call, Idle, Servers

\* One caller has got from one stage of its call to the next.
Made(p) ==
  /\ call[p].at = "idle" /\ call'[p].at = "asked" /\ at' = at /\ Alive
  /\ call'[p].op \in {"start", "stop"} /\ call'[p].svc = "api" =>
       p = Main /\ Program[at][1] # "wait"
  /\ p = Main => IF Program[at][1] = "wait" THEN mode = "repl"
                 ELSE call'[p].op = Program[at][1] /\ call'[p].svc = Program[at][2]
  /\ p # Main => api = "serving"

Went(p) ==
  /\ call[p].at = "asked" /\ call'[p].at = "in" /\ at' = at
  /\ call'[p].op = call[p].op /\ call'[p].svc = call[p].svc
  /\ \/ call[p].op \in {"start", "stop"} /\ call[p].svc \in {"dns", "http"}
     \/ call[p].op = "stop" /\ call[p].svc = "api"

Continued(p) ==
  /\ call[p].at = "asked" /\ call'[p].at = "asked" /\ at' = at
  /\ call[p].op = "status" /\ call'[p].op = "status" /\ call'[p].svc \in Servers

Over(p) == call[p].at # "idle" /\ Returns(p)

Moved(p) ==
  /\ call' \in [Callers -> Call]
  /\ \A q \in Callers \ {p} : call'[q] = call[q]
  /\ Made(p) \/ Went(p) \/ Continued(p) \/ Over(p)

LEMMA AskedMoves ==
  ASSUME TypeOK, NEW p \in Callers, NEW op \in {"start", "stop", "status", "latency"},
         NEW s \in Servers \cup {"api"}, Ask(p, op, s)
  PROVE  /\ call' \in [Callers -> Call]
         /\ \A q \in Callers \ {p} : call'[q] = call[q]
         /\ call[p].at = "idle" /\ call'[p].at = "asked"
         /\ call'[p].op = op /\ call'[p].svc = s
<1> DEFINE r == [op |-> op, svc |-> s, at |-> "asked"]
<1>1. r \in Call /\ r.op = op /\ r.svc = s /\ r.at = "asked"
  BY DEF Call
<1>2. call \in [Callers -> Call] /\ call' = [call EXCEPT ![p] = r] /\ call[p].at = "idle"
  BY DEF TypeOK, Ask
<1> HIDE DEF r
<1> QED
  BY <1>1, <1>2

LEMMA GoneMoves ==
  ASSUME TypeOK, NEW p \in Callers, Becomes(p, "in"), at' = at,
         call[p].at = "asked",
         \/ call[p].op \in {"start", "stop"} /\ call[p].svc \in {"dns", "http"}
         \/ call[p].op = "stop" /\ call[p].svc = "api"
  PROVE  Moved(p)
<1> DEFINE r == [call[p] EXCEPT !.at = "in"]
<1>1. call \in [Callers -> Call] /\ call[p] \in Call
  BY DEF TypeOK
<1>2. r \in Call /\ r.op = call[p].op /\ r.svc = call[p].svc /\ r.at = "in"
  BY <1>1, CallShape
<1>3. call' = [call EXCEPT ![p] = r]
  BY DEF Becomes
<1> HIDE DEF r
<1> QED
  BY <1>1, <1>2, <1>3 DEF Moved, Went

LEMMA OverMoves ==
  ASSUME TypeOK, NEW p \in Callers, Returns(p), call[p].at # "idle"
  PROVE  Moved(p) /\ Over(p)
<1>1. call \in [Callers -> Call] /\ call[p] \in Call
  BY DEF TypeOK
<1>2. Idle \in Call
  BY <1>1, CallShape
<1>3. call' = [call EXCEPT ![p] = Idle]
  BY DEF Returns
<1> QED
  BY <1>1, <1>2, <1>3 DEF Moved, Over

\* main waits no more.
Signalled ==
  /\ Alive /\ call' = call /\ at' = at + 1
  /\ call[Main].at = "idle" /\ Program[at][1] = "wait"

StepShape ==
  /\ mode' = mode
  /\ \/ UNCHANGED <<call, at>>
     \/ Signalled
     \/ \E p \in Callers : Moved(p)

LEMMA CallerSteps ==
  ASSUME TypeOK, NEW p \in Callers, Enter(p) \/ Leave(p) \/ LatencyDone(p)
  PROVE  mode' = mode /\ Moved(p)
<1>1. CASE Refuse(p)
  BY <1>1, OverMoves DEF Refuse, Asked
<1>2. CASE StatusStep(p)
  <2>1. PICK s \in {"dns", "http"} :
          /\ Asked(p, "status", s)
          /\ call' = [call EXCEPT ![p].svc = IF s = "dns" THEN "http" ELSE "ssh"]
    BY <1>2 DEF StatusStep
  <2> DEFINE to == IF s = "dns" THEN "http" ELSE "ssh"
             r == [call[p] EXCEPT !.svc = to]
  <2>2. call \in [Callers -> Call] /\ call[p] \in Call /\ to \in Servers
    BY DEF TypeOK, Servers
  <2>3. call' = [call EXCEPT ![p] = r]
    BY <2>1
  <2> HIDE DEF to
  <2>4. r \in Call /\ r.op = call[p].op /\ r.svc = to /\ r.at = call[p].at
    BY <2>2 DEF Call, Servers
  <2> HIDE DEF r
  <2> QED
    BY <1>2, <2>1, <2>2, <2>3, <2>4 DEF Moved, Continued, StatusStep, Asked
<1>3. CASE StatusDone(p)
  BY <1>3, OverMoves DEF StatusDone, Asked
<1>4. CASE StartBegins(p)
  <2>1. /\ call[p].at = "asked" /\ call[p].op = "start" /\ call[p].svc \in {"dns", "http"}
        /\ Becomes(p, "in") /\ at' = at /\ mode' = mode
    BY <1>4 DEF StartBegins, Asked
  <2> QED
    BY <2>1, GoneMoves
<1>5. CASE StopBegins(p)
  <2>1. /\ call[p].at = "asked" /\ call[p].op = "stop" /\ call[p].svc \in {"dns", "http"}
        /\ Becomes(p, "in") /\ at' = at /\ mode' = mode
    BY <1>5 DEF StopBegins, Asked
  <2> QED
    BY <2>1, GoneMoves
<1>6. CASE CallSsh(p)
  BY <1>6, OverMoves DEF CallSsh, Asked
<1>7. CASE StartEnds(p)
  BY <1>7, OverMoves DEF StartEnds, Within
<1>8. CASE StopEnds(p)
  BY <1>8, OverMoves DEF StopEnds, Within
<1>9. CASE StopTimesOut(p)
  BY <1>9, OverMoves DEF StopTimesOut, Within
<1>10. CASE LatencyDone(p)
  BY <1>10, OverMoves DEF LatencyDone, Asked
<1> QED
  BY <1>1, <1>2, <1>3, <1>4, <1>5, <1>6, <1>7, <1>8, <1>9, <1>10 DEF Enter, Leave

LEMMA StepShapes ==
  ASSUME TypeOK, ApiInv, [Next]_vars
  PROVE  StepShape
<1>0. Main \in Callers /\ Handlers \subseteq Callers /\ Main \notin Handlers
  BY ConstantsAssumption DEF Callers
<1>p. /\ Program \in Seq({"start", "wait", "stop"} \X (Servers \cup {"api"}))
      /\ mode \in {"daemon", "repl"} /\ at \in 1 .. Len(Program) + 1
  BY ProgramOrdered DEF TypeOK, ProgramOrder
<1>1. ASSUME NEW h \in Handlers, Request(h) PROVE StepShape
  <2>1. PICK op \in {"start", "stop", "status", "latency"}, s \in Servers \cup {"api"} :
          Ask(h, op, s) /\ (op \in {"start", "stop"} => s \in Servers)
    BY <1>1 DEF Request, Order, Servers
  <2>2. /\ call' \in [Callers -> Call]
        /\ \A q \in Callers \ {h} : call'[q] = call[q]
        /\ call[h].at = "idle" /\ call'[h].at = "asked"
        /\ call'[h].op = op /\ call'[h].svc = s
    BY <1>0, <2>1, AskedMoves
  <2>3. mode' = mode /\ at' = at /\ Alive /\ api = "serving" /\ "api" \notin Servers
    BY <1>1 DEF Request, Order, Servers
  <2> QED
    BY <1>0, <2>1, <2>2, <2>3 DEF StepShape, Moved, Made
<1>2. CASE Command
  <2>1. PICK op \in {"start", "stop", "status", "latency"}, s \in Servers \cup {"api"} :
          Ask(Main, op, s) /\ (op \in {"start", "stop"} => s \in Servers)
    BY <1>2 DEF Command, Order, Servers
  <2>2. /\ call' \in [Callers -> Call]
        /\ \A q \in Callers \ {Main} : call'[q] = call[q]
        /\ call[Main].at = "idle" /\ call'[Main].at = "asked"
        /\ call'[Main].op = op /\ call'[Main].svc = s
    BY <1>0, <2>1, AskedMoves
  <2>3. /\ mode' = mode /\ at' = at /\ Alive /\ mode = "repl" /\ Program[at][1] = "wait"
        /\ "api" \notin Servers
    BY <1>2 DEF Command, Order, Servers
  <2> QED
    BY <1>0, <2>1, <2>2, <2>3 DEF StepShape, Moved, Made
<1>3. CASE MainAsk
  <2>1. Alive /\ Program[at][1] # "wait" /\ mode' = mode /\ at' = at
    BY <1>3 DEF MainAsk
  <2>2. at \in 1 .. Len(Program)
    BY <1>p, <2>1 DEF Alive
  <2>3. Program[at] \in {"start", "wait", "stop"} \X (Servers \cup {"api"})
    BY <1>p, <2>2, ElementOfSeq
  <2>4. /\ Program[at][1] \in {"start", "stop", "status", "latency"}
        /\ Program[at][2] \in Servers \cup {"api"}
    BY <2>1, <2>3
  <2>5. Ask(Main, Program[at][1], Program[at][2])
    BY <1>3 DEF MainAsk
  <2>6. /\ call' \in [Callers -> Call]
        /\ \A q \in Callers \ {Main} : call'[q] = call[q]
        /\ call[Main].at = "idle" /\ call'[Main].at = "asked"
        /\ call'[Main].op = Program[at][1] /\ call'[Main].svc = Program[at][2]
    BY <1>0, <2>4, <2>5, AskedMoves
  <2> QED
    BY <1>0, <2>1, <2>6 DEF StepShape, Moved, Made
<1>4. CASE Signal
  BY <1>4 DEF Signal, StepShape, Signalled
<1>5. ASSUME NEW p \in Callers, Enter(p) \/ Leave(p) \/ LatencyDone(p) PROVE StepShape
  BY <1>5, CallerSteps DEF StepShape
<1>6. CASE ApiStart
  <2>1. call[Main].at # "idle" /\ Returns(Main) /\ mode' = mode
    BY <1>6 DEF ApiStart, Asked
  <2> QED
    BY <1>0, <2>1, OverMoves DEF StepShape
<1>7. CASE ApiBind
  BY <1>7 DEF ApiBind, StepShape
<1>8. CASE ApiShutdown
  <2>1. /\ call[Main].at = "asked" /\ call[Main].op = "stop" /\ call[Main].svc = "api"
        /\ Becomes(Main, "in") /\ at' = at /\ mode' = mode
    BY <1>8 DEF ApiShutdown, Asked
  <2> QED
    BY <1>0, <2>1, GoneMoves DEF StepShape
<1>9. CASE ApiDrained
  <2>1. call[Main].at # "idle" /\ Returns(Main) /\ mode' = mode
    BY <1>9 DEF ApiDrained, ApiInv
  <2> QED
    BY <1>0, <2>1, OverMoves DEF StepShape
<1>10. CASE ApiTimeout
  <2>1. call[Main].at # "idle" /\ Returns(Main) /\ mode' = mode
    BY <1>10 DEF ApiTimeout, ApiInv
  <2> QED
    BY <1>0, <2>1, OverMoves DEF StepShape
<1>11. CASE DnsReceive \/ DnsAnswer \/ HttpReceive \/ HttpAnswer
  BY <1>11 DEF DnsReceive, DnsAnswer, HttpReceive, HttpAnswer, StepShape, callVars
<1>12. CASE Ended \/ UNCHANGED vars
  BY <1>12 DEF Ended, vars, callVars, StepShape
<1> QED
  BY <1>1, <1>2, <1>3, <1>4, <1>5, <1>6, <1>7, <1>8, <1>9, <1>10, <1>11, <1>12
  DEF Next, ApiStep

LEMMA Progress ==
  ASSUME TypeOK, MainInv, StepShape
  PROVE  /\ Program' = Program
         /\ at' = at \/ (at' = at + 1 /\ Alive)
<1>1. Program' = Program
  BY SameProgram DEF StepShape
<1>2. ASSUME NEW p \in Callers, Over(p) PROVE at' = at \/ (at' = at + 1 /\ Alive)
  BY <1>2 DEF Over, Returns, MainInv
<1> QED
  BY <1>1, <1>2 DEF StepShape, Signalled, Moved, Made, Went, Continued

\* The part of TypeOK that does not depend on who calls what.
ServersTyped ==
  /\ calls \in 0 .. MaxCalls
  /\ late \subseteq Servers \cup {"api"}
  /\ api \in {"down", "spawned", "serving", "failed", "closing", "closed"}
  /\ dnsRunning \in BOOLEAN /\ dnsActive \in BOOLEAN /\ dnsQueries \subseteq Conns
  /\ httpRunning \in BOOLEAN /\ httpActive \in BOOLEAN /\ httpRequests \subseteq Conns
  /\ sshRunning \in BOOLEAN /\ sshActive \in BOOLEAN /\ sshConns = {}

LEMMA ServersTypeStep ==
  ASSUME ServersTyped, [Next]_vars
  PROVE  ServersTyped'
<1> USE DEF ServersTyped, serverVars, dnsVars, httpVars, sshVars, callVars
<1>1. ASSUME NEW p, Order(p) PROVE ServersTyped'
  BY <1>1, ConstantsAssumption DEF Order
<1>2. CASE MainAsk \/ Signal
  BY <1>2 DEF MainAsk, Signal
<1>3. ASSUME NEW p, Refuse(p) \/ StatusStep(p) \/ StatusDone(p) \/ StartBegins(p) \/ LatencyDone(p)
      PROVE  ServersTyped'
  BY <1>3 DEF Refuse, StatusStep, StatusDone, StartBegins, LatencyDone
<1>4. ASSUME NEW p, StopBegins(p) PROVE ServersTyped'
  BY <1>4 DEF StopBegins, Dns!Close, Http!Close
<1>5. ASSUME NEW p, CallSsh(p) PROVE ServersTyped'
  BY <1>5 DEF CallSsh, Ssh!Start, Ssh!Stop
<1>6. ASSUME NEW p, StartEnds(p) PROVE ServersTyped'
  BY <1>6 DEF StartEnds, Dns!Start, Http!Start
<1>7. ASSUME NEW p, StopEnds(p) PROVE ServersTyped'
  BY <1>7 DEF StopEnds, Dns!Stop, Http!Stop
<1>8. ASSUME NEW p, StopTimesOut(p) PROVE ServersTyped'
  BY <1>8 DEF StopTimesOut, Servers
<1>9. CASE ApiStep
  BY <1>9 DEF ApiStep, ApiStart, ApiBind, ApiShutdown, ApiDrained, ApiTimeout
<1>10. CASE DnsReceive \/ DnsAnswer
  BY <1>10 DEF DnsReceive, DnsAnswer, Dns!Admit
<1>11. CASE HttpReceive \/ HttpAnswer
  BY <1>11 DEF HttpReceive, HttpAnswer, Http!Admit
<1>12. CASE Ended \/ UNCHANGED vars
  BY <1>12 DEF Ended, vars
<1> QED
  BY <1>1, <1>2, <1>3, <1>4, <1>5, <1>6, <1>7, <1>8, <1>9, <1>10, <1>11, <1>12
  DEF Next, Request, Command, Enter, Leave

LEMMA TypeStep ==
  ASSUME TypeOK, MainInv, StepShape, [Next]_vars
  PROVE  TypeOK'
<1>1. call' \in [Callers -> Call] /\ mode' \in {"daemon", "repl"} /\ Program' = Program
  BY SameProgram DEF TypeOK, StepShape, Signalled, Moved
<1>2. at' \in 1 .. Len(Program) + 1
  <2>1. at \in 1 .. Len(Program) + 1 /\ Len(Program) \in Nat
    BY ProgramOrdered DEF TypeOK, ProgramOrder
  <2>2. at' = at \/ (at' = at + 1 /\ at <= Len(Program))
    BY Progress DEF Alive
  <2> QED
    BY <2>1, <2>2
<1>3. ServersTyped'
  BY ServersTypeStep DEF TypeOK, ServersTyped
<1> QED
  BY <1>1, <1>2, <1>3 DEF TypeOK, ServersTyped

LEMMA CallsStep ==
  ASSUME TypeOK, CallsInv, MainInv, StepShape
  PROVE  CallsInv' /\ MainInv'
<1>0. Main \in Callers /\ Handlers \subseteq Callers /\ Main \notin Handlers
  BY ConstantsAssumption DEF Callers
<1>1. Program' = Program /\ mode' = mode
  BY Progress DEF StepShape
<1>2. CASE UNCHANGED <<call, at>>
  BY <1>1, <1>2 DEF CallsInv, MainInv, Alive
<1>3. CASE Signalled
  <2>1. call[Main] = Idle /\ call' = call
    BY <1>0, <1>3 DEF CallsInv, Signalled
  <2>2. CallsInv'
    BY <1>0, <1>1, <2>1 DEF CallsInv, Idle
  <2> QED
    BY <1>3, <2>1, <2>2 DEF MainInv, Signalled
<1>4. ASSUME NEW p \in Callers, Moved(p) PROVE CallsInv' /\ MainInv'
  <2>1. \A q \in Callers \ {p} : call'[q] = call[q]
    BY <1>4 DEF Moved
  <2>2. at' # at => p = Main /\ call'[p] = Idle
    <3>1. ASSUME Over(p) PROVE at' # at => p = Main /\ call'[p] = Idle
      BY <3>1 DEF Over, Returns, TypeOK
    <3> QED
      BY <1>4, <3>1 DEF Moved, Made, Went, Continued
  <2>3. /\ call'[p].at = "idle" => call'[p] = Idle
        /\ call'[p].at = "in" =>
             \/ call'[p].op \in {"start", "stop"} /\ call'[p].svc \in {"dns", "http"}
             \/ call'[p].op = "stop" /\ call'[p].svc = "api"
        /\ call'[p].op \in {"start", "stop"} /\ call'[p].svc = "api" =>
             p = Main /\ Program[at][1] # "wait"
    <3>1. CASE Made(p)
      BY <3>1 DEF Made
    <3>2. CASE Went(p)
      BY <3>2 DEF Went, CallsInv
    <3>3. CASE Continued(p)
      BY <3>3 DEF Continued
    <3>4. CASE Over(p)
      <4>1. call'[p] = Idle
        BY <3>4 DEF Over, Returns, TypeOK
      <4> QED
        BY <4>1 DEF Idle
    <3> QED
      BY <1>4, <3>1, <3>2, <3>3, <3>4 DEF Moved
  <2>4. CallsInv'
    <3>1. ASSUME NEW q \in Callers
          PROVE  /\ call'[q].at = "idle" => call'[q] = Idle
                 /\ call'[q].at = "in" =>
                      \/ call'[q].op \in {"start", "stop"} /\ call'[q].svc \in {"dns", "http"}
                      \/ call'[q].op = "stop" /\ call'[q].svc = "api"
                 /\ call'[q].op \in {"start", "stop"} /\ call'[q].svc = "api" =>
                      q = Main /\ Program[at'][1] # "wait"
      <4>1. CASE q = p
        BY <2>2, <2>3, <4>1 DEF Idle
      <4>2. CASE q # p
        <5>1. call'[q] = call[q]
          BY <2>1, <4>2
        <5>2. q = Main => at' = at
          BY <2>2, <4>2
        <5> QED
          BY <5>1, <5>2 DEF CallsInv
      <4> QED
        BY <4>1, <4>2
    <3> QED
      BY <1>1, <3>1 DEF CallsInv
  <2>5. MainInv'
    <3>1. CASE p # Main
      BY <1>0, <1>1, <2>1, <2>2, <3>1 DEF MainInv, Alive
    <3>2. CASE p = Main
      <4>1. CASE Made(p)
        BY <1>1, <3>2, <4>1 DEF Made, MainInv, Alive
      <4>2. CASE Went(p)
        BY <1>1, <3>2, <4>2 DEF Went, MainInv, Alive
      <4>3. CASE Continued(p)
        <5>1. /\ call[Main].at # "idle" /\ call[Main].op = "status" /\ call'[Main].at = "asked"
              /\ at' = at
          BY <3>2, <4>3 DEF Continued
        <5>2. Alive /\ Program[at][1] = "wait" /\ mode = "repl"
          <6>1. at \in 1 .. Len(Program)
            BY <5>1, ProgramOrdered DEF MainInv, Alive, TypeOK, ProgramOrder
          <6>2. Program[at][1] \in {"start", "wait", "stop"}
            BY <6>1, ElementOfSeq, ProgramOrdered DEF TypeOK, ProgramOrder
          <6> QED
            BY <5>1, <6>2 DEF MainInv
        <5> QED
          BY <1>1, <5>1, <5>2 DEF MainInv, Alive
      <4>4. CASE Over(p)
        <5>1. call'[Main] = Idle
          BY <3>2, <4>4 DEF Over, Returns, TypeOK
        <5> QED
          BY <5>1 DEF Idle, MainInv
      <4> QED
        BY <1>4, <4>1, <4>2, <4>3, <4>4 DEF Moved
    <3> QED
      BY <3>1, <3>2
  <2> QED
    BY <2>4, <2>5
<1> QED
  BY <1>2, <1>3, <1>4 DEF StepShape

\* What main has stopped grows by what its call stops, when that is over.
LEMMA StoppedGrows ==
  ASSUME TypeOK, Program' = Program
  PROVE  /\ at' = at => Stopped' = Stopped
         /\ at' = at + 1 =>
              Stopped' = Stopped \cup
                (IF Program[at][1] = "stop" THEN {Program[at][2]} ELSE {})
<1>1. at \in Nat \ {0}
  <2>1. Len(Program) \in Nat
    BY ProgramOrdered DEF TypeOK, ProgramOrder
  <2> QED
    BY <2>1 DEF TypeOK
<1>2. at' = at => Stopped' = Stopped
  BY DEF Stopped
<1>3. ASSUME at' = at + 1
      PROVE  Stopped' = Stopped \cup
               (IF Program[at][1] = "stop" THEN {Program[at][2]} ELSE {})
  <2>1. 1 .. at' - 1 = (1 .. at - 1) \cup {at}
    BY <1>1, <1>3
  <2>2. {j \in 1 .. at' - 1 : Program[j][1] = "stop"}
          = {j \in 1 .. at - 1 : Program[j][1] = "stop"}
              \cup (IF Program[at][1] = "stop" THEN {at} ELSE {})
    BY <2>1
  <2> QED
    BY <2>2 DEF Stopped
<1> QED
  BY <1>2, <1>3

\* Once main has begun to stop, it goes on stopping, and stops nothing twice; a
\* daemon begins with the API.
LEMMA StoppedFirst ==
  ASSUME TypeOK
  PROVE  /\ Alive /\ Stopped # {} => Program[at][1] = "stop"
         /\ Alive /\ Program[at][1] = "stop" => Program[at][2] \notin Stopped
         /\ mode = "daemon" /\ Stopped # {} => "api" \in Stopped
         /\ ~Alive => Servers \subseteq Stopped
<1>a. ProgramOrder /\ at \in 1 .. Len(Program) + 1 /\ mode \in {"daemon", "repl"}
  BY ProgramOrdered DEF TypeOK
<1>b. Len(Program) \in Nat
  BY <1>a DEF ProgramOrder
<1>0. ProgramOrder /\ at \in 1 .. Len(Program) + 1 /\ mode \in {"daemon", "repl"}
      /\ Len(Program) \in Nat
  BY <1>a, <1>b
<1>1. \A s \in Stopped : \E i \in 1 .. at - 1 : Program[i][1] = "stop" /\ Program[i][2] = s
  BY DEF Stopped
<1>2. \A i \in 1 .. at - 1 : i \in 1 .. Len(Program) /\ i < at
  BY <1>0
<1>3. Alive => at \in 1 .. Len(Program)
  BY <1>0 DEF Alive
<1>4. \A i \in 1 .. Len(Program) : Program[i] = <<Program[i][1], Program[i][2]>>
  BY <1>0, ElementOfSeq DEF ProgramOrder
<1>5. Alive /\ Stopped # {} => Program[at][1] = "stop"
  BY <1>0, <1>1, <1>2, <1>3 DEF ProgramOrder
<1>6. ASSUME Alive, Program[at][1] = "stop", Program[at][2] \in Stopped PROVE FALSE
  <2>1. PICK i \in 1 .. at - 1 : Program[i][1] = "stop" /\ Program[i][2] = Program[at][2]
    BY <1>1, <1>6
  <2>2. i \in 1 .. Len(Program) /\ i < at /\ at \in 1 .. Len(Program)
    BY <1>2, <1>3, <1>6
  <2>3. Program[i] = Program[at]
    BY <1>4, <1>6, <2>1, <2>2
  <2> QED
    BY <1>0, <2>1, <2>2, <2>3 DEF ProgramOrder
<1>7. ASSUME mode = "daemon", Stopped # {} PROVE "api" \in Stopped
  <2>1. PICK i \in 1 .. at - 1 : Program[i][1] = "stop"
    BY <1>1, <1>7
  <2>2. CASE Program[i][2] = "api"
    BY <2>1, <2>2 DEF Stopped
  <2>3. CASE Program[i][2] # "api"
    <3>1. PICK j \in 1 .. i - 1 : Program[j] = <<"stop", "api">>
      BY <1>0, <1>2, <1>7, <2>1, <2>3 DEF ProgramOrder
    <3>2. j \in 1 .. at - 1 /\ Program[j][1] = "stop" /\ Program[j][2] = "api"
      BY <1>0, <3>1
    <3> QED
      BY <3>2 DEF Stopped
  <2> QED
    BY <2>2, <2>3
<1>8. ASSUME ~Alive, NEW s \in Servers PROVE s \in Stopped
  <2>1. at - 1 = Len(Program)
    BY <1>0, <1>8 DEF Alive
  <2>2. PICK i \in 1 .. Len(Program) : Program[i] = <<"stop", s>>
    BY <1>0 DEF ProgramOrder
  <2>3. i \in 1 .. at - 1 /\ Program[i][1] = "stop" /\ Program[i][2] = s
    BY <2>1, <2>2
  <2> QED
    BY <2>3 DEF Stopped
<1> QED
  BY <1>5, <1>6, <1>7, <1>8

\* Only main starts and stops the API; nobody else's step changes it.
LEMMA CallersSpareApi ==
  ASSUME TypeOK, CallsInv, NEW p \in Callers, Enter(p) \/ Leave(p) \/ LatencyDone(p)
  PROVE  /\ api' = api
         /\ ~(call[p].op \in {"start", "stop"} /\ call[p].svc = "api")
         /\ call'[p].at = "in" => call'[p].svc # "api"
<1>1. call \in [Callers -> Call] /\ call[p] \in Call
  BY DEF TypeOK
<1>2. CASE Refuse(p) \/ StatusDone(p) \/ CallSsh(p) \/ LatencyDone(p)
  <2>1. /\ api' = api /\ Returns(p)
        /\ ~(call[p].op \in {"start", "stop"} /\ call[p].svc = "api")
    BY <1>2 DEF Refuse, StatusDone, CallSsh, LatencyDone, Asked, Servers
  <2> QED
    BY <1>1, <2>1 DEF Returns, Idle
<1>3. CASE StatusStep(p)
  <2>1. /\ api' = api /\ call[p].op = "status" /\ call[p].at = "asked"
        /\ \E x \in Servers : call' = [call EXCEPT ![p].svc = x]
    BY <1>3 DEF StatusStep, Asked, Servers
  <2> QED
    BY <1>1, <2>1 DEF Call, Servers
<1>4. CASE StartBegins(p) \/ StopBegins(p)
  <2>1. /\ api' = api /\ call[p].svc \in {"dns", "http"}
        /\ call' = [call EXCEPT ![p].at = "in"]
    BY <1>4 DEF StartBegins, StopBegins, Asked, Becomes
  <2> QED
    BY <1>1, <2>1 DEF Call
<1>5. CASE Leave(p)
  <2>1. /\ api' = api /\ Returns(p) /\ call[p].at = "in"
        /\ ~(call[p].op = "stop" /\ call[p].svc = "api")
    BY <1>5 DEF Leave, StartEnds, StopEnds, StopTimesOut, Within
  <2> QED
    BY <1>1, <2>1 DEF Returns, Idle, CallsInv
<1> QED
  BY <1>2, <1>3, <1>4, <1>5 DEF Enter

\* Main is inside the Stop of the API.
InApi == call[Main].at = "in" /\ call[Main].svc = "api"

LEMMA ApiKept ==
  ASSUME TypeOK, ApiInv, Program' = Program, mode' = mode, api' = api, InApi' <=> InApi,
         \/ at' = at
         \/ at' = at + 1 /\ ~(Program[at][1] = "stop" /\ Program[at][2] = "api")
  PROVE  ApiInv'
<1>1. "api" \in Stopped' => "api" \in Stopped
  BY StoppedGrows
<1> QED
  BY <1>1 DEF ApiInv, InApi

LEMMA CallersKeepApi ==
  ASSUME TypeOK, CallsInv, MainInv, ApiInv,
         NEW p \in Callers, Enter(p) \/ Leave(p) \/ LatencyDone(p)
  PROVE  ApiInv'
<1>1. mode' = mode /\ Moved(p) /\ Main \in Callers
  BY CallerSteps DEF Callers
<1>2. Program' = Program
  BY <1>1, SameProgram
<1>3. /\ api' = api
      /\ ~(call[p].op \in {"start", "stop"} /\ call[p].svc = "api")
      /\ call'[p].at = "in" => call'[p].svc # "api"
  BY CallersSpareApi
<1>4. CASE p # Main
  <2>1. call'[Main] = call[Main] /\ at' = at
    BY <1>1, <1>4 DEF Moved, Made, Went, Continued, Over, Returns
  <2> QED
    BY <1>1, <1>2, <1>3, <2>1, ApiKept DEF InApi
<1>5. CASE p = Main
  <2>1. ~InApi
    BY <1>1, <1>3, <1>5 DEF InApi, CallsInv
  <2>2. ~InApi'
    BY <1>3, <1>5 DEF InApi
  <2>3. \/ at' = at
        \/ at' = at + 1 /\ ~(Program[at][1] = "stop" /\ Program[at][2] = "api")
    BY <1>1, <1>3, <1>5 DEF Moved, Made, Went, Continued, Over, Returns, MainInv
  <2> QED
    BY <1>1, <1>2, <1>3, <2>1, <2>2, <2>3, ApiKept
<1> QED
  BY <1>4, <1>5

\* main's calls of the API, and what becomes of them.
LEMMA ApiCalls ==
  ASSUME TypeOK, CallsInv, MainInv, call[Main].at # "idle", call[Main].svc = "api",
         call[Main].op \in {"start", "stop"}
  PROVE  /\ mode = "daemon" /\ Alive
         /\ Program[at][1] = call[Main].op /\ Program[at][2] = "api"
         /\ "api" \notin Stopped
<1>1. Main \in Callers
  BY DEF Callers
<1>2. Alive /\ Program[at][1] = call[Main].op /\ Program[at][2] = "api"
  BY <1>1 DEF CallsInv, MainInv
<1>3. ProgramOrder /\ at \in 1 .. Len(Program) + 1 /\ mode \in {"daemon", "repl"}
  BY ProgramOrdered DEF TypeOK
<1>4. at \in 1 .. Len(Program)
  BY <1>2, <1>3 DEF Alive, ProgramOrder
<1>5. mode = "daemon"
  BY <1>2, <1>3, <1>4 DEF ProgramOrder
<1>6. "api" \notin Stopped
  <2>1. CASE Program[at][1] = "stop"
    BY <1>2, <2>1, StoppedFirst
  <2>2. CASE Program[at][1] # "stop"
    BY <1>2, <2>2, StoppedFirst
  <2> QED
    BY <2>1, <2>2
<1> QED
  BY <1>2, <1>5, <1>6

LEMMA ApiStepInv ==
  ASSUME TypeOK, CallsInv, MainInv, ApiInv, StepShape, [Next]_vars
  PROVE  ApiInv'
<1>0. Main \in Callers /\ Handlers \subseteq Callers /\ Main \notin Handlers
      /\ call \in [Callers -> Call]
  BY ConstantsAssumption DEF Callers, TypeOK
<1>p. Program' = Program /\ mode' = mode
  BY Progress DEF StepShape
<1>1. ASSUME NEW h \in Handlers, Request(h) PROVE ApiInv'
  <2>1. api' = api /\ at' = at /\ call'[Main] = call[Main]
    BY <1>0, <1>1 DEF Request, Order, Ask
  <2> QED
    BY <1>p, <2>1, ApiKept DEF InApi
<1>2. CASE Command \/ MainAsk
  <2>1. /\ api' = api /\ at' = at /\ call[Main].at = "idle" /\ call'[Main].at = "asked"
    BY <1>0, <1>2 DEF Command, MainAsk, Order, Ask
  <2> QED
    BY <1>p, <2>1, ApiKept DEF InApi
<1>3. CASE Signal
  BY <1>3, <1>p, ApiKept DEF InApi, Signal
<1>4. ASSUME NEW p \in Callers, Enter(p) \/ Leave(p) \/ LatencyDone(p) PROVE ApiInv'
  BY <1>4, CallersKeepApi
<1>5. CASE ApiStart
  <2>1. /\ call[Main].at = "asked" /\ call[Main].op = "start" /\ call[Main].svc = "api"
        /\ api' = "spawned" /\ Returns(Main)
    BY <1>5 DEF ApiStart, Asked
  <2>2. mode = "daemon" /\ "api" \notin Stopped /\ Program[at][1] = "start"
    BY <2>1, ApiCalls
  <2>3. at' = at + 1 /\ call'[Main].at = "idle"
    BY <1>0, <2>1, <2>2 DEF Returns, Idle
  <2>4. "api" \notin Stopped'
    BY <1>p, <2>2, <2>3, StoppedGrows
  <2> QED
    BY <1>p, <2>1, <2>2, <2>3, <2>4 DEF ApiInv
<1>6. CASE ApiBind
  <2>1. /\ api = "spawned" /\ api' \in {"serving", "failed"} /\ at' = at /\ call' = call
    BY <1>6 DEF ApiBind
  <2>2. Stopped' = Stopped
    BY <1>p, <2>1, StoppedGrows
  <2> QED
    BY <1>p, <2>1, <2>2 DEF ApiInv
<1>7. CASE ApiShutdown
  <2>1. /\ call[Main].at = "asked" /\ call[Main].op = "stop" /\ call[Main].svc = "api"
        /\ api' = "closing" /\ Becomes(Main, "in") /\ at' = at
    BY <1>7 DEF ApiShutdown, Asked
  <2>2. mode = "daemon" /\ "api" \notin Stopped
    BY <2>1, ApiCalls
  <2>3. call'[Main].at = "in" /\ call'[Main].svc = "api"
    BY <1>0, <2>1 DEF Becomes, Call
  <2>4. "api" \notin Stopped'
    BY <1>p, <2>1, <2>2, StoppedGrows
  <2> QED
    BY <1>p, <2>1, <2>2, <2>3, <2>4 DEF ApiInv
<1>8. CASE ApiDrained \/ ApiTimeout
  <2>1. api = "closing" /\ api' = "closed" /\ Returns(Main)
    BY <1>8 DEF ApiDrained, ApiTimeout
  <2>2. call[Main].at = "in" /\ call[Main].svc = "api" /\ mode # "repl"
    BY <2>1 DEF ApiInv
  <2>3. call'[Main].at = "idle"
    BY <1>0, <2>1 DEF Returns, Idle
  <2> QED
    BY <1>p, <2>1, <2>2, <2>3 DEF ApiInv
<1>9. CASE DnsReceive \/ DnsAnswer \/ HttpReceive \/ HttpAnswer \/ Ended \/ UNCHANGED vars
  <2>1. api' = api /\ at' = at /\ call' = call
    BY <1>9 DEF DnsReceive, DnsAnswer, HttpReceive, HttpAnswer, Ended, vars, callVars
  <2> QED
    BY <1>p, <2>1, ApiKept DEF InApi
<1> QED
  BY <1>1, <1>2, <1>3, <1>4, <1>5, <1>6, <1>7, <1>8, <1>9 DEF Next, ApiStep

LEMMA RunningIs ==
  /\ Running \subseteq Servers
  /\ "dns" \in Running <=> dnsRunning
  /\ "http" \in Running <=> httpRunning
  /\ "ssh" \in Running <=> sshRunning
BY DEF Running, Servers

\* What was late stays late, and only ApiStep changes the API.
LEMMA LateStays ==
  ASSUME [Next]_vars
  PROVE  late \subseteq late' /\ (api' # api => ApiStep)
<1>1. ASSUME NEW p, Enter(p) \/ Leave(p) \/ LatencyDone(p) PROVE late \subseteq late' /\ api' = api
  BY <1>1 DEF Enter, Leave, LatencyDone, Refuse, StatusStep, StatusDone, StartBegins,
              StopBegins, CallSsh, StartEnds, StopEnds, StopTimesOut
<1>2. ASSUME NEW p, Order(p) PROVE late' = late /\ api' = api
  BY <1>2 DEF Order
<1>3. CASE MainAsk \/ Signal
  BY <1>3 DEF MainAsk, Signal
<1>4. CASE ApiStep
  BY <1>4 DEF ApiStep, ApiStart, ApiBind, ApiShutdown, ApiDrained, ApiTimeout
<1>5. CASE DnsReceive \/ DnsAnswer \/ HttpReceive \/ HttpAnswer \/ Ended \/ UNCHANGED vars
  BY <1>5 DEF DnsReceive, DnsAnswer, HttpReceive, HttpAnswer, Ended, vars, callVars
<1> QED
  BY <1>1, <1>2, <1>3, <1>4, <1>5 DEF Next, Request, Command

LEMMA QuietStep ==
  ASSUME TypeOK, ApiInv, QuietInv, StepShape, [Next]_vars
  PROVE  QuietInv'
<1>0. Main \in Callers /\ Handlers \subseteq Callers /\ Main \notin Handlers
      /\ call \in [Callers -> Call]
  BY ConstantsAssumption DEF Callers, TypeOK
<1>1. mode' = mode
  BY DEF StepShape
<1> SUFFICES ASSUME mode = "repl" \/ (api' = "closed" /\ "api" \notin late'), NEW h \in Handlers
             PROVE  call'[h].at = "idle"
  BY <1>1 DEF QuietInv
<1>2. CASE mode = "repl" \/ (api = "closed" /\ "api" \notin late)
  <2>1. call[h].at = "idle" /\ api # "serving"
    BY <1>2 DEF QuietInv, ApiInv
  <2>2. ASSUME NEW p \in Callers, Moved(p) PROVE call'[h].at = "idle"
    <3>1. CASE p # h
      BY <1>0, <2>1, <2>2, <3>1 DEF Moved
    <3>2. CASE p = h
      BY <1>0, <2>1, <2>2, <3>2 DEF Moved, Made, Went, Continued, Over
    <3> QED
      BY <3>1, <3>2
  <2> QED
    BY <2>1, <2>2 DEF StepShape, Signalled
<1>3. CASE mode # "repl" /\ ~(api = "closed" /\ "api" \notin late)
  <2>1. api' = "closed" /\ "api" \notin late' /\ late \subseteq late'
    BY <1>3, LateStays
  <2>2. api # "closed"
    BY <1>3, <2>1
  <2>3. ApiStep
    BY <2>1, <2>2, LateStays
  <2>4. ApiDrained
    BY <2>1, <2>3 DEF ApiStep, ApiStart, ApiBind, ApiShutdown, ApiTimeout
  <2> QED
    BY <1>0, <2>4 DEF ApiDrained, Returns
<1> QED
  BY <1>2, <1>3

\* A server starts only in a call of Start.
LEMMA StartedBy ==
  ASSUME [Next]_vars, NEW s \in Servers, s \notin Running, s \in Running'
  PROVE  \E p \in Callers : Alive /\ call[p].at # "idle" /\ call[p].op = "start"
<1> DEFINE Goal == \E p \in Callers : Alive /\ call[p].at # "idle" /\ call[p].op = "start"
<1>r. /\ "dns" \in Running' <=> dnsRunning'
      /\ "http" \in Running' <=> httpRunning'
      /\ "ssh" \in Running' <=> sshRunning'
  BY DEF Running, Servers
<1>0. UNCHANGED <<dnsRunning, httpRunning, sshRunning>> => FALSE
  BY <1>r, RunningIs DEF Servers
<1>1. ASSUME NEW p, Order(p) PROVE FALSE
  BY <1>0, <1>1 DEF Order, serverVars, dnsVars, httpVars, sshVars
<1>2. CASE MainAsk \/ Signal \/ ApiStep \/ Ended \/ UNCHANGED vars
  BY <1>0, <1>2 DEF MainAsk, Signal, ApiStep, ApiStart, ApiBind, ApiShutdown, ApiDrained,
     ApiTimeout, Ended, vars, serverVars, dnsVars, httpVars, sshVars
<1>3. CASE DnsReceive \/ DnsAnswer \/ HttpReceive \/ HttpAnswer
  BY <1>0, <1>3 DEF DnsReceive, DnsAnswer, HttpReceive, HttpAnswer, Dns!Admit, Http!Admit,
     dnsVars, httpVars, sshVars
<1>4. ASSUME NEW p, Refuse(p) \/ StatusStep(p) \/ StatusDone(p) \/ StartBegins(p)
               \/ LatencyDone(p) \/ StopTimesOut(p)
      PROVE  FALSE
  BY <1>0, <1>4 DEF Refuse, StatusStep, StatusDone, StartBegins, LatencyDone, StopTimesOut,
     serverVars, dnsVars, httpVars, sshVars
<1>5. ASSUME NEW p, StopBegins(p) PROVE FALSE
  BY <1>0, <1>5 DEF StopBegins, Dns!Close, Http!Close, dnsVars, httpVars, sshVars
<1>6. ASSUME NEW p, StopEnds(p) PROVE FALSE
  BY <1>6, <1>r, RunningIs DEF StopEnds, Dns!Stop, Http!Stop, dnsVars, httpVars, sshVars, Servers
<1>7. ASSUME NEW p \in Callers, CallSsh(p) PROVE Goal
  <2>1. CASE Asked(p, "start", "ssh")
    BY <2>1 DEF Asked
  <2>2. CASE Asked(p, "stop", "ssh") /\ Ssh!Stop
    BY <1>7, <2>2, <1>r, RunningIs DEF CallSsh, Ssh!Stop, dnsVars, httpVars, Servers
  <2> QED
    BY <1>7, <2>1, <2>2 DEF CallSsh
<1>8. ASSUME NEW p \in Callers, StartEnds(p) PROVE Goal
  BY <1>8 DEF StartEnds, Within
<1> QED
  BY <1>1, <1>2, <1>3, <1>4, <1>5, <1>6, <1>7, <1>8 DEF Next, Request, Command, Enter, Leave

\* When main's Stop of a server is over, the server has stopped or was late.
LEMMA MainStops ==
  ASSUME TypeOK, CallsInv, MainInv, ApiInv, [Next]_vars, StepShape,
         NEW s \in Servers, at' = at + 1, Program[at][1] = "stop", Program[at][2] = s
  PROVE  s \notin Running' \/ s \in late'
<1> DEFINE Goal == s \notin Running' \/ s \in late'
<1>r. /\ "dns" \in Running' <=> dnsRunning'
      /\ "http" \in Running' <=> httpRunning'
      /\ "ssh" \in Running' <=> sshRunning'
  BY DEF Running, Servers
<1>0. Main \in Callers /\ at' # at /\ call \in [Callers -> Call] /\ s # "api"
  <2>1. at \in Nat
    <3>1. Len(Program) \in Nat
      BY ProgramOrdered DEF TypeOK, ProgramOrder
    <3> QED
      BY <3>1 DEF TypeOK
  <2> QED
    BY <2>1 DEF Callers, TypeOK, Servers
<1>1. call[Main].at # "idle" /\ call[Main].op = "stop" /\ call[Main].svc = s
  <2>1. ASSUME NEW p \in Callers, Moved(p) PROVE call[Main].at # "idle"
    BY <1>0, <2>1 DEF Moved, Made, Went, Continued, Over, Returns
  <2>2. call[Main].at # "idle"
    BY <1>0, <2>1 DEF StepShape, Signalled
  <2> QED
    BY <2>2 DEF MainInv
<1>2. ASSUME NEW p \in Callers, Enter(p) \/ Leave(p) \/ LatencyDone(p) PROVE Goal
  <2>1. p = Main
    BY <1>0, <1>2, CallerSteps DEF Moved, Made, Went, Continued, Over, Returns
  <2>2. CASE Refuse(p)
    <3>1. s \notin Running /\ UNCHANGED serverVars
      BY <1>1, <2>1, <2>2 DEF Refuse, Asked
    <3> QED
      BY <1>r, <3>1, RunningIs DEF serverVars, dnsVars, httpVars, sshVars, Servers
  <2>3. CASE CallSsh(p)
    <3>1. s = "ssh" /\ Ssh!Stop
      BY <1>1, <2>1, <2>3 DEF CallSsh, Asked
    <3> QED
      BY <1>r, <3>1 DEF Ssh!Stop
  <2>4. CASE StopEnds(p)
    BY <1>1, <1>r, <2>1, <2>4 DEF StopEnds, Dns!Stop, Http!Stop
  <2>5. CASE StopTimesOut(p)
    BY <1>1, <2>1, <2>5 DEF StopTimesOut
  <2>6. CASE StatusDone(p) \/ LatencyDone(p) \/ StartEnds(p)
    BY <1>1, <2>1, <2>6 DEF StatusDone, LatencyDone, StartEnds, Asked, Within
  <2>7. CASE StatusStep(p) \/ StartBegins(p) \/ StopBegins(p)
    BY <1>0, <2>7 DEF StatusStep, StartBegins, StopBegins
  <2> QED
    BY <1>2, <2>2, <2>3, <2>4, <2>5, <2>6, <2>7 DEF Enter, Leave
<1>3. CASE ApiStep
  BY <1>0, <1>1, <1>3
  DEF ApiStep, ApiStart, ApiBind, ApiShutdown, ApiDrained, ApiTimeout, ApiInv, Asked
<1>4. ASSUME NEW p, Order(p) PROVE FALSE
  BY <1>0, <1>4 DEF Order
<1>5. CASE MainAsk \/ DnsReceive \/ DnsAnswer \/ HttpReceive \/ HttpAnswer \/ Ended \/ UNCHANGED vars
  BY <1>0, <1>5 DEF MainAsk, DnsReceive, DnsAnswer, HttpReceive, HttpAnswer, Ended, vars, callVars
<1>6. CASE Signal
  BY <1>6 DEF Signal
<1> QED
  BY <1>2, <1>3, <1>4, <1>5, <1>6 DEF Next, Request, Command

LEMMA StoppedStep ==
  ASSUME TypeOK, CallsInv, MainInv, ApiInv, QuietInv, StoppedInv, StepShape, [Next]_vars
  PROVE  StoppedInv'
<1> SUFFICES ASSUME NEW s \in Stopped', s \in Running', s \notin late', "api" \notin late'
             PROVE  FALSE
  BY DEF StoppedInv
<1>1. late \subseteq late' /\ s \in Servers
  BY LateStays DEF Running
<1>2. CASE s \in Stopped
  <2>1. s \notin Running
    BY <1>1, <1>2 DEF StoppedInv
  <2>2. PICK p \in Callers : Alive /\ call[p].at # "idle" /\ call[p].op = "start"
    BY <1>1, <2>1, StartedBy
  <2>3. CASE p = Main
    BY <1>2, <2>2, <2>3, StoppedFirst DEF MainInv
  <2>4. CASE p # Main
    <3>1. p \in Handlers
      BY <2>4 DEF Callers
    <3>2. CASE mode = "repl"
      BY <2>2, <3>1, <3>2 DEF QuietInv
    <3>3. CASE mode = "daemon"
      <4>1. api = "closed" /\ "api" \notin late
        BY <1>1, <1>2, <3>3, StoppedFirst DEF ApiInv
      <4> QED
        BY <2>2, <3>1, <4>1 DEF QuietInv
    <3> QED
      BY <3>2, <3>3 DEF TypeOK
  <2> QED
    BY <2>3, <2>4
<1>3. CASE s \notin Stopped
  <2>1. at' = at + 1 /\ Program[at][1] = "stop" /\ Program[at][2] = s
    BY <1>3, Progress, StoppedGrows
  <2> QED
    BY <1>1, <2>1, MainStops
<1> QED
  BY <1>2, <1>3

LEMMA ApplianceInit == Init => ApplianceInv
<1> SUFFICES ASSUME Init PROVE ApplianceInv
  OBVIOUS
<1> USE DEF Init, Dns!Init, Http!Init, Ssh!Init
<1>1. mode \in {"daemon", "repl"} /\ at = 1 /\ Len(Program) \in {4, 9}
  BY ProgramOrdered DEF ProgramOrder
<1>2. Main \in Callers /\ Handlers \subseteq Callers
  BY DEF Callers
<1>3. TypeOK
  <2>1. 0 \in 0 .. MaxCalls
    BY ConstantsAssumption
  <2>2. call \in [Callers -> Call]
    BY DEF Idle, Call
  <2>3. at \in 1 .. Len(Program) + 1
    BY <1>1
  <2> QED
    BY <1>1, <2>1, <2>2, <2>3 DEF TypeOK
<1>4. Stopped = {}
  BY <1>1 DEF Stopped
<1>5. CallsInv
  BY DEF CallsInv, Idle
<1>6. MainInv /\ QuietInv /\ ApiInv /\ StoppedInv
  BY <1>2, <1>4 DEF MainInv, QuietInv, ApiInv, StoppedInv, Idle
<1> QED
  BY <1>3, <1>5, <1>6 DEF ApplianceInv

LEMMA ApplianceStep == ApplianceInv /\ [Next]_vars => ApplianceInv'
<1> SUFFICES ASSUME ApplianceInv, [Next]_vars PROVE ApplianceInv'
  OBVIOUS
<1> USE DEF ApplianceInv
<1>1. StepShape
  BY StepShapes
<1>2. TypeOK'
  BY <1>1, TypeStep
<1>3. CallsInv' /\ MainInv'
  BY <1>1, CallsStep
<1>4. ApiInv'
  BY <1>1, ApiStepInv
<1>5. QuietInv'
  BY <1>1, QuietStep
<1>6. StoppedInv'
  BY <1>1, StoppedStep
<1> QED
  BY <1>2, <1>3, <1>4, <1>5, <1>6

LEMMA AllStopped == ApplianceInv => NothingRunsAtEnd
<1> SUFFICES ASSUME ApplianceInv, ~Alive, NEW s \in Running
             PROVE  s \in late \/ "api" \in late
  BY DEF NothingRunsAtEnd
<1>1. s \in Stopped
  BY StoppedFirst DEF Running, ApplianceInv
<1> QED
  BY <1>1 DEF ApplianceInv, StoppedInv

\* When the process ends, a server still runs only if its own Stop timed out, or
\* that of the Admin API did and left a handler to start it again
\* (main_appliance.go:126-129), for any number of goroutines of the API and whatever
\* they, the clients and the REPL asked for.
THEOREM NothingLeftRunning == Spec => []NothingRunsAtEnd
<1>1. ApplianceInv => NothingRunsAtEnd
  BY AllStopped
<1> QED
  BY <1>1, ApplianceInit, ApplianceStep, PTL DEF Spec
=============================================================================
