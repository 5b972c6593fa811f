------------------------------ MODULE MCConsole ------------------------------
(* An instance of Console for TLC.                                         *)
EXTENDS Console

MCNumber ==
  [w \in {"0", "-3", "1", "5", "20", "50", "2000"} |->
     CASE w = "0" -> 0 [] w = "-3" -> -3 [] w = "1" -> 1 [] w = "5" -> 5
       [] w = "20" -> 20 [] w = "50" -> 50 [] w = "2000" -> 2000]

MCAtoi == MCNumber @@ [w \in {"7x", "many"} |-> Missing]
MCScan == MCNumber @@ ("7x" :> 7) @@ ("many" :> 0)

MCMalformed ==
  {<<"help">>, <<"dns">>, <<"dns", "add", "www">>, <<"dns", "flush">>,
   <<"http">>, <<"http", "restart">>, <<"http", "start", "now">>,
   <<"ssh", "start", "now">>, <<"log", "tail", "many">>, <<"log", "module", "HTTP">>,
   <<"latency", "run">>,
   <<"latency", "run", "http://app", "0">>, <<"latency", "run", "http://app", "7x">>}

MCRequests ==
  {Get(<<"health">>), Get(<<"index.php">>),
   Req("DELETE", <<"dns", "records">>, << >>), Get(<<"dns", "records", "www">>),
   Req("DELETE", <<"dns", "records", "">>, << >>),
   Post(<<"dns", "records">>, [type |-> "MX", name |-> "www", value |-> "app"]),
   Get(<<"ssh", "debug">>), Post(<<"ssh", "debug">>, [enabled |-> TRUE]),
   Post(<<"log", "modules">>, [module |-> "", enabled |-> TRUE]),
   Post(<<"log", "modules">>, [module |-> "HTTP", enabled |-> Missing]),
   Req("PUT", <<"log", "modules">>, << >>), Post(<<"latency">>, Missing),
   Post(<<"dns", "records">>, Missing), Post(<<"ssh", "debug">>, Missing)}

=============================================================================
