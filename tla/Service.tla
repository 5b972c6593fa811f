-------------------------------- MODULE Service --------------------------------
(***************************************************************************)
(* What each test server (DNS, HTTP, SSH) gives the Admin API and its      *)
(* clients: its listener is active only while it is reported as running,   *)
(* it becomes both at once, nobody is let in while it is not active, and   *)
(* it is not reported as stopped before its listener is gone and, where    *)
(* Stop says so, everybody that was let in has left.  It may be reported   *)
(* as running with its listener closed, after a Stop that has not          *)
(* succeeded: that it may not is more than the code keeps (IsRunningTrue   *)
(* of HttpServer).                                                         *)
(***************************************************************************)
CONSTANTS
  Conns,  \* clients
  Drains  \* Stop waits until everybody has left

VARIABLES
  running,  \* what IsRunning reports
  active,   \* the listener is open, and someone takes what arrives at it
  admitted  \* connections that were let in and are not over

serviceVars == <<running, active, admitted>>

Init == running = FALSE /\ active = FALSE /\ admitted = {}

Start ==
  /\ ~running
  /\ running' = TRUE /\ active' = TRUE
  /\ UNCHANGED admitted

\* A Stop begins: nobody is let in any more.
Close ==
  /\ active
  /\ active' = FALSE
  /\ UNCHANGED <<running, admitted>>

\* A Stop succeeds, at once or after it (or a Stop before it) has closed the
\* listener; it may end connections.
Stop ==
  /\ running
  /\ running' = FALSE /\ active' = FALSE
  /\ admitted' \in SUBSET admitted
  /\ Drains => admitted' = {}

Admit ==
  /\ active
  /\ \E c \in Conns \ admitted : admitted' = admitted \cup {c}
  /\ UNCHANGED <<running, active>>

Leave == admitted' \in SUBSET admitted /\ UNCHANGED <<running, active>>

Next == Start \/ Close \/ Stop \/ Admit \/ Leave

Spec == Init /\ [][Next]_serviceVars
=============================================================================
