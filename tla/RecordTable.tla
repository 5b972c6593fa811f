----------------------------- MODULE RecordTable -----------------------------
(***************************************************************************)
(* What the DNS record store promises one process: a name has at most one  *)
(* record; the store answers from the table it serves; a save makes the    *)
(* whole served table durable at once or changes nothing; a restart serves *)
(* the durable table again.                                                *)
(***************************************************************************)
CONSTANTS Names, Records, Nothing

VARIABLES served, durable

tableVars == <<served, durable>>

Tables == [Names -> Records \cup {Nothing}]

Init == served = [n \in Names |-> Nothing] /\ durable = served

\* A record is added, replaces the one its name had, or is removed.
Change ==
  /\ \E n \in Names, r \in Records \cup {Nothing} :
       served' = [served EXCEPT ![n] = r]
  /\ UNCHANGED durable

Save == durable' = served /\ UNCHANGED served

Restart == served' = durable /\ UNCHANGED durable

Next == Change \/ Save \/ Restart

Spec == Init /\ [][Next]_tableVars
=============================================================================
