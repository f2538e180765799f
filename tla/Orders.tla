------------------------------- MODULE Orders -------------------------------
(***************************************************************************)
(* What the marketplace promises about a sale, without contracts, events   *)
(* or money: each item is sold to one buyer at a time and to each buyer at *)
(* most once; an open order ends by delivery, after which the item is for  *)
(* sale again, or by forfeiture, after which it is never sold again.       *)
(***************************************************************************)
CONSTANTS Items, Buyers

VARIABLE status   \* the status of the order of each item by each buyer

Status == {"none", "pending", "delivered", "forfeited"}

Init == status = [i \in Items |-> [b \in Buyers |-> "none"]]

\* No order of the item is open, and none has been forfeited.
ForSale(i) == \A b \in Buyers : status[i][b] \in {"none", "delivered"}

Order(i, b) ==
  /\ ForSale(i)
  /\ status[i][b] = "none"
  /\ status' = [status EXCEPT ![i][b] = "pending"]

Deliver(i, b) ==
  /\ status[i][b] = "pending"
  /\ status' = [status EXCEPT ![i][b] = "delivered"]

Forfeit(i, b) ==
  /\ status[i][b] = "pending"
  /\ status' = [status EXCEPT ![i][b] = "forfeited"]

Next == \E i \in Items, b \in Buyers : Order(i, b) \/ Deliver(i, b) \/ Forfeit(i, b)

Spec == Init /\ [][Next]_status
=============================================================================
