------------------------------ MODULE MCOneCPull ------------------------------
(* A small instance of OneCPull for TLC: an order, its payment, and a payment *)
(* that stands alone and moves the cursor.                                    *)
EXTENDS OneCPull, TLC

CONSTANTS o1, y1, y2

MCRecords  == {o1, y1, y2}
MCEntities == {"order", "payment"}
MCEntityOf == o1 :> "order" @@ y1 :> "payment" @@ y2 :> "payment"
MCStampsOf == o1 :> {1, 3} @@ y1 :> {1, 2} @@ y2 :> {3}
LaterStampsOf == o1 :> {3} @@ y1 :> {1, 2} @@ y2 :> {4}
MCNeeds    == o1 :> NoRecord @@ y1 :> o1 @@ y2 :> NoRecord
===============================================================================
