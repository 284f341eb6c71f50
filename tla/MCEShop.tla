------------------------------ MODULE MCEShop ------------------------------
EXTENDS EShop

CONSTANTS q1, q2, p1

MCRequests == {q1, q2}
MCProducts == {p1}
MCSeed == [p \in MCProducts |-> 3]
\* One item of one or of two, and an order of two items of one each (the
\* second Deduct of which fails when the other request holds one).
MCItemLists ==
    { <<[product |-> p1, quantity |-> 1]>>,
      <<[product |-> p1, quantity |-> 2]>>,
      <<[product |-> p1, quantity |-> 1], [product |-> p1, quantity |-> 1]>> }
=============================================================================
