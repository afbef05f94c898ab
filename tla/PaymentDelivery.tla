--------------------------- MODULE PaymentDelivery ---------------------------
(***************************************************************************)
(* What the payment service promises for an order, without workers,        *)
(* leases, webhooks or time: the user pays, the purchase is delivered once, *)
(* the inviter's rebate is settled once after it, the order is closed after *)
(* both, and it is taken for processed only when delivered.                *)
(***************************************************************************)
EXTENDS Naturals

CONSTANT Orders

VARIABLES paid, given, settled, closed, processed

avars == <<paid, given, settled, closed, processed>>

AInit ==
    /\ paid = {} /\ settled = {} /\ closed = {} /\ processed = {}
    /\ given = [o \in Orders |-> 0]

\* The user pays the amount of the order.
APay(o) ==
    /\ paid' = paid \cup {o}
    /\ UNCHANGED <<given, settled, closed, processed>>

\* The balance or the days are given.
AGive(o) ==
    /\ o \in paid /\ given[o] = 0
    /\ given' = [given EXCEPT ![o] = 1]
    /\ UNCHANGED <<paid, settled, closed, processed>>

\* The rebate is settled.
ASettle(o) ==
    /\ given[o] = 1 /\ o \notin settled
    /\ settled' = settled \cup {o}
    /\ UNCHANGED <<paid, given, closed, processed>>

\* The order is COMPLETED.
AClose(o) ==
    /\ o \in settled
    /\ closed' = closed \cup {o}
    /\ UNCHANGED <<paid, given, settled, processed>>

\* The provider's webhook is answered; the answer may later be a vaguer one.
AAnswer(o) ==
    /\ processed' = processed \ {o} \/ (given[o] = 1 /\ processed' = processed \cup {o})
    /\ UNCHANGED <<paid, given, settled, closed>>

ANext == \E o \in Orders : APay(o) \/ AGive(o) \/ ASettle(o) \/ AClose(o) \/ AAnswer(o)

\* Payment, delivery, rebate and closing happen in this order, once each.
ASpec == AInit /\ [][ANext]_avars
=============================================================================
