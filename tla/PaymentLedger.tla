---------------------------- MODULE PaymentLedger ----------------------------
(***************************************************************************)
(* What the payment service promises the rest of the system, as if every   *)
(* update of a payment were one atomic step:                               *)
(*   - a payment opens PENDING with nothing paid and everything due;       *)
(*   - an accepted sum settles it, fully or in part: the status follows    *)
(*     from the balance, never the other way round;                        *)
(*   - a failure or a reopening changes the status, and whatever the money *)
(*     columns say afterwards still adds up to what is owed;               *)
(*   - what is owed never changes, and no payment is ever removed;         *)
(*   - payment.completed and payment.failed are published only about a     *)
(*     payment that has been PAID or FAILED by then.                       *)
(***************************************************************************)
EXTENDS Integers

CONSTANTS Payments, Amounts

VARIABLES
    ledger,    \* status and money of each payment
    had,       \* the statuses each payment has been given since it opened
    published  \* the statuses published about each payment

lvars == <<ledger, had, published>>

None == [status |-> "NONE", total |-> 0, paid |-> 0, due |-> 0]

LInit ==
    /\ ledger = [p \in Payments |-> None]
    /\ had = [p \in Payments |-> {}]
    /\ published = [p \in Payments |-> {}]

Open(p, t) ==
    /\ ledger[p].status = "NONE"
    /\ ledger' = [ledger EXCEPT ![p] =
                    [status |-> "PENDING", total |-> t, paid |-> 0, due |-> t]]
    /\ UNCHANGED <<had, published>>

\* The entry of p becomes the status s with the sum q paid.
Enter(p, s, q) ==
    /\ ledger[p].status # "NONE"
    /\ ledger' = [ledger EXCEPT ![p].status = s, ![p].paid = q,
                                ![p].due = ledger[p].total - q]
    /\ had' = [had EXCEPT ![p] = @ \cup (IF ledger[p].status = s THEN {} ELSE {s})]
    /\ UNCHANGED published

Settle(p, q) == Enter(p, IF q = ledger[p].total THEN "PAID" ELSE "PARTIAL", q)

Mark(p, s, q) == s \in {"FAILED", "PENDING"} /\ Enter(p, s, q)

Publish(p, s) ==
    /\ s \in {"PAID", "FAILED"} \cap had[p]
    /\ published' = [published EXCEPT ![p] = @ \cup {s}]
    /\ UNCHANGED <<ledger, had>>

LNext ==
    \E p \in Payments :
        \/ \E t \in Amounts : Open(p, t)
        \/ \E q \in 0 .. ledger[p].total :
             Settle(p, q) \/ \E s \in {"FAILED", "PENDING"} : Mark(p, s, q)
        \/ \E s \in {"PAID", "FAILED"} : Publish(p, s)

LSpec == LInit /\ [][LNext]_lvars

=============================================================================
