----------------------------- MODULE MCPayments -----------------------------
(* Instances of Payments for TLC. *)
EXTENDS Payments, TLC

\* An administrator settles, part-settles, rejects or reopens a payment.
MCAdminUpdates ==
    { [want |-> "PAID",    amt |-> NoAmount, meth |-> NoMethod],
      [want |-> "PAID",    amt |-> 1,        meth |-> "OFFLINE"],
      [want |-> "PARTIAL", amt |-> 2,        meth |-> NoMethod],
      [want |-> "FAILED",  amt |-> NoAmount, meth |-> NoMethod],
      [want |-> "PENDING", amt |-> NoAmount, meth |-> NoMethod] }

\* Two of them, where requests overlap.
MCFewUpdates ==
    { [want |-> "PAID",   amt |-> 1,        meth |-> "OFFLINE"],
      [want |-> "FAILED", amt |-> NoAmount, meth |-> NoMethod] }

MCNoUpdates == {}

\* Handlers are interchangeable.
MCSymmetry == Permutations(Handlers)

=============================================================================
