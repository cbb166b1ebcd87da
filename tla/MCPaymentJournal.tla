--------------------------- MODULE MCPaymentJournal ---------------------------
(* A small instance of PaymentJournal for TLC: one tab pays, another is open *)
(* beside it.                                                                *)
EXTENDS PaymentJournal

CONSTANTS t1, t2, p

=============================================================================
