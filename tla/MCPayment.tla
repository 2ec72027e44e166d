---------------------------- MODULE MCPayment ----------------------------
(* Model-checking instance of Payment: a batch of two invoices and a single
   payment of one of them. *)
EXTENDS Payment, TLC

CONSTANTS i1, i2, q1, q2

BatchAndSingle == q1 :> <<i1, i2>> @@ q2 :> <<i2>>
===========================================================================
