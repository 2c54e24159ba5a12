--------------------------- MODULE PaymentPromise ---------------------------
(***************************************************************************)
(* What a test relies on when one node pays the invoice of another and     *)
(* both are asked: the payer tells of success only when the payee has been *)
(* paid, and what the payee is asked about the invoice is how it is.       *)
(***************************************************************************)
VARIABLES
  invoice,  \* none, open, paid or expired
  told,     \* a result has been returned for a payment that was made
  seen      \* the last thing GetInvoice said, or nothing

vars == <<invoice, told, seen>>

Init == invoice = "none" /\ told = FALSE /\ seen = "nothing"

Create == invoice = "none" /\ invoice' = "open" /\ UNCHANGED <<told, seen>>
Settle == invoice = "open" /\ invoice' = "paid" /\ UNCHANGED <<told, seen>>
Expire == invoice = "open" /\ invoice' = "expired" /\ UNCHANGED <<told, seen>>
Tell   == invoice = "paid" /\ told' = TRUE /\ UNCHANGED <<invoice, seen>>
Look   == seen' = invoice /\ UNCHANGED <<invoice, told>>

Next == Create \/ Settle \/ Expire \/ Tell \/ Look

Spec == Init /\ [][Next]_vars
=============================================================================
