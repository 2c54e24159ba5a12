------------------------------ MODULE Payments ------------------------------
(***************************************************************************)
(* A payment between two nodes of either kind as a test makes it: the      *)
(* payer is funded, the payee creates an invoice, the payer pays it with   *)
(* Pay, or with GetRoute and PayViaRoute, while another goroutine asks the *)
(* payee for the invoice.  Payment and invoice live in the daemons, which  *)
(* go on with them whatever becomes of the calls; the deadline ends every  *)
(* request, and cln is told in whole seconds how long to try.              *)
(***************************************************************************)
EXTENDS Conversions

CONSTANTS
  AmountMsat,  \* the amount of the invoice
  FeeMsat,     \* what each forwarding node takes
  Routes,      \* numbers of hops a route may have
  Tips,        \* heights of the chain
  Funds,       \* amounts Fund is called with, in satoshi
  Deadline,    \* the deadline of the harness, in half seconds
  MaxTries     \* bound: how often the test calls PayViaRoute

ASSUME PaymentAssumption ==
  /\ {AmountMsat, FeeMsat, Deadline, MaxTries} \subseteq Nat
  /\ Routes \subseteq Nat \ {0} /\ Tips \subseteq Nat /\ Funds \subseteq Nat

VARIABLES
  payer, payee,  \* the kinds of the two nodes
  hops, tip,     \* length of the route, height of the chain
  fund, funds,   \* the amount Fund was called with, the amount that arrived
  now,           \* the clock, in half seconds
  invoice,       \* the invoice in the payee's daemon
  received,      \* the amount the payee's daemon was paid
  payment,       \* the payment in the payer's daemon
  htlc,          \* none, out, or settled by the payee and on its way back
  spent,         \* what left the payer with it
  pc,            \* where the goroutine that pays is
  tries,         \* the calls of PayViaRoute
  timer,         \* when cln gives up the request it works on
  route,         \* what GetRoute returned, <<>> before
  request,       \* the hops PayViaRoute asked the daemon to use
  result,        \* what Pay or PayViaRoute returned, <<>> before
  reply,         \* what the daemon's reply to it said of the payment, or none
  asking,        \* the goroutine that asks for the invoice is alive
  answer,        \* what GetInvoice returned last, <<>> before
  panicked       \* the test binary died of a nil dereference

nodeVars   == <<payer, payee, hops, tip, fund>>
daemonVars == <<invoice, received, payment, htlc, spent>>
callVars   == <<pc, tries, timer, route, request, result, reply>>
askVars    == <<asking, answer>>
vars == <<nodeVars, funds, now, daemonVars, callVars, askVars, panicked>>

Kinds == {"lnd", "cln"}
\* Inside a request of Pay, of SendToRouteSync or of WaitSendPay.
Blocked == {"pay", "toroute", "wait"}
Labels == Blocked \cup {"fund", "create", "choose", "send", "sent", "error",
                        "told", "dead"}
Overdue == now > Deadline

TotalMsat == AmountMsat + (hops - 1) * FeeMsat

\* The place of the channel to the k-th node of the route.
Place(k) == [height |-> HeightWidth - 1, tx |-> k % TxWidth, out |-> (k + 1) % OutWidth]

\* The route a daemon finds, hop by hop.  lnd: the amount each node forwards,
\* the block its HTLC expires at, the channel as a number.  cln: the amount
\* each node gets, the blocks it is left, the channel as three numbers.
Found(kind) ==
  [k \in 1 .. hops |->
    IF kind = "lnd"
      THEN [id |-> k, chan |-> ToUint64(Place(k)),
            amount |-> AmountMsat + (IF k < hops THEN hops - 1 - k ELSE 0) * FeeMsat,
            delay |-> tip + (hops - k)]
      ELSE [id |-> k, chan |-> String(Place(k)),
            amount |-> AmountMsat + (hops - k) * FeeMsat,
            delay |-> hops - k]]

\* "No answer yet" and "one answer".
None == <<>>
Some(x) == <<x>>

TypeOK ==
  /\ {payer, payee} \subseteq Kinds
  /\ hops \in Routes /\ tip \in Tips /\ fund \in Funds /\ funds \in Nat
  /\ now \in 0 .. Deadline + 1
  /\ invoice \in {"none", "open", "paid", "expired"}
  /\ received \in {0, AmountMsat}
  /\ payment \in {"none", "pending", "complete", "failed"}
  /\ htlc \in {"none", "out", "back"} /\ (htlc # "none" => payment = "pending")
  /\ spent \in {0, TotalMsat}
  /\ pc \in Labels
  /\ reply \in {"none", "pending", "complete", "failed"}
  /\ tries \in 0 .. MaxTries
  /\ timer \in 0 .. Deadline + 1
  /\ Len(route) \in {0, hops} /\ Len(request) \in {0, hops}
  /\ asking \in BOOLEAN /\ panicked \in BOOLEAN

Init ==
  /\ payer \in Kinds /\ payee \in Kinds
  /\ hops \in Routes /\ tip \in Tips
  /\ fund \in Funds /\ funds = 0
  /\ now = 0
  /\ invoice = "none" /\ received = 0
  /\ payment = "none" /\ htlc = "none" /\ spent = 0
  /\ pc = "fund" /\ tries = 0 /\ timer = 0
  /\ route = None /\ request = None /\ result = None /\ reply = "none"
  /\ asking = TRUE /\ answer = None
  /\ panicked = FALSE

-----------------------------------------------------------------------------

Goto(label) == pc' = label

\* A nil dereference ends the test binary.
Panic == panicked' = TRUE /\ pc' = "dead" /\ asking' = FALSE /\ UNCHANGED answer

\* Fund: a new address, SendToAddressAndMine, WaitForSync (ChannelReady).
Fund ==
  /\ pc = "fund"
  /\ funds' = funds + ParseAmount(FormatAmount(fund))
  /\ Goto("create")
  /\ UNCHANGED <<nodeVars, now, daemonVars, tries, timer, route, request,
                 result, reply, askVars, panicked>>

CreateBolt11Invoice ==
  /\ pc = "create"
  /\ invoice' = "open"
  /\ Goto("choose")
  /\ UNCHANGED <<nodeVars, funds, now, received, payment, htlc, spent, tries, timer,
                 route, request, result, reply, askVars, panicked>>

\* A call is refused, or its request runs into the deadline or cln's timer:
\* CheckError ends the goroutine in every call but PayViaRoute.
CallFails ==
  /\ \/ pc \in {"fund", "create", "choose"}
     \/ pc = "pay" /\ Overdue
     \/ pc = "pay" /\ payer = "cln" /\ now >= timer /\ payment # "complete"
  /\ Goto("dead")
  /\ UNCHANGED <<nodeVars, funds, now, daemonVars, tries, timer, route, request,
                 result, reply, askVars, panicked>>

\* A request fails at any time: the daemon dies, the connection breaks.  Nobody
\* owes that.
RequestFails ==
  /\ pc \in Blocked
  /\ Goto(IF pc = "pay" THEN "dead" ELSE "error")
  /\ UNCHANGED <<nodeVars, funds, now, daemonVars, tries, timer, route, request,
                 result, reply, askVars, panicked>>

\* The payer's daemon takes a payment on, unless it has it already.
TakeOn ==
  IF payment \in {"none", "failed"}
    THEN payment' = "pending" /\ htlc' = "out" /\ spent' = TotalMsat
    ELSE UNCHANGED <<payment, htlc, spent>>

\* Pay: lnd is asked with SendPaymentSync, cln with Pay, which goes on trying
\* for RetryFor seconds.
Pay ==
  /\ pc = "choose"
  /\ payer = "cln" => ~ Overdue
  /\ TakeOn
  /\ timer' = IF payer = "cln" THEN now + 2 * TimeoutSeconds(Deadline - now) ELSE timer
  /\ Goto("pay")
  /\ UNCHANGED <<nodeVars, funds, now, invoice, received, tries, route, request,
                 result, reply, askVars, panicked>>

\* A hop the daemon found, in the package's own form.
HopOf(hop) ==
  [id |-> hop.id, amount |-> hop.amount, delay |-> Delay(hop.delay),
   channel |-> IF payer = "lnd" THEN NewShortChanIDFromInt(hop.chan)
                                ELSE NewShortChanIDFromString(hop.chan)]

\* Fault: the first hop is taken for the payer itself and left out.
GetRouteTail ==
  /\ pc = "choose"
  /\ route' = Tail([k \in 1 .. hops |-> HopOf(Found(payer)[k])])
  /\ Goto("send")
  /\ UNCHANGED <<nodeVars, funds, now, daemonVars, tries, timer, request,
                 result, reply, askVars, panicked>>

\* GetRoute: every hop, in order.
GetRoute ==
  /\ pc = "choose"
  /\ route' = [k \in 1 .. hops |-> HopOf(Found(payer)[k])]
  /\ Goto("send")
  /\ UNCHANGED <<nodeVars, funds, now, daemonVars, tries, timer, request,
                 result, reply, askVars, panicked>>

\* The hops in the form of the payer's daemon.
Requested ==
  [k \in 1 .. hops |->
    [id |-> route[k].id, amount |-> route[k].amount, delay |-> route[k].delay,
     chan |-> IF payer = "lnd" THEN ToUint64(route[k].channel)
                               ELSE String(route[k].channel)]]

\* Fault: the reply of SendPay is taken for the end of the payment.
SendUnawaited ==
  /\ pc = "send" /\ tries < MaxTries
  /\ tries' = tries + 1
  /\ request' = Requested
  /\ TakeOn
  /\ IF payer = "lnd"
       THEN Goto("toroute") /\ UNCHANGED <<result, reply>>
       ELSE /\ Goto("told")
            /\ result' = Some([amount |-> AmountMsat, spent |-> TotalMsat, dest |-> hops])
            /\ reply' = "complete"
  /\ UNCHANGED <<nodeVars, funds, now, invoice, received, timer, route, askVars,
                 panicked>>

\* PayViaRoute: SendToRouteSync, or SendPay, whose reply does not wait for the
\* payment.  A daemon fails a route it cannot use later (HtlcFails).
Send ==
  /\ pc = "send" /\ tries < MaxTries
  /\ tries' = tries + 1
  /\ request' = Requested
  /\ TakeOn
  /\ Goto(IF payer = "lnd" THEN "toroute" ELSE "sent")
  /\ UNCHANGED <<nodeVars, funds, now, invoice, received, timer, route, result,
                 reply, askVars, panicked>>

\* WaitSendPay, with the seconds that are left.
Wait ==
  /\ pc = "sent" /\ ~ Overdue
  /\ timer' = now + 2 * TimeoutSeconds(Deadline - now)
  /\ Goto("wait")
  /\ UNCHANGED <<nodeVars, funds, now, daemonVars, tries, route, request,
                 result, reply, askVars, panicked>>

\* getTimeoutSeconds finds no time left: CheckError.
WaitTooLate ==
  /\ pc = "sent" /\ Overdue
  /\ Goto("dead")
  /\ UNCHANGED <<nodeVars, funds, now, daemonVars, tries, timer, route, request,
                 result, reply, askVars, panicked>>

\* The route the payer's daemon used, as lnd reports it in PaymentRoute.
PaymentRoute == Found("lnd")

\* Fault: Pay reads the amount off the first hop.
PayReplyFirst ==
  /\ pc = "pay" /\ payment = "complete"
  /\ result' = Some([amount |-> (IF payer = "lnd" THEN PaymentRoute[1].amount ELSE AmountMsat),
                     spent |-> spent, dest |-> hops])
  /\ reply' = payment
  /\ Goto("told")
  /\ UNCHANGED <<nodeVars, funds, now, daemonVars, tries, timer, route, request,
                 askVars, panicked>>

\* Pay returns: lnd's amount and destination are those of the last hop.
PayReply ==
  /\ pc = "pay" /\ payment = "complete"
  /\ result' = Some(
       IF payer = "lnd"
         THEN [amount |-> PaymentRoute[hops].amount, spent |-> spent,
               dest |-> PaymentRoute[hops].id]
         ELSE [amount |-> AmountMsat, spent |-> spent, dest |-> hops])
  /\ reply' = payment
  /\ Goto("told")
  /\ UNCHANGED <<nodeVars, funds, now, daemonVars, tries, timer, route, request,
                 askVars, panicked>>

\* cln's reply to Pay has a status, which Pay does not look at: a payment that
\* is on its way or that failed makes a result like any other.
PayReplyUnread ==
  /\ pc = "pay" /\ payer = "cln" /\ payment \in {"pending", "failed"}
  /\ result' = Some([amount |-> AmountMsat, spent |-> spent, dest |-> hops])
  /\ reply' = payment
  /\ Goto("told")
  /\ UNCHANGED <<nodeVars, funds, now, daemonVars, tries, timer, route, request,
                 askVars, panicked>>

\* PayViaRoute returns: lnd's amount is the total without the fees; the only
\* status that cln's reply to WaitSendPay can have is complete.
RouteReply ==
  /\ pc \in {"toroute", "wait"} /\ payment = "complete"
  /\ result' = Some(
       IF payer = "lnd"
         THEN [amount |-> spent - (hops - 1) * FeeMsat, spent |-> spent,
               dest |-> PaymentRoute[hops].id]
         ELSE [amount |-> AmountMsat, spent |-> spent, dest |-> hops])
  /\ reply' = payment
  /\ Goto("told")
  /\ UNCHANGED <<nodeVars, funds, now, daemonVars, tries, timer, route, request,
                 askVars, panicked>>

\* lnd answers a payment that failed, or may answer one it has already, with
\* payment_error and without a route, which Pay and PayViaRoute dereference.
PaymentError ==
  /\ pc \in {"pay", "toroute"} /\ payer = "lnd" /\ (payment = "failed" \/ tries > 1)
  /\ Panic
  /\ UNCHANGED <<nodeVars, funds, now, daemonVars, tries, timer, route, request,
                 result, reply>>

\* Fault: the request of WaitSendPay has neither timeout nor context.
RouteErrorUncut ==
  /\ \/ pc = "send"
     \/ pc = "toroute" /\ Overdue
     \/ pc = "wait" /\ payment = "failed"
  /\ Goto("error")
  /\ UNCHANGED <<nodeVars, funds, now, daemonVars, tries, timer, route, request,
                 result, reply, askVars, panicked>>

\* PayViaRoute returns an error: the call is refused, the payment failed, cln's
\* timeout or the deadline is over.
RouteError ==
  /\ \/ pc = "send"
     \/ pc \in {"toroute", "wait"} /\ Overdue
     \/ pc = "wait" /\ (payment = "failed" \/ now >= timer)
  /\ Goto("error")
  /\ UNCHANGED <<nodeVars, funds, now, daemonVars, tries, timer, route, request,
                 result, reply, askVars, panicked>>

\* The test tries again, although the payment may still be on its way.
Retry ==
  /\ pc = "error" /\ tries < MaxTries
  /\ Goto("send")
  /\ UNCHANGED <<nodeVars, funds, now, daemonVars, tries, timer, route, request,
                 result, reply, askVars, panicked>>

-----------------------------------------------------------------------------

\* Fault: an invoice that is not settled counts as expired.
StatusNegated(state) == [paid |-> state = "paid", expired |-> state # "paid"]

\* IsPaid and IsExpired.
Status(state) == [paid |-> state = "paid", expired |-> state = "expired"]

\* GetInvoice: lnd fails on an unknown hash, cln says so; the amount received
\* of an invoice of cln that is not paid is nil and dereferenced.
GetInvoice ==
  /\ asking
  /\ CASE invoice = "none" /\ payee = "lnd" ->
            asking' = FALSE /\ UNCHANGED <<answer, pc, panicked>>
       [] invoice = "none" /\ payee = "cln" ->
            answer' = Some([exists |-> FALSE]) /\ UNCHANGED <<asking, pc, panicked>>
       [] invoice \in {"open", "expired"} /\ payee = "cln" -> Panic
       [] OTHER ->
            /\ answer' = Some([exists |-> TRUE, received |-> received,
                               status |-> Status(invoice)])
            /\ UNCHANGED <<asking, pc, panicked>>
  /\ UNCHANGED <<nodeVars, funds, now, daemonVars, tries, timer, route, request,
                 result, reply>>

AskFails ==
  /\ asking
  /\ asking' = FALSE
  /\ UNCHANGED <<nodeVars, funds, now, daemonVars, callVars, answer, panicked>>

-----------------------------------------------------------------------------
(* The daemons and the clock.                                              *)

\* The payee settles its invoice, then the preimage travels back.  A route
\* whose hops are not those the payer's daemon found is of no use.
Usable == request = None \/ request = Found(payer)
HtlcSettles ==
  /\ htlc = "out" /\ invoice = "open" /\ Usable
  /\ invoice' = "paid" /\ received' = AmountMsat
  /\ htlc' = "back"
  /\ UNCHANGED <<nodeVars, funds, now, payment, spent, callVars, askVars, panicked>>
HtlcReturns ==
  /\ htlc = "back"
  /\ htlc' = "none" /\ payment' = "complete"
  /\ UNCHANGED <<nodeVars, funds, now, invoice, received, spent, callVars, askVars,
                 panicked>>
HtlcFails ==
  /\ htlc = "out"
  /\ htlc' = "none" /\ payment' = "failed" /\ spent' = 0
  /\ UNCHANGED <<nodeVars, funds, now, invoice, received, callVars, askVars,
                 panicked>>

\* The pay command of cln tries again until its time is over.
ClnRetries ==
  /\ pc = "pay" /\ payer = "cln" /\ payment = "failed" /\ now < timer
  /\ payment' = "pending" /\ htlc' = "out" /\ spent' = TotalMsat
  /\ UNCHANGED <<nodeVars, funds, now, invoice, received, callVars, askVars,
                 panicked>>

Expire ==
  /\ invoice = "open"
  /\ invoice' = "expired"
  /\ UNCHANGED <<nodeVars, funds, now, received, payment, htlc, spent, callVars,
                 askVars, panicked>>

Tick ==
  /\ ~ Overdue /\ ~ panicked
  /\ now' = now + 1
  /\ UNCHANGED <<nodeVars, funds, daemonVars, callVars, askVars, panicked>>

Payer ==
  \/ Fund \/ CreateBolt11Invoice \/ Pay \/ GetRoute \/ Send \/ Wait \/ WaitTooLate
  \/ PayReply \/ RouteReply \/ PaymentError \/ CallFails \/ RouteError \/ Retry

Next ==
  \/ Payer \/ PayReplyUnread \/ RequestFails
  \/ GetInvoice \/ AskFails
  \/ HtlcSettles \/ HtlcReturns \/ HtlcFails \/ ClnRetries \/ Expire
  \/ Tick

Spec == Init /\ [][Next]_vars

\* A request whose payment is complete or that has no answer in time returns;
\* the clock runs.  Daemons and the route owe nothing, nor does a request have
\* to fail or cln to answer before the payment is complete.
FairSpec == Spec /\ WF_vars(Payer) /\ WF_vars(Tick)

-----------------------------------------------------------------------------
(* Properties.                                                             *)

\* A result that stands for a payment that was made: each of lnd, each of
\* PayViaRoute, and of cln's Pay where cln's reply, unread, said so.
Told == result # None /\ (payer = "lnd" \/ request # None \/ reply = "complete")

\* Such a result is true, after any number of timeouts and retries: the payment
\* is complete and the invoice paid, and it names the payee, what the payee
\* received and what the payer spent.
ResultIsTrue ==
  Told =>
    /\ payment = "complete" /\ invoice = "paid"
    /\ result = Some([amount |-> received, spent |-> spent, dest |-> hops])

\* The invoice of the payee, the payer's results and the answers of GetInvoice
\* keep the order of module PaymentPromise: no such result before the payee has
\* been paid, no answer that is not, or is no longer, so.
Seen ==
  IF answer = None THEN "nothing"
  ELSE IF ~ answer[1].exists THEN "none"
  ELSE IF answer[1].status.paid THEN "paid"
  ELSE IF answer[1].status.expired THEN "expired" ELSE "open"
Promise == INSTANCE PaymentPromise WITH told <- Told, seen <- Seen
ImplementsPromise == Promise!Spec

\* PayViaRoute asks for the very hops GetRoute found, as long as the delays fit
\* into the sixteen bits of Hop.Delay: channel ids survive the change of form.
RouteKept ==
  /\ request # None
  /\ \A k \in 1 .. hops : Found(payer)[k].delay < DelayWidth
  => request = Found(payer)

\* Fund brings the node exactly the amount it was called with.
FundedExactly == funds \in {0, fund}

\* cln gives up before the harness does, and less than a second before.
GivesUpInTime ==
  pc \in {"pay", "wait"} /\ payer = "cln" => timer \in Deadline - 1 .. Deadline

\* Every payment call comes to an end, whatever becomes of the payment.
CallsEnd == pc \in Blocked ~> pc \notin Blocked
=============================================================================
