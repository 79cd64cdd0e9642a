------------------------------ MODULE Gateways ------------------------------
(***************************************************************************)
(* The gateway of ChaosPay for the clients of one of its three banks, and  *)
(* what its answers, its payments and its notifications have to do with    *)
(* one another.                                                            *)
(***************************************************************************)
EXTENDS EpayGateway, FlittGateway, FreedomGateway

Serve(c) == EpayServe(c) \/ FlittServe(c) \/ FreedomServe(c)

Next ==
  \/ EpayNext \/ FlittNext \/ FreedomNext
  \/ \E l \in due : RunLookup(l)

\* Go runs a handler and a goroutine that are not blocked; time goes on.
Fairness ==
  /\ \A c \in Clients : WF_vars(Serve(c))
  /\ \A id \in Ids : WF_vars(AsyncHold(id)) /\ WF_vars(TimePasses(id))

Spec == Init /\ [][Next]_vars /\ Fairness

-----------------------------------------------------------------------------
(* Answers and payments *)

StatusThen(id) == pays'[id].rec.status

\* What a payment has come to when its client is told "ok" at ep; the endpoints
\* that only look promise nothing.
Promised(ep) ==
  CASE ep \in {"init", "init_payment.php", "add2", "flitt_checkout"} -> {"NEW"}
    [] ep \in {"direct", "epay_cryptopay", "epay_card_auth", "epay_confirm",
               "flitt_direct", "flitt_recurring", "flitt_3ds_step2"} \cup Wallets
         -> {"AUTHORIZED"}
    [] ep \in {"do_capture.php", "epay_charge", "flitt_capture"} -> {"CAPTURED"}
    [] ep \in {"cancel.php", "epay_cancel"} -> {"CANCELLED"}
    [] ep \in {"revoke.php", "epay_refund"} -> {"REFUNDED", "PARTIAL_REFUNDED"}
    [] ep = "flitt_reverse" -> {"CANCELLED", "REFUNDED", "PARTIAL_REFUNDED"}
    [] OTHER -> Statuses

\* The three answers that promise too much.  A recurring charge whose rule names
\* a 3DS check is approved while it waits for it; step2 approves an order that
\* is past its check, a failed or a cancelled one too; and a refund that a rule
\* declines or leaves pending is answered like one that was made.
Unchecked(r) == r.req.ep = "flitt_recurring" /\ Outcome(r.rule) \in Challenges3DS
PastCheck(r) ==
  /\ r.req.ep = "flitt_3ds_step2"
  /\ \E id \in DOMAIN pays : NewestOf(r.req.order, id) /\ Status(id) # "NEW"
NotRefunded(r) ==
  r.req.ep = "revoke.php" /\ r.rule.action \in {"refund_declined", "refund_pending"}

Excepted(r) == Unchecked(r) \/ PastCheck(r) \/ NotRefunded(r)

\* What a client is told and what became of its payment agree.  Told of success,
\* the three exceptions aside, and of a lost confirmation, a payment has been
\* opened or moved as promised.  Told of anything else nothing has changed, but
\* for a decline, which is on record, and an operation Epay reports late; nor
\* has it when step2 approves an order past its check.  An error that a rule
\* calls ambiguous is no exception: its rule answers in place of the handler.
AnswersAgree ==
  [][\A c \in Clients : Served(c) =>
       LET r == call[c] IN
       /\ last' \in {"ok", "distorted"} /\ Promised(r.req.ep) # Statuses /\ ~Excepted(r)
            => \E id \in Touched : StatusThen(id) \in Promised(r.req.ep)
       /\ last' = "lost" /\ r.req.ep = "epay_confirm"
            => \E id \in Touched : StatusThen(id) = "AUTHORIZED"
       /\ last' \in {"refused", "error", "garbled", "ambiguous", "held"} \/ PastCheck(r)
            => Touched = {} \/ r.rule.action = "epay_late_operation"
       /\ last' = "declined"
            => \A id \in Touched : StatusThen(id) = "FAILED"]_vars

\* A decline Epay answers is on record by then, for check-status to show it:
\* it would be lost if the rule answered before the handler (jsonEndpoint,
\* "otherwise check-status will not show it").
DeclineOnRecord ==
  [][\A c \in Clients :
       LET r  == call[c]
           id == IF r.req.id = 0 THEN NewID ELSE r.req.id
       IN  Served(c) /\ bank = "epay" /\ r.rule.action = "force_failure"
             /\ r.req.ep \in {"epay_cryptopay", "epay_card_auth", "epay_confirm"}
             /\ last' # "error"
           => id \in DOMAIN pays' /\ StatusThen(id) = "FAILED"]_vars

\* Once check-status has found an invoice it finds it for ever, although a
\* later attempt at the invoice may be hidden for a while (paymentByInvoice
\* takes the newest operation of those that are visible).
FoundStaysFound ==
  [][\A c \in Clients :
       Served(c) /\ call[c].req.ep = "epay_status" /\ call[c].req.order \in found
         => last' # "error"]_vars

-----------------------------------------------------------------------------
(* Notifications and payments *)

Announceable == {"AUTHORIZED", "CAPTURED", "CANCELLED"}
OwnNotes(id, s) == Copies(notes, id, s, "success")

\* Every hold, capture and cancellation of a payment is announced when it is
\* made, unless a rule keeps it silent: at Epay once, at Flitt at least once,
\* because step2 repeated for an order that is held announces it again.
EveryMoveAnnounced ==
  \A id \in DOMAIN pays : \A s \in pays[id].rec.history \cap Announceable :
    /\ AutoWebhook /\ bank = "epay" /\ pays[id].kind = "pay" /\ ~pays[id].muted
       => Cardinality(OwnNotes(id, s)) = 1
    /\ AutoWebhook /\ bank = "flitt" => OwnNotes(id, s) # {}

\* What a note of a kind may tell of payment p: always a status p has been in.
\* A success is none but of a payment that has left NEW, and not to FAILED; a
\* binding is announced when it is opened, under its 3DS check or held.  What
\* nobody asked for, the early postlink and the callback of a refused request,
\* is sent as a success whatever it tells.
Tells(p, kind, says) ==
  /\ says \in p.rec.history
  /\ kind = "success" => says \notin {"NEW", "FAILED"}
  /\ kind = "bind"    => says \in {"NEW", "AUTHORIZED"} /\ p.kind = "bind"
  /\ kind = "failure" => says = "FAILED"

\* No notification tells a status its payment has not been in, however early its
\* goroutine reads the payment, or how late: not the early postlink of a charge
\* that is then refused, nor a callback that takes the newest payment of an
\* order; and no check that is still open, nor a failure, is told as a success
\* but by those two.
NotesAreTrue == \A n \in notes : Tells(pays[n.id], n.kind, n.says)

-----------------------------------------------------------------------------
(* What must come to pass *)

\* A silent hold takes place: the client is told of an error and the payment
\* leaves NEW all the same, by the goroutine or by a retry that got ahead.
SilentHoldHappens ==
  \A c \in Clients, id \in Ids :
    (/\ Waiting(c) /\ call[c].req.id = id /\ bank = "freedom"
     /\ call[c].rule.action = "sync_error_async_webhook"
     /\ Known(id) /\ Status(id) = "NEW")
    ~> (Known(id) /\ Status(id) # "NEW")

\* A client that keeps asking for an invoice finds a late operation in the end.
Hides(o)  == \E id \in DOMAIN pays : pays[id].order = o /\ pays[id].hidden
Asking(o) == \E c \in Clients : call[c].req = ByOrder("epay_status", o)
                                /\ call[c].rule = Plain
LateIsFound ==
  \A o \in Orders : <>Hides(o) /\ []<>Asking(o) => <>(o \in found)

-----------------------------------------------------------------------------
(* What the source says and the code does not do *)

\* service.go, the preset flitt_3ds_decline: "direct/recurring returns acs_url",
\* the address of the 3DS check the new payment then waits for.
CheckIsAskedFor ==
  [][\A c \in Clients :
       Served(c) /\ call[c].req.ep \in {"flitt_direct", "flitt_recurring"}
           /\ call[c].rule.action = "force_3ds" /\ last' # "error"
         => last' = "challenge" /\ StatusThen(NewID) = "NEW"]_vars
=============================================================================
