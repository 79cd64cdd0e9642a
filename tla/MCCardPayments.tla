--------------------------- MODULE MCCardPayments ---------------------------
(***************************************************************************)
(* Instances of CardPayments for TLC: the workload of a single bank, which *)
(* leaves room for more payments and refunds than all banks together.      *)
(* Clients are interchangeable and no property of these runs is a liveness *)
(* property, so the runs use their symmetry.                               *)
(***************************************************************************)
EXTENDS CardPayments, TLC

ClientSymmetry == Permutations(Clients)

\* Freedom Pay and the wallets.
FreedomStep(c) ==
  \/ HoldInit(c) \/ CreateHosted(c) \/ CreateBind(c)
  \/ Create(c) \/ Transition(c) \/ CommitCapture(c) \/ CommitFields(c)
  \/ TakeRefundID(c) \/ CommitRevoke(c)
  \/ \E id \in Ids : \/ Hold(c, id) \/ AuthorizeWallet(c, id)
                     \/ Capture(c, id) \/ Cancel(c, id)
                     \/ RevokeWithOutcome(c, id)

FreedomNext == (\E c \in Clients : FreedomStep(c)) \/ Reset
FreedomSpec == Init /\ [][FreedomNext]_vars

FairFreedomSpec == FreedomSpec /\ Fairness

\* Epay and Flitt on one repository, and what Freedom's and the wallets'
\* methods, which do not look at the bank, do to the payments of both.
BanksStep(c) ==
  \/ EpayAuthorize(c) \/ EpayDecline(c) \/ EpayLateOperation(c)
  \/ FlittCheckout(c) \/ FlittDirect(c) \/ FlittRecurring(c)
  \/ Create(c) \/ Transition(c) \/ CommitCapture(c) \/ CommitRefund(c)
  \/ CommitFail(c) \/ CommitFields(c) \/ ReadBack(c)
  \/ TakeRefundID(c) \/ CommitRevoke(c)
  \/ \E id \in Ids : \/ Hold(c, id) \/ AuthorizeWallet(c, id)
                     \/ Capture(c, id) \/ EpayCharge(c, id) \/ FlittCapture(c, id)
                     \/ Cancel(c, id) \/ EpayCancel(c, id)
                     \/ EpayRefund(c, id) \/ FlittReverse(c, id)
                     \/ RevokeWithOutcome(c, id) \/ FlittComplete3DS(c, id)

BanksNext == (\E c \in Clients : BanksStep(c)) \/ Reset
BanksSpec == Init /\ [][BanksNext]_vars
=============================================================================
