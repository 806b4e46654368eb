------------------------------- MODULE Payments -------------------------------
(***************************************************************************)
(* Subscription payments (src/payments), manual upgrade requests and the   *)
(* Super Admin's own edits of an organization (src/organization): the ways *)
(* an organization gets a plan.                                            *)
(*                                                                         *)
(* A payment is settled by what the provider says of it, in a webhook or   *)
(* in the answer to a verification; both may be late, repeated or out of   *)
(* order.  processTrustedProviderTransaction reads the transaction row,    *)
(* decides, and commits all its writes together: the database transaction  *)
(* is READ COMMITTED, so another one may commit between that read and this *)
(* commit.  Every other handler is likewise split at its awaits.           *)
(***************************************************************************)
EXTENDS Naturals

CONSTANTS
    Organizations,
    Transactions,       \* ids of payment transactions, and their references
    UpgradeRequests,    \* ids of upgrade requests
    Handlers,           \* handlers that may be in flight at the same time
    ActivePlans,        \* plans of the catalogue that may be bought
    RequestedPlans,     \* plans that organizations ask for by hand
    GrantedPlans,       \* plans that a Super Admin gives without a payment
    Null

VARIABLES
    txn,            \* the PaymentTransaction table
    upgrade,        \* the OrganizationUpgradeRequest table
    plan,           \* plan[o]: Organization.subscriptionPlan
    granted,        \* history: the plan that o last got without a payment
    subscribed,     \* transactions with an OrganizationSubscription row
    receipted,      \* transactions with a PaymentReceipt row
    activated,      \* activated[t]: how often t started a billing period
    charge,         \* the provider's own record of each reference
    events,         \* webhook events the provider has sent, for any delivery
    handler         \* handler[c]: where handler c is

vars == <<txn, upgrade, plan, granted, subscribed, receipted, activated,
          charge, events, handler>>

Plans ==
    {"FREE", "DEMO", "STARTER", "PROFESSIONAL", "GOVERNMENT", "ENTERPRISE"}

ASSUME PlansAssumption ==
    ActivePlans \cup RequestedPlans \cup GrantedPlans \subseteq Plans
ASSUME NullAssumption ==
    Null \notin Organizations \cup Transactions \cup UpgradeRequests \cup Plans

TransactionStatuses ==
    {"INITIALIZED", "PENDING", "PROCESSING", "PAID", "FAILED", "REFUNDED",
     "REVIEW_REQUIRED"}

RequestStatuses == {"PENDING", "REJECTED", "COMPLETED"}

\* How the provider sees a reference, and what it may say of one.
ChargeStates == {"UNKNOWN", "OPEN", "PAID", "FAILED", "REFUNDED"}
TrustedStatuses == {"PENDING", "PAID", "FAILED", "REFUNDED"}

Idle ==
    [step |-> "IDLE", id |-> Null, status |-> Null, agrees |-> TRUE,
     org |-> Null, plan |-> Null, todo |-> {}]

\* Handler c goes on; a handler of reconcilePending keeps its candidates.
Goes(c, q) == handler' = [handler EXCEPT ![c] = q]

Ends(c) ==
    Goes(c, IF handler[c].todo = {} THEN Idle
            ELSE [Idle EXCEPT !.step = "NEXT", !.todo = handler[c].todo])

tables == <<txn, upgrade, plan, granted, subscribed, receipted, activated>>
provider == <<charge, events>>

With(f, k, v) == [x \in DOMAIN f \cup {k} |-> IF x = k THEN v ELSE f[x]]

-----------------------------------------------------------------------------
(* Starting a payment *)

\* A checkout of this organization and plan that can still be used.
Reusable(t, o, p) ==
    /\ txn[t].org = o
    /\ txn[t].plan = p
    /\ txn[t].status = "PENDING"
    /\ txn[t].fresh
    /\ txn[t].url

initializeOrganizationPayment(c, o, p) ==
    /\ handler[c] = Idle
    /\ \A t \in DOMAIN txn : ~Reusable(t, o, p)
    /\ Goes(c, [Idle EXCEPT !.step = "CREATE", !.org = o, !.plan = p])
    /\ UNCHANGED <<tables, provider>>

CreateTransaction(c, t) ==
    /\ handler[c].step = "CREATE"
    /\ t \notin DOMAIN txn
    /\ txn' = With(txn, t, [org |-> handler[c].org, plan |-> handler[c].plan,
                            status |-> "INITIALIZED", url |-> FALSE,
                            fresh |-> TRUE])
    /\ Goes(c, [Idle EXCEPT !.step = "CALL", !.id = t])
    /\ UNCHANGED <<upgrade, plan, granted, subscribed, receipted, activated,
                   provider>>

\* The provider opens the charge, possibly for another amount (it knows plans
\* of its own), and its answer arrives or is lost; or it refuses.
CallProvider(c, opens, agrees, answered) ==
    /\ handler[c].step = "CALL"
    /\ charge' = IF opens
                 THEN [charge EXCEPT ![handler[c].id] =
                         [state |-> "OPEN", agrees |-> agrees]]
                 ELSE charge
    /\ Goes(c, [handler[c] EXCEPT !.step = "CALLED",
                    !.status = IF opens /\ answered THEN "PENDING"
                               ELSE "FAILED"])
    /\ UNCHANGED <<tables, events>>

\* The update after the provider's answer, or the one in the catch block;
\* the catch block also gets a failure of the audit entry after the answer.
RecordCheckout(c) ==
    LET t == handler[c].id
        status == handler[c].status
    IN  /\ handler[c].step = "CALLED"
        /\ txn' = [txn EXCEPT ![t].status = status,
                              ![t].url = @ \/ status = "PENDING"]
        /\ \/ Goes(c, Idle)
           \/ /\ status = "PENDING"
              /\ Goes(c, [handler[c] EXCEPT !.status = "FAILED"])
        /\ UNCHANGED <<upgrade, plan, granted, subscribed, receipted, activated,
                       provider>>

-----------------------------------------------------------------------------
(* The provider: payers pay, fail and are refunded *)

Moves(t, state, agrees) ==
    /\ charge' = [charge EXCEPT ![t].state = state]
    /\ events' = events \cup {[id |-> t, status |-> state, agrees |-> agrees]}
    /\ UNCHANGED <<tables, handler>>

\* A payer needs the checkout's URL; a failed attempt may be repeated.
Pay(t) ==
    /\ t \in DOMAIN txn
    /\ txn[t].url
    /\ charge[t].state \in {"OPEN", "FAILED"}
    /\ Moves(t, "PAID", charge[t].agrees)

FailToPay(t) ==
    /\ t \in DOMAIN txn
    /\ txn[t].url
    /\ charge[t].state = "OPEN"
    /\ Moves(t, "FAILED", charge[t].agrees)

\* A refund may be of a part only: its amount then differs.
Refund(t, whole) ==
    /\ charge[t].state = "PAID"
    /\ Moves(t, "REFUNDED", whole /\ charge[t].agrees)

\* normalizeTransaction of a verification's answer: a text other than
\* success and failed is PENDING.
Answers(state) ==
    CASE state = "PAID"     -> {"PAID"}
      [] state = "FAILED"   -> {"FAILED"}
      [] state = "OPEN"     -> {"PENDING"}
      [] state = "REFUNDED" -> {"PENDING", "PAID"}
      [] OTHER              -> {}

-----------------------------------------------------------------------------
(* Settling a payment *)

Trusts(c, t, status, agrees) ==
    Goes(c, [handler[c] EXCEPT !.step = "TRUSTED", !.id = t,
                               !.status = status, !.agrees = agrees])

handlePaystackWebhook(c, e) ==
    /\ handler[c] = Idle
    /\ e \in events
    /\ Trusts(c, e.id, e.status, e.agrees)
    /\ UNCHANGED <<tables, provider>>

verifyTransaction(c, t, status) ==
    /\ handler[c] = Idle
    /\ t \in DOMAIN txn
    /\ status \in Answers(charge[t].state)
    /\ Trusts(c, t, status, charge[t].agrees)
    /\ UNCHANGED <<tables, provider>>

reconcilePending(c) ==
    LET candidates == {t \in DOMAIN txn :
            txn[t].status \in {"INITIALIZED", "PENDING", "PROCESSING"}}
    IN  /\ handler[c] = Idle
        /\ candidates # {}
        /\ Goes(c, [Idle EXCEPT !.step = "NEXT", !.todo = candidates])
        /\ UNCHANGED <<tables, provider>>

\* The next candidate: the provider answers, or the loop counts a failure.
ReconcileNext(c, t) ==
    LET rest == handler[c].todo \ {t}
    IN  /\ handler[c].step = "NEXT"
        /\ t \in handler[c].todo
        /\ \/ \E status \in Answers(charge[t].state) :
                Goes(c, [handler[c] EXCEPT
                            !.step = "TRUSTED", !.id = t, !.status = status,
                            !.agrees = charge[t].agrees, !.todo = rest])
           \/ Goes(c, IF rest = {} THEN Idle
                      ELSE [handler[c] EXCEPT !.todo = rest])
        /\ UNCHANGED <<tables, provider>>

\* The status that the row gets, given what the provider is trusted to say.
\* Mutant: amount and currency are not compared.
SettleAnyAmount(status, agrees) ==
    IF status = "PENDING" THEN "PROCESSING" ELSE status

SettledStatus(status, agrees) ==
    IF ~agrees THEN "REVIEW_REQUIRED"
    ELSE IF status = "PENDING" THEN "PROCESSING"
    ELSE status

\* processTrustedProviderTransaction: the read inside the transaction.
\* Mutant: a transaction already paid is settled again.
DecideAgain(c) ==
    /\ handler[c].step = "TRUSTED"
    /\ Goes(c, [handler[c] EXCEPT
                  !.step = "COMMIT",
                  !.status = SettledStatus(handler[c].status,
                                           handler[c].agrees)])
    /\ UNCHANGED <<tables, provider>>

Decide(c) ==
    /\ handler[c].step = "TRUSTED"
    /\ IF txn[handler[c].id].status = "PAID"
       THEN Ends(c)
       ELSE Goes(c, [handler[c] EXCEPT
                       !.step = "COMMIT",
                       !.status = SettledStatus(handler[c].status,
                                                handler[c].agrees)])
    /\ UNCHANGED <<tables, provider>>

Again(n) == IF n = "NEVER" THEN "ONCE" ELSE "AGAIN"

\* updateMany of the pending requests that a payment for p fulfils.
CompleteRequests(o, p) ==
    [u \in DOMAIN upgrade |->
        IF upgrade[u].org = o /\ upgrade[u].plan = p
           /\ upgrade[u].status = "PENDING"
        THEN [upgrade[u] EXCEPT !.status = "COMPLETED"]
        ELSE upgrade[u]]

\* Mutant: no receipt is issued.
WithoutReceipt(t) ==
    /\ plan' = [plan EXCEPT ![txn[t].org] = txn[t].plan]
    /\ subscribed' = subscribed \cup {t}
    /\ activated' = [activated EXCEPT ![t] = Again(@)]
    /\ upgrade' = CompleteRequests(txn[t].org, txn[t].plan)
    /\ UNCHANGED receipted

fulfillPayment(t) ==
    /\ plan' = [plan EXCEPT ![txn[t].org] = txn[t].plan]
    /\ subscribed' = subscribed \cup {t}
    /\ receipted' = receipted \cup {t}
    /\ activated' = [activated EXCEPT ![t] = Again(@)]
    /\ upgrade' = CompleteRequests(txn[t].org, txn[t].plan)

\* The transaction commits: the row's status, and a fulfilment if it is PAID.
CommitSettlement(c) ==
    LET t == handler[c].id
    IN  /\ handler[c].step = "COMMIT"
        /\ txn' = [txn EXCEPT ![t].status = handler[c].status]
        /\ IF handler[c].status = "PAID"
           THEN fulfillPayment(t)
           ELSE UNCHANGED <<upgrade, plan, subscribed, receipted, activated>>
        /\ Ends(c)
        /\ UNCHANGED <<granted, provider>>

-----------------------------------------------------------------------------
(* Manual upgrade requests *)

planRank ==
    [FREE |-> 0, DEMO |-> 0, STARTER |-> 1, PROFESSIONAL |-> 2,
     GOVERNMENT |-> 3, ENTERPRISE |-> 4]

isDowngrade(current, requested) == planRank[requested] < planRank[current]

requestUpgrade(c, o, p) ==
    /\ handler[c] = Idle
    /\ plan[o] # p
    /\ ~isDowngrade(plan[o], p)
    /\ \A u \in DOMAIN upgrade :
            ~(upgrade[u].org = o /\ upgrade[u].status = "PENDING")
    /\ Goes(c, [Idle EXCEPT !.step = "REQUEST", !.org = o, !.plan = p])
    /\ UNCHANGED <<tables, provider>>

CreateRequest(c, u) ==
    /\ handler[c].step = "REQUEST"
    /\ u \notin DOMAIN upgrade
    /\ upgrade' = With(upgrade, u, [org |-> handler[c].org,
                                    plan |-> handler[c].plan,
                                    status |-> "PENDING"])
    /\ Goes(c, Idle)
    /\ UNCHANGED <<txn, plan, granted, subscribed, receipted, activated,
                   provider>>

\* Mutant: a settled request may be reviewed again.
ReviewSettled(c, u, decision) ==
    /\ handler[c] = Idle
    /\ u \in DOMAIN upgrade
    /\ Goes(c, [Idle EXCEPT !.step = "REVIEW", !.id = u, !.status = decision])
    /\ UNCHANGED <<tables, provider>>

reviewUpgradeRequest(c, u, decision) ==
    /\ handler[c] = Idle
    /\ u \in DOMAIN upgrade
    /\ upgrade[u].status = "PENDING"
    /\ Goes(c, [Idle EXCEPT !.step = "REVIEW", !.id = u, !.status = decision])
    /\ UNCHANGED <<tables, provider>>

\* The rejection's update, or the batch of an approval.
CommitReview(c) ==
    LET u == handler[c].id
    IN  /\ handler[c].step = "REVIEW"
        /\ upgrade' = [upgrade EXCEPT ![u].status = handler[c].status]
        /\ plan' = IF handler[c].status = "COMPLETED"
                   THEN [plan EXCEPT ![upgrade[u].org] = upgrade[u].plan]
                   ELSE plan
        /\ Goes(c, Idle)
        /\ UNCHANGED <<txn, granted, subscribed, receipted, activated, provider>>

-----------------------------------------------------------------------------
(* The Super Admin's own edits *)

\* update reads the organization; a downgrade that usage forbids ends here.
update(c, o, p) ==
    /\ handler[c] = Idle
    /\ Goes(c, [Idle EXCEPT !.step = "GRANT", !.org = o, !.plan = p])
    /\ UNCHANGED <<tables, provider>>

\* buildOrganizationData puts the plan among the columns that are written.
CommitUpdate(c) ==
    LET o == handler[c].org
    IN  /\ handler[c].step = "GRANT"
        /\ plan' = [plan EXCEPT ![o] = handler[c].plan]
        /\ granted' = [granted EXCEPT ![o] = handler[c].plan]
        /\ Goes(c, Idle)
        /\ UNCHANGED <<txn, upgrade, subscribed, receipted, activated, provider>>

-----------------------------------------------------------------------------
\* Twenty minutes pass: the checkout is no longer offered again.
CheckoutAges(t) ==
    /\ t \in DOMAIN txn
    /\ txn[t].fresh
    /\ txn' = [txn EXCEPT ![t].fresh = FALSE]
    /\ UNCHANGED <<upgrade, plan, granted, subscribed, receipted, activated,
                   provider, handler>>

\* The process restarts or the database refuses: the handler is over.
Abandon(c) ==
    /\ handler[c] # Idle
    /\ Goes(c, Idle)
    /\ UNCHANGED <<tables, provider>>

\* Organizations as they were created: FREE by their own registration, with
\* any plan by a Super Admin (create).
Init ==
    /\ txn = [t \in {} |-> Null]
    /\ upgrade = [u \in {} |-> Null]
    /\ plan \in [Organizations -> GrantedPlans \cup {"FREE"}]
    /\ granted = plan
    /\ subscribed = {}
    /\ receipted = {}
    /\ activated = [t \in Transactions |-> "NEVER"]
    /\ charge = [t \in Transactions |-> [state |-> "UNKNOWN", agrees |-> TRUE]]
    /\ events = {}
    /\ handler = [c \in Handlers |-> Idle]

Next ==
    \/ \E t \in Transactions :
        \/ Pay(t) \/ FailToPay(t) \/ CheckoutAges(t)
        \/ \E whole \in BOOLEAN : Refund(t, whole)
    \/ \E c \in Handlers :
        \/ \E o \in Organizations, p \in ActivePlans :
                initializeOrganizationPayment(c, o, p)
        \/ \E t \in Transactions :
            \/ CreateTransaction(c, t)
            \/ ReconcileNext(c, t)
            \/ \E status \in TrustedStatuses : verifyTransaction(c, t, status)
        \/ \E opens, agrees, answered \in BOOLEAN :
                CallProvider(c, opens, agrees, answered)
        \/ RecordCheckout(c)
        \/ \E e \in events : handlePaystackWebhook(c, e)
        \/ reconcilePending(c)
        \/ Decide(c)
        \/ CommitSettlement(c)
        \/ \E o \in Organizations, p \in RequestedPlans :
                requestUpgrade(c, o, p)
        \/ \E u \in UpgradeRequests :
            \/ CreateRequest(c, u)
            \/ \E decision \in {"REJECTED", "COMPLETED"} :
                    reviewUpgradeRequest(c, u, decision)
        \/ CommitReview(c)
        \/ \E o \in Organizations, p \in GrantedPlans : update(c, o, p)
        \/ CommitUpdate(c)
        \/ Abandon(c)

Spec == Init /\ [][Next]_vars

-----------------------------------------------------------------------------
TransactionRow ==
    [org : Organizations, plan : ActivePlans, status : TransactionStatuses,
     url : BOOLEAN, fresh : BOOLEAN]

RequestRow ==
    [org : Organizations, plan : RequestedPlans, status : RequestStatuses]

Event == [id : Transactions, status : {"PAID", "FAILED", "REFUNDED"},
          agrees : BOOLEAN]

HandlerRecord ==
    [step : {"IDLE", "CREATE", "CALL", "CALLED", "TRUSTED", "NEXT", "COMMIT",
             "REQUEST", "REVIEW", "GRANT"},
     id : Transactions \cup UpgradeRequests \cup {Null},
     status : TransactionStatuses \cup RequestStatuses \cup {Null},
     agrees : BOOLEAN,
     org : Organizations \cup {Null},
     plan : Plans \cup {Null},
     todo : SUBSET Transactions]

\* What the step of a handler needs of its record.
HandlerOK(q) ==
    /\ q.todo \subseteq DOMAIN txn
    /\ q.step = "CREATE" => q.org \in Organizations /\ q.plan \in ActivePlans
    /\ q.step = "REQUEST" =>
         q.org \in Organizations /\ q.plan \in RequestedPlans
    /\ q.step = "GRANT" => q.org \in Organizations /\ q.plan \in GrantedPlans
    /\ q.step \in {"CALL", "CALLED", "TRUSTED", "COMMIT"} => q.id \in DOMAIN txn
    /\ q.step = "CALLED" => q.status \in {"PENDING", "FAILED"}
    /\ q.step = "TRUSTED" => q.status \in TrustedStatuses
    /\ q.step = "COMMIT" => q.status \in TransactionStatuses
    /\ q.step = "REVIEW" =>
         q.id \in DOMAIN upgrade /\ q.status \in {"REJECTED", "COMPLETED"}

(***************************************************************************)
(* Tables hold rows of their types, events and handlers refer to existing  *)
(* transactions and requests.                                              *)
(***************************************************************************)
PaymentsTypeOK ==
    /\ DOMAIN txn \subseteq Transactions
    /\ txn \in [DOMAIN txn -> TransactionRow]
    /\ DOMAIN upgrade \subseteq UpgradeRequests
    /\ upgrade \in [DOMAIN upgrade -> RequestRow]
    /\ plan \in [Organizations -> Plans]
    /\ granted \in [Organizations -> Plans]
    /\ subscribed \subseteq DOMAIN txn
    /\ receipted \subseteq DOMAIN txn
    /\ activated \in [Transactions -> {"NEVER", "ONCE", "AGAIN"}]
    /\ charge \in [Transactions -> [state : ChargeStates, agrees : BOOLEAN]]
    /\ events \subseteq Event
    /\ \A e \in events : e.id \in DOMAIN txn
    /\ handler \in [Handlers -> HandlerRecord]
    /\ \A c \in Handlers : HandlerOK(handler[c])

(***************************************************************************)
(* However deliveries and handlers interleave, fulfilment is whole: a      *)
(* transaction has a receipt exactly if it has a subscription, and a paid  *)
(* one has both (the writes of fulfillPayment are one transaction, and its *)
(* upserts are keyed by the payment).                                      *)
(***************************************************************************)
ReceiptsMatch ==
    /\ receipted = subscribed
    /\ \A t \in DOMAIN txn : txn[t].status = "PAID" => t \in receipted
    /\ \A t \in Transactions : t \in receipted <=> activated[t] # "NEVER"

(***************************************************************************)
(* However deliveries and handlers interleave, nothing is activated that   *)
(* was not paid: the payer of every fulfilled transaction has paid, and    *)
(* paid the amount of the plan.                                            *)
(***************************************************************************)
ActivationIsPaid ==
    \A t \in receipted :
        charge[t].state \in {"PAID", "REFUNDED"} /\ charge[t].agrees

(***************************************************************************)
(* Fulfilment is idempotent: however often the provider reports a payment, *)
(* it starts one billing period.                                           *)
(***************************************************************************)
ActivatedOnce == \A t \in Transactions : activated[t] # "AGAIN"

(***************************************************************************)
(* Every plan in force is accounted for: by a receipt of a payment for it, *)
(* by a completed upgrade request, or by the last plan that the            *)
(* organization was given by hand, at its creation or in a Super Admin's   *)
(* update.                                                                 *)
(***************************************************************************)
PlanIsBacked ==
    \A o \in Organizations :
        \/ plan[o] = granted[o]
        \/ \E t \in receipted : txn[t].org = o /\ txn[t].plan = plan[o]
        \/ \E u \in DOMAIN upgrade :
              /\ upgrade[u].org = o
              /\ upgrade[u].plan = plan[o]
              /\ upgrade[u].status = "COMPLETED"

=============================================================================
