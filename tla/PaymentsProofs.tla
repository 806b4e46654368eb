---------------------------- MODULE PaymentsProofs ----------------------------
(***************************************************************************)
(* Theorems about payments for every set of organizations, transactions,   *)
(* upgrade requests and handlers.                                          *)
(*                                                                         *)
(* That nothing is activated that was not paid is not inductive: it rests  *)
(* on what events and handlers still in flight claim.  TrustIsEarned says  *)
(* that every claim of an agreeing payment, in an event, in an answer      *)
(* already read or in a commit about to happen, is true of the provider's  *)
(* charge; a charge once paid stays so.  That in turn needs the handler    *)
(* that opens a charge to be alone with it (OpensOnce).                    *)
(***************************************************************************)
EXTENDS MCPayments, TLAPS

\* The payer has paid t, the right amount.
Paid(t) == charge[t].state \in {"PAID", "REFUNDED"} /\ charge[t].agrees

TrustIsEarned ==
    /\ \A e \in events : e.status = "PAID" /\ e.agrees => Paid(e.id)
    /\ \A c \in Handlers :
        /\ handler[c].step = "TRUSTED" /\ handler[c].status = "PAID"
             /\ handler[c].agrees => Paid(handler[c].id)
        /\ handler[c].step = "COMMIT" /\ handler[c].status = "PAID"
             => Paid(handler[c].id)

\* The charge of a reference is opened by one handler, once.
OpensOnce ==
    /\ \A t \in Transactions \ DOMAIN txn : charge[t].state = "UNKNOWN"
    /\ \A c \in Handlers : handler[c].step = "CALL" =>
        /\ charge[handler[c].id].state = "UNKNOWN"
        /\ \A d \in Handlers \ {c} :
             handler[d].step = "CALL" => handler[d].id # handler[c].id

PaymentsInv ==
    /\ PaymentsTypeOK
    /\ ReceiptsMatch
    /\ ActivationIsPaid
    /\ TrustIsEarned
    /\ OpensOnce

-----------------------------------------------------------------------------
(* Handlers *)

\* A record a handler may go on to in a step that changes no table: it is
\* well typed, opens no charge, and claims only payments that were made.
Earned(q) ==
    /\ q \in HandlerRecord
    /\ HandlerOK(q)
    /\ q.step # "CALL"
    /\ q.step = "TRUSTED" /\ q.status = "PAID" /\ q.agrees => Paid(q.id)
    /\ q.step = "COMMIT" /\ q.status = "PAID" => Paid(q.id)

\* The idle record is one.
LEMMA IdleEarned ==
    /\ Earned(Idle)
    /\ Idle \in HandlerRecord
    /\ Idle.step = "IDLE" /\ Idle.todo = {}
<1>1. /\ Idle \in HandlerRecord
      /\ Idle.step = "IDLE" /\ Idle.todo = {}
  BY DEF Idle, HandlerRecord
<1> QED
  BY <1>1 DEF Earned, HandlerOK

\* Such a step keeps the invariant.
LEMMA HandlerStep ==
    ASSUME PaymentsInv, NEW c \in Handlers, NEW q, Earned(q),
           Goes(c, q), UNCHANGED <<tables, provider>>
    PROVE  PaymentsInv'
<1> USE DEF PaymentsInv, tables, provider
<1>1. /\ handler'[c] = q
      /\ \A d \in Handlers \ {c} : handler'[d] = handler[d]
      /\ handler' \in [Handlers -> HandlerRecord]
  BY DEF Goes, PaymentsTypeOK, Earned
<1>2. PaymentsTypeOK'
  BY <1>1 DEF PaymentsTypeOK, Earned, HandlerOK
<1>3. ReceiptsMatch'
  BY DEF ReceiptsMatch
<1>4. ActivationIsPaid'
  BY DEF ActivationIsPaid
<1>5. TrustIsEarned'
  BY <1>1 DEF TrustIsEarned, Earned, Paid
<1>6. OpensOnce'
  BY <1>1 DEF OpensOnce, Earned
<1> QED BY <1>2, <1>3, <1>4, <1>5, <1>6

\* A finished handler is idle or goes on with its candidates.
LEMMA EndsEarned ==
    ASSUME PaymentsInv, NEW c \in Handlers, Ends(c)
    PROVE  \E q : Earned(q) /\ Goes(c, q) /\ q.step \in {"IDLE", "NEXT"}
                            /\ q.todo = handler[c].todo
<1> DEFINE n == [Idle EXCEPT !.step = "NEXT", !.todo = handler[c].todo]
<1>1. handler[c] \in HandlerRecord /\ handler[c].todo \subseteq DOMAIN txn
  BY DEF PaymentsInv, PaymentsTypeOK, HandlerOK
<1>2. n \in HandlerRecord /\ n.step = "NEXT" /\ n.todo = handler[c].todo
  BY <1>1, IdleEarned DEF HandlerRecord, Idle
<1>3. Earned(n)
  BY <1>1, <1>2 DEF Earned, HandlerOK
<1>4. CASE handler[c].todo = {}
  BY <1>4, IdleEarned DEF Ends
<1>5. CASE handler[c].todo # {}
  BY <1>2, <1>3, <1>5 DEF Ends
<1> QED BY <1>4, <1>5

-----------------------------------------------------------------------------
(* Steps that only move a handler *)

\* The steps that read, decide or give up, and leave every table alone.
LEMMA QuietSteps ==
    ASSUME PaymentsInv, NEW c \in Handlers,
           \/ \E o \in Organizations, p \in ActivePlans :
                initializeOrganizationPayment(c, o, p)
           \/ \E e \in events : handlePaystackWebhook(c, e)
           \/ \E t \in Transactions, status \in TrustedStatuses :
                verifyTransaction(c, t, status)
           \/ reconcilePending(c)
           \/ \E t \in Transactions : ReconcileNext(c, t)
           \/ Decide(c)
           \/ \E o \in Organizations, p \in RequestedPlans :
                requestUpgrade(c, o, p)
           \/ \E u \in UpgradeRequests, decision \in {"REJECTED", "COMPLETED"} :
                reviewUpgradeRequest(c, u, decision)
           \/ \E o \in Organizations, p \in GrantedPlans : update(c, o, p)
           \/ Abandon(c)
    PROVE  PaymentsInv'
<1>a. /\ handler[c] \in HandlerRecord /\ HandlerOK(handler[c])
      /\ DOMAIN txn \subseteq Transactions
      /\ DOMAIN upgrade \subseteq UpgradeRequests
      /\ charge \in [Transactions -> [state : ChargeStates, agrees : BOOLEAN]]
      /\ events \subseteq Event /\ \A e \in events : e.id \in DOMAIN txn
  BY DEF PaymentsInv, PaymentsTypeOK
<1>b. \A t \in Transactions : "PAID" \in Answers(charge[t].state)
          => charge[t].state \in {"PAID", "REFUNDED"}
  BY <1>a DEF Answers, ChargeStates
<1>c. ASSUME NEW t \in DOMAIN txn, NEW status \in Answers(charge[t].state),
             NEW rest \in SUBSET DOMAIN txn,
             NEW q, q = [handler[c] EXCEPT !.step = "TRUSTED", !.id = t,
                            !.status = status, !.agrees = charge[t].agrees,
                            !.todo = rest]
      PROVE  Earned(q)
  <2>1. status \in TrustedStatuses
    BY <1>a, <1>c DEF Answers, TrustedStatuses
  <2>2. status = "PAID" /\ charge[t].agrees => Paid(t)
    BY <1>a, <1>b, <1>c DEF Paid
  <2>3. /\ q \in HandlerRecord
        /\ q.step = "TRUSTED" /\ q.id = t /\ q.status = status
        /\ q.agrees = charge[t].agrees /\ q.todo = rest
    BY <1>a, <1>c, <2>1
    DEF HandlerRecord, TrustedStatuses, TransactionStatuses
  <2> QED
    BY <2>1, <2>2, <2>3 DEF Earned, HandlerOK
<1>1. ASSUME NEW o \in Organizations, NEW p \in ActivePlans,
             initializeOrganizationPayment(c, o, p)
      PROVE  PaymentsInv'
  <2> DEFINE q == [Idle EXCEPT !.step = "CREATE", !.org = o, !.plan = p]
  <2>1. q \in HandlerRecord /\ q.step = "CREATE" /\ q.org = o /\ q.plan = p
        /\ q.todo = {}
    BY PlansAssumption, IdleEarned DEF HandlerRecord, Idle
  <2>2. Earned(q)
    BY <2>1 DEF Earned, HandlerOK
  <2> HIDE DEF q
  <2> QED BY <1>1, <2>2, HandlerStep DEF initializeOrganizationPayment, q
<1>2. ASSUME NEW e \in events, handlePaystackWebhook(c, e)
      PROVE  PaymentsInv'
  <2> DEFINE q == [handler[c] EXCEPT !.step = "TRUSTED", !.id = e.id,
                        !.status = e.status, !.agrees = e.agrees]
  <2>1. /\ e.id \in DOMAIN txn /\ e.status \in TrustedStatuses
        /\ e.agrees \in BOOLEAN
        /\ e.status = "PAID" /\ e.agrees => Paid(e.id)
    BY <1>a DEF Event, TrustedStatuses, PaymentsInv, TrustIsEarned
  <2>2. /\ q \in HandlerRecord
        /\ q.step = "TRUSTED" /\ q.id = e.id /\ q.status = e.status
        /\ q.agrees = e.agrees /\ q.todo = handler[c].todo
    BY <1>a, <2>1 DEF HandlerRecord, TrustedStatuses, TransactionStatuses
  <2>3. Earned(q)
    BY <1>a, <2>1, <2>2 DEF Earned, HandlerOK
  <2>4. Goes(c, q) /\ UNCHANGED <<tables, provider>>
    BY <1>2 DEF handlePaystackWebhook, Trusts
  <2> HIDE DEF q
  <2> QED BY <2>3, <2>4, HandlerStep
<1>3. ASSUME NEW t \in Transactions, NEW status \in TrustedStatuses,
             verifyTransaction(c, t, status)
      PROVE  PaymentsInv'
  <2> DEFINE q == [handler[c] EXCEPT !.step = "TRUSTED", !.id = t,
                        !.status = status, !.agrees = charge[t].agrees,
                        !.todo = handler[c].todo]
  <2>1. q = [handler[c] EXCEPT !.step = "TRUSTED", !.id = t,
                        !.status = status, !.agrees = charge[t].agrees]
    BY <1>a DEF HandlerRecord
  <2>2. Earned(q)
    BY <1>3, <1>a, <1>c DEF verifyTransaction, HandlerOK
  <2>3. Goes(c, q) /\ UNCHANGED <<tables, provider>>
    BY <1>3, <2>1 DEF verifyTransaction, Trusts
  <2> HIDE DEF q
  <2> QED BY <2>2, <2>3, HandlerStep
<1>4. CASE reconcilePending(c)
  <2> DEFINE candidates == {t \in DOMAIN txn :
                txn[t].status \in {"INITIALIZED", "PENDING", "PROCESSING"}}
             q == [Idle EXCEPT !.step = "NEXT", !.todo = candidates]
  <2>1. q \in HandlerRecord /\ q.step = "NEXT" /\ q.todo = candidates
    BY <1>a, IdleEarned DEF HandlerRecord, Idle
  <2>2. Earned(q)
    BY <2>1 DEF Earned, HandlerOK
  <2>3. Goes(c, q) /\ UNCHANGED <<tables, provider>>
    BY <1>4 DEF reconcilePending
  <2> HIDE DEF q
  <2> QED BY <2>2, <2>3, HandlerStep
<1>5. ASSUME NEW t \in Transactions, ReconcileNext(c, t)
      PROVE  PaymentsInv'
  <2> DEFINE rest == handler[c].todo \ {t}
  <2>1. t \in DOMAIN txn /\ rest \subseteq DOMAIN txn
        /\ UNCHANGED <<tables, provider>>
    BY <1>5, <1>a DEF ReconcileNext, HandlerOK
  <2>2. CASE \E status \in Answers(charge[t].state) :
                Goes(c, [handler[c] EXCEPT
                            !.step = "TRUSTED", !.id = t, !.status = status,
                            !.agrees = charge[t].agrees, !.todo = rest])
    BY <1>c, <2>1, <2>2, HandlerStep
  <2>3. CASE Goes(c, IF rest = {} THEN Idle
                      ELSE [handler[c] EXCEPT !.todo = rest])
    <3> DEFINE n == [handler[c] EXCEPT !.todo = rest]
    <3>1. handler[c].step = "NEXT"
      BY <1>5 DEF ReconcileNext
    <3>2. n \in HandlerRecord /\ n.step = "NEXT" /\ n.todo = rest
      BY <1>a, <2>1, <3>1 DEF HandlerRecord
    <3>3. Earned(n)
      BY <2>1, <3>2 DEF Earned, HandlerOK
    <3> HIDE DEF n
    <3>4. CASE rest = {}
      BY <2>1, <2>3, <3>4, IdleEarned, HandlerStep
    <3>5. CASE rest # {}
      BY <2>1, <2>3, <3>3, <3>5, HandlerStep DEF n
    <3> QED BY <3>4, <3>5
  <2> QED BY <1>5, <2>2, <2>3 DEF ReconcileNext
<1>6. CASE Decide(c)
  <2>1. handler[c].step = "TRUSTED" /\ UNCHANGED <<tables, provider>>
    BY <1>6 DEF Decide
  <2>2. CASE Ends(c)
    BY <2>1, <2>2, EndsEarned, HandlerStep
  <2> DEFINE settled == SettledStatus(handler[c].status, handler[c].agrees)
             q == [handler[c] EXCEPT !.step = "COMMIT", !.status = settled]
  <2>3. CASE Goes(c, q)
    <3>1. /\ settled \in TransactionStatuses
          /\ settled = "PAID" => handler[c].status = "PAID" /\ handler[c].agrees
      BY <1>a, <2>1
      DEF SettledStatus, HandlerOK, TrustedStatuses, TransactionStatuses
    <3>2. settled = "PAID" => Paid(handler[c].id)
      BY <2>1, <3>1 DEF PaymentsInv, TrustIsEarned
    <3> HIDE DEF settled
    <3>3. /\ q \in HandlerRecord
          /\ q.step = "COMMIT" /\ q.status = settled
          /\ q.id = handler[c].id /\ q.todo = handler[c].todo
      BY <1>a, <3>1 DEF HandlerRecord
    <3>4. Earned(q)
      BY <1>a, <2>1, <3>1, <3>2, <3>3 DEF Earned, HandlerOK
    <3> HIDE DEF q
    <3> QED BY <2>1, <2>3, <3>4, HandlerStep
  <2> QED BY <1>6, <2>2, <2>3 DEF Decide
<1>7. ASSUME NEW o \in Organizations, NEW p \in RequestedPlans,
             requestUpgrade(c, o, p)
      PROVE  PaymentsInv'
  <2> DEFINE q == [Idle EXCEPT !.step = "REQUEST", !.org = o, !.plan = p]
  <2>1. q \in HandlerRecord /\ q.step = "REQUEST" /\ q.org = o /\ q.plan = p
        /\ q.todo = {}
    BY PlansAssumption, IdleEarned DEF HandlerRecord, Idle
  <2>2. Earned(q)
    BY <2>1 DEF Earned, HandlerOK
  <2> HIDE DEF q
  <2> QED BY <1>7, <2>2, HandlerStep DEF requestUpgrade, q
<1>8. ASSUME NEW u \in UpgradeRequests, NEW decision \in {"REJECTED", "COMPLETED"},
             reviewUpgradeRequest(c, u, decision)
      PROVE  PaymentsInv'
  <2> DEFINE q == [Idle EXCEPT !.step = "REVIEW", !.id = u, !.status = decision]
  <2>1. /\ q \in HandlerRecord /\ q.step = "REVIEW" /\ q.id = u
        /\ q.status = decision /\ q.todo = {}
    BY IdleEarned DEF HandlerRecord, Idle, RequestStatuses
  <2>2. Earned(q)
    BY <1>8, <2>1 DEF Earned, HandlerOK, reviewUpgradeRequest
  <2> HIDE DEF q
  <2> QED BY <1>8, <2>2, HandlerStep DEF reviewUpgradeRequest, q
<1>9. CASE Abandon(c)
  BY <1>9, IdleEarned, HandlerStep DEF Abandon
<1>10. ASSUME NEW o \in Organizations, NEW p \in GrantedPlans, update(c, o, p)
       PROVE  PaymentsInv'
  <2> DEFINE q == [Idle EXCEPT !.step = "GRANT", !.org = o, !.plan = p]
  <2>1. q \in HandlerRecord /\ q.step = "GRANT" /\ q.org = o /\ q.plan = p
        /\ q.todo = {}
    BY PlansAssumption, IdleEarned DEF HandlerRecord, Idle
  <2>2. Earned(q)
    BY <2>1 DEF Earned, HandlerOK
  <2> HIDE DEF q
  <2> QED BY <1>10, <2>2, HandlerStep DEF update, q
<1> QED
  BY <1>1, <1>2, <1>3, <1>4, <1>5, <1>6, <1>7, <1>8, <1>9, <1>10

-----------------------------------------------------------------------------
(* Steps that write *)

\* A payment that is started gets a row no event, charge or handler knew of.
LEMMA CreateTransactionStep ==
    ASSUME PaymentsInv, NEW c \in Handlers, NEW t \in Transactions,
           CreateTransaction(c, t)
    PROVE  PaymentsInv'
<1> DEFINE row == [org |-> handler[c].org, plan |-> handler[c].plan,
                   status |-> "INITIALIZED", url |-> FALSE, fresh |-> TRUE]
           q == [Idle EXCEPT !.step = "CALL", !.id = t]
<1>1. /\ handler[c] \in HandlerRecord /\ HandlerOK(handler[c])
      /\ handler[c].step = "CREATE" /\ t \notin DOMAIN txn
      /\ txn' = With(txn, t, row) /\ Goes(c, q)
      /\ UNCHANGED <<upgrade, plan, granted, subscribed, receipted, activated,
                     charge, events>>
  BY DEF PaymentsInv, PaymentsTypeOK, CreateTransaction, provider
<1>2. row \in TransactionRow /\ row.status = "INITIALIZED"
  BY <1>1 DEF TransactionRow, HandlerOK, TransactionStatuses
<1>3. q \in HandlerRecord /\ q.step = "CALL" /\ q.id = t /\ q.todo = {}
  BY IdleEarned DEF HandlerRecord, Idle
<1> HIDE DEF row, q
<1>4. /\ DOMAIN txn' = DOMAIN txn \cup {t}
      /\ txn'[t] = row
      /\ \A s \in DOMAIN txn : txn'[s] = txn[s]
      /\ txn' \in [DOMAIN txn' -> TransactionRow]
  BY <1>1, <1>2 DEF With, PaymentsInv, PaymentsTypeOK
<1>5. /\ handler'[c] = q
      /\ \A d \in Handlers \ {c} : handler'[d] = handler[d]
      /\ handler' \in [Handlers -> HandlerRecord]
  BY <1>1, <1>3 DEF Goes, PaymentsInv, PaymentsTypeOK
<1>6. PaymentsTypeOK'
  <2>1. \A d \in Handlers : HandlerOK(handler[d])
    BY DEF PaymentsInv, PaymentsTypeOK
  <2>2. (\A d \in Handlers : HandlerOK(handler[d]))'
    BY <1>1, <1>3, <1>4, <1>5, <2>1 DEF HandlerOK
  <2> QED
    BY <1>1, <1>4, <1>5, <2>2 DEF PaymentsInv, PaymentsTypeOK
<1>7. ReceiptsMatch'
  BY <1>1, <1>2, <1>4 DEF PaymentsInv, ReceiptsMatch
<1>8. ActivationIsPaid'
  BY <1>1 DEF PaymentsInv, ActivationIsPaid
<1>9. TrustIsEarned'
  BY <1>1, <1>3, <1>5 DEF PaymentsInv, TrustIsEarned, Paid
<1>10. OpensOnce'
  <2>1. \A d \in Handlers : handler[d].step = "CALL" => handler[d].id # t
    BY <1>1 DEF PaymentsInv, PaymentsTypeOK, HandlerOK
  <2> QED
    BY <1>1, <1>3, <1>4, <1>5, <2>1 DEF PaymentsInv, OpensOnce
<1> QED BY <1>6, <1>7, <1>8, <1>9, <1>10 DEF PaymentsInv

\* A step that changes rows of existing transactions, keeping the status of
\* the fulfilled ones or else fulfilling them, and moves one handler.
LEMMA RowsStep ==
    ASSUME PaymentsInv, NEW c \in Handlers, NEW q, Earned(q), Goes(c, q),
           DOMAIN txn' = DOMAIN txn, txn' \in [DOMAIN txn -> TransactionRow],
           \A t \in DOMAIN txn :
              txn'[t].status = "PAID" => txn[t].status = "PAID",
           UNCHANGED <<upgrade, plan, granted, subscribed, receipted, activated,
                       charge, events>>
    PROVE  PaymentsInv'
<1>1. /\ handler'[c] = q
      /\ \A d \in Handlers \ {c} : handler'[d] = handler[d]
      /\ handler' \in [Handlers -> HandlerRecord]
  BY DEF Goes, PaymentsInv, PaymentsTypeOK, Earned
<1>2. PaymentsTypeOK'
  BY <1>1 DEF PaymentsInv, PaymentsTypeOK, Earned, HandlerOK
<1>3. ReceiptsMatch'
  BY DEF PaymentsInv, ReceiptsMatch
<1>4. ActivationIsPaid'
  BY DEF PaymentsInv, ActivationIsPaid
<1>5. TrustIsEarned'
  BY <1>1 DEF PaymentsInv, TrustIsEarned, Earned, Paid
<1>6. OpensOnce'
  BY <1>1 DEF PaymentsInv, OpensOnce, Earned
<1> QED BY <1>2, <1>3, <1>4, <1>5, <1>6 DEF PaymentsInv

\* The row records the checkout, or that there is none.
LEMMA RecordCheckoutStep ==
    ASSUME PaymentsInv, NEW c \in Handlers, RecordCheckout(c)
    PROVE  PaymentsInv'
<1> DEFINE t == handler[c].id
           url == txn[t].url \/ handler[c].status = "PENDING"
           q == [handler[c] EXCEPT !.status = "FAILED"]
<1>1. /\ handler[c] \in HandlerRecord /\ HandlerOK(handler[c])
      /\ handler[c].step = "CALLED"
      /\ t \in DOMAIN txn /\ handler[c].status \in {"PENDING", "FAILED"}
      /\ txn \in [DOMAIN txn -> TransactionRow]
      /\ Goes(c, Idle) \/ Goes(c, q)
      /\ UNCHANGED <<upgrade, plan, granted, subscribed, receipted, activated,
                     charge, events>>
  BY DEF PaymentsInv, PaymentsTypeOK, HandlerOK, RecordCheckout, provider
<1>2. txn' = [txn EXCEPT ![t] = [txn[t] EXCEPT
                 !.status = handler[c].status, !.url = url]]
  BY <1>1 DEF RecordCheckout, TransactionRow
<1>3. url \in BOOLEAN
  OBVIOUS
<1> HIDE DEF url
<1>4. /\ DOMAIN txn' = DOMAIN txn /\ txn' \in [DOMAIN txn -> TransactionRow]
      /\ txn'[t].status = handler[c].status
      /\ \A s \in DOMAIN txn \ {t} : txn'[s] = txn[s]
  BY <1>1, <1>2, <1>3 DEF TransactionRow, TransactionStatuses
<1>5. /\ q \in HandlerRecord /\ q.step = "CALLED" /\ q.status = "FAILED"
      /\ q.id = t /\ q.todo = handler[c].todo
  BY <1>1 DEF HandlerRecord, TransactionStatuses
<1>6. Earned(q)
  BY <1>1, <1>5 DEF Earned, HandlerOK
<1> HIDE DEF q
<1> QED BY <1>1, <1>4, <1>6, RowsStep, IdleEarned

\* A charge is opened while no one claims it paid.
LEMMA CallProviderStep ==
    ASSUME PaymentsInv, NEW c \in Handlers, NEW opens \in BOOLEAN,
           NEW agrees \in BOOLEAN, NEW answered \in BOOLEAN,
           CallProvider(c, opens, agrees, answered)
    PROVE  PaymentsInv'
<1> DEFINE t == handler[c].id
           status == IF opens /\ answered THEN "PENDING" ELSE "FAILED"
           q == [handler[c] EXCEPT !.step = "CALLED", !.status = status]
<1>1. /\ handler[c] \in HandlerRecord /\ HandlerOK(handler[c])
      /\ handler[c].step = "CALL"
      /\ t \in DOMAIN txn /\ t \in Transactions
      /\ charge[t].state = "UNKNOWN" /\ ~Paid(t)
      /\ charge \in [Transactions -> [state : ChargeStates, agrees : BOOLEAN]]
      /\ UNCHANGED <<tables, events>>
  BY DEF PaymentsInv, PaymentsTypeOK, HandlerOK, OpensOnce, CallProvider, Paid
<1>2. Goes(c, q)
  BY DEF CallProvider
<1>3. status \in {"PENDING", "FAILED"}
  OBVIOUS
<1> HIDE DEF status
<1>4. /\ q \in HandlerRecord /\ q.step = "CALLED" /\ q.status = status
      /\ q.id = t /\ q.todo = handler[c].todo
  BY <1>1, <1>3 DEF HandlerRecord, TransactionStatuses
<1>5. Earned(q)
  BY <1>1, <1>3, <1>4 DEF Earned, HandlerOK
<1> HIDE DEF q
<1>6. CASE ~opens
  BY <1>1, <1>2, <1>5, <1>6, HandlerStep DEF CallProvider, provider
<1>7. CASE opens
  <2>1. /\ charge' \in [Transactions -> [state : ChargeStates, agrees : BOOLEAN]]
        /\ charge'[t].state = "OPEN"
        /\ \A s \in Transactions \ {t} : charge'[s] = charge[s]
    BY <1>1, <1>7 DEF CallProvider, ChargeStates
  <2>2. \A s \in Transactions : Paid(s) => Paid(s)'
    BY <1>1, <2>1 DEF Paid
  <2>3. /\ handler'[c] = q
        /\ \A d \in Handlers \ {c} : handler'[d] = handler[d]
        /\ handler' \in [Handlers -> HandlerRecord]
    BY <1>2, <1>4 DEF Goes, PaymentsInv, PaymentsTypeOK
  <2>4. PaymentsTypeOK'
    <3>1. (\A d \in Handlers : HandlerOK(handler[d]))'
      BY <1>1, <1>5, <2>3 DEF PaymentsInv, PaymentsTypeOK, HandlerOK, Earned, tables
    <3> QED
      BY <1>1, <2>1, <2>3, <3>1 DEF PaymentsInv, PaymentsTypeOK, tables
  <2>5. ReceiptsMatch'
    BY <1>1 DEF PaymentsInv, ReceiptsMatch, tables
  <2>6. ActivationIsPaid'
    BY <1>1, <2>2
    DEF PaymentsInv, PaymentsTypeOK, ActivationIsPaid, Paid, tables
  <2>7. TrustIsEarned'
    <3>1. \A e \in events : e.id \in Transactions
      BY DEF PaymentsInv, PaymentsTypeOK
    <3>2. \A d \in Handlers : handler[d].step \in {"TRUSTED", "COMMIT"}
             => handler[d].id \in Transactions
      BY DEF PaymentsInv, PaymentsTypeOK, HandlerOK
    <3> QED
      BY <1>1, <1>4, <2>2, <2>3, <3>1, <3>2 DEF PaymentsInv, TrustIsEarned
  <2>8. OpensOnce'
    <3>1. \A d \in Handlers \ {c} : handler[d].step = "CALL" =>
             handler[d].id # t /\ handler[d].id \in Transactions
      BY <1>1 DEF PaymentsInv, PaymentsTypeOK, HandlerOK, OpensOnce
    <3>2. UNCHANGED txn
      BY <1>1 DEF tables
    <3> QED
      BY <1>1, <1>4, <2>1, <2>3, <3>1, <3>2 DEF PaymentsInv, OpensOnce
  <2> QED BY <2>4, <2>5, <2>6, <2>7, <2>8 DEF PaymentsInv
<1> QED BY <1>6, <1>7

\* What the provider does with a charge that is known keeps it paid, and its
\* event says no more than is true.
LEMMA ProviderStep ==
    ASSUME PaymentsInv, NEW t \in DOMAIN txn, NEW agrees \in BOOLEAN,
           NEW state \in {"PAID", "FAILED", "REFUNDED"},
           Moves(t, state, agrees),
           charge[t].state # "UNKNOWN",
           agrees => charge[t].agrees,
           state = "FAILED" => charge[t].state = "OPEN"
    PROVE  PaymentsInv'
<1> DEFINE e == [id |-> t, status |-> state, agrees |-> agrees]
<1>1. /\ t \in Transactions
      /\ charge \in [Transactions -> [state : ChargeStates, agrees : BOOLEAN]]
  BY DEF PaymentsInv, PaymentsTypeOK
<1>2. /\ events' = events \cup {e} /\ UNCHANGED <<tables, handler>>
      /\ charge' = [charge EXCEPT ![t] = [charge[t] EXCEPT !.state = state]]
  BY <1>1 DEF Moves
<1>3. /\ e \in Event /\ e.id = t /\ e.status = state /\ e.agrees = agrees
  BY <1>1 DEF Event
<1> HIDE DEF e
<1>4. /\ charge' \in [Transactions -> [state : ChargeStates, agrees : BOOLEAN]]
      /\ charge'[t].state = state /\ charge'[t].agrees = charge[t].agrees
      /\ \A s \in Transactions \ {t} : charge'[s] = charge[s]
  BY <1>1, <1>2 DEF ChargeStates
<1>5. \A s \in Transactions : Paid(s) => Paid(s)'
  BY <1>1, <1>4 DEF Paid
<1>6. state = "PAID" /\ agrees => Paid(t)'
  BY <1>4 DEF Paid
<1>7. PaymentsTypeOK'
  BY <1>2, <1>3, <1>4
  DEF PaymentsInv, PaymentsTypeOK, HandlerOK, tables
<1>8. ReceiptsMatch'
  BY <1>2 DEF PaymentsInv, ReceiptsMatch, tables
<1>9. ActivationIsPaid'
  BY <1>2, <1>5
  DEF PaymentsInv, PaymentsTypeOK, ActivationIsPaid, Paid, tables
<1>10. TrustIsEarned'
  <2>1. \A x \in events : x.id \in Transactions
    BY DEF PaymentsInv, PaymentsTypeOK
  <2>2. \A d \in Handlers : handler[d].step \in {"TRUSTED", "COMMIT"}
           => handler[d].id \in Transactions
    BY DEF PaymentsInv, PaymentsTypeOK, HandlerOK
  <2> QED
    BY <1>2, <1>3, <1>5, <1>6, <2>1, <2>2 DEF PaymentsInv, TrustIsEarned
<1>11. OpensOnce'
  <2>1. \A d \in Handlers : handler[d].step = "CALL" =>
           handler[d].id # t /\ handler[d].id \in Transactions
    BY DEF PaymentsInv, PaymentsTypeOK, HandlerOK, OpensOnce
  <2> QED
    BY <1>2, <1>4, <2>1 DEF PaymentsInv, OpensOnce, tables
<1> QED BY <1>7, <1>8, <1>9, <1>10, <1>11 DEF PaymentsInv

\* A settlement commits: if it is a payment, it was made, and it is fulfilled.
LEMMA CommitSettlementStep ==
    ASSUME PaymentsInv, NEW c \in Handlers, CommitSettlement(c)
    PROVE  PaymentsInv'
<1> DEFINE t == handler[c].id
           status == handler[c].status
<1>1. /\ handler[c].step = "COMMIT"
      /\ t \in DOMAIN txn /\ t \in Transactions
      /\ status \in TransactionStatuses
      /\ txn \in [DOMAIN txn -> TransactionRow]
      /\ Ends(c) /\ UNCHANGED <<granted, charge, events>>
  BY DEF PaymentsInv, PaymentsTypeOK, HandlerOK, CommitSettlement, provider
<1>2. txn' = [txn EXCEPT ![t] = [txn[t] EXCEPT !.status = status]]
  BY <1>1 DEF CommitSettlement, TransactionRow
<1>3. /\ DOMAIN txn' = DOMAIN txn /\ txn' \in [DOMAIN txn -> TransactionRow]
      /\ txn'[t].status = status
      /\ \A s \in DOMAIN txn \ {t} : txn'[s] = txn[s]
  BY <1>1, <1>2 DEF TransactionRow
<1>4. PICK q : Earned(q) /\ Goes(c, q) /\ q.step \in {"IDLE", "NEXT"}
  BY <1>1, EndsEarned
<1>5. CASE status # "PAID"
  BY <1>1, <1>3, <1>4, <1>5, RowsStep DEF CommitSettlement
<1>6. CASE status = "PAID"
  <2>1. /\ plan' = [plan EXCEPT ![txn[t].org] = txn[t].plan]
        /\ subscribed' = subscribed \cup {t}
        /\ receipted' = receipted \cup {t}
        /\ activated' = [activated EXCEPT ![t] = Again(@)]
        /\ upgrade' = CompleteRequests(txn[t].org, txn[t].plan)
    BY <1>6 DEF CommitSettlement, fulfillPayment
  <2>2. Paid(t)
    BY <1>1, <1>6 DEF PaymentsInv, TrustIsEarned
  <2>3. /\ handler'[c] = q
        /\ \A d \in Handlers \ {c} : handler'[d] = handler[d]
        /\ handler' \in [Handlers -> HandlerRecord]
    BY <1>4 DEF Goes, PaymentsInv, PaymentsTypeOK, Earned
  <2>4. /\ DOMAIN upgrade' = DOMAIN upgrade
        /\ upgrade' \in [DOMAIN upgrade -> RequestRow]
    <3>1. \A u \in DOMAIN upgrade :
             [upgrade[u] EXCEPT !.status = "COMPLETED"] \in RequestRow
      BY DEF PaymentsInv, PaymentsTypeOK, RequestRow, RequestStatuses
    <3> QED
      BY <2>1, <3>1 DEF CompleteRequests, PaymentsInv, PaymentsTypeOK
  <2>5. plan' \in [Organizations -> Plans]
    BY <1>1, <2>1, PlansAssumption
    DEF PaymentsInv, PaymentsTypeOK, TransactionRow
  <2>6. /\ activated' \in [Transactions -> {"NEVER", "ONCE", "AGAIN"}]
        /\ activated'[t] # "NEVER"
        /\ \A s \in Transactions \ {t} : activated'[s] = activated[s]
    BY <1>1, <2>1 DEF PaymentsInv, PaymentsTypeOK, Again
  <2>7. PaymentsTypeOK'
    <3>1. (\A d \in Handlers : HandlerOK(handler[d]))'
      BY <1>3, <1>4, <2>3, <2>4
      DEF PaymentsInv, PaymentsTypeOK, HandlerOK, Earned
    <3> QED
      BY <1>1, <1>3, <2>1, <2>3, <2>4, <2>5, <2>6, <3>1
      DEF PaymentsInv, PaymentsTypeOK
  <2>8. ReceiptsMatch'
    BY <1>1, <1>3, <2>1, <2>6 DEF PaymentsInv, ReceiptsMatch
  <2>9. ActivationIsPaid'
    BY <1>1, <2>1, <2>2 DEF PaymentsInv, ActivationIsPaid, Paid
  <2>10. TrustIsEarned'
    BY <1>1, <1>4, <2>3 DEF PaymentsInv, TrustIsEarned, Paid
  <2>11. OpensOnce'
    BY <1>1, <1>3, <1>4, <2>3 DEF PaymentsInv, OpensOnce
  <2> QED BY <2>7, <2>8, <2>9, <2>10, <2>11 DEF PaymentsInv
<1> QED BY <1>5, <1>6

\* A step that writes upgrade requests and plans, and moves one handler.
LEMMA RequestsStep ==
    ASSUME PaymentsInv, NEW c \in Handlers, Goes(c, Idle),
           DOMAIN upgrade \subseteq DOMAIN upgrade',
           DOMAIN upgrade' \subseteq UpgradeRequests,
           upgrade' \in [DOMAIN upgrade' -> RequestRow],
           plan' \in [Organizations -> Plans],
           granted' \in [Organizations -> Plans],
           UNCHANGED <<txn, subscribed, receipted, activated, charge, events>>
    PROVE  PaymentsInv'
<1>1. /\ handler'[c] = Idle
      /\ \A d \in Handlers \ {c} : handler'[d] = handler[d]
      /\ handler' \in [Handlers -> HandlerRecord]
  BY IdleEarned DEF Goes, PaymentsInv, PaymentsTypeOK
<1>2. PaymentsTypeOK'
  <2>1. (\A d \in Handlers : HandlerOK(handler[d]))'
    BY <1>1, IdleEarned DEF PaymentsInv, PaymentsTypeOK, HandlerOK
  <2> QED
    BY <1>1, <2>1 DEF PaymentsInv, PaymentsTypeOK
<1>3. ReceiptsMatch'
  BY DEF PaymentsInv, ReceiptsMatch
<1>4. ActivationIsPaid'
  BY DEF PaymentsInv, ActivationIsPaid
<1>5. TrustIsEarned'
  BY <1>1, IdleEarned DEF PaymentsInv, TrustIsEarned, Paid
<1>6. OpensOnce'
  BY <1>1, IdleEarned DEF PaymentsInv, OpensOnce
<1> QED BY <1>2, <1>3, <1>4, <1>5, <1>6 DEF PaymentsInv

\* An upgrade request is added to the table.
LEMMA CreateRequestStep ==
    ASSUME PaymentsInv, NEW c \in Handlers, NEW u \in UpgradeRequests,
           CreateRequest(c, u)
    PROVE  PaymentsInv'
<1> DEFINE row == [org |-> handler[c].org, plan |-> handler[c].plan,
                   status |-> "PENDING"]
<1>1. row \in RequestRow
  BY DEF PaymentsInv, PaymentsTypeOK, CreateRequest, HandlerOK, RequestRow,
         RequestStatuses
<1> HIDE DEF row
<1>2. upgrade' = With(upgrade, u, row)
  BY DEF CreateRequest, row
<1>3. /\ DOMAIN upgrade' = DOMAIN upgrade \cup {u}
      /\ upgrade' \in [DOMAIN upgrade' -> RequestRow]
  BY <1>1, <1>2 DEF With, PaymentsInv, PaymentsTypeOK
<1> QED
  BY <1>3, RequestsStep
  DEF CreateRequest, provider, PaymentsInv, PaymentsTypeOK

\* A review is committed.
LEMMA CommitReviewStep ==
    ASSUME PaymentsInv, NEW c \in Handlers, CommitReview(c)
    PROVE  PaymentsInv'
<1> DEFINE u == handler[c].id
           status == handler[c].status
<1>1. /\ u \in DOMAIN upgrade /\ status \in {"REJECTED", "COMPLETED"}
      /\ upgrade \in [DOMAIN upgrade -> RequestRow]
  BY DEF PaymentsInv, PaymentsTypeOK, HandlerOK, CommitReview
<1>2. upgrade' = [upgrade EXCEPT ![u] = [upgrade[u] EXCEPT !.status = status]]
  BY <1>1 DEF CommitReview, RequestRow
<1>3. /\ DOMAIN upgrade' = DOMAIN upgrade
      /\ upgrade' \in [DOMAIN upgrade -> RequestRow]
  BY <1>1, <1>2 DEF RequestRow, RequestStatuses
<1>4. plan' \in [Organizations -> Plans]
  BY <1>1, PlansAssumption
  DEF CommitReview, PaymentsInv, PaymentsTypeOK, RequestRow
<1> QED
  BY <1>3, <1>4, RequestsStep
  DEF CommitReview, provider, PaymentsInv, PaymentsTypeOK

\* A Super Admin's edit is committed.
LEMMA CommitUpdateStep ==
    ASSUME PaymentsInv, NEW c \in Handlers, CommitUpdate(c)
    PROVE  PaymentsInv'
<1>1. handler[c].plan \in Plans
  BY PlansAssumption
  DEF PaymentsInv, PaymentsTypeOK, HandlerOK, CommitUpdate
<1>2. /\ plan' \in [Organizations -> Plans]
      /\ granted' \in [Organizations -> Plans]
  BY <1>1 DEF CommitUpdate, PaymentsInv, PaymentsTypeOK
<1> QED
  BY <1>2, RequestsStep
  DEF CommitUpdate, provider, PaymentsInv, PaymentsTypeOK

\* A checkout ages: its row stays as it is otherwise.
LEMMA CheckoutAgesStep ==
    ASSUME PaymentsInv, NEW t \in Transactions, CheckoutAges(t)
    PROVE  PaymentsInv'
<1>1. /\ t \in DOMAIN txn /\ txn \in [DOMAIN txn -> TransactionRow]
      /\ UNCHANGED <<upgrade, plan, granted, subscribed, receipted, activated,
                     charge, events, handler>>
  BY DEF PaymentsInv, PaymentsTypeOK, CheckoutAges, provider
<1>2. txn' = [txn EXCEPT ![t] = [txn[t] EXCEPT !.fresh = FALSE]]
  BY <1>1 DEF CheckoutAges, TransactionRow
<1>3. /\ DOMAIN txn' = DOMAIN txn /\ txn' \in [DOMAIN txn -> TransactionRow]
      /\ \A s \in DOMAIN txn : txn'[s].status = txn[s].status
  BY <1>1, <1>2 DEF TransactionRow
<1>4. PaymentsTypeOK'
  BY <1>1, <1>3 DEF PaymentsInv, PaymentsTypeOK, HandlerOK
<1>5. ReceiptsMatch'
  BY <1>1, <1>3 DEF PaymentsInv, ReceiptsMatch
<1>6. ActivationIsPaid'
  BY <1>1 DEF PaymentsInv, ActivationIsPaid
<1>7. TrustIsEarned'
  BY <1>1 DEF PaymentsInv, TrustIsEarned, Paid
<1>8. OpensOnce'
  BY <1>1, <1>3 DEF PaymentsInv, OpensOnce
<1> QED BY <1>4, <1>5, <1>6, <1>7, <1>8 DEF PaymentsInv

-----------------------------------------------------------------------------
(* The invariant *)

\* No table has a row, no charge is known and every handler is idle.
LEMMA InitInv == Init => PaymentsInv
<1> SUFFICES ASSUME Init PROVE PaymentsInv
  OBVIOUS
<1>1. /\ DOMAIN txn = {} /\ DOMAIN upgrade = {}
      /\ txn \in [DOMAIN txn -> TransactionRow]
      /\ upgrade \in [DOMAIN upgrade -> RequestRow]
  BY DEF Init
<1>2. \A c \in Handlers : handler[c] = Idle
  BY DEF Init
<1>3. PaymentsTypeOK
  <2>1. \A c \in Handlers : HandlerOK(handler[c])
    BY <1>2, IdleEarned DEF Earned
  <2>2. handler \in [Handlers -> HandlerRecord]
    BY IdleEarned DEF Init
  <2>3. charge \in [Transactions -> [state : ChargeStates, agrees : BOOLEAN]]
    BY DEF Init, ChargeStates
  <2>4. GrantedPlans \cup {"FREE"} \subseteq Plans
    BY PlansAssumption DEF Plans
  <2>5. /\ plan \in [Organizations -> Plans]
        /\ granted \in [Organizations -> Plans]
    BY <2>4 DEF Init
  <2> QED
    BY <1>1, <2>1, <2>2, <2>3, <2>5 DEF Init, PaymentsTypeOK
<1>4. ReceiptsMatch
  BY <1>1 DEF Init, ReceiptsMatch
<1>5. ActivationIsPaid
  BY DEF Init, ActivationIsPaid
<1>6. TrustIsEarned
  BY <1>2, IdleEarned DEF Init, TrustIsEarned
<1>7. OpensOnce
  BY <1>2, IdleEarned DEF Init, OpensOnce
<1> QED BY <1>3, <1>4, <1>5, <1>6, <1>7 DEF PaymentsInv

\* A stuttering step keeps it.
LEMMA StutterInv ==
    ASSUME PaymentsInv, UNCHANGED vars
    PROVE  PaymentsInv'
BY DEF vars, PaymentsInv, PaymentsTypeOK, HandlerOK, ReceiptsMatch,
       ActivationIsPaid, TrustIsEarned, Paid, OpensOnce

\* Every step keeps it.
LEMMA NextInv == PaymentsInv /\ [Next]_vars => PaymentsInv'
<1> SUFFICES ASSUME PaymentsInv, [Next]_vars PROVE PaymentsInv'
  OBVIOUS
<1>1. CASE UNCHANGED vars
  BY <1>1, StutterInv
<1>a. /\ charge \in [Transactions -> [state : ChargeStates, agrees : BOOLEAN]]
      /\ \A t \in Transactions : charge[t].state # "UNKNOWN" => t \in DOMAIN txn
  BY DEF PaymentsInv, PaymentsTypeOK, OpensOnce
<1>2. ASSUME NEW t \in Transactions,
             \/ Pay(t) \/ FailToPay(t)
             \/ \E whole \in BOOLEAN : Refund(t, whole)
      PROVE  PaymentsInv'
  <2>1. CASE Pay(t)
    BY <1>a, <2>1, ProviderStep DEF Pay
  <2>2. CASE FailToPay(t)
    BY <1>a, <2>2, ProviderStep DEF FailToPay
  <2>3. ASSUME NEW whole \in BOOLEAN, Refund(t, whole) PROVE PaymentsInv'
    <3>1. (whole /\ charge[t].agrees) \in BOOLEAN
      OBVIOUS
    <3> QED
      BY <1>a, <2>3, <3>1, ProviderStep DEF Refund
  <2> QED BY <1>2, <2>1, <2>2, <2>3
<1>3. ASSUME NEW c \in Handlers,
             \/ \E t \in Transactions : CreateTransaction(c, t)
             \/ \E opens, agrees, answered \in BOOLEAN :
                    CallProvider(c, opens, agrees, answered)
             \/ RecordCheckout(c)
             \/ CommitSettlement(c)
             \/ \E u \in UpgradeRequests : CreateRequest(c, u)
             \/ CommitReview(c)
             \/ CommitUpdate(c)
      PROVE  PaymentsInv'
  BY <1>3, CreateTransactionStep, CallProviderStep, RecordCheckoutStep,
     CommitSettlementStep, CreateRequestStep, CommitReviewStep,
     CommitUpdateStep
<1>4. CASE Next
  BY <1>2, <1>3, <1>4, CheckoutAgesStep, QuietSteps DEF Next
<1> QED BY <1>1, <1>4

\* The invariant always holds.
LEMMA InvAlways == Spec => []PaymentsInv
BY InitInv, NextInv, PTL DEF Spec

(***************************************************************************)
(* Payment and upgrade tables, events and handlers in flight always have   *)
(* their types, and refer to rows that exist.                              *)
(***************************************************************************)
THEOREM PaymentsTypeCorrect == Spec => []PaymentsTypeOK
<1>1. PaymentsInv => PaymentsTypeOK
  BY DEF PaymentsInv
<1> QED BY <1>1, InvAlways, PTL

(***************************************************************************)
(* For any number of concurrent deliveries, verifications and restarts, a  *)
(* payment's receipt, subscription and PAID status agree: fulfillPayment   *)
(* leaves no half of itself behind.                                        *)
(***************************************************************************)
THEOREM ReceiptsAlwaysMatch == Spec => []ReceiptsMatch
<1>1. PaymentsInv => ReceiptsMatch
  BY DEF PaymentsInv
<1> QED BY <1>1, InvAlways, PTL

(***************************************************************************)
(* For any number of concurrent deliveries, verifications and restarts,    *)
(* what is activated was paid, for the amount of its plan.                 *)
(***************************************************************************)
THEOREM ActivationAlwaysPaid == Spec => []ActivationIsPaid
<1>1. PaymentsInv => ActivationIsPaid
  BY DEF PaymentsInv
<1> QED BY <1>1, InvAlways, PTL

-----------------------------------------------------------------------------
(* Handlers that do not overlap.  What a handler has read is then still so *)
(* when it commits.                                                        *)

OneAtATime ==
    \A c, d \in Handlers : handler[c] # Idle /\ handler[d] # Idle => c = d

\* A fulfilled payment stays PAID, and no handler is about to settle it
\* again, to record its checkout, or to review a settled request.
InStep(q) ==
    /\ q.step \in {"CALL", "CALLED", "COMMIT"} => q.id \notin receipted
    /\ q.step = "REVIEW" => upgrade[q.id].status = "PENDING"

SettledForGood ==
    /\ \A t \in receipted : txn[t].status = "PAID"
    /\ ActivatedOnce
    /\ PlanIsBacked
    /\ \A c \in Handlers : InStep(handler[c])

\* A step that moves one handler and writes no table.
LEMMA SerialHandlerStep ==
    ASSUME PaymentsInv, SettledForGood, NEW c \in Handlers, NEW q,
           Goes(c, q), InStep(q), UNCHANGED tables
    PROVE  SettledForGood'
<1>1. /\ handler'[c] = q
      /\ \A d \in Handlers \ {c} : handler'[d] = handler[d]
      /\ UNCHANGED <<txn, upgrade, plan, granted, receipted, activated>>
  BY DEF Goes, PaymentsInv, PaymentsTypeOK, tables
<1>2. (\A t \in receipted : txn[t].status = "PAID")'
  BY <1>1 DEF SettledForGood
<1>3. ActivatedOnce'
  BY <1>1 DEF SettledForGood, ActivatedOnce
<1>4. PlanIsBacked'
  BY <1>1 DEF SettledForGood, PlanIsBacked
<1>5. (\A d \in Handlers : InStep(handler[d]))'
  BY <1>1 DEF SettledForGood, InStep
<1> QED BY <1>2, <1>3, <1>4, <1>5 DEF SettledForGood

\* The record a finished handler goes on with is in step with any table.
LEMMA EndsInStep ==
    ASSUME PaymentsInv, NEW c \in Handlers, Ends(c)
    PROVE  \E q : Goes(c, q) /\ q.step \in {"IDLE", "NEXT"}
BY EndsEarned

\* Handlers that read, decide or give up.
LEMMA SerialQuietSteps ==
    ASSUME PaymentsInv, SettledForGood, NEW c \in Handlers,
           \/ \E o \in Organizations, p \in ActivePlans :
                initializeOrganizationPayment(c, o, p)
           \/ \E e \in events : handlePaystackWebhook(c, e)
           \/ \E t \in Transactions, status \in TrustedStatuses :
                verifyTransaction(c, t, status)
           \/ reconcilePending(c)
           \/ \E t \in Transactions : ReconcileNext(c, t)
           \/ Decide(c)
           \/ \E opens, agrees, answered \in BOOLEAN :
                CallProvider(c, opens, agrees, answered)
           \/ \E o \in Organizations, p \in RequestedPlans :
                requestUpgrade(c, o, p)
           \/ \E u \in UpgradeRequests, decision \in {"REJECTED", "COMPLETED"} :
                reviewUpgradeRequest(c, u, decision)
           \/ \E o \in Organizations, p \in GrantedPlans : update(c, o, p)
           \/ Abandon(c)
    PROVE  SettledForGood'
<1>a. handler[c] \in HandlerRecord /\ Idle \in HandlerRecord
  BY IdleEarned DEF PaymentsInv, PaymentsTypeOK
<1>b. \A q : q.step \in {"IDLE", "NEXT", "TRUSTED", "CREATE", "REQUEST", "GRANT"}
        => InStep(q)
  BY DEF InStep
<1>1. ASSUME NEW q, Goes(c, q), UNCHANGED tables,
             q.step \in {"IDLE", "NEXT", "TRUSTED", "CREATE", "REQUEST", "GRANT"}
      PROVE  SettledForGood'
  BY <1>1, <1>b, SerialHandlerStep
<1>2. ASSUME NEW o, NEW p, initializeOrganizationPayment(c, o, p)
      PROVE  SettledForGood'
  <2>1. PICK q : q = [Idle EXCEPT !.step = "CREATE", !.org = o, !.plan = p]
    OBVIOUS
  <2>2. q.step = "CREATE"
    BY <2>1 DEF Idle
  <2> QED
    BY <1>1, <1>2, <2>1, <2>2 DEF initializeOrganizationPayment, provider
<1>3. ASSUME NEW t, NEW status, NEW agrees, Trusts(c, t, status, agrees),
             UNCHANGED tables
      PROVE  SettledForGood'
  <2>1. PICK q : q = [handler[c] EXCEPT !.step = "TRUSTED", !.id = t,
                               !.status = status, !.agrees = agrees]
    OBVIOUS
  <2>2. q.step = "TRUSTED"
    BY <1>a, <2>1 DEF HandlerRecord
  <2> QED
    BY <1>1, <1>3, <2>1, <2>2 DEF Trusts
<1>4. ASSUME reconcilePending(c)
      PROVE  SettledForGood'
  <2>1. PICK todo : Goes(c, [Idle EXCEPT !.step = "NEXT", !.todo = todo])
    BY <1>4 DEF reconcilePending
  <2>2. PICK q : q = [Idle EXCEPT !.step = "NEXT", !.todo = todo] OBVIOUS
  <2>3. q.step = "NEXT"
    BY <2>2 DEF Idle
  <2> QED
    BY <1>1, <1>4, <2>1, <2>2, <2>3 DEF reconcilePending
<1>5. ASSUME NEW t, ReconcileNext(c, t)
      PROVE  SettledForGood'
  <2>1. PICK rest : rest = handler[c].todo \ {t} OBVIOUS
  <2>2. /\ handler[c].step = "NEXT"
        /\ UNCHANGED tables
        /\ \/ \E status :
                Goes(c, [handler[c] EXCEPT
                            !.step = "TRUSTED", !.id = t, !.status = status,
                            !.agrees = charge[t].agrees, !.todo = rest])
           \/ Goes(c, Idle)
           \/ Goes(c, [handler[c] EXCEPT !.todo = rest])
    BY <1>5, <2>1 DEF ReconcileNext
  <2>3. ASSUME NEW status,
               Goes(c, [handler[c] EXCEPT
                          !.step = "TRUSTED", !.id = t, !.status = status,
                          !.agrees = charge[t].agrees, !.todo = rest])
        PROVE  SettledForGood'
    <3>1. PICK q : q = [handler[c] EXCEPT
                          !.step = "TRUSTED", !.id = t, !.status = status,
                          !.agrees = charge[t].agrees, !.todo = rest]
      OBVIOUS
    <3>2. q.step = "TRUSTED"
      BY <1>a, <3>1 DEF HandlerRecord
    <3> QED
      BY <1>1, <2>2, <2>3, <3>1, <3>2
  <2>4. CASE Goes(c, Idle)
    BY <1>1, <2>2, <2>4, IdleEarned
  <2>5. CASE Goes(c, [handler[c] EXCEPT !.todo = rest])
    <3>1. PICK q : q = [handler[c] EXCEPT !.todo = rest] OBVIOUS
    <3>2. q.step = "NEXT"
      BY <1>a, <2>2, <3>1 DEF HandlerRecord
    <3> QED
      BY <1>1, <2>2, <2>5, <3>1, <3>2
  <2> QED BY <2>2, <2>3, <2>4, <2>5
<1>6. ASSUME Decide(c)
      PROVE  SettledForGood'
  <2>1. CASE txn[handler[c].id].status = "PAID"
    <3>1. PICK q : Goes(c, q) /\ q.step \in {"IDLE", "NEXT"}
      BY <1>6, <2>1, EndsInStep DEF Decide
    <3> QED
      BY <1>1, <1>6, <3>1 DEF Decide
  <2>2. CASE txn[handler[c].id].status # "PAID"
    <3>1. PICK status : status = SettledStatus(handler[c].status,
                                               handler[c].agrees)
      OBVIOUS
    <3>2. PICK q : q = [handler[c] EXCEPT !.step = "COMMIT", !.status = status]
      OBVIOUS
    <3>3. q.step = "COMMIT" /\ q.id = handler[c].id
      BY <1>a, <3>2 DEF HandlerRecord
    <3>4. InStep(q)
      BY <2>2, <3>3 DEF InStep, SettledForGood
    <3>5. Goes(c, q)
      BY <1>6, <2>2, <3>1, <3>2 DEF Decide
    <3> QED
      BY <1>6, <3>4, <3>5, SerialHandlerStep DEF Decide
  <2> QED BY <2>1, <2>2
<1>7. ASSUME NEW opens, NEW agrees, NEW answered,
             CallProvider(c, opens, agrees, answered)
      PROVE  SettledForGood'
  <2>1. PICK status : status = IF opens /\ answered THEN "PENDING" ELSE "FAILED"
    OBVIOUS
  <2>2. PICK q : q = [handler[c] EXCEPT !.step = "CALLED", !.status = status]
    OBVIOUS
  <2>3. q.step = "CALLED" /\ q.id = handler[c].id
    BY <1>a, <2>2 DEF HandlerRecord
  <2>4. InStep(q)
    BY <1>7, <2>3 DEF InStep, SettledForGood, CallProvider
  <2>5. Goes(c, q)
    BY <1>7, <2>1, <2>2 DEF CallProvider
  <2> QED
    BY <1>7, <2>4, <2>5, SerialHandlerStep DEF CallProvider
<1>8. ASSUME NEW o, NEW p, requestUpgrade(c, o, p)
      PROVE  SettledForGood'
  <2>1. PICK q : q = [Idle EXCEPT !.step = "REQUEST", !.org = o, !.plan = p]
    OBVIOUS
  <2>2. q.step = "REQUEST"
    BY <2>1 DEF Idle
  <2> QED
    BY <1>1, <1>8, <2>1, <2>2 DEF requestUpgrade
<1>9. ASSUME NEW u, NEW decision, reviewUpgradeRequest(c, u, decision)
      PROVE  SettledForGood'
  <2>1. PICK q : q = [Idle EXCEPT !.step = "REVIEW", !.id = u,
                                  !.status = decision]
    OBVIOUS
  <2>2. q.step = "REVIEW" /\ q.id = u
    BY <2>1 DEF Idle
  <2>3. InStep(q)
    BY <1>9, <2>2 DEF InStep, reviewUpgradeRequest
  <2> QED
    BY <1>9, <2>1, <2>3, SerialHandlerStep DEF reviewUpgradeRequest
<1>10. ASSUME Abandon(c)
       PROVE  SettledForGood'
  BY <1>1, <1>10, IdleEarned DEF Abandon
<1>11. ASSUME NEW e, handlePaystackWebhook(c, e)
       PROVE  SettledForGood'
  BY <1>3, <1>11 DEF handlePaystackWebhook
<1>12. ASSUME NEW t, NEW status, verifyTransaction(c, t, status)
       PROVE  SettledForGood'
  BY <1>3, <1>12 DEF verifyTransaction
<1>13. ASSUME NEW o, NEW p, update(c, o, p)
       PROVE  SettledForGood'
  <2>1. PICK q : q = [Idle EXCEPT !.step = "GRANT", !.org = o, !.plan = p]
    OBVIOUS
  <2>2. q.step = "GRANT"
    BY <2>1 DEF Idle
  <2> QED
    BY <1>1, <1>13, <2>1, <2>2 DEF update
<1> QED
  BY <1>2, <1>4, <1>5, <1>6, <1>7, <1>8, <1>9, <1>10, <1>11, <1>12, <1>13

\* While c is at work, every other handler is idle.
LEMMA OthersIdle ==
    ASSUME OneAtATime, NEW c \in Handlers, handler[c].step # "IDLE",
           NEW d \in Handlers \ {c}
    PROVE  handler[d].step = "IDLE"
BY IdleEarned DEF OneAtATime

\* A step of c after which c awaits nothing that a table could refute: only
\* the tables have to be right.
LEMMA SerialTableStep ==
    ASSUME PaymentsInv, OneAtATime, SettledForGood, NEW c \in Handlers, NEW q,
           handler[c].step # "IDLE", Goes(c, q), InStep(q)',
           \A t \in receipted' : txn'[t].status = "PAID",
           ActivatedOnce', PlanIsBacked'
    PROVE  SettledForGood'
<1>1. /\ handler'[c] = q
      /\ \A d \in Handlers \ {c} : handler'[d].step = "IDLE"
  BY OthersIdle DEF Goes, PaymentsInv, PaymentsTypeOK
<1>2. \A d \in Handlers : InStep(handler[d])'
  <2> SUFFICES ASSUME NEW d \in Handlers PROVE InStep(handler[d])'
    OBVIOUS
  <2>1. CASE d = c
    BY <1>1, <2>1 DEF InStep
  <2>2. CASE d # c
    BY <1>1, <2>2 DEF InStep
  <2> QED BY <2>1, <2>2
<1> QED
  BY <1>2 DEF SettledForGood

\* Rows of transactions change in status, url and age only: plans stay
\* backed by the receipts and requests that back them.
LEMMA BackingStays ==
    ASSUME PlanIsBacked, UNCHANGED <<plan, granted, upgrade, receipted>>,
           \A t \in receipted : /\ txn'[t].org = txn[t].org
                                /\ txn'[t].plan = txn[t].plan
    PROVE  PlanIsBacked'
BY DEF PlanIsBacked

LEMMA SerialCreateTransaction ==
    ASSUME PaymentsInv, OneAtATime, SettledForGood, NEW c \in Handlers,
           NEW t \in Transactions, CreateTransaction(c, t)
    PROVE  SettledForGood'
<1>1. /\ handler[c].step = "CREATE"
      /\ t \notin DOMAIN txn /\ receipted \subseteq DOMAIN txn
      /\ \A s \in DOMAIN txn : txn'[s] = txn[s]
      /\ UNCHANGED <<plan, granted, upgrade, receipted, activated>>
  BY DEF CreateTransaction, With, PaymentsInv, PaymentsTypeOK
<1>2. PICK q : q = [Idle EXCEPT !.step = "CALL", !.id = t] OBVIOUS
<1>3. q.step = "CALL" /\ q.id = t /\ Goes(c, q)
  BY <1>2 DEF Idle, CreateTransaction
<1>4. InStep(q)'
  BY <1>1, <1>3 DEF InStep
<1>5. ActivatedOnce'
  BY <1>1 DEF ActivatedOnce, SettledForGood
<1>6. PlanIsBacked'
  BY <1>1, BackingStays DEF SettledForGood
<1>7. \A s \in receipted' : txn'[s].status = "PAID"
  BY <1>1 DEF SettledForGood
<1> QED
  BY <1>1, <1>3, <1>4, <1>5, <1>6, <1>7, SerialTableStep

\* The update of one row of a transaction.
LEMMA RowUpdate ==
    ASSUME PaymentsInv, NEW t \in DOMAIN txn, NEW row,
           txn' = [txn EXCEPT ![t] = row],
           row.org = txn[t].org, row.plan = txn[t].plan
    PROVE  /\ txn'[t] = row
           /\ \A s \in DOMAIN txn \ {t} : txn'[s] = txn[s]
           /\ \A s \in DOMAIN txn : /\ txn'[s].org = txn[s].org
                                    /\ txn'[s].plan = txn[s].plan
BY DEF PaymentsInv, PaymentsTypeOK

LEMMA SerialRecordCheckout ==
    ASSUME PaymentsInv, OneAtATime, SettledForGood, NEW c \in Handlers,
           RecordCheckout(c)
    PROVE  SettledForGood'
<1>1. PICK t : t = handler[c].id OBVIOUS
<1>2. PICK status : status = handler[c].status OBVIOUS
<1>3. /\ handler[c].step = "CALLED"
      /\ t \in DOMAIN txn /\ t \notin receipted
      /\ receipted \subseteq DOMAIN txn
      /\ txn[t] \in TransactionRow
      /\ handler[c] \in HandlerRecord
      /\ UNCHANGED <<plan, granted, upgrade, receipted, activated>>
  BY <1>1
  DEF RecordCheckout, PaymentsInv, PaymentsTypeOK, HandlerOK, SettledForGood,
      InStep
<1>4. PICK row : row = [[txn[t] EXCEPT !.status = status]
                          EXCEPT !.url = @ \/ status = "PENDING"]
  OBVIOUS
<1>5. row.org = txn[t].org /\ row.plan = txn[t].plan
  BY <1>3, <1>4 DEF TransactionRow
<1>6. txn' = [txn EXCEPT ![t] = row]
  BY <1>1, <1>2, <1>3, <1>4 DEF RecordCheckout, TransactionRow
<1>7. /\ \A s \in DOMAIN txn \ {t} : txn'[s] = txn[s]
      /\ \A s \in DOMAIN txn : /\ txn'[s].org = txn[s].org
                               /\ txn'[s].plan = txn[s].plan
  BY <1>3, <1>5, <1>6, RowUpdate
<1>8. PICK q : /\ Goes(c, q)
               /\ q = Idle \/ q = [handler[c] EXCEPT !.status = "FAILED"]
  BY DEF RecordCheckout
<1>9. q.step = "IDLE" \/ (q.step = "CALLED" /\ q.id = t)
  BY <1>1, <1>3, <1>8, IdleEarned DEF HandlerRecord
<1>10. InStep(q)'
  BY <1>3, <1>9 DEF InStep
<1>11. ActivatedOnce'
  BY <1>3 DEF ActivatedOnce, SettledForGood
<1>12. PlanIsBacked'
  BY <1>3, <1>7, BackingStays DEF SettledForGood
<1>13. \A s \in receipted' : txn'[s].status = "PAID"
  BY <1>3, <1>7 DEF SettledForGood
<1> QED
  BY <1>3, <1>8, <1>10, <1>11, <1>12, <1>13, SerialTableStep

\* A settlement is the first of its payment.
LEMMA SerialCommitSettlement ==
    ASSUME PaymentsInv, OneAtATime, SettledForGood, NEW c \in Handlers,
           CommitSettlement(c)
    PROVE  SettledForGood'
<1>1. PICK t : t = handler[c].id OBVIOUS
<1>2. PICK status : status = handler[c].status OBVIOUS
<1>3. /\ handler[c].step = "COMMIT"
      /\ t \in DOMAIN txn /\ t \notin receipted
      /\ receipted \subseteq DOMAIN txn /\ DOMAIN txn \subseteq Transactions
      /\ txn[t] \in TransactionRow
      /\ Ends(c)
  BY <1>1
  DEF CommitSettlement, PaymentsInv, PaymentsTypeOK, HandlerOK, SettledForGood,
      InStep
<1>4. PICK row : row = [txn[t] EXCEPT !.status = status] OBVIOUS
<1>5. row.org = txn[t].org /\ row.plan = txn[t].plan /\ row.status = status
  BY <1>3, <1>4 DEF TransactionRow
<1>6. txn' = [txn EXCEPT ![t] = row]
  BY <1>1, <1>2, <1>3, <1>4 DEF CommitSettlement, TransactionRow
<1>7. /\ txn'[t] = row
      /\ \A s \in DOMAIN txn \ {t} : txn'[s] = txn[s]
      /\ \A s \in DOMAIN txn : /\ txn'[s].org = txn[s].org
                               /\ txn'[s].plan = txn[s].plan
  BY <1>3, <1>5, <1>6, RowUpdate
<1>8. PICK q : Goes(c, q) /\ q.step \in {"IDLE", "NEXT"}
  BY <1>3, EndsInStep
<1>9. InStep(q)'
  BY <1>8 DEF InStep
<1>10. CASE status # "PAID"
  <2>1. UNCHANGED <<plan, granted, upgrade, receipted, activated>>
    BY <1>2, <1>10 DEF CommitSettlement
  <2>2. ActivatedOnce'
    BY <2>1 DEF ActivatedOnce, SettledForGood
  <2>3. PlanIsBacked'
    BY <1>3, <1>7, <2>1, BackingStays DEF SettledForGood
  <2>4. \A s \in receipted' : txn'[s].status = "PAID"
    BY <1>3, <1>7, <2>1 DEF SettledForGood
  <2> QED
    BY <1>3, <1>8, <1>9, <2>2, <2>3, <2>4, SerialTableStep
<1>11. CASE status = "PAID"
  <2>1. /\ plan' = [plan EXCEPT ![txn[t].org] = txn[t].plan]
        /\ receipted' = receipted \cup {t}
        /\ activated' = [activated EXCEPT ![t] = Again(@)]
        /\ upgrade' = CompleteRequests(txn[t].org, txn[t].plan)
        /\ UNCHANGED granted
    BY <1>1, <1>2, <1>11 DEF CommitSettlement, fulfillPayment
  <2>2. activated[t] = "NEVER"
    BY <1>3 DEF PaymentsInv, ReceiptsMatch
  <2>3. ActivatedOnce'
    BY <1>3, <2>1, <2>2
    DEF ActivatedOnce, SettledForGood, PaymentsInv, PaymentsTypeOK, Again
  <2>4. \A s \in receipted' : txn'[s].status = "PAID"
    BY <1>3, <1>5, <1>7, <1>11, <2>1 DEF SettledForGood
  <2>5. PlanIsBacked'
    <3> SUFFICES ASSUME NEW o \in Organizations, plan'[o] # granted[o]
                 PROVE  \/ \E s \in receipted' :
                             txn'[s].org = o /\ txn'[s].plan = plan'[o]
                        \/ \E u \in DOMAIN upgrade' :
                             /\ upgrade'[u].org = o
                             /\ upgrade'[u].plan = plan'[o]
                             /\ upgrade'[u].status = "COMPLETED"
      BY <2>1 DEF PlanIsBacked
    <3>1. CASE o = txn[t].org
      BY <1>3, <1>7, <2>1, <3>1 DEF PaymentsInv, PaymentsTypeOK
    <3>2. CASE o # txn[t].org
      <4>1. plan'[o] = plan[o]
        BY <2>1, <3>2 DEF PaymentsInv, PaymentsTypeOK
      <4>2. CASE \E s \in receipted : txn[s].org = o /\ txn[s].plan = plan[o]
        BY <1>3, <1>7, <2>1, <4>1, <4>2
      <4>3. ASSUME NEW u \in DOMAIN upgrade,
                   upgrade[u].org = o, upgrade[u].plan = plan[o],
                   upgrade[u].status = "COMPLETED"
            PROVE  u \in DOMAIN upgrade' /\ upgrade'[u] = upgrade[u]
        BY <2>1, <4>3 DEF CompleteRequests
      <4> QED
        BY <4>1, <4>2, <4>3 DEF SettledForGood, PlanIsBacked
    <3> QED BY <3>1, <3>2
  <2> QED
    BY <1>3, <1>8, <1>9, <2>3, <2>4, <2>5, SerialTableStep
<1> QED BY <1>10, <1>11

LEMMA SerialCreateRequest ==
    ASSUME PaymentsInv, OneAtATime, SettledForGood, NEW c \in Handlers,
           NEW u \in UpgradeRequests, CreateRequest(c, u)
    PROVE  SettledForGood'
<1>1. /\ handler[c].step = "REQUEST"
      /\ u \notin DOMAIN upgrade
      /\ DOMAIN upgrade \subseteq DOMAIN upgrade'
      /\ \A v \in DOMAIN upgrade : upgrade'[v] = upgrade[v]
      /\ UNCHANGED <<txn, plan, granted, receipted, activated>>
      /\ Goes(c, Idle)
  BY DEF CreateRequest, With
<1>2. InStep(Idle)'
  BY IdleEarned DEF InStep
<1>3. ActivatedOnce'
  BY <1>1 DEF ActivatedOnce, SettledForGood
<1>4. PlanIsBacked'
  BY <1>1 DEF PlanIsBacked, SettledForGood
<1>5. \A s \in receipted' : txn'[s].status = "PAID"
  BY <1>1 DEF SettledForGood
<1> QED
  BY <1>1, <1>2, <1>3, <1>4, <1>5, SerialTableStep

\* The request under review is still pending, so a completed one stays so.
LEMMA SerialCommitReview ==
    ASSUME PaymentsInv, OneAtATime, SettledForGood, NEW c \in Handlers,
           CommitReview(c)
    PROVE  SettledForGood'
<1>1. PICK u : u = handler[c].id OBVIOUS
<1>2. PICK status : status = handler[c].status OBVIOUS
<1>3. /\ handler[c].step = "REVIEW"
      /\ u \in DOMAIN upgrade /\ status \in {"REJECTED", "COMPLETED"}
      /\ upgrade \in [DOMAIN upgrade -> RequestRow]
      /\ upgrade[u].status = "PENDING"
      /\ UNCHANGED <<txn, granted, receipted, activated>>
      /\ Goes(c, Idle)
  BY <1>1, <1>2
  DEF PaymentsInv, PaymentsTypeOK, HandlerOK, CommitReview, SettledForGood,
      InStep
<1>4. upgrade' = [upgrade EXCEPT ![u] = [upgrade[u] EXCEPT !.status = status]]
  BY <1>1, <1>2, <1>3 DEF CommitReview, RequestRow
<1>5. /\ DOMAIN upgrade' = DOMAIN upgrade
      /\ upgrade'[u].status = status
      /\ upgrade'[u].org = upgrade[u].org
      /\ upgrade'[u].plan = upgrade[u].plan
      /\ \A v \in DOMAIN upgrade \ {u} : upgrade'[v] = upgrade[v]
  BY <1>3, <1>4 DEF RequestRow
<1>6. InStep(Idle)'
  BY IdleEarned DEF InStep
<1>7. ActivatedOnce'
  BY <1>3 DEF ActivatedOnce, SettledForGood
<1>8. \A s \in receipted' : txn'[s].status = "PAID"
  BY <1>3 DEF SettledForGood
<1>9. PlanIsBacked'
  <2> SUFFICES ASSUME NEW o \in Organizations, plan'[o] # granted[o]
               PROVE  \/ \E s \in receipted :
                           txn[s].org = o /\ txn[s].plan = plan'[o]
                      \/ \E v \in DOMAIN upgrade :
                           /\ upgrade'[v].org = o
                           /\ upgrade'[v].plan = plan'[o]
                           /\ upgrade'[v].status = "COMPLETED"
    BY <1>3, <1>5 DEF PlanIsBacked
  <2>1. CASE status = "COMPLETED" /\ o = upgrade[u].org
    <3>1. plan'[o] = upgrade[u].plan
      BY <1>1, <1>2, <2>1 DEF CommitReview, PaymentsInv, PaymentsTypeOK
    <3> QED
      BY <1>3, <1>5, <2>1, <3>1
  <2>2. CASE ~(status = "COMPLETED" /\ o = upgrade[u].org)
    <3>1. plan'[o] = plan[o]
      BY <1>1, <1>2, <2>2 DEF CommitReview, PaymentsInv, PaymentsTypeOK
    <3>2. \A v \in DOMAIN upgrade : upgrade[v].status = "COMPLETED"
            => upgrade'[v] = upgrade[v]
      BY <1>3, <1>5
    <3> QED
      BY <3>1, <3>2 DEF PlanIsBacked, SettledForGood
  <2> QED BY <2>1, <2>2
<1> QED
  BY <1>3, <1>6, <1>7, <1>8, <1>9, SerialTableStep

\* The plan that a Super Admin writes is the plan last given by hand.
LEMMA SerialCommitUpdate ==
    ASSUME PaymentsInv, OneAtATime, SettledForGood, NEW c \in Handlers,
           CommitUpdate(c)
    PROVE  SettledForGood'
<1>1. /\ handler[c].step = "GRANT"
      /\ UNCHANGED <<txn, upgrade, receipted, activated>>
      /\ Goes(c, Idle)
  BY DEF CommitUpdate
<1>2. \A o \in Organizations : \/ plan'[o] = granted'[o]
                               \/ plan'[o] = plan[o] /\ granted'[o] = granted[o]
  BY DEF CommitUpdate, PaymentsInv, PaymentsTypeOK
<1>3. InStep(Idle)'
  BY IdleEarned DEF InStep
<1>4. ActivatedOnce'
  BY <1>1 DEF ActivatedOnce, SettledForGood
<1>5. PlanIsBacked'
  BY <1>1, <1>2 DEF PlanIsBacked, SettledForGood
<1>6. \A s \in receipted' : txn'[s].status = "PAID"
  BY <1>1 DEF SettledForGood
<1> QED
  BY <1>1, <1>3, <1>4, <1>5, <1>6, SerialTableStep

\* The provider and the clock settle nothing.
LEMMA SerialOutsideSteps ==
    ASSUME PaymentsInv, SettledForGood, NEW t \in Transactions,
           \/ Pay(t) \/ FailToPay(t) \/ CheckoutAges(t)
           \/ \E whole \in BOOLEAN : Refund(t, whole)
    PROVE  SettledForGood'
<1>1. CASE UNCHANGED <<tables, handler>>
  BY <1>1
  DEF tables, SettledForGood, ActivatedOnce, PlanIsBacked, InStep
<1>2. CASE CheckoutAges(t)
  <2>1. /\ t \in DOMAIN txn /\ txn[t] \in TransactionRow
        /\ receipted \subseteq DOMAIN txn
        /\ UNCHANGED <<upgrade, plan, granted, receipted, activated, handler>>
    BY <1>2 DEF CheckoutAges, PaymentsInv, PaymentsTypeOK
  <2>2. PICK row : row = [txn[t] EXCEPT !.fresh = FALSE] OBVIOUS
  <2>3. /\ row.org = txn[t].org /\ row.plan = txn[t].plan
        /\ row.status = txn[t].status
        /\ txn' = [txn EXCEPT ![t] = row]
    BY <1>2, <2>1, <2>2 DEF CheckoutAges, TransactionRow
  <2>4. /\ txn'[t] = row
        /\ \A s \in DOMAIN txn \ {t} : txn'[s] = txn[s]
        /\ \A s \in DOMAIN txn : /\ txn'[s].org = txn[s].org
                                 /\ txn'[s].plan = txn[s].plan
    BY <2>1, <2>3, RowUpdate
  <2>5. \A s \in DOMAIN txn : txn'[s].status = txn[s].status
    BY <2>3, <2>4
  <2>6. PlanIsBacked'
    BY <2>1, <2>4, BackingStays DEF SettledForGood
  <2> QED
    BY <2>1, <2>5, <2>6 DEF SettledForGood, ActivatedOnce, InStep
<1> QED
  BY <1>1, <1>2 DEF Pay, FailToPay, Refund, Moves

\* While handlers do not overlap, what is settled is settled for good.
LEMMA SettledAlways == Spec /\ []OneAtATime => []SettledForGood
<1>1. Init => SettledForGood
  BY IdleEarned
  DEF Init, SettledForGood, ActivatedOnce, PlanIsBacked, InStep
<1>2. PaymentsInv /\ OneAtATime /\ SettledForGood /\ [Next]_vars
        => SettledForGood'
  <2> SUFFICES ASSUME PaymentsInv, OneAtATime, SettledForGood, [Next]_vars
               PROVE  SettledForGood'
    OBVIOUS
  <2>1. CASE UNCHANGED vars
    BY <2>1
    DEF vars, SettledForGood, ActivatedOnce, PlanIsBacked, InStep
  <2>2. CASE Next
    BY <2>2, SerialOutsideSteps, SerialQuietSteps, SerialCreateTransaction,
       SerialRecordCheckout, SerialCommitSettlement, SerialCreateRequest,
       SerialCommitReview, SerialCommitUpdate
    DEF Next
  <2> QED BY <2>1, <2>2
<1> QED
  BY <1>1, <1>2, InvAlways, PTL DEF Spec

(***************************************************************************)
(* While no two handlers overlap, a payment starts one billing period,     *)
(* however often and in whatever order its events are delivered and it is  *)
(* verified, and whatever handlers are cut off.                            *)
(***************************************************************************)
THEOREM SeriallyActivatedOnce == Spec /\ []OneAtATime => []ActivatedOnce
<1>1. SettledForGood => ActivatedOnce
  BY DEF SettledForGood
<1> QED
  BY <1>1, SettledAlways, PTL

(***************************************************************************)
(* While no two handlers overlap, every plan in force has a receipt of a   *)
(* payment for it or a completed request behind it, or is the last that    *)
(* was given by hand.                                                      *)
(***************************************************************************)
THEOREM SeriallyPlanIsBacked == Spec /\ []OneAtATime => []PlanIsBacked
<1>1. SettledForGood => PlanIsBacked
  BY DEF SettledForGood
<1> QED
  BY <1>1, SettledAlways, PTL

-----------------------------------------------------------------------------
(* The serial mix of MCPayments, on any instance, is such a behaviour.     *)

LEMMA MixIsPayments == MixSpec => Spec
<1>1. MixInit => Init
  BY DEF MixInit
<1>2. [Next /\ UNCHANGED mix /\ InMix']_<<vars, mix>> => [Next]_vars
  OBVIOUS
<1> QED
  BY <1>1, <1>2, PTL DEF MixSpec, Spec

\* The mix allows one handler at a time.
SerialMix == mix = "serial"

LEMMA MixStays == MixSpec => [](SerialMix /\ OneAtATime) \/ []~SerialMix
<1> DEFINE Step == [Next /\ UNCHANGED mix /\ InMix']_<<vars, mix>>
<1>1. MixInit => OneAtATime
  BY DEF MixInit, Init, OneAtATime
<1>2. SerialMix /\ OneAtATime /\ Step => (SerialMix /\ OneAtATime)'
  <2>1. CASE Next /\ UNCHANGED mix /\ InMix' /\ SerialMix
    <3>1. \A c \in Handlers \ {OnlyHandler} : handler'[c] = Idle
      BY <2>1 DEF InMix, SerialMix
    <3> QED BY <2>1, <3>1 DEF OneAtATime, SerialMix
  <2>2. CASE UNCHANGED <<vars, mix>> /\ SerialMix /\ OneAtATime
    BY <2>2 DEF vars, OneAtATime, SerialMix
  <2> QED BY <2>1, <2>2
<1>3. ~SerialMix /\ Step => ~SerialMix'
  BY DEF SerialMix
<1> QED
  BY <1>1, <1>2, <1>3, PTL DEF MixSpec

(***************************************************************************)
(* With one handler at a time, a payment starts a billing period at most   *)
(* once, however often its events are delivered or it is verified: what    *)
(* the serial mix checks, for every number of payments and requests.       *)
(***************************************************************************)
THEOREM SerialMixActivatesOnce == MixSpec => []SerialActivatedOnce
<1>1. ActivatedOnce \/ ~SerialMix => SerialActivatedOnce
  BY DEF SerialActivatedOnce, SerialMix
<1> QED
  BY <1>1, MixIsPayments, MixStays, SeriallyActivatedOnce, PTL

(***************************************************************************)
(* With one handler at a time, every plan in force has a receipt, a        *)
(* completed request or a Super Admin's edit behind it, for every number   *)
(* of payments, requests and edits.                                        *)
(***************************************************************************)
THEOREM SerialMixPlanIsBacked == MixSpec => []SerialPlanIsBacked
<1>1. PlanIsBacked \/ ~SerialMix => SerialPlanIsBacked
  BY DEF SerialPlanIsBacked, SerialMix
<1> QED
  BY <1>1, MixIsPayments, MixStays, SeriallyPlanIsBacked, PTL

=============================================================================
