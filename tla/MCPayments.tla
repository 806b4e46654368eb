------------------------------ MODULE MCPayments ------------------------------
(***************************************************************************)
(* Small instances of Payments.  One behaviour keeps to one of Mixes: one  *)
(* handler at a time, with two payments of the right amount, or one and    *)
(* plans given by hand; or handlers that overlap and one payment of any    *)
(* amount.                                                                 *)
(***************************************************************************)
EXTENDS Payments, FiniteSets, TLC

CONSTANT Mixes
VARIABLE mix

OnlyHandler == CHOOSE c \in Handlers : TRUE

NoGrants == \A o \in Organizations : granted[o] = "FREE"

InMix ==
    CASE mix = "serial" -> /\ \A c \in Handlers \ {OnlyHandler} : handler[c] = Idle
                           /\ \A t \in Transactions : charge[t].agrees
                           /\ NoGrants \/ Cardinality(DOMAIN txn) <= 1
      [] mix = "race"   -> /\ Cardinality(DOMAIN txn) <= 1
                           /\ \A t \in DOMAIN txn : txn[t].plan = "STARTER"
                           /\ NoGrants

MixInit == Init /\ mix \in Mixes /\ InMix

MixSpec == MixInit /\ [][Next /\ UNCHANGED mix /\ InMix']_<<vars, mix>>

\* Transactions and upgrade requests are interchangeable; handlers are not,
\* because one of them is the only one of the serial mix.
Symmetry == Permutations(Transactions) \cup Permutations(UpgradeRequests)

\* One handler at a time, a payment starts a billing period at most once, however often its
\* events are delivered or it is verified (processTrustedProviderTransaction).
SerialActivatedOnce == mix = "serial" => ActivatedOnce

\* One handler at a time, every plan in force has a receipt, a completed request or a Super
\* Admin's own edit behind it (fulfillPayment, reviewUpgradeRequest, update, create).
SerialPlanIsBacked == mix = "serial" => PlanIsBacked

=============================================================================
