---------------------------- MODULE ReportCustody ----------------------------
(***************************************************************************)
(* What report handling promises when it is looked at from far away: who   *)
(* has custody of a report.  A report is being routed, waits in a dispatch *)
(* queue, is worked on, is under review, or is closed, and at most one     *)
(* provider holds it.  A provider is given a report only from the dispatch *)
(* queue, and only when nobody holds it; a report goes back to the queue   *)
(* only by taking it from its provider in the same step; so a report that  *)
(* is being routed or queued is held by nobody, and custody never passes   *)
(* from one provider straight to another.                                  *)
(***************************************************************************)
CONSTANTS Reports, Providers, Null

VARIABLES
    stage,      \* stage[r]: "routing", "queued", "work", "review" or "closed"
    holder      \* holder[r]: the provider that has it, or Null

custody == <<stage, holder>>

Init ==
    /\ stage = [r \in Reports |-> "routing"]
    /\ holder = [r \in Reports |-> Null]

\* Responsibility moves between the platform and organizations.
Route(r) ==
    /\ stage[r] \in {"routing", "queued"}
    /\ \E s \in {"routing", "queued"} : stage' = [stage EXCEPT ![r] = s]
    /\ UNCHANGED holder

Offer(r, p) ==
    /\ stage[r] = "queued"
    /\ holder[r] = Null
    /\ stage' = [stage EXCEPT ![r] = "work"]
    /\ holder' = [holder EXCEPT ![r] = p]

TakeBack(r) ==
    /\ holder[r] # Null
    /\ stage' = [stage EXCEPT ![r] = "queued"]
    /\ holder' = [holder EXCEPT ![r] = Null]

Submit(r) ==
    /\ stage[r] = "work"
    /\ stage' = [stage EXCEPT ![r] = "review"]
    /\ UNCHANGED holder

\* Reviewers send a report back to work, governance does so from anywhere.
Rework(r) ==
    /\ stage[r] # "closed"
    /\ stage' = [stage EXCEPT ![r] = "work"]
    /\ UNCHANGED holder

Close(r) ==
    /\ stage[r] # "closed"
    /\ stage' = [stage EXCEPT ![r] = "closed"]
    /\ UNCHANGED holder

Reopen(r) ==
    /\ stage[r] = "closed"
    /\ stage' = [stage EXCEPT ![r] = "review"]
    /\ UNCHANGED holder

Next ==
    \E r \in Reports :
        \/ Route(r)
        \/ \E p \in Providers : Offer(r, p)
        \/ TakeBack(r)
        \/ Submit(r)
        \/ Rework(r)
        \/ Close(r)
        \/ Reopen(r)

Spec == Init /\ [][Next]_custody

=============================================================================
