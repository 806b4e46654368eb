---------------------------- MODULE ReportRequests ----------------------------
(***************************************************************************)
(* How a handler of the report service runs.  Every handler awaits a read  *)
(* of the row, checks what it read, computes the columns to write, and     *)
(* awaits `prisma.report.update({ where: { id }, data })'.  Between the    *)
(* read and the write the event loop serves other requests (and other      *)
(* instances of the API serve theirs), and the write checks nothing again  *)
(* unless its `where' names a status.  A handler is therefore two steps:   *)
(*                                                                         *)
(*   - its own action (ReportDispatch, ReportReview) reads and checks, and *)
(*     leaves the writes it is about to make in req[c];                    *)
(*   - CommitWrite applies one of them to the row as it is by then.        *)
(*                                                                         *)
(* Requests is the number of handlers that may be under way together: with *)
(* one request the module describes serial service, with more it describes *)
(* every interleaving.  Workload names the endpoints that clients call in  *)
(* an instance.  A rejected call changes nothing and is not a step.        *)
(***************************************************************************)
EXTENDS ReportRow

CONSTANTS
    Reports,        \* report ids
    Requests,       \* handlers that may be in flight at the same time
    Workload        \* endpoints the clients of this instance call

VARIABLES
    report,         \* the Report table, a function from the ids in use
    req             \* req[c]: what handler c has still to do

\* An operator is the operators (ORG_ADMIN, DISPATCH_OFFICER) of an
\* organization, or the platform's SUPER_ADMIN.
SuperAdmin == "SUPER_ADMIN"
Operators == Organizations \cup {SuperAdmin}

\* One pending update: the row, the status its `where' insists on (or Null),
\* and the columns it sets.
Write(r, where, data) == [id |-> r, where |-> where, data |-> data]

\* What a handler does once its pending writes are made: return, go on to
\* assign `provider' (reassignProvider), or expire the overdue offers of
\* `provider' and answer 409.
Continuations == {"RETURN", "ASSIGN", "EXPIRE"}

Idle ==
    [op |-> "IDLE", writes |-> {}, then |-> "RETURN",
     user |-> Null, id |-> Null, provider |-> Null]

Exists(r) == r \in DOMAIN report

\* c starts serving `op', has read what it needs and will make these writes.
Serve(c, op, writes, then, user, id, provider) ==
    /\ op \in Workload
    /\ req[c] = Idle
    /\ req' = [req EXCEPT ![c] =
                 [op |-> op, writes |-> writes, then |-> then,
                  user |-> user, id |-> id, provider |-> provider]]
    /\ UNCHANGED report

\* The usual handler: one unconditional update of one row.
Update(c, op, r, data) ==
    Serve(c, op, {Write(r, Null, data)}, "RETURN", Null, r, Null)

\* req[c] once the write w is made.
After(c, w) ==
    LET rest == req[c].writes \ {w}
    IN  IF rest = {} /\ req[c].then = "RETURN"
        THEN Idle
        ELSE [req[c] EXCEPT !.writes = rest]

WhereHolds(w) == w.where = Null \/ report[w.id].status = w.where

\* The database applies one pending write of c to the row as it is now.
CommitWrite(c) ==
    \E w \in req[c].writes :
        /\ WhereHolds(w)
        /\ report' = [report EXCEPT ![w.id] = Patched(@, w.data)]
        /\ req' = [req EXCEPT ![c] = After(c, w)]

\* No row matches `where': Prisma throws (P2025) and the handler, with every
\* write it had still to make, is over.
MissedWrite(c) ==
    /\ \E w \in req[c].writes : ~WhereHolds(w)
    /\ req' = [req EXCEPT ![c] = Idle]
    /\ UNCHANGED report

\* The database refuses, or the process restarts, before the handler's next
\* step: what it had still to do is never done.
Abandon(c) ==
    /\ req[c] # Idle
    /\ req' = [req EXCEPT ![c] = Idle]
    /\ UNCHANGED report

=============================================================================
