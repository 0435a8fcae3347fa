---------------------------- MODULE ImportStatus ----------------------------
(***************************************************************************)
(* What an import promises the user who polls GET /me/import/status        *)
(* (routes/importExport/import.ts): a row that has an outcome never goes   *)
(* back to pending, whatever dies and is delivered again; `completed`      *)
(* means that every row has one; and an import is gone for good once a     *)
(* newer one has started.                                                  *)
(***************************************************************************)
EXTENDS Naturals

VARIABLES
    id,     \* which import the status is of, 0 before the first
    status,
    rows    \* row -> outcome

statusVars == <<id, status, rows>>

Outcomes == {"committed", "updated", "skipped", "failed"}
Unsettled == {i \in DOMAIN rows : rows[i] = "pending"}

StatusInit ==
    /\ id = 0
    /\ status = "none"
    /\ rows = <<>>

\* POST /me/import/start
Begin ==
    /\ id' = id + 1
    /\ status' = "running"
    /\ rows' = [i \in DOMAIN rows' |-> "pending"]

\* A batch commits.  Rows that have an outcome may be given another, by a second
\* invocation that was delivered for the same job.
Settle ==
    /\ id > 0
    /\ rows' \in [DOMAIN rows -> Outcomes \cup {"pending"}]
    /\ \A i \in DOMAIN rows : rows'[i] = "pending" => rows[i] = "pending"
    /\ UNCHANGED <<id, status>>

Finish ==
    /\ id > 0
    /\ Unsettled = {}
    /\ status' = "completed"
    /\ UNCHANGED <<id, rows>>

Fail ==
    /\ id > 0
    /\ status' = "failed"
    /\ UNCHANGED <<id, rows>>

StatusNext == Begin \/ Settle \/ Finish \/ Fail

StatusSpec == StatusInit /\ [][StatusNext]_statusVars
=============================================================================
