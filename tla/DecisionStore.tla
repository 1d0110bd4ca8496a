------------------------------ MODULE DecisionStore ----------------------------
(***************************************************************************)
(* The autonomous runner's decision tables: decisions are inserted by the  *)
(* coordinator (db_persistence.py), feedback by the dashboard              *)
(* (decision_feedback.py), and retention jobs - the runner's, and one per  *)
(* request of the dashboard - delete what has expired (retention_job.py,   *)
(* retention.py).  All share one pool of connections.                      *)
(*                                                                         *)
(* A job's statements are steps of one transaction, unless its connection  *)
(* was left in autocommit mode by a VACUUM that failed.  The database      *)
(* keeps the foreign key from feedback to decisions and makes a statement  *)
(* wait for rows that another transaction has deleted.                     *)
(*                                                                         *)
(* Left out: outcomes, which are deleted like feedback and which nobody    *)
(* records (the runner's tracker is given no price source), dry runs and   *)
(* the queries.                                                            *)
(***************************************************************************)
EXTENDS Integers

CONSTANTS
    Decision,
    Job,                \* retention jobs that run beside each other
    Conn,               \* connections of the pool
    MaxFeedback,        \* bound: feedback on one decision
    MaxRuns,            \* bound: runs of a retention job
    MaxStatementFaults  \* bound: statements that fail by themselves

VARIABLES
    table, expired,     \* agent_decisions, and those past warm_retention_days
    feedback,           \* decision_feedback: decision and number
    job,                \* label, connection, rows deleted, transaction aborted
    autocommit,         \* connections left in autocommit mode
    runs, statementFaults,
    given,              \* history: feedback that was ever stored
    leaked              \* history: a VACUUM has failed

storeVars == <<table, expired, feedback, job, autocommit, runs, statementFaults, given, leaked>>

Idle == [label |-> "idle", conn |-> {}, gone |-> {}, goneFeedback |-> {}, aborted |-> FALSE]

Init ==
    /\ table = {} /\ expired = {} /\ feedback = {}
    /\ job = [j \in Job |-> Idle]
    /\ autocommit = {} /\ runs = 0 /\ statementFaults = 0
    /\ given = {} /\ leaked = FALSE

Gone == UNION {job[j].gone : j \in Job}
GoneFeedback == UNION {job[j].goneFeedback : j \in Job}

\* persist_decision
Persist(d) ==
    /\ d \notin table \union expired
    /\ table' = table \union {d}
    /\ UNCHANGED <<expired, feedback, job, autocommit, runs, statementFaults, given, leaked>>

Expire(d) ==
    /\ d \in table \ expired
    /\ expired' = expired \union {d}
    /\ UNCHANGED <<table, feedback, job, autocommit, runs, statementFaults, given, leaked>>

\* submit_feedback: stored if the decision is there and no job is deleting it.
\* Otherwise the insert fails, and the caller is answered all the same: the
\* feedback stays in the memory of a service that lives for the request.
SubmitFeedback(d) ==
    /\ d \in table \ Gone
    /\ \E n \in 1..MaxFeedback :
         /\ <<d, n>> \notin given
         /\ feedback' = feedback \union {<<d, n>>}
         /\ given' = given \union {<<d, n>>}
    /\ UNCHANGED <<table, expired, job, autocommit, runs, statementFaults, leaked>>

\* execute, up to the first DELETE
StartJob(j) ==
    /\ job[j].label = "idle" /\ runs < MaxRuns
    /\ runs' = runs + 1
    /\ \E c \in Conn \ UNION {job[i].conn : i \in Job} :
         job' = [job EXCEPT ![j] = [Idle EXCEPT !.label = "feedback", !.conn = {c}]]
    /\ UNCHANGED <<table, expired, feedback, autocommit, statementFaults, given, leaked>>

Auto(j) == job[j].conn \subseteq autocommit

\* A statement that fails aborts the transaction, if there is one.
Fails(j, next) ==
    /\ job' = [job EXCEPT ![j].label = next, ![j].aborted = ~Auto(j)]
    /\ UNCHANGED <<table, feedback>>

\* A job whose statements are committed one by one.
DeletesAtOnce(j, rows, fb, next) ==
    /\ table' = table \ rows /\ feedback' = feedback \ fb
    /\ job' = [job EXCEPT ![j].label = next]

\* Rows are gone at the commit, or at once in autocommit mode.
Deletes(j, rows, fb, next) ==
    IF Auto(j)
      THEN DeletesAtOnce(j, rows, fb, next)
      ELSE /\ job' = [job EXCEPT ![j].label = next, ![j].gone = @ \union rows,
                                 ![j].goneFeedback = @ \union fb]
           /\ UNCHANGED <<table, feedback>>

Fault == statementFaults < MaxStatementFaults /\ statementFaults' = statementFaults + 1

\* delete_expired_feedback
DeleteFeedback(j) ==
    /\ job[j].label = "feedback"
    /\ LET fb == {f \in feedback : f[1] \in table \intersect expired}
       IN /\ fb \intersect GoneFeedback = {}
          /\ \/ Deletes(j, {}, fb, "decisions") /\ UNCHANGED statementFaults
             \/ Fault /\ Fails(j, "decisions")
    /\ UNCHANGED <<expired, autocommit, runs, given, leaked>>

\* delete_expired_decisions: refused while feedback refers to one of them
DeleteDecisions(j) ==
    /\ job[j].label = "decisions"
    /\ LET rows == table \intersect expired
           fb == {f \in feedback : f[1] \in rows} \ job[j].goneFeedback
       IN \/ /\ ~job[j].aborted
             /\ rows \intersect Gone = {} /\ fb \intersect GoneFeedback = {}
             /\ IF fb = {} THEN Deletes(j, rows, {}, "vacuum") ELSE Fails(j, "vacuum")
             /\ UNCHANGED statementFaults
          \/ job[j].aborted /\ Fails(j, "vacuum") /\ UNCHANGED statementFaults
          \/ Fault /\ Fails(j, "vacuum")
    /\ UNCHANGED <<expired, autocommit, runs, given, leaked>>

\* commit, which rolls an aborted transaction back
Commit(j) ==
    IF job[j].aborted THEN UNCHANGED <<table, feedback>>
    ELSE /\ table' = table \ job[j].gone
         /\ feedback' = feedback \ job[j].goneFeedback

\* vacuum_decisions: commit, autocommit mode, VACUUM, and the old mode again -
\* which is the driver's to say if the connection was in autocommit mode.
Vacuum(j) ==
    /\ job[j].label = "vacuum"
    /\ Commit(j)
    /\ job' = [job EXCEPT ![j] = Idle]
    /\ \/ /\ autocommit' \in {autocommit, autocommit \ job[j].conn}
          /\ UNCHANGED <<statementFaults, leaked>>
       \/ /\ Fault
          /\ autocommit' = autocommit \union job[j].conn
          /\ leaked' = TRUE
    /\ UNCHANGED <<expired, runs, given>>

Next == \/ \E d \in Decision : Persist(d) \/ Expire(d) \/ SubmitFeedback(d)
        \/ \E j \in Job : StartJob(j) \/ DeleteFeedback(j) \/ DeleteDecisions(j) \/ Vacuum(j)
Spec == Init /\ [][Next]_storeVars

----------------------------------------------------------------------------
(* Properties *)

\* Retention is all or nothing: whatever statements fail, whatever feedback
\* arrives and however jobs overlap, a decision that is still stored has all the
\* feedback it was given, and none is left of one that is not - unless a VACUUM
\* failed before, which gave a connection back in autocommit mode.
RetentionWhole ==
    /\ \A f \in feedback : f[1] \in table
    /\ ~leaked => \A f \in given : f[1] \in table => f \in feedback
=============================================================================
