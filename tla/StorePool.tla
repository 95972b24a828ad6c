----------------------------- MODULE StorePool -----------------------------
(***************************************************************************)
(* The store of internal/store as its callers share it: a pool of one      *)
(* connection.  A call of DB is a chain of statements.  Some take the      *)
(* connection and give it back at once, some keep it for the statements    *)
(* that follow: open rows, a transaction.  A caller that keeps it and then *)
(* asks the pool again would wait for itself.                              *)
(***************************************************************************)
EXTENDS Naturals

CONSTANTS
    Procs, NoProc,
    Candidates   \* statements of one selection: seven for every candidate

ASSUME PoolAssumption == NoProc \notin Procs /\ Candidates \in Nat \ {0}

VARIABLES
    at,       \* per goroutine: the statement it is about to run, or "none"
    more,     \* how many more of the same
    holder,   \* who has the connection
    rows,     \* rows of outcomes in node_metrics, per event type, as the
              \* connection sees them: with those of the open transaction
    durable   \* the same without them

pool == <<at, more, holder, rows, durable>>

EventTypes == {"latency", "speed", "success", "bytes"}

(***************************************************************************)
(* The chains.  ComputeScore: "score", over and over.  InsertDownloadEvents*)
(* a transaction of four inserts.  GenericQuery: the rows of TableSchema,  *)
(* a count, the rows of the page.  ListTables, TableSchema: "open".        *)
(* InsertMetricEvent and the generic insert, update and delete: "exec".    *)
(***************************************************************************)
Calls == {"score", "begin", "open", "schema", "exec"}
After == [score  |-> "none",
          begin  |-> "latency", latency |-> "speed", speed |-> "success",
          success |-> "bytes", bytes |-> "commit", commit |-> "none",
          open   |-> "rows", rows |-> "none",
          schema |-> "schemaRows", schemaRows |-> "count", count |-> "page",
          page   |-> "pageRows", pageRows |-> "none",
          exec   |-> "none"]

Statements == DOMAIN After

\* Statements that need a free connection, and those of them that keep it.
Taking       == {"score", "begin", "open", "schema", "count", "page", "exec"}
Keeping_noTx == {"open", "schema", "page"}
Keeping      == {"begin", "open", "schema", "page"}
\* Statements on the connection the goroutine has, and those that return it:
\* the end of a transaction, and the Close of rows.
Owning  == Statements \ Taking
Returning_deferred == {"commit", "rows", "pageRows"}
Returning          == {"commit", "rows", "schemaRows", "pageRows"}

\* A statement whose error the code does not look at.
Unchecked == {"score", "count"}

\* When a chain is broken off, the deferred Rollback or Close gives back the
\* connection.
Abandon_kept(p) == UNCHANGED holder
Abandon(p)      == holder' = IF holder = p THEN NoProc ELSE holder

\* What the transaction has inserted is taken back: by the deferred Rollback, or,
\* when Commit fails and Rollback finds the transaction done, by the driver, with
\* the connection.
Transaction    == EventTypes \cup {"commit"}
Undo_never(p)  == UNCHANGED rows
Undo(p)        == rows' = IF at[p] \in Transaction THEN durable ELSE rows

PoolInit ==
    /\ at = [p \in Procs |-> "none"] /\ more = [p \in Procs |-> 0]
    /\ holder = NoProc
    /\ rows = [t \in EventTypes |-> 0] /\ durable = rows

Begin(p, call, n) ==
    /\ at' = [at EXCEPT ![p] = call]
    /\ more' = [more EXCEPT ![p] = n]
    /\ UNCHANGED <<holder, rows, durable>>

\* The statement s of p runs.
Run(p, s) ==
    /\ at[p] = s
    /\ s \in Taking => holder = NoProc
    /\ holder' = IF s \in Keeping THEN p
                 ELSE IF s \in Returning THEN NoProc ELSE holder
    /\ rows' = IF s \in EventTypes THEN [rows EXCEPT ![s] = @ + 1] ELSE rows
    /\ durable' = IF s = "commit" THEN rows ELSE durable
    /\ IF more[p] > 0
       THEN more' = [more EXCEPT ![p] = @ - 1] /\ UNCHANGED at
       ELSE at' = [at EXCEPT ![p] = After[s]] /\ UNCHANGED more

\* It fails: the rest of the call is not run, unless nobody looks at the error.
RunFails(p, s) ==
    /\ at[p] = s
    /\ s \in Taking => holder = NoProc
    /\ s \notin Unchecked
    /\ Abandon(p) /\ Undo(p)
    /\ at' = [at EXCEPT ![p] = "none"]
    /\ UNCHANGED <<more, durable>>

-----------------------------------------------------------------------------
\* The connection is with a goroutine exactly while its rows or transaction
\* are open: it is lost by no error, and nobody who has it asks for it again.
PoolSound == \A p \in Procs : holder = p <=> at[p] \in Owning

\* Whoever can read node_metrics sees all four rows of a download or none: its
\* latency, its success and its bytes come together.  (Tests of nodes and edits at
\* the console add and remove single rows, in one statement; they are not counted
\* here.)
OutcomesWhole == holder = NoProc => \A t, u \in EventTypes : rows[t] = rows[u]
=============================================================================
