---------------------------- MODULE OutcomeStore ----------------------------
(***************************************************************************)
(* What the store promises those who record outcomes, without statements,  *)
(* rows and transactions: one goroutine at a time has it to itself, and an *)
(* outcome gets into the table as a whole, by the goroutine that has it,   *)
(* or not at all.                                                          *)
(***************************************************************************)
EXTENDS Naturals

CONSTANTS
    Callers, Nobody,
    Types             \* the rows an outcome is made of

VARIABLES
    asking,   \* goroutines whose outcome is not in the table yet
    owner,    \* who has the store to itself
    table     \* rows of each type, as whoever may look sees them

storeVars == <<asking, owner, table>>

StoreInit ==
    /\ asking = {} /\ owner = Nobody
    /\ table = [t \in Types |-> 0]

\* A goroutine has an outcome to record.
Submit(c) ==
    /\ c \notin asking
    /\ asking' = asking \cup {c}
    /\ UNCHANGED <<owner, table>>

Take(c) ==
    /\ owner = Nobody
    /\ owner' = c
    /\ UNCHANGED <<asking, table>>

GiveBack(c) ==
    /\ owner = c /\ c \notin asking
    /\ owner' = Nobody
    /\ UNCHANGED <<asking, table>>

\* All its rows at once.
Commit(c) ==
    /\ owner = c /\ c \in asking
    /\ table' = [t \in Types |-> table[t] + 1]
    /\ asking' = asking \ {c} /\ owner' = Nobody

\* None of them, and the store is free for the next.
Fail(c) ==
    /\ c \in asking /\ owner \in {c, Nobody}
    /\ asking' = asking \ {c} /\ owner' = Nobody
    /\ UNCHANGED table

StoreNext == \E c \in Callers :
    Submit(c) \/ Take(c) \/ GiveBack(c) \/ Commit(c) \/ Fail(c)

StoreSpec == StoreInit /\ [][StoreNext]_storeVars
=============================================================================
