-------------------------- MODULE ReferenceUpdates --------------------------
(***************************************************************************)
(* Transactions on the references of one repository and what it means to   *)
(* verify and to perform one: the data of Gitaly's TransactionManager      *)
(* (internal/gitaly/transaction_manager.go).                               *)
(***************************************************************************)
CONSTANTS
    Refs,          \* reference names
    Tips,          \* object IDs, with the zero OID of a missing reference
    ZeroOID,
    Transactions,  \* the transactions that may be proposed
    NoTransaction

\* A transaction expects refs to point to old and makes them point to new.
\* valid: the names are well-formed.  skip: SkipVerificationFailures.
Transaction ==
    [ refs : SUBSET Refs, old : [Refs -> Tips], new : [Refs -> Tips],
      valid : BOOLEAN, skip : BOOLEAN ]

ASSUME TransactionsAssumption ==
    /\ ZeroOID \in Tips
    /\ Transactions \subseteq Transaction
    /\ NoTransaction \notin Transactions

\* The references of t that point where t expects them to.
Verified(tips, t) == {r \in t.refs : t.old[r] = tips[r]}

Acceptable(tips, t) == t.valid /\ (t.skip \/ Verified(tips, t) = t.refs)

\* The tips after the references rs were made to point to new.
Performed(tips, rs, new) == [r \in Refs |-> IF r \in rs THEN new[r] ELSE tips[r]]
=============================================================================
