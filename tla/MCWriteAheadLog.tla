-------------------------- MODULE MCWriteAheadLog ---------------------------
(* Model-checking instances of WriteAheadLog. *)
EXTENDS WriteAheadLog

CONSTANTS r1, r2, zero, x, y, p1, p2, p3, none

\* A transaction on the references rs that expects all of them at o.
Txn(rs, o, n, v, s) ==
    [refs |-> rs, old |-> [r \in {r1, r2} |-> o], new |-> [r \in {r1, r2} |-> n],
     valid |-> v, skip |-> s]

\* Creation of both references, updates of one, of both and of whatever is
\* where it is expected, a deletion, and a reference with a bad name.
MCTransactions ==
    { Txn({r1, r2}, zero, x, TRUE, FALSE), Txn({r1}, zero, y, TRUE, FALSE),
      Txn({r1, r2}, x, y, TRUE, FALSE), Txn({r1, r2}, zero, x, TRUE, TRUE),
      Txn({r1}, x, zero, TRUE, FALSE), Txn({r2}, zero, x, FALSE, TRUE) }

\* Two transactions are enough for the order of restarts and log indexes.
FewTransactions ==
    { Txn({r1}, zero, x, TRUE, FALSE), Txn({r1}, x, zero, TRUE, FALSE) }
=============================================================================
