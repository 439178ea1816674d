--------------------------- MODULE MCOpenDatabase ---------------------------
(***************************************************************************)
(* OpenDatabase on a file that is not there, on tables without the         *)
(* constraint that hold up to three rows, and on a migrated one.           *)
(***************************************************************************)
EXTENDS OpenDatabase

MCFile == {"f", "g"}
MCStatus == {"pending", "failed"}

Old(rows) == [unique |-> FALSE, rows |-> rows, seq |-> 3]

MCDatabases ==
  {[deletions |-> NoTable, deletions_new |-> NoTable, versions |-> {}],
   [deletions |-> [unique |-> TRUE, rows |-> {}, seq |-> 3], deletions_new |-> NoTable, versions |-> {1}]}
  \cup
  {[deletions |-> Old({[id |-> i, file |-> m[i][1], status |-> m[i][2]] : i \in ids}),
    deletions_new |-> NoTable, versions |-> {}] :
     ids \in SUBSET (1 .. 3), m \in [1 .. 3 -> {<<"f", "pending">>, <<"f", "failed">>, <<"g", "pending">>}]}
=============================================================================
