----------------------------- MODULE MCBatchRun -----------------------------
(* Two processes of one run (the second is a retry or a competitor of the  *)
(* first) over a directory edited at any time between three states: two    *)
(* that hold the same event with different contents, the shorter of them   *)
(* lacking the second file, and one whose only input is no envelope.       *)
EXTENDS BatchRun

CONSTANTS r1, e1, e2, prepared, omitted, unvalidated, v1, v2, v3

MCRunOf == [p \in Procs |-> r1]

MCVerdict ==
  [c \in Contents |->
     CASE c = prepared -> "prepared"
       [] c = omitted -> "omitted"
       [] c = unvalidated -> "unvalidated"]

MCFixtures ==
  [v \in Versions |->
     CASE v = v1 -> << [event |-> e1, content |-> prepared],
                       [event |-> e2, content |-> omitted] >>
       [] v = v2 -> << [event |-> e2, content |-> prepared] >>
       [] v = v3 -> << [event |-> e1, content |-> unvalidated] >>]
=============================================================================
