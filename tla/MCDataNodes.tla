---------------------------- MODULE MCDataNodes ----------------------------
(***************************************************************************)
(* Model checking of DataNodes: /data/a with /data/a/b below it, and a     *)
(* virtual node of a dslink.                                               *)
(***************************************************************************)
EXTENDS DataNodes

CONSTANTS a, ab, v, g

Tree == [p \in {a, ab, v} |-> CASE p = a -> Data [] p = ab -> a [] p = v -> Root]

\* The operator may do everything, the dslink itself may write, others read; in
\* the second one "default" comes before the dslink.
SomeLists == {<< <<Admin, CONFIG>>, <<OwnId, WRITE>>, <<Default, READ>> >>,
              << <<g, CONFIG>>, <<Default, LIST>>, <<OwnId, CONFIG>> >>}
=============================================================================
