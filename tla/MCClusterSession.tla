--------------------------- MODULE MCClusterSession ---------------------------
(* Three kinds of users: one who manages machines while another is logged   *)
(* in to them, two who share the containers, and two with sessions on both. *)
EXTENDS ClusterSession

CONSTANTS a, b

Order(cmd, n) == [cmd |-> cmd, n |-> n]

Orders ==
  { [s \in {a, b} |->
       IF s = a THEN {Order("create", 1), Order("create", 3), Order("edit", 2),
                      Order("destroy", DefaultVms), Order("destroy", 0),
                      Order("update-image", 2), Order("update-image", 3)}
       ELSE {Order("create", 2)}],
    [s \in {a, b} |->
       IF s = a THEN {Order("start", 1), Order("stop", 0), Order("restart", 2)}
       ELSE {Order("start", 2), Order("stop", 0)}],
    [s \in {a, b} |->
       IF s = a THEN {Order("update-image", 1), Order("create", 1), Order("login", 1)}
       ELSE {Order("start", 1), Order("login", 1)}] }
=============================================================================
