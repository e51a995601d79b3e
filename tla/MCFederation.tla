--------------------------- MODULE MCFederation ---------------------------
(***************************************************************************)
(* Instances of Federation for TLC.                                        *)
(***************************************************************************)
EXTENDS Federation

\* One edge: the names of the supernodes do not matter.
FirstHome == {[m \in Mac |-> CHOOSE s \in Supernode : TRUE]}

\* Bound: an edge moves, or an edge or a supernode restarts, once in all.
OneChange == moves' + restarts' <= 1
MCNext == Next /\ OneChange
MCSpec == Init /\ [][MCNext]_vars /\ Fairness

=============================================================================
