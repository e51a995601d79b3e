-------------------------- MODULE MCEdgeRegister --------------------------
(***************************************************************************)
(* Instances of EdgeRegister for TLC.                                      *)
(***************************************************************************)
EXTENDS EdgeRegister, TLC

\* One supernode is configured and the others are learned, or all are.  Their
\* names do not matter.
FullList == {CHOOSE l \in [1..Cardinality(Supernode) -> Supernode] : IsInjective(l)}
AnyList == FullList \cup {<<Head(l)>> : l \in FullList}

\* Any supernodes answer.
AnyUp == SUBSET Supernode

=============================================================================
