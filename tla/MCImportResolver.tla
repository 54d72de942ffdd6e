-------------------------- MODULE MCImportResolver --------------------------
(* Instances of ImportResolver for TLC. *)
EXTENDS ImportResolver, TLC

CONSTANTS A, B, C

\* Every source of at most two imports.
SourcesOfTwo == SeqOf(Programs \cup {Credits}, 2)

\* Every source of at most two imports that differ and are not built in.
Distinct == {s \in SeqOf(Programs, 2) : IsInjective(s)}

\* Sources callers hold themselves: no imports, two of them, one that is built in.
HeldSources == {<<>>, <<A, B>>, <<C, Credits>>}

\* Sources for chains, shared imports and cycles.
FewSources == {<<>>, <<C>>, <<B, C>>}

Symmetry == Permutations(Tasks)

\* Two calls and an upgrade start from the graphs in which C imports nothing and B not
\* itself; an upgrade leads to others.
SharedInit == Init /\ deployed[C] = <<>> /\ deployed[B] # <<B, C>>

SharedSpec == SharedInit /\ [][Next]_vars

=============================================================================
