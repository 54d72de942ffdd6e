--------------------------- MODULE MCBlockIterator ---------------------------
(* Instances of BlockIterator for TLC. *)
EXTENDS BlockIterator

Heights == 0..(W - 1)
\* The ends whose last batch cannot wrap around W.
SafeEnds == 0..(W - 1 - BatchSize)
\* The last BatchSize blocks there can be.
LastStart == {W - BatchSize}
LastEnd == {W - 1}

=============================================================================
