--------------------------- MODULE MCProvableClient ---------------------------
(* Instances of ProvableClient for TLC. *)
EXTENDS ProvableClient

CONSTANTS c1, c2, p1

\* Time is in units of 5 minutes for the tokens' side of the model: Buffer = 1 is
\* jwtBufferDuration, and every wait lasts at least one unit.

\* Tokens that live as long as they are believed to and longer than the buffer, one
\* of them opaque: one that is reused at once, and is stale, or over, a wait later.
HonestTokens == {[life |-> 2, claim |-> 2], [life |-> 2, claim |-> NoClaim]}

=============================================================================
