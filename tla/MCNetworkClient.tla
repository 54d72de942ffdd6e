--------------------------- MODULE MCNetworkClient ---------------------------
(* Instances of NetworkClient for TLC. *)
EXTENDS NetworkClient

Answer(status, retryAfter, decodes) ==
    [status |-> status, retryAfter |-> retryAfter, decodes |-> decodes]

\* A good answer, one that is no JSON, a refusal, and the ones that are retried.
AllAnswers ==
    {Answer(200, 0, TRUE), Answer(200, 0, FALSE), Answer(404, 0, FALSE),
     Answer(201, 0, FALSE), Answer(500, 0, FALSE), Answer(429, 0, FALSE), Answer(429, 3, FALSE)}

\* One answer of each effect.
FewAnswers ==
    {Answer(200, 0, TRUE), Answer(404, 0, FALSE), Answer(429, 2, FALSE)}

=============================================================================
