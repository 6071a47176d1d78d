----------------------------- MODULE MCActiveWork -----------------------------
\* A small instance of ActiveWork: one scope has the claim of an agent in a legacy
\* file, and one of an owner that no agent is.
EXTENDS ActiveWork

CONSTANTS a1, a2, lw, s1

MCLegacyClaims == {<<a1, s1>>, <<lw, s1>>}

=============================================================================
