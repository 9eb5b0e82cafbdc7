---------------------------- MODULE MCLspSession ----------------------------
\* Instances of LspSession for TLC: two calls for one key.
EXTENDS LspSession, TLC
CONSTANTS c1, c2, s1, s2

Own == (c1 :> s1) @@ (c2 :> s2)
=============================================================================
