-------------------------- MODULE MCClientRegistry --------------------------
\* ClientRegistry for TLC: two or three interchangeable callers.
EXTENDS ClientRegistry, TLC
Callers == Permutations(Caller)
=============================================================================
