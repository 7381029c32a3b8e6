---------------------------- MODULE MCBoundaries -----------------------------
\* Boundaries over the catalogues of command lines and of patches.
EXTENDS Boundaries, MCHookBoundary, MCEditBoundary

Symmetry == HookSymmetry \cup EditSymmetry
=============================================================================
