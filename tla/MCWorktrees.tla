----------------------------- MODULE MCWorktrees -----------------------------
\* A small instance of Worktrees.
EXTENDS Worktrees, TLC

Symmetric == Permutations(Agents) \cup Permutations(Branches)

=============================================================================
