------------------------------ MODULE MCStories ------------------------------
(* What MCPeople and MCTime share: the names of their rows and people, and the variables of their components.  A
behaviour is of one component, told by `story'; its variables are cells, so that the components that rest cost
nothing.  x, y, z are rows and people that can be renamed at will, w those that cannot. *)
EXTENDS Integers, FiniteSets, TLC
CONSTANTS x1, x2, y1, y2, z1, z2, w1, w2
VARIABLES story, c1, c2, c3, c4, c5, c6, c7, c8, c9, c10, c11
vars == <<story, c1, c2, c3, c4, c5, c6, c7, c8, c9, c10, c11>>

X == {x1, x2}
Y == {y1, y2}
Z == {z1, z2}
Symmetry == Permutations(X) \cup Permutations(Y) \cup Permutations(Z)
=============================================================================
