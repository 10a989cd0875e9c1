--------------------------- MODULE MCFileWatcher ---------------------------
(* Model-checking instances of FileWatcher: which palace each               *)
(* fingerprint belongs to, and the symmetry of the handlers.               *)
EXTENDS FileWatcher, TLC

CONSTANTS a1, a2, p1, p2, r1, r2, t1

\* One palace, one avatar, one root action and one action of the server.
OneAvatar == [f \in {a1, r1, t1} |-> p1]

\* One avatar and one root action in each of two palaces; an action of the
\* server belongs to the first.
TwoPalaces == [f \in {a1, r1, t1} |-> p1] @@ [f \in {a2, r2} |-> p2]

HandlerSymmetry == Permutations(Handlers)

=============================================================================
