-------------------------- MODULE MCDreamballFile --------------------------
(* Model-checking instances of DreamballFile. *)
EXTENDS DreamballFile, TLC

\* Nothing tells two of the processes, or two of the keys to mint, apart.
Symmetry == Permutations(Procs) \cup Permutations(Keys \ {GivenKey})

MCEdits == {{"voice", "look", "revision-bump", "dreamball"},
            {"name", "model", "coverage", "dragonball"}}
MCLookFile == {"asset", "asset.url", "background"}
MCCoverageFile == {"node", "sample", "sample.heading"}

=============================================================================
