--------------------------- MODULE MCPalaceVault ---------------------------
(* Model-checking instances of PalaceVault: commands are interchangeable.   *)
EXTENDS PalaceVerify, TLC

CommandSymmetry == Permutations(Commands)

=============================================================================
