------------------------- MODULE MCIdentitySessions -------------------------
(* The instance of IdentitySessions that TLC checks. *)
EXTENDS IdentitySessions, TLC

CONSTANTS l1, l2, g1, g2, f1, f2, h1, h2

(* Nothing tells the members of these sets apart. *)
Symmetry == UNION {Permutations(S) : S \in {Logins, Grants, Families,
                                            Handlers}}
=============================================================================
