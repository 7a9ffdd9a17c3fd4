------------------------------- MODULE MCShield -------------------------------
(***************************************************************************)
(* Shield on a small directory: two config files that must not both hold   *)
(* x (say, they would define one policy twice) and a data file.            *)
(***************************************************************************)
EXTENDS Shield, TLC

CONSTANTS a, b, d, aTmp, bTmp, dTmp, x, y

MCTmpOf == (a :> aTmp) @@ (b :> bTmp) @@ (d :> dTmp)

MCLoadable == {c \in [ConfigFiles -> Contents \cup {Absent}] : ~(c[a] = x /\ c[b] = x)}

Pushed(files, sums, full, sound) ==
    [files |-> files, sums |-> sums, full |-> full, sound |-> sound]

Hashed(files, full) == Pushed(files, files, full, TRUE)

\* Full and partial, one that conflicts in itself and one that conflicts with
\* what may be there, one without hashes, one with a wrong one, one with an
\* unsafe path, and a clear.
MCBundles ==
    { Hashed((a :> x) @@ (b :> y), TRUE),
      Hashed((a :> x) @@ (b :> x), TRUE),
      Hashed((b :> x) @@ (d :> y), FALSE),
      Pushed((a :> x), (a :> Absent), TRUE, TRUE),
      Pushed((a :> y) @@ (b :> x), (a :> y) @@ (b :> y), FALSE, TRUE),
      Pushed((d :> x), (d :> x), FALSE, FALSE),
      Hashed(<<>>, TRUE) }

=============================================================================
