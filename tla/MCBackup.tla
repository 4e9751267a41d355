------------------------------ MODULE MCBackup ------------------------------
(* Two versions of a replaceable event and a note whose line is over the    *)
(* policy; twice the newer version is over the size of a backup.             *)
EXTENDS Backup, TLC

CONSTANTS v1, v2, note, here, elsewhere, t1, t2, p1, p2

MCEvents == {v1, v2, note}
MCReplaces == {<<v2, v1>>}
MCSize == (v1 :> 1) @@ (v2 :> 2) @@ (note :> 3)
TwoTenants == {t1, t2}
OneTenant == {t1}
BothUrls == {here, elsewhere}
TwoProcs == {p1, p2}
Symmetry == Permutations(TwoProcs)
=============================================================================
