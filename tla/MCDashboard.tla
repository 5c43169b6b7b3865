---------------------------- MODULE MCDashboard ----------------------------
EXTENDS Dashboard, TLC

CONSTANTS d1, d2, d3, f1, f2, t1, t2

\* Two documents at the root and one in a sub-folder of a folder.
HomeDef == (d1 :> Root) @@ (d2 :> Root) @@ (d3 :> f2)
TreeDef == (f1 :> {f1, f2}) @@ (f2 :> {f2})
=============================================================================
