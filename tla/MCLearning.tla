----------------------------- MODULE MCLearning -----------------------------
(* One course: a module with a preview and one more lesson, and room for a *)
(* third lesson and a second module; x is an id of something else.         *)
EXTENDS Learning, TLC

CONSTANTS m1, m2, l1, l2, l3, x

MCLessons == {l1, l2, l3}
MCOthers == {x}
MCModules == {m1, m2}
MCModuleOf == (l1 :> m1) @@ (l2 :> m1) @@ (l3 :> m1)
MCInitialRows == {m1, l1, l2}
MCInitialOrder == [r \in MCLessons \cup MCModules |-> IF r = l2 THEN 1 ELSE 0]
MCPreviews == {l1}
=============================================================================
