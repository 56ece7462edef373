----------------------------- MODULE MCFindings -----------------------------
(* Findings on small instances.                                             *)
EXTENDS Findings

Task(files, reads) ==
    [title |-> NoFile, files |-> files, reads |-> reads, granted |-> {}, approved |-> {},
     declared |-> files]
ShapeBy(by, file, severity, kind) ==
    [by |-> by, file |-> file, related |-> {}, severity |-> severity, kind |-> kind]
Shape(file, related, severity, kind) ==
    [by |-> "review", file |-> file, related |-> related, severity |-> severity, kind |-> kind]

(* Two sub-tasks of disjoint files; the first may read a file of nobody's.  *)
MCPlans == {<<Task({"a"}, reads), Task({"b"}, {})>> : reads \in {{}, {"c"}}}

(* The first defect is in a file of the plan or of nobody, its fix may need *)
(* the other sub-task; the second is the other sub-task's, nobody's, names  *)
(* no file, is the environment's, or is what one of the gates raises.       *)
MCShapes ==
    {[d \in {"x", "y"} |-> IF d = "x" THEN u ELSE w] :
        u \in {Shape(f, r, v, "code") : f \in {"a", "c"}, r \in {{}, {"b"}}, v \in {"medium", "high"}},
        w \in {Shape("b", {}, "high", "code"), Shape(NoFile, {}, "medium", "code"),
               Shape("c", {"a"}, "low", "code"), Shape("a", {}, "medium", "env"),
               ShapeBy("scripts", NoFile, "medium", "code"), ShapeBy("config", NoFile, "high", "code"),
               ShapeBy("scope", "c", "medium", "code"), ShapeBy("types", "a", "high", "code"),
               ShapeBy("types", NoFile, "high", "env")}}
MCDepends == {<<2, 1>>}
=============================================================================
