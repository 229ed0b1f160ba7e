----------------------------- MODULE MCExamStore -----------------------------
(***************************************************************************)
(* Two packages and the exam informations of a day: the packages are       *)
(* announced, locked, changed and unlocked again, exams move between them  *)
(* in either order, a new exam is added to a known package, and two        *)
(* informations are malformed or incomplete.                               *)
(***************************************************************************)
EXTENDS ExamStore, TLC

CONSTANTS p1, p2, e1, e2, e3, f1, f2, f3

Exam(e, f, v) == [id |-> e, file |-> f, version |-> v]
Package(p, from, to, lock, es) ==
  [id |-> p, start |-> from, end |-> to, locked |-> lock, exams |-> es]
Info(r, es, ps) == [request |-> r, exams |-> es, packages |-> ps]

MCPackages == {p1, p2}
MCExams == {e1, e2, e3}
MCFiles == {f1, f2, f3}
MCVersions == {1, 2}
MCRequests == 1..5

First == <<Exam(e1, f1, 1)>>
Both == <<Exam(e1, f1, 1), Exam(e2, f2, 1)>>
All == <<Exam(e1, f1, 2), Exam(e3, f3, 1), Exam(e2, f2, 1)>>

MCExamInfos == {
  \* one package, announced, not locked yet
  Info(1, First, <<Package(p1, 0, 2, FALSE, {e1})>>),
  \* both packages locked, the later one listed first
  Info(2, Both, <<Package(p2, 1, 3, TRUE, {e2}),
                  Package(p1, 0, 2, TRUE, {e1})>>),
  \* exam e1 moves to p2, which is listed before its old package
  Info(3, Both, <<Package(p2, 1, 3, TRUE, {e1, e2}),
                  Package(p1, 0, 2, TRUE, {})>>),
  \* p1 is unlocked again, the new exam e3 is added to it
  Info(4, All, <<Package(p1, 0, 3, FALSE, {e1, e3}),
                 Package(p2, 0, 2, TRUE, {e2})>>),
  \* a package with an exam nobody describes
  Info(5, First, <<Package(p1, 0, 1, TRUE, {e2})>>),
  \* a package that ends before it starts
  Info(5, First, <<Package(p1, 2, 1, TRUE, {e1})>>)}

==============================================================================
