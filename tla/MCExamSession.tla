---------------------------- MODULE MCExamSession ----------------------------
(***************************************************************************)
(* Up to two packages and two exams on an empty database, and then three   *)
(* packages in every order on what came of it: e1 in any of the packages,  *)
(* e2 in any that lists e1, so that exams move, appear and disappear       *)
(* between known and new packages, and may be listed twice.                *)
(***************************************************************************)
EXTENDS ExamSession, SequencesExt

CONSTANTS p1, p2, p3, e1, e2, f1, f2

MCPackages == {p1, p2, p3}
MCExams == {e1, e2}
MCFiles == {f1, f2}

Exam(e, f) == [id |-> e, file |-> f, version |-> 1]
Package(p, es) ==
  [id |-> p, start |-> 0, end |-> 1, locked |-> FALSE, exams |-> es]

Lists(r, exams, order) ==
  {[request |-> r, exams |-> exams,
    packages |-> [k \in DOMAIN order |-> Package(order[k], lists[order[k]])]] :
     lists \in [Range(order) -> {{}, {e1}, {e1, e2}}]}

E1 == Exam(e1, f1)
E2 == Exam(e2, f2)
Earlier == UNION {Lists(1, exams, order) :
                    exams \in {<<E1>>, <<E1, E2>>, <<Exam(e1, f2), E2>>},
                    order \in {<<p1>>, <<p1, p2>>}}
Later == UNION {Lists(2, <<E1, E2>>, order) : order \in SetToSeqs(MCPackages)}
MCExamInfos == Earlier \cup Later
==============================================================================
