---------------------------- MODULE MCCourseDraft ----------------------------
(* Finite instances of CourseDraft for TLC.                                *)
EXTENDS CourseDraft, TLC

OneVersion == {"v1"}
TwoVersions == {"v1", "v2"}
First == "v1"

\* A topic, and the exam over it
TopicAndExam == 1 :> {} @@ 2 :> {1}
TheExam == {2}
OnlyThese == {TopicAndExam, 1 :> {}}

\* The same, and a topic that joins after the exam: the exam comes to test it
\* instead of the first, on which it rests itself.
Grown == TopicAndExam @@ 3 :> {}
Linked == 1 :> {} @@ 2 :> {3} @@ 3 :> {1}
Growing == {TopicAndExam, Grown, Linked}
=============================================================================
