----------------------------- MODULE MCClassroom -----------------------------
(* A small instance of Classroom for TLC: one scenario for each part, and   *)
(* those that bring two parts together.                                     *)
EXTENDS Classroom

CONSTANTS k1, k2, t1, r1, r2, s1, s2, a1, a2, x, y, h, g, net, sec

Chapters == (x :> {h}) @@ (y :> {h, g})
Subjects == (1 :> net) @@ (2 :> net) @@ (3 :> sec)
Programmes ==
  {[discipline |-> net, edges |-> {<<2, 1>>}],
   [discipline |-> net, edges |-> {<<1, 2>>, <<2, 3>>}],
   [discipline |-> net, edges |-> {}],
   [discipline |-> sec, edges |-> {<<3, 1>>}],
   [discipline |-> sec, edges |-> {<<3, 1>>, <<1, 3>>}]}
Books == {(1 :> x) @@ (2 :> NoText), (1 :> y) @@ (2 :> x)}

At(acts, n) == [a \in Acts |-> IF a \in acts THEN n ELSE 0]
Each(v) == [k \in Cohorts |-> [c \in Courses |-> v]]
Outsider == [status |-> "none", role |-> "none", track |-> NoTrack]
Pupil == [status |-> "active", role |-> "student", track |-> NoTrack]
Joined(row) == [k \in Cohorts |-> IF k = k1 THEN row ELSE Outsider]
Line == [cohort |-> k1, seat |-> [c \in Courses |-> c]]
Unmade == [cohort |-> NoCohort, seat |-> [c \in Courses |-> 0]]

Base ==
  [budget |-> At({}, 0), enrolment |-> Joined(Pupil), track |-> [t \in Tracks |-> Unmade],
   offered |-> [k \in Cohorts |-> IF k = k1 THEN Courses ELSE {}],
   status |-> [c \in Courses |-> "published"], requires |-> {},
   text |-> [c \in Courses |-> [n \in Numbers |-> IF n = 1 THEN x ELSE NoText]],
   activities |-> [c \in Courses |-> {}],
   starts |-> Each(Null), ends |-> Each(Null), due |-> Each(Null),
   access |-> [k \in Cohorts |-> Null]]

Studied == [Base EXCEPT !.activities = [c \in Courses |-> {1}]]
OnTrack == [Studied EXCEPT !.track = [t \in Tracks |-> Line],
                           !.enrolment = Joined([Pupil EXCEPT !.track = t1])]

\* Two requests change the learner's row at the same time.
Rows == {Outsider, [Pupil EXCEPT !.status = "dropped"],
         [Pupil EXCEPT !.role = "instructor"],
         [Pupil EXCEPT !.role = "instructor", !.status = "waitlisted"]}
Membership ==
  {[Base EXCEPT !.budget = At(acts, 1), !.enrolment = Joined(row),
                !.track = [t \in Tracks |-> [Line EXCEPT !.seat[3] = 0]],
                !.offered = [k \in Cohorts |-> IF k = k1 THEN {1, 2} ELSE {}]] :
     acts \in {{"users", "invite", "state"}, {"users", "enrol"}, {"enrol", "state", "assign"},
               {"invite", "enrol", "abort"}},
     row \in Rows}

\* A track is made, extended, reordered, assigned and cleared as he studies.
Curated ==
  {[Studied EXCEPT !.budget = [At({"track", "assign"}, 1) EXCEPT !["add"] = 2],
                   !.offered = [k \in Cohorts |-> {}]],
   [OnTrack EXCEPT !.budget = At({"reorder", "clear", "add"}, 1),
                   !.track = [t \in Tracks |-> [Line EXCEPT !.seat[3] = 0]]]}

\* Prerequisites and the lifecycle of courses, with a track and without.
Programmed ==
  {[s EXCEPT !.budget = At({"file", "status", "reorder"}, 1)] : s \in {OnTrack}}
  \cup {[s EXCEPT !.budget = [At({"status"}, 1) EXCEPT !["file"] = 2]] : s \in {Studied, OnTrack}}

\* Windows of two cohorts, with an extension, while time passes.
Windowed ==
  {[Studied EXCEPT
      !.budget = [At({"state"}, 1) EXCEPT !["tick"] = 3],
      !.enrolment = [k \in Cohorts |-> Pupil],
      !.offered = [k \in Cohorts |-> IF k = k1 THEN {1, 2} ELSE {2, 3}],
      !.starts = [k \in Cohorts |-> [c \in Courses |-> IF k = k1 THEN p ELSE Null]],
      !.ends = [k \in Cohorts |-> [c \in Courses |-> IF k = k1 THEN e ELSE 1]],
      !.due = Each(2),
      !.access = [k \in Cohorts |-> IF k = k1 THEN v ELSE Null]] :
     p \in {Null, 1}, e \in {Null, 1, 2}, v \in {Null, 2}}

\* Chapters are written, imported and deleted as he reads.
Authored ==
  {[Base EXCEPT !.budget = b, !.status[3] = "absent", !.text[3] = [n \in Numbers |-> NoText],
                !.offered = [k \in Cohorts |-> {1}], !.activities[1] = {1, 2}] :
     b \in {At({"import", "edit", "remove", "course", "view"}, 1),
            [At({"edit", "remove", "subtopic"}, 1) EXCEPT !["read"] = 2]}}

Scheduled ==
  {[Base EXCEPT !.budget = [At(acts, 1) EXCEPT !["tick"] = 3]] :
     acts \in {{"session", "edit session", "cancel"}, {"session", "state", "mode"}}}

Announced ==
  {[Base EXCEPT !.budget = [At({"delete", "mark", "classify", "state"}, 1) EXCEPT !["announce"] = 2],
                !.enrolment = Joined(row)] :
     row \in {Pupil, [Pupil EXCEPT !.role = "instructor"]}}

Scenarios ==
  Membership \cup Curated \cup Programmed \cup Windowed \cup Authored \cup Scheduled \cup Announced
=============================================================================
