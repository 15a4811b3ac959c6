------------------------------ MODULE Curriculum ------------------------------
(***************************************************************************)
(* What the learner of Roster may study, and what the pages say of it:     *)
(* entitlement, track order, prerequisites and offering windows; the       *)
(* dashboard's cards; chapters, their authoring and import, and reading.   *)
(*                                                                         *)
(* Simplified: a chapter is its text, a text its set of headings; a        *)
(* chapter in setup.activities carries one activity, and passing it stands *)
(* for Learning's attempts; a course is completed when all its activities  *)
(* are passed.  Each request here is one step.                             *)
(***************************************************************************)
EXTENDS Roster

CONSTANTS
  Numbers,       \* chapter numbers
  Texts,         \* chapter texts
  Headings,      \* [Texts -> sets of subtopics]
  NoText,
  Discipline,    \* [Courses -> disciplines]
  Files,         \* curriculum files: a discipline and the edges it declares
  Manuals,       \* course manuals on disk: [Numbers -> texts or NoText]
  MaxTime        \* bound: the clock

ASSUME MaxTimeAssumption == MaxTime \in Nat
ASSUME HeadingsAssumption == DOMAIN Headings = Texts /\ NoText \notin Texts
ASSUME NumbersAssumption == Numbers \subseteq Nat
ASSUME FilesAssumption == \A f \in Files : f.edges \subseteq Courses \X Courses
ASSUME ManualsAssumption == Manuals \subseteq [Numbers -> Texts \cup {NoText}]

VARIABLES
  now,
  requires,    \* CoursePrerequisite rows: <<course, the course it requires>>
  chapter,     \* [Courses -> [Numbers -> [body, md, hash]]]
  version,     \* [Courses -> content version]
  trail,       \* reads and passing work, as <<kind, course, chapter>>, oldest first
  subtopics,   \* subtopics read, as <<course, chapter, heading>>
  ledger       \* learning events of the pages, as <<kind, course, chapter>>

courseVars == <<requires, chapter, version, trail, subtopics, ledger>>

CurriculumActs ==
  {"file", "course", "status", "import", "edit", "remove", "view", "read", "subtopic"}

Null == -1
NoChapter == [body |-> NoText, md |-> NoText, hash |-> NoText]
Present(c, n) == chapter[c][n].body # NoText

Passed(c, n) == Contains(trail, <<"work", c, n>>)
MarkedRead(c, n) == Contains(trail, <<"read", c, n>>)
Done(c) == setup.activities[c] # {} /\ \A n \in setup.activities[c] : Passed(c, n)

-----------------------------------------------------------------------------
(* Entitlement.                                                            *)

Active(k) == enrolment[k].status = "active"

\* Courses that the row of cohort k entitles the learner to see.
Entitled(k) ==
  {c \in offered[k] : /\ Active(k) /\ status[c] \in {"published", "completed"}
                      /\ c \in CoursesOf(enrolment[k].track) \/ enrolment[k].track = NoTrack}

Visible == UNION {Entitled(k) : k \in Cohorts}

\* Track order; equal seats fall back to the title.
Before(k, a, b) ==
  LET seat == track[enrolment[k].track].seat
  IN seat[a] < seat[b] \/ (seat[a] = seat[b] /\ a < b)

\* The course right before c among those of the track that are visible.
Previous(k, c) ==
  {p \in Entitled(k) : /\ Before(k, p, c)
                       /\ ~\E q \in Entitled(k) : Before(k, p, q) /\ Before(k, q, c)}

HeldBack(k, c) == enrolment[k].track # NoTrack /\ \E p \in Previous(k, c) : ~Done(p)

\* One row that opens the course is enough.
HeldByTrack(c) == \A k \in Cohorts : c \in Entitled(k) => HeldBack(k, c)

\* Mutant: track order alone locks a course.
Unfinished_None(c) == {}

Unfinished(c) == {r \in Courses : <<c, r>> \in requires /\ ~Done(r)}

\* course_access_states: what a visible course is locked until.  Track order
\* is the first reason.
LockedUntil(c) ==
  IF HeldByTrack(c)
  THEN {p \in Courses : ~Done(p) /\ \E k \in Cohorts : c \in Entitled(k) /\ p \in Previous(k, c)}
  ELSE Unfinished(c)

Locked(c) == LockedUntil(c) # {}
Accessible == {c \in Visible : ~Locked(c)}

\* Mutant: a learner's extension does not open the window.
WindowOpen_NoExtension(k, c) ==
  /\ setup.starts[k][c] = Null \/ setup.starts[k][c] <= now
  /\ setup.ends[k][c] = Null \/ setup.ends[k][c] >= now

WindowOpen(k, c) ==
  /\ setup.starts[k][c] = Null \/ setup.starts[k][c] <= now
  /\ setup.ends[k][c] = Null \/ setup.ends[k][c] >= now \/ setup.access[k] >= now

OpenIds == {c \in Courses : \E k \in Cohorts : c \in Entitled(k) /\ WindowOpen(k, c)}

\* The prerequisites, and what a visible course is locked until.
Required(c) ==
  {r \in Courses : <<c, r>> \in requires} \cup (IF c \in Visible THEN LockedUntil(c) ELSE {})

\* Mutant: a prerequisite stays unmet when it is completed.
Unmet_Always(c) == Required(c)

Unmet(c) == {r \in Required(c) : ~Done(r)}

\* require_course_open: the gate of every content route.
CourseOpen(c) == c \in OpenIds /\ Unmet(c) = {}

-----------------------------------------------------------------------------
(* The dashboard and the course pages.                                     *)

\* The cohorts through which the dashboard joins a visible course.
Offering(c) == {k \in Cohorts : Active(k) /\ c \in offered[k]}

Effective(k, c) ==
  LET ends == setup.ends[k][c] access == setup.access[k]
  IN IF access # Null /\ (ends = Null \/ access > ends) THEN access ELSE ends

\* The offering with the earliest end is the card's; ties are left open.
Chosen(c) ==
  {k \in Offering(c) : \A o \in Offering(c) :
     Effective(o, c) # Null => (Effective(k, c) # Null /\ Effective(k, c) <= Effective(o, c))}

CardState(k, c) ==
  IF Locked(c) THEN "locked"
  ELSE IF setup.starts[k][c] # Null /\ setup.starts[k][c] > now THEN "upcoming"
  ELSE IF Done(c) THEN "completed"
  ELSE IF Effective(k, c) # Null /\ Effective(k, c) < now THEN "expired"
  ELSE "in_progress"

\* Where the trail touches the courses of S, and the last of these touches.
Touches(S) == {i \in DOMAIN trail : trail[i][2] \in S}
LastTouch(S) == trail[CHOOSE i \in Touches(S) : \A j \in Touches(S) : j <= i]

Incomplete(c, n) ==
  \/ n \in setup.activities[c] /\ ~Passed(c, n)
  \/ ~MarkedRead(c, n)

\* The first incomplete chapter from the last one touched, then from the
\* start; 0 when nothing remains.
Resume(c) ==
  LET start == IF Touches({c}) = {} THEN 0 ELSE LastTouch({c})[3]
      left == {n \in Numbers : Present(c, n) /\ Incomplete(c, n)}
      ahead == {n \in left : n >= start}
      Least(S) == CHOOSE n \in S : \A m \in S : n <= m
  IN IF ahead # {} THEN Least(ahead) ELSE IF left # {} THEN Least(left) ELSE 0

\* The card's link, to a chapter of the course.
CardChapter(c) == IF Touches({c}) = {} \/ Resume(c) = 0 THEN 1 ELSE Resume(c)

\* The home page continues the visible course touched last, in any state.
ContinueAt ==
  LET c == LastTouch(Visible)[2]
  IN IF Touches(Visible) = {} \/ Resume(c) = 0 THEN <<>> ELSE <<c, Resume(c)>>

\* The progress page counts a course overdue by its own due date, or by the
\* end of the offering.
Due(k, c) == IF setup.due[k][c] # Null THEN setup.due[k][c] ELSE setup.ends[k][c]
Overdue(k, c) == Due(k, c) # Null /\ Due(k, c) < now /\ ~Done(c)

\* The landing page continues at the first chapter whose work is not passed,
\* or that has none; 0 when there is none such.
LandingContinue(c) ==
  LET left == {n \in Numbers : Present(c, n) /\ ~Passed(c, n)}
  IN IF left = {} THEN 0 ELSE CHOOSE n \in left : \A m \in left : n <= m

\* The landing page of a learner: the window decides, a lock is a banner.
Landing(c) == c \in OpenIds
Banner(c) == Unmet(c) # {}

-----------------------------------------------------------------------------
(* Curation: prerequisites, lifecycle, chapters.                           *)

Curating == UNCHANGED <<setup, now, rosterVars>>

\* Some courses require each other round and round.
Cyclic(edges) ==
  \E S \in SUBSET Courses \ {{}} : \A c \in S : \E r \in S : <<c, r>> \in edges

\* _load_curriculum: the file is refused when a course is unknown or its own
\* edges have a cycle; rows of its discipline that it does not declare go.
LoadCurriculum(f) ==
  /\ \A e \in f.edges : status[e[1]] # "absent" /\ status[e[2]] # "absent"
  /\ ~Cyclic(f.edges)
  /\ Spend("file")
  /\ requires' = f.edges \cup {e \in requires : Discipline[e[1]] # f.discipline}
  /\ UNCHANGED <<status, chapter, version, trail, subtopics, ledger>> /\ Curating

CreateCourse(c) ==
  /\ status[c] = "absent" /\ Spend("course")
  /\ status' = [status EXCEPT ![c] = "draft"]
  /\ version' = [version EXCEPT ![c] = 1]
  /\ UNCHANGED <<requires, chapter, trail, subtopics, ledger>> /\ Curating

SetCourseStatus(c, s) ==
  /\ status[c] \notin {"absent", s} /\ Spend("status")
  /\ status' = [status EXCEPT ![c] = s]
  /\ UNCHANGED <<requires, chapter, version, trail, subtopics, ledger>> /\ Curating

\* import_manual: chapters whose hash is the file's are skipped, the others
\* are written, without their markdown; the version moves once.  A new course
\* is published.
ImportManual(c, manual) ==
  LET new == {n \in Numbers : manual[n] # NoText /\ chapter[c][n].hash # manual[n]}
  IN /\ Spend("import")
     /\ chapter' = [chapter EXCEPT ![c] = [n \in Numbers |->
          IF n \in new THEN [@[n] EXCEPT !.body = manual[n], !.hash = manual[n]] ELSE @[n]]]
     /\ version' = [version EXCEPT ![c] =
          (IF status[c] = "absent" THEN 1 ELSE @) + (IF new = {} THEN 0 ELSE 1)]
     /\ status' = [status EXCEPT ![c] = IF @ = "absent" THEN "published" ELSE @]
     /\ UNCHANGED <<requires, trail, subtopics, ledger>> /\ Curating

UpsertChapter(c, n, text) ==
  /\ status[c] # "absent" /\ Spend("edit")
  /\ chapter' = [chapter EXCEPT ![c][n] = [@ EXCEPT !.body = text, !.md = text]]
  /\ version' = [version EXCEPT ![c] = @ + 1]
  /\ UNCHANGED <<status, requires, trail, subtopics, ledger>> /\ Curating

Unmarked(c, n) == RemoveFirst(trail, <<"read", c, n>>)

\* Mutant: the reads of a deleted chapter are left behind.
DeleteChapter_KeepsReads(c, n) ==
  /\ Present(c, n) /\ Spend("remove")
  /\ chapter' = [chapter EXCEPT ![c][n] = NoChapter]
  /\ version' = [version EXCEPT ![c] = @ + 1]
  /\ UNCHANGED <<status, requires, trail, subtopics, ledger>> /\ Curating

\* The reads of a chapter are deleted with it.
DeleteChapter(c, n) ==
  /\ Present(c, n) /\ Spend("remove")
  /\ chapter' = [chapter EXCEPT ![c][n] = NoChapter]
  /\ version' = [version EXCEPT ![c] = @ + 1]
  /\ trail' = Unmarked(c, n)
  /\ subtopics' = {s \in subtopics : <<s[1], s[2]>> # <<c, n>>}
  /\ UNCHANGED <<status, requires, ledger>> /\ Curating

\* What the editor's textarea shows.
EditorSource(c, n) == IF chapter[c][n].md # NoText THEN chapter[c][n].md ELSE chapter[c][n].body

-----------------------------------------------------------------------------
(* Reading.                                                                *)

Reading == UNCHANGED <<setup, now, rosterVars, status, requires, chapter, version>>

ChapterPage(c, n) ==
  /\ CourseOpen(c) /\ Present(c, n) /\ Spend("view")
  /\ ledger' = ledger \cup {<<"course_viewed", c, 0>>, <<"chapter_viewed", c, n>>}
  /\ UNCHANGED <<trail, subtopics>> /\ Reading

\* The landing page, for a learner.
CoursePage(c) ==
  /\ Landing(c) /\ Spend("view")
  /\ ledger' = ledger \cup {<<"course_viewed", c, 0>>}
  /\ UNCHANGED <<trail, subtopics>> /\ Reading

SubtopicComplete(c, n, h) ==
  /\ CourseOpen(c) /\ Present(c, n) /\ h \in Headings[chapter[c][n].body]
  /\ Spend("subtopic")
  /\ subtopics' = subtopics \cup {<<c, n, h>>}
  /\ UNCHANGED <<trail, ledger>> /\ Reading

\* The page's gate of the activity links.
SubtopicsComplete(c, n) ==
  \A h \in Headings[chapter[c][n].body] : <<c, n, h>> \in subtopics

\* chapter_complete toggles the mark; the event is kept.
ToggleRead(c, n) ==
  /\ CourseOpen(c) /\ Present(c, n) /\ Spend("read")
  /\ IF MarkedRead(c, n)
     THEN trail' = Unmarked(c, n) /\ UNCHANGED ledger
     ELSE /\ trail' = Append(trail, <<"read", c, n>>)
          /\ ledger' = ledger \cup {<<"chapter_completed", c, n>>}
  /\ UNCHANGED subtopics /\ Reading

\* A submission that passes; the activity page checks the course alone.
Pass(c, n) ==
  /\ n \in setup.activities[c] /\ ~Passed(c, n) /\ CourseOpen(c)
  /\ trail' = Append(trail, <<"work", c, n>>)
  /\ UNCHANGED <<budget, subtopics, ledger>> /\ Reading

-----------------------------------------------------------------------------

CurriculumInit ==
  /\ now = 0 /\ requires = setup.requires
  /\ chapter = [c \in Courses |-> [n \in Numbers |->
       IF setup.text[c][n] = NoText THEN NoChapter
       ELSE [body |-> setup.text[c][n], md |-> NoText, hash |-> setup.text[c][n]]]]
  /\ version = [c \in Courses |-> IF setup.status[c] = "absent" THEN 0 ELSE 1]
  /\ trail = <<>> /\ subtopics = {} /\ ledger = {}

Author(c) ==
  \/ CreateCourse(c)
  \/ \E s \in {"draft", "published", "completed"} : SetCourseStatus(c, s)
  \/ \E manual \in Manuals : ImportManual(c, manual)
  \/ \E n \in Numbers : DeleteChapter(c, n) \/ \E text \in Texts : UpsertChapter(c, n, text)

Study(c, n) ==
  \/ ChapterPage(c, n) \/ ToggleRead(c, n) \/ Pass(c, n)
  \/ \E h \in UNION {Headings[x] : x \in Texts} : SubtopicComplete(c, n, h)

CurriculumNext ==
  \/ \E f \in Files : LoadCurriculum(f)
  \/ \E c \in Courses : Author(c) \/ CoursePage(c) \/ \E n \in Numbers : Study(c, n)

-----------------------------------------------------------------------------
(* Properties.                                                             *)

CurriculumTypeOK ==
  /\ now \in 0 .. MaxTime
  /\ requires \subseteq Courses \X Courses
  /\ chapter \in [Courses -> [Numbers -> [body : Texts \cup {NoText}, md : Texts \cup {NoText},
                                          hash : Texts \cup {NoText}]]]
  /\ version \in [Courses -> Nat]
  /\ \A c \in Courses, n \in Numbers : MarkedRead(c, n) => Present(c, n)

\* Where one offering covers a course, the card and the content routes agree,
\* though they are derived apart: a card that says Start or Resume leads to a
\* course that opens, and a course that opens is shown neither as locked nor
\* as upcoming (course_access_states: "Without this, the dashboard shows Start
\* and the chapter route then 403s").
CardOpens ==
  \A c \in Visible : \A k \in Chosen(c) :
    Offering(c) = {k} =>
      /\ Banner(c) <=> CardState(k, c) = "locked"
      /\ CardState(k, c) = "in_progress" => CourseOpen(c)
      /\ CourseOpen(c) => CardState(k, c) \notin {"locked", "upcoming"}

\* The home page and the course's card continue at the same chapter, one that
\* is there.
HomeAgrees ==
  ContinueAt # <<>> =>
    /\ Present(ContinueAt[1], ContinueAt[2])
    /\ CardChapter(ContinueAt[1]) = ContinueAt[2]

\* A course that cannot be opened now, or waits for such a course, or for a
\* course that waits for it.
CannotOpen(c) == c \notin OpenIds \/ setup.activities[c] = {}
WaitsWithin(d, S) ==
  IF HeldByTrack(d) THEN LockedUntil(d) \subseteq S ELSE LockedUntil(d) \cap S # {}
Stuck(c) ==
  \E S \in SUBSET {d \in Courses : ~Done(d)} :
    c \in S /\ \A d \in S : CannotOpen(d) \/ WaitsWithin(d, S)

\* A learner who keeps studying finishes every course he can see, unless a
\* chain of locks from it ends at a course that is closed to him or returns to
\* itself: track order and prerequisites, together, lock nothing else.
TrackFinishes ==
  \A c \in Courses :
    (c \in Visible /\ ~Done(c) /\ ~Stuck(c)) ~> (c \notin Visible \/ Done(c) \/ Stuck(c))

-----------------------------------------------------------------------------
(* What the repository says, and the code does not always do; TLC refutes  *)
(* each on the scenarios of MCClassroom.                                   *)

\* A learner's own end date "can extend, but never shorten, access" (models
\* of Enrollment): a card does not call a course expired that still opens.
ExtensionExtends ==
  \A c \in Visible : \A k \in Chosen(c) :
    (Offering(c) = {k} /\ CardState(k, c) = "expired") => ~CourseOpen(c)

\* The landing page's Continue "mirrors the learn-home logic so navigation is
\* consistent" (course_structure).
ContinueAgrees ==
  \A c \in Accessible :
    Touches({c}) # {} /\ LandingContinue(c) # 0 => LandingContinue(c) = Resume(c)

\* A card's link leads to a chapter that is there.
ContinueOpens == \A c \in Accessible : CourseOpen(c) => Present(c, CardChapter(c))

\* "A cycle would lock every course in it permanently unreachable", and the
\* loader refuses one (_load_curriculum).
NeverCyclic == ~Cyclic(requires)

\* "The gate the activity links honour, decided here rather than in the
\* browser: every subtopic of THIS chapter recorded as read" (chapter).
ActivityGated ==
  [][\A c \in Courses, n \in Numbers :
       Pass(c, n) /\ Present(c, n) => SubtopicsComplete(c, n)]_courseVars

\* "The markdown source is retained in Chapter.body_md so it stays editable":
\* the editor shows what the learners read.
EditorTruthful ==
  \A c \in Courses, n \in Numbers : EditorSource(c, n) = chapter[c][n].body

=============================================================================
