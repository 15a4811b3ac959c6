-------------------------------- MODULE Roster --------------------------------
(***************************************************************************)
(* The roster of the cohorts and their tracks, for one learner: bulk       *)
(* enrolment, invitations, roster states, track assignment and the         *)
(* curation of a track's courses, by requests that run at the same time.   *)
(*                                                                         *)
(* A request reads its rows when it begins and its writes are seen when it *)
(* commits (get_db commits after the response).  SQLAlchemy sends only the *)
(* columns whose value differs from the row that was read, and an insert   *)
(* of a row that another request has inserted since rolls back.            *)
(*                                                                         *)
(* Simplified: a request reads at one instant; a course is its place in    *)
(* the order of titles; an offering is active once it exists, as nothing   *)
(* in the program ends one.  A refused request changes nothing and is not  *)
(* a step.  Outside: the person's account and the e-mail of an invitation, *)
(* which Accounts and EmailOutbox model.                                   *)
(***************************************************************************)
EXTENDS Integers, FiniteSets, Sequences, SequencesExt

CONSTANTS
  Cohorts, NoCohort,
  Courses,           \* numbers: a course's place in title order
  Tracks, NoTrack,
  Requests,          \* web requests in flight
  Setups             \* initial tables, windows and bounds of the instance

ASSUME CoursesAssumption == Courses \subseteq Nat /\ IsFiniteSet(Courses)
ASSUME NamesAssumption == NoCohort \notin Cohorts /\ NoTrack \notin Tracks

VARIABLES
  setup,       \* the chosen element of Setups; it stays as it is
  enrolment,   \* [Cohorts -> the learner's row]
  track,       \* [Tracks -> cohort and seats]; seat 0: not in the track
  offered,     \* [Cohorts -> courses with an active offering]
  status,      \* [Courses -> lifecycle of the course]
  request,     \* [Requests -> what the open request will write]
  budget       \* [Acts -> how often it may still happen]

rosterVars == <<enrolment, track, offered, request>>

RosterActs ==
  {"enrol", "invite", "users", "state", "assign", "clear", "track", "add", "reorder", "abort"}

RosterStates == {"active", "waitlisted", "dropped"}
Row == [status : RosterStates \cup {"none"}, role : {"none", "student", "instructor"},
        track : Tracks \cup {NoTrack}]

Spend(a) == budget[a] > 0 /\ budget' = [budget EXCEPT ![a] = @ - 1]
Unspent(a) == budget[a] = setup.budget[a]

Members(t) == {c \in Courses : track[t].seat[c] > 0}
LastSeat(t) == CHOOSE n \in {track[t].seat[c] : c \in Courses} :
                 \A c \in Courses : track[t].seat[c] <= n

\* cohort_track_or_404, and none is asked for.
OfCohort(k, t) == t # NoTrack => track[t].cohort = k
CoursesOf(t) == IF t = NoTrack THEN {} ELSE Members(t)

-----------------------------------------------------------------------------
(* What a request writes.                                                  *)

Columns == {"status", "role", "track"}
NoRow == [status |-> "none", role |-> "none", track |-> NoTrack]

Nothing ==
  [open |-> FALSE, cohort |-> NoCohort, insert |-> FALSE, row |-> NoRow, sent |-> {},
   track |-> NoTrack, new |-> FALSE, seats |-> <<>>, fresh |-> {}, offers |-> {}]

\* Mutant: the whole row is written back.
Dirty_All(row, object) == Columns

\* The columns the flush sends.
Dirty(row, object) == {x \in Columns : object[x] # row[x]}

\* The writes of a request to the offerings of k and to the learner's row, which
\* its handler has left as object.
Writes(k, object, courses) ==
  [Nothing EXCEPT !.open = TRUE, !.cohort = k, !.offers = courses \ offered[k],
     !.insert = enrolment[k].status = "none" /\ object # enrolment[k],
     !.row = object, !.sent = Dirty(enrolment[k], object)]

\* A row, or seats, with what is sent in their place.
Updated(row, w) ==
  [status |-> IF "status" \in w.sent THEN w.row.status ELSE row.status,
   role |-> IF "role" \in w.sent THEN w.row.role ELSE row.role,
   track |-> IF "track" \in w.sent THEN w.row.track ELSE row.track]
Reseated(seat, seats) == [c \in Courses |-> IF c \in DOMAIN seats THEN seats[c] ELSE seat[c]]

Ask(r, a, writes) ==
  /\ ~request[r].open /\ Spend(a)
  /\ request' = [request EXCEPT ![r] = writes]
  /\ UNCHANGED <<setup, enrolment, track, offered, status>>

\* The unique constraints: enrolment, track name, track course and offering.
Conflict(w) ==
  \/ w.insert /\ enrolment[w.cohort].status # "none"
  \/ w.new /\ track[w.track].cohort # NoCohort
  \/ w.track # NoTrack /\ w.fresh \cap Members(w.track) # {}
  \/ w.offers \cap offered[w.cohort] # {}

Commit(r) ==
  /\ request[r].open
  /\ request' = [request EXCEPT ![r] = Nothing]
  /\ LET w == request[r]
     IN IF Conflict(w) THEN UNCHANGED <<enrolment, track, offered>>
        ELSE /\ enrolment' = [enrolment EXCEPT ![w.cohort] = Updated(@, w)]
             /\ offered' = [offered EXCEPT ![w.cohort] = @ \cup w.offers]
             /\ track' = IF w.track = NoTrack THEN track
                         ELSE [track EXCEPT ![w.track] =
                                 [cohort |-> IF w.new THEN w.cohort ELSE @.cohort,
                                  seat |-> Reseated(@.seat, w.seats)]]
  /\ UNCHANGED <<setup, status, budget>>

\* The process dies or the statement times out: the transaction rolls back.
Abort(r) ==
  /\ request[r].open /\ Spend("abort")
  /\ request' = [request EXCEPT ![r] = Nothing]
  /\ UNCHANGED <<setup, enrolment, track, offered, status>>

-----------------------------------------------------------------------------
(* Membership.                                                             *)

\* activate_enrollment: only an admin brings back a member who is no student.
MayActivate(row, admin) == row.status = "active" \/ row.role = "student" \/ admin

InTrack(row, t) == IF t = NoTrack THEN row ELSE [row EXCEPT !.track = t]

\* bulk_enroll of the learner's address; a row that needs an admin is
\* reported, and the offerings of the track were ensured before it.
BulkEnroll(r, k, t, admin) ==
  /\ OfCohort(k, t)
  /\ LET row == enrolment[k]
         object == IF row.status = "none"
                   THEN [status |-> "active", role |-> "student", track |-> t]
                   ELSE IF MayActivate(row, admin)
                   THEN InTrack([row EXCEPT !.status = "active"], t)
                   ELSE row
     IN Ask(r, "enrol", Writes(k, object, CoursesOf(t)))

\* Mutant: an invitation sets the role it was sent for.
RoleOf_Sent(row, member) == member

\* _apply_assignment: an instructor stays one when a student is invited.
RoleOf(row, member) ==
  IF row.role = "instructor" /\ member = "student" THEN row.role ELSE member

Assigned(row, member, t) ==
  IF row.status = "none" THEN [status |-> "active", role |-> member, track |-> t]
  ELSE InTrack([row EXCEPT !.status = "active", !.role = RoleOf(row, member)], t)

\* The cohort page's invitation: as a student, by any instructor.
InviteToCohort(r, k, t, admin) ==
  /\ OfCohort(k, t) /\ MayActivate(enrolment[k], admin)
  /\ Ask(r, "invite", Writes(k, Assigned(enrolment[k], "student", t), CoursesOf(t)))

\* The users page's invitation: an administrator's, to a track or to courses.
UsersInvite(r, k, member, t, direct) ==
  /\ OfCohort(k, t) /\ (t = NoTrack \/ direct = {})
  /\ \A c \in direct : status[c] # "absent"
  /\ Ask(r, "users", Writes(k, Assigned(enrolment[k], member, t), CoursesOf(t) \cup direct))

\* change_roster_state: one read serves the admin check and the write.
ChangeState(r, k, state, admin) ==
  /\ enrolment[k].status # "none"
  /\ enrolment[k].role = "student" \/ admin
  /\ Ask(r, "state", Writes(k, [enrolment[k] EXCEPT !.status = state], {}))

\* The offerings are ensured, and committed, even when nobody is enrolled.
AssignTrack(r, k, t) ==
  /\ t # NoTrack /\ OfCohort(k, t)
  /\ LET row == enrolment[k]
         object == IF row.status = "none" THEN row ELSE [row EXCEPT !.track = t]
     IN Ask(r, "assign", Writes(k, object, CoursesOf(t)))

ClearTrack(r, k) ==
  /\ enrolment[k].status # "none"
  /\ Ask(r, "clear", Writes(k, [enrolment[k] EXCEPT !.track = NoTrack], {}))

-----------------------------------------------------------------------------
(* Tracks.                                                                 *)

\* Seats after base for the courses of S, in the order asked for.
Seats(order, S, base) ==
  LET Upto(c) == {i \in DOMAIN order :
                    order[i] \in S /\ \E j \in DOMAIN order : i <= j /\ order[j] = c}
  IN [c \in S |-> base + Cardinality(Upto(c))]

Known(order) == \A c \in ToSet(order) : status[c] # "absent"

Curate(k, t, seats, fresh, courses) ==
  [Writes(k, enrolment[k], courses) EXCEPT !.track = t, !.seats = seats, !.fresh = fresh]

CreateTrack(r, k, t, order) ==
  /\ track[t].cohort = NoCohort /\ Known(order)
  /\ LET w == Curate(k, t, Seats(order, ToSet(order), 0), ToSet(order), ToSet(order))
     IN Ask(r, "track", [w EXCEPT !.new = TRUE])

\* Mutant: courses join the track without an offering.
Ensured_Old(t, new) == Members(t)

\* ensure_track_offerings reads the track after the new courses are flushed.
Ensured(t, new) == Members(t) \cup new

AddCourses(r, k, t, order) ==
  /\ track[t].cohort = k /\ Known(order)
  /\ LET new == ToSet(order) \ Members(t)
     IN Ask(r, "add", Curate(k, t, Seats(order, new, LastSeat(t)), new, Ensured(t, new)))

Reorder(r, t, order) ==
  /\ track[t].cohort # NoCohort /\ ToSet(order) = Members(t)
  /\ LET seats == Seats(order, Members(t), 0)
         moved == {c \in Members(t) : seats[c] # track[t].seat[c]}
     IN Ask(r, "reorder", Curate(track[t].cohort, t, Restrict(seats, moved), {}, {}))

-----------------------------------------------------------------------------

Orders == {s \in BoundedSeq(Courses, Cardinality(Courses)) : s # <<>> /\ IsInjective(s)}

RosterInit ==
  /\ setup \in Setups /\ budget = setup.budget
  /\ enrolment = setup.enrolment /\ track = setup.track
  /\ offered = setup.offered /\ status = setup.status
  /\ request = [r \in Requests |-> Nothing]

Enrol(r, k) ==
  \E t \in Tracks \cup {NoTrack}, admin \in BOOLEAN :
    \/ BulkEnroll(r, k, t, admin)
    \/ InviteToCohort(r, k, t, admin)
    \/ \E member \in {"student", "instructor"}, direct \in SUBSET Courses :
         admin /\ UsersInvite(r, k, member, t, direct)

Curation(r) ==
  \E t \in Tracks, order \in Orders :
    \/ Reorder(r, t, order)
    \/ \E k \in Cohorts : CreateTrack(r, k, t, order) \/ AddCourses(r, k, t, order)

Placement(r, k) == ClearTrack(r, k) \/ \E t \in Tracks : AssignTrack(r, k, t)

RosterNext ==
  \E r \in Requests :
    \/ Commit(r) \/ Abort(r) \/ Curation(r)
    \/ \E k \in Cohorts :
         \/ Enrol(r, k) \/ Placement(r, k)
         \/ \E state \in RosterStates, admin \in BOOLEAN : ChangeState(r, k, state, admin)

-----------------------------------------------------------------------------
(* Properties.                                                             *)

RosterTypeOK ==
  /\ enrolment \in [Cohorts -> Row]
  /\ track \in [Tracks -> [cohort : Cohorts \cup {NoCohort}, seat : [Courses -> Nat]]]
  /\ offered \in [Cohorts -> SUBSET Courses]
  /\ status \in [Courses -> {"absent", "draft", "published", "completed"}]
  /\ \A r \in Requests : request[r].open => request[r].cohort \in Cohorts

\* Every course of a track has an offering in the track's cohort, so that a
\* learner who is put on the track is entitled to all of it
\* (ensure_track_offerings in create, add and assign).
TrackOffered ==
  \A t \in Tracks : track[t].cohort # NoCohort => Members(t) \subseteq offered[track[t].cohort]

\* An instructor of a cohort is never made a student of it, whatever runs at
\* the same time (_apply_assignment: "Never downgrade an existing cohort
\* instructor to student - this is unconditional").
RoleKept ==
  [][\A k \in Cohorts : enrolment[k].role = "instructor" => enrolment'[k].role = "instructor"]_rosterVars

=============================================================================
