---------------------------- MODULE ClassroomProofs ----------------------------
(* Proofs about the roster, the curriculum and the timetable, for any       *)
(* cohorts, courses, tracks, requests, chapters and sessions: the types,    *)
(* what the pages agree on, and that an instructor stays one.               *)
EXTENDS Classroom, FiniteSetTheorems, SequenceTheorems, TLAPS

-----------------------------------------------------------------------------
(* The inductive invariant.                                                *)

Budgeted == setup \in Setups /\ budget \in [Acts -> Nat]

\* There is a role where there is a row.
RowsKept == \A k \in Cohorts : enrolment[k].status = "none" <=> enrolment[k].role = "none"

\* What an open request will write to the learner's row: an insert sends both
\* columns; an update has a row to write to, keeps it there, and makes at most
\* an instructor of the learner.
RowWritten(w) ==
  /\ w.cohort \in Cohorts /\ w.row \in Row /\ w.sent \subseteq Columns
  /\ "status" \in w.sent => w.row.status # "none"
  /\ "role" \in w.sent => w.row.role # "none"
  /\ w.insert => "status" \in w.sent /\ "role" \in w.sent
  /\ (~w.insert /\ w.sent # {}) => enrolment[w.cohort].status # "none"
  /\ (~w.insert /\ "role" \in w.sent) => w.row.role = "instructor"

\* What it will write to the offerings and to a track: each course that joins
\* the track is offered by then, and the others are in it.
TrackWritten(w) ==
  /\ w.offers \subseteq Courses
  /\ w.track \in Tracks \cup {NoTrack}
  /\ w.track # NoTrack =>
       /\ DOMAIN w.seats \subseteq Courses
       /\ \A c \in DOMAIN w.seats : w.seats[c] \in Nat /\ w.seats[c] > 0
       /\ DOMAIN w.seats \subseteq w.fresh \cup Members(w.track)
       /\ w.fresh \subseteq offered[w.cohort] \cup w.offers
       /\ w.new \/ track[w.track].cohort = w.cohort

Written ==
  \A r \in Requests : request[r].open => RowWritten(request[r]) /\ TrackWritten(request[r])

\* A track that is not made has no course.
MadeFirst == \A t \in Tracks : track[t].cohort = NoCohort => Members(t) = {}

RosterInv ==
  /\ Budgeted /\ RosterTypeOK /\ request = [r \in Requests |-> request[r]]
  /\ RowsKept /\ Written /\ MadeFirst /\ TrackOffered

\* The trail has each entry once.
Entries == {"read", "work"} \X Courses \X Numbers
TrailKept ==
  /\ trail \in Seq(Entries)
  /\ \A i, j \in DOMAIN trail : trail[i] = trail[j] => i = j

StudyInv == CurriculumTypeOK /\ TrailKept

RoomTypes ==
  /\ session \in [Sessions -> [cohort : Cohorts \cup {NoCohort}, start : Times,
                               status : {"none", "scheduled", "cancelled"},
                               end : Times \cup {Null}, link : BOOLEAN]]
  /\ mode \in [Cohorts -> {"self_paced", "live", "blended"}]
  /\ announcement \in [Announcements -> Cohorts \cup {Everyone, "none", "deleted"}]
  /\ notice \in [Announcements -> {"none", "unread", "read"}]
  /\ audience \in [Cohorts -> {"null", "staff", "external"}]

\* Whoever has an unread notification was sent an announcement.
NoticeSent == \A a \in Unread : announcement[a] \in Cohorts \cup {Everyone, "deleted"}

RoomInv == RoomTypes /\ NoticeSent

ClassInv == RosterInv /\ StudyInv /\ RoomInv

USE CoursesAssumption, NamesAssumption

-----------------------------------------------------------------------------
(* Sets of numbers.                                                        *)

\* A set of numbers has a least one.
LEMMA Smallest ==
  ASSUME NEW S \in SUBSET Nat, S # {}
  PROVE  \E n \in S : \A m \in S : n <= m
<1> DEFINE less == {p \in Nat \X Nat : p[1] < p[2]}
<1>1. IsWellFoundedOn(less, Nat)
  BY NatLessThanWellFounded, Zenon DEF OpToRel
<1>2. \A m, n \in Nat : <<m, n>> \in less <=> m < n
  OBVIOUS
<1> HIDE DEF less
<1>3. PICK n \in S : \A m \in S : <<m, n>> \notin less
  BY <1>1, WFMin
<1>4. ASSUME NEW m \in S PROVE n <= m
  <2>1. m \in Nat /\ n \in Nat /\ ~(m < n)  BY <1>2, <1>3
  <2> QED  BY <2>1
<1> QED  BY <1>4

\* A finite set has an element at which a function is greatest.
LEMMA Greatest ==
  ASSUME NEW S, IsFiniteSet(S), S # {}, NEW f \in [S -> Nat]
  PROVE  \E x \in S : \A y \in S : f[y] <= f[x]
<1> DEFINE Above(x) == {y \in S : f[y] > f[x]}
           Counts == {Cardinality(Above(x)) : x \in S}
<1>1. \A x \in S : IsFiniteSet(Above(x)) /\ Cardinality(Above(x)) \in Nat
  BY FS_Subset, FS_CardinalityType
<1> HIDE DEF Above
<1>2. Counts \subseteq Nat /\ Counts # {}
  <2>1. Counts \subseteq Nat  BY <1>1
  <2>2. PICK x : x \in S  OBVIOUS
  <2>3. Cardinality(Above(x)) \in Counts  BY <2>2
  <2> QED  BY <2>1, <2>3
<1>3. PICK n \in Counts : \A m \in Counts : n <= m
  <2> HIDE DEF Counts
  <2> QED  BY <1>2, Smallest
<1>4. PICK x \in S : n = Cardinality(Above(x))
  OBVIOUS
<1>5. SUFFICES ASSUME NEW y \in S, f[y] > f[x] PROVE FALSE
  <2>1. f[x] \in Nat /\ \A y \in S : f[y] \in Nat  OBVIOUS
  <2> QED  BY <2>1
<1>6. Above(y) \in SUBSET Above(x) /\ y \in Above(x) /\ y \notin Above(y)
  <2>1. f[x] \in Nat /\ f[y] \in Nat  OBVIOUS
  <2>2. ASSUME NEW z \in S, f[z] > f[y] PROVE f[z] > f[x]
    <3>1. f[z] \in Nat  OBVIOUS
    <3> QED  BY <1>5, <2>1, <2>2, <3>1
  <2> QED  BY <1>5, <2>1, <2>2 DEF Above
<1>7. Cardinality(Above(y)) < Cardinality(Above(x))
  BY <1>1, <1>6, FS_Subset
<1>8. Cardinality(Above(y)) >= n
  <2>1. Cardinality(Above(y)) \in Counts  OBVIOUS
  <2> HIDE DEF Counts
  <2>2. n <= Cardinality(Above(y))  BY <1>3, <2>1
  <2> QED  BY <1>2, <2>1, <2>2
<1> HIDE DEF Counts
<1> QED  BY <1>1, <1>4, <1>7, <1>8

-----------------------------------------------------------------------------
(* Roster: lemmas.                                                         *)

LEMMA Spent ==
  ASSUME Budgeted, NEW a, Spend(a), UNCHANGED setup
  PROVE  Budgeted'
<1>1. /\ budget \in [Acts -> Nat] /\ budget[a] > 0
      /\ budget' = [b \in Acts |-> IF b = a THEN budget[a] - 1 ELSE budget[b]]
  BY DEF Spend, Budgeted
<1>2. ASSUME NEW b \in Acts PROVE budget'[b] \in Nat
  BY <1>1
<1> QED  BY <1>1, <1>2 DEF Budgeted

LEMMA Kept ==
  ASSUME Budgeted, UNCHANGED <<setup, budget>>
  PROVE  Budgeted'
  BY DEF Budgeted

\* Whatever changes neither the roster nor the setup.
LEMMA Elsewhere ==
  ASSUME RosterInv, UNCHANGED <<setup, rosterVars>>, Budgeted',
         status' \in [Courses -> {"absent", "draft", "published", "completed"}]
  PROVE  RosterInv'
<1> USE DEF RosterInv, rosterVars
<1>1. RosterTypeOK' /\ RowsKept' /\ MadeFirst' /\ TrackOffered'
  BY DEF RosterTypeOK, RowsKept, MadeFirst, TrackOffered, Members
<1>2. Written'
  BY DEF Written, RowWritten, TrackWritten, Members
<1> QED  BY <1>1, <1>2

\* A request begins, and will write w.
LEMMA Asked ==
  ASSUME RosterInv, NEW r \in Requests, NEW a, NEW w, Ask(r, a, w),
         RowWritten(w), TrackWritten(w)
  PROVE  RosterInv'
<1> USE DEF RosterInv, Ask
<1>1. Budgeted'  BY Spent
<1>2. request' = [q \in Requests |-> request'[q]] /\ request'[r] = w
      /\ \A q \in Requests : q # r => request'[q] = request[q]
  OBVIOUS
<1>3. RowsKept' /\ MadeFirst' /\ TrackOffered'
  BY DEF RowsKept, MadeFirst, TrackOffered, Members
<1>4. Written'
  <2> SUFFICES ASSUME NEW q \in Requests, request'[q].open
               PROVE  RowWritten(request[q])' /\ TrackWritten(request[q])'
    BY DEF Written
  <2>1. CASE q = r  BY <1>2, <2>1 DEF RowWritten, TrackWritten, Members
  <2>2. CASE q # r  BY <1>2, <2>2 DEF RowWritten, TrackWritten, Members, Written
  <2> QED  BY <2>1, <2>2
<1>5. RosterTypeOK'  BY <1>2 DEF RosterTypeOK, RowWritten
<1> QED  BY <1>1, <1>2, <1>3, <1>4, <1>5

\* How a handler may leave the learner's row: as it was; made; or kept, with the
\* role that it had or as an instructor's.
Proper(row, object) ==
  \/ object = row
  \/ row.status = "none" /\ object.status # "none" /\ object.role # "none"
  \/ /\ row.status # "none" /\ object.status # "none"
     /\ object.role = row.role \/ object.role = "instructor"

LEMMA WritesFields ==
  ASSUME NEW k, NEW object, NEW courses
  PROVE  LET w == Writes(k, object, courses)
         IN /\ w.open /\ w.cohort = k /\ w.row = object /\ w.track = NoTrack
            /\ w.sent = Dirty(enrolment[k], object)
            /\ w.insert = (enrolment[k].status = "none" /\ object # enrolment[k])
            /\ w.offers = courses \ offered[k]
  BY DEF Writes, Nothing

\* What is written to the row.
LEMMA WritesRow ==
  ASSUME RosterInv, NEW k \in Cohorts, NEW object \in Row, NEW w,
         Proper(enrolment[k], object),
         w.cohort = k, w.row = object, w.sent = Dirty(enrolment[k], object),
         w.insert = (enrolment[k].status = "none" /\ object # enrolment[k])
  PROVE  RowWritten(w)
<1> DEFINE row == enrolment[k]
<1>1. row \in Row /\ (row.status = "none" <=> row.role = "none")
  BY DEF RosterInv, RosterTypeOK, RowsKept
<1>2. /\ w.sent \subseteq Columns
      /\ "status" \in w.sent <=> object.status # row.status
      /\ "role" \in w.sent <=> object.role # row.role
      /\ "track" \in w.sent <=> object.track # row.track
  BY DEF Dirty, Columns
<1>3. object # row => w.sent # {}
  BY <1>1, <1>2 DEF Row
<1> HIDE DEF row
<1>4. enrolment[k] = row  BY DEF row
<1>5. CASE object = row
  BY <1>1, <1>2, <1>4, <1>5 DEF RowWritten, Columns
<1>6. CASE row.status = "none" /\ object.status # "none" /\ object.role # "none"
  BY <1>1, <1>2, <1>4, <1>6 DEF RowWritten
<1>7. CASE /\ row.status # "none" /\ object.status # "none"
           /\ object.role = row.role \/ object.role = "instructor"
  BY <1>1, <1>2, <1>4, <1>7 DEF RowWritten
<1> QED  BY <1>4, <1>5, <1>6, <1>7 DEF Proper

\* A request that changes the row and makes offerings.
LEMMA WritesInv ==
  ASSUME RosterInv, NEW r \in Requests, NEW a, NEW k \in Cohorts, NEW object \in Row,
         NEW courses \in SUBSET Courses, Proper(enrolment[k], object),
         Ask(r, a, Writes(k, object, courses))
  PROVE  RosterInv'
<1> DEFINE w == Writes(k, object, courses)
<1>1. /\ w.open /\ w.cohort = k /\ w.row = object /\ w.track = NoTrack
      /\ w.sent = Dirty(enrolment[k], object)
      /\ w.insert = (enrolment[k].status = "none" /\ object # enrolment[k])
      /\ w.offers = courses \ offered[k]
  BY WritesFields
<1> HIDE DEF w
<1>2. RowWritten(w)  BY <1>1, WritesRow
<1>3. TrackWritten(w)  BY <1>1 DEF TrackWritten
<1>4. Ask(r, a, w)  BY DEF w
<1> QED  BY <1>2, <1>3, <1>4, Asked

LEMMA CoursesOfTyped ==
  ASSUME NEW t
  PROVE  CoursesOf(t) \subseteq Courses
  BY DEF CoursesOf, Members

LEMMA RowOf ==
  ASSUME RosterInv, NEW k \in Cohorts
  PROVE  /\ enrolment[k] \in Row
         /\ enrolment[k].status = "none" <=> enrolment[k].role = "none"
  BY DEF RosterInv, RosterTypeOK, RowsKept

LEMMA RowFields ==
  /\ \A row \in Row : /\ row.status \in RosterStates \cup {"none"}
                      /\ row.role \in {"none", "student", "instructor"}
                      /\ row.track \in Tracks \cup {NoTrack}
  /\ RosterStates = {"active", "waitlisted", "dropped"}
  BY DEF Row, RosterStates

\* An invitation keeps an instructor.
LEMMA AssignedProper ==
  ASSUME NEW row \in Row, row.status = "none" <=> row.role = "none",
         NEW member \in {"student", "instructor"}, NEW t \in Tracks \cup {NoTrack}
  PROVE  Assigned(row, member, t) \in Row /\ Proper(row, Assigned(row, member, t))
<1>1. CASE row.status = "none"
  BY <1>1, RowFields DEF Assigned, Proper, Row, RosterStates
<1>2. CASE row.status # "none"
  <2> DEFINE role == RoleOf(row, member)
             kept == [row EXCEPT !.status = "active", !.role = role]
  <2>1. role \in {"student", "instructor"} /\ (role = row.role \/ role = "instructor")
    BY <1>2, RowFields DEF RoleOf
  <2>2. kept \in Row /\ kept.status = "active" /\ kept.role = role
    BY <2>1, RowFields DEF Row, RosterStates
  <2> HIDE DEF role, kept
  <2>3. InTrack(kept, t) \in Row /\ InTrack(kept, t).status = "active" /\ InTrack(kept, t).role = role
    BY <2>2 DEF InTrack, Row
  <2>4. Assigned(row, member, t) = InTrack(kept, t)
    BY <1>2 DEF Assigned, kept, role
  <2> QED  BY <1>2, <2>1, <2>3, <2>4 DEF Proper
<1> QED  BY <1>1, <1>2

-----------------------------------------------------------------------------
(* Roster: membership.                                                     *)

LEMMA BulkEnrollInv ==
  ASSUME RosterInv, NEW r \in Requests, NEW k \in Cohorts, NEW t \in Tracks \cup {NoTrack},
         NEW admin, BulkEnroll(r, k, t, admin)
  PROVE  RosterInv'
<1> DEFINE row == enrolment[k]
           object == IF row.status = "none"
                     THEN [status |-> "active", role |-> "student", track |-> t]
                     ELSE IF MayActivate(row, admin)
                     THEN InTrack([row EXCEPT !.status = "active"], t)
                     ELSE row
<1>1. row \in Row  BY RowOf
<1>2. Ask(r, "enrol", Writes(k, object, CoursesOf(t)))
  BY DEF BulkEnroll
<1>3. object \in Row /\ Proper(row, object)
  <2>1. CASE row.status = "none"
    BY <2>1 DEF Proper, Row, RosterStates
  <2>2. CASE row.status # "none" /\ MayActivate(row, admin)
    <3> DEFINE kept == [row EXCEPT !.status = "active"]
    <3>1. kept \in Row /\ kept.status = "active" /\ kept.role = row.role
      BY <1>1 DEF Row, RosterStates
    <3>2. object = InTrack(kept, t)  BY <2>2
    <3> HIDE DEF kept, object
    <3>3. object \in Row /\ object.status = "active" /\ object.role = row.role
      BY <3>1, <3>2 DEF InTrack, Row
    <3> QED  BY <2>2, <3>3 DEF Proper
  <2>3. CASE row.status # "none" /\ ~MayActivate(row, admin)
    BY <1>1, <2>3 DEF Proper
  <2> QED  BY <2>1, <2>2, <2>3
<1> HIDE DEF object
<1> QED  BY <1>2, <1>3, CoursesOfTyped, WritesInv

LEMMA InviteToCohortInv ==
  ASSUME RosterInv, NEW r \in Requests, NEW k \in Cohorts, NEW t \in Tracks \cup {NoTrack},
         NEW admin, InviteToCohort(r, k, t, admin)
  PROVE  RosterInv'
<1>1. Ask(r, "invite", Writes(k, Assigned(enrolment[k], "student", t), CoursesOf(t)))
  BY DEF InviteToCohort
<1> QED  BY <1>1, RowOf, AssignedProper, CoursesOfTyped, WritesInv

LEMMA UsersInviteInv ==
  ASSUME RosterInv, NEW r \in Requests, NEW k \in Cohorts, NEW t \in Tracks \cup {NoTrack},
         NEW member \in {"student", "instructor"}, NEW direct \in SUBSET Courses,
         UsersInvite(r, k, member, t, direct)
  PROVE  RosterInv'
<1>1. Ask(r, "users", Writes(k, Assigned(enrolment[k], member, t), CoursesOf(t) \cup direct))
  BY DEF UsersInvite
<1>2. CoursesOf(t) \cup direct \in SUBSET Courses  BY CoursesOfTyped
<1> QED  BY <1>1, <1>2, RowOf, AssignedProper, WritesInv

LEMMA ChangeStateInv ==
  ASSUME RosterInv, NEW r \in Requests, NEW k \in Cohorts, NEW state \in RosterStates,
         NEW admin, ChangeState(r, k, state, admin)
  PROVE  RosterInv'
<1> DEFINE object == [enrolment[k] EXCEPT !.status = state]
<1>1. Ask(r, "state", Writes(k, object, {})) /\ enrolment[k].status # "none"
  BY DEF ChangeState
<1>2. object \in Row /\ object.status # "none" /\ object.role = enrolment[k].role
  BY RowOf DEF Row, RosterStates
<1> HIDE DEF object
<1>3. Proper(enrolment[k], object)  BY <1>1, <1>2 DEF Proper
<1> QED  BY <1>1, <1>2, <1>3, WritesInv

LEMMA AssignTrackInv ==
  ASSUME RosterInv, NEW r \in Requests, NEW k \in Cohorts, NEW t \in Tracks,
         AssignTrack(r, k, t)
  PROVE  RosterInv'
<1> DEFINE row == enrolment[k]
           object == IF row.status = "none" THEN row ELSE [row EXCEPT !.track = t]
<1>1. Ask(r, "assign", Writes(k, object, CoursesOf(t)))
  BY DEF AssignTrack
<1>2. /\ object \in Row /\ object.role = row.role /\ object.status = row.status
      /\ row.status = "none" => object = row
  BY RowOf DEF Row
<1> HIDE DEF object
<1>3. Proper(row, object)  BY <1>2 DEF Proper
<1> QED  BY <1>1, <1>2, <1>3, CoursesOfTyped, WritesInv

LEMMA ClearTrackInv ==
  ASSUME RosterInv, NEW r \in Requests, NEW k \in Cohorts, ClearTrack(r, k)
  PROVE  RosterInv'
<1> DEFINE object == [enrolment[k] EXCEPT !.track = NoTrack]
<1>1. Ask(r, "clear", Writes(k, object, {})) /\ enrolment[k].status # "none"
  BY DEF ClearTrack
<1>2. /\ object \in Row /\ object.status = enrolment[k].status
      /\ object.role = enrolment[k].role
  BY RowOf DEF Row
<1> HIDE DEF object
<1>3. Proper(enrolment[k], object)  BY <1>1, <1>2 DEF Proper
<1> QED  BY <1>1, <1>2, <1>3, WritesInv

LEMMA AbortInv ==
  ASSUME RosterInv, NEW r \in Requests, Abort(r)
  PROVE  RosterInv'
<1> USE DEF RosterInv, Abort
<1>1. Budgeted'  BY Spent
<1>2. request' = [q \in Requests |-> request'[q]] /\ ~request'[r].open
      /\ \A q \in Requests : q # r => request'[q] = request[q]
  BY DEF Nothing
<1>3. RowsKept' /\ MadeFirst' /\ TrackOffered' /\ RosterTypeOK'
  BY <1>2 DEF RowsKept, MadeFirst, TrackOffered, Members, RosterTypeOK
<1>4. Written'  BY <1>2 DEF Written, RowWritten, TrackWritten, Members
<1> QED  BY <1>1, <1>2, <1>3, <1>4

-----------------------------------------------------------------------------
(* Roster: a request commits.                                              *)

\* It is over, and its writes are there or not.
LEMMA Committed ==
  ASSUME RosterInv, NEW r \in Requests, Commit(r)
  PROVE  /\ request' = [q \in Requests |-> request'[q]] /\ ~request'[r].open
         /\ \A q \in Requests : q # r => request'[q] = request[q]
         /\ Budgeted' /\ UNCHANGED status
  BY Kept DEF Commit, RosterInv, Nothing

\* A row after an update is typed, there when it was, and keeps an instructor
\* when the update is not an insert.
LEMMA RowUpdated ==
  ASSUME NEW row \in Row, row.status = "none" <=> row.role = "none", NEW w,
         w.row \in Row, w.sent \subseteq Columns,
         "status" \in w.sent => w.row.status # "none",
         "role" \in w.sent => w.row.role # "none",
         w.insert => "status" \in w.sent /\ "role" \in w.sent,
         (~w.insert /\ w.sent # {}) => row.status # "none"
  PROVE  LET new == Updated(row, w)
         IN /\ new \in Row /\ (new.status = "none" <=> new.role = "none")
            /\ row.status # "none" => new.status # "none"
            /\ (~w.insert /\ ("role" \in w.sent => w.row.role = "instructor")) =>
                 (row.role = "instructor" => new.role = "instructor")
<1> DEFINE new == Updated(row, w)
<1>1. /\ new.status = IF "status" \in w.sent THEN w.row.status ELSE row.status
      /\ new.role = IF "role" \in w.sent THEN w.row.role ELSE row.role
      /\ new.track = IF "track" \in w.sent THEN w.row.track ELSE row.track
      /\ new \in Row
  BY DEF Updated, Row
<1> HIDE DEF new
<1>2. new.status = "none" <=> new.role = "none"
  BY <1>1
<1>3. row.status # "none" => new.status # "none"
  BY <1>1
<1>4. (~w.insert /\ ("role" \in w.sent => w.row.role = "instructor")) =>
        (row.role = "instructor" => new.role = "instructor")
  BY <1>1
<1> QED  BY <1>1, <1>2, <1>3, <1>4 DEF new

LEMMA RosterUpdated ==
  ASSUME RosterInv, NEW r \in Requests, Commit(r), ~Conflict(request[r])
  PROVE  /\ enrolment' \in [Cohorts -> Row] /\ RowsKept'
         /\ \A k \in Cohorts :
              /\ enrolment[k].status # "none" => enrolment'[k].status # "none"
              /\ enrolment[k].role = "instructor" => enrolment'[k].role = "instructor"
<1> DEFINE w == request[r]
           row == enrolment[w.cohort]
           new == Updated(row, w)
<1>1. RowWritten(w)  BY DEF RosterInv, Written, Commit
<1>2. /\ w.cohort \in Cohorts /\ w.row \in Row /\ w.sent \subseteq Columns
      /\ "status" \in w.sent => w.row.status # "none"
      /\ "role" \in w.sent => w.row.role # "none"
      /\ w.insert => "status" \in w.sent /\ "role" \in w.sent
      /\ (~w.insert /\ w.sent # {}) => row.status # "none"
      /\ (~w.insert /\ "role" \in w.sent) => w.row.role = "instructor"
  BY <1>1 DEF RowWritten
<1>3. row \in Row /\ (row.status = "none" <=> row.role = "none")
  BY <1>2, RowOf
<1>4. enrolment \in [Cohorts -> Row] /\ enrolment' = [enrolment EXCEPT ![w.cohort] = new]
  BY DEF Commit, RosterInv, RosterTypeOK
<1>5. w.insert => row.status = "none"
  BY DEF Conflict
<1> HIDE DEF w, row
<1>6. /\ new \in Row /\ (new.status = "none" <=> new.role = "none")
      /\ row.status # "none" => new.status # "none"
      /\ (~w.insert /\ ("role" \in w.sent => w.row.role = "instructor")) =>
           (row.role = "instructor" => new.role = "instructor")
  BY <1>2, <1>3, RowUpdated
<1>7. row.role = "instructor" => new.role = "instructor"
  BY <1>2, <1>3, <1>5, <1>6
<1> HIDE DEF new
<1>8. \A k \in Cohorts : enrolment'[k] = IF k = w.cohort THEN new ELSE enrolment[k]
  BY <1>2, <1>4
<1>9. row = enrolment[w.cohort]  BY DEF row
<1>10. RowsKept'
  BY <1>2, <1>6, <1>8 DEF RowsKept, RosterInv
<1> QED  BY <1>2, <1>4, <1>6, <1>7, <1>8, <1>9, <1>10

\* The offerings grow, a made track keeps its cohort, and the courses of a track
\* become those that it had and those that are seated.
LEMMA TracksUpdated ==
  ASSUME RosterInv, NEW r \in Requests, Commit(r), ~Conflict(request[r])
  PROVE  LET w == request[r]
         IN /\ offered' \in [Cohorts -> SUBSET Courses]
            /\ \A k \in Cohorts :
                 offered'[k] = IF k = w.cohort THEN offered[k] \cup w.offers ELSE offered[k]
            /\ track' \in [Tracks -> [cohort : Cohorts \cup {NoCohort}, seat : [Courses -> Nat]]]
            /\ \A t \in Tracks :
                 /\ t # w.track => track'[t] = track[t]
                 /\ t = w.track =>
                      /\ Members(t)' = Members(t) \cup DOMAIN w.seats
                      /\ track'[t].cohort = w.cohort
                      /\ w.new => track[t].cohort = NoCohort
                      /\ ~w.new => track[t].cohort = w.cohort
<1> DEFINE w == request[r]
<1>1. TrackWritten(w) /\ w.cohort \in Cohorts
  BY DEF RosterInv, Written, Commit, RowWritten
<1>2. /\ w.offers \subseteq Courses /\ w.track \in Tracks \cup {NoTrack}
      /\ w.track # NoTrack =>
           /\ DOMAIN w.seats \subseteq Courses
           /\ \A c \in DOMAIN w.seats : w.seats[c] \in Nat /\ w.seats[c] > 0
           /\ w.new \/ track[w.track].cohort = w.cohort
  BY <1>1 DEF TrackWritten
<1>3. /\ offered \in [Cohorts -> SUBSET Courses]
      /\ track \in [Tracks -> [cohort : Cohorts \cup {NoCohort}, seat : [Courses -> Nat]]]
  BY DEF RosterInv, RosterTypeOK
<1>4. /\ offered' = [offered EXCEPT ![w.cohort] = @ \cup w.offers]
      /\ track' = IF w.track = NoTrack THEN track
                  ELSE [track EXCEPT ![w.track] =
                          [cohort |-> IF w.new THEN w.cohort ELSE track[w.track].cohort,
                           seat |-> Reseated(track[w.track].seat, w.seats)]]
  BY DEF Commit
<1>5. w.new => (w.track # NoTrack => track[w.track].cohort = NoCohort)
  BY DEF Conflict
<1> HIDE DEF w
<1>6. /\ offered' \in [Cohorts -> SUBSET Courses]
      /\ \A k \in Cohorts :
           offered'[k] = IF k = w.cohort THEN offered[k] \cup w.offers ELSE offered[k]
  BY <1>1, <1>2, <1>3, <1>4
<1>7. CASE w.track = NoTrack
  BY <1>3, <1>4, <1>6, <1>7 DEF w
<1>8. CASE w.track # NoTrack
  <2> DEFINE seat == Reseated(track[w.track].seat, w.seats)
             cohort == IF w.new THEN w.cohort ELSE track[w.track].cohort
  <2>1. w.track \in Tracks  BY <1>2, <1>8
  <2>2. /\ seat \in [Courses -> Nat]
        /\ \A c \in Courses : seat[c] > 0 <=> c \in DOMAIN w.seats \/ track[w.track].seat[c] > 0
    BY <1>2, <1>3, <1>8, <2>1 DEF Reseated
  <2>3. cohort = w.cohort  BY <1>2, <1>8
  <2> HIDE DEF seat, cohort
  <2>4. track' = [track EXCEPT ![w.track] = [cohort |-> cohort, seat |-> seat]]
    BY <1>4, <1>8 DEF seat, cohort
  <2>5. /\ track' \in [Tracks -> [cohort : Cohorts \cup {NoCohort}, seat : [Courses -> Nat]]]
        /\ track'[w.track].cohort = w.cohort /\ track'[w.track].seat = seat
        /\ \A t \in Tracks : t # w.track => track'[t] = track[t]
    BY <1>1, <1>3, <2>1, <2>2, <2>3, <2>4
  <2>6. \A t \in Tracks : t = w.track => Members(t)' = Members(t) \cup DOMAIN w.seats
    <3> SUFFICES ASSUME NEW t \in Tracks, t = w.track
                 PROVE  Members(t)' = Members(t) \cup DOMAIN w.seats
      OBVIOUS
    <3>1. \A c \in Courses : track'[t].seat[c] > 0 <=> c \in DOMAIN w.seats \/ track[t].seat[c] > 0
      BY <2>2, <2>5
    <3> QED  BY <1>2, <1>8, <3>1 DEF Members
  <2> QED  BY <1>2, <1>5, <1>6, <1>8, <2>5, <2>6 DEF w
<1> QED  BY <1>7, <1>8

LEMMA CommitInv ==
  ASSUME RosterInv, NEW r \in Requests, Commit(r)
  PROVE  RosterInv'
<1>1. /\ request' = [q \in Requests |-> request'[q]] /\ ~request'[r].open
      /\ \A q \in Requests : q # r => request'[q] = request[q]
      /\ Budgeted' /\ UNCHANGED status
  BY Committed
<1>2. CASE Conflict(request[r])
  <2>1. UNCHANGED <<enrolment, track, offered>>  BY <1>2 DEF Commit
  <2> USE DEF RosterInv
  <2>2. RowsKept' /\ MadeFirst' /\ TrackOffered' /\ RosterTypeOK'
    BY <1>1, <2>1 DEF RowsKept, MadeFirst, TrackOffered, Members, RosterTypeOK
  <2>3. Written'  BY <1>1, <2>1 DEF Written, RowWritten, TrackWritten, Members
  <2> QED  BY <1>1, <2>2, <2>3
<1>3. CASE ~Conflict(request[r])
  <2> DEFINE w == request[r]
  <2>1. /\ enrolment' \in [Cohorts -> Row] /\ RowsKept'
        /\ \A k \in Cohorts : enrolment[k].status # "none" => enrolment'[k].status # "none"
    BY <1>3, RosterUpdated
  <2>2. /\ offered' \in [Cohorts -> SUBSET Courses]
        /\ \A k \in Cohorts :
             offered'[k] = IF k = w.cohort THEN offered[k] \cup w.offers ELSE offered[k]
        /\ track' \in [Tracks -> [cohort : Cohorts \cup {NoCohort}, seat : [Courses -> Nat]]]
        /\ \A t \in Tracks :
             /\ t # w.track => track'[t] = track[t]
             /\ t = w.track =>
                  /\ Members(t)' = Members(t) \cup DOMAIN w.seats
                  /\ track'[t].cohort = w.cohort
                  /\ w.new => track[t].cohort = NoCohort
                  /\ ~w.new => track[t].cohort = w.cohort
    BY <1>3, TracksUpdated
  <2>3. RowWritten(w) /\ TrackWritten(w)
    BY DEF RosterInv, Written, Commit
  <2>4. \A t \in Tracks : t # w.track => Members(t)' = Members(t)
    BY <2>2 DEF Members
  <2> HIDE DEF w
  <2>5. \A t \in Tracks : Members(t) \subseteq Members(t)'
    BY <2>2, <2>4
  <2>6. \A k \in Cohorts : offered[k] \subseteq offered'[k]
    BY <2>2
  <2>7. w.cohort \in Cohorts  BY <2>3 DEF RowWritten
  <2>8. MadeFirst'
    BY <2>2, <2>4, <2>7 DEF MadeFirst, RosterInv
  <2>9. TrackOffered'
    <3> SUFFICES ASSUME NEW t \in Tracks, track'[t].cohort # NoCohort
                 PROVE  Members(t)' \subseteq offered'[track'[t].cohort]
      BY DEF TrackOffered
    <3>1. CASE t = w.track
      <4>1. Members(t)' = Members(t) \cup DOMAIN w.seats /\ track'[t].cohort = w.cohort
        BY <2>2, <3>1
      <4>2. DOMAIN w.seats \subseteq w.fresh \cup Members(t)
            /\ w.fresh \subseteq offered[w.cohort] \cup w.offers
        BY <2>3, <3>1 DEF TrackWritten
      <4>3. Members(t) \subseteq offered[w.cohort]
        BY <2>2, <2>7, <3>1 DEF MadeFirst, TrackOffered, RosterInv
      <4>4. offered'[w.cohort] = offered[w.cohort] \cup w.offers  BY <2>2, <2>7
      <4> QED  BY <4>1, <4>2, <4>3, <4>4
    <3>2. CASE t # w.track
      <4>1. track'[t] = track[t] /\ Members(t)' = Members(t)  BY <2>2, <2>4, <3>2
      <4>2. track[t].cohort \in Cohorts
        BY <4>1 DEF RosterInv, RosterTypeOK
      <4> QED  BY <2>6, <4>1, <4>2 DEF TrackOffered, RosterInv
    <3> QED  BY <3>1, <3>2
  <2>10. Written'
    <3> SUFFICES ASSUME NEW q \in Requests, request'[q].open
                 PROVE  RowWritten(request[q])' /\ TrackWritten(request[q])'
      BY DEF Written
    <3>1. request'[q] = request[q] /\ RowWritten(request[q]) /\ TrackWritten(request[q])
      BY <1>1 DEF RosterInv, Written
    <3>2. RowWritten(request[q])'
      BY <2>1, <3>1 DEF RowWritten
    <3> DEFINE o == request[q]
    <3>3. o.cohort \in Cohorts  BY <3>1 DEF RowWritten
    <3> HIDE DEF o
    <3>4. ASSUME o.track # NoTrack
          PROVE  /\ \E t \in Tracks :
                      t = o.track /\ DOMAIN o.seats \subseteq o.fresh \cup Members(t)'
                 /\ o.fresh \subseteq offered'[o.cohort] \cup o.offers
                 /\ o.new \/ track'[o.track].cohort = o.cohort
      <4>1. /\ o.track \in Tracks
            /\ DOMAIN o.seats \subseteq o.fresh \cup Members(o.track)
            /\ o.fresh \subseteq offered[o.cohort] \cup o.offers
            /\ o.new \/ track[o.track].cohort = o.cohort
        BY <3>1, <3>4 DEF TrackWritten, o
      <4>2. o.new \/ track'[o.track].cohort = o.cohort
        BY <2>2, <3>3, <4>1
      <4> QED  BY <2>5, <2>6, <3>3, <4>1, <4>2
    <3>5. TrackWritten(request[q])'
      BY <3>1, <3>4 DEF TrackWritten, Members, o
    <3> QED  BY <3>2, <3>5
  <2>11. RosterTypeOK'
    BY <1>1, <2>1, <2>2 DEF RosterTypeOK, RosterInv
  <2> QED  BY <1>1, <2>1, <2>8, <2>9, <2>10, <2>11 DEF RosterInv
<1> QED  BY <1>2, <1>3

-----------------------------------------------------------------------------
(* Roster: tracks.                                                         *)

\* The seats of the courses asked for are numbers from one on.
LEMMA SeatsTyped ==
  ASSUME NEW order \in Orders, NEW S \in SUBSET ToSet(order), NEW base \in Nat
  PROVE  /\ ToSet(order) \subseteq Courses
         /\ DOMAIN Seats(order, S, base) = S
         /\ \A c \in S : /\ Seats(order, S, base)[c] \in Nat
                         /\ Seats(order, S, base)[c] > 0
<1>1. PICK n \in Nat : order \in [1 .. n -> Courses]
  <2>1. Cardinality(Courses) \in Nat  BY FS_CardinalityType
  <2> QED  BY <2>1 DEF Orders, BoundedSeq, SeqOf
<1>2. ToSet(order) \subseteq Courses
  BY <1>1 DEF ToSet
<1> DEFINE Upto(c) == {i \in DOMAIN order :
                    order[i] \in S /\ \E j \in DOMAIN order : i <= j /\ order[j] = c}
<1>3. ASSUME NEW c \in S
      PROVE  Cardinality(Upto(c)) \in Nat /\ Cardinality(Upto(c)) > 0
  <2>1. PICK i \in DOMAIN order : order[i] = c
    BY DEF ToSet
  <2>2. i \in Upto(c)  BY <1>1, <2>1
  <2>3. IsFiniteSet(1 .. n)  BY FS_Interval
  <2>4. IsFiniteSet(Upto(c))  BY <1>1, <2>3, FS_Subset
  <2> HIDE DEF Upto
  <2> QED  BY <2>2, <2>4, FS_EmptySet, FS_CardinalityType
<1>4. Seats(order, S, base) = [c \in S |-> base + Cardinality(Upto(c))]
  BY DEF Seats
<1> HIDE DEF Upto
<1> QED  BY <1>2, <1>3, <1>4

LEMMA LastSeatTyped ==
  ASSUME NEW t \in Tracks, track[t].seat \in [Courses -> Nat], Courses # {}
  PROVE  LastSeat(t) \in Nat
<1>1. PICK x \in Courses : \A y \in Courses : track[t].seat[y] <= track[t].seat[x]
  BY Greatest
<1> QED  BY <1>1 DEF LastSeat

\* A request that seats courses, each of which it offers or was there.
LEMMA CurateInv ==
  ASSUME RosterInv, NEW r \in Requests, NEW a, NEW k \in Cohorts, NEW t \in Tracks,
         NEW seats, NEW fresh, NEW courses \in SUBSET Courses, NEW w,
         w = Curate(k, t, seats, fresh, courses)
           \/ w = [Curate(k, t, seats, fresh, courses) EXCEPT !.new = TRUE],
         w.new \/ track[t].cohort = k,
         DOMAIN seats \subseteq Courses, \A c \in DOMAIN seats : seats[c] \in Nat /\ seats[c] > 0,
         DOMAIN seats \subseteq fresh \cup Members(t), fresh \subseteq courses,
         Ask(r, a, w)
  PROVE  RosterInv'
<1>1. /\ w.open /\ w.cohort = k /\ w.row = enrolment[k] /\ w.track = t
      /\ w.seats = seats /\ w.fresh = fresh
      /\ w.sent = Dirty(enrolment[k], enrolment[k])
      /\ w.insert = (enrolment[k].status = "none" /\ enrolment[k] # enrolment[k])
      /\ w.offers = courses \ offered[k]
  <2> DEFINE c == Curate(k, t, seats, fresh, courses)
             object == enrolment[k]
             e == Writes(k, object, courses)
  <2>1. /\ e.open /\ e.cohort = k /\ e.row = object /\ e.sent = Dirty(object, object)
        /\ e.insert = (object.status = "none" /\ object # object)
        /\ e.offers = courses \ offered[k]
        /\ DOMAIN e = DOMAIN Nothing
    BY DEF Writes, Nothing
  <2>2. /\ DOMAIN c = DOMAIN Nothing /\ c = [e EXCEPT !.track = t, !.seats = seats, !.fresh = fresh]
    BY <2>1 DEF Curate
  <2> HIDE DEF c, e
  <2>3. /\ c.open /\ c.cohort = k /\ c.row = object /\ c.sent = Dirty(object, object)
        /\ c.insert = (object.status = "none" /\ object # object)
        /\ c.offers = courses \ offered[k]
        /\ c.track = t /\ c.seats = seats /\ c.fresh = fresh
    BY <2>1, <2>2 DEF Nothing
  <2>4. w = c \/ w = [c EXCEPT !.new = TRUE]
    BY DEF c
  <2>5. DOMAIN c = DOMAIN Nothing  BY <2>2
  <2>6. CASE w = c  BY <2>3, <2>6
  <2>7. CASE w = [c EXCEPT !.new = TRUE]  BY <2>3, <2>5, <2>7 DEF Nothing
  <2> QED  BY <2>4, <2>6, <2>7
<1>2. RowWritten(w)
  <2>1. Proper(enrolment[k], enrolment[k])  BY DEF Proper
  <2> QED  BY <1>1, <2>1, RowOf, WritesRow
<1>3. TrackWritten(w)
  BY <1>1 DEF TrackWritten
<1> QED  BY <1>1, <1>2, <1>3, Asked

LEMMA CreateTrackInv ==
  ASSUME RosterInv, NEW r \in Requests, NEW k \in Cohorts, NEW t \in Tracks,
         NEW order \in Orders, CreateTrack(r, k, t, order)
  PROVE  RosterInv'
<1> DEFINE new == ToSet(order)
           seats == Seats(order, new, 0)
           w == [Curate(k, t, seats, new, new) EXCEPT !.new = TRUE]
<1>1. Ask(r, "track", w) /\ w.new
  BY DEF CreateTrack, Curate, Writes, Nothing
<1>2. /\ new \subseteq Courses /\ DOMAIN seats = new
      /\ \A c \in new : seats[c] \in Nat /\ seats[c] > 0
  BY SeatsTyped
<1> HIDE DEF new, seats
<1>3. w = [Curate(k, t, seats, new, new) EXCEPT !.new = TRUE]  OBVIOUS
<1> HIDE DEF w
<1> QED  BY <1>1, <1>2, <1>3, CurateInv

LEMMA AddCoursesInv ==
  ASSUME RosterInv, NEW r \in Requests, NEW k \in Cohorts, NEW t \in Tracks,
         NEW order \in Orders, AddCourses(r, k, t, order)
  PROVE  RosterInv'
<1> DEFINE new == ToSet(order) \ Members(t)
           seats == Seats(order, new, LastSeat(t))
           w == Curate(k, t, seats, new, Ensured(t, new))
<1>1. Ask(r, "add", w) /\ track[t].cohort = k
  BY DEF AddCourses
<1>2. LastSeat(t) \in Nat
  <2>1. Courses # {}
    <3>1. PICK n \in Nat : order \in [1 .. n -> Courses]
      <4>1. Cardinality(Courses) \in Nat  BY FS_CardinalityType
      <4> QED  BY <4>1 DEF Orders, BoundedSeq, SeqOf
    <3>2. n # 0  BY <3>1 DEF Orders
    <3> QED  BY <3>1, <3>2
  <2>2. track[t].seat \in [Courses -> Nat]  BY DEF RosterInv, RosterTypeOK
  <2> QED  BY <2>1, <2>2, LastSeatTyped
<1>3. /\ new \subseteq Courses /\ DOMAIN seats = new
      /\ \A c \in new : seats[c] \in Nat /\ seats[c] > 0
  BY <1>2, SeatsTyped
<1>4. Ensured(t, new) \in SUBSET Courses /\ new \subseteq Ensured(t, new)
  BY <1>3 DEF Ensured, Members
<1> HIDE DEF new, seats
<1>5. w = Curate(k, t, seats, new, Ensured(t, new))  OBVIOUS
<1> HIDE DEF w
<1> QED  BY <1>1, <1>3, <1>4, <1>5, CurateInv

LEMMA ReorderInv ==
  ASSUME RosterInv, NEW r \in Requests, NEW t \in Tracks,
         NEW order \in Orders, Reorder(r, t, order)
  PROVE  RosterInv'
<1> DEFINE k == track[t].cohort
           seats == Seats(order, Members(t), 0)
           moved == {c \in Members(t) : seats[c] # track[t].seat[c]}
           sent == Restrict(seats, moved)
           w == Curate(k, t, sent, {}, {})
<1>1. Ask(r, "reorder", w) /\ k # NoCohort /\ ToSet(order) = Members(t)
  BY DEF Reorder
<1>2. k \in Cohorts  BY <1>1 DEF RosterInv, RosterTypeOK
<1>3. \A c \in Members(t) : seats[c] \in Nat /\ seats[c] > 0
  BY <1>1, SeatsTyped
<1> HIDE DEF seats
<1>4. /\ DOMAIN sent \subseteq Members(t) /\ Members(t) \subseteq Courses
      /\ \A c \in DOMAIN sent : sent[c] \in Nat /\ sent[c] > 0
  BY <1>3 DEF Restrict, Members
<1>5. k = track[t].cohort  OBVIOUS
<1> HIDE DEF sent, k
<1>6. w = Curate(k, t, sent, {}, {})  OBVIOUS
<1> HIDE DEF w
<1> QED  BY <1>1, <1>2, <1>4, <1>5, <1>6, CurateInv

LEMMA RosterInitInv ==
  ASSUME RosterInit
  PROVE  RosterInv
<1> USE DEF RosterInit, RosterInv
<1>1. /\ setup \in Tables
      /\ \A k \in Cohorts : setup.enrolment[k].status = "none" <=> setup.enrolment[k].role = "none"
      /\ \A t \in Tracks, c \in Courses :
           setup.track[t].seat[c] > 0 =>
             setup.track[t].cohort \in Cohorts /\ c \in setup.offered[setup.track[t].cohort]
  BY SetupsAssumption
<1>2. /\ budget \in [Acts -> Nat] /\ enrolment \in [Cohorts -> Row]
      /\ track \in [Tracks -> [cohort : Cohorts \cup {NoCohort}, seat : [Courses -> Nat]]]
      /\ offered \in [Cohorts -> SUBSET Courses]
      /\ status \in [Courses -> {"absent", "draft", "published", "completed"}]
  BY <1>1 DEF Tables
<1>3. \A r \in Requests : ~request[r].open
  BY DEF Nothing
<1>4. Budgeted /\ RosterTypeOK /\ Written /\ RowsKept
  BY <1>1, <1>2, <1>3 DEF Budgeted, RosterTypeOK, Written, RowsKept
<1>5. MadeFirst /\ TrackOffered
  BY <1>1, <1>2 DEF MadeFirst, TrackOffered, Members
<1>6. request = [r \in Requests |-> request[r]]
  OBVIOUS
<1> QED  BY <1>4, <1>5, <1>6

LEMMA RosterNextInv ==
  ASSUME RosterInv, RosterNext
  PROVE  RosterInv'
<1>1. PICK r \in Requests :
        \/ Commit(r) \/ Abort(r) \/ Curation(r)
        \/ \E k \in Cohorts :
             \/ Enrol(r, k) \/ Placement(r, k)
             \/ \E state \in RosterStates, admin \in BOOLEAN : ChangeState(r, k, state, admin)
  BY DEF RosterNext
<1>2. CASE Commit(r)  BY <1>2, CommitInv
<1>3. CASE Abort(r)  BY <1>3, AbortInv
<1>4. CASE Curation(r)
  BY <1>4, CreateTrackInv, AddCoursesInv, ReorderInv DEF Curation
<1>5. ASSUME NEW k \in Cohorts, Enrol(r, k)
      PROVE  RosterInv'
  BY <1>5, BulkEnrollInv, InviteToCohortInv, UsersInviteInv DEF Enrol
<1>6. ASSUME NEW k \in Cohorts, Placement(r, k)
      PROVE  RosterInv'
  BY <1>6, ClearTrackInv, AssignTrackInv DEF Placement
<1>7. ASSUME NEW k \in Cohorts, NEW state \in RosterStates, NEW admin \in BOOLEAN,
             ChangeState(r, k, state, admin)
      PROVE  RosterInv'
  BY <1>7, ChangeStateInv
<1> QED  BY <1>1, <1>2, <1>3, <1>4, <1>5, <1>6, <1>7

\* Only a commit changes the learner's rows, and it keeps an instructor.
LEMMA RosterKept ==
  ASSUME RosterInv, RosterNext
  PROVE  \A k \in Cohorts : enrolment[k].role = "instructor" => enrolment'[k].role = "instructor"
<1>1. ASSUME NEW r \in Requests, Commit(r)
      PROVE  \A k \in Cohorts : enrolment[k].role = "instructor" => enrolment'[k].role = "instructor"
  <2>1. CASE Conflict(request[r])  BY <1>1, <2>1 DEF Commit
  <2>2. CASE ~Conflict(request[r])  BY <1>1, <2>2, RosterUpdated
  <2> QED  BY <2>1, <2>2
<1>2. ASSUME NEW r \in Requests,
             \/ Abort(r) \/ Curation(r)
             \/ \E k \in Cohorts :
                  \/ Enrol(r, k) \/ Placement(r, k)
                  \/ \E state \in RosterStates, admin \in BOOLEAN : ChangeState(r, k, state, admin)
      PROVE  UNCHANGED enrolment
  <2>1. \A act, w : Ask(r, act, w) => UNCHANGED enrolment  BY DEF Ask
  <2>2. CASE Abort(r)  BY <2>2 DEF Abort
  <2>3. CASE Curation(r)
    BY <2>1, <2>3 DEF Curation, CreateTrack, AddCourses, Reorder
  <2>4. ASSUME NEW k \in Cohorts, Enrol(r, k) PROVE UNCHANGED enrolment
    BY <2>1, <2>4 DEF Enrol, BulkEnroll, InviteToCohort, UsersInvite
  <2>5. ASSUME NEW k \in Cohorts,
               \/ Placement(r, k)
               \/ \E state \in RosterStates, admin \in BOOLEAN : ChangeState(r, k, state, admin)
        PROVE  UNCHANGED enrolment
    BY <2>1, <2>5 DEF Placement, ClearTrack, AssignTrack, ChangeState
  <2> QED  BY <1>2, <2>2, <2>3, <2>4, <2>5
<1> QED  BY <1>1, <1>2 DEF RosterNext

-----------------------------------------------------------------------------
(* Curriculum: the trail.                                                  *)

LEMMA TrailAppended ==
  ASSUME TrailKept, NEW e \in Entries, ~Contains(trail, e), trail' = Append(trail, e)
  PROVE  TrailKept' /\ \A x : Contains(trail, x)' <=> Contains(trail, x) \/ x = e
<1>1. /\ trail' \in Seq(Entries) /\ Len(trail') = Len(trail) + 1
      /\ \A i \in 1 .. Len(trail) : trail'[i] = trail[i]
      /\ trail'[Len(trail) + 1] = e /\ Len(trail) \in Nat
      /\ DOMAIN trail = 1 .. Len(trail) /\ DOMAIN trail' = 1 .. Len(trail')
  BY AppendProperties, LenProperties DEF TrailKept
<1>2. \A i \in 1 .. Len(trail) : trail[i] # e
  BY DEF Contains
<1>3. TrailKept'
  BY <1>1, <1>2 DEF TrailKept
<1>4. \A x : Contains(trail, x)' <=> Contains(trail, x) \/ x = e
  <2> SUFFICES ASSUME NEW x PROVE Contains(trail, x)' <=> Contains(trail, x) \/ x = e
    OBVIOUS
  <2>1. Contains(trail, x)' <=> \E i \in 1 .. Len(trail) + 1 : trail'[i] = x
    BY <1>1 DEF Contains
  <2>2. \A i \in 1 .. Len(trail) + 1 : i \in 1 .. Len(trail) \/ i = Len(trail) + 1
    BY <1>1
  <2> QED  BY <1>1, <2>1, <2>2 DEF Contains
<1> QED  BY <1>3, <1>4

\* A sequence without its element at k.
LEMMA RemovedAt ==
  ASSUME NEW S, NEW s \in Seq(S), NEW n \in Nat, Len(s) = n, NEW k \in 1 .. n
  PROVE  /\ RemoveAt(s, k) \in Seq(S) /\ Len(RemoveAt(s, k)) = n - 1
         /\ \A i \in 1 .. n - 1 : /\ i < k => RemoveAt(s, k)[i] = s[i]
                                  /\ i >= k => RemoveAt(s, k)[i] = s[i + 1]
<1> DEFINE head == SubSeq(s, 1, k - 1)
           tail == SubSeq(s, k + 1, n)
<1>0. \A i \in 1 .. n : s[i] \in S
  BY ElementOfSeq
<1>1. head \in Seq(S) /\ Len(head) = k - 1 /\ \A i \in 1 .. k - 1 : head[i] = s[i]
  <2>1. \A i \in 1 .. k - 1 : s[i] \in S  BY <1>0
  <2>2. /\ head \in Seq(S) /\ Len(head) = IF 1 <= k - 1 THEN (k - 1) - 1 + 1 ELSE 0
        /\ \A i \in 1 .. (k - 1) - 1 + 1 : head[i] = s[1 + i - 1]
    BY <2>1, SubSeqProperties
  <2> HIDE DEF head
  <2> QED  BY <2>2
<1>2. tail \in Seq(S) /\ Len(tail) = n - k /\ \A i \in 1 .. n - k : tail[i] = s[k + i]
  <2>1. \A i \in k + 1 .. n : s[i] \in S  BY <1>0
  <2>2. /\ tail \in Seq(S) /\ Len(tail) = IF k + 1 <= n THEN n - (k + 1) + 1 ELSE 0
        /\ \A i \in 1 .. n - (k + 1) + 1 : tail[i] = s[(k + 1) + i - 1]
    BY <2>1, SubSeqProperties
  <2> HIDE DEF tail
  <2>3. Len(tail) = n - k  BY <2>2
  <2>4. ASSUME NEW i \in 1 .. n - k PROVE tail[i] = s[k + i]
    <3>1. i \in 1 .. n - (k + 1) + 1 /\ (k + 1) + i - 1 = k + i  OBVIOUS
    <3> QED  BY <2>2, <3>1
  <2> QED  BY <2>2, <2>3, <2>4
<1>3. RemoveAt(s, k) = head \o tail
  BY DEF RemoveAt
<1> HIDE DEF head, tail
<1>4. /\ head \o tail \in Seq(S) /\ Len(head \o tail) = n - 1
      /\ \A i \in 1 .. n - 1 :
           (head \o tail)[i] = IF i <= k - 1 THEN head[i] ELSE tail[i - (k - 1)]
  <2>1. /\ head \o tail \in Seq(S) /\ Len(head \o tail) = Len(head) + Len(tail)
        /\ \A i \in 1 .. Len(head) + Len(tail) :
             (head \o tail)[i] = IF i <= Len(head) THEN head[i] ELSE tail[i - Len(head)]
    <3>1. head \in Seq(S) /\ tail \in Seq(S)  BY <1>1, <1>2
    <3> QED  BY <3>1, ConcatProperties
  <2>2. Len(head) = k - 1 /\ Len(head) + Len(tail) = n - 1
    BY <1>1, <1>2
  <2> QED  BY <2>1, <2>2
<1>5. ASSUME NEW i \in 1 .. n - 1
      PROVE  /\ i < k => (head \o tail)[i] = s[i]
             /\ i >= k => (head \o tail)[i] = s[i + 1]
  <2>1. CASE i < k  BY <1>1, <1>4, <2>1
  <2>2. CASE i >= k
    <3> DEFINE j == i - (k - 1)
    <3>1. j \in 1 .. n - k /\ k + j = i + 1 /\ ~(i <= k - 1) /\ ~(i < k)
      BY <2>2
    <3>2. (head \o tail)[i] = IF i <= k - 1 THEN head[i] ELSE tail[j]  BY <1>4
    <3> HIDE DEF j
    <3>3. tail[j] = s[k + j]  BY <1>2, <3>1
    <3>4. s[k + j] = s[i + 1]  BY <3>1
    <3> QED  BY <3>1, <3>2, <3>3, <3>4
  <2> QED  BY <2>1, <2>2
<1> QED  BY <1>3, <1>4, <1>5
LEMMA TrailRemoved ==
  ASSUME TrailKept, NEW e, trail' = RemoveFirst(trail, e)
  PROVE  TrailKept' /\ \A x : Contains(trail, x)' <=> Contains(trail, x) /\ x # e
<1> DEFINE n == Len(trail)
<1>1. /\ n \in Nat /\ DOMAIN trail = 1 .. n /\ trail \in Seq(Entries)
      /\ \A i, j \in 1 .. n : trail[i] = trail[j] => i = j
  BY LenProperties DEF TrailKept
<1>2. CASE ~Contains(trail, e)
  <2>1. trail' = trail
    BY <1>2 DEF RemoveFirst, Contains
  <2> QED  BY <1>2, <2>1 DEF TrailKept, Contains
<1>3. CASE Contains(trail, e)
  <2>1. PICK k \in 1 .. n : trail[k] = e
    BY <1>3 DEF Contains
  <2>2. trail' = RemoveAt(trail, k)
    <3>1. {i \in 1 .. n : trail[i] = e} = {k}
      BY <1>1, <2>1
    <3>2. SelectInSeq(trail, LAMBDA v : v = e) = k
      BY <3>1 DEF SelectInSeq, Min
    <3> QED  BY <1>3, <3>2 DEF RemoveFirst, Contains
  <2>3. /\ trail' \in Seq(Entries) /\ Len(trail') = n - 1
        /\ \A i \in 1 .. n - 1 : /\ i < k => trail'[i] = trail[i]
                                 /\ i >= k => trail'[i] = trail[i + 1]
    <3>1. n = Len(trail)  OBVIOUS
    <3> HIDE DEF n
    <3>2. /\ RemoveAt(trail, k) \in Seq(Entries) /\ Len(RemoveAt(trail, k)) = n - 1
          /\ \A i \in 1 .. n - 1 : /\ i < k => RemoveAt(trail, k)[i] = trail[i]
                                   /\ i >= k => RemoveAt(trail, k)[i] = trail[i + 1]
      <4>1. trail \in Seq(Entries) /\ n \in Nat /\ Len(trail) = n /\ k \in 1 .. n
        BY <1>1, <3>1
      <4>3. \A s \in Seq(Entries), m \in Nat : Len(s) = m => \A j \in 1 .. m :
              /\ RemoveAt(s, j) \in Seq(Entries) /\ Len(RemoveAt(s, j)) = m - 1
              /\ \A i \in 1 .. m - 1 : /\ i < j => RemoveAt(s, j)[i] = s[i]
                                       /\ i >= j => RemoveAt(s, j)[i] = s[i + 1]
        BY RemovedAt
      <4>4. \A m \in Nat : Len(trail) = m => \A j \in 1 .. m :
              /\ RemoveAt(trail, j) \in Seq(Entries) /\ Len(RemoveAt(trail, j)) = m - 1
              /\ \A i \in 1 .. m - 1 : /\ i < j => RemoveAt(trail, j)[i] = trail[i]
                                       /\ i >= j => RemoveAt(trail, j)[i] = trail[i + 1]
        BY <4>1, <4>3
      <4> QED  BY <4>1, <4>4
    <3> QED  BY <2>2, <3>2
  <2>4. \A x : Contains(trail, x) <=> \E i \in 1 .. n : trail[i] = x
    BY DEF Contains
  <2>5. \A x : Contains(trail, x)' <=> \E i \in 1 .. n - 1 : trail'[i] = x
    BY <2>3 DEF Contains
  <2> HIDE DEF n
  <2>6. DOMAIN trail' = 1 .. n - 1
    BY <2>3, LenProperties
  \* The element at i is the one that was at i, or at the place after it.
  <2>7. ASSUME NEW i \in 1 .. n - 1
        PROVE  \E j \in 1 .. n : /\ j # k /\ trail'[i] = trail[j]
                                /\ j = IF i < k THEN i ELSE i + 1
    <3>1. CASE i < k  BY <1>1, <2>3, <3>1
    <3>2. CASE i >= k
      <4>1. i + 1 \in 1 .. n /\ i + 1 # k /\ trail'[i] = trail[i + 1]  BY <1>1, <2>3, <3>2
      <4> QED  BY <3>2, <4>1
    <3> QED  BY <1>1, <3>1, <3>2
  <2>8. TrailKept'
    <3>1. ASSUME NEW i \in 1 .. n - 1, NEW j \in 1 .. n - 1, trail'[i] = trail'[j]
          PROVE  i = j
      <4>1. PICK f \in 1 .. n : trail'[i] = trail[f] /\ f = IF i < k THEN i ELSE i + 1
        BY <2>7
      <4>2. PICK g \in 1 .. n : trail'[j] = trail[g] /\ g = IF j < k THEN j ELSE j + 1
        BY <2>7
      <4>3. f = g  BY <1>1, <3>1, <4>1, <4>2
      <4> QED  BY <4>1, <4>2, <4>3
    <3> QED  BY <2>3, <2>6, <3>1 DEF TrailKept
  <2>9. ASSUME NEW x PROVE Contains(trail, x)' <=> Contains(trail, x) /\ x # e
    <3>1. ASSUME NEW i \in 1 .. n, trail[i] = x, x # e
          PROVE  \E j \in 1 .. n - 1 : trail'[j] = x
      <4>1. CASE i < k
        <5>1. i \in 1 .. n - 1 /\ trail'[i] = trail[i]  BY <1>1, <2>3, <4>1
        <5> QED  BY <3>1, <5>1
      <4>2. CASE i > k
        <5> DEFINE j == i - 1
        <5>1. j \in 1 .. n - 1 /\ j >= k /\ j + 1 = i  BY <1>1, <4>2
        <5> HIDE DEF j
        <5>2. trail'[j] = trail[i]  BY <2>3, <5>1
        <5> QED  BY <3>1, <5>1, <5>2
      <4>3. i # k  BY <2>1, <3>1
      <4> QED  BY <1>1, <4>1, <4>2, <4>3
    <3>2. ASSUME NEW i \in 1 .. n - 1, trail'[i] = x
          PROVE  x # e /\ \E j \in 1 .. n : trail[j] = x
      <4>1. PICK j \in 1 .. n : j # k /\ trail'[i] = trail[j]
        BY <2>7
      <4> QED  BY <1>1, <2>1, <3>2, <4>1
    <3> QED  BY <2>4, <2>5, <3>1, <3>2
  <2> QED  BY <2>8, <2>9
<1> QED  BY <1>2, <1>3

-----------------------------------------------------------------------------
(* Curriculum: the actions.                                                *)

Chapters == [body : Texts \cup {NoText}, md : Texts \cup {NoText}, hash : Texts \cup {NoText}]
Statuses == {"absent", "draft", "published", "completed"}

\* A step of the curriculum: what it must keep, of what it changes.
LEMMA Curated ==
  ASSUME RosterInv, StudyInv, UNCHANGED <<setup, now, rosterVars>>,
         NEW a, Spend(a) \/ UNCHANGED budget,
         status' \in [Courses -> Statuses], requires' \subseteq Courses \X Courses,
         chapter' \in [Courses -> [Numbers -> Chapters]], version' \in [Courses -> Nat], TrailKept',
         \A c \in Courses, n \in Numbers : MarkedRead(c, n)' => Present(c, n)'
  PROVE  RosterInv' /\ StudyInv'
<1>1. Budgeted'  BY Spent, Kept DEF RosterInv
<1>2. RosterInv'  BY <1>1, Elsewhere DEF Statuses
<1>3. StudyInv'  BY DEF StudyInv, CurriculumTypeOK, Chapters
<1> QED  BY <1>2, <1>3

LEMMA StudyTypes ==
  ASSUME RosterInv, StudyInv
  PROVE  /\ status \in [Courses -> Statuses] /\ requires \subseteq Courses \X Courses
         /\ chapter \in [Courses -> [Numbers -> Chapters]] /\ version \in [Courses -> Nat]
         /\ TrailKept
         /\ \A c \in Courses, n \in Numbers : MarkedRead(c, n) => Present(c, n)
  BY DEF RosterInv, RosterTypeOK, StudyInv, CurriculumTypeOK, Chapters, Statuses

LEMMA LoadCurriculumInv ==
  ASSUME RosterInv, StudyInv, NEW f \in Files, LoadCurriculum(f)
  PROVE  RosterInv' /\ StudyInv'
<1>1. requires' \subseteq Courses \X Courses
  BY StudyTypes, FilesAssumption DEF LoadCurriculum
<1> QED
  BY <1>1, StudyTypes, Curated DEF LoadCurriculum, Curating, TrailKept, MarkedRead, Present

LEMMA CreateCourseInv ==
  ASSUME RosterInv, StudyInv, NEW c \in Courses, CreateCourse(c)
  PROVE  RosterInv' /\ StudyInv'
<1>1. status' \in [Courses -> Statuses] /\ version' \in [Courses -> Nat]
  BY StudyTypes DEF CreateCourse, Statuses
<1> QED
  BY <1>1, StudyTypes, Curated DEF CreateCourse, Curating, TrailKept, MarkedRead, Present

LEMMA SetCourseStatusInv ==
  ASSUME RosterInv, StudyInv, NEW c \in Courses,
         NEW s \in {"draft", "published", "completed"}, SetCourseStatus(c, s)
  PROVE  RosterInv' /\ StudyInv'
<1>1. status' \in [Courses -> Statuses]
  BY StudyTypes DEF SetCourseStatus, Statuses
<1> QED
  BY <1>1, StudyTypes, Curated DEF SetCourseStatus, Curating, TrailKept, MarkedRead, Present

\* An import leaves no chapter without a text.
LEMMA ImportManualInv ==
  ASSUME RosterInv, StudyInv, NEW c \in Courses, NEW manual \in Manuals, ImportManual(c, manual)
  PROVE  RosterInv' /\ StudyInv'
<1> DEFINE new == {n \in Numbers : manual[n] # NoText /\ chapter[c][n].hash # manual[n]}
           imported == [n \in Numbers |->
             IF n \in new THEN [chapter[c][n] EXCEPT !.body = manual[n], !.hash = manual[n]]
             ELSE chapter[c][n]]
<1>1. manual \in [Numbers -> Texts \cup {NoText}]  BY ManualsAssumption
<1>2. \A n \in Numbers : chapter[c][n] \in Chapters  BY StudyTypes
<1>3. imported \in [Numbers -> Chapters]
  BY <1>1, <1>2 DEF Chapters
<1>4. \A n \in Numbers : chapter[c][n].body # NoText => imported[n].body # NoText
  BY <1>1, <1>2 DEF Chapters
<1>5. chapter' = [chapter EXCEPT ![c] = imported]
  BY DEF ImportManual
<1>6. version' \in [Courses -> Nat] /\ status' \in [Courses -> Statuses]
  <2> DEFINE v == (IF status[c] = "absent" THEN 1 ELSE version[c]) + (IF new = {} THEN 0 ELSE 1)
             s == IF status[c] = "absent" THEN "published" ELSE status[c]
  <2>1. v \in Nat /\ s \in Statuses
    <3> HIDE DEF new
    <3> QED  BY StudyTypes DEF Statuses
  <2>2. version' = [version EXCEPT ![c] = v] /\ status' = [status EXCEPT ![c] = s]
    BY DEF ImportManual
  <2> HIDE DEF v, s
  <2> QED  BY <2>1, <2>2, StudyTypes
<1> HIDE DEF imported
<1>7. /\ chapter' \in [Courses -> [Numbers -> Chapters]]
      /\ \A d \in Courses, n \in Numbers : Present(d, n) => Present(d, n)'
  BY <1>3, <1>4, <1>5, StudyTypes DEF Present
<1>8. UNCHANGED <<requires, trail, setup, now, rosterVars>> /\ Spend("import")
  BY DEF ImportManual, Curating
<1>9. TrailKept' /\ \A d \in Courses, n \in Numbers : MarkedRead(d, n)' = MarkedRead(d, n)
  BY <1>8, StudyTypes DEF TrailKept, MarkedRead
<1> QED  BY <1>6, <1>7, <1>8, <1>9, StudyTypes, Curated

LEMMA UpsertChapterInv ==
  ASSUME RosterInv, StudyInv, NEW c \in Courses, NEW n \in Numbers, NEW text \in Texts,
         UpsertChapter(c, n, text)
  PROVE  RosterInv' /\ StudyInv'
<1> DEFINE new == [chapter[c][n] EXCEPT !.body = text, !.md = text]
<1>1. chapter[c] \in [Numbers -> Chapters] /\ chapter[c][n] \in Chapters  BY StudyTypes
<1>2. new \in Chapters /\ new.body # NoText
  BY <1>1, HeadingsAssumption DEF Chapters
<1>3. chapter' = [chapter EXCEPT ![c] = [chapter[c] EXCEPT ![n] = new]]
  BY DEF UpsertChapter
<1> HIDE DEF new
<1>4. chapter' \in [Courses -> [Numbers -> Chapters]]
  BY <1>1, <1>2, <1>3, StudyTypes
<1>5. \A d \in Courses, m \in Numbers :
        chapter'[d][m] = IF d = c /\ m = n THEN new ELSE chapter[d][m]
  BY <1>1, <1>3, StudyTypes
<1>6. version' \in [Courses -> Nat]
  <2>1. version' = [version EXCEPT ![c] = version[c] + 1]  BY DEF UpsertChapter
  <2> QED  BY <2>1, StudyTypes
<1>7. UNCHANGED <<status, requires, trail, setup, now, rosterVars>> /\ Spend("edit")
  BY DEF UpsertChapter, Curating
<1>8. TrailKept' /\ \A d \in Courses, m \in Numbers : MarkedRead(d, m)' => Present(d, m)'
  BY <1>2, <1>5, <1>7, StudyTypes DEF TrailKept, MarkedRead, Present
<1> QED  BY <1>4, <1>6, <1>7, <1>8, StudyTypes, Curated

\* The reads of a deleted chapter go with it.
LEMMA DeleteChapterInv ==
  ASSUME RosterInv, StudyInv, NEW c \in Courses, NEW n \in Numbers, DeleteChapter(c, n)
  PROVE  RosterInv' /\ StudyInv'
<1>1. chapter[c] \in [Numbers -> Chapters] /\ NoChapter \in Chapters
  BY StudyTypes DEF Chapters, NoChapter
<1>2. chapter' = [chapter EXCEPT ![c] = [chapter[c] EXCEPT ![n] = NoChapter]]
  BY DEF DeleteChapter
<1>3. chapter' \in [Courses -> [Numbers -> Chapters]]
  BY <1>1, <1>2, StudyTypes
<1>4. \A d \in Courses, m \in Numbers : d # c \/ m # n => chapter'[d][m] = chapter[d][m]
  BY <1>1, <1>2, StudyTypes
<1>5. version' \in [Courses -> Nat]
  BY StudyTypes DEF DeleteChapter
<1>6. UNCHANGED <<status, requires, setup, now, rosterVars>> /\ Spend("remove")
  BY DEF DeleteChapter, Curating
<1>7. /\ TrailKept'
      /\ \A x : Contains(trail, x)' <=> Contains(trail, x) /\ x # <<"read", c, n>>
  <2>1. trail' = RemoveFirst(trail, <<"read", c, n>>)  BY DEF DeleteChapter, Unmarked
  <2> QED  BY <2>1, StudyTypes, TrailRemoved
<1>8. ASSUME NEW d \in Courses, NEW m \in Numbers, MarkedRead(d, m)' PROVE Present(d, m)'
  <2>1. MarkedRead(d, m) /\ <<"read", d, m>> # <<"read", c, n>>
    BY <1>7, <1>8 DEF MarkedRead
  <2>2. d # c \/ m # n  BY <2>1
  <2> QED  BY <1>4, <2>1, <2>2, StudyTypes DEF Present
<1> QED  BY <1>3, <1>5, <1>6, <1>7, <1>8, StudyTypes, Curated

\* A page that leaves the trail as it is.
LEMMA ReadingInv ==
  ASSUME RosterInv, StudyInv, Reading, UNCHANGED trail, NEW a, Spend(a) \/ UNCHANGED budget
  PROVE  RosterInv' /\ StudyInv'
  BY StudyTypes, Curated DEF Reading, TrailKept, MarkedRead, Present

LEMMA ToggleReadInv ==
  ASSUME RosterInv, StudyInv, NEW c \in Courses, NEW n \in Numbers, ToggleRead(c, n)
  PROVE  RosterInv' /\ StudyInv'
<1> DEFINE e == <<"read", c, n>>
<1>1. UNCHANGED <<status, requires, chapter, version, setup, now, rosterVars>> /\ Spend("read")
  BY DEF ToggleRead, Reading
<1>2. e \in Entries  BY DEF Entries
<1>3. TrailKept' /\ \A x : Contains(trail, x)' => Contains(trail, x) \/ x = e
  <2>1. CASE MarkedRead(c, n)
    <3>1. trail' = RemoveFirst(trail, e)  BY <2>1 DEF ToggleRead, Unmarked
    <3> HIDE DEF e
    <3> QED  BY <3>1, StudyTypes, TrailRemoved
  <2>2. CASE ~MarkedRead(c, n)
    <3>1. trail' = Append(trail, e) /\ ~Contains(trail, e)  BY <2>2 DEF ToggleRead, MarkedRead
    <3> HIDE DEF e
    <3> QED  BY <1>2, <3>1, StudyTypes, TrailAppended
  <2> QED  BY <2>1, <2>2
<1>4. ASSUME NEW d \in Courses, NEW m \in Numbers, MarkedRead(d, m)' PROVE Present(d, m)'
  <2>1. MarkedRead(d, m) \/ (d = c /\ m = n)  BY <1>3, <1>4 DEF MarkedRead
  <2>2. Present(c, n)  BY DEF ToggleRead
  <2> QED  BY <1>1, <2>1, <2>2, StudyTypes DEF Present
<1> QED  BY <1>1, <1>3, <1>4, StudyTypes, Curated

LEMMA PassInv ==
  ASSUME RosterInv, StudyInv, NEW c \in Courses, NEW n \in Numbers, Pass(c, n)
  PROVE  RosterInv' /\ StudyInv'
<1> DEFINE e == <<"work", c, n>>
<1>1. UNCHANGED <<status, requires, chapter, version, setup, now, rosterVars, budget>>
  BY DEF Pass, Reading
<1>2. e \in Entries  BY DEF Entries
<1>3. TrailKept' /\ \A x : Contains(trail, x)' => Contains(trail, x) \/ x = e
  <2>1. trail' = Append(trail, e) /\ ~Contains(trail, e)  BY DEF Pass, Passed
  <2> HIDE DEF e
  <2> QED  BY <1>2, <2>1, StudyTypes, TrailAppended
<1>4. ASSUME NEW d \in Courses, NEW m \in Numbers, MarkedRead(d, m)' PROVE Present(d, m)'
  <2>1. MarkedRead(d, m)  BY <1>3, <1>4 DEF MarkedRead
  <2> QED  BY <1>1, <2>1, StudyTypes DEF Present
<1> QED  BY <1>1, <1>3, <1>4, StudyTypes, Curated

LEMMA CurriculumNextInv ==
  ASSUME RosterInv, StudyInv, CurriculumNext
  PROVE  RosterInv' /\ StudyInv'
<1>1. ASSUME NEW f \in Files, LoadCurriculum(f)
      PROVE  RosterInv' /\ StudyInv'
  BY <1>1, LoadCurriculumInv
<1>2. ASSUME NEW c \in Courses, Author(c)
      PROVE  RosterInv' /\ StudyInv'
  BY <1>2, CreateCourseInv, SetCourseStatusInv, ImportManualInv, UpsertChapterInv,
     DeleteChapterInv DEF Author
<1>3. ASSUME NEW c \in Courses, CoursePage(c)
      PROVE  RosterInv' /\ StudyInv'
  BY <1>3, ReadingInv DEF CoursePage
<1>4. ASSUME NEW c \in Courses, NEW n \in Numbers, Study(c, n)
      PROVE  RosterInv' /\ StudyInv'
  <2>1. CASE ChapterPage(c, n)  BY <2>1, ReadingInv DEF ChapterPage
  <2>2. CASE \E h \in UNION {Headings[x] : x \in Texts} : SubtopicComplete(c, n, h)
    BY <2>2, ReadingInv DEF SubtopicComplete
  <2> QED  BY <1>4, <2>1, <2>2, ToggleReadInv, PassInv DEF Study
<1> QED  BY <1>1, <1>2, <1>3, <1>4 DEF CurriculumNext

-----------------------------------------------------------------------------
(* Classroom: the actions.                                                 *)

\* The timetable and the notices leave the roster and the curriculum alone.
LEMMA OutsideInv ==
  ASSUME RosterInv, StudyInv, Outside, UNCHANGED courseVars, NEW a, Spend(a)
  PROVE  RosterInv' /\ StudyInv'
<1>1. UNCHANGED <<setup, now, rosterVars, status, requires, chapter, version, trail>>
  BY DEF Outside, courseVars
<1> QED  BY <1>1, StudyTypes, Curated DEF TrailKept, MarkedRead, Present

LEMMA ScheduleInv ==
  ASSUME RoomInv, Schedule
  PROVE  RoomInv' /\ Outside /\ \E a \in Acts : Spend(a)
<1> USE DEF RoomInv, Acts, RoomActs
<1>1. ASSUME NEW s \in Sessions, NEW start \in Times, NEW end \in Times \cup {Null},
             NEW link \in BOOLEAN, UpdateSession(s, start, end, link)
      PROVE  RoomInv' /\ Outside /\ \E a \in Acts : Spend(a)
  <2>1. RoomTypes'
    <3>1. UNCHANGED <<mode, announcement, notice, audience>>  BY <1>1 DEF UpdateSession
    <3>2. session' = [session EXCEPT ![s] =
            [session[s] EXCEPT !.start = start, !.end = end, !.link = link]]
      BY <1>1 DEF UpdateSession
    <3> DEFINE Typed == [cohort : Cohorts \cup {NoCohort}, start : Times,
                         status : {"none", "scheduled", "cancelled"},
                         end : Times \cup {Null}, link : BOOLEAN]
    <3>3. session \in [Sessions -> Typed]  BY DEF RoomTypes
    <3>4. session[s] \in Typed
      <4> HIDE DEF Typed
      <4> QED  BY <3>3
    <3>5. [session[s] EXCEPT !.start = start, !.end = end, !.link = link] \in Typed
      BY ONLY <3>4, start \in Times, end \in Times \cup {Null}, link \in BOOLEAN DEF Typed
    <3>6. session' \in [Sessions -> Typed]
      <4> HIDE DEF Typed
      <4> QED  BY <3>2, <3>3, <3>5
    <3> QED  BY <3>1, <3>6 DEF RoomTypes
  <2>2. NoticeSent'  BY <1>1 DEF UpdateSession, NoticeSent, Unread
  <2> QED  BY <1>1, <2>1, <2>2 DEF UpdateSession
<1>2. ASSUME NEW s \in Sessions, NEW start \in Times, NEW end \in Times \cup {Null},
             NEW link \in BOOLEAN, NEW k \in Cohorts, CreateSession(s, k, start, end, link)
      PROVE  RoomInv' /\ Outside /\ \E a \in Acts : Spend(a)
  <2>1. RoomTypes'  BY <1>2 DEF CreateSession, RoomTypes
  <2>2. NoticeSent'  BY <1>2 DEF CreateSession, NoticeSent, Unread
  <2> QED  BY <1>2, <2>1, <2>2 DEF CreateSession
<1>3. ASSUME NEW s \in Sessions, CancelSession(s)
      PROVE  RoomInv' /\ Outside /\ \E a \in Acts : Spend(a)
  <2>1. RoomTypes'  BY <1>3 DEF CancelSession, RoomTypes
  <2>2. NoticeSent'  BY <1>3 DEF CancelSession, NoticeSent, Unread
  <2> QED  BY <1>3, <2>1, <2>2 DEF CancelSession
<1>4. ASSUME NEW k \in Cohorts, NEW m \in {"self_paced", "live", "blended"}, SetDeliveryMode(k, m)
      PROVE  RoomInv' /\ Outside /\ \E a \in Acts : Spend(a)
  <2>1. RoomTypes'  BY <1>4 DEF SetDeliveryMode, RoomTypes
  <2>2. NoticeSent'  BY <1>4 DEF SetDeliveryMode, NoticeSent, Unread
  <2> QED  BY <1>4, <2>1, <2>2 DEF SetDeliveryMode
<1> QED  BY <1>1, <1>2, <1>3, <1>4 DEF Schedule

LEMMA NotifyInv ==
  ASSUME RoomInv, Notify
  PROVE  RoomInv' /\ Outside /\ \E a \in Acts : Spend(a)
<1> USE DEF RoomInv, Acts, RoomActs
<1>1. ASSUME NEW a \in Announcements, DeleteAnnouncement(a)
      PROVE  RoomInv' /\ Outside /\ \E b \in Acts : Spend(b)
  <2>1. RoomTypes'  BY <1>1 DEF DeleteAnnouncement, RoomTypes
  <2>2. NoticeSent'  BY <1>1 DEF DeleteAnnouncement, NoticeSent, Unread, RoomTypes
  <2> QED  BY <1>1, <2>1, <2>2 DEF DeleteAnnouncement
<1>2. ASSUME NEW a \in Announcements, NEW target \in Cohorts \cup {Everyone},
             NEW delivered \in BOOLEAN, Announce(a, target, delivered)
      PROVE  RoomInv' /\ Outside /\ \E b \in Acts : Spend(b)
  <2>1. RoomTypes'  BY <1>2 DEF Announce, RoomTypes
  <2>2. NoticeSent'  BY <1>2 DEF Announce, NoticeSent, Unread, RoomTypes
  <2> QED  BY <1>2, <2>1, <2>2 DEF Announce
<1>3. CASE MarkAllRead
  <2>1. RoomTypes'  BY <1>3 DEF MarkAllRead, RoomTypes
  <2>2. NoticeSent'  BY <1>3 DEF MarkAllRead, NoticeSent, Unread
  <2> QED  BY <1>3, <2>1, <2>2 DEF MarkAllRead
<1>4. ASSUME NEW onRoster \in BOOLEAN, NEW restExternal \in BOOLEAN, Classify(onRoster, restExternal)
      PROVE  RoomInv' /\ Outside /\ \E b \in Acts : Spend(b)
  <2>1. RoomTypes'  BY <1>4 DEF Classify, RoomTypes
  <2>2. NoticeSent'  BY <1>4 DEF Classify, NoticeSent, Unread
  <2> QED  BY <1>4, <2>1, <2>2 DEF Classify
<1> QED  BY <1>1, <1>2, <1>3, <1>4 DEF Notify

LEMMA RoomKept ==
  ASSUME RoomInv, UNCHANGED roomVars
  PROVE  RoomInv'
  BY DEF RoomInv, RoomTypes, NoticeSent, Unread, roomVars

LEMMA StudyKept ==
  ASSUME StudyInv, UNCHANGED <<now, courseVars>>
  PROVE  StudyInv'
  BY DEF StudyInv, CurriculumTypeOK, TrailKept, MarkedRead, Present, courseVars

LEMMA TickInv ==
  ASSUME RosterInv, StudyInv, Tick
  PROVE  RosterInv' /\ StudyInv'
<1>1. RosterInv'
  <2>1. Budgeted'  BY Spent DEF Tick, RosterInv
  <2> QED  BY <2>1, Elsewhere DEF Tick, RosterInv, RosterTypeOK
<1>2. StudyInv'
  BY MaxTimeAssumption DEF Tick, courseVars, StudyInv, CurriculumTypeOK, TrailKept, MarkedRead, Present
<1> QED  BY <1>1, <1>2

LEMMA ClassroomInit ==
  Init => ClassInv
<1> SUFFICES ASSUME Init PROVE ClassInv  OBVIOUS
<1>1. RosterInv  BY RosterInitInv DEF Init
<1>2. StudyInv
  <2>1. setup \in Tables  BY SetupsAssumption DEF Init, RosterInit
  <2>2. now \in 0 .. MaxTime /\ requires \subseteq Courses \X Courses
    BY <2>1, MaxTimeAssumption DEF Init, CurriculumInit, Tables
  <2>3. chapter \in [Courses -> [Numbers -> Chapters]]
    BY <2>1 DEF Init, CurriculumInit, Tables, Chapters, NoChapter
  <2>4. version \in [Courses -> Nat]
    BY DEF Init, CurriculumInit
  <2>5. TrailKept /\ \A c \in Courses, n \in Numbers : ~MarkedRead(c, n)
    BY DEF Init, CurriculumInit, TrailKept, MarkedRead, Contains
  <2> QED  BY <2>2, <2>3, <2>4, <2>5 DEF StudyInv, CurriculumTypeOK, Chapters
<1>3. RoomInv
  BY MaxTimeAssumption DEF Init, RoomInv, RoomTypes, NoticeSent, Unread, NoSession, Times
<1> QED  BY <1>1, <1>2, <1>3 DEF ClassInv

LEMMA ClassroomStep ==
  ClassInv /\ [Next]_vars => ClassInv'
<1> SUFFICES ASSUME ClassInv, [Next]_vars PROVE ClassInv'  OBVIOUS
<1> USE DEF ClassInv
<1>1. CASE RosterNext /\ UNCHANGED <<now, courseVars, roomVars>>
  BY <1>1, RosterNextInv, StudyKept, RoomKept
<1>2. CASE CurriculumNext /\ UNCHANGED roomVars
  BY <1>2, CurriculumNextInv, RoomKept
<1>3. CASE Schedule \/ Notify
  <2>1. RoomInv' /\ Outside /\ \E a \in Acts : Spend(a)
    BY <1>3, ScheduleInv, NotifyInv
  <2> QED  BY <2>1, OutsideInv DEF Outside
<1>4. CASE Tick
  BY <1>4, TickInv, RoomKept DEF Tick
<1>5. CASE UNCHANGED vars
  <2>1. UNCHANGED <<setup, budget, status, now, rosterVars, courseVars, roomVars>>
    BY <1>5 DEF vars
  <2>2. RosterInv'
    BY <2>1, Kept, Elsewhere DEF RosterInv, RosterTypeOK
  <2> QED  BY <2>1, <2>2, StudyKept, RoomKept
<1> QED  BY <1>1, <1>2, <1>3, <1>4, <1>5 DEF Next

-----------------------------------------------------------------------------

\* What holds of the rows, the requests and the trail, whatever the tables the
\* instance starts with.
THEOREM ClassroomInvariant == Spec => []ClassInv
<1> QED  BY ClassroomInit, ClassroomStep, PTL DEF Spec

\* Every variable of the classroom keeps its type, and a chapter that is marked
\* as read is there.
THEOREM ClassroomTypes == Spec => []TypeOK
<1>1. ClassInv => TypeOK
  BY DEF ClassInv, RosterInv, Budgeted, StudyInv, RoomInv, RoomTypes, TypeOK
<1> QED  BY <1>1, ClassroomInvariant, PTL

\* An instructor of a cohort is never made a student of it (_apply_assignment).
THEOREM RoleAlwaysKept == Spec => RoleKept
<1>1. ClassInv /\ [Next]_vars =>
        [\A k \in Cohorts : enrolment[k].role = "instructor" => enrolment'[k].role = "instructor"]_rosterVars
  <2> SUFFICES ASSUME ClassInv, [Next]_vars, ~ UNCHANGED rosterVars
               PROVE  \A k \in Cohorts : enrolment[k].role = "instructor" => enrolment'[k].role = "instructor"
    OBVIOUS
  <2>1. CASE RosterNext  BY <2>1, RosterKept DEF ClassInv
  <2>2. CASE CurriculumNext \/ Schedule \/ Notify \/ Tick \/ UNCHANGED vars
    <3>1. UNCHANGED rosterVars
      <4>1. CASE CurriculumNext
        <5> USE DEF Curating, Reading
        <5>1. ASSUME NEW f \in Files, LoadCurriculum(f) PROVE UNCHANGED rosterVars
          BY <5>1 DEF LoadCurriculum
        <5>2. ASSUME NEW c \in Courses, Author(c) PROVE UNCHANGED rosterVars
          BY <5>2 DEF Author, CreateCourse, SetCourseStatus, ImportManual, UpsertChapter,
                      DeleteChapter
        <5>3. ASSUME NEW c \in Courses, CoursePage(c) PROVE UNCHANGED rosterVars
          BY <5>3 DEF CoursePage
        <5>4. ASSUME NEW c \in Courses, NEW n \in Numbers, Study(c, n)
              PROVE  UNCHANGED rosterVars
          BY <5>4 DEF Study, ChapterPage, SubtopicComplete, ToggleRead, Pass
        <5> QED  BY <4>1, <5>1, <5>2, <5>3, <5>4 DEF CurriculumNext
      <4>2. CASE Schedule \/ Notify
        <5>1. Outside  BY <4>2, ScheduleInv, NotifyInv DEF ClassInv
        <5> QED  BY <5>1 DEF Outside
      <4>3. CASE Tick \/ UNCHANGED vars  BY <4>3 DEF Tick, vars
      <4> QED  BY <2>2, <4>1, <4>2, <4>3
    <3> QED  BY <3>1
  <2> QED  BY <2>1, <2>2 DEF Next
<1> QED  BY <1>1, ClassroomInvariant, PTL DEF Spec, RoleKept

-----------------------------------------------------------------------------
(* What the pages agree on.                                                *)

LEMMA Windows ==
  ASSUME ClassInv, NEW k \in Cohorts, NEW c \in Courses
  PROVE  /\ now \in Nat
         /\ setup.starts[k][c] \in Nat \cup {Null} /\ setup.ends[k][c] \in Nat \cup {Null}
         /\ setup.due[k][c] \in Nat \cup {Null} /\ setup.access[k] \in Nat \cup {Null}
<1>1. setup \in Tables
  BY SetupsAssumption DEF ClassInv, RosterInv, Budgeted
<1>2. now \in Nat
  BY MaxTimeAssumption DEF ClassInv, StudyInv, CurriculumTypeOK
<1> QED  BY <1>1, <1>2 DEF Tables

LEMMA EntitledOffered ==
  ASSUME ClassInv, NEW k \in Cohorts, NEW c \in Entitled(k)
  PROVE  c \in Courses /\ k \in Offering(c)
<1>1. offered[k] \subseteq Courses
  BY DEF ClassInv, RosterInv, RosterTypeOK
<1> QED  BY <1>1 DEF Entitled, Offering

\* A visible course is locked exactly when the gate of the content routes finds
\* a course that is missing: a course held back by its track is locked until the
\* one before it.
LEMMA LockedIsUnmet ==
  ASSUME ClassInv, NEW c \in Visible
  PROVE  c \in Courses /\ (Locked(c) <=> Unmet(c) # {})
<1>1. PICK k \in Cohorts : c \in Entitled(k)
  BY DEF Visible
<1>2. c \in Courses  BY <1>1, EntitledOffered
<1>3. \A p \in LockedUntil(c) : p \in Courses /\ ~Done(p)
  BY DEF LockedUntil, Unfinished
<1>4. ASSUME Locked(c) PROVE Unmet(c) # {}
  BY <1>3, <1>4 DEF Locked, Unmet, Required
<1>5. ASSUME ~Locked(c) PROVE Unmet(c) = {}
  <2>1. CASE HeldByTrack(c)
    <3>1. PICK p \in Previous(k, c) : ~Done(p)
      BY <1>1, <2>1 DEF HeldByTrack, HeldBack
    <3>2. p \in Courses
      BY EntitledOffered DEF Previous
    <3>3. p \in LockedUntil(c)
      BY <1>1, <2>1, <3>1, <3>2 DEF LockedUntil
    <3> QED  BY <1>5, <3>3 DEF Locked
  <2>2. CASE ~HeldByTrack(c)
    BY <1>5, <2>2 DEF Locked, LockedUntil, Unfinished, Unmet, Required
  <2> QED  BY <2>1, <2>2
<1> QED  BY <1>2, <1>4, <1>5

\* Where one offering covers a visible course, its window decides.
LEMMA OneOffering ==
  ASSUME ClassInv, NEW c \in Visible, NEW k, Offering(c) = {k}
  PROVE  k \in Cohorts /\ c \in Entitled(k) /\ (c \in OpenIds <=> WindowOpen(k, c))
<1>1. \A o \in Cohorts : c \in Entitled(o) => o = k
  BY EntitledOffered
<1>2. \E o \in Cohorts : c \in Entitled(o)
  BY DEF Visible
<1>3. c \in Courses  BY LockedIsUnmet
<1> QED  BY <1>1, <1>2, <1>3 DEF OpenIds

LEMMA CardStates ==
  ASSUME NEW k, NEW c
  PROVE  /\ CardState(k, c) = "locked" <=> Locked(c)
         /\ CardState(k, c) = "upcoming" =>
              ~Locked(c) /\ setup.starts[k][c] # Null /\ setup.starts[k][c] > now
         /\ CardState(k, c) = "in_progress" =>
              /\ ~Locked(c)
              /\ ~(setup.starts[k][c] # Null /\ setup.starts[k][c] > now)
              /\ ~(Effective(k, c) # Null /\ Effective(k, c) < now)
  BY DEF CardState

LEMMA CardsOpen ==
  ASSUME ClassInv
  PROVE  CardOpens
<1> SUFFICES ASSUME NEW c \in Visible, NEW k, Offering(c) = {k}
             PROVE  /\ Banner(c) <=> CardState(k, c) = "locked"
                    /\ CardState(k, c) = "in_progress" => CourseOpen(c)
                    /\ CourseOpen(c) => CardState(k, c) \notin {"locked", "upcoming"}
  BY DEF CardOpens
<1>1. c \in Courses /\ (Locked(c) <=> Unmet(c) # {})
  BY LockedIsUnmet
<1>2. k \in Cohorts /\ (c \in OpenIds <=> WindowOpen(k, c))
  BY OneOffering
<1> DEFINE starts == setup.starts[k][c]
           ends == setup.ends[k][c]
           access == setup.access[k]
<1>3. /\ now \in Nat /\ Null = -1 /\ starts \in Nat \cup {Null}
      /\ ends \in Nat \cup {Null} /\ access \in Nat \cup {Null}
  BY <1>1, <1>2, Windows DEF Null
<1>4. WindowOpen(k, c) <=>
        (starts = Null \/ starts <= now) /\ (ends = Null \/ ends >= now \/ access >= now)
  BY DEF WindowOpen
<1>5. Effective(k, c) = IF access # Null /\ (ends = Null \/ access > ends) THEN access ELSE ends
  BY DEF Effective
<1>6. CourseOpen(c) <=> c \in OpenIds /\ Unmet(c) = {}
  BY DEF CourseOpen
<1> HIDE DEF starts, ends, access
<1>7. Banner(c) <=> CardState(k, c) = "locked"
  BY <1>1, CardStates DEF Banner
<1>8. ASSUME CardState(k, c) = "in_progress" PROVE CourseOpen(c)
  <2>1. /\ ~Locked(c) /\ ~(starts # Null /\ starts > now)
        /\ ~(Effective(k, c) # Null /\ Effective(k, c) < now)
    BY <1>8, CardStates DEF starts
  <2>2. WindowOpen(k, c)
    BY <1>3, <1>4, <1>5, <2>1
  <2> QED  BY <1>1, <1>2, <1>6, <2>1, <2>2
<1>9. ASSUME CourseOpen(c) PROVE CardState(k, c) \notin {"locked", "upcoming"}
  <2>1. starts = Null \/ starts <= now
    BY <1>2, <1>4, <1>6, <1>9
  <2>2. ~(starts # Null /\ starts > now)
    BY <1>3, <2>1
  <2> QED  BY <1>1, <1>6, <1>9, <2>2, CardStates DEF starts
<1> QED  BY <1>7, <1>8, <1>9

\* The last touch of some courses is one of theirs.
LEMMA LastOf ==
  ASSUME ClassInv, NEW S, Touches(S) # {}
  PROVE  \E i \in Touches(S) : LastTouch(S) = trail[i]
<1>1. /\ Len(trail) \in Nat /\ DOMAIN trail = 1 .. Len(trail)
  BY LenProperties DEF ClassInv, StudyInv, TrailKept
<1>2. Touches(S) \subseteq 1 .. Len(trail) /\ IsFiniteSet(1 .. Len(trail))
  BY <1>1, FS_Interval DEF Touches
<1>3. IsFiniteSet(Touches(S)) /\ Touches(S) \subseteq Nat
  BY <1>1, <1>2, FS_Subset
<1> DEFINE f == [i \in Touches(S) |-> i]
<1>4. PICK i \in Touches(S) : \A j \in Touches(S) : f[j] <= f[i]
  <2>1. f \in [Touches(S) -> Nat]  BY <1>3
  <2> HIDE DEF f
  <2> QED  BY <1>3, <2>1, Greatest
<1>5. \A j \in Touches(S) : j <= i
  BY <1>4
<1> QED  BY <1>5 DEF LastTouch

\* What is left of a course, when anything is, is a chapter of it.
LEMMA ResumePresent ==
  ASSUME NEW c, Resume(c) # 0
  PROVE  Present(c, Resume(c))
<1> DEFINE start == IF Touches({c}) = {} THEN 0 ELSE LastTouch({c})[3]
           left == {n \in Numbers : Present(c, n) /\ Incomplete(c, n)}
           ahead == {n \in left : n >= start}
           Least(S) == CHOOSE n \in S : \A m \in S : n <= m
<1>1. Resume(c) = IF ahead # {} THEN Least(ahead) ELSE IF left # {} THEN Least(left) ELSE 0
  BY DEF Resume
<1>2. left \subseteq Nat /\ ahead \subseteq left
  BY NumbersAssumption
<1>3. \A n \in left : Present(c, n)
  OBVIOUS
<1> HIDE DEF left, ahead
<1>4. ahead # {} => Least(ahead) \in ahead
  <2>1. ahead \subseteq Nat  BY <1>2
  <2> QED  BY <2>1, Smallest
<1>5. left # {} => Least(left) \in left
  BY <1>2, Smallest
<1> HIDE DEF Least
<1> QED  BY <1>1, <1>2, <1>3, <1>4, <1>5

LEMMA HomesAgree ==
  ASSUME ClassInv
  PROVE  HomeAgrees
<1> SUFFICES ASSUME ContinueAt # <<>>
             PROVE  /\ Present(ContinueAt[1], ContinueAt[2])
                    /\ CardChapter(ContinueAt[1]) = ContinueAt[2]
  BY DEF HomeAgrees
<1> DEFINE c == LastTouch(Visible)[2]
<1>1. Touches(Visible) # {} /\ Resume(c) # 0 /\ ContinueAt = <<c, Resume(c)>>
  BY DEF ContinueAt
<1>2. PICK i \in Touches(Visible) : LastTouch(Visible) = trail[i]
  BY <1>1, LastOf
<1>3. i \in Touches({c})
  BY <1>2 DEF Touches
<1> HIDE DEF c
<1>4. Touches({c}) # {}
  BY <1>3
<1>5. CardChapter(c) = Resume(c)
  BY <1>1, <1>4 DEF CardChapter
<1>6. Present(c, Resume(c))
  BY <1>1, ResumePresent
<1> QED  BY <1>1, <1>5, <1>6

\* A session that can be joined has not ended, and some such session is next.
LEMMA JoinsFound ==
  ASSUME ClassInv
  PROVE  JoinFound
<1> SUFFICES ASSUME NEW s \in Sessions, Mine(s), JoinIsOpen(s)
             PROVE  /\ Upcoming(s) /\ SessionPage(s)
                    /\ s \in CalendarSessions /\ s \in FeedEvents
                    /\ NextSession(session[s].cohort) # {}
  BY DEF JoinFound
<1>1. Upcoming(s) /\ SessionPage(s)
  BY DEF Upcoming, SessionPage, JoinIsOpen
<1>2. s \in CalendarSessions
  BY <1>1 DEF CalendarSessions, Upcoming, Mine, Active
<1>3. s \in FeedEvents
  BY <1>1 DEF FeedEvents, TodoSessions
<1>4. NextSession(session[s].cohort) # {}
  <2> DEFINE k == session[s].cohort
             coming == {o \in Sessions : Upcoming(o) /\ session[o].cohort = k}
             starts == {session[o].start : o \in coming}
  <2>1. \A o \in Sessions : session[o].start \in Nat
    BY MaxTimeAssumption DEF ClassInv, RoomInv, RoomTypes, Times
  <2>2. starts \subseteq Nat /\ starts # {}
    BY <1>1, <2>1
  <2>3. PICK n \in starts : \A m \in starts : n <= m
    <3> HIDE DEF starts
    <3> QED  BY <2>2, Smallest
  <2>4. PICK o \in coming : session[o].start = n
    BY <2>3
  <2>5. \A q \in coming : session[o].start <= session[q].start
    BY <2>3, <2>4
  <2>6. o \in NextSession(k)
    BY <2>4, <2>5 DEF NextSession
  <2> QED  BY <2>6
<1> QED  BY <1>1, <1>2, <1>3, <1>4

LEMMA DuesFound ==
  ASSUME ClassInv
  PROVE  DueFound
<1> SUFFICES ASSUME NEW c \in Accessible, NEW k \in Offering(c), enrolment[k].role = "student"
             PROVE  /\ CardState(k, c) = "upcoming" =>
                         /\ <<k, c>> \in CalendarWindows
                         /\ setup.starts[k][c] <= now + Horizon => <<k, c>> \in TodoWindows
                    /\ (setup.due[k][c] # Null /\ ~Done(c)) =>
                         /\ setup.due[k][c] <= now + Horizon => <<k, c>> \in FeedEvents
                         /\ setup.due[k][c] > now => <<k, c>> \in CalendarDue
                         /\ setup.due[k][c] < now => <<k, c>> \in TodoOverdue /\ Overdue(k, c)
  BY DEF DueFound
<1>1. k \in Cohorts /\ Active(k) /\ c \in offered[k]
  BY DEF Offering
<1>2. c \in Courses
  BY <1>1 DEF ClassInv, RosterInv, RosterTypeOK
<1>3. <<k, c>> \in Offerings
  BY <1>1, <1>2 DEF Offerings
<1>4. CardState(k, c) = "upcoming" =>
        /\ WindowAhead(<<k, c>>)
        /\ setup.starts[k][c] <= now + Horizon => WindowNear(<<k, c>>)
  BY CardStates DEF WindowAhead, WindowNear, Edges
<1>5. CardState(k, c) = "upcoming" =>
        /\ <<k, c>> \in CalendarWindows
        /\ setup.starts[k][c] <= now + Horizon => <<k, c>> \in TodoWindows
  BY <1>1, <1>3, <1>4 DEF CalendarWindows, TodoWindows
<1>6. DueAt(<<k, c>>) = setup.due[k][c]
  BY DEF DueAt
<1>7. ASSUME setup.due[k][c] # Null, ~Done(c)
      PROVE  /\ setup.due[k][c] <= now + Horizon => <<k, c>> \in FeedEvents
             /\ setup.due[k][c] > now => <<k, c>> \in CalendarDue
             /\ setup.due[k][c] < now => <<k, c>> \in TodoOverdue /\ Overdue(k, c)
  <2>1. setup.due[k][c] <= now + Horizon => <<k, c>> \in TodoDue
    BY <1>1, <1>3, <1>6, <1>7 DEF TodoDue
  <2>2. setup.due[k][c] < now => Overdue(k, c)
    BY <1>7 DEF Overdue, Due
  <2>3. setup.due[k][c] < now => setup.due[k][c] <= now + Horizon
    <3>1. setup.due[k][c] \in Int /\ now \in Nat
      BY <1>1, <1>2, SetupsAssumption, MaxTimeAssumption
      DEF ClassInv, RosterInv, Budgeted, StudyInv, CurriculumTypeOK, Tables, Null
    <3> QED  BY <3>1, LeadAssumption
  <2> QED  BY <1>3, <1>6, <2>1, <2>2, <2>3 DEF FeedEvents, CalendarDue, TodoOverdue
<1> QED  BY <1>5, <1>7

LEMMA NoticesFound ==
  ASSUME ClassInv
  PROVE  NoticeFound
  BY DEF ClassInv, RoomInv, NoticeSent, NoticeFound, Shown

\* The pages agree in every state: track and offerings, cards and content
\* routes, home and cards, sessions, deadlines and notices.
THEOREM PagesAlwaysAgree == Spec => []PagesAgree
<1>1. ClassInv => PagesAgree
  BY CardsOpen, HomesAgree, JoinsFound, DuesFound, NoticesFound
  DEF ClassInv, RosterInv, PagesAgree
<1> QED  BY <1>1, ClassroomInvariant, PTL

====
