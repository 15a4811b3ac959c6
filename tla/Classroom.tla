------------------------------- MODULE Classroom -------------------------------
(***************************************************************************)
(* The timetable and the notices of the cohorts of Roster and Curriculum:  *)
(* class sessions and the pages that show them to the learner (timetable,  *)
(* calendar, To-Do and its feed), announcements with their notifications,  *)
(* and the audience an enrolment is classified for.                        *)
(*                                                                         *)
(* Simplified: the To-Do's buckets are its overdue and its coming rows;    *)
(* the calendar and the announcements are taken before their cuts at fifty *)
(* and twenty entries; each request here is one step.                      *)
(***************************************************************************)
EXTENDS Curriculum

CONSTANTS
  Sessions, Announcements,
  Everyone,     \* the target of an announcement to all cohorts
  Lead,         \* how long before its start a session may be joined
  Horizon       \* how far ahead the To-Do looks: WINDOW_HORIZON_DAYS, month_end

ASSUME LeadAssumption == Lead \in Nat /\ Horizon \in Nat
ASSUME EveryoneAssumption == Everyone \notin Cohorts

VARIABLES
  session,        \* [Sessions -> cohort, status, start, end and link]
  mode,           \* [Cohorts -> delivery mode]
  announcement,   \* [Announcements -> target, "none" or "deleted"]
  notice,         \* [Announcements -> the learner's notification]
  audience        \* [Cohorts -> classification of the learner's row]

roomVars == <<session, mode, announcement, notice, audience>>
vars == <<setup, budget, status, now, rosterVars, courseVars, roomVars>>

RoomActs ==
  {"session", "edit session", "cancel", "mode", "announce", "delete", "mark", "classify", "tick"}
Acts == RosterActs \cup CurriculumActs \cup RoomActs

\* The tables that an instance may start with: their columns; no role where
\* there is no row; no course in a track that is not made; an offering for each
\* course of one that is.
Tables ==
  LET Moments == Nat \cup {Null}
  IN [budget : [Acts -> Nat], enrolment : [Cohorts -> Row],
      track : [Tracks -> [cohort : Cohorts \cup {NoCohort}, seat : [Courses -> Nat]]],
      offered : [Cohorts -> SUBSET Courses], requires : SUBSET (Courses \X Courses),
      status : [Courses -> {"absent", "draft", "published", "completed"}],
      text : [Courses -> [Numbers -> Texts \cup {NoText}]],
      activities : [Courses -> SUBSET Numbers],
      starts : [Cohorts -> [Courses -> Moments]], ends : [Cohorts -> [Courses -> Moments]],
      due : [Cohorts -> [Courses -> Moments]], access : [Cohorts -> Moments]]

ASSUME SetupsAssumption ==
  \A s \in Setups :
    /\ s \in Tables
    /\ \A k \in Cohorts : s.enrolment[k].status = "none" <=> s.enrolment[k].role = "none"
    /\ \A t \in Tracks, c \in Courses :
         s.track[t].seat[c] > 0 =>
           s.track[t].cohort \in Cohorts /\ c \in s.offered[s.track[t].cohort]

Times == 0 .. MaxTime
NoSession == [cohort |-> NoCohort, status |-> "none", start |-> 0, end |-> Null, link |-> FALSE]

\* The timetable's changes touch nothing outside this module.
Outside == UNCHANGED <<setup, status, now, rosterVars, courseVars>>

-----------------------------------------------------------------------------
(* The timetable.                                                          *)

WellTimed(start, end) == end = Null \/ end > start

\* A cohort that was self-paced is blended from its first session on.
CreateSession(s, k, start, end, link) ==
  /\ session[s] = NoSession /\ WellTimed(start, end) /\ Spend("session")
  /\ session' = [session EXCEPT ![s] =
       [cohort |-> k, status |-> "scheduled", start |-> start, end |-> end, link |-> link]]
  /\ mode' = [mode EXCEPT ![k] = IF @ = "self_paced" THEN "blended" ELSE @]
  /\ UNCHANGED <<announcement, notice, audience>> /\ Outside

\* The form sends every field; it does not move the status.
UpdateSession(s, start, end, link) ==
  /\ session[s] # NoSession /\ WellTimed(start, end) /\ Spend("edit session")
  /\ session' = [session EXCEPT ![s] = [@ EXCEPT !.start = start, !.end = end, !.link = link]]
  /\ UNCHANGED <<mode, announcement, notice, audience>> /\ Outside

CancelSession(s) ==
  /\ session[s] # NoSession /\ Spend("cancel")
  /\ session' = [session EXCEPT ![s].status = "cancelled"]
  /\ UNCHANGED <<mode, announcement, notice, audience>> /\ Outside

SetDeliveryMode(k, m) ==
  /\ mode[k] # m /\ Spend("mode")
  /\ mode' = [mode EXCEPT ![k] = m]
  /\ UNCHANGED <<session, announcement, notice, audience>> /\ Outside

Ended(s) == (IF session[s].end = Null THEN session[s].start ELSE session[s].end) < now
Mine(s) == session[s] # NoSession /\ Active(session[s].cohort)

\* Mutant: a session leaves the timetable when it starts.
Upcoming_NotStarted(s) == Mine(s) /\ session[s].status = "scheduled" /\ session[s].start >= now

\* list_for_person: a session stays upcoming until it ends.
Upcoming(s) == Mine(s) /\ session[s].status = "scheduled" /\ ~Ended(s)

\* get_session_for_person: the detail page.
SessionPage(s) == Mine(s)

JoinIsOpen(s) ==
  /\ session[s].link /\ session[s].status = "scheduled"
  /\ session[s].start <= now + Lead /\ ~Ended(s)

\* The dashboard's next session of a cohort; equal starts are left open.
NextSession(k) ==
  {s \in Sessions : /\ Upcoming(s) /\ session[s].cohort = k
                    /\ \A o \in Sessions : Upcoming(o) /\ session[o].cohort = k
                         => session[s].start <= session[o].start}

-----------------------------------------------------------------------------
(* Calendar, To-Do and feed.                                               *)

Offerings == {o \in Cohorts \X Courses : o[2] \in offered[o[1]]}
DueAt(o) == setup.due[o[1]][o[2]]
Edges(o) == {setup.starts[o[1]][o[2]], setup.ends[o[1]][o[2]]}
WindowAhead(o) == \E at \in Edges(o) : at > now
WindowNear(o) == \E at \in Edges(o) : at > now /\ at <= now + Horizon

\* The calendar takes the sessions of every enrolment, whatever its state,
\* and the windows and deadlines of every offering of an accessible course.
CalendarSessions ==
  {s \in Sessions : /\ session[s] # NoSession /\ enrolment[session[s].cohort].status # "none"
                    /\ session[s].status = "scheduled" /\ ~Ended(s)}
CalendarDue == {o \in Offerings : o[2] \in Accessible /\ DueAt(o) > now}
CalendarWindows == {o \in Offerings : o[2] \in Accessible /\ WindowAhead(o)}

\* The To-Do takes the offerings of a student's active enrolments, and leaves
\* out what is passed and what lies beyond its horizon.
TodoDue ==
  {o \in Offerings : /\ Active(o[1]) /\ enrolment[o[1]].role = "student"
                     /\ DueAt(o) # Null /\ DueAt(o) <= now + Horizon /\ ~Done(o[2])}
TodoOverdue == {o \in TodoDue : DueAt(o) < now}
TodoWindows == {o \in Offerings : Active(o[1]) /\ WindowNear(o)}
TodoSessions == {s \in Sessions : Upcoming(s)}

\* The subscribed calendar flattens the To-Do.
FeedEvents == TodoSessions \cup TodoDue

-----------------------------------------------------------------------------
(* Announcements, notifications, audience.                                 *)

\* The students of the cohort, or everybody who is active in some cohort.
Addressed(target) ==
  IF target = Everyone THEN \E k \in Cohorts : Active(k)
  ELSE Active(target) /\ enrolment[target].role = "student"

\* The notifications are written in a savepoint, and their failure is
\* swallowed.
Announce(a, target, delivered) ==
  /\ announcement[a] = "none" /\ Spend("announce")
  /\ announcement' = [announcement EXCEPT ![a] = target]
  /\ notice' = [notice EXCEPT ![a] = IF Addressed(target) /\ delivered THEN "unread" ELSE @]
  /\ UNCHANGED <<session, mode, audience>> /\ Outside

DeleteAnnouncement(a) ==
  /\ announcement[a] \notin {"none", "deleted"} /\ Spend("delete")
  /\ announcement' = [announcement EXCEPT ![a] = "deleted"]
  /\ UNCHANGED <<session, mode, notice, audience>> /\ Outside

\* for_person: the announcements page.
Shown(a) ==
  \/ announcement[a] = Everyone
  \/ announcement[a] \in Cohorts /\ Active(announcement[a])

Unread == {a \in Announcements : notice[a] = "unread"}

MarkAllRead ==
  /\ Unread # {} /\ Spend("mark")
  /\ notice' = [a \in Announcements |-> IF a \in Unread THEN "read" ELSE notice[a]]
  /\ UNCHANGED <<session, mode, announcement, audience>> /\ Outside

\* classify_from_roster, with a roster that names the learner or does not:
\* without the explicit flag, whoever is not on it keeps what he has.
Classify(onRoster, restExternal) ==
  /\ Spend("classify")
  /\ audience' = [k \in Cohorts |->
       IF ~(Active(k) /\ enrolment[k].role = "student") THEN audience[k]
       ELSE IF onRoster THEN "staff"
       ELSE IF restExternal THEN "external" ELSE audience[k]]
  /\ UNCHANGED <<session, mode, announcement, notice>> /\ Outside

-----------------------------------------------------------------------------

Tick ==
  /\ now < MaxTime /\ now' = now + 1 /\ Spend("tick")
  /\ UNCHANGED <<setup, status, rosterVars, courseVars, roomVars>>

Init ==
  /\ RosterInit /\ CurriculumInit
  /\ session = [s \in Sessions |-> NoSession] /\ mode = [k \in Cohorts |-> "self_paced"]
  /\ announcement = [a \in Announcements |-> "none"]
  /\ notice = [a \in Announcements |-> "none"]
  /\ audience = [k \in Cohorts |-> "null"]

Schedule ==
  \/ \E s \in Sessions, start \in Times, end \in Times \cup {Null}, link \in BOOLEAN :
       UpdateSession(s, start, end, link) \/ \E k \in Cohorts : CreateSession(s, k, start, end, link)
  \/ \E s \in Sessions : CancelSession(s)
  \/ \E k \in Cohorts, m \in {"self_paced", "live", "blended"} : SetDeliveryMode(k, m)

Notify ==
  \/ \E a \in Announcements :
       DeleteAnnouncement(a)
       \/ \E target \in Cohorts \cup {Everyone}, delivered \in BOOLEAN : Announce(a, target, delivered)
  \/ MarkAllRead
  \/ \E onRoster, restExternal \in BOOLEAN : Classify(onRoster, restExternal)

Next ==
  \/ RosterNext /\ UNCHANGED <<now, courseVars, roomVars>>
  \/ CurriculumNext /\ UNCHANGED roomVars
  \/ Schedule \/ Notify \/ Tick

\* An open request ends, and a learner who can submit work in an open course
\* goes on until he passes.
Fairness ==
  /\ \A r \in Requests : WF_vars(Commit(r) /\ UNCHANGED <<now, courseVars, roomVars>>)
  /\ \A c \in Courses, n \in Numbers : WF_vars(Pass(c, n) /\ UNCHANGED roomVars)

Spec == Init /\ [][Next]_vars
FairSpec == Spec /\ Fairness

-----------------------------------------------------------------------------
(* Properties.                                                             *)

\* Every variable keeps its type.
TypeOK ==
  /\ budget \in [Acts -> Nat]
  /\ RosterTypeOK /\ CurriculumTypeOK
  /\ session \in [Sessions -> [cohort : Cohorts \cup {NoCohort}, start : Times,
                               status : {"none", "scheduled", "cancelled"},
                               end : Times \cup {Null}, link : BOOLEAN]]
  /\ mode \in [Cohorts -> {"self_paced", "live", "blended"}]
  /\ announcement \in [Announcements -> Cohorts \cup {Everyone, "none", "deleted"}]
  /\ notice \in [Announcements -> {"none", "unread", "read"}]
  /\ audience \in [Cohorts -> {"null", "staff", "external"}]

\* A session that can be joined now is found on every page that lists the
\* learner's sessions, and its page opens (agenda: "otherwise a live class
\* vanishes from the calendar at the exact moment the learner needs the Join").
JoinFound ==
  \A s \in Sessions :
    (Mine(s) /\ JoinIsOpen(s)) =>
      /\ Upcoming(s) /\ SessionPage(s)
      /\ s \in CalendarSessions /\ s \in FeedEvents /\ NextSession(session[s].cohort) # {}

\* A student's deadline in an unlocked course of one cohort stands in the To-Do
\* from its horizon on, in the calendar while it is ahead, and on the progress
\* page once it is past; a course whose card says upcoming has its opening in
\* the calendar, and in the To-Do from the horizon on.
DueFound ==
  \A c \in Accessible : \A k \in Offering(c) :
    (Offering(c) = {k} /\ enrolment[k].role = "student") =>
      /\ CardState(k, c) = "upcoming" =>
           /\ <<k, c>> \in CalendarWindows
           /\ setup.starts[k][c] <= now + Horizon => <<k, c>> \in TodoWindows
      /\ (setup.due[k][c] # Null /\ ~Done(c)) =>
           /\ setup.due[k][c] <= now + Horizon => <<k, c>> \in FeedEvents
           /\ setup.due[k][c] > now => <<k, c>> \in CalendarDue
           /\ setup.due[k][c] < now => <<k, c>> \in TodoOverdue /\ Overdue(k, c)

\* A notification is of an announcement that the learner can read, until it is
\* deleted or he leaves the cohort.
NoticeFound ==
  \A a \in Unread :
    Shown(a) \/ announcement[a] = "deleted" \/ (announcement[a] \in Cohorts /\ ~Active(announcement[a]))

\* The pages, derived apart from the same rows, tell the learner one thing.
PagesAgree == TrackOffered /\ CardOpens /\ HomeAgrees /\ JoinFound /\ DueFound /\ NoticeFound

=============================================================================
