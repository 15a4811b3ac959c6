SPECIFICATION FairSpec
CONSTANTS
  k1 = k1
  k2 = k2
  t1 = t1
  r1 = r1
  r2 = r2
  s1 = s1
  s2 = s2
  a1 = a1
  a2 = a2
  x = x
  y = y
  h = h
  g = g
  net = net
  sec = sec
  Cohorts = {k1, k2}
  NoCohort = NoCohort
  Courses = {1, 2, 3}
  Tracks = {t1}
  NoTrack = NoTrack
  Requests = {r1, r2}
  Numbers = {1, 2}
  Texts = {x, y}
  NoText = NoText
  Headings <- Chapters
  Discipline <- Subjects
  Files <- Programmes
  Manuals <- Books
  Setups <- Scenarios
  MaxTime = 3
  Sessions = {s1}
  Announcements = {a1, a2}
  Everyone = Everyone
  Lead = 1
  Horizon = 1
CHECK_DEADLOCK FALSE
INVARIANT TypeOK
INVARIANT PagesAgree
PROPERTY RoleKept
PROPERTY TrackFinishes
