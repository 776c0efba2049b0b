SPECIFICATION Spec
CONSTANTS
  j1 = j1
  j2 = j2
  l1 = l1
  l2 = l2
  u1 = u1
  u2 = u2
  t1 = t1
  t2 = t2
  r1 = r1
  r2 = r2
  c1 = c1
  c2 = c2
  b1 = b1
  b2 = b2
  NoUser = NoUser
  NoTouch = NoTouch
  NoJourney = NoJourney
  Nobody = Nobody
  Journeys = {j1, j2}
  Leads = {l1, l2}
  Users = {u1, u2}
  LeadOf <- MCLeadOf
  StepCount = 1
  Delay <- MCNoDelay
  JitterMinutes = 0
  DayLength = 1
  OpenSlots = {0}
  BatchSize = 1
  Verdicts = {"send"}
  Ticks = {t1}
  Replies = {r1, r2}
  Controls = {}
  Bulks = {b1}
  ExitActions = 0
  MaxCommands = 2
  ReplyActions = 1
  MaxTime = 0
  MaxFaults = 0
INVARIANTS
  TypeOK
  OpenTransactions
  ReasonExplainsError
  OnReplyAtMostOnce
PROPERTIES
  ImplementsLifecycle
