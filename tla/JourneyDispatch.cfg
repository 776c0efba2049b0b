SPECIFICATION Spec
CONSTANTS
  j1 = j1
  j2 = j2
  l1 = l1
  l2 = l2
  u1 = u1
  u2 = u2
  t1 = t1
  t2 = t2
  r1 = r1
  r2 = r2
  c1 = c1
  c2 = c2
  b1 = b1
  b2 = b2
  NoUser = NoUser
  NoTouch = NoTouch
  NoJourney = NoJourney
  Nobody = Nobody
  Journeys = {j1}
  Leads = {l1}
  Users = {u1}
  LeadOf <- MCSameLead
  StepCount = 2
  Delay <- MCDelay
  JitterMinutes = 1
  DayLength = 2
  OpenSlots = {1}
  BatchSize = 1
  Verdicts = {"send", "skip", "template_required"}
  Ticks = {t1, t2}
  Replies = {}
  Controls = {c1}
  Bulks = {}
  ExitActions = 2
  MaxCommands = 2
  ReplyActions = 1
  MaxTime = 4
  MaxFaults = 1
INVARIANTS
  EverySendAccounted
  AttemptsMatchProgress
  StuckOnlyByCommand
  SentIsLogged
  ExitActionsInOrder
  ExhaustedAfterActions
PROPERTIES
  TouchOnlyWhileRunning
