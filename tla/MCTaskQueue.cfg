\* One task and one file, two workers, two concurrent requests.
SPECIFICATION Spec
CONSTANTS
  t1 = t1
  r1 = r1
  client = client
  w1 = w1
  w2 = w2
  ok = ok
  h1 = h1
  h2 = h2
  None = None
  Tasks = {t1}
  Refs = {r1}
  Users <- MCUsers
  Submitters <- MCSubmitters
  Processors <- MCProcessors
  Viewers <- MCUsers
  Managers = {}
  Graders = {}
  Public = {}
  Outcomes = {ok}
  Handlers = {h1, h2}
  Concurency = 1
  MaxResult = 2
SYMMETRY Symmetry
INVARIANTS TypeOK ResultByAssignee AnsweredWaitsOnlyIfLate
PROPERTY ImplementsLifecycle
