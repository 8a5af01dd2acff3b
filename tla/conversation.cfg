CONSTANTS
  h1 = h1
  h2 = h2
  ask = ask
  confirm = confirm
  cancel = cancel
  Bot = "tech_lead"
  Handlers = {h1, h2}
  Msgs = {ask, confirm, cancel}
  Text <- Keywords
  Mentioned = {ask, confirm}
  Timeout = 1
  Ttl = 2
  MaxDeliveries = 3
  MaxActions = 1

SPECIFICATION FairSpec

INVARIANTS
  AnsweredOnce
  ConfirmedActionRuns

PROPERTIES
  HandlerFinishes

CHECK_DEADLOCK FALSE
