\* Two messages, one work branch.
CONSTANTS
  m1 = m1
  m2 = m2
  main = main
  feat = feat
  vine = vine
  first = first
  second_ = second_
  gone = gone
  Messages = {m1, m2}
  Branches = {main, feat}
  Trunk = main
  Documented = {feat}
  Project = vine
  Listings <- MCListings
  OnDisk = {first, second_}
  Callers = {"tech_lead", "deploy_engineer"}
  Requests = {None, 5}
  Default = 3
  Cap = 3
  Hosts <- MCHosts
  None = None
SPECIFICATION DeliveryFairSpec
INVARIANTS
  PrOfCheckedBranch
PROPERTIES
  DeliveryEnds
