\* One customer, three messages, two stores, one failed call or restart.
SPECIFICATION FairSpec
CONSTANTS
  MaxMessages = 3
  MaxPending = 2
  c1 = c1
  Customer = {c1}
  Nobody = Nobody
  Store = {1, 2}
  Changing = {2}
  Input <- MCInput
  NamePrefix <- OnePrefix
  Configured = {1}
  Default = 1
  SessionTTL = 1
  DirectoryTTL = 0
  MaxClock = 2
  MaxChanges = 1
  MaxLost = 1
PROPERTIES AnswersAreCurrent 
CHECK_DEADLOCK FALSE
