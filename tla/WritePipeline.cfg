\* Two writes of one admin, whose wallet may go away: to the boundary checks
\* that is the same as a wallet on another account.
SPECIFICATION FairSpec
CONSTANTS
  None = None
  Writes = {w1, w2}
  Accounts = {admin}
  Admin = admin
  MaxAuth = 1
  Window = 1
  MaxPolls = 1
  MaxRetries = 1
  MaxTime = 2
  MaxSequence = 1
INVARIANT TypeOK
INVARIANT HistoryAccounts
PROPERTY ReviewIsCurrent
PROPERTY OutcomesPromised
PROPERTY NeverHangs
