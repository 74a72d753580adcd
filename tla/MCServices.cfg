SPECIFICATION Spec
CONSTANT Readers = {u1, u2}
CONSTANT Grants = {"tenant", "branch"}
CONSTANT MaxVersion = 2
CONSTANT NoAnswer = NoAnswer
CONSTANT Clients = {c1, c2, c3}
CONSTANT MaxLoginAttempts = 3
CONSTANT MaxPublicRequests = 2
CONSTANT MaxUncounted = 1
CONSTANT Mails = {"verify", "invitation", "invitation again"}
CONSTANT KeyOf <- MCKeyOf
CONSTANT FinalDelivery = 2
CONSTANT MaxDeaths = 2
CONSTANT Requests = {1, 2, 3}
CONSTANT OldSessions = {s1, s2}
CONSTANT Operations <- MCOperations
CONSTANT OldPassword = p0
CONSTANT None = None
INVARIANT AnswersAreAsNewAsTheirLabel
INVARIANT LimitBoundsAttempts
INVARIANT MailedOnceOrLost
INVARIANT LiveSessionsKnowThePassword
INVARIANT OneLiveToken
PROPERTY ChangeReplacesWhatItProved
