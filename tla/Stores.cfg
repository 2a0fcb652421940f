\* Two calls at once on one toolset; one step run again at will; two
\* calls on two accounts, two Matrix identities and two codes; two logins
\* of one account; two calls on one row, on two tokens; two replicas of one Matrix account.
CONSTANTS
    None = None
    Calls = {c1, c2}
    Definitions = {d1, d2, d3}
    Reserved = {d3}
    Labels = {l1}
    Contents = {x, y}
    MaxRows = 2
    MaxWrites = 2
    Users = {alice, bob}
    Mxids = {m1, m2}
    MaxCodes = 2
    MaxLiveCodes = 1
    AttemptLimit = 2
    Groups = {g1, g2}
    Subjects = {alice, bob}
    Declarations <- FourDeclarations
    MaxIds = 1
    Holders = {alice, bob}
    Secrets = {v1}
    MaxTokens = 3
    Processes = {p1, p2}
    MaxLogins = 2
    MaxRotations = 3
SPECIFICATION Spec
SYMMETRY Symmetry
INVARIANTS StoresTypeOK AnswersFitTheirCall CodeSpentOnce LinksProven
INVARIANTS GroupsFromClaims SavedSessionServes
PROPERTIES RedoneOnlyAfterLoss PromotesOnlyItsDraft NoTakeover AnswersEarned RowsKeepTheirOwner TokensKeepTheirHolder
