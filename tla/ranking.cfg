\* Two users, three products, one with two spellings, four actions over three days.
SPECIFICATION Spec
CONSTANTS
    u1 = u1
    u2 = u2
    Users = {u1, u2}
    Types = {"save", "view"}
    Texts <- MCTexts
    Cast <- MCCast
    Category <- MCCategory
    GptRanked <- MCRanked
    HistoryDays = 1
    PopularDays = 0
    ListLimit = 2
    SimilarLimit = 1
    StoredLimit = 3
    MaxActions = 4
    MaxDay = 2
SYMMETRY Symmetry
INVARIANTS TypeOK MoreSourcesFirst
PROPERTIES HistoryFollowsActions PopularNeverSinks FeedFollowsActions
CHECK_DEADLOCK FALSE
