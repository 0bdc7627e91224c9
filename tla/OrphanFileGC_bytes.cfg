SPECIFICATION MCSpec
CONSTANTS
    Files = {1, 2, 3}  Copies = {2, 3}  Doomed = {1} Images = {} e1 = e1
    Legacy = Legacy  Archived = Archived  Null = Null
    Commodities = {e1}  Areas = {e1}
    Requests = {p1}  Restores = {r1}  Purgers = {d1}  Collectors = {c1}  Generators = {}
    PageSize = 2  RowBudget = 2  ThumbBudget = 1
    Kept = {}  Poison = {}  MaxRestarts = 0
ACTION_CONSTRAINT EitherStep
INVARIANTS TypeOK BytesOfLiveFiles LastOwnerTakesTheBlob
CHECK_DEADLOCK FALSE
