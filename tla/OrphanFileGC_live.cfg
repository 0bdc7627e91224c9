SPECIFICATION SweepSpec
CONSTANTS
    Files = {1, 2, 3, 4}  Copies = {4}  Doomed = {} Images = {3} e1 = e1
    Legacy = Legacy  Archived = Archived  Null = Null
    Commodities = {e1}  Areas = {}
    Requests = {}  Restores = {r1}  Purgers = {}  Collectors = {c1}  Generators = {g1}
    PageSize = 1  RowBudget = 1  ThumbBudget = 1
    Kept = {1}  Poison = {2}  MaxRestarts = 1
PROPERTIES OrphansAreCollected ThumbnailsAreCollected
CHECK_DEADLOCK FALSE
