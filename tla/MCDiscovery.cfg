CONSTANTS
    Files = {1, 2, 3, 4}
    Series = {11, 12}
    Library = {1, 2, 3}
    Uncapturable = {2}
    Backfills = {b1}
    BatchSizes = {0, 1, 2}
    MaxRecords = 2
    SeriesOf <- MCSeriesOf
SPECIFICATION Spec
INVARIANTS NothingPassedBy OneRowPerFile CursorHonest
PROPERTY BackfillComplete
