CONSTANTS
    Files = {1, 2, 3}
    Series = {11, 12}
    Library = {1}
    Uncapturable = {}
    Backfills = {b1}
    BatchSizes = {1, 2}
    MaxRecords = 2
    SeriesOf <- MCSeriesOf
SPECIFICATION Spec
INVARIANT LoopNeverWaitsForItself
