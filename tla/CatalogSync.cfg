SPECIFICATION Spec
CONSTANTS
    col = col  met = met col2 = col2  e1 = e1  e2 = e2  w1 = w1  w2 = w2
    Columns <- TwoColumns
    Metrics <- OneMetric
    Contents <- TestContents
    Editors <- TwoEditors
    Workers <- TwoWorkers
    Saying <- TestSaying
    Imports <- TestImports
    MaxVersion = 2
    MaxEdits = 2
    MaxRevision = 2
    MaxTrouble = 1
INVARIANTS
    SettledIndexAgrees
    VectorsOfTheirModel
SYMMETRY Permutable
CHECK_DEADLOCK FALSE
