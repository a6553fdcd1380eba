SPECIFICATION QuerySpec
CONSTANTS
    Records <- TableRecords
    NumKeyElems = 2
    Skeys <- TableSkeys
    Plans <- QueryPlans
INVARIANTS TypeOK EntriesPointToRows AckedIffComplete AckedUnique RowsQualify
PROPERTIES AnswersAreExact CallsReturn
