SPECIFICATION FairSpec
CONSTANTS
    d1 = d1
    d2 = d2
    d3 = d3
    DaysInYear = 2
    TaxDay = 1
    FirstYearEnd = 2
    DefaultPayrollYears = 1
    maxPayrollYears = 2
    Years = {3, 4}
    Invoices <- MCInvoices
    Unrenderable = {d1}
    RenderLimit = 2
    FirstDay = 6
    LastDay = 7
    MaxPeriods = 2
    MaxChanges = 2
    MaxFaults = 1
INVARIANTS
    TypeOK
    NeverPassesForNewer
PROPERTIES
    SnapshotsFollow
    FinishedMeansWhole
    EventuallyComplete
