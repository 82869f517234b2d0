SPECIFICATION Spec
CONSTANTS
    bill = bill
    contact = contact
    t1 = t1
    t2 = t2
    a1 = a1
    currency = currency
    sales = sales
    bank = bank
    Rec = {bill, contact, t1, t2}
    Att = {a1}
    Foreign = {currency}
    Refs <- MCRefs
    Txn = {t1, t2}
    Codes = {sales, bank}
    Code <- MCCode
    Value <- MCValue
    Day <- MCDay
    Balances <- MCBalances
    Windows <- MCWindows
    MaxCommits = 2
    MaxFaults = 1
INVARIANTS
    TypeOK
    NoStandingGap
