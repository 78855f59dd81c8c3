SPECIFICATION Spec
CONSTANTS
    Blank = Blank  Garbled = Garbled  NoProduct = NoProduct  NoChannel = NoChannel
    NoDate = NoDate  NoMonth = NoMonth  NoVersion = NoVersion  NoJob = NoJob
    s1 = s1  s2 = s2  s3 = s3  t1 = t1  t2 = t2  k1 = k1  k2 = k2
    jan = jan  janFix = janFix  feb = feb
    unstorable = unstorable  unbalanced = unbalanced
    sales = sales  shipments = shipments  lee = lee  web = web
    Thread = {t1, t2}
    Sku = {s1, s2, s3}
    Date = {1, 2}
    Product = {1, 2}
    Fine = 10
    Source = {jan, janFix, feb, unstorable, unbalanced, sales, shipments}
    KindOf <- MCKindOf
    ContentOf <- MCContentOf
    Key = {k1, k2}
    Masters <- MCMasters
    CycleMonth = 3
    MaxVersions = 2
    MaxRevisions = 2
SYMMETRY Symmetric
INVARIANTS DataTypeOK ImportsAddUp RepeatsOverlap ResultsSayWhatSourcesSay
PROPERTIES LockedLotsAreFrozen
CHECK_DEADLOCK FALSE
