SPECIFICATION Spec
CONSTANTS
    None = None  NoJob = NoJob
    ch = ch  ra = ra  rb = rb  cu = cu  cv = cv  cw = cw  cx = cx  sk = sk  sl = sl  sm = sm  t1 = t1  t2 = t2  excel = excel
    web = web  ann = ann  bob = bob  acme = acme  zen = zen  tea = tea  green = green
    north = north
    Batch = {ch, ra, rb, cu, cv, cw, cx, sk, sl, sm}
    Thread = {t1, t2}
    TypeOf <- MCTypeOf
    SystemOf <- MCSystemOf
    RowsOf <- MCRowsOf
    Manual <- MCManual
    Switched <- MCSwitched
    Patches <- MCPatches
    Unasked <- MCUnasked
    MaxVersion = 2
    Together <- MCTogether
    Follows <- MCFollows
SYMMETRY Symmetric
INVARIANTS BootstrapTypeOK MastersSayWhatRowsSay
PROPERTIES EndedStaysEnded
CHECK_DEADLOCK FALSE
