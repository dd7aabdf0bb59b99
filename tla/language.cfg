CONSTANTS
    t1 = t1
    t2 = t2
    en = en
    be = be
    None = None
    Tab <- One
    Lang <- MCLang
    English = en
    Browser = en
    MaxBuild = 0
    NoPlot = NoPlot
    Charted = {}

SPECIFICATION PageSpec

INVARIANT RowsInSelectedLanguage
