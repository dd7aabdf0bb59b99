CONSTANTS
    t1 = t1
    t2 = t2
    en = en
    be = be
    None = None
    Tab <- Both
    Lang <- MCLang
    English = en
    Browser = en
    MaxBuild = 1
    NoPlot = NoPlot
    Charted <- One

SPECIFICATION PageSpec

INVARIANT PageTypeOK
INVARIANT NotOutdated
INVARIANT HiddenIsQuiet
INVARIANT ChartCurrent
PROPERTY ResumesPolling
