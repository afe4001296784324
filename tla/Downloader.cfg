\* Two requests; the unset limit is negative, which means no limit, or one.
CONSTANTS
  Tasks = {t1, t2}
  Handles = {h1, h2}
  Limits <- MCLimits
  None = None
SPECIFICATION FairSpec
INVARIANTS TaskOutlivesUse
PROPERTIES EveryRequestAnswered
\* The downloader may be destroyed.
CHECK_DEADLOCK FALSE
