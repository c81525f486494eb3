----------------------------- MODULE ScrapeRange -----------------------------
(***************************************************************************)
(* scrapeRangeValidation.js: which pairs of dates a scrape may be asked    *)
(* for, and which days of a range the legacy table already holds.  A date  *)
(* is the number of its local day; what is no date is Blank or Malformed.  *)
(***************************************************************************)
EXTENDS Integers, FiniteSets

CONSTANTS Blank, Malformed,
          Today, MaxRangeDays   \* SCRAPE_MAX_RANGE_DAYS; future dates are refused

NoDate == {Blank, Malformed}

\* Calendar days from one date to the other, both included, in either order.
DaySpan(from, to) == (IF from <= to THEN to - from ELSE from - to) + 1

RangeOk(from, to) ==
  /\ from \notin NoDate /\ to \notin NoDate
  /\ from <= Today /\ to <= Today
  /\ DaySpan(from, to) <= MaxRangeDays

Days(from, to) == IF from <= to THEN from..to ELSE to..from

\* getRangeScrapeCoverage, over the days that have rows.
FullyScraped(from, to, scraped) == Days(from, to) \subseteq scraped
=============================================================================
