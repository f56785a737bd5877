--------------------------- MODULE MCAutoActivities ---------------------------
\* Time and Status are those of AutoActivities; the sets of rows and of keys are
\* constants of the tables, so they are written out here.
EXTENDS AutoActivities

Dates == {t \div DayLength : t \in 0 .. MaxTime}
MCStateRow == [account : Account, slot : Dates, status : {"running", "failed", "completed"}, at : 0 .. MaxTime]
MCDedupeKey == [account : Account, kind : {"failed", "completed"}, date : Dates]
=============================================================================
