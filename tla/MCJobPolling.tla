---- MODULE MCJobPolling ----
\* One job followed by a tab that is opened, hidden, shown, closed and opened again.
EXTENDS JobPolling
CONSTANTS t1, j1
MCTab == {t1}
MCJob == {j1}
====
