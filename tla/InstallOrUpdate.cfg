SPECIFICATION Spec

INVARIANT NoSendOnClosed

\* installOrUpdate returns and liqoctl ends: the final states have no
\* successor.
CHECK_DEADLOCK FALSE
