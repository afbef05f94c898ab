---- MODULE MCAuthCache ----
EXTENDS AuthCacheInvalidation

\* A creation; an update, seen by the triggers or not, and a deletion.
MCHistories == {<<0, 1>>, <<1, 3>>}
====
