-------------------------- MODULE MCOverflowRetry --------------------------
EXTENDS OverflowRetry

\* The schedule of the code is <<4, 2, 1, 0>>.
ShortSchedule == <<2, 1, 0>>
=============================================================================
