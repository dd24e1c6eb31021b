--------------------------- MODULE MCGCommBackend ---------------------------
EXTENDS GCommBackend

\* A message that fits the smallest buffer and one that does not; a view
\* needs the larger buffer.  The self-leave and error messages fit every
\* buffer, as an empty component message fits gcs's receive buffer.
MCMsgSizes == {1, 2}
MCViewSize == 2
MCLeaveSize == 1
MCBufLens == {1, 2}
MCMaxMsgs == 3
MCAllFaults == {"transport_error", "thread_create_fail", "close_throws",
               "sched_restore"}
MCCallerFaults == {"transport_error", "sched_restore"}
=============================================================================
