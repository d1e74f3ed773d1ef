----------------------- MODULE MCNotificationDispatch -----------------------
(* Two notifications, of one user or of two: a mail holds one row, a batch   *)
(* one or two, so that rows wait for the next run, and for the rows before.  *)
EXTENDS NotificationDispatch
=============================================================================
