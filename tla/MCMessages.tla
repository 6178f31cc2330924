----------------------------- MODULE MCMessages -----------------------------
(***************************************************************************)
(* The two components that carry messages through a bounded channel, for   *)
(* TLC: the logger with its child's pipe, and FutureUnixSocket with the    *)
(* stream under it.  The initial state chooses the one that runs.  The     *)
(* other rests in its initial state.                                       *)
(***************************************************************************)
EXTENDS SubprocessScribeLogger, FutureUnixSocket

VARIABLE part

\* Empty, with data, with more files than one sendmsg() takes, too large for the
\* receiver, and too large for the header.
ModelKinds ==
  {[data |-> 0, files |-> 0], [data |-> 2, files |-> 1], [data |-> 1, files |-> 3],
   [data |-> 3, files |-> 0], [data |-> 4, files |-> 0]}

MessagesInit == part \in {"SubprocessScribeLogger", "FutureUnixSocket"} /\ LoggerInit /\ Init

MessagesNext ==
  /\ UNCHANGED part
  /\ IF part = "SubprocessScribeLogger" THEN LoggerNext ELSE UNCHANGED loggerVars
  /\ IF part = "FutureUnixSocket" THEN Next ELSE UNCHANGED vars

\* The fairness of LoggerFairSpec and Spec, for the one that runs.
Logs(A) == part = "SubprocessScribeLogger" /\ A
MessagesFairness ==
  /\ WF_loggerVars(Logs(WriterStep))
  /\ WF_loggerVars(Logs(DestroyNotify)) /\ WF_loggerVars(Logs(DestroyJoin)) /\ WF_loggerVars(Logs(ProcessExited))
  /\ WF_loggerVars(Logs(CloseParentFd)) /\ WF_loggerVars(Logs(DestroyFlush))
  /\ SF_loggerVars(Logs(DestroyFlushTimeout))
  /\ WF_loggerVars(Logs(WaitExitTimeout)) /\ WF_loggerVars(Logs(WaitTermTimeout))
  /\ \A l \in Loggers : WF_loggerVars(Logs(LogNotify(l)))
  /\ WF_vars(part = "FutureUnixSocket" /\ FailOne) /\ WF_vars(part = "FutureUnixSocket" /\ ReceiveTimeout)

MessagesSpec == MessagesInit /\ [][MessagesNext]_<<part, loggerVars, vars>> /\ MessagesFairness
=============================================================================
