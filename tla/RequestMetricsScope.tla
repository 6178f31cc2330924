------------------------ MODULE RequestMetricsScope ------------------------
(***************************************************************************)
(* eden/common/telemetry/RequestMetricsScope.cpp: scopes put a stop watch  *)
(* into a shared list while a request runs; the metrics are the length of  *)
(* the list and the time on the watch at its front.                        *)
(***************************************************************************)
EXTENDS Naturals, Sequences

CONSTANTS
  Scopes,      \* the RequestMetricsScope objects
  NoWatch,     \* pendingRequestWatches_ is nullptr
  MaxWatches   \* watches that are ever started: a bound

VARIABLES
  started,     \* the watches started so far are 1..started, in the order of time
  starting,    \* scope -> the watch its constructor has started and not inserted yet
  watches,     \* the list
  scope        \* scope -> requestWatch_, or NoWatch

metricVars == <<started, starting, watches, scope>>

Init ==
  /\ started = 0 /\ watches = <<>>
  /\ starting = [s \in Scopes |-> NoWatch]
  /\ scope = [s \in Scopes |-> NoWatch]

Free(s) == scope[s] = NoWatch /\ starting[s] = NoWatch

\* The constructor starts the watch, then takes the lock and appends it.
StartWatch(s) ==
  /\ Free(s) /\ started < MaxWatches
  /\ started' = started + 1 /\ starting' = [starting EXCEPT ![s] = started + 1]
  /\ UNCHANGED <<watches, scope>>

InsertWatch(s) ==
  /\ starting[s] # NoWatch
  /\ watches' = Append(watches, starting[s])
  /\ scope' = [scope EXCEPT ![s] = starting[s]]
  /\ starting' = [starting EXCEPT ![s] = NoWatch]
  /\ UNCHANGED <<started>>

\* The move constructor and operator=, which does not look at what it overwrites.
Moved(from, to) == [[scope EXCEPT ![from] = NoWatch] EXCEPT ![to] = scope[from]]

Move(from, to) ==
  /\ from # to /\ scope[from] # NoWatch /\ starting[to] = NoWatch
  /\ scope' = Moved(from, to)
  /\ UNCHANGED <<started, starting, watches>>

\* reset() and the destructor: erase by iterator.
Reset(s) ==
  /\ scope[s] # NoWatch
  /\ watches' = SelectSeq(watches, LAMBDA w : w # scope[s])
  /\ scope' = [scope EXCEPT ![s] = NoWatch]
  /\ UNCHANGED <<started, starting>>

Next == \E s \in Scopes : StartWatch(s) \/ InsertWatch(s) \/ Reset(s) \/ \E to \in Scopes : Move(s, to)
Spec == Init /\ [][Next]_metricVars

\* The watch that getMaxDuration() reads.
MaxDurationWatch == Head(watches)

-----------------------------------------------------------------------------
\* RequestMetricsScope.cpp:129-131: "By virtue of enqueuing new watches at the end of the list, the
\* front will always be the watch that has been in the list the longest, ie: the one with
\* the max duration."
FrontIsLongest == watches # <<>> => \A i \in 1..Len(watches) : MaxDurationWatch <= watches[i]
=============================================================================
