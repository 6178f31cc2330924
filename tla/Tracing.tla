------------------------------ MODULE Tracing ------------------------------
(***************************************************************************)
(* eden/common/telemetry/Tracing.h and Tracing.cpp: trace blocks write     *)
(* tracepoints into a ring of their thread; getAllTracepoints() flushes    *)
(* the rings one after the other while the threads go on, and a thread     *)
(* that ends flushes its own.  A tracepoint is its timestamp.              *)
(***************************************************************************)
EXTENDS Naturals, FiniteSets, SequencesExt

CONSTANTS
  Threads,
  kBufferPoints,   \* the size of a thread's ring
  MaxPoints        \* tracepoints that are ever written: a bound

VARIABLES
  enabled,         \* enabled_
  clock,           \* the last timestamp
  ring,            \* thread -> tracePoints_, what is written of it
  currNum,         \* thread -> currNum_
  alive,           \* the threads that have a ring
  written,         \* thread -> the tracepoints it has written, oldest first
  request,         \* thread -> TraceRequestData of its request: the block that is open
  blocks,          \* thread -> its open TraceBlocks, <<blockId, parentBlockId>>s
  toFlush,         \* the rings getAllTracepoints() has still to flush; Nobody between calls
  tracepoints,     \* tracepoints_
  returned         \* all that getAllTracepoints() has returned

tracingVars == <<enabled, clock, ring, currNum, alive, written, request, blocks, toFlush, tracepoints, returned>>

Nobody == {"nobody"}
NoBlock == 0

Init ==
  /\ enabled = FALSE /\ clock = 0 /\ alive = Threads
  /\ ring = [t \in Threads |-> [i \in 0..(kBufferPoints - 1) |-> 0]]
  /\ currNum = [t \in Threads |-> 0]
  /\ written = [t \in Threads |-> <<>>]
  /\ request = [t \in Threads |-> NoBlock] /\ blocks = [t \in Threads |-> <<>>]
  /\ toFlush = Nobody /\ tracepoints = <<>> /\ returned = <<>>

\* ThreadLocalTracePoints::trace(), under the lock of the thread's ring.
Trace(t) ==
  /\ clock < MaxPoints /\ clock' = clock + 1
  /\ ring' = [ring EXCEPT ![t][currNum[t] % kBufferPoints] = clock + 1]
  /\ currNum' = [currNum EXCEPT ![t] = @ + 1]
  /\ written' = [written EXCEPT ![t] = Append(@, clock + 1)]

Enable == enabled' = ~enabled /\ UNCHANGED <<clock, ring, currNum, alive, written, request, blocks, toFlush, tracepoints, returned>>

\* TraceBlock(): the block is named by the timestamp of its first tracepoint.
OpenBlock(t) ==
  /\ t \in alive /\ enabled
  /\ Trace(t)
  /\ blocks' = [blocks EXCEPT ![t] = Append(@, <<clock + 1, request[t]>>)]
  /\ request' = [request EXCEPT ![t] = clock + 1]
  /\ UNCHANGED <<enabled, alive, toFlush, tracepoints, returned>>

\* close() and the destructor, also when tracing was disabled meanwhile.
CloseBlock(t) ==
  /\ t \in alive /\ blocks[t] # <<>>
  /\ Trace(t)
  /\ request' = [request EXCEPT ![t] = Last(blocks[t])[2]]
  /\ blocks' = [blocks EXCEPT ![t] = Front(@)]
  /\ UNCHANGED <<enabled, alive, toFlush, tracepoints, returned>>

\* flush(), under both locks.
\* Mutant: the ring is copied, and its points stay in it.
Flushed_Kept(t) == currNum
Flushed(t) == [currNum EXCEPT ![t] = 0]

Points(t) == LET npoints == IF currNum[t] < kBufferPoints THEN currNum[t] ELSE kBufferPoints
             IN [i \in 1..npoints |-> ring[t][i - 1]]
Flush(t) == tracepoints' = tracepoints \o Points(t) /\ currNum' = Flushed(t)

\* A thread ends: its ring is flushed and gone.  accessAllThreads() keeps it waiting.
ThreadEnds(t) ==
  /\ t \in alive /\ blocks[t] = <<>> /\ toFlush \in {Nobody, {}}
  /\ Flush(t) /\ alive' = alive \ {t}
  /\ UNCHANGED <<enabled, clock, ring, written, request, blocks, toFlush, returned>>

StartGetAll ==
  /\ toFlush = Nobody
  /\ toFlush' = alive
  /\ UNCHANGED <<enabled, clock, ring, currNum, alive, written, request, blocks, tracepoints, returned>>

FlushOne(t) ==
  /\ toFlush # Nobody /\ t \in toFlush
  /\ Flush(t) /\ toFlush' = toFlush \ {t}
  /\ UNCHANGED <<enabled, clock, ring, alive, written, request, blocks, returned>>

\* std::sort() by timestamp.
Sorted(points) ==
  LET indices == 1..Len(points)
  IN {[i \in indices |-> points[order[i]]] :
        order \in {o \in Bijection(indices, indices) : \A i, j \in indices : i < j => points[o[i]] <= points[o[j]]}}

\* The sort, and what is left behind is empty.
FinishGetAll ==
  /\ toFlush = {}
  /\ \E sorted \in Sorted(tracepoints) : returned' = returned \o sorted
  /\ tracepoints' = <<>> /\ toFlush' = Nobody
  /\ UNCHANGED <<enabled, clock, ring, currNum, alive, written, request, blocks>>

Next ==
  \/ Enable \/ StartGetAll \/ FinishGetAll
  \/ \E t \in Threads : OpenBlock(t) \/ CloseBlock(t) \/ ThreadEnds(t) \/ FlushOne(t)

Spec == Init /\ [][Next]_tracingVars

-----------------------------------------------------------------------------
\* Tracing.cpp:13-36, Tracing.h:63-80: while threads write, end and are flushed one by one, each
\* tracepoint is in its ring, on its way or returned, exactly once, unless it was
\* overwritten by kBufferPoints later ones of its thread; and what is returned of one
\* thread is in the order of time.  A new block's parent is the innermost open block.
TracepointsOnce ==
  LET collected == tracepoints \o returned
      kept == UNION {Range(Points(t)) : t \in Threads}
      lost == {i \in 1..clock : i \notin Range(collected) \cup kept}
  IN /\ IsInjective(collected) /\ Range(collected) \cap kept = {}
     /\ \A t \in Threads : \A i \in 1..Len(written[t]) :
          written[t][i] \in lost => Len(written[t]) >= i + kBufferPoints
     /\ \A t \in Threads : \A i, j \in 1..Len(returned) :
          i < j /\ {returned[i], returned[j]} \subseteq Range(written[t]) => returned[i] < returned[j]
     /\ \A t \in Threads : request[t] = IF blocks[t] = <<>> THEN NoBlock ELSE Last(blocks[t])[1]
=============================================================================
