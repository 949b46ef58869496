----------------------------- MODULE Scheduler ------------------------------
(***************************************************************************)
(* savvy_scheduler/libscheduler.c: jobs ordered by one of six schemes.     *)
(* The priority queue is a library: it orders a job once, by what the      *)
(* comparison sees when the job is offered, and polls one of the least.    *)
(* Arrive, Tick and the choice of the moment at which a quantum expires    *)
(* are the caller's.                                                       *)
(***************************************************************************)
EXTENDS Naturals, FiniteSets, FiniteSetsExt, Functions

CONSTANTS Jobs,
          priority, runtime,     \* priority[j], runtime[j] of scheduler_info
          Schemes,               \* schemes scheduler_start_up is called with
          MaxTime                \* bound: the time of the last arrival

ASSUME SchedAssumption == \A j \in Jobs : priority[j] \in Nat /\ runtime[j] \in Nat \ {0}

VARIABLES pqueue_scheme, now,
          info,        \* info[j]: the job's metadata
          pqueue,      \* the offered jobs, each with its key when offered
          running,     \* {} or the set of the job that runs
          finished,    \* jobs done
          total_wait_time, total_turnaround_time, total_response_time,
          cpu, waited, firstRun     \* ghosts: what each job really got

schedVars == <<pqueue_scheme, now, info, pqueue, running, finished, total_wait_time,
               total_turnaround_time, total_response_time, cpu, waited, firstRun>>

SchedInit ==    \* scheduler_start_up
    /\ pqueue_scheme \in Schemes
    /\ now = 0
    /\ info = [j \in Jobs |-> [arrival |-> 0, start |-> 0, rr |-> 0, used |-> 0]]
    /\ pqueue = {} /\ running = {} /\ finished = {}
    /\ total_wait_time = 0 /\ total_turnaround_time = 0 /\ total_response_time = 0
    /\ cpu = [j \in Jobs |-> 0]
    /\ waited = [j \in Jobs |-> 0]
    /\ firstRun = [j \in Jobs |-> 0]

(* The comparison functions: a job precedes another if its key is smaller; *)
(* all but round robin break ties by arrival.                              *)
Key(j, m) ==
    CASE pqueue_scheme = "FCFS"             -> <<m.arrival, 0>>
      [] pqueue_scheme \in {"PRI", "PPRI"}  -> <<priority[j], m.arrival>>
      [] pqueue_scheme = "PSRTF"            -> <<runtime[j] - m.used, m.arrival>>
      [] pqueue_scheme = "SJF"              -> <<runtime[j], m.arrival>>
      [] pqueue_scheme = "RR"               -> <<m.rr, 0>>

Less(a, b) == a[1] < b[1] \/ (a[1] = b[1] /\ a[2] < b[2])

Offer(q, j, m) == q \cup {[job |-> j, key |-> Key(j, m)]}
Least(q) == {e \in q : \A f \in q : ~Less(f.key, e.key)}

Queued    == {e.job : e \in pqueue}
Preemptive == pqueue_scheme \in {"PPRI", "PSRTF", "RR"}

scheduler_new_job(j) ==
    /\ j \notin Queued \cup running \cup finished
    /\ now <= MaxTime
    /\ LET m == [arrival |-> now, start |-> 0, rr |-> 0, used |-> 0] IN
       /\ info' = [info EXCEPT ![j] = m]
       /\ pqueue' = Offer(pqueue, j, m)
    /\ UNCHANGED <<pqueue_scheme, now, running, finished, total_wait_time,
                   total_turnaround_time, total_response_time, cpu, waited, firstRun>>

(* The next job is polled from q and starts its turn. *)
Dispatch(q, inf) ==
    \/ /\ q = {}
       /\ info' = inf /\ pqueue' = q /\ running' = {} /\ UNCHANGED firstRun
    \/ \E e \in Least(q) :
          LET j == e.job IN
          /\ info' = [inf EXCEPT ![j].start = IF inf[j].used = 0 THEN now ELSE @,
                                 ![j].rr = now]
          /\ pqueue' = q \ {e}
          /\ running' = {j}
          /\ firstRun' = IF cpu[j] = 0 THEN [firstRun EXCEPT ![j] = now] ELSE firstRun

EvictedUncharged(j) == info    \* mutant: the quantum is not added
Evicted(j) == [info EXCEPT ![j].used = @ + (now - info[j].rr)]

scheduler_quantum_expired ==
    /\ \/ /\ Preemptive /\ running # {}
          /\ \E j \in running : Dispatch(Offer(pqueue, j, Evicted(j)[j]), Evicted(j))
       \/ /\ running = {}
          /\ Dispatch(pqueue, info)
       \/ /\ ~Preemptive /\ running # {}      \* the job goes on
          /\ UNCHANGED <<info, pqueue, running, firstRun>>
    /\ UNCHANGED <<pqueue_scheme, now, finished, total_wait_time,
                   total_turnaround_time, total_response_time, cpu, waited>>

scheduler_job_finished(j) ==
    /\ j \in running
    /\ cpu[j] = runtime[j]
    /\ info' = [info EXCEPT ![j].used = @ + (now - info[j].rr)]
    /\ total_response_time' = total_response_time + (info[j].start - info[j].arrival)
    /\ total_turnaround_time' = total_turnaround_time + (now - info[j].arrival)
    /\ total_wait_time' = total_wait_time + (now - info[j].arrival - runtime[j])
    /\ finished' = finished \cup {j}
    /\ running' = {}
    /\ UNCHANGED <<pqueue_scheme, now, pqueue, cpu, waited, firstRun>>

(* Time passes: the running job works, the queued ones wait. *)
Tick ==
    /\ running # {} \/ Queued = {}
    /\ running = {} => now < MaxTime
    /\ \A j \in running : cpu[j] < runtime[j]
    /\ now' = now + 1
    /\ cpu' = [j \in Jobs |-> IF j \in running THEN cpu[j] + 1 ELSE cpu[j]]
    /\ waited' = [j \in Jobs |-> IF j \in Queued THEN waited[j] + 1 ELSE waited[j]]
    /\ UNCHANGED <<pqueue_scheme, info, pqueue, running, finished, total_wait_time,
                   total_turnaround_time, total_response_time, firstRun>>

SchedNext ==
    \/ \E j \in Jobs : scheduler_new_job(j) \/ scheduler_job_finished(j)
    \/ scheduler_quantum_expired
    \/ Tick

SchedSpec == SchedInit /\ [][SchedNext]_schedVars

-----------------------------------------------------------------------------
(* Whatever quanta and arrivals interleave: a queued job's key never       *)
(* changes under the library's queue, no waiting job precedes the one a    *)
(* non-round-robin preemptive scheme has just chosen, and the bookkeeping  *)
(* by arrival_time, start_time, used_time and rr_time agrees with the time *)
(* each job really waited, first ran and ran.                              *)
BooksAgree ==
    /\ \A e \in pqueue : e.key = Key(e.job, info[e.job]) /\ info[e.job].used = cpu[e.job]
    /\ \A j \in running : info[j].used + (now - info[j].rr) = cpu[j] /\ info[j].start = firstRun[j]
    /\ \A j \in running \cup Queued : now - info[j].arrival = waited[j] + cpu[j]
    /\ \A j \in finished : info[j].used = runtime[j]
    /\ \A j \in running, e \in pqueue :
          pqueue_scheme \in {"PPRI", "PSRTF"} /\ info[j].rr = now /\ info[e.job].arrival < now
              => ~Less(e.key, Key(j, info[j]))

(* The totals sum up what each finished job waited until it first ran, all *)
(* in all, and until it was done.                                          *)
TotalsAgree ==
    /\ total_wait_time = SumFunctionOnSet(waited, finished)
    /\ total_turnaround_time = total_wait_time + SumFunctionOnSet(runtime, finished)
    /\ total_response_time = SumFunctionOnSet([j \in Jobs |-> firstRun[j] - info[j].arrival], finished)

(* The scheduler's accounts are those of the time that really passed.      *)
ScheduleAccounts == BooksAgree /\ TotalsAgree
=============================================================================
