-------------------------------- MODULE Sweeps --------------------------------
(***************************************************************************)
(* The sweeps of InterfacePollTask, HealthPollTask and L2DiscoveryTask.    *)
(* The scheduler fires a thread every interval; a sweep that has not ended *)
(* makes the next one skip its turn.  A sweep hands its devices to a pool  *)
(* of worker threads, made anew each time, that ask through SnmpAgent.     *)
(*                                                                         *)
(* pysnmp needs an asyncio loop in the calling thread.  get keeps an       *)
(* engine per thread, bound to the loop it was made on, and a lost answer  *)
(* is noticed by a timer of that loop; bulk_walk makes an engine per call. *)
(***************************************************************************)
EXTENDS FiniteSets, Naturals

CONSTANTS
  Firings,   \* threads of the scheduler that may be in run() at a time
  Workers,   \* max_workers
  Devices,   \* the eligible switches
  NGets,     \* how often a device is asked with get
  MaxCalls   \* _ENGINE_MAX_CALLS

ASSUME SweepsAssumption ==
  /\ Firings # {} /\ Workers # {} /\ "free" \notin Firings
  /\ NGets \in Nat /\ MaxCalls \in Nat \ {0}

VARIABLES
  task,      \* which of the three; only health uses get
  holder,    \* the firing that holds _running, or "free"
  firing,    \* per firing: where it is in run()
  queue,     \* devices no worker has taken yet
  done,      \* devices the last sweep is through with
  worker     \* per worker: what it does, and its thread-local loop and engine

sweepVars == <<task, holder, firing, queue, done, worker>>

\* A thread of the pool, as it is made.
Fresh == [step |-> "idle", gets |-> 0, loop |-> FALSE, engine |-> "none", calls |-> 0]

\* mutant: no guard.
MaySweep == holder = "free" \/ holder # "free"

\* _running.acquire(blocking=False)
Acquires == holder = "free"

\* The interval has passed: run(), and it skips its turn or goes on.
SkipTurn(f) ==
  /\ firing[f] = "out"
  /\ ~Acquires
  /\ UNCHANGED sweepVars

Fire(f) ==
  /\ firing[f] = "out"
  /\ Acquires
  /\ holder' = f
  /\ firing' = [firing EXCEPT ![f] = "select"]
  /\ UNCHANGED <<task, queue, done, worker>>

\* eligible(): it may raise, for state.switches can change under it.
Select(f) ==
  /\ firing[f] = "select"
  /\ firing' = [firing EXCEPT ![f] = "pool"]
  /\ queue' = Devices
  /\ done' = {}
  /\ worker' = [w \in Workers |-> Fresh]
  /\ UNCHANGED <<task, holder>>

\* mutant: the lock is released on the way out, but not by an exception.
ReleaseUnlessRaised(f, raised) == IF raised THEN holder ELSE "free"

\* finally: _running.release()
Release(f, raised) == "free"

SelectRaises(f) ==
  /\ firing[f] = "select"
  /\ firing' = [firing EXCEPT ![f] = "out"]
  /\ holder' = Release(f, TRUE)
  /\ UNCHANGED <<task, queue, done, worker>>

\* All workers are through: the pool is shut down.
EndSweep(f) ==
  /\ firing[f] = "pool"
  /\ queue = {}
  /\ \A w \in Workers : worker[w].step = "idle"
  /\ firing' = [firing EXCEPT ![f] = "out"]
  /\ holder' = Release(f, FALSE)
  /\ UNCHANGED <<task, queue, done, worker>>

\* _poll_one, _discover_one
TakeDevice(w) ==
  /\ \E f \in Firings : firing[f] = "pool"
  /\ worker[w].step = "idle"
  /\ \E d \in queue : queue' = queue \ {d}
  /\ worker' = [worker EXCEPT ![w].step = "ask",
                              ![w].gets = IF task = "health" THEN NGets ELSE 0]
  /\ UNCHANGED <<task, holder, firing, done>>

\* _get_engine makes a new engine, on the loop of the moment.
NewEngine(w) == worker[w].engine = "none" \/ worker[w].calls >= MaxCalls

\* get; _ensure_thread_event_loop gives a loop to a thread without one.
Get(w) ==
  /\ worker[w].step = "ask" /\ worker[w].gets > 0
  /\ worker' = [worker EXCEPT ![w] =
       [step |-> "get", gets |-> @.gets - 1, loop |-> TRUE,
        engine |-> IF NewEngine(w) THEN "bound" ELSE @.engine,
        calls |-> IF NewEngine(w) THEN 1 ELSE @.calls + 1]]
  /\ UNCHANGED <<task, holder, firing, queue, done>>

\* An answer, or an error.
Answer(w) ==
  /\ worker[w].step = "get"
  /\ worker' = [worker EXCEPT ![w].step = "ask"]
  /\ UNCHANGED <<task, holder, firing, queue, done>>

\* The answer is lost.  The timer of a closed loop never fires.
AnswerLost(w) ==
  /\ worker[w].step = "get"
  /\ worker' = [worker EXCEPT ![w].step = IF worker[w].engine = "bound" THEN "ask" ELSE "hung"]
  /\ UNCHANGED <<task, holder, firing, queue, done>>

\* bulk_walk: an engine of its own on the loop of the thread, closed in any case.
Walk(w) ==
  /\ worker[w].step = "ask" /\ worker[w].gets = 0
  /\ worker' = [worker EXCEPT ![w].step = "clean", ![w].loop = TRUE]
  /\ UNCHANGED <<task, holder, firing, queue, done>>

\* mutant: the loop is closed, and the engine kept.
KeptEngine(w) == IF worker[w].engine = "none" THEN "none" ELSE "stale"

\* The finally of _poll_one: the health poll drops its engine before it closes the
\* loop; the other tasks have none to drop.
EngineAfter(w) == IF task = "health" \/ worker[w].engine = "none" THEN "none" ELSE "stale"

CleanUp(w) ==
  /\ worker[w].step = "clean"
  /\ worker' = [worker EXCEPT ![w] =
       [step |-> "idle", gets |-> 0, loop |-> FALSE, engine |-> EngineAfter(w),
        calls |-> IF EngineAfter(w) = "none" THEN 0 ELSE @.calls]]
  /\ \E d \in Devices \ (queue \union done) : done' = done \union {d}
  /\ UNCHANGED <<task, holder, firing, queue>>

SweepsInit ==
  /\ task \in {"interfaces", "health", "l2"}
  /\ holder = "free"
  /\ firing = [f \in Firings |-> "out"]
  /\ queue = {}
  /\ done = {}
  /\ worker = [w \in Workers |-> Fresh]

AnyFire == \E f \in Firings : Fire(f)
AnySelect == \E f \in Firings : Select(f)

\* What the threads of a sweep do without waiting for anyone.
SweepStep ==
  \/ \E f \in Firings : EndSweep(f)
  \/ \E w \in Workers : TakeDevice(w) \/ Get(w) \/ Answer(w) \/ Walk(w) \/ CleanUp(w)

SweepsNext ==
  \/ AnyFire \/ AnySelect \/ SweepStep
  \/ \E f \in Firings : SkipTurn(f) \/ SelectRaises(f)
  \/ \E w \in Workers : AnswerLost(w)

SweepsSpec == SweepsInit /\ [][SweepsNext]_sweepVars

\* The scheduler goes on firing, eligible() does not raise every time, and threads
\* are scheduled; an answer may be lost every time.
SweepsFairness ==
  /\ WF_sweepVars(AnyFire) /\ SF_sweepVars(AnySelect)
  /\ WF_sweepVars(SweepStep \/ \E w \in Workers : AnswerLost(w))

\* Never do two sweeps of a task share the network: whoever is past the guard holds it.
OneSweepAtATime == \A f \in Firings : firing[f] # "out" => holder = f

\* A worker asks with an engine whose loop is its own and open, so that no call can
\* wait for ever, after whatever devices it had before.
NoCallHangs ==
  \A w \in Workers : worker[w].step = "get" => worker[w].engine = "bound"

\* Sweeps of a task take turns, and none of their workers can wait for ever.
SweepsAreOrderly == OneSweepAtATime /\ NoCallHangs

\* Sweeps come to their end again and again, with every device asked.
SweepsGoOn == []<>(holder = "free" /\ done = Devices)
===============================================================================
