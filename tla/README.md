# swdiag in TLA+

swdiag (Software Diagnostics) is a C library that a program links to diagnose
itself. The program registers *tests* (polled by the library, or notified by
the program), *rules* that judge their results, *actions* that recover, and
*components* that contain them; the library runs the tests on a schedule,
passes results through the rules, finds the root cause among failing rules and
runs its actions. `src/server` wraps the library in a daemon with a web page.

These modules model the concurrent core of the library. Line numbers refer to
the files of `src/`; `PROJECT.json` maps each definition to its lines.

## Inventory

| Part | Files | State | Operations | Talks to |
|---|---|---|---|---|
| Thread pool | `swdiag_thread.c` | free, executing and pending lists; per thread `job`, `quit` | request, the threads' loop, kill, terminate | OS layer (wait/release), lists; called by the sequencer |
| Scheduler | `swdiag_sched.c` | five queues of tests, `next_time` and `queued` of each test, one timer, one thread | add, remove, immediate, check of the queues, timer expiry, start/kill, recovery | sequencer (starts tests), object DB lock |
| Sequencer | `swdiag_sequence.c` | the job contexts; rule counters and histories; health | events of tests, rules, actions; rule operators; health | thread pool, scheduler, RCI, user functions |
| Root cause identification (RCI) | `swdiag_rci.c` | dependency graph, loop domains, root cause states | add a dependency, run for a rule's result, rule deleted | scheduler (immediate tests), sequencer (actions) |
| Object database | `swdiag_obj.c` | objects, instances, rule links, containment, `freeme` list | create, link, unlink, delete, collect | everything; the DB lock |
| Client API | `swdiag_api.c` | states set by the API | about 80 entry points | object DB, scheduler, sequencer, RCI |
| CLI | `swdiag_cli_local.c` | states and periods set by hand, display handles | enable, disable, default, periods, displays | API |
| List utility | `swdiag_util.c` | linked lists with a lock each | push, pop, insert, remove | all |
| OS layer | `swdiag_posix.c`, `swdiag_xos.h` | `work_to_do` per thread, timers, mutexes | wait, release, timer start | pthreads |
| Not modelled | trace, syslog, RPC and platform glue, server, utilities, vendored code | | | |

What is hard, and what correctness means, part by part (every hazard with its
line is in `PROJECT.json`):

* **Thread pool.** A request pops a free thread, sets its job, releases it and
  only then puts it on the executing list, while the thread already runs; the
  pending list is looked at in one step and pushed on in another; the teardown
  frees the lists under everyone. Correct: a job runs at most once, a job that
  was accepted runs, a free thread really is free, a stopped thread exits.
* **Scheduler.** API calls, results, root cause requests, timer expiries and
  the scheduler thread each move tests and restart one timer; test functions
  run without the lock, and what was true when they began may not be when they
  return. Correct: queues and records agree, no wake-up is lost, an enabled
  test is never forgotten, a disabled one does not come back, an autopass comes.
* **Sequencer.** Notifications become jobs that may overtake each other; rules
  and actions validate only their own instance after the lock is retaken; the
  N-in-M history is sized once. Correct: a rule fails iff its operator says so
  for the results it saw, and health is the sum of what its parts report.
* **RCI.** Loops are excluded by domains that are joined as trees meet;
  results change while the walk goes on. Correct: the graph is acyclic, and one
  root cause is found for a set of failing rules.
* **Object database.** Forward references, rules linked through one
  `next_in_input` each, deletion while in use. Correct: links agree in both
  directions; nothing referenced is freed; a forward reference is completed.
* **API and CLI.** A test's state has three sources, set and withdrawn in any
  order. Correct: the CLI's wins, and withdrawing it restores the other.

## Plan

Modules in the order in which they are written, each family with a Props, an
MC and, where theorems are worth it, a proofs module:

1. `ThreadPool`, with the abstract `JobPool` it implements: done.
2. `Scheduler`, over a pool abstracted to "runs each job": done.
3. `ObjectTree` and `Dependencies`: objects, containment, dependencies and the
   domains that check them for loops: done.
4. `Rci`: the search for root causes over a graph without loops, with the
   scheduler reduced to where a rule's test is: done.
5. `RuleOps`, `RuleLinks`, `RuleChain`: the operators, the links between tests
   and rules, and the way of a result along them: done.
6. Left: `ObjLifecycle`, the `freeme` queue with CLI handles and member
   instances ("nothing freed is referenced"); `States`, enable, disable and
   default of every type of object, as a function of the three requests;
   `SchedStop` and `SchedTime`, termination and recovery of the scheduler, and
   the arithmetic of seconds and nanoseconds; the composition of `Scheduler`
   with `ThreadPool` and of `Rci` with `RuleChain`.

## Modules

| Module | Is |
|---|---|
| `ThreadPool` | the pool: requesters, worker threads, teardown |
| `JobPool` | what the pool promises: a job waits, is on one thread, or is over |
| `ThreadPoolProps` | its properties, the inductive invariant `IInv`, the refinement mapping |
| `ThreadPool_proofs` | theorems about it |
| `ThreadPoolRefinement_proofs` | theorem: it implements `JobPool` |
| `MCThreadPool` | names for its model values |
| `Scheduler` | the scheduler with its callers and the jobs that come back to it |
| `SchedulerProps` | its properties and the inductive invariant `IInv` |
| `QueueFacts` | lemmas on minima, on counting up to a number and on the sequence operators |
| `Scheduler_proofs` | theorems about the scheduler |
| `MCScheduler` | values for its constants |
| `ObjectTree` | the object database as a value: operators that create, link, contain and delete |
| `Dependencies` | the calls that shape it, and the dependencies with their loop check |
| `DependenciesProps`, `Dependencies_proofs`, `MCDependencies` | its properties, theorems and values |
| `Rci` | root cause identification with the tests, rules and actions around it |
| `RciProps`, `MCRci` | its properties and values |
| `Rci_proofs` | theorems: what is named fails and is lowest |
| `RciSessions_proofs` | theorems about sessions: none loses its culprit, leaves a rule named above a failure, or waits for itself |
| `RuleOps` | what an operator makes of a result, and what the rule remembers of it |
| `RuleLinks` | links between tests and rules as a value: operators that create, feed, leave and delete |
| `RuleChain` | the calls on tests and rules, and the sequencer that carries a result along the links |
| `RuleChainProps`, `RuleChain_proofs`, `MCRuleChain` | its properties, theorems and values |

Definitions that a comment calls a mutant are faulty variants of the definition
after them; they are used by no specification and show that a property notices.

### ThreadPool

One action is one list call or one access to a thread's record, because each
list has its own lock and nothing else is held for sure: in the library most
requests, and the beginning of each job, hold the object DB lock
(`DbLocked`), but the teardown (`MayStop`) does not. A requester goes
through `pop`, `assign`, `release`, `push` or `defer` (`swdiag_thread_request`
425-465); a thread through `wait`, `loop`, `call`, `execute`, `next`, `remove`,
`enter` and, told to quit, `exit` and `gone` (`thread_main` 154-221);
`swdiag_thread_terminate` through closing and freeing the two thread lists and
draining the pending one. `swdiag_thread_kill` takes no lock, so that it is three
steps (`Kill`: the job cleared, `quit` set, the thread released), of a
requester (`KillPopped`) or of the teardown (`KillVictim`), between which the
thread goes on. A thread that is gone has freed its record. `work_to_do` is the
flag of `swdiag_xos_thread_wait` and `_release`. A list pointer is good,
dangling between its being freed and being cleared, or NULL; an access to a
dangling list, the record of a thread that is gone or a NULL job ends the behaviour in
`fault`, since nothing can be said of what follows. A job is a model value and
is requested once: nothing in the pool depends on its contents.

### Scheduler

Everything that happens under the DB lock is one action: a call, a check of the
queues, each part of a job between two user functions. Only a call on a whole
object is an action for each of its instances: the base instance in the call
itself (`OnObject`), each member in a step of its own (`Continue`), while `loop`
says what is left and keeps all other users of the lock out; time and the
timer, which need no lock, go on. `due[t]` is the time
left until `next_time`, `timer` the time left on the timer, and `Tick` advances
both. A test counts as due when the clock is strictly past `next_time`, and the
timer is padded by a tenth of a second so that this holds when it expires; in
the model both are "0 left". The clock is taken to advance between two
readings, so that a test put on the immediate queue is due at once.

`AddTest`, `RemoveTest` and `TestImmediate` are the three operations
(`swdiag_sched.c` 375-649), `TimerAfter` and `WakeAfter` the effect of
`check_test_start_timer` that ends each of them, `CheckQueues` the whole check:
its loop takes due heads queue by queue, which leaves each queue without its due
prefix. The calls of the API and the CLI compute the instance's state from
`state`, `default_state` and `cli_state`, and then call these: `ReadyInstance`,
`EnableInstance`, `DisableInstance`, `DefaultInstance`, `PeriodInstance`,
`DeleteInstance` and `ForgetInstance` are what each does to one instance.
`Base` gives the base instance of the object an instance belongs to; the members
of an object share its type and its period. Making a test ready schedules its
instances only if the base instance is then enabled (`swdiag_api.c:868`). A name
used before it is created is a forward reference: a test is then `ABSENT` with
what was asked for noted, an instance `INITIALIZED`.
`jobs` counts the jobs handed to the pool by kind; a job is taken
(`RunTest`, `TakeResult`, `FeedBack`) in any order, as pool threads do.
`Collect` is the garbage collector, which waits for the `in_use` count that
jobs and running functions keep.

The model starts where `swdiag_sched_init` has returned with no test in the
database.

### ObjectTree and Dependencies

A call of the API holds the DB lock throughout, so it is one action: `CreateObj`
(`swdiag_rule_create` or `swdiag_comp_create` as far as the object goes),
`CompContains`, `DependCreate` and `DeleteObj`. `db` is the object database:
type, `parent_comp`, the list of contained components, the two boundary sets
(`top_depend`, `bottom_depend`) and the two ends of each dependency
(`child_depend`, `parent_depend`). A name used before it is created is an object
of type NONE, converted later (`Convert`). The order of contained components is
kept, because the walks over the tree (`NextComp`, `NextContained`) follow it; a
walk is the function that takes it one step further, applied again and again
(`Iterate`): the ancestors of a component (`Up`), the search of
`swdiag_comp_contains` for the parent in the child (`Search`), the lookup of names
in the whole system (`NextInSystem`). Other lists are sets, as the code refuses duplicates. Deleting a component moves
what it contains to System in some order (`Orders`) and leaves its
sub-components with a `parent_comp` that is `Freed`.

`domain` is the number each object has, 0 for none; `reachable` the list each
domain keeps of those it reaches; `next_domain` the counter, bounded by
`MaxDomains`. `LinkInDomain`, `LinkAcross` and `Refuse` are the three ways through
`swdiag_depend_create` 176-368; the recursion of `is_obj_in_tree` is written as
membership in every closed set (`InTree`). A walk that does not end, or a read
through NULL or a freed pointer, ends the behaviour: `fate` is `hung` or
`broken`.

### Rci

Each rule has one test and at most one action; the graph is a constant without
loops. A handler is an action: it holds the lock from the result of the client's
function to the last verdict. `candidates` and `root_causes` are the rules whose
`root_cause` field has these values. A handler is written on a view (`Seen`): the
rules that fail, the two sets, the tests to rerun, the actions to run; each
function of `swdiag_rci.c` (`ScheduleDependents`, `PropagateFail`,
`PropagatePass`, `Determine`, `HandlePassed`, `HandleFailed`) takes a view to
one, and `Apply` puts the last into the variables. `rci_map_function` visits
rules once each and in an order that does not matter here, so a map over a set
is a set operation.

`test` is where the rule's test is: on its polling queue or on none (`waiting`),
on the immediate queue, or `running` with the lock released. A notified test that
is due at once has its last result fed back by a job (`fed_back`); notifications
are jobs that any order may take (`notified`), of an ABORT too where a test may
abort (`Notices`): that is in the theorems, while in the runs only a polled test
aborts. `jobs` and `acting` are the jobs
that run an action and the action functions now running, each up to `MaxJobs`.

### RuleOps, RuleLinks, RuleChain

`links` has for each object its kind, the inputs a rule lists, and the chain of
rules an input feeds: a head (`test->rule`, `rule->output`, or `ref_rule` for a
forward reference) and each rule's one `next_in_input`. `CreateRule`,
`AddInput`, `CreateTest`, `RemoveObj` and `Validate` are the functions that
write them; a walk along a chain is the least set closed under the next rule
(`Chain`). A rule that leaves its chains leaves them in one step (`Leave`), each at
the rule before it; `early` says at which of them the code still knew what came
after. `data` is what a rule remembers: `fail_count`, saturated at
`MaxCount`, and the ring of N in M as the set of its bits that are 1, with the
size that was allocated for it.

A result of a test starts a recursion of `seq_sequencer`, all of it under the DB
lock; `todo` is its stack, and a step (`StepRun`, `StepRci`, `StepAbort`) runs
one rule: down to the rules it feeds first, then on to the next on the chain. Each
validates its rule first, an abort too, which drops inputs that do not point back
(`Validate`). `DISABLE`, and the operators that are not supported (N in time M,
fail for time n), answer ABORT (`Verdict`).
Calls of the client wait until it is empty. Three variables are written and
never read by the code's part of the model: `failed` (which of the last results
a rule counted were failures), `unheard` (the results of its inputs it has still
to take) and `settled` (rules that ran since their operator and inputs changed).

## Runs

Pool: 2 threads, 2 requesters, 2 or 3 jobs. Two threads and two
requesters give every race of the code (a requester with a thread, two
requesters for one thread, two threads at a list) and three jobs overflow the
threads, so that the pending list is used. The code has 4 threads (`NBR_THREADS`), all alike.

| Run | Shows |
|---|---|
| `pool_locked` | as in the library, no teardown: the inductive invariant; `HandOffSucceeds` (the branch that loses a job is dead); `ListsTellThreadState`; handed jobs run, and pending jobs run as long as some thread is still to look |
| `pool_stop` | no common lock, teardown at any time: the inductive invariant, `RunOnce`, `FreeThreadsReady`, refinement of `JobPool`, and that threads told to quit exit. It includes all behaviours with the lock and without the teardown, so its safety properties hold there too |
| `pool_stranded` | violated: a job on the pending list with every thread idle |

Scheduler: two or three test instances, 5 or 6 calls besides the unbounded steps
of the scheduler, timer, clock and jobs. Two give two heads to compare, two
entries in a queue, or a base instance with a member; the third is a second
object beside these. Six calls suffice to create an instance or an object of
each kind, make them ready and do two or three things at any moment. The periods
are scaled down to 1, 2 and 3 units, with the USER queue's equal to one of the others' and different from the autopass delay.

| Run | Shows |
|---|---|
| `sched_poll` | a polled test with a member instance and a second test, API calls and immediate requests: `WakeupPending`, `NoTestForgotten`, `DisabledOffQueue`, and under fairness `PolledKeepsRunning` |
| `sched_notify` | a notification with an autopass beside a polled test on the USER queue: `QueuesSorted`, and `AutopassClears` under fairness |
| `sched_cli` | a base and a member instance, the CLI's states and periods: the inductive invariant and `QueueConsistent` |

A call kind is left out of a passing run when a property does not hold with it;
"Seen while modelling" names each. `DisabledOffQueue` holds for the calls of the
API; withdrawing the CLI's state (`swdiag_api.c:1106`) may disable a test and
leave it queued for one more run.

Objects: System, three components and two rules, five containments the client
may declare (two of them the reverse of each other, so that a loop is asked for,
and three levels deep), four dependencies (two of them a loop, and two with a
component), a component that may be deleted, two domains. The containments and
dependencies are few so that the order of calls can be free; the second run
gives up trees and deletions for four rules and every dependency among them.

| Run | Shows |
|---|---|
| `objs` | `LinksAgree`, `BoundaryIsInside`, `Nested`, `AllFound`, `LoopsCrossDomains` and `ContainsReturns` in every order of the calls |
| `depend_loop` | violated: a loop over two domains that the check lets in |

Root causes: four rules in a diamond, all polled, the top one deletable, give a
session with two ways to the same culprit and rules that wait for each other.
The second run has a notified rule over a polled one whose test may abort and
which has an action. Two jobs of one kind for one rule do what one does, twice,
so `MaxJobs` is 1. `last_result_count` stops where the code no longer asks
(`Often`).

| Run | Shows |
|---|---|
| `rci` | `RootCauseFails`, `OnlyLowest`, `NamedAboveFailure`, `CulpritMarked`, `NoRciDeadlock` |
| `rci_live` | with aborts and feedback, under fairness: `CulpritFound` and `RootCauseActs` |

Rules: one test feeds r1 (2 failures in 2) and r2 (2 in a row), which r3
combines (AND or OR); the test and r3 may be deleted; the test answers PASS, FAIL or a
value. So a chain has two rules, a rule feeds another, and a result reaches r3
twice. A byte has 2 bits, so that M = 2 ends on the boundary of one, as M = 8
does in the code. The second run has two rules that combine the same two tests.

| Run | Shows |
|---|---|
| `rules` | `IInv`, `FailuresCounted`, `RowCounted`, `HeardOnce`, `ChainsAreInputs`, `LogicSettles` |
| `rules_shared` | violated: rules that lose their place on a chain |

`ChainsAreInputs` needs rules that share one input at most: with two, the one
`next_in_input` of a rule does not suffice, which is what `rules_shared` shows.
The theorems say where each of these holds for all rules and links (`Separate`).
`LogicSettles` needs r3 run since its inputs last changed: an input that is
deleted, disabled or aborts runs no rule by itself.

Runs do not check for deadlock where the calls are bounded or the client may do
nothing more: with no test enabled there is nothing to do, and after the
teardown every thread has exited.

**Fairness.** Weak fairness of each thread's steps: the operating system runs
every thread that can run. For the pool it is stated per thread
and requester, and not for making requests nor for calling the teardown. For
the scheduler it is stated for the scheduler thread, the clock and the timer,
for each kind of job (the pool runs what it is handed, which is
`HandedJobsRun`), and for test functions, which are taken to return: one that
never does holds a thread for good. Calls are not fair. `PolledKeepsRunning`
speaks of tests that stay enabled and owe no late result: there is no watchdog
for those (`swdiag_sequence.c:976`). For `Rci` (`LiveSpec`) polling, feeding back
and the jobs of actions are weakly fair (the scheduler's part is
`PolledKeepsRunning`); the jobs of results are strongly fair, written out with
their guards, because one result may take another's turn but the pool's queue is
first in, first out; and a test does not abort for ever. Notifications are not
fair.

## Proofs

`ThreadPool_proofs`, for any number of threads, requesters and jobs, with or
without the DB lock and the teardown, from `NullAssumption` (the NULL job and
the absent thread are no job and no thread):

* `Invariance`: `Spec => []IInv`, and from it `TypeCorrect`:
  `Spec => []TypeOK`.
* `JobsRunOnce`: `Spec => []RunOnce`.
* `FreeListIsParked`: `Spec => []FreeThreadsReady`.
* `HandOffNeverFails`: `DbLocked \/ ~MayStop => (Spec => []HandOffSucceeds)`.
  Each of the two conditions is enough: what would spoil a hand-off is a teardown
  beside a request.
* `ListsTell`: `DbLocked => (Spec => []ListsTellThreadState)`. Without the lock a
  thread may have run its job, and looked for itself on the executing list in
  vain, before its requester puts it there.

`RunOnce` is not inductive: nothing in it says where a job that has not run is.
`IInv` adds that each such job is in one place only: with the one requester
that is placing it (`JobsToPlace`), once on the pending list (`JobsPending`), or
in one thread's record that has not begun it (`JobsAtThreads`). A
requester writes a thread's record without a lock, which is safe because it
alone took the thread off the free list (`ReservedThreads`), and threads on
that list are parked (`FreeThreadsReady`); `QuitThreads` covers the threads
that the teardown kills (together `PoolParts`). `HandOffParts` says what a
requester knows of the thread it took; `LockedParts` that with the lock at most
one requester is under way, and a busy thread is on the executing list or in the
hands of that requester; `HolderParts` that a job in a record whose thread has
begun was run. There is one lemma per action and part, and `Invariance` combines
them. TLC checks `IInv` in `pool_locked` and in `pool_stop`.

`ThreadPoolRefinement_proofs`, for the same constants:

* `PoolImplementsJobPool`: `Spec => ImplementsJobPool`.

A job is waiting in the abstract pool while someone holds it (`HeldBy`: a
requester, the pending list, a thread's record) and it has not run, on a thread
while that thread executes it, and over otherwise. Each action has a lemma that
says which abstract step it is: a request accepts or refuses, `call` starts,
`execute` finishes, and steps of the teardown that lose their last hold of a job
give it up. The others stutter, for the job passes from holder to holder and is
never with none in between.

`Scheduler_proofs`, for any tests, periods, autopass delays and number of calls,
from the assumptions on the constants (a period and a delay last at least one
tick) and `"recreate" \notin Calls`: no test is created again once it exists.
Without that condition all but the types are false: with such calls TLC finds the
stale entry, and once two tests of one queue are created again after a while,
the queue out of order and the wake-up late.

* `QueuesAgree`: `Spec => []QueueConsistent`.
* `HeadsSuffice`: `Spec => []QueuesSorted`.
* `NoWakeupLost`: `Spec => []WakeupPending`.
* `TypeCorrect`: `Spec => []TypeOK`.
* `Invariance`: `Spec => []IInv`, the invariant behind these.

And for calls without those of the CLI (`"cli" \notin Calls`), which can keep a
test in a state that the API does not know of:

* `DisabledNotQueued`: `Spec => []DisabledOffQueue`, of the record
  (`sched_test->queued`) and of the lists.
* `NoneForgotten`: `Spec => []NoTestForgotten`.

Both are false when tests are created again: that resets the record and leaves
the entry in the list (`swdiag_api.c:436`). `NoTestForgotten` speaks of an
instance while its base instance is enabled too, because a test made ready while
its base is disabled leaves enabled members unscheduled (868), and, while a call
on the object is under way, of those it has been at.

`IInv` joins `QueuesAgree`, `HeadsSuffice` and `NoWakeupLost`, and adds what they need. A queue that is appended
to stays in order because nothing on it waits longer than its period
(`WithinPeriod`); the immediate queue counts as one whose period is 0. A test
that is created is on no queue yet (`NewOffQueue`), although forward references
can be enabled before. The proof goes from one queue (`TakenOut`, `PutIn`, with
the facts about `RemoveFirst`, `InsertAt`, `Min` and `Max` in `QueueFacts`) over
the timer (`HeadsSoonest`, `TimerInTime`) to the three ways in which a step
treats the queues (`Unmoved`, `Removed`, `Enqueued`) and the check (`DueInFront`,
`Checked`). Each call, on each instance, and each job is then one of these ways together with
a change of the test's state after which a test that was gone stays gone
(`StateStep`).
`TypeCorrect` needs besides that a check makes at least one job of each test it
starts (`DueEntriesCounted`). TLC checks `IInv` in `sched_cli`.

`DisabledNotQueued` needs that a test's state is the one last asked for
(`AsAsked` in `ApiInv`) and that the call under way is the API's (`ByApi`): a job
that returns late puts its test back on a queue only if it is still to be
enabled. With `QueueConsistent`, of `IInv`, what is off its recorded queue is off
every list. `NoneForgotten` follows a test from hand to
hand (`InHand`: on a queue, a job of the pool, a running function, a late
result): each call and job that takes it from one gives it to another, which for
the check is `DueEntriesCounted` again.

`Dependencies_proofs`, for any objects, containments, dependencies and number of
domains, from the assumptions on the names:

* `LinksAgreeAlways`, `BoundaryInside`, `DomainsHaveNoLoop`, `TypeCorrect`.

`IInv` has four parts. `Sound` says of the database that both ends of a
dependency agree (`Links`), that boundary sets stay inside (`Boundary`), and
that an absent name has nothing (`Bare`); each operator of `ObjectTree` has a
lemma that preserves it. `DomainsType` bounds the numbers; `UnlinkedOutside`
says that an object without a domain is in no dependency, which is what makes
joining a domain unchecked safe. `NoLoop` is `LoopsCrossDomains` in the form
"some set closed under dependencies inside the domain separates them": a new
edge keeps it when the walk found no way back (`NoLoopAdd`), and so does taking
edges away (`NoLoopFewer`).

And under `NoSelfContainment`, when the client never declares a component to
contain itself (which the code does not refuse: its search begins with the
first component in the child; longer loops may be asked for in any order):

* `NestedAlways`: `Spec => []Nested`.
* `AllFoundAlways`: `Spec => []AllFound`.
* `ContainsAlwaysReturns`: `Spec => ContainsReturns`.

`Forest` is inductive together with `IInv` and the types of the objects (`Kinds`):
`TreeInv`. Everything but a containment is an argument about lists: what
`RemoveFirst` and a new head leave of one, which is why its entries must be
different (`IsInjective`). A containment must make no ring, and that is what the
check is for (`LoopApart`): if it answers "clear", its walk has ended, and one that
ends has come to everything below `o`, for it leaves what is below a component only
to the next one on the list (`ContainedUnder`, `WalkThrough`). So `p` is not there,
and `o` may be linked under it (`ContainForest`). That the walk reads through NULL
for some trees (see below) does not matter: then nothing is linked.

`AllFound` follows from `TreeInv`, while nothing points at a freed component.
The walk of the whole system goes round no ring (`NextNoRing`), nor does any
that steps only to a component in the one it is at, or to the peer of one that
this is in (`Leads`, `StepsNoRing`): a ring with fewest components
(`LeastRing`) would have a component that nothing in the ring contains, and of
those on one list the first; the step to that one comes from below the one
before it on the list, which is not in the ring, and what is below could be
left out, for nothing outside leads there. So it ends within as many steps as
there are objects, for in more it would meet one twice (`NoRingEnds`). And it
comes to every component in one it comes to (`WalkCloses`), so those it misses
would be in each other (`FindsAll`). The search of `swdiag_comp_contains` takes
such steps too, also where it climbs wrongly, and so ends within that many
steps (`SearchEnds`); with that, the bound in `LoopCheck` is not a bound on
what is checked. The library's induction takes a predicate as a parameter,
which the provers cannot instantiate; `UpTo` in `QueueFacts` states it for the
sets of numbers, and follows from `NatMin`: a set of numbers has a least.

`Rci_proofs`, for any rules, dependencies and settings, from `RciAssumption`:

* `NamedFails`: `Spec => []RootCauseFails`.
* `NamedLowest`: `Spec => []OnlyLowest`.
* `TypeCorrect`: `Spec => []TypeOK`.

(`NoCycles`, the other assumption on the constants, is used below only.)

The conjunction of the three is inductive. A lemma for each function on views
says that it leaves marks disjoint and the named rules lowest and failing; the
one assumption in between is that the rule whose result came is treated before
anything else is (`HandlePassedSound`).

`RciSessions_proofs`, under `OnlyTopsDeleted` (only rules that nothing depends on
are deleted) or `Harmless` (that, and a test that may abort feeds a rule that
depends on nothing):

* `CulpritsMarked`: `Harmless => (Spec => []CulpritMarked)`.
* `SessionTells`: `Harmless => (Spec => []NamedAboveFailure)`.
* `CandidatesDriven`: `OnlyTopsDeleted => (Spec => []NoRciDeadlock)`.

`SInv` adds to it that a failing candidate always has something below it. Views
carry a set X of rules not yet accounted for, which each function shrinks
(`SuspectFit`, `RootCauseFit`); the handler of a result starts with the rules it
turned into culprits and ends with none. Without `Harmless` the property is
false; "Seen while modelling" says how.

`SessionTells` follows: among the failing rules below one that is named there is
a lowest, by `NoCycles` (any set of rules has one that depends on no other of
the set; the code refuses a dependency that closes a loop); that one is marked,
by `CulpritsMarked`, and not as root cause, by `NamedLowest`, so it is a
candidate. (The loops of the finding `depend_loop` are outside of this.)

`NoRciDeadlock` is not inductive: a candidate that passes, and waits only for
others, would be left alone when these are cleared. `AllDriven` adds that a
candidate without a result due fails. The functions on views keep it but for the
rules of X, as above (`Going`): a rule whose candidates below it are cleared is
looked at again, and named when all below it pass. It holds with any aborts, also those that make the search
lose a culprit.

`RuleChain_proofs`, for any tests, rules, links, byte size, M and n, from the
assumptions on the constants (with `CountsAssumption`: no client changes the M of
a rule that counts):

* `FailuresCountedAlways`: `Spec => []FailuresCounted`.
* `RowCountedAlways`: `Spec => []RowCounted`.

`Ring` ties each of the last M results to its bit: the k-th last is at
`Slot(position, k, M)`. It is kept by `Record` (`RecordKeepsRing`), whose
position never runs off the end (`InHistory`), and as `Slot` is a bijection the
number of bits is the number of failures (`RingCounts`). `Row` is the same for
the count of a row. Which results a rule is given does not matter here: that is
`EachHeardOnce`.

And where `Separate` holds of what the client links and deletes:

* `Invariance`: `Separate => (Spec => []IInv)`, the invariant behind the others.
* `ChainsKept`: `Separate => (Spec => []ChainsAreInputs)`.
* `NothingDropped`: `Separate => (Spec => []InputsPointBack)`.
* `EachHeardOnce`: `Separate => (Spec => []HeardOnce)`.
* `LogicSettlesAlways`: `Separate => (Spec => []LogicSettles)`.

`Separate` is a condition on the constants alone, and is what the code can serve.
`Unshared`: an input with several rules is the only input of each of them, for a
rule has one `next_in_input`; without it `rules_shared` violates
`InputsPointBack`. `NoLoops`: no rule can come to take, along others, what it
said itself (the code refuses such a loop by deleting the rule, which may feed
others by then). `OnlyLastDeleted`: a rule that feeds others is not deleted, for
those keep it as an input. Tests may be deleted, and so may rules at the end;
everything is created, again, before and after it is referenced, in any order.
The constants of the run `rules` meet all three.

None of these is inductive. `LinksFit` says of the links that the rules on the
chain of an object are exactly those that list it (`Chain(l, o) = Fed(l, o)`),
that the `next_in_input` of the linked rules form no ring (`NoRing`), that each
input is listed once and along `Feeds` (`InputsFit`), and which of the heads an
object of a kind uses (`KindsFit`). As chains are defined as least sets, what a
link that is added (`FeedFit`) or taken away (`DropFit`, `LeaveFit`) does to them
is shown by sets closed under `next_in_input`, and the calls are put together
from these. `TodoFit` says of the calls to come that each goes to the rest of a
chain, from some rule on; that these rests are disjoint; and that what a call
runs lies above, along `Feeds`, what a later one does (`Under`): so a rule is in
the rest of one call at most, and what it says cannot reach a rule that is still
to take something else. `HeardFit` then is: a rule has not heard exactly what the
calls to come bring it (`Owed`), one result at most. `LogicFit` is: a combining
rule that does not agree with its inputs is owed a result. One lemma shows what a
call taken off and the calls it makes owe (`TurnFacts`), and each step that says
a result does so in the same way (`SaidFit`). TLC checks `IInv` in `rules`.

Every invariant of a passing run is a theorem for all constants, under the
conditions named with it, and so is the refinement. What only TLC checks:

* Liveness: `PendingJobsAreDrained`, `HandedJobsRun`, `QuittersExit`,
  `PolledKeepsRunning`, `AutopassClears`, `CulpritFound`, `RootCauseActs`. Fairness
  is stated with ENABLED, which is out of the provers' reach.
* The properties outside the conditions named with their theorems. For links
  that are not `Separate` even the types of `RuleChain` are only checked: there
  `Validate` drops inputs by `SelectSeq`, about which the library states no
  facts.
* That the model is the code: each definition is mapped to its lines.

## Findings

`PROJECT.json` quotes what each contradicts.

* `pool_stranded`: a job put on the pending list just after the last busy thread
  looked there waits for later requests.
* `depend_loop`: refusing a dependency forgets an earlier one between the same
  domains, and a loop is let in.
* `rules_shared`: a rule that combines two inputs cuts off the rules that come
  after it on the chain of the first.

## Seen while modelling

Behaviours of the code that the models have, or that bound what a property
says; no run is about them.

* Pool: the teardown misses threads between the lists.
* Scheduler, whole objects: a member instance that is enabled when its test is
  made ready under a disabled base is on no queue (`swdiag_api.c:868`);
  withdrawing the CLI's state from a forward reference, or from an instance that
  is one, deletes the whole object and leaves its instances on their queues (1141).
* Scheduler: a test kept enabled by the CLI is dequeued when the API disables it
  (`swdiag_api.c:1247`); an autopass does not survive disable and enable (977);
  member instances of a deleted notification are freed while queued (771); a test
  created again stays queued, or is queued twice (436); a test whose CLI state is
  withdrawn too early becomes a forward reference (1105).
* Objects: the walk that looks for loops of containment climbs at most one level,
  and reads through NULL when the component it climbs to is the last of its list
  (`swdiag_obj.c:280-284`); it does not look at the child itself, so that a
  component is let into itself, which takes it out of the tree
  (`swdiag_api.c:3134-3146`: the runs and theorems leave such a call out);
  sub-components of a
  deleted component keep a pointer to it (`swdiag_obj.c:1313`);
  `swdiag_client.h:1198-1200` says its objects are deleted, the code moves them to
  System (1314); a rule contained before it is created is on neither boundary
  list (1005), and a boundary is not adjusted when a dependency's end moves in or
  out; domains are not scanned transitively (`swdiag_rci.c:293`).
* RCI: a candidate that fails and whose test then aborts more than 3 times loses
  its verdict (`swdiag_rci.c:1234-1256`), and the count is of passes and
  failures, not aborts; a deleted root cause leaves the rules above it without
  one, for it is marked deleted before its parents are looked for
  (`swdiag_obj.c:1384`; 1397-1398 promise otherwise); an action may run for a rule
  that has passed or was overruled meanwhile (`swdiag_sequence.c:1191`, against
  `docs/quickguide.dox:261-263`), may run twice at once, and one that starts after
  its rule passed keeps the next from running (`action_run`); a sample taken
  before the session began may resolve a candidate.
* Rules: two rules that combine two inputs in opposite orders make a ring, which
  the sequencer walks for ever; `rule_create(r, r)` is not refused; a refused
  loop deletes the rule and leaves it as the input of others; a deleted rule stays
  an input of those it fed (`swdiag_obj.c:1290` looks for an `obj_rule_t` among
  `obj_t`); creating a forward-referenced object again brings back the rules it
  fed when it was first created (`swdiag_api.c:429`, 2252); a call of
  `swdiag_rule_set_type` on a rule that is only referenced loses the rules it
  feeds; `op_m` changed after the first result leaves a history of the wrong size
  (`swdiag_sequence.c:727`); AND and OR are not evaluated again when an input
  aborts, is disabled or deleted; N_EVER and N_IN_ROW share one count; feedback
  for RCI runs the rules that a rule feeds, although 1098-1101 says that would
  spoil their history; `swdiag_client.h:832-836` describes OR, AND and RANGE by
  when they pass, or the other way round, from what the code does.

## Not modelled

* Pool: the recycling of job records, the throttle's lengths, failures of
  pthread calls, the unit-test entry points.
* Scheduler: termination, recovery (only reachable from disabled code), tests
  that exist before it starts, the unlocked first check of the queues as
  separate steps, autopass delays changed at run time, enabling and disabling
  through components, jobs run in line when memory is short, the period of a
  forward reference, deleting one, calls that name an instance of a test not yet
  created (the reference is then of type POLLED, of period 0 and without a
  function), names used again after a deletion, the arithmetic of nanoseconds.
* Object database and API: actions and their links, member instances beyond the
  scheduler, the `freeme` queue beyond a test's, states of rules, actions and
  components, conversion of names.
* `Rci`: rules that take other rules' results (these are in `RuleChain`), more
  than one action per rule, a polled test that the client notifies too,
  dependencies on components expanded in the map,
  rules enabled and disabled, answers of IGNORE.
* `RuleChain`: member instances, objects that are not enabled, the limit of 25
  chained rules, creation after deletion, health.
* Trace, syslog, RPC and platform glue, server, utilities, examples, vendored
  code: input and output, or not swdiag's own. The JavaScript under
  `src/server/http` is jQuery UI and PrimeUI, copied into the tree with their
  builds; the page's own script is a few lines that fetch and show the tabs. All
  of swdiag's own logic is in the C files under `src/src`, and every definition
  maps to these.
