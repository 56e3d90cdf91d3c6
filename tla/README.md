# TLA+ verification of constraint-race-detection

The repository predicts data races from one recorded execution. It reads a
trace of events, turns it into order constraints over one integer per event,
asks Z3 which pairs of conflicting events can be put at one position after a
feasible past, writes the reordering as a witness, and replays witnesses to
check them. This directory holds TLA+ modules of its core, TLC runs on small
instances, and TLAPS proofs for every instance.

    cd tla
    tlc -config MCTrace.cfg MCTrace        # one of the runs below
    tlapm TraceProofs.tla                  # one of the proof modules

`PROJECT.json` lists, for tools, what this file describes: components, runs,
the source lines of every definition, hazards, findings and theorems.

## 1. Inventory

Paths are relative to the `src/` directory of the repository, except `scripts/`.

| component | state it keeps | operations | what makes it correct |
|---|---|---|---|
| `event.hpp` Event | one packed 64-bit word, an identifier | `createRawEvent`, field getters, `==` by identifier | fields come out as they went in |
| `thread.hpp` Thread | `events_`, `prev_read_`, `prev_acq_`, two maps event -> previous read / enclosing acquire | `addEvent`, `getPrevRead`, `getPrevAcq` | the maps equal a search of the trace |
| `variable.hpp` Variable | first access, writes (also by value and by thread), reads by thread, two maps read -> previous write / previous different read | `addEvent`, `getCOP`, good and bad writes, `sameInitialValue` | candidates are exactly the conflicting pairs, once each |
| `trace.cpp` Trace | all of the above, `forks`, `ends`, `last_acquire`, lock regions, fork/begin and end/join pairs | `createTrace`, `fromTextFile`, `fromBinaryFile`, queries | regions are the closed critical sections, and disjoint per lock |
| `transitive_closure.hpp` | event -> group, relations, boolean table | `createNewGroup`, `addToGroup`, `addRelation`, `build`, `happensBefore` | the table is the reachability of the relations |
| `lockset_engine.hpp` | a copy of the map of regions | `hasCommonLock` | finds a lock held at both events |
| `casual_model.*` CasualModel | Z3 context and solver, phi definitions and their memo, filtered candidates | constructor phases, `getPhiConc`/`getPhiAbs`/`getPhiSC`, `solve` | a race it reports is real; filters lose none |
| `model_logger.*` ModelLogger | two log files | constructor, `logWitnessPrefix`, `readBinaryWitness` | what is written is a legal prefix that leads to the race, and is what is read back |
| `verifier.cpp` | replay state: locks, memory, program counters; failed witnesses | `isWitnessConsistent`, the loop of `main` | passes exactly the reorderings legal in threads, locks and reads |
| `cmd_argument_parser.cpp`, `predictor.cpp`, `scripts/runner.sh` | flags, limits, exit codes | `fromArgs`, the steps of `main`, timeouts | limits hold; a race that was logged is judged |
| `BSlogger.hpp` | third-party console logging | - | - |

How they interact. `predictor.cpp` builds a `Trace`, which hands every event to
its `Thread` and `Variable` while it is read; `CasualModel`'s constructor reads
the finished trace (`generateMHBConstraints` through `TransitiveClosure::Builder`,
then `generateLockConstraints`, then `filterCOPs` through `LocksetEngine`);
`solve` builds the phi definitions and asks Z3 once per candidate, calling
`ModelLogger` on each answer "sat"; the verifier is a second program that reads
the witness file and the trace. All calls are synchronous, in one thread; there
is no network. The two programs meet in files: either can be started again, can
fail half-way by an exception, and the runner ends a verifier that takes too long.

What is hard. Not scheduling of the tool itself, but the order of the events it
processes and of the solutions it accepts: maps that are filled one event at a
time and read by identifier (`trace.cpp:53` keeps a stale `last_acquire` between
regions); an in-place closure that reads the table it writes; phi definitions
that refer to each other, possibly in a cycle; four filters and four cases in
`getPhiSC`, each of which may drop one write too many; solutions that put several
events at one position; lock regions the end of the trace leaves open; a cut of
the witness that takes feasible events with it; a recursion whose vector grows
under its own offsets; an algorithm that reads the vector it compacts; arithmetic
at the edges of the packed word and of the file formats. `PROJECT.json` lists each at its line under
"hazards".

## 2. Modules

| module | models | kind |
|---|---|---|
| `TracedProgram` | the program that was traced (external: it is what the input format and the replay take for granted) | environment |
| `Trace` | `createTrace`, `Thread::addEvent`, `Variable::addEvent`, all queries | component |
| `ClosureBuilder` | what `TransitiveClosure::Builder` promises | abstract specification |
| `TransitiveClosure` | the same with `build` as its loops | refinement of `ClosureBuilder` |
| `CausalModel` | `CasualModel` and `LocksetEngine`, with Z3 as environment; extends `Trace` and `ClosureBuilder` | composition |
| `PhiBuilder` | the recursion of `getPhiConc` and `getPhiAbs`, with memo, slots and call stack | component |
| `GoodWritesFilter` | `generalGoodWritesFilter` as the loop of `std::remove_if` | algorithm |
| `LegalOrder` | what a witness has to be; extends `Trace` | property vocabulary |
| `ModelLogger` | `logWitnessPrefix`; extends `CausalModel` and `LegalOrder` | composition |
| `Verifier` | `isWitnessConsistent`; extends `LegalOrder` | component |
| `Prediction` | `fromArgs`, both `main`s, the constructor of `ModelLogger`, the loop of `solve`, the runner's timeout; extends `TextReader` and `WitnessFile` | composition |
| `EventLayout` | the packed word of an `Event` | data type |
| `TextReader` | `fromTextFile`; extends `EventLayout` | component |
| `WitnessFile` | the binary file between `logWitnessPrefix` and `readBinaryWitness` | component |
| `MCTrace`, `MCTransitiveClosure`, `MCPrograms`, `MCModelLogger`, `MCPhiBuilder`, `MCVerifier`, `MCPrediction` | instances for TLC | runs |
| `TransitiveClosureProofs` | theorems on the builder | proofs |
| `TraceProofs`, `AccessProofs` | on regions, pairs and lives of threads; on the maps and candidates | proofs |
| `CausalProofs`, `SolutionProofs` | on the constraints; on their solutions, and on the witnesses written from them | proofs |
| `PhiBuilderProofs` | on `PhiBuilder` and `GoodWritesFilter` | proofs |
| `VerifierProofs` | on the verifier's replay and its verdict | proofs |
| `PredictionProofs` | on `Prediction`, `WitnessFile`, `TextReader` and `EventLayout` | proofs |

### TracedProgram and Trace

`Trace` has one action per case of the switch of `createTrace`
(`Fork`, `Begin`, `End`, `Join`, `Acquire`, `Release`, `Read`, `Write`) and
`Finish` for the end of the input. Each action conjoins the step of the traced
program (`DoFork` ... in `TracedProgram`) with everything the code does on the
event: `AddEvent` numbers and stores it and runs `Thread::addEvent`; `Read` and
`Write` also run `Variable::addEvent`; the synchronisation cases update
`forks`, `ends`, `last_acquire`, the pairs and the regions.

`TracedProgram` is the assumption on the input: a sequentially consistent
execution, in which a lock has one holder and is not re-entrant, a thread that is
not a root is forked before it begins and ends before it is joined, and a read
returns the last value written, or, before any write, some initial value. The
input may stop anywhere: `Finish` is enabled in every state, also with locks held.

An Event is represented by its identifier, 1, 2, ... in trace order, as
`operator==` compares objects by it; `all_events` gives the fields and 0 is
the null event. Keys of maps that are absent in C++ and default to an empty
object on access are null events. The index of writes by value is not a
variable of its own: it is a function of `writes` and `all_events`.

### ClosureBuilder and TransitiveClosure

`ClosureBuilder` keeps the events' groups, the relations and, after `Build`, the
set of pairs of groups whose table entry is true. `Reaches` is defined without
recursion (b is in every set that is closed under the edges and contains a's
successors), which lets TLAPS reason about it. `TransitiveClosure` runs `build`
one assignment `hb[i][j] = ...` at a time, counters included, and maps to
`ClosureBuilder` by hiding the table until `pc = "done"`.

### CausalModel

A run of `CausalModel` is: a run of `Trace` (`pc = "trace"`), the grouping of
events thread after thread (`StartThread`, `NextInThread`, `pc = "group"`; the
order of the threads is left open, as the code iterates an unordered container),
`RelateThreads` for the two loops over pairs, `BuildClosure`, then
`GenerateConstraints`, which is `generateLockConstraints`, `filterCOPs` and the
collection of the reads that get a phi. From there Z3 is the environment.
`Z3Place` gives a set of events, all of whose predecessors have a position, the
next position; so every weak order of the events that satisfies the order and
lock constraints is reached, ties included. `Z3Assign` then picks any values of
the phi constants that satisfy their definitions. Gaps and absolute values of
Z3's integers are abstracted: no constraint distinguishes them.

The phi constraints are modelled by their meaning. `PhiSC` has one disjunct per
member of `Sources` (initial value, own previous write, good write), in the cases
of `getPhiSC`, with its filters, its anchor events and `makeRFConstraint`; an
empty disjunction means true, as in the code. Their mutual recursion becomes
`PhiReads`, the reads reachable from the candidates along `Calls`: the smallest
closed set, which is what `PhiBuilder` shows the memo of `getPhiConc` to end up with.
Likewise `generalGoodWritesFilter` is here the set the filter is meant to leave, and
`GoodWritesFilter` shows that the compaction leaves it. The race constraint of a pair
is a state predicate, checked for every candidate in every solution rather than
asked one pair at a time.

### PhiBuilder and GoodWritesFilter

These two are the parts of `CausalModel` where the code computes something by steps
that the composition takes in one. Both take their input as any input of that shape.

`PhiBuilder` makes the C++ call stack a variable. `CallFromSolve` is one of `solve`'s
calls, `Recurse` the next call of the innermost frame, `SetDefinition` its return. An
entry of the vector is a placeholder (the phi constant that line 100 pushes) until
line 107 stores the definition through the offset taken at line 99, after other
calls have made the vector grow. `calls` lists, for each read, the reads whose
phi its definition mentions, in the order of the calls; any pattern is allowed
but a read that calls itself, which the filter of writes after the read excludes.

`GoodWritesFilter` has the vector, and the two positions `first` and `result` of
`remove_if`; `Goes` is the predicate, evaluated over the vector as it is at that
moment. In the standard, a predicate that reads the range is not promised anything;
the model is the loop that the implementations run.

### ModelLogger

A run of `ModelLogger` is a run of `CausalModel` up to a solution in which the race
constraint of some candidate holds. `LogWitnessPrefix` is the call; `Leave` and
`WriteEvent` are the iterations of the second loop that continue and that write;
`WritePair` is the break or end of the loop and the two lines that follow. The
first loop is the operator `Cut`: it takes a minimum per thread, so its order does
not matter. Two choices of the code's environment are kept open: `std::sort` puts
events at one position in any order (`Reached` is any least event), and Z3's model
need not give a value to an event that no constraint names (`left_out`).

`LegalOrder` states, about a whole sequence, without counters or maps, what a
witness has to be. `Verifier` decides it and `ModelLogger` is to produce it.

### Prediction, TextReader and WitnessFile

The programs around the model. `Start` runs predictor or verifier with one of the
given command lines, any number of times up to `MaxRuns`, in any order, on the files
of one trace in one witness directory. `Arguments` is `fromArgs` on a sequence of tokens. Each point where
`main` can leave by an exception is an action (`RejectArguments`, `OpenTraceFails`,
`InvalidEvent`, `OpenTextLogFails`, `OpenBinaryLogFails`, `SolveFails`,
`OpenWitnessesFails`), and what was done before it stays. `NoRace`, `Race` and
`EndOfLoop` are the iterations of `solve`'s loop; Z3 answers sat, unsat or unknown
as it likes, and a race logs one of the witnesses `WitnessesOf` has for the candidate.

With `--human` the trace is read by the actions of `TextReader`, one per kind of line
(`ReadAccess`, `ReadLock`, `ReadForkOrJoin`, `ReadBeginOrEnd`) and `BadLine` for the three
exceptions. What `operator>>` makes of the characters, and what `std::stoul` makes of a
name, are given by the line and by `Numeral`.

`WitnessFile` is the binary log as a sequence of 32-bit words. `WriteWitness` appends the
two words of the `size_t` length and the elements, when `Race` logs; `ReadWitness` is one
iteration of the verifier's reader, which takes one word for the length, and fills
up with zeros when the file ends first. What is read back is seldom a sequence
of events, so `Judge` may answer anything; what `isWitnessConsistent` answers to a
sequence of events is `Verifier`'s matter.

### EventLayout

`EventLayout` represents a number by the set of the positions of its one bits: a
shift moves them, a mask intersects, an or joins. No arithmetic is needed, which
makes the layout provable for every width. `Trace` takes events as records of their
fields: `LinesKept` says up to which sizes that is what the lines of a text file are.

### Verifier

`Verifier` is a run of `Trace` followed by the loop of `isWitnessConsistent`, one
iteration per step: `Replay` for an element that passes the three checks, with
every update of the four maps, `Reject` for one that returns false, `Accept` for
the end of the loop. The witness is any sequence of distinct events of the trace,
not only one the predictor would write: the verifier is there to judge it. The
code leaves the last two elements out of the replay by `size - 2`, which wraps
around for a shorter witness; the model therefore lets the loop end after any
number of elements. `LegalOrder!Legal` says what it is to decide, and `Replayed` reads `TracedProgram`'s locks and memory
off the maps. The verifier does not check forks and joins, nor that a thread is
forked before it begins, so `ProgramStep` has no part for them.

## 3. Runs

All cfgs say `CHECK_DEADLOCK FALSE`: a trace ends, a build returns, a solution is
complete, and the program then stops. State counts are distinct states.

| run | instance | states | shows |
|---|---|---|---|
| `closure` | 4 events, up to 3 relations | 127,863 | the loops keep `LoopInv`, implement `ClosureBuilder`, and end |
| `trace` | 2 threads, one forked by the other; 2 locks, 1 variable, 2 values; every trace of up to 6 events | 131,902 | `PrevMapsExact`, `LockRegionsDisjoint`, `LockRegionsComplete`, `COPsExact` |
| `two_threads` | every trace of up to 4 events of two root threads, a lock and a variable; all interleavings of five two-thread programs of up to 7 events and of two programs of up to 9 with a forked and joined thread; every grouping, solution, candidate and order of ties | 1,038,474 | `LoggerTypeOK`, `HbExact`, `ObservedOrderAllowed`, `PhiSound`, `PhiComplete`, `PhiDetermined`, `FiltersOnlySaveWork`, `RacesAreReal`, `WitnessIsReal` |
| `three_threads` | two programs of three threads, and four traces of up to 10 events with critical sections | 1,131,786 | `PhiSound` and `RacesAreReal` when phi recurses through another thread; `WitnessIsReal` when threads are cut |
| `verifier` | 2 threads, 1 lock, 1 variable; every trace of up to 5 events, every sequence of its events | 2,199,628 | `VerifierExact`, `ReplayIsExecution` |
| `phi_builder` | 3 reads, up to 2 calls each and from `solve`: every pattern; 5 events, every ordering within the trace order, every vector of up to 4 writes | 189,795 | `SlotsMatch`, `OnStackOnce`, `BuildsNeeded`, `Ends`, `FilterExact` |
| `prediction` | up to 3 programs of eleven command lines; up to 4 of 14 lines, threads of 2 bits, targets of 1; up to 3 candidates with two or three witnesses each; 32 bits taken as 2 | 993,873 | `LogsAreRaces`, `LimitsAreExact`, `RacesAreJudged`, `LinesKept`, `NoWordLost`, `SolveReturns` |
| `common_lock` | two writes in critical sections of one lock | violation | see Findings |
| `open_region` | the same, the trace cut before the last release | violation | see Findings |
| `nested_locks` | a trace of 3 threads with nested regions, 11 events | violation | see Findings |
| `read_back` | the instance of `prediction` | violation | see Findings |
| `binary_only` | `prediction` with two command lines: `--log-binary-witness` alone, and the verifier | violation | see Findings |

The properties:

- `LoggerTypeOK`, the type invariant of the composition: among the types, that no event
  is written to a witness twice, nor before the loop has reached it.
- `PrevMapsExact`: every map filled by `addEvent` answers like a search of the
  whole trace, for every event, at every point.
- `LockRegionsDisjoint`, `LockRegionsComplete`: regions of a lock never overlap,
  and every release closes exactly the region its acquire opened.
- `COPsExact`: the candidates are the conflicting pairs, each in one order.
- `HbExact`: grouping events loses no ordering and adds none.
- `ObservedOrderAllowed`: the trace satisfies its own constraints.
- `PhiSound`: a true phi means that the read, and every read of its thread
  before it, returns its own value in the reordering, from a write whose own past
  is feasible in the same sense.
- `PhiComplete`: a reordering without ties in which every read returns its own
  value makes every phi true, so the filters of `getPhiSC` drop nothing needed.
- `PhiDetermined`: although the definitions may be cyclic, a solution of the
  order leaves one value for every phi: reads cannot justify each other.
- `FiltersOnlySaveWork`: a pair that is ordered or protected by one lock's
  closed regions is never at one position in a solution, so `filterCOPs` changes
  no answer.
- `RacesAreReal`: when the race constraint of a pair holds in a solution, the
  events placed before the race form a legal execution and both events are next
  in their threads. Two premises are explicit. The trace leaves no lock held
  (otherwise see `open_region`). A read of a third thread placed before the race
  is covered by a true phi: the code puts no constraint on it.
- `WitnessIsReal`: a written prefix runs threads in order; its locks are consistent
  and its reads get their values, and the pair is next, with the exceptions the
  cuts make necessary, stated as premises that do not refer to the cut itself: an
  infeasible read shares its critical section with earlier events, a thread is cut
  while it holds a lock, a read has no phi. Each premise is needed: see Findings,
  and the traces `ThirdThread`, `RaceInRegion` and `WriteInRegion` of `MCModelLogger`,
  which violate `WitnessIsReal` without it.
- `SlotsMatch`, `OnStackOnce`, `BuildsNeeded`, `Ends`: every definition is in the slot of
  its read although the vector grows meanwhile; the recursion is no deeper than
  there are reads, defines the reachable reads and no others, and ends.
- `FilterExact`: the predicate that reads the half-compacted vector answers as it
  would on a copy.
- `LogsAreRaces`, `LimitsAreExact`: index, iterator and counter stay in step at every
  iteration; a limit stops the loop neither early nor late, and a number given with `-c`
  or `-r` is never exceeded, also when it does not fit 32 bits, multiples of 2^32 excepted.
- `RacesAreJudged`: whatever failed in between, a verifier that reports all witnesses
  consistent after a logged race has judged one. The order in which the two logs
  are truncated is what this depends on.
- `SolveReturns`: the loop of `solve` ends or throws.
- `LinesKept`: below the limits of the fields, up to the last thread, child and name
  that fit, packed events are the lines, and names are equal where targets are.
- `VerifierExact`: of the sequences of distinct events of the trace, the verifier passes
  exactly those that keep the order of each thread and are legal in locks and reads.
  Where a thread is forked or joined is no part of it: the verifier does not look.
- `ReplayIsExecution`: each element that passes is a step that a program with the
  locks and memory of the replay can take.
- `NoWordLost`: what the verifier reads, with the lengths put back, is the file the
  predictor wrote, and zeros where the last length was too long.

Bounds. `MaxEvents` bounds the trace and `MaxRelations` the calls of the builder,
`MaxCalls` the calls of a definition, `MaxWrites` the filtered vector, `MaxCOPs` and
`MaxRuns` the candidates and the programs run, `MaxLines` and `NumberBits` a text file
and its numbers; nothing else is bounded by the modules. Two kinds of runs look at
a part of the states only, by a constraint:

- Those of `MCModelLogger` and `MCPrograms` take the traces of up to `SmallLength`
  events, those of given programs, and given ones. Threads are grouped in every order
  for the first two kinds in `two_threads`; in `three_threads` in the order of their
  identifiers, since the order decides nothing but the numbers of the groups.
- `Sessions` in `MCPrediction` gives a text file to the first program only and lets the
  last one be a verifier: a text leaves nothing behind but the trace, and what a
  predictor does is seen in the places before.

Why they are enough. Four events of the builder give up to four groups, so a path
of three relations runs through all of them, in every numbering, which exercises
every order of the loop counters. Six events of a trace hold two critical sections
of a lock, or one of each of two locks with an access, or fork, begin, accesses,
end and join. Four events are enough for a read with a good and a bad write on
either side; the scripted programs add what four cannot hold: own previous writes
of the same and of another value, a previous different read, two critical
sections with accesses, cyclic phi definitions, a forked and joined thread, and a
third thread. Five events of a replayed trace hold two acquires of a lock with the
release between them and two accesses, or a read among writes of both values on
either side. Three reads with two calls each hold every cycle of up to three,
shared callees, and calls made twice. A vector of four writes lets a removed write
be overwritten before a later one asks for it. Three candidates lie below, at and
above each limit of one or two, and three programs let a failed prediction come
between a good one and the verifier. The witnesses of the candidates make the
reader's lengths fall inside, at and beyond the end of the file, and be 0. Four
lines hold more names than a target of one bit can number.

Every property of a passing run is accompanied in `PROJECT.json` by a mutation of the
model under which TLC finds it violated; the mutated operators stand next to the
ones they mutate and are marked as such.

Fairness. Three modules state weak fairness, each of the steps of a procedure that
was called, in a sequential program: `LoadRelations` and `Close` in
`TransitiveClosure`, `PhiNext` in `PhiBuilder` (the recursion and `solve`'s calls; `MCPhiBuilder` states it
of these and of the filter's loop together), and `SolveLoop` in `Prediction` (the iterations of `solve`'s loop, which take it for granted
that Z3 answers every check; an exception may end the loop at any point). No
fairness is assumed of who calls the builder or starts a program.

## 4. Findings

- `common_lock`: `CasualModel` passes `LocksetEngine` a map from thread to lock to
  regions; the engine reads it as a map from lock to thread to regions. The run
  shows a candidate pair under one lock that `hasCommonLock` does not recognise,
  and `CausalProofs!LocksetFilterIsDead` proves that it never recognises any.
  `FiltersOnlySaveWork` shows that the answers do not suffer: the lock constraints
  exclude these pairs anyway.
- `open_region`: a critical section still open where the trace ends has no lock
  region, so two accesses that both hold a lock can be reported as a race.
- `read_back`: the length of a witness is written in 8 bytes and read in 4. Every
  witness is read back with a 0 in front and without its last event, and the
  rest of the file is out of step. `NoWordLost` holds all the same: the reader
  consumes each word once, so on a well-formed file it ends without an error.
- `nested_locks`: a thread is cut at the latest acquire before its infeasible read.
  Inside an outer region that leaves the outer lock taken for the rest of the
  witness, and another thread acquires it there.
- `binary_only`: with `--log-binary-witness` alone races are found, nothing is logged
  (`casual_model.cpp:267`), and the verifier reports that all witnesses are consistent.
  `cmd_argument_parser.cpp:11` calls the flag optional and names no other it needs.
  `runner.sh:43` sets up a predictor with that flag alone, but the script never
  executes it: line 54 starts the verifier only.

Observations. The code does the following too; the properties above say so by
their premises, and no run of its own refutes a promise of the repository.

- A solution places the events of all threads, but the race constraint vouches only
  for the reads of the two racing ones and what those need. A read of a third
  thread without a phi may be written before the write it reads from
  (`casual_model.cpp:243`; trace `ThirdThread`, premise `ReadsAccounted`).
- The first loop of `logWitnessPrefix` cuts at false phis after the race as well. When such a
  read shares a critical section with a racing event, the thread is cut at the
  acquire before both, and the witness lacks the events that lead to the race
  (`model_logger.cpp:38`; trace `RaceInRegion`, premise on `LostWithRegion`).
- The same cut removes feasible writes of the critical section, which a read of another
  thread, itself feasible and written, needs (trace `WriteInRegion`, the same premise).
- In the verifier, a read that is replayed before every write of its variable defines
  the value itself, and is accepted even when the trace shows another initial
  value (`verifier.cpp:84`; in `VerifierExact` only an earlier access binds a read).
- A `-c` or `-r` that is a multiple of 2^32 is accepted and means no limit
  (`cmd_argument_parser.cpp:42, 51`; `LimitsAreExact` says of every other number, however
  large, that it is not exceeded).
- A thread number above 255 changes the type of its events (`event.hpp:107`; premise
  `WithinLimits` of `LinesKept`, theorem `OverflowGoesUp`).

## 5. Proofs

Every safety property of a passing run is a theorem: TLC shows it on the
instance of the run, TLAPS for every value of the constants.

The assumptions are those the modules declare: identifiers and widths are
naturals, `NoValue` is not a value, `Roots` are threads, `EIDs` is a set of
naturals, a logged witness has at least the two events of its race, and each bound
is a natural. `ReaderAssumption` says what the provers cannot compute, since they
know nothing of powers: `2^TargetBits` is a positive number, numbers below it fit
the target field and differ in their bits; types and values fit their fields, as
the enumeration and `uint32_t` do. TLC evaluates all of them in the runs. Nothing
else is assumed; sets may be infinite and traces of any length.

| theorem | property | inductive invariant |
|---|---|---|
| `TransitiveClosureProofs!LoopInvariant`, `BuilderTypes` | `LoopInv`, `TypeOK` | `TypeOK /\ LoopInv` |
| `TransitiveClosureProofs!BuilderRefinement` | `ImplementsBuilder` | the same |
| `TraceProofs!TraceTypes`, `RegionsTheorem`, `RegionsCompleteTheorem` | `TypeOK`, `LockRegionsDisjoint`, `LockRegionsComplete` | `IInv`, `ReleasesRecorded` |
| `TraceProofs!PairsTheorem` | - | `IInv`, `PartnersInv` |
| `AccessProofs!CandidatesTheorem` | `COPsExact` | `AccessInv` |
| `AccessProofs!PrevMapsTheorem` | `PrevMapsExact` | `TraceInv` (with `HistoryInv`) |
| `CausalProofs!ObservedTraceAllowed` | `ObservedOrderAllowed` | `IInv /\ OrderInv` |
| `CausalProofs!LocksetFilterIsDead` | - | - |
| `CausalProofs!HbTheorem` | `HbExact` | `CausalInv` |
| `SolutionProofs!FiltersTheorem`, `DeterminedTheorem`, `SoundTheorem`, `CompleteTheorem`, `RacesTheorem` | `FiltersOnlySaveWork`, `PhiDetermined`, `PhiSound`, `PhiComplete`, `RacesAreReal` | `CausalInv /\ SolveInv` |
| `SolutionProofs!LoggerTypesTheorem`, `WitnessTheorem` | `LoggerTypeOK`, `WitnessIsReal` | `LoggerInv` |
| `PhiBuilderProofs!SlotsTheorem`, `PhiTypesTheorem`, `DepthTheorem`, `BuildsNeededTheorem` | `SlotsMatch`, `PhiTypeOK`, `OnStackOnce`, `BuildsNeeded` | `PhiInv` |
| `PhiBuilderProofs!FilterExactTheorem` | `FilterExact` | `FilterInv` |
| `VerifierProofs!ReplayIsExecutionTheorem` | `ReplayIsExecution` | `ReplayInv` |
| `VerifierProofs!VerdictTheorem` | `VerifierExact` | `VerdictInv` |
| `PredictionProofs!FieldsRoundTrip`, `OverflowGoesUp` | - | - |
| `PredictionProofs!LogsTheorem`, `LimitsTheorem` | `LogsAreRaces`, `LimitsAreExact` | `LoopsInv` |
| `PredictionProofs!JudgedTheorem`, `NoWordTheorem` | `RacesAreJudged`, `NoWordLost` | `LoopsInv /\ ReadInv` |
| `PredictionProofs!LinesTheorem` | `LinesKept` | `TextInv` |

`TransitiveClosureProofs`. The heart of `LoopInvariant` is `TransitiveSoFar`: when
pass k has reached (i, j), the table is transitive through the groups below k except
that a pair not yet passed may owe an entry through k. That exception is what makes it
inductive although the loop reads entries it has already overwritten.
`BuilderRefinement`: each call maps to its abstract call, `CallBuild`,
`LoadRelations` and all but the last `Close` stutter, and the last one maps to
`Build`, by lemma `ClosureExact` (a transitive table with only justified entries
that contains the relations is the reachability).

`TraceProofs`. `IInv` adds to `TypeOK`: the maps are total (`MapsTotal`); a forked or
ended thread has its event on record (`PartnersKnown`), without which `Begin` could
pair with a null event; and `LocksInv`: recorded regions are closed to later events
of the lock, and while a lock is held `last_acquire` is the last event on it, by the
holder. This is why the stale entry is harmless: it is only read by a release, and a
release happens only while the lock is held. `PartnersInv` and `LifeInv` do for forks,
begins, ends and joins what `LocksInv` does for locks, and give `PairsTheorem`.

`AccessProofs`. `AccessInv` says that a Variable object holds exactly the
accesses of its variable, writes in increasing order, reads by thread.
`CandidatesTheorem` follows from `VariablePairs`, which describes the pairs of
the two loops of `getCOP` by events instead of indices. `HistoryInv` says what the
scalar members (last read of the thread, last write, last different read,
enclosing acquire) are at the end of the trace read so far, and that the maps, which
copied them when an event was added, still answer for that event: a later event never
changes an earlier one's past. It also relates the memory of the traced program to
the last access, which is what makes a first read's value the initial value.

`CausalProofs`. `ObservedTraceAllowed` needs `IInv` and `OrderInv`: threads list their
events in trace order, partners are recorded after their partners, and the
grouping position stays inside the thread's list. `LocksetFilterIsDead` is the
finding above for every trace. `HbTheorem`: `GroupInv` says that the events of one group
follow each other in a thread without a split, and that the relations recorded are the
steps at splits and the partners. A path between groups then becomes a path between
events and back: only the last event before a split has a way out of the group, and only
the first one after it a way in. Both directions use the
closed-set definition of `Reaches`, so that no induction over paths is needed.

`SolutionProofs`. `SolveInv` describes the solution while `Z3Place` and `Z3Assign` build
it: what has a position has one after its predecessors, regions of a lock do not
overlap, and the phis satisfy their definitions. Everything else is a consequence in
states where `pc = "sat"`:

- `FiltersTheorem`: a pair that is ordered has different positions (`HbOrder`), and so
  has one inside two regions of one lock (`RegionsFollow`, `InsideRegion`).
- `DeterminedTheorem`: of two ways to satisfy the definitions, take the read with the
  least position at which they differ. Its definition refers to the past of the
  writes it may take its value from, at earlier positions, where they agree.
- `SoundTheorem`: a true phi has a true disjunct, one lemma per kind of source
  (`InitialSeen`, `OwnWriteSeen`, `GoodWriteSeen`), or none at all, and then the write
  the trace read from is the thread's own (`LastWriteIsGood`). `OtherWrites` shows that a
  write of another value is after the read, or hidden by the thread's own previous
  write, or a bad write that the constraint of the source excludes.
- `CompleteTheorem`: of the phis that are false, take the one at the least position. The
  last write before its read in the reordering satisfies the constraints of a good
  write (`LastWriteServes`), since the phis it asks for are at earlier positions; without
  one, the initial value does (`InitialServes`).
- `RacesTheorem`: the events before the race by position are closed under what they
  need: reads (`RaceReads`), locks (`RaceLocks`), forks and joins (`RaceThreads`).
- `WitnessTheorem`: `LoggerInv` says that what is written is a sorted prefix of the
  events to write (`WritingOK`), and keeps of the solution, which the later phases no
  longer constrain, exactly what the witness needs (`Solution`). A pair
  that was cut asunder, a lock left taken and a read without its write are each
  traced to a premise of `WitnessIsReal`.

`PhiBuilderProofs`. `PhiInv` adds to `PhiTypeOK` and `SlotsMatch`: slots of different
reads differ, which `SlotsMatch` alone does not say and without which a store could
hit another definition; a frame's earlier calls all have entries; and every read with
an entry is needed. When the stack is empty the entries contain the roots
and are closed under calls, so they contain the smallest such set, and they
are inside it. `FilterExactTheorem`: `ScanInv` describes the vector in three
parts: the kept writes in front, leftovers between `result` and `first`, and the
untouched rest. The filter works because the writes are listed in trace order: one
that shadows the write being asked about comes later in the trace, so it is in
the untouched rest, and the leftovers are good writes too (lemma `GoesIsExact`).

`VerifierProofs`. `ReplayInv` adds to the trace's `IInv` that events are well formed
and the types of the replay's maps. Each kind of event has a lemma that maps
`Replay` to the program's step. `lockIdToThread` keeps the last holder after a
release; the mapping reads it only where the status says "taken", and the lemma for
releases is where that is used. `VerdictTheorem`: `MapsExact` in `VerdictInv` says what each
map knows of the elements replayed (how many of a thread, the value of the last
access, whether every acquire has been released), so that each check of the loop is the
rule of `Legal` for the next position (`ThreadRule`, `LockRule`, `ReadRule`), and a
sequence that was illegal once stays so.

`PredictionProofs`. `LoopsInv`: `InStep` says that iterator, index and number of answers
are one; `RacesLogged` that a race to be logged in binary is in the file, whatever
fails later, which holds because only `OpenLogs`, which resets the race count,
truncates the binary log. `ReadInv`: the lengths
put back give the words consumed so far; as `Flat` is recursive, `FlatInv` speaks of
every function that satisfies its equation, and the proof shows there is one. `TextInv`:
each numbering is one-to-one onto the first numbers, so that `Cardinality` of the names
bounds the numbers; `FieldsRoundTrip` does the rest. `FieldsRoundTrip` and
`OverflowGoesUp` compare sets of bit positions: each field's bits lie in its own interval.

Only model-checked: the liveness properties `BuildReturns`, `Ends` and `SolveReturns`, as
the provers treat neither fairness nor ENABLED. The violated properties of section 4
are refuted by TLC on an instance, which suffices to refute them.

## 6. Plan

Done: the modules and theorems above. Still worth doing, in this order:

1. `WitnessIsReal` for nested regions as well, with a premise finer than "cut while
   holding a lock"; then its theorem.
2. That `PhiReads` and `generalGoodWritesFilter` of `CausalModel` are what `PhiBuilder` and
   `GoodWritesFilter` compute, as theorems over both modules; so far the
   definitions agree by inspection and each side is proved.
3. The verifier on the witnesses `ModelLogger` writes: where `WitnessIsReal` has no exception,
   `Legal` of its prefix follows.

## 7. Not modelled

`fromBinaryFile` is one read of the whole file into the vector that `createTrace`
takes, with a test of its size: pure I/O. Console logging, the wording of
`prettyString`, time and memory measurements, file names and messages, and the third-party
`BSlogger.hpp` have no state a property could be about. The inside of Z3 is taken to
return any solution of the constraints. `Prediction` does not compute what the
candidates or the witnesses are; `CausalModel`, `ModelLogger` and `WitnessFile` do, on
instances of their own, since one module with all of them is out of TLC's reach.
A predictor that is killed while its file buffers are not flushed is not modelled: a
predictor of `Prediction` ends by itself or by an exception that `main` catches, and
either way its files are closed.
