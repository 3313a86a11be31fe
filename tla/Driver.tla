------------------------------- MODULE Driver -------------------------------
(***************************************************************************)
(* The command line driver (tools/driver/main.cpp): it follows imports     *)
(* from the input to a graph of modules, compiles the modules in parallel, *)
(* reuses the segments earlier invocations left in the cache directory and *)
(* links the segments into one program.                                    *)
(*                                                                         *)
(* A module is a directory; its sources are one content, a version, and    *)
(* what a version imports and what it clashes with are constants.  A       *)
(* compiled segment is known by its recipe: the flags and the versions of  *)
(* the module and of everything it was compiled against.  Hashes are taken *)
(* to be collision free, so a module hash is a version and a fingerprint   *)
(* is the versions it covers.                                              *)
(***************************************************************************)
EXTENDS Naturals, FiniteSets, Sequences, Functions

CONSTANTS
    Dirs,            \* module directories that may exist
    Contents(_),     \* the versions a directory may hold, 0 if it may be absent
    Absent0,         \* directories absent at first
    Runnable,        \* single files, and directories with a main source
    Names(_, _),     \* names imported by a version of a directory, in order
    Candidates(_, _),\* where a directory looks for a name, in order
    Clashes,         \* <<d, v, e, w>>: version v of d is in error where e is w
    Options,         \* the command lines: root, command, force, clean, flags, jobs
    MaxEvents, MaxRuns  \* edits and crashes, and invocations

ASSUME OptionsAssumption ==
    \A o \in Options : /\ o.root \in Dirs
                       /\ o.command \in {"run", "compile", "check"}
                       /\ o.force \in SUBSET {"run", "no-run"}
                       /\ o.clean \in BOOLEAN
                       /\ o.flags \in Nat
                       /\ o.jobs \in Nat \ {0}

\* A version names its imports; they are looked for in directories.
ASSUME ImportsAssumption ==
    \A d \in Dirs : \A v \in Contents(d) \cup {0, 1} :
        /\ Names(d, v) \in Seq(STRING)
        /\ \A i \in 1 .. Len(Names(d, v)) : Candidates(d, Names(d, v)[i]) \in Seq(Dirs)

VARIABLES
    content,    \* the version of each directory
    analysis,   \* module_analysis_cache.v1: imports by directory
    builds,     \* module_build_cache.v1: entries by directory
    artifact,   \* the segment file of each directory
    output,     \* the linked program
    pc, opt,
    cache, dirty,           \* the analysis cache in memory
    stack, units, order,    \* the traversal, the module graph, the build order
    entries, touched,       \* the build cache in memory
    reuse, phase, table,    \* the compile tasks
    report,                 \* the modules reported in error
    unsaved,                \* segments written since the build cache was saved
    events, runs            \* bounds

disk   == <<content, analysis, builds, artifact, output>>
graph  == <<cache, dirty, stack, units, order>>
tasks  == <<entries, touched, reuse, phase, table>>
counts == <<events, runs>>
memory == <<opt, graph, tasks, report>>
vars   == <<disk, pc, memory, unsaved, counts>>

None == << >>

NoFile == [flags |-> 0, of |-> {}]

\* A file that was opened and truncated: part of a segment.
Torn == [flags |-> 1, of |-> {}]

Range0(s) == {s[i] : i \in 1 .. Len(s)}

\* f with x for d.
With(f, d, x) == [e \in DOMAIN f \cup {d} |-> IF e = d THEN x ELSE f[e]]

NoOption ==
    [root |-> None, command |-> "", force |-> {}, clean |-> FALSE, flags |-> 0,
     jobs |-> 0]

Init ==
    /\ content = [d \in Dirs |-> IF d \in Absent0 THEN 0 ELSE 1]
    /\ analysis = None /\ builds = None
    /\ artifact = [d \in Dirs |-> NoFile]
    /\ output = None
    /\ pc = "idle" /\ opt = NoOption
    /\ cache = None /\ dirty = FALSE
    /\ stack = None /\ units = None /\ order = None
    /\ entries = None /\ touched = FALSE
    /\ reuse = {} /\ phase = None /\ table = None
    /\ report = None
    /\ unsaved = {}
    /\ events = 0 /\ runs = 0

-----------------------------------------------------------------------------
(* The environment: sources are edited, added and removed at any time, the *)
(* driver is killed at any time, and its invocations follow each other.    *)

\* A content is only looked at while modules are discovered, so that an edit
\* after that is one between invocations.
Edit(d, v) ==
    /\ pc \in {"idle", "discovering"} /\ events < MaxEvents
    /\ v # content[d]
    /\ content' = [content EXCEPT ![d] = v]
    /\ events' = events + 1
    /\ UNCHANGED <<analysis, builds, artifact, output, pc, memory, unsaved,
                   runs>>

\* The process ends: what is left is what is on the disk.
Exit ==
    /\ pc' = "idle"
    /\ opt' = NoOption
    /\ cache' = None /\ dirty' = FALSE
    /\ stack' = None /\ units' = None /\ order' = None
    /\ entries' = None /\ touched' = FALSE
    /\ reuse' = {} /\ phase' = None /\ table' = None
    /\ report' = None

Crash ==
    /\ pc # "idle" /\ events < MaxEvents
    /\ Exit
    /\ events' = events + 1
    /\ UNCHANGED <<disk, unsaved, runs>>

-----------------------------------------------------------------------------
(* Following imports                                                       *)

ExistingOnly(c) == Restrict(c, {d \in DOMAIN c : content[d] # 0})

\* Faulty: an entry of an older content is used.
CachedImportsOld(c, d, flags) ==
    /\ d \in DOMAIN c
    /\ c[d].flags = flags

\* Imports are taken from the cache where the content and the flags are the
\* ones they were extracted for.
CachedImports(c, d, flags) ==
    /\ d \in DOMAIN c
    /\ c[d].hash = content[d]
    /\ c[d].flags = flags

ImportsOf(c, d, flags) ==
    IF CachedImports(c, d, flags) THEN c[d].imports ELSE Names(d, content[d])

\* updateImportCache: what the cache holds once the imports of d are known.
Remembered(c, d, flags) ==
    With(c, d, [hash    |-> content[d],
                flags   |-> flags,
                imports |-> ImportsOf(c, d, flags)])

\* The first candidate that exists, if one does.
Resolved(d, name) ==
    LET c     == Candidates(d, name)
        found == {i \in 1 .. Len(c) : content[c[i]] # 0}
    IN  {c[i] : i \in {i \in found : \A j \in found : i <= j}}

OnStack == {stack[i].dir : i \in 1 .. Len(stack)}

\* A directory is read when it is first met: the content it has then is the
\* one the whole invocation uses.
Visit(c, d, flags) ==
    [dir |-> d, version |-> content[d], todo |-> ImportsOf(c, d, flags),
     deps |-> None]

\* parseArgs: --run and --no-run exclude each other, and check allows neither.
Accepted(o) ==
    /\ o.force # {"run", "no-run"}
    /\ o.command = "check" => o.force = {}

Executes(o) == o.force = {"run"} \/ (o.command = "run" /\ o.force = {})

\* main up to discoverModuleGraph: the analysis cache is loaded and pruned,
\* and the root is read.
Invoke(o) ==
    /\ pc = "idle" /\ runs < MaxRuns
    /\ Accepted(o) /\ content[o.root] # 0
    /\ runs' = runs + 1
    /\ opt' = o
    /\ pc' = "discovering"
    /\ LET kept == ExistingOnly(analysis) IN
       /\ stack' = <<Visit(kept, o.root, o.flags)>>
       /\ cache' = Remembered(kept, o.root, o.flags)
       /\ dirty' = (Remembered(kept, o.root, o.flags) # analysis)
    /\ UNCHANGED <<disk, units, order, tasks, report, unsaved, events>>

AddTo(seq, e) == IF e \in Range0(seq) THEN seq ELSE Append(seq, e)

\* One import of the directory on top of the stack.
Descend ==
    /\ pc = "discovering" /\ stack # None /\ stack[1].todo # None
    /\ LET top == stack[1] IN
       \E d \in Resolved(top.dir, Head(top.todo)) \ OnStack :
          LET told == [top EXCEPT !.todo = Tail(@), !.deps = AddTo(@, d)] IN
          IF d \in DOMAIN units
          THEN /\ stack' = <<told>> \o Tail(stack)
               /\ UNCHANGED <<cache, dirty>>
          ELSE /\ stack' = <<Visit(cache, d, opt.flags), told>> \o Tail(stack)
               /\ cache' = Remembered(cache, d, opt.flags)
               /\ dirty' = (dirty \/ cache' # cache)
    /\ UNCHANGED <<disk, pc, opt, units, order, tasks, report, unsaved, counts>>

\* A name that resolves to no directory, or to one that is being visited, ends
\* the invocation; what was extracted so far is not saved.
Refuse ==
    /\ pc = "discovering" /\ stack # None /\ stack[1].todo # None
    /\ Resolved(stack[1].dir, Head(stack[1].todo)) \subseteq OnStack
    /\ Exit
    /\ UNCHANGED <<disk, unsaved, counts>>

\* A directory all of whose imports are known joins the build order.
Leave ==
    /\ pc = "discovering" /\ stack # None /\ stack[1].todo = None
    /\ units' = With(units, stack[1].dir, [version |-> stack[1].version,
                                           deps    |-> stack[1].deps])
    /\ order' = Append(order, stack[1].dir)
    /\ stack' = Tail(stack)
    /\ pc' = IF Len(stack) > 1 THEN "discovering"
             ELSE IF dirty THEN "save analysis" ELSE "discovered"
    /\ UNCHANGED <<disk, opt, cache, dirty, tasks, report, unsaved, counts>>

\* What loading the file finds when the driver was killed while writing it:
\* the entries that are complete, or none where an entry is malformed.
TornAnalysis(c) == {Restrict(c, kept) : kept \in SUBSET DOMAIN c}

\* saveModuleAnalysisCache: the file is truncated and written entry by entry.
SaveAnalysis ==
    \/ /\ pc = "save analysis" /\ pc' = "analysis open"
       /\ analysis' \in TornAnalysis(cache)
       /\ UNCHANGED <<content, builds, artifact, output, opt, graph,
                      tasks, report, unsaved, counts>>
    \/ /\ pc = "analysis open" /\ pc' = "discovered"
       /\ analysis' = cache
       /\ UNCHANGED <<content, builds, artifact, output, opt, graph,
                      tasks, report, unsaved, counts>>

-----------------------------------------------------------------------------
(* What is compiled and what is reused                                     *)

Deps(d) == Range0(units[d].deps)

\* computeModuleFingerprints: the version of a module and the fingerprints of
\* its dependencies, which are before it in the build order.
FingerprintsOf(us) ==
    LET print[d \in DOMAIN us] ==
            {<<d, us[d].version>>} \cup UNION {print[e] : e \in Range0(us[d].deps)}
    IN  print

Fingerprints == FingerprintsOf(units)

Whole(f) == f # NoFile

PrunedEntries == Restrict(builds, {d \in DOMAIN builds : Whole(artifact[d])})

\* Faulty: what the module is compiled against is not looked at.
ReusableBySource(entry, d, print, flags) ==
    /\ Whole(artifact[d])
    /\ entry.hash = units[d].version
    /\ entry.flags = flags

\* A module is reused if its segment exists and it is compiled from the same
\* sources, against the same sources, under the same flags.
Reusable(entry, d, print, flags) ==
    /\ Whole(artifact[d])
    /\ entry.hash = units[d].version
    /\ entry.print = print
    /\ entry.flags = flags

\* Two versions of two modules that do not go together make the importer fail,
\* and a version may be in error by itself; sees are the versions it is
\* compiled from and against.
Compiles(d, sees) ==
    \A s \in sees :
        s[1] \in Deps(d) \cup {d} => <<d, units[d].version, s[1], s[2]>> \notin Clashes

\* The modules among ds, in build order.
InOrder(ds) == SelectSeq(order, LAMBDA d : d \in ds)

\* The sources of a module and of what it imports, compiled by themselves.
Goes(d) == Compiles(d, {<<e, units[e].version>> : e \in Deps(d) \cup {d}})

\* checkModuleGraphSymbolsOnly: each module is looked at after those it imports.
Fails ==
    LET fails[d \in DOMAIN units] == (\E e \in Deps(d) : fails[e]) \/ ~Goes(d)
    IN  fails

Failing == InOrder({d \in DOMAIN units : Fails[d]})

\* The check command, and a program without an entry point.
Check ==
    /\ pc = "discovered"
    /\ opt.command = "check" \/ (Executes(opt) /\ opt.root \notin Runnable)
    /\ Exit
    /\ UNCHANGED <<disk, unsaved, counts>>

\* The build cache is loaded and pruned, what can be reused is decided, and a
\* task is started for each module.
Plan ==
    /\ pc = "discovered"
    /\ opt.command # "check" /\ (Executes(opt) => opt.root \in Runnable)
    /\ entries' = PrunedEntries
    /\ touched' = (PrunedEntries # builds)
    /\ reuse' = LET prints == Fingerprints IN
                {d \in Range0(order) \cap DOMAIN PrunedEntries :
                    Reusable(PrunedEntries[d], d, prints[d], opt.flags)}
    /\ phase' = [d \in Range0(order) |-> "started"]
    /\ pc' = "building"
    /\ UNCHANGED <<disk, opt, graph, table, report, unsaved, counts>>

-----------------------------------------------------------------------------
(* The compile tasks                                                       *)

Ended == {d \in DOMAIN phase : phase[d] \in {"done", "failed"}}

\* Faulty: a task whose compile failed keeps its slot.
ActiveLeaking == Cardinality({d \in DOMAIN phase : phase[d] \in {"working", "failed"}})

Active == Cardinality({d \in DOMAIN phase : phase[d] = "working"})

\* A task waits for its dependencies before it asks for a slot, and gives up
\* when one of them failed.
Wait(d) ==
    /\ pc = "building" /\ d \in DOMAIN phase /\ phase[d] = "started"
    /\ Deps(d) \subseteq Ended
    /\ phase' = [phase EXCEPT ![d] =
          IF \E e \in Deps(d) : phase[e] = "failed" THEN "failed" ELSE "waiting"]
    /\ UNCHANGED <<disk, pc, opt, graph, entries, touched, reuse, table,
                   report, unsaved, counts>>

\* TaskLimiter::acquire, and the segment is truncated for a module that is
\* compiled again.
Acquire(d) ==
    /\ pc = "building" /\ d \in DOMAIN phase /\ phase[d] = "waiting"
    /\ Active < opt.jobs
    /\ phase' = [phase EXCEPT ![d] = "working"]
    /\ IF d \in reuse
       THEN UNCHANGED <<artifact, unsaved>>
       ELSE /\ artifact' = [artifact EXCEPT ![d] = Torn]
            /\ unsaved' = unsaved \cup {d}
    /\ UNCHANGED <<content, analysis, builds, output, pc, opt, graph,
                   entries, touched, reuse, table, report, counts>>

\* The versions a module is compiled from and against: its own symbols and
\* those of its dependencies, as their tasks handed them on.
Compiled(d) ==
    {<<d, units[d].version>>} \cup UNION {table[e] : e \in Deps(d)}

\* compileModuleToSegment: a failing compile removes the segment.
Segment(d, ok) == IF ok THEN [flags |-> opt.flags, of |-> Compiled(d)] ELSE NoFile

\* compileModuleSymbolsOnly for a module that is reused; compileModuleToSegment
\* and, if it succeeds, a new entry for one that is not.
Finish(d) ==
    /\ pc = "building" /\ d \in DOMAIN phase /\ phase[d] = "working"
    /\ LET ok == Compiles(d, Compiled(d)) IN
       /\ phase' = [phase EXCEPT ![d] = IF ok THEN "done" ELSE "failed"]
       /\ IF ok THEN table' = With(table, d, Compiled(d)) ELSE UNCHANGED table
       /\ IF d \in reuse THEN UNCHANGED <<artifact, unsaved>>
          ELSE /\ artifact' = [artifact EXCEPT ![d] = Segment(d, ok)]
               /\ unsaved' = IF ok THEN unsaved ELSE unsaved \ {d}
       /\ IF ok /\ d \notin reuse
          THEN /\ entries' = With(entries, d, [hash  |-> units[d].version,
                                               print |-> Fingerprints[d],
                                               flags |-> opt.flags])
               /\ touched' = TRUE
          ELSE UNCHANGED <<entries, touched>>
    /\ UNCHANGED <<content, analysis, builds, output, pc, opt, graph,
                   reuse, report, counts>>

\* Faulty: a module given up because of a dependency is not reported.
GatherCauses ==
    /\ pc = "building" /\ Ended = DOMAIN phase
    /\ report' = InOrder({d \in DOMAIN phase :
          phase[d] = "failed" /\ \A e \in Deps(d) : phase[e] # "failed"})
    /\ pc' = IF \E d \in DOMAIN phase : phase[d] = "failed" THEN "report"
             ELSE IF touched THEN "save builds" ELSE "link"
    /\ UNCHANGED <<disk, opt, graph, tasks, unsaved, counts>>

\* The futures are read in build order; the build cache is given up when a
\* module failed.
Gather ==
    /\ pc = "building" /\ Ended = DOMAIN phase
    /\ report' = InOrder({d \in DOMAIN phase : phase[d] = "failed"})
    /\ pc' = IF \E d \in DOMAIN phase : phase[d] = "failed" THEN "report"
             ELSE IF touched THEN "save builds" ELSE "link"
    /\ UNCHANGED <<disk, opt, graph, tasks, unsaved, counts>>

Report ==
    /\ pc = "report"
    /\ Exit
    /\ UNCHANGED <<disk, unsaved, counts>>

TornBuilds(c) == {Restrict(c, kept) : kept \in SUBSET DOMAIN c}

SaveBuilds ==
    \/ /\ pc = "save builds" /\ pc' = "builds open"
       /\ builds' \in TornBuilds(entries)
       /\ UNCHANGED <<content, analysis, artifact, output, opt, graph,
                      tasks, report, unsaved, counts>>
    \/ /\ pc = "builds open" /\ pc' = "link"
       /\ builds' = entries
       /\ unsaved' = unsaved \ (Range0(order) \ reuse)
       /\ UNCHANGED <<content, analysis, artifact, output, opt, graph,
                      tasks, report, counts>>

-----------------------------------------------------------------------------
(* Linking, running and cleaning up                                        *)

\* concatenateModuleSegments: the segments in build order, each without its
\* end marker except the last.
Link ==
    /\ pc = "link" /\ pc' = "linked"
    /\ output' = [i \in 1 .. Len(order) |-> artifact[order[i]]]
    /\ UNCHANGED <<content, analysis, builds, artifact, opt, graph,
                   tasks, report, unsaved, counts>>

\* The program runs, if it is to, unless a native module it needs is missing;
\* --clean removes what was written, however the program ended.
Complete ==
    /\ pc = "linked"
    /\ Exit
    /\ \/ /\ opt.clean
          /\ analysis' = None /\ builds' = None
          /\ artifact' = [d \in Dirs |-> NoFile]
          /\ output' = None
          /\ unsaved' = {}
       \/ /\ opt.clean => Executes(opt)
          /\ UNCHANGED <<analysis, builds, artifact, output, unsaved>>
    /\ UNCHANGED <<content, counts>>

-----------------------------------------------------------------------------
Driving == \/ Descend \/ Refuse \/ Leave \/ SaveAnalysis \/ Check \/ Plan
           \/ Gather \/ Report \/ SaveBuilds \/ Link \/ Complete

Task(d) == Wait(d) \/ Acquire(d) \/ Finish(d)

Next == \/ \E d \in Dirs : \E v \in Contents(d) : Edit(d, v)
        \/ Crash
        \/ \E o \in Options : Invoke(o)
        \/ Descend \/ Refuse \/ Leave \/ SaveAnalysis \/ Check \/ Plan
        \/ \E d \in Dirs : Wait(d)
        \/ \E d \in Dirs : Acquire(d)
        \/ \E d \in Dirs : Finish(d)
        \/ Gather \/ Report \/ SaveBuilds \/ Link \/ Complete

\* The driver's own thread and the thread of each task make progress while
\* they can; nobody has to edit, to start the driver or to kill it.
Spec == /\ Init /\ [][Next]_vars
        /\ WF_vars(Driving)
        /\ \A d \in Dirs : WF_vars(Task(d))
-----------------------------------------------------------------------------
(* Properties                                                              *)

Known == pc \notin {"idle", "discovering"}

\* The build order holds every module once and after the modules it imports,
\* and each module's dependencies are the ones the content that was read
\* imports, whatever the analysis cache remembered from earlier contents
\* (discoverModuleGraphByDirectory, resolveImportsFromCache).
BuildOrderSound ==
    Known =>
        /\ Range0(order) = DOMAIN units
        /\ Len(order) = Cardinality(DOMAIN units)
        /\ \A i \in 1 .. Len(order) :
              LET d == order[i]
                  names == Range0(Names(d, units[d].version))
              IN  /\ Deps(d) \subseteq Range0(SubSeq(order, 1, i - 1))
                  /\ \A n \in names : Deps(d) \cap Range0(Candidates(d, n)) # {}
                  /\ \A e \in Deps(d) :
                        \E n \in names : e \in Range0(Candidates(d, n))

\* A linked program consists of the segments that compiling every module now
\* would give, whatever was edited, added, removed or interrupted in earlier
\* invocations.  The one exception are the segments that an invocation wrote
\* without saving the build cache: an older entry may still stand for them.
LinkedFromSources ==
    pc = "linked" =>
        \A i \in 1 .. Len(order) :
            \/ output[i] = [flags |-> opt.flags, of |-> table[order[i]]]
            \/ order[i] \in unsaved

\* The same without the exception: changed modules and their dependents are
\* compiled again.
LinkedAlwaysCurrent ==
    pc = "linked" =>
        \A i \in 1 .. Len(order) :
            output[i] = [flags |-> opt.flags, of |-> table[order[i]]]

\* What a parallel, cached build reports in error, and in which order, is what
\* checking the modules one after another reports.
ReportsAsCheck == [][Gather => report' = Failing]_vars

\* An invocation ends: no task waits forever for its dependencies or a slot.
InvocationEnds == pc # "idle" ~> pc = "idle"
=============================================================================
