--------------------------- MODULE ExperimentScripts ---------------------------
(***************************************************************************)
(* The scripts that measure: run_baseline, run_loop_order, run_blocking,   *)
(* run_packing, run_simd, run_multithreading and run_compiler_options.     *)
(* One of them is run again and again with the same result directory,      *)
(* while a developer edits and commits.  A script is a list of commands    *)
(* under set -euo pipefail: the first that fails ends it.                  *)
(*                                                                         *)
(* The contents of the source files are a number, a new one for each edit. *)
(* HEAD is the last commit of history; a commit is its position there.     *)
(* gemm_benchmark is what Benchmark shows of it: exit status 0 only after  *)
(* every shape was verified, and a CSV file that is written at the end.    *)
(***************************************************************************)
EXTENDS Integers, SequencesExt

CONSTANTS Experiments,    \* kernels, block sizes, thread counts or levels
          Selections,     \* the lists of experiments a script may be asked for
          MaxEdits,       \* bound on the edits of the source files
          MaxCommits,     \* bound on the commits
          EditsDuringRun  \* whether the developer works while a script runs

ASSUME SelectionsAssumption == Selections \subseteq Seq(Experiments) \ {<<>>}
ASSUME BoundsAssumption ==
  MaxEdits \in Nat \ {0} /\ MaxCommits \in Nat \ {0} /\ EditsDuringRun \in BOOLEAN

VARIABLES
  script,   \* the script that is run
  in_tree,  \* whether its result directory lies in the worktree
  source,   \* contents of the source files in the worktree
  edits,    \* number of the latest edit
  history,  \* the source files of each commit
  results,  \* the result files: system-info.txt and a CSV file per experiment
  kept,     \* the same files as they were last committed
  changed,  \* whether a result file was written since (each has a time stamp)
  build,    \* per build directory the source its binary was built from, and
            \* whether that binary has passed ctest
  chosen,   \* the experiments of the last run
  plan,     \* the commands it still has to run
  done,     \* the experiments it has measured
  status,   \* "idle" before the first run, "running", "finished" or "stopped"
  disturbed \* whether the developer did something since the run began

treeVars == <<source, edits, history>>
resultVars == <<results, kept, changed>>
runVars == <<plan, done, status>>
vars == <<script, in_tree, treeVars, resultVars, build, chosen, runVars, disturbed>>

Scripts == {"baseline", "release", "multithreading", "compiler-options"}
Directories == {"release"} \cup Experiments
None == [source |-> 0, verified |-> FALSE]
NoInfo == [commit |-> 0, dirty |-> FALSE]

HeadCommit == Len(history)
\* git status --porcelain prints something.
Dirty == source # history[HeadCommit] \/ (in_tree /\ changed)

Init ==
  /\ script \in Scripts /\ in_tree \in BOOLEAN
  /\ source = 1 /\ edits = 1 /\ history = <<1>>
  /\ results = [info |-> NoInfo, csv |-> [e \in Experiments |-> None]]
  /\ kept = results /\ changed = FALSE
  /\ build = [d \in Directories |-> [source |-> 0, tested |-> FALSE]]
  /\ chosen = <<>> /\ plan = <<>> /\ done = {}
  /\ status = "idle" /\ disturbed = FALSE
-------------------------------------------------------------------------------
(* What the scripts consist of *)

Command(name, directory, experiment) ==
  [name |-> name, directory |-> directory, experiment |-> experiment]
Simple(name) == <<Command(name, "release", "none")>>

BuildAndTest(d) == <<Command("build", d, "none"), Command("ctest", d, "none")>>
BenchAll(list) == [x \in DOMAIN list |-> Command("benchmark", "release", list[x])]

SlipBuildEach(list) ==
  FlattenSeq([x \in DOMAIN list |-> BuildAndTest("release") \o <<BenchAll(list)[x]>>])

ReleaseRuns(list) == BuildAndTest("release") \o BenchAll(list)

LevelRuns(list) ==
  [x \in 1 .. 3 * Len(list) |->
     LET level == list[(x + 2) \div 3]
     IN  CASE x % 3 = 1 -> Command("build", level, "none")
           [] x % 3 = 2 -> Command("ctest", level, "none")
           [] x % 3 = 0 -> Command("benchmark", level, level)]

\* run_loop_order, run_blocking, run_packing and run_simd differ only in their
\* experiments (and the test of the CPU, which may stop any run at its start).
PlanOf(list) ==
  CASE script = "baseline" ->
         BuildAndTest("release") \o Simple("collect_system_info") \o BenchAll(list)
    [] script = "release" ->
         Simple("gate") \o Simple("collect_system_info") \o ReleaseRuns(list)
    [] script = "multithreading" ->
         Simple("gate") \o Simple("collect_system_info") \o ReleaseRuns(list)
         \o Simple("counters")
    [] script = "compiler-options" ->
         Simple("gate") \o Simple("collect_system_info") \o LevelRuns(list)

Gated == script # "baseline"

Start ==
  /\ status # "running"
  /\ \E list \in Selections :
       /\ script = "baseline" => Len(list) = 1
       /\ plan' = PlanOf(list) /\ chosen' = list
  /\ done' = {} /\ status' = "running" /\ disturbed' = FALSE
  /\ UNCHANGED <<script, in_tree, treeVars, resultVars, build>>
-------------------------------------------------------------------------------
(* The commands *)

Runs(name) == status = "running" /\ Head(plan).name = name

\* (The definitions named Slip... are plausible mistakes in the definition after
\* them.  No specification uses them; they show which property notices.)
SlipNotesFailure(ok) ==
  /\ plan' = Tail(plan)
  /\ status' = IF ok /\ Tail(plan) # <<>> THEN "running" ELSE "stopped"

SlipNoSetE(ok) ==
  /\ plan' = Tail(plan)
  /\ status' = IF Tail(plan) = <<>> THEN "finished" ELSE "running"

\* set -e: the script goes on after a command that succeeded only.
Continue(ok) ==
  /\ plan' = IF ok THEN Tail(plan) ELSE <<>>
  /\ status' = IF ~ok THEN "stopped"
               ELSE IF Tail(plan) = <<>> THEN "finished" ELSE "running"

\* A signal, a failing mkdir, the missing AVX2: the script ends between commands.
Stop ==
  /\ status = "running"
  /\ plan' = <<>> /\ status' = "stopped"
  /\ UNCHANGED <<script, in_tree, treeVars, resultVars, build, chosen, done, disturbed>>

Gate ==
  /\ Runs("gate")
  /\ Continue(~Dirty)
  /\ UNCHANGED <<script, in_tree, treeVars, resultVars, build, chosen, done, disturbed>>

SlipDirtyFile == [commit |-> HeadCommit, dirty |-> Dirty \/ in_tree]

\* HEAD and the state of the worktree are read before the file is opened.
Recorded == [commit |-> HeadCommit, dirty |-> Dirty]

\* The file may be written although the script fails, on the cache of a build
\* directory that does not exist yet.
CollectSystemInfo ==
  /\ Runs("collect_system_info")
  /\ results' = [results EXCEPT !.info = Recorded]
  /\ changed' = TRUE /\ kept' = kept
  /\ \E ok \in BOOLEAN : Continue(ok)
  /\ UNCHANGED <<script, in_tree, treeVars, build, chosen, done, disturbed>>

\* cmake and cmake --build.  A failed build may leave the old binary or a new one.
Build ==
  /\ Runs("build")
  /\ \E ok, linked \in BOOLEAN :
       /\ ok => linked
       /\ build' = IF linked
                   THEN [build EXCEPT ![Head(plan).directory] =
                           [source |-> source, tested |-> FALSE]]
                   ELSE build
       /\ Continue(ok)
  /\ UNCHANGED <<script, in_tree, treeVars, resultVars, chosen, done, disturbed>>

Ctest ==
  /\ Runs("ctest")
  /\ \E ok \in BOOLEAN :
       /\ build' = [build EXCEPT ![Head(plan).directory].tested = ok]
       /\ Continue(ok)
  /\ UNCHANGED <<script, in_tree, treeVars, resultVars, chosen, done, disturbed>>

\* The exit status of gemm_benchmark | tee.
SlipLastCommand(benchmark, tee) == tee
PipelineOk(benchmark, tee) == benchmark /\ tee

\* A benchmark that fails leaves the CSV file as it was, or writes one with
\* shapes that have not passed.  written means that the file was opened, without
\* which the program does not succeed; that rows of it may be lost on the disk
\* nonetheless (DiskFull of Benchmark) is not told apart here.
RunBenchmark ==
  /\ Runs("benchmark")
  /\ \E ok, tee, written \in BOOLEAN :
       /\ ok => written
       /\ results' =
            IF written
            THEN [results EXCEPT !.csv[Head(plan).experiment] =
                    [source |-> build[Head(plan).directory].source, verified |-> ok]]
            ELSE results
       /\ changed' = (changed \/ written) /\ kept' = kept
       /\ done' = IF written THEN done \cup {Head(plan).experiment} ELSE done
       /\ Continue(PipelineOk(ok, tee))
  /\ UNCHANGED <<script, in_tree, treeVars, build, chosen, disturbed>>

\* The counter workloads, which skip the verification and write files of their own.
\* Without perf the script ends here with status 0.
Counters ==
  /\ Runs("counters")
  /\ \E ok \in BOOLEAN : Continue(ok)
  /\ changed' = TRUE
  /\ UNCHANGED <<script, in_tree, treeVars, results, kept, build, chosen, done, disturbed>>
-------------------------------------------------------------------------------
(* The developer *)

MayWork == status # "running" \/ EditsDuringRun

Edit ==
  /\ MayWork /\ edits < MaxEdits
  /\ edits' = edits + 1 /\ source' = edits + 1
  /\ disturbed' = TRUE
  /\ UNCHANGED <<script, in_tree, history, resultVars, build, chosen, runVars>>

\* git commit of everything, the result files included when they are in the tree.
Commit ==
  /\ MayWork /\ Dirty /\ HeadCommit < MaxCommits
  /\ history' = Append(history, source)
  /\ IF in_tree THEN kept' = results /\ changed' = FALSE
                ELSE UNCHANGED <<kept, changed>>
  /\ disturbed' = TRUE
  /\ UNCHANGED <<script, in_tree, source, edits, results, build, chosen, runVars>>

\* git restore and git clean; not while a script writes its results.
Discard ==
  /\ status # "running" /\ Dirty
  /\ source' = history[HeadCommit]
  /\ IF in_tree THEN results' = kept /\ changed' = FALSE
                ELSE UNCHANGED <<results, changed>>
  /\ done' = {} /\ status' = "idle" /\ disturbed' = TRUE
  /\ UNCHANGED <<script, in_tree, edits, history, kept, build, chosen, plan>>

Next ==
  \/ Start \/ Stop
  \/ Gate \/ CollectSystemInfo \/ Build \/ Ctest \/ RunBenchmark \/ Counters
  \/ Edit \/ Commit \/ Discard

Spec == Init /\ [][Next]_vars
-------------------------------------------------------------------------------
Csv(e) == results.csv[e]

TypeOK ==
  /\ source \in 1 .. edits /\ edits \in 1 .. MaxEdits
  /\ \A h \in DOMAIN history : history[h] \in 1 .. edits
  /\ \A d \in Directories : build[d].source \in 0 .. edits
  /\ \A e \in Experiments : Csv(e).source \in 0 .. edits
  /\ done \subseteq ToSet(chosen)
  /\ status \in {"idle", "running", "finished", "stopped"}
  /\ plan = <<>> <=> status # "running"

\* Nothing is measured but a binary that has passed ctest itself: not the one
\* of an earlier run that a failed build left in the directory.
MeasuredAfterItsTests ==
  Runs("benchmark") \/ Runs("counters") => build[Head(plan).directory].tested

\* A script that ends with status 0 has measured every experiment it was asked
\* for and each of them was verified: tee does not hide a failed benchmark.
\* The same is so before the unverified counter workloads, and they run the
\* verified binary (the comment in run_multithreading.sh, line 94).
FinishedMeansVerified ==
  status = "finished" \/ Runs("counters") =>
    \A x \in DOMAIN chosen :
      /\ chosen[x] \in done /\ Csv(chosen[x]).verified
      /\ Runs("counters") => Csv(chosen[x]).source = build["release"].source

\* As long as nobody works in the tree during the run, system-info.txt names
\* the source of everything the run has measured: the commit is right unless
\* the file says the worktree was dirty, and behind the gate it never says so,
\* although the script writes into the worktree it has found clean.
RecordIdentifiesSource ==
  ~disturbed /\ done # {} =>
    /\ Gated => ~results.info.dirty
    /\ ~results.info.dirty =>
         \A e \in done : Csv(e).source = history[results.info.commit]

\* The experiments a script compares come from one binary, whatever is edited or
\* committed while it runs: the sources are read once, by the build in front.
\* (run_compiler_options builds once per level.)
OneBinaryPerComparison ==
  script # "compiler-options" => \A d, e \in done : Csv(d).source = Csv(e).source

\* run_blocking.sh, line 10: "results identify one exact source revision".  When
\* a gated script has ended, all the files in its result directory come from
\* the commit its system-info.txt names.
ResultsIdentifyOneRevision ==
  Gated /\ status \in {"finished", "stopped"} /\ ~disturbed =>
    \A e \in Experiments :
      Csv(e) # None => Csv(e).source = history[results.info.commit]
===============================================================================
