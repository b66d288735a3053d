------------------------ MODULE ExperimentScripts_proofs ------------------------
(***************************************************************************)
(* What TLC checks of ExperimentScripts for two experiments, proved for    *)
(* any lists of experiments, any number of runs and any number of edits    *)
(* and commits before, between and during them.                            *)
(***************************************************************************)
EXTENDS ExperimentScripts, TLAPS

-------------------------------------------------------------------------------
(* The inductive invariant *)

Names == {"gate", "collect_system_info", "build", "ctest", "benchmark", "counters"}
Commands ==
  [name : Names, directory : Directories, experiment : Experiments \cup {"none"}]
CsvFile == [source : 0 .. edits, verified : BOOLEAN]
ResultFiles ==
  [info : [commit : Nat, dirty : BOOLEAN], csv : [Experiments -> CsvFile]]

Types ==
  /\ script \in Scripts /\ in_tree \in BOOLEAN
  /\ edits \in 1 .. MaxEdits /\ source \in 1 .. edits
  /\ history \in Seq(1 .. edits) /\ Len(history) > 0
  /\ results \in ResultFiles /\ kept \in ResultFiles /\ changed \in BOOLEAN
  /\ build \in [Directories -> [source : 0 .. edits, tested : BOOLEAN]]
  /\ chosen \in Seq(Experiments) /\ plan \in Seq(Commands)
  /\ done \subseteq ToSet(chosen) /\ disturbed \in BOOLEAN
  /\ status \in {"idle", "running", "finished", "stopped"}
  /\ plan = <<>> <=> status # "running"

Pending(p, name) == \E i \in 1 .. Len(p) : p[i].name = name

\* The order of the commands of a script.  What is left of a list in this order
\* is in this order.
InOrder(p, list) ==
  \A i \in 1 .. Len(p) :
    /\ p[i].name = "benchmark" => p[i].experiment \in ToSet(list)
    /\ p[i].name = "counters" => i = Len(p) /\ script # "compiler-options"
    /\ script # "compiler-options" => p[i].directory = "release"
    /\ \A j \in i + 1 .. Len(p) :
         /\ p[i].name \in {"benchmark", "collect_system_info"} =>
              p[j].name \notin {"gate", "collect_system_info"}
         /\ p[i].name = "benchmark" /\ script # "compiler-options" => p[j].name # "build"

Builds(c, d) == c.name = "build" /\ c.directory = d
Tests(c, d) == c.name = "ctest" /\ c.directory = d

WillBuild(p, i, d) == \E j \in 1 .. i - 1 : Builds(p[j], d)
NoBuild(p, i, d) == \A l \in 1 .. i - 1 : ~Builds(p[l], d)
WillTest(p, i, d) ==
  \E j \in 1 .. i - 1 : Tests(p[j], d) /\ \A l \in j + 1 .. i - 1 : ~Builds(p[l], d)

\* Before command i uses the binary of directory d, ctest passes on that binary:
\* it still has to run after the last build, or it has and no build is left.
TestedFirst(p, i, d) == WillTest(p, i, d) \/ (build[d].tested /\ NoBuild(p, i, d))

\* And the binary is built from the source files as they are now.
BuiltFirst(p, i, d) == WillBuild(p, i, d) \/ (~disturbed => build[d].source = source)

Prepared(p) ==
  \A i \in 1 .. Len(p) :
    p[i].name \in {"benchmark", "counters"} =>
      TestedFirst(p, i, p[i].directory) /\ BuiltFirst(p, i, p[i].directory)

Order == InOrder(plan, chosen) /\ Prepared(plan)

\* Every experiment asked for has been verified or still has to be measured.
Covered ==
  status \in {"running", "finished"} =>
    \A x \in 1 .. Len(chosen) :
      \/ chosen[x] \in done /\ Csv(chosen[x]).verified
      \/ \E i \in 1 .. Len(plan) : plan[i].name = "benchmark" /\ plan[i].experiment = chosen[x]

\* What has been measured comes from the binary that is there, and nothing is left
\* that would replace it.
SameBinary ==
  script # "compiler-options" /\ done # {} =>
    /\ ~Pending(plan, "build")
    /\ \A e \in done : Csv(e).source = build["release"].source

InfoRight ==
  /\ results.info.commit = HeadCommit
  /\ ~results.info.dirty => source = history[HeadCommit]
  /\ Gated => ~results.info.dirty

\* system-info.txt while nobody but the script has touched the worktree.
Record ==
  /\ done # {} => ~Pending(plan, "collect_system_info")
  /\ ~disturbed =>
       /\ status = "running" /\ ~Pending(plan, "collect_system_info") => InfoRight
       /\ status = "running" /\ Gated /\ Pending(plan, "collect_system_info")
            /\ ~Pending(plan, "gate") => ~Dirty
       /\ done # {} => InfoRight /\ \A e \in done : Csv(e).source = source

IInv == Types /\ Order /\ Covered /\ SameBinary /\ Record

-------------------------------------------------------------------------------
(* The lists of commands the scripts consist of *)

LEMMA Concatenation ==
  ASSUME NEW s \in Seq(Commands), NEW t \in Seq(Commands)
  PROVE  /\ s \o t \in Seq(Commands) /\ Len(s \o t) = Len(s) + Len(t)
         /\ \A i \in 1 .. Len(s) : (s \o t)[i] = s[i]
         /\ \A i \in 1 .. Len(t) : (s \o t)[Len(s) + i] = t[i]
OBVIOUS

LEMMA CommandTypes ==
  ASSUME NEW name \in Names, NEW d \in Directories, NEW e \in Experiments \cup {"none"}
  PROVE  Command(name, d, e) \in Commands
BY DEF Command, Commands

LEMMA CommandFields ==
  ASSUME NEW c, NEW name, NEW d, NEW e, c = Command(name, d, e)
  PROVE  c.name = name /\ c.directory = d /\ c.experiment = e
BY DEF Command

LEMMA Pieces ==
  ASSUME NEW name \in Names, NEW d \in Directories, NEW list \in Seq(Experiments)
  PROVE  /\ Simple(name) \in Seq(Commands) /\ Len(Simple(name)) = 1
         /\ Simple(name)[1] = Command(name, "release", "none")
         /\ BuildAndTest(d) \in Seq(Commands) /\ Len(BuildAndTest(d)) = 2
         /\ BuildAndTest(d)[1] = Command("build", d, "none")
         /\ BuildAndTest(d)[2] = Command("ctest", d, "none")
         /\ BenchAll(list) \in Seq(Commands) /\ Len(BenchAll(list)) = Len(list)
         /\ \A x \in 1 .. Len(list) : BenchAll(list)[x] = Command("benchmark", "release", list[x])
<1>1. Command(name, "release", "none") \in Commands
  BY CommandTypes DEF Directories
<1>2. Command("build", d, "none") \in Commands /\ Command("ctest", d, "none") \in Commands
  BY CommandTypes DEF Names
<1>3. \A x \in 1 .. Len(list) : Command("benchmark", "release", list[x]) \in Commands
  BY CommandTypes DEF Names, Directories
<1>4. BenchAll(list) \in [1 .. Len(list) -> Commands] /\ Len(list) \in Nat
  BY <1>3 DEF BenchAll
<1>5. BenchAll(list) \in Seq(Commands) /\ Len(BenchAll(list)) = Len(list)
  BY <1>4
<1> QED BY <1>1, <1>2, <1>5 DEF Simple, BuildAndTest, BenchAll

\* A script that builds once: h commands, among them the build (at b), ctest (at t)
\* and the system information (at c), then the benchmarks, then the counters or not.
Release(p, list, h) ==
  /\ Len(p) \in Len(list) + h .. Len(list) + h + 1
  /\ \A x \in 1 .. Len(list) : p[h + x] = Command("benchmark", "release", list[x])
  /\ Len(p) = Len(list) + h + 1 =>
       p[Len(list) + h + 1] = Command("counters", "release", "none")
  /\ \A x \in 1 .. h : p[x].name \notin {"benchmark", "counters"} /\ p[x].directory = "release"

LEMMA BaselinePlan ==
  ASSUME script = "baseline", NEW list \in Seq(Experiments)
  PROVE  /\ PlanOf(list) \in Seq(Commands) /\ Release(PlanOf(list), list, 3)
         /\ PlanOf(list)[1].name = "build" /\ PlanOf(list)[2].name = "ctest"
         /\ PlanOf(list)[3].name = "collect_system_info"
<1> DEFINE a == BuildAndTest("release")
           b == Simple("collect_system_info")
           c == BenchAll(list)
           p == PlanOf(list)
<1>1. p = (a \o b) \o c
  BY DEF PlanOf
<1>2. /\ a \in Seq(Commands) /\ b \in Seq(Commands) /\ c \in Seq(Commands)
      /\ Len(a) = 2 /\ Len(b) = 1 /\ Len(c) = Len(list)
      /\ a[1] = Command("build", "release", "none") /\ a[2] = Command("ctest", "release", "none")
      /\ b[1] = Command("collect_system_info", "release", "none")
      /\ \A x \in 1 .. Len(list) : c[x] = Command("benchmark", "release", list[x])
  BY Pieces DEF Names, Directories
<1> HIDE DEF a, b, c
<1>3. /\ a \o b \in Seq(Commands) /\ Len(a \o b) = 3
      /\ (a \o b)[1] = a[1] /\ (a \o b)[2] = a[2] /\ (a \o b)[3] = b[1]
  <2>1. /\ a \o b \in Seq(Commands) /\ Len(a \o b) = Len(a) + Len(b)
        /\ \A i \in 1 .. Len(a) : (a \o b)[i] = a[i]
        /\ \A i \in 1 .. Len(b) : (a \o b)[Len(a) + i] = b[i]
    BY <1>2, Concatenation
  <2>2. 1 \in 1 .. Len(a) /\ 2 \in 1 .. Len(a) /\ 1 \in 1 .. Len(b) /\ Len(a) + 1 = 3
    BY <1>2
  <2> QED BY <1>2, <2>1, <2>2
<1>4. /\ p \in Seq(Commands) /\ Len(p) = 3 + Len(list)
      /\ p[1] = a[1] /\ p[2] = a[2] /\ p[3] = b[1]
      /\ \A x \in 1 .. Len(list) : p[3 + x] = c[x]
  <2> DEFINE ab == a \o b
  <2>1. ab \in Seq(Commands) /\ c \in Seq(Commands) /\ Len(ab) = 3 /\ Len(c) = Len(list)
    BY <1>2, <1>3
  <2>2. p = ab \o c
    BY <1>1
  <2> HIDE DEF ab, p
  <2>3. /\ p \in Seq(Commands) /\ Len(p) = Len(ab) + Len(c)
        /\ \A x \in 1 .. Len(ab) : p[x] = ab[x]
        /\ \A x \in 1 .. Len(c) : p[Len(ab) + x] = c[x]
    <3>1. ab \in Seq(Commands) /\ c \in Seq(Commands)
      BY <2>1
    <3> QED BY ONLY <2>2, <3>1, Concatenation
  <2>4. /\ p \in Seq(Commands) /\ Len(p) = 3 + Len(list)
        /\ \A x \in 1 .. 3 : p[x] = ab[x]
        /\ \A x \in 1 .. Len(list) : p[3 + x] = c[x]
    BY <2>1, <2>3
  <2>5. p[1] = ab[1] /\ p[2] = ab[2] /\ p[3] = ab[3]
    BY <2>4
  <2> QED BY <1>3, <2>4, <2>5 DEF ab
<1> HIDE DEF p
<1>5. \A x \in 1 .. 3 : p[x].name \notin {"benchmark", "counters"} /\ p[x].directory = "release"
  <2>1. \A x \in 1 .. 3 : x = 1 \/ x = 2 \/ x = 3
    OBVIOUS
  <2> QED BY <1>2, <1>4, <2>1 DEF Command
<1>6. Release(p, list, 3)
  BY <1>2, <1>4, <1>5 DEF Release
<1> QED BY <1>2, <1>4, <1>6 DEF p, Command

\* The scripts behind the gate begin with it and with the system information.
LEMMA GatedHead ==
  ASSUME NEW runs \in Seq(Commands),
         NEW p, p = Simple("gate") \o Simple("collect_system_info") \o runs
  PROVE  /\ p \in Seq(Commands) /\ Len(p) = 2 + Len(runs)
         /\ p[1] = Command("gate", "release", "none")
         /\ p[2] = Command("collect_system_info", "release", "none")
         /\ \A x \in 1 .. Len(runs) : p[2 + x] = runs[x]
<1> DEFINE a == Simple("gate")
           b == Simple("collect_system_info")
<1>1. /\ a \in Seq(Commands) /\ b \in Seq(Commands) /\ Len(a) = 1 /\ Len(b) = 1
      /\ a[1] = Command("gate", "release", "none")
      /\ b[1] = Command("collect_system_info", "release", "none")
  <2>1. <<>> \in Seq(Experiments) /\ "release" \in Directories
        /\ "gate" \in Names /\ "collect_system_info" \in Names
    BY DEF Directories, Names
  <2> QED BY <2>1, Pieces
<1>2. p = (a \o b) \o runs
  OBVIOUS
<1> HIDE DEF a, b
<1>3. /\ a \o b \in Seq(Commands) /\ Len(a \o b) = 2
      /\ (a \o b)[1] = a[1] /\ (a \o b)[2] = b[1]
  <2>1. /\ a \o b \in Seq(Commands) /\ Len(a \o b) = Len(a) + Len(b)
        /\ \A i \in 1 .. Len(a) : (a \o b)[i] = a[i]
        /\ \A i \in 1 .. Len(b) : (a \o b)[Len(a) + i] = b[i]
    BY <1>1, Concatenation
  <2>2. 1 \in 1 .. Len(a) /\ 1 \in 1 .. Len(b) /\ Len(a) + 1 = 2
    BY <1>1
  <2> QED BY <1>1, <2>1, <2>2
<1>4. /\ p \in Seq(Commands) /\ Len(p) = 2 + Len(runs)
      /\ p[1] = a[1] /\ p[2] = b[1]
      /\ \A x \in 1 .. Len(runs) : p[2 + x] = runs[x]
  <2> DEFINE ab == a \o b
  <2>1. ab \in Seq(Commands) /\ p = ab \o runs /\ Len(ab) = 2 /\ ab[1] = a[1] /\ ab[2] = b[1]
    BY <1>2, <1>3
  <2> HIDE DEF ab
  <2>2. /\ ab \o runs \in Seq(Commands) /\ Len(ab \o runs) = Len(ab) + Len(runs)
        /\ \A i \in 1 .. Len(ab) : (ab \o runs)[i] = ab[i]
        /\ \A i \in 1 .. Len(runs) : (ab \o runs)[Len(ab) + i] = runs[i]
    BY <2>1, Concatenation
  <2>3. /\ p \in Seq(Commands) /\ Len(p) = Len(ab) + Len(runs)
        /\ \A i \in 1 .. Len(ab) : p[i] = ab[i]
        /\ \A i \in 1 .. Len(runs) : p[Len(ab) + i] = runs[i]
    BY <2>1, <2>2, Zenon
  <2>4. Len(ab) = 2 /\ ab[1] = a[1] /\ ab[2] = b[1] /\ 1 \in 1 .. 2 /\ 2 \in 1 .. 2
    BY <2>1
  <2> QED BY <2>3, <2>4
<1> QED BY <1>1, <1>4

LEMMA ReleasePlan ==
  ASSUME NEW list \in Seq(Experiments), script \in {"release", "multithreading"}
  PROVE  /\ PlanOf(list) \in Seq(Commands) /\ Release(PlanOf(list), list, 4)
         /\ PlanOf(list)[1].name = "gate" /\ PlanOf(list)[2].name = "collect_system_info"
         /\ PlanOf(list)[3].name = "build" /\ PlanOf(list)[4].name = "ctest"
<1> DEFINE a == BuildAndTest("release")
           c == BenchAll(list)
           runs == ReleaseRuns(list)
           p == Simple("gate") \o Simple("collect_system_info") \o runs
           n == Len(list)
<1>1. /\ a \in Seq(Commands) /\ c \in Seq(Commands) /\ Len(a) = 2 /\ Len(c) = n
      /\ a[1] = Command("build", "release", "none") /\ a[2] = Command("ctest", "release", "none")
      /\ \A x \in 1 .. n : c[x] = Command("benchmark", "release", list[x])
      /\ n \in Nat
  BY Pieces DEF Names, Directories
<1>2. runs = a \o c
  BY DEF ReleaseRuns
<1> HIDE DEF a, c
<1>3. /\ runs \in Seq(Commands) /\ Len(runs) = 2 + n /\ runs[1] = a[1] /\ runs[2] = a[2]
      /\ \A x \in 1 .. n : runs[2 + x] = c[x]
  <2>1. /\ a \o c \in Seq(Commands) /\ Len(a \o c) = Len(a) + Len(c)
        /\ \A i \in 1 .. Len(a) : (a \o c)[i] = a[i]
        /\ \A i \in 1 .. Len(c) : (a \o c)[Len(a) + i] = c[i]
    BY <1>1, Concatenation
  <2> QED BY <1>1, <1>2, <2>1
<1> HIDE DEF runs
<1>4. /\ p \in Seq(Commands) /\ Len(p) = 4 + n
      /\ p[1] = Command("gate", "release", "none")
      /\ p[2] = Command("collect_system_info", "release", "none")
      /\ p[3] = Command("build", "release", "none") /\ p[4] = Command("ctest", "release", "none")
      /\ \A x \in 1 .. n : p[4 + x] = Command("benchmark", "release", list[x])
  <2>1. /\ p \in Seq(Commands) /\ Len(p) = 2 + Len(runs)
        /\ p[1] = Command("gate", "release", "none")
        /\ p[2] = Command("collect_system_info", "release", "none")
        /\ \A x \in 1 .. Len(runs) : p[2 + x] = runs[x]
    BY <1>3, GatedHead
  <2> HIDE DEF p
  <2>2. p[2 + 1] = runs[1] /\ p[2 + 2] = runs[2]
    BY <1>1, <1>3, <2>1
  <2>3. ASSUME NEW x \in 1 .. n PROVE p[4 + x] = runs[2 + x]
    <3>1. 2 + x \in 1 .. Len(runs) /\ 2 + (2 + x) = 4 + x
      BY <1>1, <1>3
    <3> QED BY <2>1, <3>1
  <2> QED BY <1>1, <1>3, <2>1, <2>2, <2>3
<1> HIDE DEF p
<1>5. ASSUME NEW r, r \in Seq(Commands), Len(r) \in 4 + n .. 4 + n + 1,
             \A i \in 1 .. 4 + n : r[i] = p[i],
             Len(r) = 4 + n + 1 => r[4 + n + 1] = Command("counters", "release", "none")
      PROVE  /\ Release(r, list, 4) /\ r[1].name = "gate" /\ r[2].name = "collect_system_info"
             /\ r[3].name = "build" /\ r[4].name = "ctest"
  <2>1. r[1] = p[1] /\ r[2] = p[2] /\ r[3] = p[3] /\ r[4] = p[4]
    BY <1>1, <1>5
  <2>2. \A x \in 1 .. 4 : r[x].name \notin {"benchmark", "counters"} /\ r[x].directory = "release"
    <3>1. \A x \in 1 .. 4 : x = 1 \/ x = 2 \/ x = 3 \/ x = 4
      OBVIOUS
    <3> QED BY <1>4, <2>1, <3>1 DEF Command
  <2>3. \A x \in 1 .. n : r[4 + x] = Command("benchmark", "release", list[x])
    BY <1>1, <1>4, <1>5
  <2>4. n + 4 = 4 + n /\ n + 4 + 1 = 4 + n + 1
    BY <1>1
  <2>5. Release(r, list, 4)
    BY <1>5, <2>2, <2>3, <2>4 DEF Release
  <2> QED BY <1>4, <2>1, <2>5 DEF Command
<1>6. CASE script = "release"
  <2>1. PlanOf(list) = p
    BY <1>6 DEF PlanOf, p, runs
  <2>2. Len(p) \in 4 + n .. 4 + n + 1 /\ Len(p) # 4 + n + 1
    BY <1>1, <1>4
  <2>3. /\ Release(p, list, 4) /\ p[1].name = "gate" /\ p[2].name = "collect_system_info"
        /\ p[3].name = "build" /\ p[4].name = "ctest"
    BY <1>4, <1>5, <2>2, Zenon
  <2> QED BY <1>4, <2>1, <2>3, Zenon
<1>7. CASE script = "multithreading"
  <2> DEFINE s == Simple("counters")
             r == PlanOf(list)
  <2>1. r = p \o s
    BY <1>7 DEF PlanOf, p, runs
  <2>2. s \in Seq(Commands) /\ Len(s) = 1 /\ s[1] = Command("counters", "release", "none")
    BY Pieces DEF Names, Directories
  <2> HIDE DEF r, s
  <2>3. /\ r \in Seq(Commands) /\ Len(r) = 4 + n + 1
        /\ \A i \in 1 .. 4 + n : r[i] = p[i]
        /\ r[4 + n + 1] = s[1]
    <3>1. /\ r \in Seq(Commands) /\ Len(r) = Len(p) + Len(s)
          /\ \A i \in 1 .. Len(p) : r[i] = p[i]
          /\ \A i \in 1 .. Len(s) : r[Len(p) + i] = s[i]
      BY <1>4, <2>1, <2>2, Concatenation
    <3> QED BY <1>4, <2>2, <3>1
  <2>4. Len(r) \in 4 + n .. 4 + n + 1
    BY <1>1, <2>3
  <2> QED BY <1>5, <2>2, <2>3, <2>4 DEF r
<1> QED BY <1>6, <1>7

\* run_compiler_options takes each level through build, ctest and benchmark.
LEMMA LevelPlan ==
  ASSUME script = "compiler-options", NEW list \in Seq(Experiments)
  PROVE  /\ PlanOf(list) \in Seq(Commands) /\ Len(PlanOf(list)) = 2 + 3 * Len(list)
         /\ PlanOf(list)[1].name = "gate" /\ PlanOf(list)[2].name = "collect_system_info"
         /\ \A x \in 1 .. Len(list) :
              /\ PlanOf(list)[3 * x] = Command("build", list[x], "none")
              /\ PlanOf(list)[3 * x + 1] = Command("ctest", list[x], "none")
              /\ PlanOf(list)[3 * x + 2] = Command("benchmark", list[x], list[x])
         /\ \A i \in 3 .. 2 + 3 * Len(list) :
              \E x \in 1 .. Len(list) : i = 3 * x \/ i = 3 * x + 1 \/ i = 3 * x + 2
<1> DEFINE n == Len(list)
           runs == LevelRuns(list)
           level(i) == list[(i + 2) \div 3]
<1>1. n \in Nat
  OBVIOUS
<1>2. ASSUME NEW i \in 1 .. 3 * n
      PROVE  /\ i % 3 = 1 => runs[i] = Command("build", level(i), "none")
             /\ i % 3 = 2 => runs[i] = Command("ctest", level(i), "none")
             /\ i % 3 = 0 => runs[i] = Command("benchmark", level(i), level(i))
             /\ runs[i] \in Commands
             /\ \E x \in 1 .. n : i = 3 * x - 2 \/ i = 3 * x - 1 \/ i = 3 * x
  <2>1. (i + 2) \div 3 \in 1 .. n /\ i % 3 \in 0 .. 2
    BY <1>1
  <2>2. level(i) \in Experiments
    BY <2>1
  <2>3. /\ Command("build", level(i), "none") \in Commands
        /\ Command("ctest", level(i), "none") \in Commands
        /\ Command("benchmark", level(i), level(i)) \in Commands
    BY <2>2, CommandTypes DEF Names, Directories
  <2>4. /\ i % 3 = 1 => runs[i] = Command("build", level(i), "none")
        /\ i % 3 = 2 => runs[i] = Command("ctest", level(i), "none")
        /\ i % 3 = 0 => runs[i] = Command("benchmark", level(i), level(i))
    BY <2>1 DEF LevelRuns
  <2>5. DEFINE x == (i + 2) \div 3
  <2>6. i = 3 * x - 2 \/ i = 3 * x - 1 \/ i = 3 * x
    OBVIOUS
  <2> HIDE DEF level, runs
  <2> QED BY <2>1, <2>3, <2>4, <2>6
<1>3. runs = [i \in 1 .. 3 * n |-> runs[i]] /\ 3 * n \in Nat
  BY <1>1 DEF LevelRuns
<1>4. runs \in Seq(Commands) /\ Len(runs) = 3 * n
  <2> HIDE DEF runs, n, level
  <2> QED BY <1>2, <1>3
<1>5. ASSUME NEW x \in 1 .. n
      PROVE  /\ runs[3 * x - 2] = Command("build", list[x], "none")
             /\ runs[3 * x - 1] = Command("ctest", list[x], "none")
             /\ runs[3 * x] = Command("benchmark", list[x], list[x])
  <2>1. /\ 3 * x - 2 \in 1 .. 3 * n /\ (3 * x - 2) % 3 = 1 /\ (3 * x - 2 + 2) \div 3 = x
        /\ 3 * x - 1 \in 1 .. 3 * n /\ (3 * x - 1) % 3 = 2 /\ (3 * x - 1 + 2) \div 3 = x
        /\ 3 * x \in 1 .. 3 * n /\ (3 * x) % 3 = 0 /\ (3 * x + 2) \div 3 = x
    BY <1>1
  <2> HIDE DEF runs
  <2> QED BY <1>2, <2>1
<1>6. PlanOf(list) = Simple("gate") \o Simple("collect_system_info") \o runs
  BY DEF PlanOf
<1> HIDE DEF runs
<1>7. /\ PlanOf(list) \in Seq(Commands) /\ Len(PlanOf(list)) = 2 + 3 * n
      /\ PlanOf(list)[1] = Command("gate", "release", "none")
      /\ PlanOf(list)[2] = Command("collect_system_info", "release", "none")
      /\ \A i \in 1 .. 3 * n : PlanOf(list)[2 + i] = runs[i]
  <2> DEFINE p == PlanOf(list)
  <2>1. p = Simple("gate") \o Simple("collect_system_info") \o runs
    BY <1>6
  <2> HIDE DEF p, n
  <2>2. /\ p \in Seq(Commands) /\ Len(p) = 2 + Len(runs)
        /\ p[1] = Command("gate", "release", "none")
        /\ p[2] = Command("collect_system_info", "release", "none")
        /\ \A x \in 1 .. Len(runs) : p[2 + x] = runs[x]
    BY <1>4, <2>1, GatedHead
  <2> QED BY <1>4, <2>2 DEF p
<1>8. ASSUME NEW x \in 1 .. n
      PROVE  /\ PlanOf(list)[3 * x] = Command("build", list[x], "none")
             /\ PlanOf(list)[3 * x + 1] = Command("ctest", list[x], "none")
             /\ PlanOf(list)[3 * x + 2] = Command("benchmark", list[x], list[x])
  <2>1. /\ 3 * x - 2 \in 1 .. 3 * n /\ 2 + (3 * x - 2) = 3 * x
        /\ 3 * x - 1 \in 1 .. 3 * n /\ 2 + (3 * x - 1) = 3 * x + 1
        /\ 3 * x \in 1 .. 3 * n /\ 2 + 3 * x = 3 * x + 2
    BY <1>1
  <2> QED BY <1>5, <1>7, <2>1
<1>9. ASSUME NEW i \in 3 .. 2 + 3 * n
      PROVE  \E x \in 1 .. n : i = 3 * x \/ i = 3 * x + 1 \/ i = 3 * x + 2
  <2>1. i - 2 \in 1 .. 3 * n
    BY <1>1
  <2>2. PICK x \in 1 .. n : i - 2 = 3 * x - 2 \/ i - 2 = 3 * x - 1 \/ i - 2 = 3 * x
    BY <1>2, <2>1
  <2> QED BY <1>1, <2>2
<1> QED BY <1>7, <1>8, <1>9 DEF Command

\* What every list a script begins with has in common.
WellFormed(p, list) ==
  /\ p \in Seq(Commands) /\ Len(p) > 0
  /\ InOrder(p, list)
  /\ \A i \in 1 .. Len(p) :
       p[i].name \in {"benchmark", "counters"} =>
         /\ TestedFirst(p, i, p[i].directory)
         /\ WillBuild(p, i, p[i].directory)
  /\ \A x \in 1 .. Len(list) :
       \E i \in 1 .. Len(p) : p[i].name = "benchmark" /\ p[i].experiment = list[x]
  /\ Pending(p, "collect_system_info") /\ (Gated => Pending(p, "gate"))

LEMMA ReleaseFacts ==
  ASSUME NEW list \in Seq(Experiments), NEW p \in Seq(Commands), NEW h \in Nat,
         Release(p, list, h), script # "compiler-options",
         NEW b \in 1 .. h, NEW t \in 1 .. h, NEW c \in 1 .. h, b < t,
         p[b].name = "build", p[t].name = "ctest", p[c].name = "collect_system_info",
         \A l \in t + 1 .. h : p[l].name # "build",
         \A l \in c + 1 .. h : p[l].name # "gate",
         \A l \in 1 .. h : p[l].name = "collect_system_info" => l = c,
         Gated => p[1].name = "gate"
  PROVE  WellFormed(p, list)
<1> DEFINE n == Len(list)
<1>1. /\ n \in Nat /\ Len(p) \in n + h .. n + h + 1 /\ h >= 1
      /\ \A x \in 1 .. h : p[x].name \notin {"benchmark", "counters"} /\ p[x].directory = "release"
      /\ \A x \in 1 .. n :
           /\ p[h + x].name = "benchmark" /\ p[h + x].directory = "release"
           /\ p[h + x].experiment = list[x]
      /\ Len(p) = n + h + 1 =>
           p[n + h + 1].name = "counters" /\ p[n + h + 1].directory = "release"
  <2>1. n \in Nat /\ h >= 1
    OBVIOUS
  <2>2. \A x \in 1 .. n : p[h + x] = Command("benchmark", "release", list[x])
    BY DEF Release
  <2>3. Len(p) = n + h + 1 => p[n + h + 1] = Command("counters", "release", "none")
    BY DEF Release
  <2>4. /\ Len(p) \in n + h .. n + h + 1
        /\ \A x \in 1 .. h : p[x].name \notin {"benchmark", "counters"} /\ p[x].directory = "release"
    BY DEF Release
  <2> HIDE DEF n
  <2>5. ASSUME NEW x \in 1 .. n
        PROVE  /\ p[h + x].name = "benchmark" /\ p[h + x].directory = "release"
               /\ p[h + x].experiment = list[x]
    <3>1. p[h + x] = Command("benchmark", "release", list[x])
      BY <2>2
    <3> QED BY ONLY <3>1, CommandFields
  <2>6. ASSUME Len(p) = n + h + 1
        PROVE  p[n + h + 1].name = "counters" /\ p[n + h + 1].directory = "release"
    <3>1. p[n + h + 1] = Command("counters", "release", "none")
      BY <2>3, <2>6
    <3> QED BY ONLY <3>1, CommandFields
  <2> QED BY <2>1, <2>4, <2>5, <2>6
<1> HIDE DEF n
<1>2. ASSUME NEW i \in 1 .. Len(p)
      PROVE  \/ i \in 1 .. h /\ p[i].name \notin {"benchmark", "counters"}
             \/ i - h \in 1 .. n /\ p[i].name = "benchmark" /\ p[i].experiment = list[i - h]
             \/ i = n + h + 1 /\ i = Len(p) /\ p[i].name = "counters"
  <2>1. CASE i \in 1 .. h
    BY <1>1, <2>1
  <2>2. CASE i \in h + 1 .. h + n
    <3> DEFINE x == i - h
    <3>1. x \in 1 .. n /\ h + x = i
      BY <1>1, <2>2
    <3> HIDE DEF x
    <3>2. p[h + x].name = "benchmark" /\ p[h + x].experiment = list[x]
      BY <1>1, <3>1
    <3> QED BY <3>1, <3>2 DEF x
  <2>3. CASE i = n + h + 1
    BY <1>1, <2>3
  <2> QED BY <1>1, <2>1, <2>2, <2>3
<1>3. ASSUME NEW i \in 1 .. Len(p) PROVE p[i].directory = "release"
  <2>1. CASE i \in h + 1 .. h + n
    <3> DEFINE x == i - h
    <3>1. x \in 1 .. n /\ h + x = i
      BY <1>1, <2>1
    <3> HIDE DEF x
    <3>2. p[h + x].directory = "release"
      BY <1>1, <3>1
    <3> QED BY <3>1, <3>2
  <2> QED BY <1>1, <2>1
<1>4. InOrder(p, list)
  <2>1. ASSUME NEW i \in 1 .. Len(p), p[i].name = "benchmark"
        PROVE  p[i].experiment \in ToSet(list)
    <3>1. i - h \in 1 .. n /\ p[i].experiment = list[i - h]
      BY <1>1, <1>2, <2>1
    <3> QED BY <3>1 DEF ToSet, n
  <2>2. ASSUME NEW i \in 1 .. Len(p), p[i].name = "counters" PROVE i = Len(p)
    BY <1>1, <1>2, <2>2
  <2>3. ASSUME NEW i \in 1 .. Len(p), NEW j \in i + 1 .. Len(p), p[i].name = "benchmark"
        PROVE  p[j].name \in {"benchmark", "counters"}
    <3>1. i > h /\ j \in 1 .. Len(p) /\ j > h
      BY <1>1, <1>2, <2>3
    <3> QED BY <1>1, <1>2, <3>1
  <2>4. ASSUME NEW i \in 1 .. Len(p), NEW j \in i + 1 .. Len(p), p[i].name = "collect_system_info"
        PROVE  p[j].name \notin {"gate", "collect_system_info"}
    <3>1. i = c /\ j \in 1 .. Len(p)
      BY <1>1, <1>2, <2>4
    <3>2. CASE j \in c + 1 .. h
      <4>1. j \in 1 .. h /\ j # c
        BY <3>2
      <4> QED BY <3>2, <4>1
    <3>3. CASE j > h
      BY <1>2, <3>1, <3>3
    <3> QED BY <1>1, <3>1, <3>2, <3>3
  <2> QED BY <1>3, <2>1, <2>2, <2>3, <2>4 DEF InOrder
<1>5. ASSUME NEW i \in 1 .. Len(p), p[i].name \in {"benchmark", "counters"}
      PROVE  /\ TestedFirst(p, i, p[i].directory)
             /\ WillBuild(p, i, p[i].directory)
  <2>1. i > h /\ p[i].directory = "release"
    BY <1>1, <1>2, <1>3, <1>5
  <2>2. t \in 1 .. i - 1 /\ b \in 1 .. i - 1 /\ t \in 1 .. Len(p) /\ b \in 1 .. Len(p)
    BY <1>1, <2>1
  <2>3. Tests(p[t], "release") /\ Builds(p[b], "release")
    BY <1>3, <2>2 DEF Tests, Builds
  <2>4. ASSUME NEW l \in t + 1 .. i - 1 PROVE ~Builds(p[l], "release")
    <3>1. CASE l \in t + 1 .. h
      BY <3>1 DEF Builds
    <3>2. CASE l > h
      <4>1. l \in 1 .. Len(p)
        BY <1>1, <3>2
      <4> QED BY <1>2, <3>2, <4>1 DEF Builds
    <3> QED BY <1>1, <3>1, <3>2
  <2> QED BY <2>1, <2>2, <2>3, <2>4 DEF TestedFirst, WillTest, WillBuild
<1>6. ASSUME NEW x \in 1 .. Len(list)
      PROVE  \E i \in 1 .. Len(p) : p[i].name = "benchmark" /\ p[i].experiment = list[x]
  <2>1. h + x \in 1 .. Len(p) /\ x \in 1 .. n
    BY <1>1 DEF n
  <2> QED BY <1>1, <2>1
<1>7. /\ Pending(p, "collect_system_info") /\ (Gated => Pending(p, "gate"))
      /\ Len(p) > 0
  <2>1. c \in 1 .. Len(p) /\ 1 \in 1 .. Len(p)
    BY <1>1
  <2> QED BY <2>1 DEF Pending
<1> QED BY <1>4, <1>5, <1>6, <1>7 DEF WellFormed

LEMMA LevelFacts ==
  ASSUME NEW list \in Seq(Experiments), script = "compiler-options"
  PROVE  WellFormed(PlanOf(list), list)
<1> DEFINE n == Len(list)
           p == PlanOf(list)
<1>1. /\ p \in Seq(Commands) /\ Len(p) = 2 + 3 * n /\ n \in Nat
      /\ p[1].name = "gate" /\ p[2].name = "collect_system_info"
      /\ \A x \in 1 .. n :
           /\ p[3 * x] = Command("build", list[x], "none")
           /\ p[3 * x + 1] = Command("ctest", list[x], "none")
           /\ p[3 * x + 2] = Command("benchmark", list[x], list[x])
      /\ \A i \in 3 .. 2 + 3 * n :
           \E x \in 1 .. n : i = 3 * x \/ i = 3 * x + 1 \/ i = 3 * x + 2
  <2>1. n \in Nat
    OBVIOUS
  <2> QED BY <2>1, LevelPlan, Zenon
<1> HIDE DEF n, p
<1>2. ASSUME NEW x \in 1 .. n
      PROVE  /\ p[3 * x].name = "build" /\ p[3 * x].directory = list[x]
             /\ p[3 * x + 1].name = "ctest" /\ p[3 * x + 1].directory = list[x]
             /\ p[3 * x + 2].name = "benchmark" /\ p[3 * x + 2].directory = list[x]
             /\ p[3 * x + 2].experiment = list[x]
  <2>1. /\ p[3 * x] = Command("build", list[x], "none")
        /\ p[3 * x + 1] = Command("ctest", list[x], "none")
        /\ p[3 * x + 2] = Command("benchmark", list[x], list[x])
    BY <1>1
  <2> QED BY <2>1, CommandFields
<1>3. ASSUME NEW i \in 3 .. Len(p) PROVE p[i].name \in {"build", "ctest", "benchmark"}
  <2>1. PICK x \in 1 .. n : i = 3 * x \/ i = 3 * x + 1 \/ i = 3 * x + 2
    BY <1>1
  <2> QED BY <1>2, <2>1
<1>4. ASSUME NEW i \in 1 .. Len(p), p[i].name \in {"benchmark", "counters"}
      PROVE  \E x \in 1 .. n : i = 3 * x + 2 /\ p[i].name = "benchmark"
  <2>1. i \in 3 .. Len(p)
    BY <1>1, <1>4
  <2>2. PICK x \in 1 .. n : i = 3 * x \/ i = 3 * x + 1 \/ i = 3 * x + 2
    BY <1>1, <2>1
  <2> QED BY <1>2, <1>4, <2>2
<1>5. InOrder(p, list)
  <2>1. ASSUME NEW i \in 1 .. Len(p), p[i].name = "benchmark"
        PROVE  p[i].experiment \in ToSet(list)
    <3>1. PICK x \in 1 .. n : i = 3 * x + 2
      BY <1>4, <2>1
    <3> QED BY <1>2, <3>1 DEF ToSet, n
  <2>2. ASSUME NEW i \in 1 .. Len(p) PROVE p[i].name # "counters"
    BY <1>4
  <2>3. ASSUME NEW i \in 1 .. Len(p), NEW j \in i + 1 .. Len(p),
               p[i].name \in {"benchmark", "collect_system_info"}
        PROVE  p[j].name \notin {"gate", "collect_system_info"}
    <3>1. i > 1 /\ j \in 3 .. Len(p)
      BY <1>1, <2>3
    <3> QED BY <1>3, <3>1
  <2> QED BY <2>1, <2>2, <2>3 DEF InOrder
<1>6. ASSUME NEW i \in 1 .. Len(p), p[i].name \in {"benchmark", "counters"}
      PROVE  /\ TestedFirst(p, i, p[i].directory)
             /\ WillBuild(p, i, p[i].directory)
  <2>1. PICK x \in 1 .. n : i = 3 * x + 2
    BY <1>4, <1>6
  <2>2. /\ Tests(p[3 * x + 1], p[i].directory) /\ Builds(p[3 * x], p[i].directory)
    BY <1>2, <2>1 DEF Tests, Builds
  <2>3. 3 * x + 1 \in 1 .. i - 1 /\ 3 * x \in 1 .. i - 1 /\ 3 * x + 1 + 1 .. i - 1 = {}
    BY <2>1
  <2> QED BY <2>2, <2>3 DEF TestedFirst, WillTest, WillBuild
<1>7. ASSUME NEW x \in 1 .. Len(list)
      PROVE  \E i \in 1 .. Len(p) : p[i].name = "benchmark" /\ p[i].experiment = list[x]
  <2>1. 3 * x + 2 \in 1 .. Len(p) /\ x \in 1 .. n
    BY <1>1 DEF n
  <2> QED BY <1>2, <2>1
<1>8. Pending(p, "collect_system_info") /\ Pending(p, "gate") /\ Len(p) > 0
  BY <1>1 DEF Pending
<1> QED BY <1>1, <1>5, <1>6, <1>7, <1>8 DEF WellFormed, p

LEMMA PlanWellFormed ==
  ASSUME NEW list \in Seq(Experiments), script \in Scripts
  PROVE  WellFormed(PlanOf(list), list)
<1>1. CASE script = "compiler-options"
  BY <1>1, LevelFacts
<1>2. CASE script = "baseline"
  <2> DEFINE p == PlanOf(list)
  <2>1. /\ p \in Seq(Commands) /\ Release(p, list, 3) /\ ~Gated
        /\ p[1].name = "build" /\ p[2].name = "ctest" /\ p[3].name = "collect_system_info"
    BY <1>2, BaselinePlan DEF Gated
  <2> HIDE DEF p
  <2>2. /\ \A l \in 2 + 1 .. 3 : p[l].name # "build"
        /\ \A l \in 3 + 1 .. 3 : p[l].name # "gate"
        /\ \A l \in 1 .. 3 : p[l].name = "collect_system_info" => l = 3
    <3>1. (\A l \in 2 + 1 .. 3 : l = 3) /\ (3 + 1 .. 3 = {})
          /\ (\A l \in 1 .. 3 : l = 1 \/ l = 2 \/ l = 3)
      OBVIOUS
    <3> QED BY <2>1, <3>1
  <2>3. 3 \in Nat /\ 1 \in 1 .. 3 /\ 2 \in 1 .. 3 /\ 3 \in 1 .. 3 /\ 1 < 2
    OBVIOUS
  <2>4. WellFormed(p, list)
    BY <1>2, <2>1, <2>2, <2>3, ReleaseFacts
  <2> QED BY <2>4 DEF p
<1>3. CASE script \in {"release", "multithreading"}
  <2> DEFINE p == PlanOf(list)
  <2>1. /\ p \in Seq(Commands) /\ Release(p, list, 4)
        /\ p[1].name = "gate" /\ p[2].name = "collect_system_info"
        /\ p[3].name = "build" /\ p[4].name = "ctest"
    BY <1>3, ReleasePlan
  <2> HIDE DEF p
  <2>2. /\ \A l \in 4 + 1 .. 4 : p[l].name # "build"
        /\ \A l \in 2 + 1 .. 4 : p[l].name # "gate"
        /\ \A l \in 1 .. 4 : p[l].name = "collect_system_info" => l = 2
    <3>1. (\A l \in 2 + 1 .. 4 : l = 3 \/ l = 4) /\ (4 + 1 .. 4 = {})
          /\ (\A l \in 1 .. 4 : l = 1 \/ l = 2 \/ l = 3 \/ l = 4)
      OBVIOUS
    <3> QED BY <2>1, <3>1
  <2>3. 4 \in Nat /\ 3 \in 1 .. 4 /\ 4 \in 1 .. 4 /\ 2 \in 1 .. 4 /\ 3 < 4
    OBVIOUS
  <2>4. WellFormed(p, list)
    BY <1>3, <2>1, <2>2, <2>3, ReleaseFacts
  <2> QED BY <2>4 DEF p
<1> QED BY <1>1, <1>2, <1>3 DEF Scripts

-------------------------------------------------------------------------------
(* What is left of a list of commands *)

LEMMA TailFacts ==
  ASSUME NEW p \in Seq(Commands), p # <<>>
  PROVE  /\ Len(p) \in Nat \ {0} /\ Head(p) = p[1] /\ p[1] \in Commands
         /\ Tail(p) \in Seq(Commands) /\ Len(Tail(p)) = Len(p) - 1
         /\ \A i \in 1 .. Len(p) - 1 : Tail(p)[i] = p[i + 1]
OBVIOUS

LEMMA TailPending ==
  ASSUME NEW p \in Seq(Commands), p # <<>>, NEW name
  PROVE  /\ Pending(Tail(p), name) => Pending(p, name)
         /\ Pending(p, name) => Head(p).name = name \/ Pending(Tail(p), name)
<1>1. /\ Len(p) \in Nat \ {0} /\ Head(p) = p[1] /\ Len(Tail(p)) = Len(p) - 1
      /\ \A i \in 1 .. Len(p) - 1 : Tail(p)[i] = p[i + 1]
  BY TailFacts
<1>2. ASSUME NEW i \in 1 .. Len(p) - 1, Tail(p)[i].name = name PROVE Pending(p, name)
  <2>1. i + 1 \in 1 .. Len(p) /\ p[i + 1].name = name
    BY <1>1, <1>2
  <2> QED BY <2>1 DEF Pending
<1>3. ASSUME NEW i \in 1 .. Len(p), p[i].name = name
      PROVE  Head(p).name = name \/ Pending(Tail(p), name)
  <2>1. CASE i = 1
    BY <1>1, <1>3, <2>1
  <2>2. CASE i > 1
    <3>1. i - 1 \in 1 .. Len(p) - 1 /\ (i - 1) + 1 = i
      BY <1>1, <2>2
    <3>2. Tail(p)[i - 1].name = name
      BY <1>1, <1>3, <3>1
    <3> QED BY <1>1, <3>1, <3>2 DEF Pending
  <2> QED BY <2>1, <2>2
<1> QED BY <1>1, <1>2, <1>3 DEF Pending

LEMMA TailInOrder ==
  ASSUME NEW p \in Seq(Commands), p # <<>>, NEW list, InOrder(p, list)
  PROVE  InOrder(Tail(p), list)
<1>1. /\ Len(p) \in Nat \ {0} /\ Len(Tail(p)) = Len(p) - 1
      /\ \A i \in 1 .. Len(p) - 1 : Tail(p)[i] = p[i + 1]
  BY TailFacts, Zenon
<1> SUFFICES ASSUME NEW i \in 1 .. Len(p) - 1
             PROVE  LET q == Tail(p)
                    IN  /\ q[i].name = "benchmark" => q[i].experiment \in ToSet(list)
                        /\ q[i].name = "counters" => i = Len(p) - 1 /\ script # "compiler-options"
                        /\ script # "compiler-options" => q[i].directory = "release"
                        /\ \A j \in i + 1 .. Len(p) - 1 :
                             /\ q[i].name \in {"benchmark", "collect_system_info"} =>
                                  q[j].name \notin {"gate", "collect_system_info"}
                             /\ q[i].name = "benchmark" /\ script # "compiler-options" =>
                                  q[j].name # "build"
  BY <1>1, Zenon DEF InOrder
<1>2. i + 1 \in 1 .. Len(p) /\ Tail(p)[i] = p[i + 1]
  BY <1>1
<1>3. ASSUME NEW j \in i + 1 .. Len(p) - 1
      PROVE  j + 1 \in i + 1 + 1 .. Len(p) /\ Tail(p)[j] = p[j + 1]
  BY <1>1
<1>4. i + 1 = Len(p) => i = Len(p) - 1
  <2>1. i \in Int /\ Len(p) \in Int
    OBVIOUS
  <2> QED BY <2>1
<1> QED BY <1>2, <1>3, <1>4 DEF InOrder

\* What is ahead of command i + 1 of a list, and what of command i of its tail.
LEMMA TailAhead ==
  ASSUME NEW p \in Seq(Commands), p # <<>>, NEW i \in 1 .. Len(p) - 1, NEW d
  PROVE  /\ i + 1 \in 1 .. Len(p) /\ Tail(p)[i] = p[i + 1] /\ p[i + 1] \in Commands
         /\ WillBuild(p, i + 1, d) => Builds(Head(p), d) \/ WillBuild(Tail(p), i, d)
         /\ NoBuild(p, i + 1, d) => ~Builds(Head(p), d) /\ NoBuild(Tail(p), i, d)
         /\ WillTest(p, i + 1, d) =>
              WillTest(Tail(p), i, d) \/ (Tests(Head(p), d) /\ NoBuild(Tail(p), i, d))
<1> DEFINE q == Tail(p)
<1>1. /\ Len(p) \in Nat \ {0} /\ Head(p) = p[1] /\ i \in Nat \ {0} /\ i + 1 \in 1 .. Len(p)
      /\ q[i] = p[i + 1]
      /\ \A l \in 1 .. i - 1 : q[l] = p[l + 1]
  BY TailFacts
<1> HIDE DEF q
<1>2. p[i + 1] \in Commands
  BY <1>1
<1>3. i + 1 - 1 = i /\ 1 \in 1 .. i
  BY <1>1
<1>4. ASSUME WillBuild(p, i + 1, d) PROVE Builds(p[1], d) \/ WillBuild(q, i, d)
  <2>1. PICK j \in 1 .. i : Builds(p[j], d)
    BY <1>3, <1>4 DEF WillBuild
  <2>2. CASE j # 1
    <3>1. j - 1 \in 1 .. i - 1 /\ (j - 1) + 1 = j
      BY <1>1, <2>2
    <3> QED BY <1>1, <2>1, <3>1 DEF WillBuild
  <2> QED BY <2>1, <2>2
<1>5. ASSUME NoBuild(p, i + 1, d) PROVE ~Builds(p[1], d) /\ NoBuild(q, i, d)
  <2>1. \A l \in 1 .. i : ~Builds(p[l], d)
    BY <1>3, <1>5 DEF NoBuild
  <2>2. ASSUME NEW l \in 1 .. i - 1 PROVE ~Builds(q[l], d)
    <3>1. l + 1 \in 1 .. i
      BY <1>1
    <3> QED BY <1>1, <2>1, <3>1
  <2> QED BY <1>3, <2>1, <2>2 DEF NoBuild
<1>6. ASSUME WillTest(p, i + 1, d)
      PROVE  WillTest(q, i, d) \/ (Tests(p[1], d) /\ NoBuild(q, i, d))
  <2>1. PICK j \in 1 .. i : Tests(p[j], d) /\ \A l \in j + 1 .. i : ~Builds(p[l], d)
    BY <1>3, <1>6 DEF WillTest
  <2>2. ASSUME NEW l \in j .. i - 1 PROVE ~Builds(q[l], d)
    <3>1. l + 1 \in j + 1 .. i /\ l \in 1 .. i - 1
      BY <1>1
    <3> QED BY <1>1, <2>1, <3>1
  <2>3. CASE j = 1
    BY <2>1, <2>2, <2>3 DEF NoBuild
  <2>4. CASE j # 1
    <3>1. j - 1 \in 1 .. i - 1 /\ (j - 1) + 1 = j
      BY <1>1, <2>4
    <3>2. Tests(q[j - 1], d)
      BY <1>1, <2>1, <3>1
    <3>3. \A l \in (j - 1) + 1 .. i - 1 : ~Builds(q[l], d)
      BY <2>2, <3>1
    <3> QED BY <3>1, <3>2, <3>3 DEF WillTest
  <2> QED BY <2>3, <2>4
<1> QED BY <1>1, <1>2, <1>4, <1>5, <1>6 DEF q

\* A command keeps what the later ones rely on: a build gives its directory the
\* present sources, ctest its approval, and the others change nothing of that.
LEMMA TailPrepared ==
  ASSUME NEW p \in Seq(Commands), p # <<>>, Prepared(p),
         build \in [Directories -> [source : 0 .. edits, tested : BOOLEAN]],
         \/ Head(p).name \notin {"build", "ctest"} /\ build' = build
         \/ Head(p).name = "build"
            /\ build' = [build EXCEPT ![Head(p).directory] = [source |-> source, tested |-> FALSE]]
         \/ Head(p).name = "ctest"
            /\ build' = [build EXCEPT ![Head(p).directory].tested = TRUE],
         source' = source, disturbed' = disturbed
  PROVE  Prepared(Tail(p))'
<1> DEFINE q == Tail(p)
           here == Head(p).directory
<1>1. Len(p) \in Nat \ {0} /\ Len(q) = Len(p) - 1 /\ Head(p) \in Commands /\ here \in Directories
  BY TailFacts DEF Commands
<1>2. ASSUME NEW d \in Directories
      PROVE  /\ Head(p).name \notin {"build", "ctest"} => build'[d] = build[d]
             /\ Head(p).name = "build" /\ here # d => build'[d] = build[d]
             /\ Head(p).name = "build" /\ here = d => build'[d].source = source
             /\ Head(p).name = "ctest" => build'[d].source = build[d].source
             /\ Head(p).name = "ctest" /\ (here = d \/ build[d].tested) => build'[d].tested
  <2> HIDE DEF here
  <2>1. CASE Head(p).name \notin {"build", "ctest"} /\ build' = build
    BY <2>1
  <2>2. CASE Head(p).name = "build"
             /\ build' = [build EXCEPT ![here] = [source |-> source, tested |-> FALSE]]
    BY <1>1, <2>2
  <2>3. CASE Head(p).name = "ctest" /\ build' = [build EXCEPT ![here].tested = TRUE]
    BY <1>1, <2>3
  <2> QED BY <2>1, <2>2, <2>3 DEF here
<1>3. ASSUME NEW i \in 1 .. Len(p) - 1, q[i].name \in {"benchmark", "counters"}
      PROVE  (TestedFirst(q, i, q[i].directory) /\ BuiltFirst(q, i, q[i].directory))'
  <2> DEFINE d == q[i].directory
  <2>1. i + 1 \in 1 .. Len(p) /\ q[i] = p[i + 1] /\ d \in Directories
    BY TailAhead DEF Commands
  <2>2. TestedFirst(p, i + 1, d) /\ BuiltFirst(p, i + 1, d)
    BY <1>3, <2>1 DEF Prepared
  <2> HIDE DEF d
  <2>3. /\ WillBuild(p, i + 1, d) => Builds(Head(p), d) \/ WillBuild(q, i, d)
        /\ NoBuild(p, i + 1, d) => ~Builds(Head(p), d) /\ NoBuild(q, i, d)
        /\ WillTest(p, i + 1, d) => WillTest(q, i, d) \/ (Tests(Head(p), d) /\ NoBuild(q, i, d))
    BY TailAhead
  <2> HIDE DEF q
  <2>4. Builds(Head(p), d) <=> Head(p).name = "build" /\ here = d
    BY DEF Builds
  <2>5. Tests(Head(p), d) <=> Head(p).name = "ctest" /\ here = d
    BY DEF Tests
  <2> HIDE DEF here
  <2>6. TestedFirst(q, i, d)'
    <3>1. WillTest(q, i, d) \/ (build'[d].tested /\ NoBuild(q, i, d))
      BY <1>2, <2>1, <2>2, <2>3, <2>4, <2>5 DEF TestedFirst
    <3> QED BY <3>1 DEF TestedFirst
  <2>7. BuiltFirst(q, i, d)'
    <3>1. WillBuild(q, i, d) \/ (~disturbed => build'[d].source = source)
      BY <1>2, <2>1, <2>2, <2>3, <2>4 DEF BuiltFirst
    <3> QED BY <3>1 DEF BuiltFirst
  <2> QED BY <2>6, <2>7 DEF d
<1> QED BY <1>1, <1>3 DEF Prepared

-------------------------------------------------------------------------------
(* Every step keeps the invariant *)

\* After any command the script has stopped, or goes on with the rest of its list.
LEMMA Continued ==
  ASSUME Types, status = "running", NEW ok \in BOOLEAN, Continue(ok)
  PROVE  /\ plan # <<>> /\ Head(plan) \in Commands
         /\ plan' \in Seq(Commands) /\ status' \in {"running", "finished", "stopped"}
         /\ plan' = <<>> <=> status' # "running"
         /\ ~ok => plan' = <<>> /\ status' = "stopped"
         /\ ok => plan' = Tail(plan) /\ status' # "stopped"
<1>1. plan \in Seq(Commands) /\ plan # <<>>
  BY DEF Types
<1>2. Tail(plan) \in Seq(Commands) /\ Head(plan) \in Commands
  BY <1>1, TailFacts
<1>3. <<>> \in Seq(Commands)
  OBVIOUS
<1> QED BY <1>1, <1>2, <1>3 DEF Continue

\* What is known of a command that runs and does not touch the list it is in.
LEMMA OrderAdvance ==
  ASSUME Types, Order, status = "running", NEW ok \in BOOLEAN, Continue(ok),
         ok => \/ Head(plan).name \notin {"build", "ctest"} /\ build' = build
               \/ Head(plan).name = "build"
                  /\ build' = [build EXCEPT ![Head(plan).directory] =
                                 [source |-> source, tested |-> FALSE]]
               \/ Head(plan).name = "ctest"
                  /\ build' = [build EXCEPT ![Head(plan).directory].tested = TRUE],
         UNCHANGED <<script, source, disturbed, chosen>>
  PROVE  Order'
<1>1. CASE ~ok
  <2>1. plan' = <<>> /\ Len(plan') = 0
    BY <1>1, Continued
  <2> QED BY <2>1 DEF Order, InOrder, Prepared
<1>2. CASE ok
  <2>1. /\ plan' = Tail(plan) /\ plan \in Seq(Commands) /\ plan # <<>>
        /\ build \in [Directories -> [source : 0 .. edits, tested : BOOLEAN]]
    BY <1>2, Continued DEF Types
  <2>2. InOrder(Tail(plan), chosen) /\ Prepared(plan)
    BY <2>1, TailInOrder DEF Order
  <2>3. InOrder(plan, chosen)'
    BY <2>1, <2>2 DEF InOrder
  <2>4. PICK p : p = plan
    OBVIOUS
  <2>5. Prepared(Tail(p))'
    BY <1>2, <2>1, <2>2, <2>4, TailPrepared
  <2>6. Prepared(plan)'
    BY <2>1, <2>4, <2>5
  <2> QED BY <2>3, <2>6 DEF Order
<1> QED BY <1>1, <1>2

LEMMA InitIInv == Init => IInv
<1> SUFFICES ASSUME Init PROVE IInv
  OBVIOUS
<1>1. plan = <<>> /\ Len(plan) = 0 /\ done = {} /\ status = "idle" /\ chosen = <<>>
  BY DEF Init
<1>2. results \in ResultFiles /\ kept \in ResultFiles
  BY DEF Init, ResultFiles, CsvFile, NoInfo, None
<1>3. history \in Seq(1 .. edits) /\ Len(history) > 0
  BY DEF Init
<1>4. Types
  <2>1. build \in [Directories -> [source : 0 .. edits, tested : BOOLEAN]]
    BY DEF Init
  <2>2. chosen \in Seq(Experiments) /\ plan \in Seq(Commands) /\ done \subseteq ToSet(chosen)
    BY <1>1
  <2>3. edits \in 1 .. MaxEdits /\ source \in 1 .. edits
    BY BoundsAssumption DEF Init
  <2> QED BY <1>1, <1>2, <1>3, <2>1, <2>2, <2>3 DEF Init, Types
<1>5. Order
  BY <1>1 DEF Order, InOrder, Prepared
<1>6. Covered /\ SameBinary /\ Record
  BY <1>1 DEF Covered, SameBinary, Record
<1> QED BY <1>4, <1>5, <1>6 DEF IInv

\* A run begins with a whole list, whatever the run before has left.
LEMMA StartStep == IInv /\ Start => IInv'
<1> SUFFICES ASSUME IInv, Start PROVE IInv'
  OBVIOUS
<1>1. PICK list \in Selections : plan' = PlanOf(list) /\ chosen' = list
  BY DEF Start
<1>2. /\ done' = {} /\ status' = "running" /\ disturbed' = FALSE
      /\ UNCHANGED <<script, in_tree, source, edits, history, results, kept, changed, build>>
  BY DEF Start, treeVars, resultVars
<1>3. list \in Seq(Experiments) /\ script \in Scripts
  BY SelectionsAssumption DEF IInv, Types
<1>4. WellFormed(PlanOf(list), list)
  BY <1>3, PlanWellFormed
<1>5. Types'
  <2>1. plan' \in Seq(Commands) /\ plan' # <<>>
    BY <1>1, <1>4 DEF WellFormed
  <2> QED BY <1>1, <1>2, <1>3, <2>1 DEF IInv, Types, ResultFiles, CsvFile
<1>6. Order'
  <2>1. InOrder(plan, chosen)'
    BY <1>1, <1>2, <1>4 DEF WellFormed, InOrder
  <2>2. \A i \in 1 .. Len(plan') :
          plan'[i].name \in {"benchmark", "counters"} =>
            /\ TestedFirst(plan', i, plan'[i].directory)
            /\ WillBuild(plan', i, plan'[i].directory)
    BY <1>1, <1>4 DEF WellFormed
  <2>3. Prepared(plan)'
    BY <1>2, <2>2 DEF Prepared, TestedFirst, BuiltFirst
  <2> QED BY <2>1, <2>3 DEF Order
<1>7. Covered'
  <2>1. \A x \in 1 .. Len(chosen') : \E i \in 1 .. Len(plan') :
          plan'[i].name = "benchmark" /\ plan'[i].experiment = chosen'[x]
    BY <1>1, <1>4 DEF WellFormed
  <2> QED BY <2>1 DEF Covered
<1>8. SameBinary'
  BY <1>2 DEF SameBinary
<1>9. Record'
  <2>1. Pending(plan', "collect_system_info") /\ (Gated' => Pending(plan', "gate"))
    BY <1>1, <1>2, <1>4 DEF WellFormed, Gated
  <2> QED BY <1>2, <2>1 DEF Record
<1> QED BY <1>5, <1>6, <1>7, <1>8, <1>9 DEF IInv

LEMMA PendingAdvance ==
  ASSUME Types, status = "running", NEW ok \in BOOLEAN, Continue(ok), NEW name
  PROVE  /\ Pending(plan', name) => Pending(plan, name)
         /\ ok /\ Pending(plan, name) => Head(plan).name = name \/ Pending(plan', name)
<1>1. plan \in Seq(Commands) /\ plan # <<>>
  BY Continued DEF Types
<1>2. CASE ok
  BY <1>1, <1>2, Continued, TailPending
<1>3. CASE ~ok
  <2>1. Len(plan') = 0
    BY <1>3, Continued
  <2> QED BY <1>3, <2>1 DEF Pending
<1> QED BY <1>2, <1>3

\* Only a benchmark takes an experiment off the list, and not before it is verified.
LEMMA CoveredAdvance ==
  ASSUME Types, Covered, status = "running", NEW ok \in BOOLEAN, Continue(ok), chosen' = chosen,
         \A e \in Experiments :
           ok /\ e \in done /\ Csv(e).verified => e \in done' /\ Csv(e)'.verified,
         ok /\ Head(plan).name = "benchmark" =>
           Head(plan).experiment \in done' /\ results'.csv[Head(plan).experiment].verified
  PROVE  Covered'
<1>1. CASE ~ok
  <2>1. status' = "stopped"
    BY <1>1, Continued
  <2> QED BY <2>1 DEF Covered
<1>2. CASE ok
  <2>1. /\ plan \in Seq(Commands) /\ plan # <<>> /\ plan' = Tail(plan) /\ Head(plan) = plan[1]
        /\ Len(plan) \in Nat \ {0} /\ Len(plan') = Len(plan) - 1
        /\ \A i \in 1 .. Len(plan) - 1 : plan'[i] = plan[i + 1]
    BY <1>2, Continued, TailFacts DEF Types
  <2>2. ASSUME NEW x \in 1 .. Len(chosen)
        PROVE  \/ chosen[x] \in done' /\ Csv(chosen[x])'.verified
               \/ \E i \in 1 .. Len(plan') :
                    plan'[i].name = "benchmark" /\ plan'[i].experiment = chosen[x]
    <3>1. chosen[x] \in Experiments
      BY DEF Types
    <3>2. CASE chosen[x] \in done /\ Csv(chosen[x]).verified
      BY <1>2, <3>1, <3>2
    <3>3. CASE \E i \in 1 .. Len(plan) :
                 plan[i].name = "benchmark" /\ plan[i].experiment = chosen[x]
      <4>1. PICK i \in 1 .. Len(plan) :
                 plan[i].name = "benchmark" /\ plan[i].experiment = chosen[x]
        BY <3>3
      <4>2. CASE i = 1
        BY <1>2, <2>1, <4>1, <4>2 DEF Csv
      <4>3. CASE i # 1
        <5>1. i - 1 \in 1 .. Len(plan') /\ (i - 1) + 1 = i
          BY <2>1, <4>3
        <5>2. plan'[i - 1] = plan[i]
          BY <2>1, <5>1
        <5> QED BY <4>1, <5>1, <5>2
      <4> QED BY <4>2, <4>3
    <3> QED BY <3>2, <3>3 DEF Covered
  <2> QED BY <2>2 DEF Covered
<1> QED BY <1>1, <1>2

\* The measured experiments keep their binary through a command that neither builds
\* nor measures.
LEMMA SameBinaryAdvance ==
  ASSUME Types, SameBinary, status = "running", NEW ok \in BOOLEAN, Continue(ok),
         UNCHANGED <<script, done>>, results'.csv = results.csv,
         build'["release"].source = build["release"].source
  PROVE  SameBinary'
BY PendingAdvance DEF SameBinary, Csv

\* Nothing a script has measured is measured by half: it has stopped before.
LEMMA StopStep == IInv /\ Stop => IInv'
<1> SUFFICES ASSUME IInv, Stop PROVE IInv'
  OBVIOUS
<1>1. /\ plan' = <<>> /\ Len(plan') = 0 /\ status' = "stopped"
      /\ UNCHANGED <<script, in_tree, source, edits, history, results, kept, changed, build,
                     chosen, done, disturbed>>
  BY DEF Stop, treeVars, resultVars
<1>2. Types'
  <2>1. plan' \in Seq(Commands)
    BY <1>1
  <2> QED BY <1>1, <2>1 DEF IInv, Types, ResultFiles, CsvFile
<1>3. Order'
  BY <1>1 DEF Order, InOrder, Prepared
<1>4. Covered' /\ SameBinary'
  BY <1>1 DEF IInv, Covered, SameBinary, Pending, Csv
<1>5. Record'
  BY <1>1 DEF IInv, Record, Pending, Csv, InfoRight, HeadCommit, Gated
<1> QED BY <1>2, <1>3, <1>4, <1>5 DEF IInv

\* Behind the gate the worktree is clean.
LEMMA GateStep == IInv /\ Gate => IInv'
<1> SUFFICES ASSUME IInv, Gate PROVE IInv'
  OBVIOUS
<1> DEFINE ok == ~Dirty
<1>1. /\ status = "running" /\ Head(plan).name = "gate" /\ Continue(ok) /\ ok \in BOOLEAN
      /\ UNCHANGED <<script, in_tree, source, edits, history, results, kept, changed, build,
                     chosen, done, disturbed>>
      /\ Types /\ Order /\ Covered /\ SameBinary /\ Record
  BY DEF Gate, Runs, treeVars, resultVars, IInv
<1> HIDE DEF ok
<1>2. Types'
  BY <1>1, Continued DEF Types, ResultFiles, CsvFile
<1>3. Order'
  <2>1. Head(plan).name \notin {"build", "ctest"}
    BY <1>1
  <2> QED BY <1>1, <2>1, OrderAdvance
<1>4. Covered' /\ SameBinary'
  <2>1. Head(plan).name # "benchmark" /\ \A e \in Experiments : Csv(e)' = Csv(e)
    BY <1>1 DEF Csv
  <2>2. Covered'
    BY <1>1, <2>1, CoveredAdvance
  <2> QED BY <1>1, <2>2, SameBinaryAdvance
<1>5. Record'
  <2>1. /\ Pending(plan', "collect_system_info") => Pending(plan, "collect_system_info")
        /\ ok => (Pending(plan, "collect_system_info") => Pending(plan', "collect_system_info"))
    BY <1>1, PendingAdvance
  <2>2. ~ok => status' # "running"
    BY <1>1, Continued
  <2>3. InfoRight' = InfoRight /\ Dirty' = Dirty
    BY <1>1 DEF InfoRight, HeadCommit, Gated, Dirty
  <2>4. \A e \in done : Csv(e)' = Csv(e)
    BY <1>1 DEF Csv
  <2> QED BY <1>1, <2>1, <2>2, <2>3, <2>4 DEF Record, ok, Gated
<1> QED BY <1>2, <1>3, <1>4, <1>5 DEF IInv

\* The information is that of the worktree the gate has found clean.
LEMMA CollectStep == IInv /\ CollectSystemInfo => IInv'
<1> SUFFICES ASSUME IInv, CollectSystemInfo PROVE IInv'
  OBVIOUS
<1>1. PICK ok \in BOOLEAN : Continue(ok)
  BY DEF CollectSystemInfo
<1>2. /\ status = "running" /\ Head(plan).name = "collect_system_info"
      /\ results' = [results EXCEPT !.info = Recorded] /\ changed' = TRUE
      /\ UNCHANGED <<script, in_tree, source, edits, history, kept, build,
                     chosen, done, disturbed>>
      /\ Types /\ Order /\ Covered /\ SameBinary /\ Record
  BY DEF CollectSystemInfo, Runs, treeVars, IInv
<1>3. /\ results'.csv = results.csv /\ results'.info = Recorded
      /\ \A e \in Experiments : Csv(e)' = Csv(e)
  BY <1>2 DEF Types, ResultFiles, Csv
<1>4. Types'
  <2>1. Recorded \in [commit : Nat, dirty : BOOLEAN]
    <3>1. HeadCommit \in Nat
      BY <1>2 DEF HeadCommit, Types
    <3>2. Dirty \in BOOLEAN
      BY <1>2 DEF Dirty, Types
    <3> QED BY <3>1, <3>2 DEF Recorded
  <2>2. results' \in ResultFiles'
    BY <1>2, <2>1 DEF Types, ResultFiles, CsvFile
  <2>3. kept' \in ResultFiles'
    BY <1>2 DEF Types, ResultFiles, CsvFile
  <2> QED BY <1>1, <1>2, <2>2, <2>3, Continued DEF Types
<1>5. Order'
  <2>1. Head(plan).name \notin {"build", "ctest"}
    BY <1>2
  <2> QED BY <1>1, <1>2, <2>1, OrderAdvance
<1>6. Covered' /\ SameBinary'
  <2>1. Head(plan).name # "benchmark"
    BY <1>2
  <2>2. Covered'
    BY <1>1, <1>2, <1>3, <2>1, CoveredAdvance
  <2> QED BY <1>1, <1>2, <1>3, <2>2, SameBinaryAdvance
<1>7. Record'
  <2>1. /\ plan # <<>> /\ Pending(plan, "collect_system_info") /\ ~Pending(plan, "gate")
    <3>1. /\ plan \in Seq(Commands) /\ plan # <<>> /\ Len(plan) \in Nat \ {0}
          /\ Head(plan) = plan[1]
      BY <1>1, <1>2, Continued, TailFacts DEF Types
    <3>2. 1 \in 1 .. Len(plan) /\ \A j \in 1 .. Len(plan) : j = 1 \/ j \in 1 + 1 .. Len(plan)
      BY <3>1
    <3> QED BY <1>2, <3>1, <3>2 DEF Order, InOrder, Pending
  <2>2. done = {}
    BY <1>2, <2>1 DEF Record
  <2>3. ~disturbed /\ Gated => ~Dirty
    BY <1>2, <2>1 DEF Record
  <2>4. ~disturbed => InfoRight'
    <3>1. ~Dirty => source = history[HeadCommit]
      BY DEF Dirty
    <3> QED BY <1>2, <1>3, <2>3, <3>1 DEF InfoRight, Recorded, HeadCommit, Gated
  <2>5. status' = "running" => ~Pending(plan', "collect_system_info")
    <3> SUFFICES ASSUME status' = "running" PROVE ~Pending(plan', "collect_system_info")
      OBVIOUS
    <3>1. /\ Len(plan) \in Nat \ {0} /\ Len(plan') = Len(plan) - 1 /\ Head(plan) = plan[1]
          /\ \A i \in 1 .. Len(plan) - 1 : plan'[i] = plan[i + 1]
      BY <1>1, <1>2, Continued, TailFacts DEF Types
    <3>2. ASSUME NEW i \in 1 .. Len(plan') PROVE plan'[i].name # "collect_system_info"
      <4>1. i + 1 \in 1 + 1 .. Len(plan) /\ plan'[i] = plan[i + 1] /\ 1 \in 1 .. Len(plan)
        BY <3>1
      <4> QED BY <1>2, <3>1, <4>1 DEF Order, InOrder
    <3> QED BY <3>2 DEF Pending
  <2> QED BY <1>2, <2>2, <2>4, <2>5 DEF Record
<1> QED BY <1>4, <1>5, <1>6, <1>7 DEF IInv

\* A pending build of a script that builds once comes before every measurement.
LEMMA BuildStep == IInv /\ Build => IInv'
<1> SUFFICES ASSUME IInv, Build PROVE IInv'
  OBVIOUS
<1>1. PICK ok \in BOOLEAN, linked \in BOOLEAN :
       /\ ok => linked
       /\ build' = IF linked
                   THEN [build EXCEPT ![Head(plan).directory] =
                           [source |-> source, tested |-> FALSE]]
                   ELSE build
       /\ Continue(ok)
  BY DEF Build
<1>2. /\ status = "running" /\ Head(plan).name = "build"
      /\ UNCHANGED <<script, in_tree, source, edits, history, results, kept, changed,
                     chosen, done, disturbed>>
      /\ Types /\ Order /\ Covered /\ SameBinary /\ Record
  BY DEF Build, Runs, treeVars, resultVars, IInv
<1>3. Head(plan).directory \in Directories /\ \A e \in Experiments : Csv(e)' = Csv(e)
  BY <1>1, <1>2, Continued DEF Commands, Csv
<1>4. Types'
  <2>1. [source |-> source, tested |-> FALSE] \in [source : 0 .. edits, tested : BOOLEAN]
    BY <1>2 DEF Types
  <2>2. build' \in [Directories -> [source : 0 .. edits, tested : BOOLEAN]]
    BY <1>1, <1>2, <1>3, <2>1 DEF Types
  <2> QED BY <1>1, <1>2, <2>2, Continued DEF Types, ResultFiles, CsvFile
<1>5. Order'
  <2>1. ok => build' = [build EXCEPT ![Head(plan).directory] =
                          [source |-> source, tested |-> FALSE]]
    BY <1>1
  <2> QED BY <1>1, <1>2, <2>1, OrderAdvance
<1>6. Covered'
  <2>1. Head(plan).name # "benchmark"
    BY <1>2
  <2> QED BY <1>1, <1>2, <1>3, <2>1, CoveredAdvance
<1>7. Pending(plan, "build")
  <2>1. /\ plan \in Seq(Commands) /\ plan # <<>> /\ Len(plan) \in Nat \ {0}
        /\ Head(plan) = plan[1]
    BY <1>1, <1>2, Continued, TailFacts DEF Types
  <2> QED BY <1>2, <2>1 DEF Pending
<1>8. SameBinary'
  BY <1>2, <1>7 DEF SameBinary
<1>9. Record'
  <2>1. /\ Pending(plan', "collect_system_info") => Pending(plan, "collect_system_info")
        /\ ok => (Pending(plan, "collect_system_info") => Pending(plan', "collect_system_info"))
        /\ ok => (Pending(plan, "gate") => Pending(plan', "gate"))
    BY <1>1, <1>2, PendingAdvance
  <2>2. ~ok => status' # "running"
    BY <1>1, <1>2, Continued
  <2>3. InfoRight' = InfoRight /\ Dirty' = Dirty /\ Gated' = Gated
    BY <1>2 DEF InfoRight, HeadCommit, Gated, Dirty
  <2>4. \A e \in done : Csv(e)' = Csv(e)
    BY <1>2 DEF Csv
  <2> QED BY <1>2, <2>1, <2>2, <2>3, <2>4 DEF Record
<1> QED BY <1>4, <1>5, <1>6, <1>8, <1>9 DEF IInv

LEMMA CtestStep == IInv /\ Ctest => IInv'
<1> SUFFICES ASSUME IInv, Ctest PROVE IInv'
  OBVIOUS
<1>1. PICK ok \in BOOLEAN :
       /\ build' = [build EXCEPT ![Head(plan).directory].tested = ok]
       /\ Continue(ok)
  BY DEF Ctest
<1>2. /\ status = "running" /\ Head(plan).name = "ctest"
      /\ UNCHANGED <<script, in_tree, source, edits, history, results, kept, changed,
                     chosen, done, disturbed>>
      /\ Types /\ Order /\ Covered /\ SameBinary /\ Record
  BY DEF Ctest, Runs, treeVars, resultVars, IInv
<1>3. Head(plan).directory \in Directories /\ \A e \in Experiments : Csv(e)' = Csv(e)
  BY <1>1, <1>2, Continued DEF Commands, Csv
<1>4. /\ build' \in [Directories -> [source : 0 .. edits, tested : BOOLEAN]]
      /\ \A d \in Directories : build'[d].source = build[d].source
  BY <1>1, <1>2, <1>3 DEF Types
<1>5. Types'
  BY <1>1, <1>2, <1>4, Continued DEF Types, ResultFiles, CsvFile
<1>6. Order'
  <2>1. ok => build' = [build EXCEPT ![Head(plan).directory].tested = TRUE]
    BY <1>1
  <2> QED BY <1>1, <1>2, <2>1, OrderAdvance
<1>7. Covered' /\ SameBinary'
  <2>1. Head(plan).name # "benchmark"
    BY <1>2
  <2>2. Covered'
    BY <1>1, <1>2, <1>3, <2>1, CoveredAdvance
  <2>3. build'["release"].source = build["release"].source
    BY <1>4 DEF Directories
  <2> QED BY <1>1, <1>2, <2>2, <2>3, SameBinaryAdvance
<1>8. Record'
  <2>1. /\ Pending(plan', "collect_system_info") => Pending(plan, "collect_system_info")
        /\ ok => (Pending(plan, "collect_system_info") => Pending(plan', "collect_system_info"))
        /\ ok => (Pending(plan, "gate") => Pending(plan', "gate"))
    BY <1>1, <1>2, PendingAdvance
  <2>2. ~ok => status' # "running"
    BY <1>1, <1>2, Continued
  <2>3. InfoRight' = InfoRight /\ Dirty' = Dirty /\ Gated' = Gated
    BY <1>2 DEF InfoRight, HeadCommit, Gated, Dirty
  <2>4. \A e \in done : Csv(e)' = Csv(e)
    BY <1>2 DEF Csv
  <2> QED BY <1>2, <2>1, <2>2, <2>3, <2>4 DEF Record
<1> QED BY <1>5, <1>6, <1>7, <1>8 DEF IInv

\* The benchmark that runs is prepared: its binary is tested, and while nobody has
\* touched the tree it is built from it.
LEMMA HeadPrepared ==
  ASSUME Types, Order, status = "running", Head(plan).name \in {"benchmark", "counters"}
  PROVE  /\ plan # <<>> /\ Head(plan) = plan[1] /\ Head(plan) \in Commands
         /\ build[Head(plan).directory].tested
         /\ ~disturbed => build[Head(plan).directory].source = source
<1>1. /\ plan \in Seq(Commands) /\ plan # <<>> /\ Len(plan) \in Nat \ {0}
      /\ Head(plan) = plan[1] /\ Head(plan) \in Commands
  BY TailFacts DEF Types
<1>2. 1 \in 1 .. Len(plan) /\ 1 .. 1 - 1 = {}
  BY <1>1
<1>3. TestedFirst(plan, 1, plan[1].directory) /\ BuiltFirst(plan, 1, plan[1].directory)
  <2>1. Prepared(plan)
    BY DEF Order
  <2>2. plan[1].name \in {"benchmark", "counters"}
    BY <1>1, Zenon
  <2> QED BY ONLY <1>2, <2>1, <2>2, Zenon DEF Prepared
<1> QED BY <1>1, <1>2, <1>3 DEF TestedFirst, BuiltFirst, WillTest, WillBuild

\* What the order says of the first command.
LEMMA HeadInOrder ==
  ASSUME Types, Order, status = "running"
  PROVE  LET c == Head(plan)
         IN  /\ c.name = "benchmark" => c.experiment \in ToSet(chosen)
             /\ script # "compiler-options" => c.directory = "release"
             /\ c.name = "counters" => Tail(plan) = <<>> /\ script # "compiler-options"
             /\ c.name = "benchmark" => ~Pending(plan, "collect_system_info")
             /\ c.name = "benchmark" /\ script # "compiler-options" => ~Pending(plan, "build")
<1>1. /\ plan \in Seq(Commands) /\ plan # <<>> /\ Len(plan) \in Nat \ {0}
      /\ Head(plan) = plan[1] /\ Tail(plan) \in Seq(Commands) /\ Len(Tail(plan)) = Len(plan) - 1
  BY TailFacts DEF Types
<1>2. 1 \in 1 .. Len(plan) /\ \A j \in 1 .. Len(plan) : j = 1 \/ j \in 1 + 1 .. Len(plan)
  BY <1>1
<1>3. Len(plan) = 1 => Tail(plan) = <<>>
  <2>1. ASSUME NEW s \in Seq(Commands), Len(s) = 0 PROVE s = <<>>
    BY <2>1
  <2>2. Len(plan) = 1 => Len(Tail(plan)) = 0
    BY <1>1
  <2>3. PICK s : s = Tail(plan)
    OBVIOUS
  <2>4. s \in Seq(Commands) /\ (Len(plan) = 1 => Len(s) = 0)
    BY <1>1, <2>2, <2>3
  <2>5. Len(plan) = 1 => s = <<>>
    BY <2>1, <2>4
  <2> QED BY <2>3, <2>5
<1> QED BY <1>1, <1>2, <1>3 DEF Order, InOrder, Pending

LEMMA BenchmarkStep == IInv /\ RunBenchmark => IInv'
<1> SUFFICES ASSUME IInv, RunBenchmark PROVE IInv'
  OBVIOUS
<1> DEFINE e == Head(plan).experiment
           d == Head(plan).directory
<1>1. PICK ok \in BOOLEAN, tee \in BOOLEAN, written \in BOOLEAN :
       /\ ok => written
       /\ results' = IF written
                     THEN [results EXCEPT !.csv[e] = [source |-> build[d].source, verified |-> ok]]
                     ELSE results
       /\ changed' = (changed \/ written) /\ kept' = kept
       /\ done' = IF written THEN done \cup {e} ELSE done
       /\ Continue(PipelineOk(ok, tee))
  BY DEF RunBenchmark
<1>2. /\ status = "running" /\ Head(plan).name = "benchmark"
      /\ UNCHANGED <<script, in_tree, source, edits, history, build, chosen, disturbed>>
      /\ Types /\ Order /\ Covered /\ SameBinary /\ Record
  BY DEF RunBenchmark, Runs, treeVars, IInv
<1> DEFINE good == PipelineOk(ok, tee)
<1>3. good \in BOOLEAN /\ Continue(good) /\ (good => ok /\ written)
  BY <1>1 DEF PipelineOk
<1> HIDE DEF good
<1>4. /\ ~disturbed => build[d].source = source
      /\ e \in ToSet(chosen) /\ ~Pending(plan, "collect_system_info")
      /\ script # "compiler-options" => ~Pending(plan, "build") /\ d = "release"
      /\ d \in Directories
  BY <1>2, HeadPrepared, HeadInOrder DEF Commands
<1>5. e \in Experiments
  <2>1. ToSet(chosen) \subseteq Experiments
    BY <1>2 DEF ToSet, Types
  <2> QED BY <1>4, <2>1
<1> HIDE DEF d, e
<1>6. /\ results' \in ResultFiles /\ results'.info = results.info
      /\ \A f \in Experiments :
           results'.csv[f] = IF written /\ f = e
                             THEN [source |-> build[d].source, verified |-> ok]
                             ELSE results.csv[f]
  <2>1. build[d].source \in 0 .. edits
    BY <1>2, <1>4 DEF Types
  <2>2. [source |-> build[d].source, verified |-> ok] \in CsvFile
    BY <2>1 DEF CsvFile
  <2>3. results \in ResultFiles
    BY <1>2 DEF Types
  <2>4. CASE written
    BY <1>1, <1>5, <2>2, <2>3, <2>4 DEF ResultFiles
  <2>5. CASE ~written
    BY <1>1, <2>3, <2>5
  <2> QED BY <2>4, <2>5
<1>7. Types'
  <2>1. ResultFiles' = ResultFiles /\ changed' \in BOOLEAN
    BY <1>1, <1>2 DEF ResultFiles, CsvFile, Types
  <2>2. done' \subseteq ToSet(chosen')
    BY <1>1, <1>2, <1>4 DEF Types
  <2>3. /\ plan' \in Seq(Commands) /\ status' \in {"idle", "running", "finished", "stopped"}
        /\ plan' = <<>> <=> status' # "running"
    BY <1>2, <1>3, Continued
  <2> QED BY <1>1, <1>2, <1>6, <2>1, <2>2, <2>3 DEF Types
<1>8. Order'
  <2>1. Head(plan).name \notin {"build", "ctest"}
    BY <1>2
  <2> QED BY <1>2, <1>3, <2>1, OrderAdvance
<1>9. Covered'
  <2>1. \A f \in Experiments :
          good /\ f \in done /\ Csv(f).verified => f \in done' /\ Csv(f)'.verified
    BY <1>1, <1>3, <1>6 DEF Csv
  <2>2. good => Head(plan).experiment \in done' /\ results'.csv[Head(plan).experiment].verified
    BY <1>1, <1>3, <1>5, <1>6 DEF e
  <2> QED BY <1>2, <1>3, <2>1, <2>2, CoveredAdvance
<1>10. /\ done' \subseteq done \cup {e} /\ done \subseteq Experiments
       /\ e \in done' => written \/ e \in done
  <2>1. ToSet(chosen) \subseteq Experiments
    BY <1>2 DEF ToSet, Types
  <2> QED BY <1>1, <1>2, <2>1 DEF Types
<1>11. SameBinary'
  <2> SUFFICES ASSUME script # "compiler-options", done' # {}
               PROVE  /\ ~Pending(plan', "build")
                      /\ \A f \in done' : results'.csv[f].source = build["release"].source
    BY <1>2 DEF SameBinary, Csv
  <2>1. ~Pending(plan', "build")
    BY <1>2, <1>3, <1>4, PendingAdvance
  <2>2. ASSUME NEW f \in done' PROVE results'.csv[f].source = build["release"].source
    BY <1>2, <1>4, <1>5, <1>6, <1>10, <2>2 DEF SameBinary, Csv
  <2> QED BY <2>1, <2>2
<1>12. Record'
  <2>1. ~Pending(plan', "collect_system_info")
    BY <1>2, <1>3, <1>4, PendingAdvance
  <2>2. ~disturbed => InfoRight
    BY <1>2, <1>4 DEF Record
  <2>3. InfoRight' = InfoRight
    BY <1>2, <1>6 DEF InfoRight, HeadCommit, Gated
  <2>4. ASSUME ~disturbed, NEW f \in done' PROVE results'.csv[f].source = source
    BY <1>2, <1>4, <1>5, <1>6, <1>10, <2>4 DEF Record, Csv
  <2> QED BY <1>2, <2>1, <2>2, <2>3, <2>4 DEF Record, Csv
<1> QED BY <1>7, <1>8, <1>9, <1>11, <1>12 DEF IInv

\* The counter workloads come last.
LEMMA CountersStep == IInv /\ Counters => IInv'
<1> SUFFICES ASSUME IInv, Counters PROVE IInv'
  OBVIOUS
<1>1. PICK ok \in BOOLEAN : Continue(ok)
  BY DEF Counters
<1>2. /\ status = "running" /\ Head(plan).name = "counters" /\ changed' = TRUE
      /\ UNCHANGED <<script, in_tree, source, edits, history, results, kept, build,
                     chosen, done, disturbed>>
      /\ Types /\ Order /\ Covered /\ SameBinary /\ Record
  BY DEF Counters, Runs, treeVars, IInv
<1>3. \A e \in Experiments : Csv(e)' = Csv(e)
  BY <1>2 DEF Csv
<1>4. Types'
  BY <1>1, <1>2, Continued DEF Types, ResultFiles, CsvFile
<1>5. Order'
  <2>1. Head(plan).name \notin {"build", "ctest"}
    BY <1>2
  <2> QED BY <1>1, <1>2, <2>1, OrderAdvance
<1>6. Covered' /\ SameBinary'
  <2>1. Head(plan).name # "benchmark"
    BY <1>2
  <2>2. Covered'
    BY <1>1, <1>2, <1>3, <2>1, CoveredAdvance
  <2> QED BY <1>1, <1>2, <2>2, SameBinaryAdvance
<1>7. Record'
  <2>1. Pending(plan', "collect_system_info") => Pending(plan, "collect_system_info")
    BY <1>1, <1>2, PendingAdvance
  <2>2. status' # "running"
    <3>1. Tail(plan) = <<>>
      BY <1>2, HeadInOrder
    <3> QED BY <1>1, <1>2, <3>1, Continued
  <2>3. InfoRight' = InfoRight /\ \A e \in done : Csv(e)' = Csv(e)
    BY <1>2 DEF InfoRight, HeadCommit, Gated, Csv
  <2> QED BY <1>2, <2>1, <2>2, <2>3 DEF Record
<1> QED BY <1>4, <1>5, <1>6, <1>7 DEF IInv

\* A sequence over a set is one over a larger set.
LEMMA LargerSeq ==
  ASSUME NEW S, NEW T, S \subseteq T, NEW s \in Seq(S)
  PROVE  s \in Seq(T)
<1>1. Len(s) \in Nat /\ s \in [1 .. Len(s) -> S]
  OBVIOUS
<1>2. s \in [1 .. Len(s) -> T]
  BY <1>1
<1> QED BY <1>1, <1>2

\* What the developer does disturbs the run, and touches nothing that has to hold
\* of a disturbed one.
LEMMA DeveloperStep == IInv /\ (Edit \/ Commit) => IInv'
<1> SUFFICES ASSUME IInv, Edit \/ Commit PROVE IInv'
  OBVIOUS
<1>1. /\ UNCHANGED <<script, in_tree, results, build, chosen, plan, done, status>>
      /\ disturbed' = TRUE
      /\ Types /\ Order /\ Covered /\ SameBinary /\ Record
  BY DEF Edit, Commit, resultVars, runVars, IInv
<1>2. Types'
  <2>1. CASE Edit
    <3>1. edits' = edits + 1 /\ source' = edits + 1 /\ edits < MaxEdits
          /\ UNCHANGED <<history, kept, changed>>
      BY <2>1 DEF Edit, resultVars
    <3>2. edits \in Nat /\ edits' \in 1 .. MaxEdits /\ source' \in 1 .. edits'
      BY <1>1, <3>1, BoundsAssumption DEF Types
    <3>3. 0 .. edits \subseteq 0 .. edits' /\ 1 .. edits \subseteq 1 .. edits'
      BY <3>1, <3>2
    <3>4. \A f \in ResultFiles : f \in ResultFiles'
      BY <3>3 DEF ResultFiles, CsvFile
    <3>5. build' \in [Directories -> [source : 0 .. edits', tested : BOOLEAN]]
      BY <1>1, <3>3 DEF Types
    <3>6. history' \in Seq(1 .. edits') /\ Len(history') > 0
      <4>1. history \in Seq(1 .. edits) /\ Len(history) > 0 /\ history' = history
        BY <1>1, <3>1 DEF Types
      <4> QED BY <3>3, <4>1, LargerSeq
    <3>7. results' \in ResultFiles' /\ kept' \in ResultFiles'
      BY <1>1, <3>1, <3>4 DEF Types
    <3> QED BY <1>1, <3>1, <3>2, <3>5, <3>6, <3>7 DEF Types
  <2>2. CASE Commit
    <3>1. /\ history' = Append(history, source)
          /\ kept' \in {kept, results} /\ changed' \in {changed, FALSE}
          /\ UNCHANGED <<source, edits>>
      BY <2>2 DEF Commit
    <3>2. history' \in Seq(1 .. edits) /\ Len(history') > 0
      BY <1>1, <3>1 DEF Types
    <3>3. results' \in ResultFiles' /\ kept' \in ResultFiles'
      BY <1>1, <3>1 DEF Types, ResultFiles, CsvFile
    <3> QED BY <1>1, <3>1, <3>2, <3>3 DEF Types
  <2> QED BY <2>1, <2>2
<1>3. Order'
  BY <1>1 DEF Order, InOrder, Prepared, TestedFirst, BuiltFirst, WillTest, WillBuild, NoBuild
<1>4. Covered' /\ SameBinary'
  BY <1>1 DEF Covered, SameBinary, Csv
<1>5. Record'
  BY <1>1 DEF Record
<1> QED BY <1>2, <1>3, <1>4, <1>5 DEF IInv

LEMMA DiscardStep == IInv /\ Discard => IInv'
<1> SUFFICES ASSUME IInv, Discard PROVE IInv'
  OBVIOUS
<1>1. /\ UNCHANGED <<script, in_tree, edits, history, kept, build, chosen, plan>>
      /\ done' = {} /\ status' = "idle" /\ disturbed' = TRUE /\ status # "running"
      /\ source' = history[HeadCommit]
      /\ results' \in {results, kept} /\ changed' \in {changed, FALSE}
      /\ Types /\ Order /\ Covered /\ SameBinary /\ Record
  BY DEF Discard, IInv
<1>2. Types'
  <2>1. source' \in 1 .. edits
    BY <1>1 DEF Types, HeadCommit
  <2>2. results' \in ResultFiles' /\ kept' \in ResultFiles'
    BY <1>1 DEF Types, ResultFiles, CsvFile
  <2> QED BY <1>1, <2>1, <2>2 DEF Types
<1>3. Order'
  <2>1. plan' = <<>> /\ Len(plan') = 0
    BY <1>1 DEF Types
  <2> QED BY <2>1 DEF Order, InOrder, Prepared
<1>4. Covered' /\ SameBinary' /\ Record'
  BY <1>1 DEF Covered, SameBinary, Record
<1> QED BY <1>2, <1>3, <1>4 DEF IInv

LEMMA InvariantStep == IInv /\ [Next]_vars => IInv'
<1> SUFFICES ASSUME IInv, [Next]_vars PROVE IInv'
  OBVIOUS
<1>1. CASE UNCHANGED vars
  <2>1. UNCHANGED <<script, in_tree, source, edits, history, results, kept, changed, build,
                    chosen, plan, done, status, disturbed>>
    BY <1>1 DEF vars, treeVars, resultVars, runVars
  <2>2. Types'
    BY <2>1 DEF IInv, Types, ResultFiles, CsvFile
  <2>3. Order'
    BY <2>1 DEF IInv, Order, InOrder, Prepared, TestedFirst, BuiltFirst, WillTest, WillBuild,
       NoBuild
  <2>4. Covered' /\ SameBinary'
    BY <2>1 DEF IInv, Covered, SameBinary, Csv
  <2>5. Record'
    <3>1. InfoRight' = InfoRight /\ Dirty' = Dirty /\ Gated' = Gated
      BY <2>1 DEF InfoRight, HeadCommit, Gated, Dirty
    <3> QED BY <2>1, <3>1 DEF IInv, Record, Csv
  <2> QED BY <2>2, <2>3, <2>4, <2>5 DEF IInv
<1> QED
  BY <1>1, StartStep, StopStep, GateStep, CollectStep, BuildStep, CtestStep, BenchmarkStep,
     CountersStep, DeveloperStep, DiscardStep DEF Next

LEMMA Invariance == Spec => []IInv
<1> QED BY InitIInv, InvariantStep, PTL DEF Spec

-------------------------------------------------------------------------------
(* The properties *)

\* The state of scripts, worktree and result files stays well formed.
THEOREM TypeCorrect == Spec => []TypeOK
<1>1. IInv => TypeOK
  <2> SUFFICES ASSUME Types PROVE TypeOK
    BY DEF IInv
  <2>1. \A h \in DOMAIN history : history[h] \in 1 .. edits
    BY DEF Types
  <2>2. /\ \A d \in Directories : build[d].source \in 0 .. edits
        /\ \A e \in Experiments : Csv(e).source \in 0 .. edits
    BY DEF Types, ResultFiles, CsvFile, Csv
  <2> QED BY <2>1, <2>2 DEF Types, TypeOK
<1> QED BY Invariance, <1>1, PTL

\* No script measures a binary that ctest has not approved, however many builds
\* have failed before it and whatever the earlier runs left in the directories.
THEOREM OnlyTestedIsMeasured == Spec => []MeasuredAfterItsTests
<1>1. IInv => MeasuredAfterItsTests
  BY HeadPrepared DEF IInv, MeasuredAfterItsTests, Runs
<1> QED BY Invariance, <1>1, PTL

\* Exit status 0 of a script means that every experiment it was asked for was
\* measured and verified, for every list of experiments.
THEOREM FinishedIsVerified == Spec => []FinishedMeansVerified
<1>1. IInv => FinishedMeansVerified
  <2> SUFFICES ASSUME IInv, status = "finished" \/ Runs("counters"), NEW x \in DOMAIN chosen
               PROVE  /\ chosen[x] \in done /\ Csv(chosen[x]).verified
                      /\ Runs("counters") => Csv(chosen[x]).source = build["release"].source
    BY DEF FinishedMeansVerified
  <2>1. x \in 1 .. Len(chosen) /\ Types /\ Order /\ Covered /\ SameBinary
    <3>1. Types /\ Order /\ Covered /\ SameBinary
      BY DEF IInv
    <3>2. chosen \in Seq(Experiments)
      BY <3>1 DEF Types
    <3> QED BY <3>1, <3>2
  <2>2. ~\E i \in 1 .. Len(plan) : plan[i].name = "benchmark"
    <3>1. CASE status = "finished"
      BY <2>1, <3>1 DEF Types
    <3>2. CASE Runs("counters")
      <4>1. status = "running" /\ Head(plan).name = "counters" /\ Tail(plan) = <<>>
        BY <2>1, <3>2, HeadInOrder DEF Runs
      <4>2. Len(plan) \in Nat \ {0} /\ Len(Tail(plan)) = Len(plan) - 1 /\ Head(plan) = plan[1]
        BY <2>1, <4>1, TailFacts DEF Types
      <4>3. Len(plan) = 1
        BY <4>1, <4>2
      <4> QED BY <4>1, <4>2, <4>3
    <3> QED BY <3>1, <3>2
  <2>3. chosen[x] \in done /\ Csv(chosen[x]).verified
    BY <2>1, <2>2 DEF Covered, Runs
  <2>4. Runs("counters") => script # "compiler-options"
    BY <2>1, HeadInOrder DEF Runs
  <2> QED BY <2>1, <2>3, <2>4 DEF SameBinary
<1> QED BY Invariance, <1>1, PTL

\* The commit in system-info.txt is the source of everything a run has measured,
\* as long as nobody works in the tree meanwhile.
THEOREM RecordIsRight == Spec => []RecordIdentifiesSource
<1>1. IInv => RecordIdentifiesSource
  BY DEF IInv, Record, RecordIdentifiesSource, InfoRight
<1> QED BY Invariance, <1>1, PTL

\* The experiments of one comparison come from one binary, also when the sources
\* change while it is measured.
THEOREM ComparesOneBinary == Spec => []OneBinaryPerComparison
<1>1. IInv => OneBinaryPerComparison
  BY DEF IInv, SameBinary, OneBinaryPerComparison
<1> QED BY Invariance, <1>1, PTL
===============================================================================
