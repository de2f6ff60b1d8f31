-------------------------- MODULE SpellbookCommand --------------------------
(***************************************************************************)
(* `kampus generate spellbook` (apps/cli/commands/generate/spellbook): one  *)
(* run after another in one workspace.  A run is refused when its feature  *)
(* exists; otherwise it collects columns on a form, unless --no-tui, and   *)
(* performs the steps of the generator one by one.  The generator reports  *)
(* each step on a stream; the progress screen, which opens in its own time, *)
(* shows what it hears.  A run may fail or be killed at any step.          *)
(***************************************************************************)
EXTENDS Generator

CONSTANTS
  Names,       \* the column names a developer types
  Tables,      \* the tables a developer names with --table
  Options,     \* the flags of a run (GeneratorOptions, and noTui)
  Existing,    \* the workspace before the first run
  MaxColumns,  \* bound: columns entered in all runs
  MaxRuns,     \* bound: runs that pass validation
  MaxEvents    \* bound: events on the stream

NoName == "no name"

FlagNames == {"skipWrangler", "skipIndex", "skipDrizzle", "withTest", "withGraphql", "withRoute",
              "withAll", "dryRun", "noTui"}

\* The parts of a workspace that are kept in order.
Registers == {"exports", "routes", "bindings", "migrations", "resolvers"}

Ascending(migrations) ==
  \A i, j \in DOMAIN migrations : i < j => migrations[i].tag < migrations[j].tag

\* The files of a workspace are in its directories, and its migrations are
\* numbered in order.
WorkspaceOK(w) ==
  /\ DOMAIN w = {"dirs", "files", "dependencies"} \union Registers
  /\ \A r \in Registers : w[r] \in Seq(Range(w[r]))
  /\ \A p \in DOMAIN w.files : p[1] \in w.dirs
  /\ \A i \in DOMAIN w.migrations : w.migrations[i].tag \in Nat
  /\ Ascending(w.migrations)

ASSUME SpellbookAssumption ==
  /\ IsFiniteSet(Features) /\ Features # {}
  /\ Options \subseteq [FlagNames -> BOOLEAN] /\ Options # {}
  /\ ColumnTypes \in Seq(DOMAIN ColumnTypeToSchema) \ {<<>>}
  /\ WorkspaceOK(Existing)

VARIABLES
  ws,        \* the workspace on disk
  command,   \* the run, or the last one: [naming, options]
  phase,     \* "idle", "form" or "generating"
  form,      \* the column form
  columns,   \* the columns of the run
  at,        \* the next step of the generator; 0 when it has none left
  events,    \* the stream of progress events, oldest first
  screen,    \* the progress screen, or the console
  typed,     \* the columns the developer entered in all runs, in order
  since,     \* how many of them before this run
  runs       \* runs so far

vars == <<ws, command, phase, form, columns, at, events, screen, typed, since, runs>>

(***************************************************************************)
(* The steps of the generator                                              *)
(***************************************************************************)
FileSteps(n, cols, options) ==
  LET files == GenerateFiles(n, cols, options)
  IN  [i \in DOMAIN files |-> [do |-> "file", file |-> files[i]]]

IntegrationStepsUnlessSkipped(options) ==
  (IF ~options.skipIndex /\ ~options.skipWrangler
     THEN << [do |-> "index"], [do |-> "wrangler"], [do |-> "package"] >> ELSE <<>>)
  \o (IF options.withGraphql \/ options.withAll THEN << [do |-> "resolvers"] >> ELSE <<>>)
  \o (IF options.withRoute \/ options.withAll THEN << [do |-> "route"] >> ELSE <<>>)

IntegrationSteps(options) ==
  (IF ~options.skipIndex \/ ~options.skipWrangler
     THEN << [do |-> "index"], [do |-> "wrangler"], [do |-> "package"] >> ELSE <<>>)
  \o (IF options.withGraphql \/ options.withAll THEN << [do |-> "resolvers"] >> ELSE <<>>)
  \o (IF options.withRoute \/ options.withAll THEN << [do |-> "route"] >> ELSE <<>>)

DrizzleSteps(options) ==
  IF options.skipDrizzle THEN <<>> ELSE << [do |-> "drizzle_start"], [do |-> "drizzle"] >>

StepsRegisteringFirst(n, cols, options) ==
  IF options.dryRun THEN << [do |-> "complete"] >>
  ELSE IntegrationSteps(options) \o FileSteps(n, cols, options) \o DrizzleSteps(options)
         \o << [do |-> "complete"] >>

Steps(n, cols, options) ==
  IF options.dryRun THEN << [do |-> "complete"] >>
  ELSE FileSteps(n, cols, options) \o IntegrationSteps(options) \o DrizzleSteps(options)
         \o << [do |-> "complete"] >>

Step == Steps(command.naming, columns, command.options)[at]

Effect(step) ==
  LET n == command.naming
  IN  CASE step.do = "file"      -> WriteFile(ws, step.file)
        [] step.do = "index"     -> UpdateWorkerIndex(ws, n)
        [] step.do = "wrangler"  -> UpdateWranglerJsonc(ws, n)
        [] step.do = "package"   -> UpdateWorkerPackageJson(ws, n)
        [] step.do = "resolvers" -> UpdateGraphqlResolversIndex(ws, n)
        [] step.do = "route"     -> UpdateWorkerIndexWithRoute(ws, n)
        [] OTHER                 -> ws

\* A step that fails may leave behind the directory of its file.  A file is
\* written wholly or not at all, or its earlier contents stay.
Remains(step) == {ws} \union IF step.do = "file" THEN {MakeDirectory(ws, step.file)} ELSE {}

(***************************************************************************)
(* The screens                                                             *)
(***************************************************************************)
BlankForm == [at |-> "input", name |-> NoName, typeIndex |-> 1, nullable |-> FALSE,
              field |-> "name"]

\* Listening: the effect that receives the events has run.  The console of a
\* run with --no-tui always listens.  The list of steps is its last line.
BlankScreen(noTui) ==
  [listening |-> noTui, phase |-> "generating", last |-> [type |-> "starting"]]

Heard(s, event) ==
  CASE event.type = "complete" -> [s EXCEPT !.phase = "success"]
    [] event.type = "error"    -> [s EXCEPT !.phase = "error"]
    [] OTHER -> IF s.phase = "generating" THEN [s EXCEPT !.last = event] ELSE s

(***************************************************************************)
(* Starting a run                                                          *)
(***************************************************************************)
Init ==
  /\ ws = Existing
  /\ command = [naming |-> DeriveNaming(CHOOSE f \in Features : TRUE, NoTable),
                options |-> CHOOSE o \in Options : TRUE]
  /\ phase = "idle"
  /\ form = BlankForm
  /\ columns = <<>>
  /\ at = 0
  /\ events = <<>>
  /\ screen = BlankScreen(TRUE)
  /\ typed = <<>>
  /\ since = 0
  /\ runs = 0

\* A run whose feature exists prints an error and ends: it changes nothing.
Invoke(feature, table, options) ==
  /\ phase = "idle"
  /\ runs < MaxRuns
  /\ ~FeatureExists(ws, feature)
  /\ command' = [naming |-> DeriveNaming(feature, table), options |-> options]
  /\ phase' = IF options.noTui THEN "generating" ELSE "form"
  /\ at' = IF options.noTui THEN 1 ELSE 0
  /\ form' = BlankForm
  /\ columns' = <<>>
  /\ since' = Len(typed)
  /\ events' = <<>>
  /\ screen' = BlankScreen(options.noTui)
  /\ runs' = runs + 1
  /\ UNCHANGED <<ws, typed>>

(***************************************************************************)
(* The column form                                                         *)
(***************************************************************************)
OnForm(place) == phase = "form" /\ form.at = place

Unwritten == UNCHANGED <<ws, command, at, events, screen, since, runs>>

TypeName(name) ==
  /\ OnForm("input")
  /\ form.field = "name"
  /\ form' = [form EXCEPT !.name = name]
  /\ UNCHANGED <<phase, columns, typed>> /\ Unwritten

Column == [name |-> form.name, type |-> ColumnTypes[form.typeIndex], nullable |-> form.nullable]

AddColumn ==
  /\ Len(typed) < MaxColumns
  /\ columns' = Append(columns, Column)
  /\ typed' = Append(typed, Column)
  /\ form' = BlankForm
  /\ UNCHANGED phase /\ Unwritten

Tab ==
  /\ OnForm("input")
  /\ \/ /\ \/ form.field = "name" /\ form.name # NoName /\ form' = [form EXCEPT !.field = "type"]
           \/ form.field = "type" /\ form' = [form EXCEPT !.field = "nullable"]
        /\ UNCHANGED <<phase, columns, typed>> /\ Unwritten
     \/ form.field = "nullable" /\ AddColumn

\* Left and right cycle the types, and toggle nullable.
Arrow(step) ==
  /\ OnForm("input")
  /\ \/ /\ form.field = "type"
        /\ form' = [form EXCEPT !.typeIndex = ((@ - 1 + step) % Len(ColumnTypes)) + 1]
     \/ form.field = "nullable" /\ form' = [form EXCEPT !.nullable = ~@]
  /\ UNCHANGED <<phase, columns, typed>> /\ Unwritten

Return ==
  /\ OnForm("input")
  /\ \/ /\ form.field = "name" /\ form.name = NoName
        /\ form' = [form EXCEPT !.at = "confirm"]
        /\ UNCHANGED <<phase, columns, typed>> /\ Unwritten
     \/ form.field = "nullable" /\ form.name # NoName /\ AddColumn

BackForgets ==
  /\ OnForm("confirm")
  /\ form' = BlankForm
  /\ columns' = <<>>
  /\ UNCHANGED <<phase, typed>> /\ Unwritten

Back ==
  /\ OnForm("confirm")
  /\ form' = BlankForm
  /\ UNCHANGED <<phase, columns, typed>> /\ Unwritten

\* The columns are final; the progress screen starts to open and the generator
\* starts to run.
Confirm ==
  /\ OnForm("confirm")
  /\ phase' = "generating"
  /\ at' = 1
  /\ form' = BlankForm
  /\ UNCHANGED <<ws, command, columns, events, screen, typed, since, runs>>

\* The process ends: what it held in memory and on the screen is gone.
Exit ==
  /\ phase' = "idle"
  /\ form' = BlankForm
  /\ columns' = <<>>
  /\ at' = 0
  /\ events' = <<>>
  /\ screen' = BlankScreen(TRUE)
  /\ UNCHANGED <<command, typed, since, runs>>

Cancel ==
  /\ phase = "form"
  /\ Exit
  /\ UNCHANGED ws

(***************************************************************************)
(* Generating                                                              *)
(***************************************************************************)
EventOf(step) == IF step.do = "file" THEN [type |-> "file", path |-> step.file.path]
                 ELSE [type |-> step.do]

Idle == UNCHANGED <<command, form, columns, typed, since, runs>>

\* One step: its effect on disk, then its event.  drizzle-kit may fail: the
\* failure is reported on the stream and the run goes on.
Perform ==
  /\ phase = "generating" /\ at > 0
  /\ Len(events) < MaxEvents
  /\ ws' = Effect(Step)
  /\ events' \in {Append(events, EventOf(Step))}
                   \union IF Step.do = "drizzle" THEN {Append(events, [type |-> "drizzle_failed"])}
                          ELSE {}
  /\ at' = IF Step.do = "complete" THEN 0 ELSE at + 1
  /\ UNCHANGED <<phase, screen>> /\ Idle

\* A step that touches the disk fails: the stream ends with the error, and may
\* drop what was not delivered yet.
PerformFails ==
  /\ phase = "generating" /\ at > 0
  /\ Step.do \notin {"drizzle_start", "drizzle", "complete"}
  /\ ws' \in Remains(Step)
  /\ events' \in {Append(events, [type |-> "error"]), << [type |-> "error"] >>}
  /\ at' = 0
  /\ UNCHANGED <<phase, screen>> /\ Idle

\* The renderer is up, the screen is mounted and its effect has run.
Mount ==
  /\ phase = "generating"
  /\ ~screen.listening
  /\ screen' = [screen EXCEPT !.listening = TRUE]
  /\ UNCHANGED <<ws, phase, at, events>> /\ Idle

Final(event) == event.type \in {"complete", "error"}

\* sendProgressUpdate drops an event nobody listens for.  A run with --no-tui
\* ends with its last event.
SendProgressUpdate ==
  /\ phase = "generating"
  /\ events # <<>>
  /\ LET event == Head(events)
     IN  /\ screen' = IF screen.listening THEN Heard(screen, event) ELSE screen
         /\ phase' = IF command.options.noTui /\ Final(event) THEN "idle" ELSE phase
  /\ events' = Tail(events)
  /\ UNCHANGED <<ws, at>> /\ Idle

\* Enter on the finished screen.
Acknowledge ==
  /\ phase = "generating"
  /\ ~command.options.noTui /\ screen.listening
  /\ screen.phase \in {"success", "error"}
  /\ Exit
  /\ UNCHANGED ws

\* The process is interrupted, or dies of a defect.
Kill ==
  /\ phase # "idle"
  /\ IF at > 0 THEN ws' \in Remains(Step) ELSE UNCHANGED ws
  /\ Exit

Next ==
  \/ \E f \in Features, t \in Tables \union {NoTable}, o \in Options : Invoke(f, t, o)
  \/ \E name \in Names \union {NoName} : TypeName(name)
  \/ Tab \/ Return \/ Back \/ Confirm \/ Cancel
  \/ \E step \in {-1, 1} : Arrow(step)
  \/ Perform \/ PerformFails \/ Mount \/ SendProgressUpdate \/ Acknowledge \/ Kill

Spec == Init /\ [][Next]_vars

(***************************************************************************)
(* Properties                                                              *)
(***************************************************************************)
ColumnSet == [name : Names, type : Range(ColumnTypes), nullable : BOOLEAN]
EventSet == [type : {"file"}, path : DOMAIN ws.files]
              \union [type : {"index", "wrangler", "package", "resolvers", "route", "drizzle_start",
                              "drizzle", "drizzle_failed", "complete", "error"}]

\* Types.  A column that was added has a name, and an event about a file is
\* about a file on disk.
TypeOK ==
  /\ \A p \in DOMAIN ws.files : p[1] \in ws.dirs
  /\ command.options \in Options /\ command.naming.feature \in Features
  /\ phase \in {"idle", "form", "generating"}
  /\ form \in [at : {"input", "confirm"}, name : Names \union {NoName},
               typeIndex : 1 .. Len(ColumnTypes), nullable : BOOLEAN,
               field : {"name", "type", "nullable"}]
  /\ Range(columns) \subseteq ColumnSet /\ Range(typed) \subseteq ColumnSet
  /\ at \in 0 .. Len(Steps(command.naming, columns, command.options))
  /\ Range(events) \subseteq EventSet /\ screen.last \in EventSet \union [type : {"starting"}]
  /\ screen.listening \in BOOLEAN /\ screen.phase \in {"generating", "success", "error"}

\* The files every feature consists of.
FeatureComplete(feature) ==
  LET n == DeriveNaming(feature, NoTable)
  IN  {f.path : f \in Range(PackageFiles(n, <<>>) \o WorkerFiles(n, <<>>))} \subseteq DOMAIN ws.files

\* What the worker's index and routes name is on disk.
RegisteredHasFiles ==
  /\ \A e \in Range(ws.exports) \ Range(Existing.exports) : FeatureComplete(e.feature)
  /\ \A f \in Range(ws.routes) \ Range(Existing.routes) : FeatureComplete(f)

\* No more bindings were added than there are features.
BoundOnce ==
  Len(ws.bindings) - Len(Existing.bindings) <= Cardinality({f \in Features : FeatureExists(ws, f)})

TagsAscend == Ascending(ws.migrations)

\* Wherever runs stop, the files that register features (integrations.ts) name
\* only features whose files are all written, bind a feature at most once, and
\* number the migrations in order, although updateWranglerJsonc appends
\* whatever is there and two features may share a class or a table.
WorkspaceSound == TypeOK /\ RegisteredHasFiles /\ BoundOnce /\ TagsAscend

\* What a finished run leaves on disk, by its options.
RunComplete ==
  LET n == command.naming
      o == command.options
  IN  /\ FilesPresent(ws, GenerateFiles(n, columns, o))
      /\ ~o.skipIndex => ExportOf(n) \in Range(ws.exports)
      /\ ~o.skipWrangler => /\ [name |-> n.binding, class |-> n.class] \in Range(ws.bindings)
                            /\ \E m \in Range(ws.migrations) : m.class = n.class
      /\ ~(o.skipIndex /\ o.skipWrangler) => n.feature \in ws.dependencies
      /\ o.withGraphql \/ o.withAll => n.class \in Range(ws.resolvers)
      /\ o.withRoute \/ o.withAll => n.feature \in Range(ws.routes)

\* The progress screen and the console (renderApp.tsx, spellbook.ts) list a file
\* only when it is on disk, whatever fails afterwards, and report success only
\* for a run whose files and registrations are all there.
ScreenTellsTruth ==
  /\ screen.last.type = "file" => screen.last.path \in DOMAIN ws.files
  /\ screen.phase = "success" /\ ~command.options.dryRun => RunComplete

EnteredNow == SubSeq(typed, since + 1, Len(typed))

\* The generated files hold the columns the developer entered on the form
\* (SpellbookApp.tsx), all of them and in order, however often the summary was
\* left to add more.
GeneratesWhatWasTyped ==
  phase = "generating" =>
    /\ columns = EnteredNow
    /\ LET n == command.naming
           files == PackageFiles(n, EnteredNow) \o WorkerFiles(n, EnteredNow)
       IN  \A f \in Range(files) : f.path \in DOMAIN ws.files => ws.files[f.path] = f.content

OwnDirs == {PackageDir(f) : f \in Features} \union {WorkerDir(f) : f \in Features}

\* A run never changes a file in the directories of a feature that an earlier
\* run wrote, complete or not (checkFeatureExists), and a dry run changes
\* nothing at all.
RunsOnlyAdd ==
  [][/\ \A p \in DOMAIN ws.files : p[1] \in OwnDirs => ws'.files[p] = ws.files[p]
     /\ command'.options.dryRun => UNCHANGED ws]_vars

\* "Progress display during file generation" and "Success/error messages with
\* colors" (specs/spellbook-generator/requirements.md, FR-3.7 and FR-3.8): once
\* the stream is over, a screen that is up shows how the run ended.
OutcomeShown ==
  phase = "generating" /\ screen.listening /\ at = 0 /\ events = <<>> => screen.phase # "generating"
=============================================================================
