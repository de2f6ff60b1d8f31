----------------------------- MODULE Generator -----------------------------
(***************************************************************************)
(* The spellbook generator (apps/cli/generators/spellbook): which files a  *)
(* feature consists of, what its columns become in each of them, and the   *)
(* edits it makes to the files of the monorepo that register a feature.    *)
(*                                                                         *)
(* A workspace is the part of the monorepo that the generator reads or     *)
(* writes.  Files are functions from a path to its content; an edited file *)
(* is the sequence of the entries it holds.                                *)
(***************************************************************************)
EXTENDS Integers, Sequences, FiniteSets, Functions

CONSTANTS
  Features,   \* kebab-case feature names
  ClassOf,    \* the PascalCase form of a feature name: "a-1" and "a1" share one
  TableOf,    \* the snake_case form of a feature name
  UpperCase,  \* the upper-case form of a table name
  NoTable,    \* no --table option
  ColumnTypes \* the types a column may have, in the order the form offers them

(***************************************************************************)
(* Naming                                                                  *)
(***************************************************************************)
DeriveNaming(feature, table) ==
  LET tableName == IF table = NoTable THEN TableOf[feature] ELSE table
  IN  [feature |-> feature, class |-> ClassOf[feature],
       table |-> tableName, binding |-> UpperCase[tableName]]

(***************************************************************************)
(* Columns.  A column is [name, type, nullable]; the type of a value on    *)
(* the wire, of a value read from a row and of a GraphQL field.            *)
(***************************************************************************)
ColumnTypeToSchema ==
  [text |-> "string", integer |-> "number", boolean |-> "boolean", timestamp |-> "string"]

ColumnTypeToDrizzle ==
  [text |-> "string", integer |-> "number", boolean |-> "boolean", timestamp |-> "Date"]

ColumnTypeToGraphQL ==
  [text |-> "string", integer |-> "number", boolean |-> "boolean", timestamp |-> "string"]

Fields(columns, typeOf) ==
  [i \in DOMAIN columns |-> [name |-> columns[i].name, type |-> typeOf[columns[i].type],
                             nullable |-> columns[i].nullable]]

SchemaTs(columns) == Fields(columns, ColumnTypeToSchema)
DrizzleSchemaTs(columns) == Fields(columns, ColumnTypeToDrizzle)

\* What the generated handlers return for a row: the row as it was read.
HandlersTs(columns) == DrizzleSchemaTs(columns)

GraphQLTypeCode(columns) == Fields(columns, ColumnTypeToGraphQL)

(***************************************************************************)
(* Files                                                                   *)
(***************************************************************************)
PackageDir(feature) == <<"packages", feature>>
WorkerDir(feature) == <<"features", feature>>

File(dir, name, naming, fields) ==
  [path |-> <<dir, name>>, content |-> [naming |-> naming, fields |-> fields]]

PackageFiles(n, columns) ==
  LET file(name, fields) == File(PackageDir(n.feature), name, n, fields)
  IN  << file("package.json", <<>>), file("tsconfig.json", <<>>), file("index.ts", <<>>),
         file("errors.ts", <<>>), file("schema.ts", SchemaTs(columns)), file("rpc.ts", <<>>) >>

WorkerFiles(n, columns) ==
  LET file(name, fields) == File(WorkerDir(n.feature), name, n, fields)
  IN  << file("class.ts", <<>>), file("handlers.ts", HandlersTs(columns)),
         file("drizzle.config.ts", <<>>), file("drizzle.schema.ts", DrizzleSchemaTs(columns)),
         file("migrations.js", <<>>), file("_journal.json", <<>>) >>

TestFiles(n) == << File(<<"test">>, n.feature, n, <<>>) >>

GraphqlFiles(n, columns) ==
  << File(<<"resolvers">>, <<n.class, "Client.ts">>, n, <<>>),
     File(<<"resolvers">>, <<n.class, "Client.graphql-type.md">>, n, GraphQLTypeCode(columns)) >>

GenerateFiles(n, columns, options) ==
  PackageFiles(n, columns) \o WorkerFiles(n, columns)
    \o (IF options.withTest \/ options.withAll THEN TestFiles(n) ELSE <<>>)
    \o (IF options.withGraphql \/ options.withAll THEN GraphqlFiles(n, columns) ELSE <<>>)

(***************************************************************************)
(* The workspace                                                           *)
(***************************************************************************)
AppendNew(s, x) == IF x \in Range(s) THEN s ELSE Append(s, x)

\* Writing a file makes its directory first.
MakeDirectory(ws, file) == [ws EXCEPT !.dirs = @ \union {file.path[1]}]

WriteFile(ws, file) ==
  [MakeDirectory(ws, file) EXCEPT !.files =
     [p \in DOMAIN @ \union {file.path} |-> IF p = file.path THEN file.content ELSE @[p]]]

ExportOf(n) == [class |-> n.class, feature |-> n.feature]

UpdateWorkerIndex(ws, n) == [ws EXCEPT !.exports = AppendNew(@, ExportOf(n))]

\* Adds the binding and a migration with the tag after the highest one, whether
\* or not the class is there already.
MaxTag(migrations) ==
  IF migrations = <<>> THEN 0
  ELSE CHOOSE t \in {m.tag : m \in Range(migrations)} : \A m \in Range(migrations) : m.tag <= t

UpdateWranglerJsonc(ws, n) ==
  [ws EXCEPT !.bindings = Append(@, [name |-> n.binding, class |-> n.class]),
             !.migrations = Append(@, [tag |-> MaxTag(@) + 1, class |-> n.class])]

UpdateWorkerPackageJson(ws, n) == [ws EXCEPT !.dependencies = @ \union {n.feature}]

UpdateGraphqlResolversIndex(ws, n) == [ws EXCEPT !.resolvers = AppendNew(@, n.class)]

UpdateWorkerIndexWithRoute(ws, n) == [ws EXCEPT !.routes = AppendNew(@, n.feature)]

FeatureExistsInWorker(ws, feature) == WorkerDir(feature) \in ws.dirs

FeatureExists(ws, feature) ==
  {PackageDir(feature), WorkerDir(feature)} \intersect ws.dirs # {}

FilesPresent(ws, files) ==
  \A i \in DOMAIN files : /\ files[i].path \in DOMAIN ws.files
                          /\ ws.files[files[i].path] = files[i].content
=============================================================================
