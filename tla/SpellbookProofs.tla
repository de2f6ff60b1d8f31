-------------------------- MODULE SpellbookProofs --------------------------
(***************************************************************************)
(* Proofs about `kampus generate spellbook`, for every set of features and *)
(* tables, every naming of them, every set of flags, any workspace that is *)
(* in order, and any number of columns, runs and events.                   *)
(***************************************************************************)
EXTENDS SpellbookCommand, SequenceTheorems, FiniteSetTheorems, TLAPS
-----------------------------------------------------------------------------
\* Sequences.

\* s is a sequence.
Ordered(s) == s \in Seq(Range(s))

\* A sequence has its entries at 1 to its length.
LEMMA OrderedIs ==
  ASSUME NEW s, Ordered(s)
  PROVE  /\ Len(s) \in Nat /\ DOMAIN s = 1 .. Len(s)
         /\ \A x \in Range(s) : \E i \in DOMAIN s : s[i] = x
         /\ \A i \in DOMAIN s : s[i] \in Range(s)
  BY DEF Ordered, Range

\* A sequence over a set has its entries there.
LEMMA OrderedFrom ==
  ASSUME NEW S, NEW s \in Seq(S)
  PROVE  Ordered(s) /\ Range(s) \subseteq S
<1>1. Len(s) \in Nat /\ DOMAIN s = 1 .. Len(s) /\ \A i \in 1 .. Len(s) : s[i] \in S
  OBVIOUS
<1>2. s = [i \in 1 .. Len(s) |-> s[i]]
  OBVIOUS
<1>3. \A i \in 1 .. Len(s) : s[i] \in Range(s)
  BY <1>1 DEF Range
<1>4. [i \in 1 .. Len(s) |-> s[i]] \in Seq(Range(s))
  BY <1>1, <1>3
<1> QED BY <1>1, <1>2, <1>4 DEF Ordered, Range

\* Append adds one entry, at the end.
LEMMA AppendIs ==
  ASSUME NEW s, NEW x, Ordered(s)
  PROVE  LET t == Append(s, x) IN
         /\ Ordered(t) /\ Range(t) = Range(s) \cup {x}
         /\ Len(t) = Len(s) + 1 /\ t[Len(s) + 1] = x
         /\ DOMAIN t = 1 .. Len(s) + 1 /\ \A i \in DOMAIN s : t[i] = s[i]
<1> DEFINE t == Append(s, x)
           S == Range(s) \cup {x}
<1>1. s \in Seq(S) /\ x \in S /\ Len(s) \in Nat /\ DOMAIN s = 1 .. Len(s)
  BY DEF Ordered
<1>2. /\ t \in Seq(S) /\ Len(t) = Len(s) + 1 /\ t[Len(s) + 1] = x
      /\ \A i \in DOMAIN s : t[i] = s[i]
  BY <1>1, AppendProperties
<1>3. DOMAIN t = 1 .. Len(s) + 1
  BY <1>1, <1>2, LenProperties
<1> HIDE DEF t
<1>4. Ordered(t) /\ Range(t) \subseteq S
  BY <1>2, OrderedFrom
<1>5. Range(s) \subseteq Range(t)
  <2>1. \A i \in DOMAIN s : i \in DOMAIN t
    BY <1>1, <1>3
  <2> QED BY <1>2, <2>1 DEF Range
<1>6. x \in Range(t)
  <2>1. Len(s) + 1 \in DOMAIN t
    BY <1>1, <1>3
  <2> QED BY <1>2, <2>1 DEF Range
<1>7. Range(t) = Range(s) \cup {x}
  BY <1>4, <1>5, <1>6
<1> QED BY <1>2, <1>3, <1>4, <1>7 DEF t

\* AppendNew (addImport, addExport, addRoute) adds an entry unless it is there.
LEMMA AppendNewIs ==
  ASSUME NEW s, NEW x, Ordered(s)
  PROVE  Ordered(AppendNew(s, x)) /\ Range(AppendNew(s, x)) = Range(s) \cup {x}
<1>1. CASE x \in Range(s)
  BY <1>1 DEF AppendNew
<1>2. CASE x \notin Range(s)
  BY <1>2, AppendIs DEF AppendNew
<1> QED BY <1>1, <1>2

\* A concatenation holds the entries of both, in order.
LEMMA ConcatIs ==
  ASSUME NEW s, NEW t, Ordered(s), Ordered(t)
  PROVE  LET u == s \o t IN
         /\ Ordered(u) /\ Range(u) = Range(s) \cup Range(t)
         /\ Len(u) = Len(s) + Len(t) /\ DOMAIN u = 1 .. Len(s) + Len(t)
         /\ \A i \in DOMAIN s : i \in DOMAIN u /\ u[i] = s[i]
         /\ \A i \in DOMAIN t : i + Len(s) \in DOMAIN u /\ u[i + Len(s)] = t[i]
         /\ \A i \in DOMAIN u : \/ i \in DOMAIN s /\ u[i] = s[i]
                                \/ i > Len(s) /\ i - Len(s) \in DOMAIN t /\ u[i] = t[i - Len(s)]
<1> DEFINE u == s \o t
           S == Range(s) \cup Range(t)
<1>1. /\ s \in Seq(S) /\ t \in Seq(S) /\ Len(s) \in Nat /\ Len(t) \in Nat
      /\ DOMAIN s = 1 .. Len(s) /\ DOMAIN t = 1 .. Len(t)
  BY DEF Ordered
<1>2. /\ u \in Seq(S) /\ Len(u) = Len(s) + Len(t)
      /\ \A i \in 1 .. Len(u) : u[i] = IF i <= Len(s) THEN s[i] ELSE t[i - Len(s)]
  BY <1>1, ConcatProperties
<1>3. DOMAIN u = 1 .. Len(s) + Len(t)
  BY <1>1, <1>2, LenProperties
<1> HIDE DEF u
<1>4. \A i \in DOMAIN s : i \in DOMAIN u /\ u[i] = s[i]
  BY <1>1, <1>2, <1>3
<1>5. \A i \in DOMAIN t : i + Len(s) \in DOMAIN u /\ u[i + Len(s)] = t[i]
  <2> SUFFICES ASSUME NEW i \in DOMAIN t  PROVE i + Len(s) \in DOMAIN u /\ u[i + Len(s)] = t[i]
    OBVIOUS
  <2>1. i \in 1 .. Len(t)
    BY <1>1
  <2>2. i + Len(s) \in 1 .. Len(u) /\ ~ (i + Len(s) <= Len(s)) /\ i + Len(s) - Len(s) = i
    BY <1>1, <1>2, <2>1
  <2> QED BY <1>2, <1>3, <2>2
<1>6. \A i \in DOMAIN u : \/ i \in DOMAIN s /\ u[i] = s[i]
                          \/ i > Len(s) /\ i - Len(s) \in DOMAIN t /\ u[i] = t[i - Len(s)]
  BY <1>1, <1>2, <1>3
<1>7. Ordered(u) /\ Range(u) \subseteq S
  BY <1>2, OrderedFrom
<1>8. S \subseteq Range(u)
  BY <1>4, <1>5 DEF Range
<1> QED BY <1>2, <1>3, <1>4, <1>5, <1>6, <1>7, <1>8 DEF u

\* What a queue is without its head.
LEMMA TailIs ==
  ASSUME NEW s, Ordered(s), s # <<>>
  PROVE  /\ Ordered(Tail(s)) /\ Range(Tail(s)) \subseteq Range(s) /\ Head(s) \in Range(s)
         /\ Len(Tail(s)) = Len(s) - 1 /\ Len(s) \in Nat \ {0}
         /\ 1 \in DOMAIN s /\ Head(s) = s[1]
<1>1. s \in Seq(Range(s))
  BY DEF Ordered
<1>2. Tail(s) \in Seq(Range(s)) /\ Head(s) = s[1] /\ Len(Tail(s)) = Len(s) - 1 /\ Len(s) \in Nat \ {0}
      /\ DOMAIN s = 1 .. Len(s)
  BY <1>1
<1>3. 1 \in DOMAIN s
  BY <1>2
<1> QED BY <1>2, <1>3, OrderedFrom DEF Range

\* Sequences that are written out.
LEMMA EmptyIs == Ordered(<<>>) /\ Range(<<>>) = {} /\ Len(<<>>) = 0
  BY DEF Ordered, Range

LEMMA OneIs ==
  ASSUME NEW a  PROVE Ordered(<<a>>) /\ Range(<<a>>) = {a} /\ Len(<<a>>) = 1 /\ <<a>>[1] = a
  BY DEF Ordered, Range

LEMMA TwoIs ==
  ASSUME NEW a, NEW b  PROVE Ordered(<<a, b>>) /\ Range(<<a, b>>) = {a, b} /\ Len(<<a, b>>) = 2
<1>1. DOMAIN <<a, b>> = {1, 2}
  OBVIOUS
<1> QED BY <1>1 DEF Ordered, Range

LEMMA ThreeIs ==
  ASSUME NEW a, NEW b, NEW c
  PROVE  /\ Ordered(<<a, b, c>>) /\ Range(<<a, b, c>>) = {a, b, c} /\ Len(<<a, b, c>>) = 3
         /\ \A i \in DOMAIN <<a, b, c>> : <<a, b, c>>[i] = b => b = a \/ b = c \/ i = 2
<1>1. DOMAIN <<a, b, c>> = {1, 2, 3}
  OBVIOUS
<1> QED BY <1>1 DEF Ordered, Range

LEMMA SixIs ==
  ASSUME NEW a, NEW b, NEW c, NEW d, NEW e, NEW f
  PROVE  /\ Ordered(<<a, b, c, d, e, f>>) /\ Range(<<a, b, c, d, e, f>>) = {a, b, c, d, e, f}
         /\ Len(<<a, b, c, d, e, f>>) = 6 /\ <<a, b, c, d, e, f>>[1] = a
<1>1. DOMAIN <<a, b, c, d, e, f>> = {1, 2, 3, 4, 5, 6}
  OBVIOUS
<1> QED BY <1>1 DEF Ordered, Range

-----------------------------------------------------------------------------
\* The files of a feature.

\* The directories of feature f.
Own(f) == {PackageDir(f), WorkerDir(f)}

\* No two features share a directory, and none has one of the shared ones.
LEMMA DirsDiffer ==
  ASSUME NEW f, NEW g
  PROVE  /\ PackageDir(f) # WorkerDir(g)
         /\ Own(f) \cap {<<"test">>, <<"resolvers">>} = {}
         /\ PackageDir(f) = PackageDir(g) => f = g
         /\ WorkerDir(f) = WorkerDir(g) => f = g
         /\ <<"test">> # <<"resolvers">>
<1>1. "packages" # "features" /\ "test" # "resolvers"
  OBVIOUS
<1>2. Len(<<"packages", f>>) = 2 /\ Len(<<"features", f>>) = 2 /\ Len(<<"test">>) = 1 /\ Len(<<"resolvers">>) = 1
  OBVIOUS
<1>3. <<"packages", f>>[1] = "packages" /\ <<"features", g>>[1] = "features"
      /\ <<"packages", f>>[2] = f /\ <<"features", f>>[2] = f
      /\ <<"packages", g>>[2] = g /\ <<"features", g>>[2] = g
      /\ <<"test">>[1] = "test" /\ <<"resolvers">>[1] = "resolvers"
  OBVIOUS
<1> QED BY <1>1, <1>2, <1>3 DEF PackageDir, WorkerDir, Own

\* Files of different names have different paths.
LEMMA FileIs ==
  ASSUME NEW dir, NEW name, NEW n, NEW fields
  PROVE  /\ File(dir, name, n, fields).path[1] = dir
         /\ File(dir, name, n, fields).path[2] = name
  BY DEF File

\* No two of the files S have one path.
Apart(S) == \A f, g \in S : f.path = g.path => f = g

\* The files of the package are six, in its directory.
LEMMA PackageFilesAre ==
  ASSUME NEW n, NEW c
  PROVE  LET s == PackageFiles(n, c) IN
         /\ Ordered(s) /\ Apart(Range(s)) /\ Len(s) = 6 /\ s[1] \in Range(s)
         /\ \A f \in Range(s) : f.path[1] = PackageDir(n.feature)
<1> DEFINE file(name, fields) == File(PackageDir(n.feature), name, n, fields)
           a == file("package.json", <<>>)
           b == file("tsconfig.json", <<>>)
           d == file("index.ts", <<>>)
           e == file("errors.ts", <<>>)
           f == file("schema.ts", SchemaTs(c))
           g == file("rpc.ts", <<>>)
           s == PackageFiles(n, c)
<1>1. s = <<a, b, d, e, f, g>>
  BY DEF PackageFiles
<1>2. /\ a.path[1] = PackageDir(n.feature) /\ a.path[2] = "package.json"
      /\ b.path[1] = PackageDir(n.feature) /\ b.path[2] = "tsconfig.json"
      /\ d.path[1] = PackageDir(n.feature) /\ d.path[2] = "index.ts"
      /\ e.path[1] = PackageDir(n.feature) /\ e.path[2] = "errors.ts"
      /\ f.path[1] = PackageDir(n.feature) /\ f.path[2] = "schema.ts"
      /\ g.path[1] = PackageDir(n.feature) /\ g.path[2] = "rpc.ts"
  BY FileIs
<1> HIDE DEF a, b, d, e, f, g
<1>3. Ordered(s) /\ Range(s) = {a, b, d, e, f, g} /\ Len(s) = 6 /\ s[1] = a
  BY <1>1, SixIs
<1>4. \A x, y \in {a, b, d, e, f, g} : x.path[2] = y.path[2] => x = y
  BY <1>2
<1> QED BY <1>2, <1>3, <1>4 DEF Apart

\* The files of the worker's part are in its directory.
LEMMA WorkerFilesAre ==
  ASSUME NEW n, NEW c
  PROVE  LET s == WorkerFiles(n, c) IN
         /\ Ordered(s) /\ Apart(Range(s))
         /\ \A f \in Range(s) : f.path[1] = WorkerDir(n.feature)
<1> DEFINE file(name, fields) == File(WorkerDir(n.feature), name, n, fields)
           a == file("class.ts", <<>>)
           b == file("handlers.ts", HandlersTs(c))
           d == file("drizzle.config.ts", <<>>)
           e == file("drizzle.schema.ts", DrizzleSchemaTs(c))
           f == file("migrations.js", <<>>)
           g == file("_journal.json", <<>>)
           s == WorkerFiles(n, c)
<1>1. s = <<a, b, d, e, f, g>>
  BY DEF WorkerFiles
<1>2. /\ a.path[1] = WorkerDir(n.feature) /\ a.path[2] = "class.ts"
      /\ b.path[1] = WorkerDir(n.feature) /\ b.path[2] = "handlers.ts"
      /\ d.path[1] = WorkerDir(n.feature) /\ d.path[2] = "drizzle.config.ts"
      /\ e.path[1] = WorkerDir(n.feature) /\ e.path[2] = "drizzle.schema.ts"
      /\ f.path[1] = WorkerDir(n.feature) /\ f.path[2] = "migrations.js"
      /\ g.path[1] = WorkerDir(n.feature) /\ g.path[2] = "_journal.json"
  BY FileIs
<1> HIDE DEF a, b, d, e, f, g
<1>3. Ordered(s) /\ Range(s) = {a, b, d, e, f, g}
  BY <1>1, SixIs
<1>4. \A x, y \in {a, b, d, e, f, g} : x.path[2] = y.path[2] => x = y
  BY <1>2
<1> QED BY <1>2, <1>3, <1>4 DEF Apart

\* Tests and resolvers are in shared directories.
LEMMA OtherFilesAre ==
  ASSUME NEW n, NEW c, NEW o
  PROVE  /\ LET s == IF o.withTest \/ o.withAll THEN TestFiles(n) ELSE <<>> IN
            Ordered(s) /\ Apart(Range(s)) /\ \A f \in Range(s) : f.path[1] = <<"test">>
         /\ LET s == IF o.withGraphql \/ o.withAll THEN GraphqlFiles(n, c) ELSE <<>> IN
            Ordered(s) /\ Apart(Range(s)) /\ \A f \in Range(s) : f.path[1] = <<"resolvers">>
<1>1. Ordered(<<>>) /\ Range(<<>>) = {}
  BY EmptyIs
<1>2. Ordered(TestFiles(n)) /\ Apart(Range(TestFiles(n)))
      /\ \A f \in Range(TestFiles(n)) : f.path[1] = <<"test">>
  <2> DEFINE a == File(<<"test">>, n.feature, n, <<>>)
  <2>1. a.path[1] = <<"test">>
    BY FileIs
  <2> HIDE DEF a
  <2>2. Ordered(<<a>>) /\ Range(<<a>>) = {a}
    BY OneIs
  <2>3. TestFiles(n) = <<a>>
    BY DEF TestFiles, a
  <2> QED BY <2>1, <2>2, <2>3 DEF Apart
<1>3. Ordered(GraphqlFiles(n, c)) /\ Apart(Range(GraphqlFiles(n, c)))
      /\ \A f \in Range(GraphqlFiles(n, c)) : f.path[1] = <<"resolvers">>
  <2> DEFINE a == File(<<"resolvers">>, <<n.class, "Client.ts">>, n, <<>>)
             b == File(<<"resolvers">>, <<n.class, "Client.graphql-type.md">>, n, GraphQLTypeCode(c))
  <2>1. a.path[1] = <<"resolvers">> /\ a.path[2][2] = "Client.ts"
        /\ b.path[1] = <<"resolvers">> /\ b.path[2][2] = "Client.graphql-type.md"
    BY FileIs
  <2> HIDE DEF a, b
  <2>2. Ordered(<<a, b>>) /\ Range(<<a, b>>) = {a, b}
    BY TwoIs
  <2>3. GraphqlFiles(n, c) = <<a, b>>
    BY DEF GraphqlFiles, a, b
  <2>4. a.path # b.path
    BY <2>1
  <2> QED BY <2>2, <2>3, <2>1, <2>4 DEF Apart
<1> HIDE DEF Apart, Ordered
<1>4. CASE o.withTest \/ o.withAll
  <2>1. CASE o.withGraphql \/ o.withAll
    BY <1>2, <1>3, <1>4, <2>1
  <2>2. CASE ~ (o.withGraphql \/ o.withAll)
    BY <1>1, <1>2, <1>4, <2>2 DEF Apart
  <2> QED BY <2>1, <2>2
<1>5. CASE ~ (o.withTest \/ o.withAll)
  <2>1. CASE o.withGraphql \/ o.withAll
    BY <1>1, <1>3, <1>5, <2>1 DEF Apart
  <2>2. CASE ~ (o.withGraphql \/ o.withAll)
    BY <1>1, <1>5, <2>2 DEF Apart
  <2> QED BY <2>1, <2>2
<1> QED BY <1>4, <1>5

\* Files of disjoint sets of directories do not share a path.
LEMMA ApartIn ==
  ASSUME NEW S, NEW T, NEW D, NEW E, Apart(S), Apart(T), D \cap E = {},
         \A f \in S : f.path[1] \in D, \A f \in T : f.path[1] \in E
  PROVE  Apart(S \cup T) /\ \A f \in S \cup T : f.path[1] \in D \cup E
  BY DEF Apart

\* The paths of a run's files are distinct, and those in the directories of the
\* feature are the files of package and worker, which come first.
LEMMA FilesAre ==
  ASSUME NEW n, NEW c, NEW o
  PROVE  LET s == GenerateFiles(n, c, o)
             own == PackageFiles(n, c) \o WorkerFiles(n, c) IN
         /\ Ordered(s) /\ Apart(Range(s)) /\ 1 \in DOMAIN s /\ s[1].path[1] = PackageDir(n.feature)
         /\ Range(own) \subseteq Range(s)
         /\ \A f \in Range(own) : f.path[1] \in Own(n.feature)
         /\ \A f \in Range(s) : f.path[1] \in Own(n.feature) \cup {<<"test">>, <<"resolvers">>}
<1> DEFINE p == PackageFiles(n, c)
           w == WorkerFiles(n, c)
           t == IF o.withTest \/ o.withAll THEN TestFiles(n) ELSE <<>>
           g == IF o.withGraphql \/ o.withAll THEN GraphqlFiles(n, c) ELSE <<>>
           s == GenerateFiles(n, c, o)
           d == n.feature
<1>1. s = ((p \o w) \o t) \o g
  BY DEF GenerateFiles
<1>2. /\ Ordered(p) /\ Apart(Range(p)) /\ Len(p) = 6 /\ \A f \in Range(p) : f.path[1] \in {PackageDir(d)}
      /\ Ordered(w) /\ Apart(Range(w)) /\ \A f \in Range(w) : f.path[1] \in {WorkerDir(d)}
  BY PackageFilesAre, WorkerFilesAre
<1>3. /\ Ordered(t) /\ Apart(Range(t)) /\ \A f \in Range(t) : f.path[1] \in {<<"test">>}
      /\ Ordered(g) /\ Apart(Range(g)) /\ \A f \in Range(g) : f.path[1] \in {<<"resolvers">>}
  BY OtherFilesAre
<1>4. 1 \in DOMAIN p /\ p[1] \in Range(p)
  BY <1>2, OrderedIs
<1> HIDE DEF p, w, t, g, s, d
<1>5. Ordered(p \o w) /\ Range(p \o w) = Range(p) \cup Range(w) /\ 1 \in DOMAIN (p \o w) /\ (p \o w)[1] = p[1]
  BY <1>2, <1>4, ConcatIs
<1>6. Ordered((p \o w) \o t) /\ Range((p \o w) \o t) = Range(p \o w) \cup Range(t)
      /\ 1 \in DOMAIN ((p \o w) \o t) /\ ((p \o w) \o t)[1] = p[1]
  <2> DEFINE q == p \o w
  <2> HIDE DEF q
  <2>1. Ordered(q) /\ 1 \in DOMAIN q /\ q[1] = p[1]
    BY <1>5 DEF q
  <2>2. Ordered(q \o t) /\ Range(q \o t) = Range(q) \cup Range(t)
        /\ 1 \in DOMAIN (q \o t) /\ (q \o t)[1] = p[1]
    BY <1>3, <2>1, ConcatIs
  <2> QED BY <2>2 DEF q
<1>7. Ordered(s) /\ Range(s) = Range((p \o w) \o t) \cup Range(g) /\ 1 \in DOMAIN s /\ s[1] = p[1]
  <2> DEFINE q == (p \o w) \o t
  <2> HIDE DEF q
  <2>1. Ordered(q) /\ 1 \in DOMAIN q /\ q[1] = p[1]
    BY <1>6 DEF q
  <2>2. Ordered(q \o g) /\ Range(q \o g) = Range(q) \cup Range(g)
        /\ 1 \in DOMAIN (q \o g) /\ (q \o g)[1] = p[1]
    BY <1>3, <2>1, ConcatIs
  <2> QED BY <1>1, <2>2 DEF q
<1>8. /\ {PackageDir(d)} \cap {WorkerDir(d)} = {} /\ Own(d) = {PackageDir(d)} \cup {WorkerDir(d)}
      /\ Own(d) \cap {<<"test">>} = {} /\ (Own(d) \cup {<<"test">>}) \cap {<<"resolvers">>} = {}
  BY DirsDiffer DEF Own
<1>9. Apart(Range(p \o w)) /\ \A f \in Range(p \o w) : f.path[1] \in Own(d)
  <2>1. Apart(Range(p) \cup Range(w))
        /\ \A f \in Range(p) \cup Range(w) : f.path[1] \in {PackageDir(d)} \cup {WorkerDir(d)}
    BY <1>2, <1>8, ApartIn
  <2> QED BY <1>5, <1>8, <2>1
<1>10. Apart(Range((p \o w) \o t)) /\ \A f \in Range((p \o w) \o t) : f.path[1] \in Own(d) \cup {<<"test">>}
  <2>1. Apart(Range(p \o w) \cup Range(t))
        /\ \A f \in Range(p \o w) \cup Range(t) : f.path[1] \in Own(d) \cup {<<"test">>}
    <3> DEFINE S == Range(p \o w)
               D == Own(d)
               E == {<<"test">>}
    <3>1. /\ Apart(S) /\ Apart(Range(t)) /\ D \cap E = {}
          /\ \A f \in S : f.path[1] \in D
          /\ \A f \in Range(t) : f.path[1] \in E
      BY <1>3, <1>8, <1>9
    <3> HIDE DEF S, D, E
    <3>2. Apart(S \cup Range(t)) /\ \A f \in S \cup Range(t) : f.path[1] \in D \cup E
      BY <3>1, ApartIn
    <3> QED BY <3>2 DEF S, D, E
  <2> QED BY <1>6, <2>1
<1>11. Apart(Range(s)) /\ \A f \in Range(s) : f.path[1] \in Own(d) \cup {<<"test">>} \cup {<<"resolvers">>}
  <2>1. Apart(Range((p \o w) \o t) \cup Range(g))
        /\ \A f \in Range((p \o w) \o t) \cup Range(g) :
             f.path[1] \in Own(d) \cup {<<"test">>} \cup {<<"resolvers">>}
    <3> DEFINE S == Range((p \o w) \o t)
               D == Own(d) \cup {<<"test">>}
               E == {<<"resolvers">>}
    <3>1. /\ Apart(S) /\ Apart(Range(g)) /\ D \cap E = {}
          /\ \A f \in S : f.path[1] \in D
          /\ \A f \in Range(g) : f.path[1] \in E
      BY <1>3, <1>8, <1>10
    <3> HIDE DEF S, D, E
    <3>2. Apart(S \cup Range(g)) /\ \A f \in S \cup Range(g) : f.path[1] \in D \cup E
      BY <3>1, ApartIn
    <3> QED BY <3>2 DEF S, D, E
  <2> QED BY <1>7, <2>1
<1>12. s[1].path[1] = PackageDir(d)
  BY <1>2, <1>4, <1>7
<1> QED BY <1>5, <1>6, <1>7, <1>9, <1>11, <1>12 DEF p, w, s, d

-----------------------------------------------------------------------------
\* The steps of a run: its files first, then the edits, each once.

\* At most one of the steps s is for wrangler.jsonc.
Once(s) == \A i, j \in DOMAIN s : s[i].do = "wrangler" /\ s[j].do = "wrangler" => i = j

\* None of the steps s is of this kind.
Never(s, kind) == \A x \in Range(s) : x.do # kind

\* The steps s are those of the files F, and others.
FilesFirst(s, F) ==
  /\ \A i \in DOMAIN F : i \in DOMAIN s /\ s[i] = F[i]
  /\ \A i \in DOMAIN s : i \in DOMAIN F \/ s[i].do # "file"

\* Both hold for steps after steps.
LEMMA OnceConcat ==
  ASSUME NEW s, NEW t, Ordered(s), Ordered(t), Once(s), Once(t),
         Never(s, "wrangler") \/ Never(t, "wrangler")
  PROVE  Once(s \o t)
<1> DEFINE u == s \o t
<1>1. /\ \A i \in DOMAIN u : \/ i \in DOMAIN s /\ u[i] = s[i]
                             \/ i > Len(s) /\ i - Len(s) \in DOMAIN t /\ u[i] = t[i - Len(s)]
      /\ DOMAIN u = 1 .. Len(s) + Len(t)
  BY ConcatIs
<1>2. Len(s) \in Nat /\ Len(t) \in Nat /\ DOMAIN s = 1 .. Len(s) /\ DOMAIN t = 1 .. Len(t)
  BY OrderedIs
<1>3. (\A i \in DOMAIN s : s[i].do # "wrangler") \/ (\A i \in DOMAIN t : t[i].do # "wrangler")
  BY DEF Never, Range
<1> HIDE DEF u
<1>4. SUFFICES ASSUME NEW i \in DOMAIN u, NEW j \in DOMAIN u, u[i].do = "wrangler", u[j].do = "wrangler"
               PROVE  i = j
  BY DEF Once, u
<1>5. CASE \A k \in DOMAIN t : t[k].do # "wrangler"
  BY <1>1, <1>4, <1>5 DEF Once
<1>6. CASE \A k \in DOMAIN s : s[k].do # "wrangler"
  <2>1. /\ i - Len(s) \in DOMAIN t /\ t[i - Len(s)].do = "wrangler"
        /\ j - Len(s) \in DOMAIN t /\ t[j - Len(s)].do = "wrangler"
    BY <1>1, <1>4, <1>6
  <2>2. i - Len(s) = j - Len(s)
    BY <2>1 DEF Once
  <2> QED BY <1>1, <1>2, <2>2
<1> QED BY <1>3, <1>5, <1>6

LEMMA FilesFirstConcat ==
  ASSUME NEW s, NEW t, NEW F, Ordered(s), Ordered(t), FilesFirst(s, F), Never(t, "file")
  PROVE  FilesFirst(s \o t, F)
<1> DEFINE u == s \o t
<1>1. /\ \A i \in DOMAIN u : \/ i \in DOMAIN s /\ u[i] = s[i]
                             \/ i > Len(s) /\ i - Len(s) \in DOMAIN t /\ u[i] = t[i - Len(s)]
      /\ \A i \in DOMAIN s : i \in DOMAIN u /\ u[i] = s[i]
  BY ConcatIs
<1>2. \A i \in DOMAIN t : t[i].do # "file"
  BY DEF Never, Range
<1> HIDE DEF u
<1> QED BY <1>1, <1>2 DEF FilesFirst, u

\* There is one step for each file.
LEMMA FileStepsAre ==
  ASSUME NEW n, NEW c, NEW o
  PROVE  LET F == FileSteps(n, c, o)
             files == GenerateFiles(n, c, o) IN
         /\ Ordered(F) /\ FilesFirst(F, F) /\ Once(F) /\ Never(F, "complete") /\ Never(F, "wrangler")
         /\ DOMAIN F = DOMAIN files
         /\ \A i \in DOMAIN F : F[i] = [do |-> "file", file |-> files[i]]
<1> DEFINE F == FileSteps(n, c, o)
           files == GenerateFiles(n, c, o)
<1>1. Ordered(files)
  BY FilesAre
<1>2. Len(files) \in Nat /\ DOMAIN files = 1 .. Len(files)
  BY <1>1, OrderedIs
<1>3. F = [i \in DOMAIN files |-> [do |-> "file", file |-> files[i]]]
  BY DEF FileSteps
<1> HIDE DEF F, files
<1>4. \A i \in DOMAIN F : F[i] = [do |-> "file", file |-> files[i]] /\ F[i].do = "file"
  BY <1>3
<1>5. F = [i \in 1 .. Len(files) |-> F[i]] /\ \A i \in 1 .. Len(files) : F[i] \in Range(F)
  BY <1>2, <1>3 DEF Range
<1>6. [i \in 1 .. Len(files) |-> F[i]] \in Seq(Range(F))
  BY <1>2, <1>5
<1>7. Ordered(F)
  BY <1>5, <1>6 DEF Ordered
<1>8. \A x \in Range(F) : x.do = "file"
  BY <1>4 DEF Range
<1>9. FilesFirst(F, F) /\ Once(F) /\ Never(F, "complete") /\ Never(F, "wrangler")
  BY <1>4, <1>8 DEF FilesFirst, Once, Never
<1> QED BY <1>3, <1>4, <1>7, <1>9 DEF F, files

\* A step without a file.
Bare(kind) == [do |-> kind]

\* The kinds of steps that edit the files which register a feature.
Edits == {"index", "wrangler", "package", "resolvers", "route"}

\* The edits a run makes are those that its options ask for.
LEMMA IntegrationStepsAre ==
  ASSUME NEW o
  PROVE  LET I == IntegrationSteps(o) IN
         /\ Ordered(I) /\ Once(I) /\ Never(I, "file") /\ Never(I, "complete")
         /\ ~ o.skipIndex \/ ~ o.skipWrangler =>
              \A kind \in {"index", "wrangler", "package"} : Bare(kind) \in Range(I)
         /\ o.withGraphql \/ o.withAll => Bare("resolvers") \in Range(I)
         /\ o.withRoute \/ o.withAll => Bare("route") \in Range(I)
<1> DEFINE a == IF ~o.skipIndex \/ ~o.skipWrangler
                  THEN << [do |-> "index"], [do |-> "wrangler"], [do |-> "package"] >> ELSE <<>>
           b == IF o.withGraphql \/ o.withAll THEN << [do |-> "resolvers"] >> ELSE <<>>
           c == IF o.withRoute \/ o.withAll THEN << [do |-> "route"] >> ELSE <<>>
<1>0. Ordered(<<>>) /\ Range(<<>>) = {} /\ Len(<<>>) = 0
  BY EmptyIs
<1>1. IntegrationSteps(o) = (a \o b) \o c
  BY DEF IntegrationSteps
<1>2. /\ Ordered(a) /\ Once(a) /\ Never(a, "file") /\ Never(a, "complete")
      /\ ~ o.skipIndex \/ ~ o.skipWrangler =>
              \A kind \in {"index", "wrangler", "package"} : Bare(kind) \in Range(a)
  <2> DEFINE x == [do |-> "index"]
             y == [do |-> "wrangler"]
             z == [do |-> "package"]
  <2>1. x.do = "index" /\ y.do = "wrangler" /\ z.do = "package"
    OBVIOUS
  <2>2. CASE ~ (~ o.skipIndex \/ ~ o.skipWrangler)
    BY <1>0, <2>2 DEF Once, Never, Ordered, Range
  <2>3. CASE ~ o.skipIndex \/ ~ o.skipWrangler
    <3>1. a = <<x, y, z>>
      BY <2>3
    <3> HIDE DEF a
    <3>2. x = Bare("index") /\ y = Bare("wrangler") /\ z = Bare("package")
      BY DEF Bare
    <3> HIDE DEF x, y, z
    <3>3. /\ Ordered(a) /\ Range(a) = {x, y, z}
          /\ DOMAIN a = {1, 2, 3} /\ a[1] = x /\ a[2] = y /\ a[3] = z
      BY <3>1, ThreeIs
    <3>4. Once(a)
      BY <2>1, <3>3 DEF Once
    <3> QED BY <2>1, <3>2, <3>3, <3>4 DEF Never
  <2> QED BY <2>2, <2>3
<1>3. /\ Ordered(b) /\ Never(b, "file") /\ Never(b, "complete") /\ Never(b, "wrangler") /\ Once(b)
      /\ o.withGraphql \/ o.withAll => Bare("resolvers") \in Range(b)
  <2>1. CASE ~ (o.withGraphql \/ o.withAll)
    BY <1>0, <2>1 DEF Never, Once
  <2>2. CASE o.withGraphql \/ o.withAll
    <3> DEFINE x == [do |-> "resolvers"]
    <3>1. b = <<x>> /\ x.do = "resolvers" /\ x = Bare("resolvers")
      BY <2>2 DEF Bare
    <3> HIDE DEF b, x
    <3>2. Ordered(b) /\ Range(b) = {x} /\ \A i \in DOMAIN b : b[i] \in Range(b)
      BY <3>1, OneIs, OrderedIs
    <3> QED BY <3>1, <3>2 DEF Never, Once
  <2> QED BY <2>1, <2>2
<1>4. /\ Ordered(c) /\ Never(c, "file") /\ Never(c, "complete") /\ Never(c, "wrangler") /\ Once(c)
      /\ o.withRoute \/ o.withAll => Bare("route") \in Range(c)
  <2>1. CASE ~ (o.withRoute \/ o.withAll)
    BY <1>0, <2>1 DEF Never, Once
  <2>2. CASE o.withRoute \/ o.withAll
    <3> DEFINE x == [do |-> "route"]
    <3>1. c = <<x>> /\ x.do = "route" /\ x = Bare("route")
      BY <2>2 DEF Bare
    <3> HIDE DEF c, x
    <3>2. Ordered(c) /\ Range(c) = {x} /\ \A i \in DOMAIN c : c[i] \in Range(c)
      BY <3>1, OneIs, OrderedIs
    <3> QED BY <3>1, <3>2 DEF Never, Once
  <2> QED BY <2>1, <2>2
<1> HIDE DEF a, b, c
<1>5. Ordered(a \o b) /\ Range(a \o b) = Range(a) \cup Range(b) /\ Once(a \o b)
  BY <1>2, <1>3, ConcatIs, OnceConcat
<1>6. Ordered((a \o b) \o c) /\ Range((a \o b) \o c) = Range(a \o b) \cup Range(c) /\ Once((a \o b) \o c)
  <2> DEFINE q == a \o b
  <2> HIDE DEF q
  <2>1. Ordered(q) /\ Once(q)
    BY <1>5 DEF q
  <2>2. Ordered(q \o c) /\ Range(q \o c) = Range(q) \cup Range(c) /\ Once(q \o c)
    BY <1>4, <2>1, ConcatIs, OnceConcat
  <2> QED BY <2>2 DEF q
<1> QED BY <1>1, <1>2, <1>3, <1>4, <1>5, <1>6 DEF Never

\* The steps around drizzle-kit neither write nor edit.
LEMMA DrizzleStepsAre ==
  ASSUME NEW o
  PROVE  LET D == DrizzleSteps(o) IN
         /\ Ordered(D) /\ Once(D) /\ Never(D, "file") /\ Never(D, "complete") /\ Never(D, "wrangler")
<1> DEFINE x == [do |-> "drizzle_start"]
           y == [do |-> "drizzle"]
           D == DrizzleSteps(o)
<1>1. x.do = "drizzle_start" /\ y.do = "drizzle"
  OBVIOUS
<1>2. D = <<>> \/ D = <<x, y>>
  BY DEF DrizzleSteps
<1> HIDE DEF x, y, D
<1>3. Ordered(D) /\ Range(D) \subseteq {x, y} /\ \A i \in DOMAIN D : D[i] \in Range(D)
  BY <1>2, EmptyIs, TwoIs, OrderedIs
<1> QED BY <1>1, <1>3 DEF D, Never, Once

\* The last step of a run completes it; it has at most one step for the file
\* wrangler.jsonc, and the steps that its options ask for.
LEMMA StepsAre ==
  ASSUME NEW n, NEW c, NEW o
  PROVE  LET s == Steps(n, c, o) IN
         /\ Ordered(s) /\ Once(s) /\ Len(s) \in Nat \ {0}
         /\ \A i \in DOMAIN s : s[i].do = "complete" <=> i = Len(s)
         /\ o.dryRun => \A i \in DOMAIN s : s[i].do = "complete"
         /\ ~ o.dryRun =>
              /\ FilesFirst(s, FileSteps(n, c, o))
              /\ ~ o.skipIndex \/ ~ o.skipWrangler =>
                   \A kind \in {"index", "wrangler", "package"} : Bare(kind) \in Range(s)
              /\ o.withGraphql \/ o.withAll => Bare("resolvers") \in Range(s)
              /\ o.withRoute \/ o.withAll => Bare("route") \in Range(s)
<1> DEFINE s == Steps(n, c, o)
           F == FileSteps(n, c, o)
           I == IntegrationSteps(o)
           D == DrizzleSteps(o)
           x == [do |-> "complete"]
           p == (F \o I) \o D
<1>1. x.do = "complete"
  OBVIOUS
<1> HIDE DEF x
<1>2. Ordered(<<x>>) /\ Range(<<x>>) = {x} /\ Len(<<x>>) = 1 /\ <<x>>[1] = x /\ DOMAIN <<x>> = 1 .. 1
  BY OneIs, OrderedIs
<1>3. Once(<<x>>) /\ Never(<<x>>, "file") /\ Never(<<x>>, "wrangler")
  BY <1>1, <1>2 DEF Once, Never
<1>4. CASE o.dryRun
  <2>1. s = <<x>>
    BY <1>4 DEF Steps, x
  <2> HIDE DEF s
  <2>2. \A i \in DOMAIN s : i = 1 /\ s[i] = x
    BY <1>2, <2>1
  <2> QED BY <1>1, <1>2, <1>3, <1>4, <2>1, <2>2 DEF s
<1>5. CASE ~ o.dryRun
  <2>1. s = p \o <<x>>
    BY <1>5 DEF Steps, x
  <2>2. Ordered(F) /\ FilesFirst(F, F) /\ Once(F) /\ Never(F, "complete") /\ Never(F, "wrangler")
    BY FileStepsAre
  <2>3. /\ Ordered(I) /\ Once(I) /\ Never(I, "file") /\ Never(I, "complete")
        /\ ~ o.skipIndex \/ ~ o.skipWrangler =>
              \A kind \in {"index", "wrangler", "package"} : Bare(kind) \in Range(I)
        /\ o.withGraphql \/ o.withAll => Bare("resolvers") \in Range(I)
        /\ o.withRoute \/ o.withAll => Bare("route") \in Range(I)
    BY IntegrationStepsAre
  <2>4. Ordered(D) /\ Once(D) /\ Never(D, "file") /\ Never(D, "complete") /\ Never(D, "wrangler")
    BY DrizzleStepsAre
  <2> HIDE DEF s, F, I, D, p
  <2>5. LET q == F \o I IN
        /\ Ordered(q) /\ Once(q) /\ FilesFirst(q, F) /\ Never(q, "complete") /\ Range(I) \subseteq Range(q)
    <3> DEFINE q == F \o I
    <3>1. Ordered(q) /\ Range(q) = Range(F) \cup Range(I)
      BY <2>2, <2>3, ConcatIs
    <3>2. Once(q) /\ FilesFirst(q, F)
      BY <2>2, <2>3, OnceConcat, FilesFirstConcat
    <3> HIDE DEF q
    <3>3. Never(q, "complete")
      BY <2>2, <2>3, <3>1 DEF Never
    <3> QED BY <3>1, <3>2, <3>3 DEF q
  <2>6. /\ Ordered(p) /\ Once(p) /\ FilesFirst(p, F) /\ Never(p, "complete") /\ Range(I) \subseteq Range(p)
    <3> DEFINE q == F \o I
    <3>1. /\ Ordered(q) /\ Once(q) /\ FilesFirst(q, F) /\ Never(q, "complete") /\ Range(I) \subseteq Range(q)
      BY <2>5
    <3>2. p = q \o D
      BY DEF p
    <3> HIDE DEF q
    <3>3. Ordered(q \o D) /\ Range(q \o D) = Range(q) \cup Range(D)
      BY <2>4, <3>1, ConcatIs
    <3>4. Once(q \o D) /\ FilesFirst(q \o D, F)
      BY <2>4, <3>1, OnceConcat, FilesFirstConcat
    <3>5. Never(p, "complete")
      BY <2>4, <3>1, <3>2, <3>3 DEF Never
    <3> QED BY <3>1, <3>2, <3>3, <3>4, <3>5
  <2>7. Ordered(s) /\ Range(s) = Range(p) \cup {x} /\ Once(s) /\ FilesFirst(s, F)
    BY <1>2, <1>3, <2>1, <2>6, ConcatIs, OnceConcat, FilesFirstConcat
  <2>8. Len(p) \in Nat /\ \A i \in DOMAIN p : i \in 1 .. Len(p) /\ p[i].do # "complete"
    BY <2>6, OrderedIs DEF Never
  <2>9. /\ Len(s) = Len(p) + 1 /\ DOMAIN s = 1 .. Len(p) + 1
        /\ \A i \in DOMAIN s : \/ i \in DOMAIN p /\ s[i] = p[i]
                               \/ i > Len(p) /\ s[i] = <<x>>[i - Len(p)] /\ i - Len(p) \in DOMAIN <<x>>
    BY <1>2, <2>1, <2>6, ConcatIs
  <2>10. ASSUME NEW i \in DOMAIN s  PROVE s[i].do = "complete" <=> i = Len(s)
    <3>1. CASE i \in DOMAIN p /\ s[i] = p[i]
      BY <2>8, <2>9, <3>1
    <3>2. CASE i > Len(p) /\ s[i] = <<x>>[i - Len(p)] /\ i - Len(p) \in DOMAIN <<x>>
      <4>1. i - Len(p) = 1
        BY <1>2, <3>2
      <4>2. s[i] = x
        BY <1>2, <3>2, <4>1
      <4>3. i = Len(p) + 1
        BY <2>8, <2>9, <4>1
      <4> QED BY <1>1, <2>9, <4>2, <4>3
    <3> QED BY <2>9, <3>1, <3>2
  <2> QED BY <1>5, <2>3, <2>6, <2>7, <2>8, <2>9, <2>10 DEF s, F, I
<1> QED BY <1>4, <1>5

-----------------------------------------------------------------------------
\* What the steps do to a workspace.

\* What a step of a run has done, until the run ends.
Did(w, n, step) ==
  CASE step.do = "file"      -> /\ step.file.path \in DOMAIN w.files
                                /\ w.files[step.file.path] = step.file.content
    [] step.do = "index"     -> ExportOf(n) \in Range(w.exports)
    [] step.do = "wrangler"  -> /\ [name |-> n.binding, class |-> n.class] \in Range(w.bindings)
                                /\ \E m \in Range(w.migrations) : m.class = n.class
    [] step.do = "package"   -> n.feature \in w.dependencies
    [] step.do = "resolvers" -> n.class \in Range(w.resolvers)
    [] step.do = "route"     -> n.feature \in Range(w.routes)
    [] OTHER                 -> TRUE

\* Nothing of w is missing in v.
Grows(w, v) ==
  /\ w.dirs \subseteq v.dirs /\ w.dependencies \subseteq v.dependencies
  /\ DOMAIN w.files \subseteq DOMAIN v.files
  /\ \A r \in Registers : Range(w[r]) \subseteq Range(v[r])

\* The parts of a workspace.
Parts == {"dirs", "files", "dependencies"} \union Registers

\* A workspace that does not change grows, and what a step has done stays done.
LEMMA GrowsItself == ASSUME NEW w  PROVE Grows(w, w)
  BY DEF Grows

LEMMA DidStays ==
  ASSUME NEW w, NEW v, NEW n, NEW step, Grows(w, v), Did(w, n, step),
         step.do = "file" => v.files[step.file.path] = w.files[step.file.path]
  PROVE  Did(v, n, step)
  BY DEF Did, Grows, Registers

\* A register that gains an entry.
LEMMA RegisterIs ==
  ASSUME NEW w, WorkspaceOK(w), NEW r \in Registers, NEW s, NEW x,
         Ordered(s), Range(s) = Range(w[r]) \cup {x}, r # "migrations"
  PROVE  LET v == [w EXCEPT ![r] = s] IN
         /\ WorkspaceOK(v) /\ Grows(w, v) /\ v[r] = s /\ x \in Range(v[r])
         /\ \A f \in Parts \ {r} : v[f] = w[f]
<1> DEFINE v == [w EXCEPT ![r] = s]
<1>1. DOMAIN v = Parts /\ DOMAIN w = Parts /\ v[r] = s /\ \A f \in Parts \ {r} : v[f] = w[f]
  BY DEF WorkspaceOK, Parts
<1> HIDE DEF v
<1>2. /\ v.dirs = w.dirs /\ v.files = w.files /\ v.dependencies = w.dependencies
      /\ v.migrations = w.migrations
  BY <1>1 DEF Parts, Registers
<1>3. \A q \in Registers : v[q] \in Seq(Range(v[q]))
  BY <1>1 DEF WorkspaceOK, Ordered, Parts
<1>4. WorkspaceOK(v)
  BY <1>1, <1>2, <1>3 DEF WorkspaceOK, Parts
<1>5. Grows(w, v)
  BY <1>1, <1>2 DEF Grows, Parts
<1> QED BY <1>1, <1>4, <1>5 DEF v

\* The edits add one entry to their register, and leave everything else alone.
LEMMA UpdateWorkerIndexIs ==
  ASSUME NEW w, NEW n, WorkspaceOK(w)
  PROVE  LET v == UpdateWorkerIndex(w, n) IN
         /\ WorkspaceOK(v) /\ Grows(w, v)
         /\ Range(v.exports) = Range(w.exports) \cup {ExportOf(n)}
         /\ \A f \in Parts \ {"exports"} : v[f] = w[f]
<1> DEFINE s == AppendNew(w.exports, ExportOf(n))
<1>1. "exports" \in Registers /\ "exports" # "migrations" /\ Ordered(w["exports"])
  BY DEF Registers, WorkspaceOK, Ordered
<1>2. Ordered(s) /\ Range(s) = Range(w["exports"]) \cup {ExportOf(n)}
  BY <1>1, AppendNewIs
<1> HIDE DEF s
<1>3. UpdateWorkerIndex(w, n) = [w EXCEPT !["exports"] = s]
  BY DEF UpdateWorkerIndex, s
<1> DEFINE r == "exports"
           x == ExportOf(n)
<1>4. r \in Registers /\ r # "migrations" /\ Ordered(s) /\ Range(s) = Range(w[r]) \cup {x}
  BY <1>1, <1>2
<1> HIDE DEF r, x
<1>5. LET v == [w EXCEPT ![r] = s] IN
      /\ WorkspaceOK(v) /\ Grows(w, v) /\ v[r] = s /\ x \in Range(v[r])
      /\ \A f \in Parts \ {r} : v[f] = w[f]
  BY <1>4, RegisterIs
<1> QED BY <1>2, <1>3, <1>5 DEF r

LEMMA UpdateGraphqlResolversIndexIs ==
  ASSUME NEW w, NEW n, WorkspaceOK(w)
  PROVE  LET v == UpdateGraphqlResolversIndex(w, n) IN
         /\ WorkspaceOK(v) /\ Grows(w, v)
         /\ Range(v.resolvers) = Range(w.resolvers) \cup {n.class}
         /\ \A f \in Parts \ {"resolvers"} : v[f] = w[f]
<1> DEFINE s == AppendNew(w.resolvers, n.class)
<1>1. "resolvers" \in Registers /\ "resolvers" # "migrations" /\ Ordered(w["resolvers"])
  BY DEF Registers, WorkspaceOK, Ordered
<1>2. Ordered(s) /\ Range(s) = Range(w["resolvers"]) \cup {n.class}
  BY <1>1, AppendNewIs
<1> HIDE DEF s
<1>3. UpdateGraphqlResolversIndex(w, n) = [w EXCEPT !["resolvers"] = s]
  BY DEF UpdateGraphqlResolversIndex, s
<1> DEFINE r == "resolvers"
           x == n.class
<1>4. r \in Registers /\ r # "migrations" /\ Ordered(s) /\ Range(s) = Range(w[r]) \cup {x}
  BY <1>1, <1>2
<1> HIDE DEF r, x
<1>5. LET v == [w EXCEPT ![r] = s] IN
      /\ WorkspaceOK(v) /\ Grows(w, v) /\ v[r] = s /\ x \in Range(v[r])
      /\ \A f \in Parts \ {r} : v[f] = w[f]
  BY <1>4, RegisterIs
<1> QED BY <1>2, <1>3, <1>5 DEF r

LEMMA UpdateWorkerIndexWithRouteIs ==
  ASSUME NEW w, NEW n, WorkspaceOK(w)
  PROVE  LET v == UpdateWorkerIndexWithRoute(w, n) IN
         /\ WorkspaceOK(v) /\ Grows(w, v)
         /\ Range(v.routes) = Range(w.routes) \cup {n.feature}
         /\ \A f \in Parts \ {"routes"} : v[f] = w[f]
<1> DEFINE s == AppendNew(w.routes, n.feature)
<1>1. "routes" \in Registers /\ "routes" # "migrations" /\ Ordered(w["routes"])
  BY DEF Registers, WorkspaceOK, Ordered
<1>2. Ordered(s) /\ Range(s) = Range(w["routes"]) \cup {n.feature}
  BY <1>1, AppendNewIs
<1> HIDE DEF s
<1>3. UpdateWorkerIndexWithRoute(w, n) = [w EXCEPT !["routes"] = s]
  BY DEF UpdateWorkerIndexWithRoute, s
<1> DEFINE r == "routes"
           x == n.feature
<1>4. r \in Registers /\ r # "migrations" /\ Ordered(s) /\ Range(s) = Range(w[r]) \cup {x}
  BY <1>1, <1>2
<1> HIDE DEF r, x
<1>5. LET v == [w EXCEPT ![r] = s] IN
      /\ WorkspaceOK(v) /\ Grows(w, v) /\ v[r] = s /\ x \in Range(v[r])
      /\ \A f \in Parts \ {r} : v[f] = w[f]
  BY <1>4, RegisterIs
<1> QED BY <1>2, <1>3, <1>5 DEF r

\* updateWorkerPackageJson adds a dependency.
LEMMA UpdateWorkerPackageJsonIs ==
  ASSUME NEW w, NEW n, WorkspaceOK(w)
  PROVE  LET v == UpdateWorkerPackageJson(w, n) IN
         /\ WorkspaceOK(v) /\ Grows(w, v) /\ n.feature \in v.dependencies
         /\ \A f \in Parts \ {"dependencies"} : v[f] = w[f]
<1> DEFINE v == UpdateWorkerPackageJson(w, n)
<1>1. /\ DOMAIN v = Parts /\ v.dependencies = w.dependencies \cup {n.feature}
      /\ \A f \in Parts \ {"dependencies"} : v[f] = w[f]
  BY DEF UpdateWorkerPackageJson, WorkspaceOK, Parts
<1> HIDE DEF v
<1>2. v.dirs = w.dirs /\ v.files = w.files /\ v.migrations = w.migrations /\ \A r \in Registers : v[r] = w[r]
  BY <1>1 DEF Parts, Registers
<1>3. WorkspaceOK(v)
  BY <1>1, <1>2 DEF WorkspaceOK, Parts
<1>4. Grows(w, v)
  BY <1>1, <1>2 DEF Grows
<1> QED BY <1>1, <1>3, <1>4 DEF v

\* The tag after the last one is above all, as they ascend.
LEMMA MaxTagIs ==
  ASSUME NEW w, WorkspaceOK(w)
  PROVE  /\ MaxTag(w.migrations) \in Nat
         /\ \A i \in DOMAIN w.migrations : w.migrations[i].tag <= MaxTag(w.migrations)
<1> DEFINE s == w.migrations
           k == Len(s)
<1>1. /\ Ordered(s) /\ \A i \in DOMAIN s : s[i].tag \in Nat
      /\ \A i, j \in DOMAIN s : i < j => s[i].tag < s[j].tag
  BY DEF WorkspaceOK, Ascending, Ordered, Registers
<1>2. k \in Nat /\ DOMAIN s = 1 .. k
  BY <1>1, OrderedIs
<1> HIDE DEF s
<1>3. CASE s = <<>>
  BY <1>3 DEF MaxTag, s
<1>4. CASE s # <<>>
  <2>1. k # 0
    BY <1>1, <1>4 DEF Ordered
  <2>2. k \in DOMAIN s
    BY <1>2, <2>1
  <2>3. \A i \in DOMAIN s : s[i].tag <= s[k].tag
    BY <1>1, <1>2, <2>2
  <2>4. s[k].tag \in {m.tag : m \in Range(s)} /\ \A m \in Range(s) : m.tag <= s[k].tag
    BY <2>2, <2>3 DEF Range
  <2>5. MaxTag(s) \in {m.tag : m \in Range(s)} /\ \A m \in Range(s) : m.tag <= MaxTag(s)
    BY <1>4, <2>4 DEF MaxTag
  <2>6. \A m \in Range(s) : m.tag \in Nat
    BY <1>1 DEF Range
  <2>7. \A i \in DOMAIN s : s[i] \in Range(s)
    BY DEF Range
  <2> QED BY <2>5, <2>6, <2>7 DEF s
<1> QED BY <1>3, <1>4

\* updateWranglerJsonc adds one binding and one migration, above all others.
LEMMA UpdateWranglerJsoncIs ==
  ASSUME NEW w, NEW n, WorkspaceOK(w)
  PROVE  LET v == UpdateWranglerJsonc(w, n) IN
         /\ WorkspaceOK(v) /\ Grows(w, v) /\ Did(v, n, [do |-> "wrangler"])
         /\ Len(v.bindings) = Len(w.bindings) + 1
         /\ \A f \in Parts \ {"bindings", "migrations"} : v[f] = w[f]
<1> DEFINE v == UpdateWranglerJsonc(w, n)
           b == [name |-> n.binding, class |-> n.class]
           m == [tag |-> MaxTag(w.migrations) + 1, class |-> n.class]
<1>1. /\ DOMAIN v = Parts /\ DOMAIN w = Parts
      /\ v.bindings = Append(w.bindings, b) /\ v.migrations = Append(w.migrations, m)
      /\ \A f \in Parts \ {"bindings", "migrations"} : v[f] = w[f]
  BY DEF UpdateWranglerJsonc, WorkspaceOK, Parts, Registers
<1>2. m.tag = MaxTag(w.migrations) + 1 /\ m.class = n.class
  OBVIOUS
<1> HIDE DEF v, b, m
<1>3. /\ v.dirs = w.dirs /\ v.files = w.files /\ v.dependencies = w.dependencies
      /\ \A r \in Registers \ {"bindings", "migrations"} : v[r] = w[r]
  BY <1>1 DEF Parts, Registers
<1>4. Ordered(w.bindings) /\ Ordered(w.migrations)
  BY DEF WorkspaceOK, Ordered, Registers
<1>5. /\ Ordered(v.bindings) /\ Range(v.bindings) = Range(w.bindings) \cup {b}
      /\ Len(v.bindings) = Len(w.bindings) + 1
  BY <1>1, <1>4, AppendIs
<1>6. /\ Ordered(v.migrations) /\ Range(v.migrations) = Range(w.migrations) \cup {m}
      /\ Len(w.migrations) \in Nat /\ DOMAIN w.migrations = 1 .. Len(w.migrations)
      /\ DOMAIN v.migrations = 1 .. Len(w.migrations) + 1
      /\ \A i \in DOMAIN w.migrations : v.migrations[i] = w.migrations[i]
      /\ v.migrations[Len(w.migrations) + 1] = m
  BY <1>1, <1>4, AppendIs, OrderedIs
<1>7. /\ MaxTag(w.migrations) \in Nat
      /\ \A i \in DOMAIN w.migrations : /\ w.migrations[i].tag <= MaxTag(w.migrations)
                                        /\ w.migrations[i].tag \in Nat
      /\ \A i, j \in DOMAIN w.migrations : i < j => w.migrations[i].tag < w.migrations[j].tag
  BY MaxTagIs DEF WorkspaceOK, Ascending
<1>8. \A i \in DOMAIN v.migrations : i \in DOMAIN w.migrations \/ i = Len(w.migrations) + 1
  BY <1>6
<1>9. \A i \in DOMAIN v.migrations : v.migrations[i].tag \in Nat
  BY <1>2, <1>6, <1>7, <1>8
<1>10. \A i, j \in DOMAIN v.migrations : i < j => v.migrations[i].tag < v.migrations[j].tag
  <2> SUFFICES ASSUME NEW i \in DOMAIN v.migrations, NEW j \in DOMAIN v.migrations, i < j
               PROVE  v.migrations[i].tag < v.migrations[j].tag
    OBVIOUS
  <2>1. i \in DOMAIN w.migrations
    BY <1>6
  <2>2. CASE j \in DOMAIN w.migrations
    BY <1>6, <1>7, <2>1, <2>2
  <2>3. CASE j = Len(w.migrations) + 1
    BY <1>2, <1>6, <1>7, <2>1, <2>3
  <2> QED BY <1>8, <2>2, <2>3
<1>11. \A r \in Registers : v[r] \in Seq(Range(v[r])) /\ Range(w[r]) \subseteq Range(v[r])
  BY <1>3, <1>5, <1>6 DEF Ordered, WorkspaceOK, Registers
<1>12. WorkspaceOK(v)
  BY <1>1, <1>3, <1>9, <1>10, <1>11 DEF WorkspaceOK, Ascending, Parts
<1>13. Grows(w, v)
  BY <1>3, <1>11 DEF Grows
<1>14. Did(v, n, [do |-> "wrangler"])
  BY <1>2, <1>5, <1>6 DEF Did, b
<1> QED BY <1>1, <1>5, <1>12, <1>13, <1>14 DEF v

\* Making a directory adds it.
LEMMA MakeDirectoryIs ==
  ASSUME NEW w, NEW f, WorkspaceOK(w)
  PROVE  LET v == MakeDirectory(w, f) IN
         /\ WorkspaceOK(v) /\ Grows(w, v) /\ v.dirs = w.dirs \cup {f.path[1]}
         /\ \A g \in Parts \ {"dirs"} : v[g] = w[g]
<1> DEFINE v == MakeDirectory(w, f)
<1>1. /\ DOMAIN v = Parts /\ v.dirs = w.dirs \cup {f.path[1]}
      /\ \A g \in Parts \ {"dirs"} : v[g] = w[g]
  BY DEF MakeDirectory, WorkspaceOK, Parts
<1> HIDE DEF v
<1>2. v.files = w.files /\ v.migrations = w.migrations /\ v.dependencies = w.dependencies
      /\ \A r \in Registers : v[r] = w[r]
  BY <1>1 DEF Parts, Registers
<1>3. WorkspaceOK(v)
  BY <1>1, <1>2 DEF WorkspaceOK, Parts
<1>4. Grows(w, v)
  BY <1>1, <1>2 DEF Grows
<1> QED BY <1>1, <1>3, <1>4 DEF v

\* Writing a file makes its directory, and changes no other file.
LEMMA WriteFileIs ==
  ASSUME NEW w, NEW f, WorkspaceOK(w)
  PROVE  LET v == WriteFile(w, f) IN
         /\ WorkspaceOK(v) /\ Grows(w, v) /\ v.dirs = w.dirs \cup {f.path[1]}
         /\ DOMAIN v.files = DOMAIN w.files \cup {f.path} /\ v.files[f.path] = f.content
         /\ \A p \in DOMAIN w.files \ {f.path} : v.files[p] = w.files[p]
         /\ \A g \in Parts \ {"dirs", "files"} : v[g] = w[g]
<1> DEFINE u == MakeDirectory(w, f)
           v == WriteFile(w, f)
           new == [p \in DOMAIN u.files \union {f.path} |-> IF p = f.path THEN f.content ELSE u.files[p]]
<1>1. /\ WorkspaceOK(u) /\ Grows(w, u) /\ u.dirs = w.dirs \cup {f.path[1]}
      /\ \A g \in Parts \ {"dirs"} : u[g] = w[g]
  BY MakeDirectoryIs
<1>2. u.files = w.files
  BY <1>1 DEF Parts
<1>3. v = [u EXCEPT !.files = new]
  BY DEF WriteFile
<1>4. /\ DOMAIN new = DOMAIN w.files \cup {f.path} /\ new[f.path] = f.content
      /\ \A p \in DOMAIN w.files \ {f.path} : new[p] = w.files[p]
  BY <1>2
<1> HIDE DEF u, v, new
<1>5. /\ DOMAIN v = Parts /\ v.files = new /\ \A g \in Parts \ {"files"} : v[g] = u[g]
  BY <1>1, <1>3 DEF WorkspaceOK, Parts
<1>6. v.dirs = u.dirs /\ v.migrations = u.migrations /\ v.dependencies = u.dependencies
      /\ \A r \in Registers : v[r] = u[r] /\ u[r] = w[r]
  BY <1>1, <1>5 DEF Parts, Registers
<1>7. \A p \in DOMAIN v.files : p[1] \in v.dirs
  BY <1>1, <1>2, <1>4, <1>5, <1>6 DEF WorkspaceOK
<1>8. WorkspaceOK(v)
  BY <1>1, <1>5, <1>6, <1>7 DEF WorkspaceOK, Parts
<1>9. Grows(w, v)
  BY <1>1, <1>4, <1>5, <1>6 DEF Grows, Parts
<1>10. \A g \in Parts \ {"dirs", "files"} : v[g] = w[g]
  BY <1>1, <1>5
<1> QED BY <1>1, <1>4, <1>5, <1>6, <1>8, <1>9, <1>10 DEF v

\* The kinds of steps.
Kinds == {"file", "complete", "drizzle_start", "drizzle"} \union Edits

\* Every step of a run has one of these kinds.
LEMMA KindsAre ==
  ASSUME NEW n, NEW c, NEW o
  PROVE  \A x \in Range(Steps(n, c, o)) : x.do \in Kinds
<1> DEFINE F == FileSteps(n, c, o)
           I == IntegrationSteps(o)
           D == DrizzleSteps(o)
           x == [do |-> "complete"]
           K(s) == \A y \in Range(s) : y.do \in Kinds
           a == IF ~o.skipIndex \/ ~o.skipWrangler
                  THEN << [do |-> "index"], [do |-> "wrangler"], [do |-> "package"] >> ELSE <<>>
           b == IF o.withGraphql \/ o.withAll THEN << [do |-> "resolvers"] >> ELSE <<>>
           d == IF o.withRoute \/ o.withAll THEN << [do |-> "route"] >> ELSE <<>>
<1>0. Ordered(<<>>) /\ Range(<<>>) = {}
  BY EmptyIs
<1>1. ASSUME NEW s, NEW t, Ordered(s), Ordered(t), K(s), K(t)
      PROVE  Ordered(s \o t) /\ K(s \o t)
  BY <1>1, ConcatIs
<1>2. Ordered(F) /\ K(F)
  <2>1. Ordered(F) /\ \A i \in DOMAIN F : F[i].do = "file"
    BY FileStepsAre
  <2> HIDE DEF F
  <2> QED BY <2>1 DEF Range, Kinds
<1>3. Ordered(I) /\ K(I)
  <2>1. I = (a \o b) \o d
    BY DEF IntegrationSteps
  <2>2. Ordered(a) /\ K(a)
    <3> DEFINE y1 == [do |-> "index"]
               y2 == [do |-> "wrangler"]
               y3 == [do |-> "package"]
    <3>1. y1.do \in Kinds /\ y2.do \in Kinds /\ y3.do \in Kinds
      BY DEF Kinds, Edits
    <3>2. a = <<>> \/ a = <<y1, y2, y3>>
      OBVIOUS
    <3> HIDE DEF y1, y2, y3, a
    <3> QED BY <1>0, <3>1, <3>2, ThreeIs
  <2>3. Ordered(b) /\ K(b)
    <3> DEFINE y == [do |-> "resolvers"]
    <3>1. y.do \in Kinds
      BY DEF Kinds, Edits
    <3>2. b = <<>> \/ b = <<y>>
      OBVIOUS
    <3> HIDE DEF y, b
    <3> QED BY <1>0, <3>1, <3>2, OneIs
  <2>4. Ordered(d) /\ K(d)
    <3> DEFINE y == [do |-> "route"]
    <3>1. y.do \in Kinds
      BY DEF Kinds, Edits
    <3>2. d = <<>> \/ d = <<y>>
      OBVIOUS
    <3> HIDE DEF y, d
    <3> QED BY <1>0, <3>1, <3>2, OneIs
  <2> HIDE DEF a, b, d, K
  <2>5. Ordered(a \o b) /\ K(a \o b)
    BY <1>1, <2>2, <2>3
  <2> QED BY <1>1, <2>1, <2>4, <2>5
<1>4. Ordered(D) /\ K(D)
  <2> DEFINE y1 == [do |-> "drizzle_start"]
             y2 == [do |-> "drizzle"]
  <2>1. y1.do \in Kinds /\ y2.do \in Kinds
    BY DEF Kinds
  <2>2. D = <<>> \/ D = <<y1, y2>>
    BY DEF DrizzleSteps
  <2> HIDE DEF y1, y2, D
  <2> QED BY <1>0, <2>1, <2>2, TwoIs
<1>5. Ordered(<<x>>) /\ K(<<x>>)
  <2>1. x.do \in Kinds
    BY DEF Kinds
  <2> HIDE DEF x
  <2> QED BY <2>1, OneIs
<1>6. CASE o.dryRun
  <2>1. Steps(n, c, o) = <<x>>
    BY <1>6 DEF Steps
  <2> QED BY <1>5, <2>1
<1>7. CASE ~ o.dryRun
  <2>1. Steps(n, c, o) = ((F \o I) \o D) \o <<x>>
    BY <1>7 DEF Steps
  <2> HIDE DEF F, I, D, x, K
  <2>2. Ordered(F \o I) /\ K(F \o I)
    BY <1>1, <1>2, <1>3
  <2>3. Ordered((F \o I) \o D) /\ K((F \o I) \o D)
    BY <1>1, <1>4, <2>2
  <2>4. K(Steps(n, c, o))
    BY <1>1, <1>5, <2>1, <2>3
  <2> QED BY <2>4 DEF K
<1> QED BY <1>6, <1>7

\* The paths of the files in the directories of the feature.
OwnPaths(n, c) == {f.path : f \in Range(PackageFiles(n, c) \o WorkerFiles(n, c))}

\* The paths of a feature's own files follow from its name.
LEMMA PathsAre ==
  ASSUME NEW n, NEW c, NEW m, NEW d, n.feature = m.feature
  PROVE  OwnPaths(n, c) = OwnPaths(m, d)
<1>1. ASSUME NEW dir, NEW name, NEW x, NEW y, NEW fs, NEW gs
      PROVE  File(dir, name, x, fs).path = File(dir, name, y, gs).path
  BY DEF File
<1>2. {f.path : f \in Range(PackageFiles(n, c))} = {f.path : f \in Range(PackageFiles(m, d))}
  <2> DEFINE dir == PackageDir(n.feature)
             a1 == File(dir, "package.json", n, <<>>)
             a2 == File(dir, "tsconfig.json", n, <<>>)
             a3 == File(dir, "index.ts", n, <<>>)
             a4 == File(dir, "errors.ts", n, <<>>)
             a5 == File(dir, "schema.ts", n, SchemaTs(c))
             a6 == File(dir, "rpc.ts", n, <<>>)
             b1 == File(dir, "package.json", m, <<>>)
             b2 == File(dir, "tsconfig.json", m, <<>>)
             b3 == File(dir, "index.ts", m, <<>>)
             b4 == File(dir, "errors.ts", m, <<>>)
             b5 == File(dir, "schema.ts", m, SchemaTs(d))
             b6 == File(dir, "rpc.ts", m, <<>>)
  <2>1. /\ PackageFiles(n, c) = <<a1, a2, a3, a4, a5, a6>>
        /\ PackageFiles(m, d) = <<b1, b2, b3, b4, b5, b6>>
    BY DEF PackageFiles
  <2>2. a1.path = b1.path /\ a2.path = b2.path /\ a3.path = b3.path /\ a4.path = b4.path
        /\ a5.path = b5.path /\ a6.path = b6.path
    BY <1>1
  <2> HIDE DEF a1, a2, a3, a4, a5, a6, b1, b2, b3, b4, b5, b6
  <2>3. /\ Range(PackageFiles(n, c)) = {a1, a2, a3, a4, a5, a6}
        /\ Range(PackageFiles(m, d)) = {b1, b2, b3, b4, b5, b6}
    BY <2>1, SixIs
  <2> QED BY <2>2, <2>3
<1>3. {f.path : f \in Range(WorkerFiles(n, c))} = {f.path : f \in Range(WorkerFiles(m, d))}
  <2> DEFINE dir == WorkerDir(n.feature)
             a1 == File(dir, "class.ts", n, <<>>)
             a2 == File(dir, "handlers.ts", n, HandlersTs(c))
             a3 == File(dir, "drizzle.config.ts", n, <<>>)
             a4 == File(dir, "drizzle.schema.ts", n, DrizzleSchemaTs(c))
             a5 == File(dir, "migrations.js", n, <<>>)
             a6 == File(dir, "_journal.json", n, <<>>)
             b1 == File(dir, "class.ts", m, <<>>)
             b2 == File(dir, "handlers.ts", m, HandlersTs(d))
             b3 == File(dir, "drizzle.config.ts", m, <<>>)
             b4 == File(dir, "drizzle.schema.ts", m, DrizzleSchemaTs(d))
             b5 == File(dir, "migrations.js", m, <<>>)
             b6 == File(dir, "_journal.json", m, <<>>)
  <2>1. /\ WorkerFiles(n, c) = <<a1, a2, a3, a4, a5, a6>>
        /\ WorkerFiles(m, d) = <<b1, b2, b3, b4, b5, b6>>
    BY DEF WorkerFiles
  <2>2. a1.path = b1.path /\ a2.path = b2.path /\ a3.path = b3.path /\ a4.path = b4.path
        /\ a5.path = b5.path /\ a6.path = b6.path
    BY <1>1
  <2> HIDE DEF a1, a2, a3, a4, a5, a6, b1, b2, b3, b4, b5, b6
  <2>3. /\ Range(WorkerFiles(n, c)) = {a1, a2, a3, a4, a5, a6}
        /\ Range(WorkerFiles(m, d)) = {b1, b2, b3, b4, b5, b6}
    BY <2>1, SixIs
  <2> QED BY <2>2, <2>3
<1>4. /\ Range(PackageFiles(n, c) \o WorkerFiles(n, c)) = Range(PackageFiles(n, c)) \cup Range(WorkerFiles(n, c))
      /\ Range(PackageFiles(m, d) \o WorkerFiles(m, d)) = Range(PackageFiles(m, d)) \cup Range(WorkerFiles(m, d))
  <2>1. Ordered(PackageFiles(n, c)) /\ Ordered(WorkerFiles(n, c))
        /\ Ordered(PackageFiles(m, d)) /\ Ordered(WorkerFiles(m, d))
    BY PackageFilesAre, WorkerFilesAre
  <2> QED BY <2>1, ConcatIs
<1>5. ASSUME NEW S, NEW T  PROVE {f.path : f \in S \cup T} = {f.path : f \in S} \cup {f.path : f \in T}
  OBVIOUS
<1> DEFINE p1 == Range(PackageFiles(n, c))
           w1 == Range(WorkerFiles(n, c))
           p2 == Range(PackageFiles(m, d))
           w2 == Range(WorkerFiles(m, d))
<1>6. {f.path : f \in p1} = {f.path : f \in p2} /\ {f.path : f \in w1} = {f.path : f \in w2}
  BY <1>2, <1>3
<1> HIDE DEF p1, w1, p2, w2
<1>7. {f.path : f \in p1 \cup w1} = {f.path : f \in p2 \cup w2}
  <2>1. {f.path : f \in p1 \cup w1} = {f.path : f \in p1} \cup {f.path : f \in w1}
    BY <1>5
  <2>2. {f.path : f \in p2 \cup w2} = {f.path : f \in p2} \cup {f.path : f \in w2}
    BY <1>5
  <2> QED BY <1>6, <2>1, <2>2
<1>8. {f.path : f \in Range(PackageFiles(n, c) \o WorkerFiles(n, c))} = {f.path : f \in p1 \cup w1}
  BY <1>4 DEF p1, w1
<1>9. {f.path : f \in Range(PackageFiles(m, d) \o WorkerFiles(m, d))} = {f.path : f \in p2 \cup w2}
  BY <1>4 DEF p2, w2
<1> QED BY <1>7, <1>8, <1>9 DEF OwnPaths

\* A column that is entered is the last one.
LEMMA EnteredIs ==
  ASSUME NEW s, Ordered(s), NEW x, NEW k \in Nat, k <= Len(s)
  PROVE  SubSeq(Append(s, x), k + 1, Len(Append(s, x))) = Append(SubSeq(s, k + 1, Len(s)), x)
<1> DEFINE t == Append(s, x)
           l == Len(s)
           u == SubSeq(s, k + 1, l)
           S == Range(s) \cup {x}
<1>1. /\ Len(t) = l + 1 /\ t[l + 1] = x /\ \A i \in 1 .. l : t[i] = s[i]
      /\ l \in Nat /\ Ordered(t)
  BY AppendIs, OrderedIs
<1>2. s \in Seq(S) /\ t \in Seq(S)
  BY <1>1 DEF Ordered
<1> HIDE DEF t
<1>3. u \in Seq(S) /\ Len(u) = l - k /\ \A i \in 1 .. l - k : u[i] = s[k + i]
  BY <1>1, <1>2
<1>4. SubSeq(t, k + 1, l + 1) \in Seq(S) /\ Len(SubSeq(t, k + 1, l + 1)) = l + 1 - k
      /\ \A i \in 1 .. l + 1 - k : SubSeq(t, k + 1, l + 1)[i] = t[k + i]
  BY <1>1, <1>2
<1> HIDE DEF u, l, S
<1>5. Append(u, x) \in Seq(S) /\ Len(Append(u, x)) = l - k + 1 /\ Append(u, x)[l - k + 1] = x
      /\ \A i \in 1 .. l - k : Append(u, x)[i] = u[i]
  <2>1. x \in S
    BY DEF S
  <2> QED BY <1>3, <2>1, AppendProperties
<1>6. \A i \in 1 .. l + 1 - k : SubSeq(t, k + 1, l + 1)[i] = Append(u, x)[i]
  <2> SUFFICES ASSUME NEW i \in 1 .. l + 1 - k  PROVE SubSeq(t, k + 1, l + 1)[i] = Append(u, x)[i]
    OBVIOUS
  <2>1. CASE i = l + 1 - k
    <3>1. k + i = l + 1 /\ l - k + 1 = i
      BY <1>1, <2>1
    <3> QED BY <1>1, <1>4, <1>5, <2>1, <3>1
  <2>2. CASE i # l + 1 - k
    <3>1. i \in 1 .. l - k /\ k + i \in 1 .. l
      BY <1>1, <2>2
    <3> QED BY <1>1, <1>3, <1>4, <1>5, <3>1
  <2> QED BY <2>1, <2>2
<1>7. SubSeq(t, k + 1, l + 1) = Append(u, x)
  <2>1. Len(Append(u, x)) = l + 1 - k
    BY <1>1, <1>5 DEF l
  <2> DEFINE y == SubSeq(t, k + 1, l + 1)
             z == Append(u, x)
  <2>2. y \in Seq(S) /\ z \in Seq(S) /\ Len(y) = Len(z) /\ \A i \in 1 .. Len(y) : y[i] = z[i]
    BY <1>4, <1>5, <1>6, <2>1
  <2> HIDE DEF y, z
  <2>3. y = z
    BY <2>2, SeqEqual
  <2> QED BY <2>3 DEF y, z
<1> QED BY <1>1, <1>7 DEF t, u, l

\* The effect of a step on the workspace.
LEMMA EffectIs ==
  ASSUME NEW step, WorkspaceOK(ws), step.do \in Kinds
  PROVE  LET v == Effect(step)
             n == command.naming
         IN  /\ WorkspaceOK(v) /\ Grows(ws, v) /\ Did(v, n, step)
             /\ step.do # "file" => v.files = ws.files /\ v.dirs = ws.dirs
             /\ step.do = "file" =>
                  /\ DOMAIN v.files = DOMAIN ws.files \cup {step.file.path}
                  /\ \A p \in DOMAIN ws.files \ {step.file.path} : v.files[p] = ws.files[p]
             /\ step.do # "wrangler" => v.bindings = ws.bindings
             /\ step.do = "wrangler" => Len(v.bindings) = Len(ws.bindings) + 1
             /\ step.do # "index" => v.exports = ws.exports
             /\ Range(v.exports) \subseteq Range(ws.exports) \cup {ExportOf(n)}
             /\ step.do # "route" => v.routes = ws.routes
             /\ Range(v.routes) \subseteq Range(ws.routes) \cup {n.feature}
             /\ step.do = "complete" => v = ws
<1> DEFINE v == Effect(step)
           n == command.naming
<1>1. CASE step.do = "file"
  <2>1. v = WriteFile(ws, step.file)
    BY <1>1 DEF Effect
  <2> HIDE DEF v, n
  <2>2. /\ WorkspaceOK(v) /\ Grows(ws, v) /\ v.files[step.file.path] = step.file.content
        /\ DOMAIN v.files = DOMAIN ws.files \cup {step.file.path}
        /\ \A p \in DOMAIN ws.files \ {step.file.path} : v.files[p] = ws.files[p]
        /\ \A g \in Parts \ {"dirs", "files"} : v[g] = ws[g]
    BY <2>1, WriteFileIs
  <2>3. v.bindings = ws.bindings /\ v.exports = ws.exports /\ v.routes = ws.routes
    BY <2>2 DEF Parts, Registers
  <2>4. Did(v, n, step)
    BY <1>1, <2>2 DEF Did
  <2> QED BY <1>1, <2>2, <2>3, <2>4 DEF v, n
<1>2. CASE step.do = "index"
  <2>1. v = UpdateWorkerIndex(ws, n)
    BY <1>2 DEF Effect
  <2> HIDE DEF v, n
  <2>2. /\ WorkspaceOK(v) /\ Grows(ws, v)
        /\ Range(v.exports) = Range(ws.exports) \cup {ExportOf(n)}
        /\ \A f \in Parts \ {"exports"} : v[f] = ws[f]
    BY <2>1, UpdateWorkerIndexIs
  <2>3. v.bindings = ws.bindings /\ v.routes = ws.routes /\ v.files = ws.files /\ v.dirs = ws.dirs
    BY <2>2 DEF Parts, Registers
  <2>4. Did(v, n, step)
    BY <1>2, <2>2 DEF Did
  <2> QED BY <1>2, <2>2, <2>3, <2>4 DEF v, n
<1>3. CASE step.do = "wrangler"
  <2>1. v = UpdateWranglerJsonc(ws, n)
    BY <1>3 DEF Effect
  <2> HIDE DEF v, n
  <2>2. /\ WorkspaceOK(v) /\ Grows(ws, v) /\ Did(v, n, [do |-> "wrangler"])
        /\ Len(v.bindings) = Len(ws.bindings) + 1
        /\ \A f \in Parts \ {"bindings", "migrations"} : v[f] = ws[f]
    BY <2>1, UpdateWranglerJsoncIs
  <2>3. v.exports = ws.exports /\ v.routes = ws.routes /\ v.files = ws.files /\ v.dirs = ws.dirs
    BY <2>2 DEF Parts, Registers
  <2>4. Did(v, n, step)
    BY <1>3, <2>2 DEF Did
  <2> QED BY <1>3, <2>2, <2>3, <2>4 DEF v, n
<1>4. CASE step.do = "package"
  <2>1. v = UpdateWorkerPackageJson(ws, n)
    BY <1>4 DEF Effect
  <2> HIDE DEF v, n
  <2>2. /\ WorkspaceOK(v) /\ Grows(ws, v) /\ n.feature \in v.dependencies
        /\ \A f \in Parts \ {"dependencies"} : v[f] = ws[f]
    BY <2>1, UpdateWorkerPackageJsonIs
  <2>3. v.bindings = ws.bindings /\ v.exports = ws.exports /\ v.routes = ws.routes
        /\ v.files = ws.files /\ v.dirs = ws.dirs
    BY <2>2 DEF Parts, Registers
  <2>4. Did(v, n, step)
    BY <1>4, <2>2 DEF Did
  <2> QED BY <1>4, <2>2, <2>3, <2>4 DEF v, n
<1>5. CASE step.do = "resolvers"
  <2>1. v = UpdateGraphqlResolversIndex(ws, n)
    BY <1>5 DEF Effect
  <2> HIDE DEF v, n
  <2>2. /\ WorkspaceOK(v) /\ Grows(ws, v)
        /\ Range(v.resolvers) = Range(ws.resolvers) \cup {n.class}
        /\ \A f \in Parts \ {"resolvers"} : v[f] = ws[f]
    BY <2>1, UpdateGraphqlResolversIndexIs
  <2>3. v.bindings = ws.bindings /\ v.exports = ws.exports /\ v.routes = ws.routes
        /\ v.files = ws.files /\ v.dirs = ws.dirs
    BY <2>2 DEF Parts, Registers
  <2>4. Did(v, n, step)
    BY <1>5, <2>2 DEF Did
  <2> QED BY <1>5, <2>2, <2>3, <2>4 DEF v, n
<1>6. CASE step.do = "route"
  <2>1. v = UpdateWorkerIndexWithRoute(ws, n)
    BY <1>6 DEF Effect
  <2> HIDE DEF v, n
  <2>2. /\ WorkspaceOK(v) /\ Grows(ws, v)
        /\ Range(v.routes) = Range(ws.routes) \cup {n.feature}
        /\ \A f \in Parts \ {"routes"} : v[f] = ws[f]
    BY <2>1, UpdateWorkerIndexWithRouteIs
  <2>3. v.bindings = ws.bindings /\ v.exports = ws.exports /\ v.files = ws.files /\ v.dirs = ws.dirs
    BY <2>2 DEF Parts, Registers
  <2>4. Did(v, n, step)
    BY <1>6, <2>2 DEF Did
  <2> QED BY <1>6, <2>2, <2>3, <2>4 DEF v, n
<1>7. CASE step.do \in {"complete", "drizzle_start", "drizzle"}
  <2>1. v = ws
    BY <1>7 DEF Effect
  <2>2. Did(v, n, step)
    BY <1>7 DEF Did
  <2> QED BY <1>7, <2>1, <2>2, GrowsItself
<1> QED BY <1>1, <1>2, <1>3, <1>4, <1>5, <1>6, <1>7 DEF Kinds, Edits

\* A step that fails leaves its directory behind, if anything.
LEMMA RemainsIs ==
  ASSUME NEW step, WorkspaceOK(ws), NEW v \in Remains(step)
  PROVE  /\ WorkspaceOK(v) /\ Grows(ws, v)
         /\ \A f \in Parts \ {"dirs"} : v[f] = ws[f]
         /\ step.do # "file" => v = ws
<1>1. CASE v = ws
  BY <1>1, GrowsItself
<1>2. CASE step.do = "file" /\ v = MakeDirectory(ws, step.file)
  BY <1>2, MakeDirectoryIs
<1> QED BY <1>1, <1>2 DEF Remains

-----------------------------------------------------------------------------
\* The invariant.

\* The steps and the files of the run.
RunSteps == Steps(command.naming, columns, command.options)

RunFiles == GenerateFiles(command.naming, columns, command.options)

\* The features that exist.
Present == {f \in Features : FeatureExists(ws, f)}

\* The run is still to add its binding.
Unbound == at > 0 /\ \E i \in DOMAIN RunSteps : i >= at /\ RunSteps[i].do = "wrangler"

\* The features that may have a binding.
Counted == IF Unbound THEN Present \ {command.naming.feature} ELSE Present

\* The types, and what is a sequence.  A form beyond its first field has a name.
Shape ==
  /\ TypeOK /\ WorkspaceOK(ws) /\ DOMAIN screen = {"listening", "phase", "last"}
  /\ Ordered(events) /\ Ordered(columns) /\ Ordered(typed) /\ since \in Nat
  /\ form.field # "name" => form.name # NoName

\* Every binding that was added is that of a feature that exists; the one that
\* is being generated is not counted before its binding is added.  This is
\* stronger than BoundOnce, which a step that adds a binding need not preserve.
Bound == Len(ws.bindings) - Len(Existing.bindings) <= Cardinality(Counted)

\* What there is of the run's own files was written by this run.
Contents ==
  phase = "generating" =>
    \A f \in Range(RunFiles) :
      f.path[1] \in Own(command.naming.feature) /\ f.path \in DOMAIN ws.files =>
        ws.files[f.path] = f.content

\* The columns are those that were entered since the run began.
Entered == phase # "idle" => since <= Len(typed) /\ columns = EnteredNow

\* While the form is open nothing was written, reported or shown.
Fresh ==
  phase = "form" => /\ at = 0 /\ events = <<>> /\ screen.phase = "generating"
                    /\ Own(command.naming.feature) \intersect ws.dirs = {}

\* The steps before the next one have done their work, and the stream has not
\* ended while there is a next one.
Progress ==
  /\ at > 0 => phase = "generating" /\ \A i \in 1 .. at - 1 : Did(ws, command.naming, RunSteps[i])
  /\ \A e \in Range(events) : Final(e) => at = 0

\* Success is shown, or about to be.
Completed == screen.phase = "success" \/ \E e \in Range(events) : e.type = "complete"

\* Then the run is over, and all that it should leave is there.
Succeeds == Completed => at = 0 /\ (~command.options.dryRun => RunComplete)

\* The inductive invariant.
IInv == Shape /\ RegisteredHasFiles /\ Bound /\ Contents /\ Entered /\ Fresh /\ Progress /\ Succeeds

-----------------------------------------------------------------------------
\* What the parts of it keep while the workspace grows.

\* The states of the form.
FormSet == [at : {"input", "confirm"}, name : Names \union {NoName},
            typeIndex : 1 .. Len(ColumnTypes), nullable : BOOLEAN, field : {"name", "type", "nullable"}]

\* A blank form is one of them, as there is at least one column type.
LEMMA BlankFormIs == BlankForm \in FormSet /\ BlankForm.field = "name"
<1>1. ColumnTypes \in Seq(DOMAIN ColumnTypeToSchema) /\ ColumnTypes # <<>>
  BY SpellbookAssumption
<1>2. Len(ColumnTypes) \in Nat \ {0}
  BY <1>1
<1> QED BY <1>2 DEF BlankForm, FormSet

\* What is registered keeps its files when files are added.
LEMMA RegisteredStays ==
  ASSUME RegisteredHasFiles, Grows(ws, ws'), Range(ws'.exports) \subseteq Range(ws.exports),
         Range(ws'.routes) \subseteq Range(ws.routes)
  PROVE  RegisteredHasFiles'
<1>1. DOMAIN ws.files \subseteq DOMAIN ws'.files
  BY DEF Grows
<1>2. \A f : FeatureComplete(f) => FeatureComplete(f)'
  BY <1>1 DEF FeatureComplete
<1> QED BY <1>2 DEF RegisteredHasFiles

\* A feature that exists goes on to exist.
LEMMA PresentStays == ASSUME Grows(ws, ws')  PROVE Present \subseteq Present'
  BY DEF Present, FeatureExists, Grows

\* The features counted are finitely many, before and after a step.
LEMMA CountedIsFinite == IsFiniteSet(Present) /\ IsFiniteSet(Counted) /\ Cardinality(Counted) \in Nat
<1>1. IsFiniteSet(Features) /\ Present \subseteq Features /\ Counted \subseteq Present
  BY SpellbookAssumption DEF Present, Counted
<1>2. IsFiniteSet(Present)
  BY <1>1, FS_Subset
<1>3. IsFiniteSet(Counted)
  BY <1>1, <1>2, FS_Subset
<1> QED BY <1>2, <1>3, FS_CardinalityType

LEMMA CountedIsFiniteNext == IsFiniteSet(Present') /\ IsFiniteSet(Counted') /\ Cardinality(Counted') \in Nat
<1>1. IsFiniteSet(Features) /\ Present' \subseteq Features /\ Counted' \subseteq Present'
  BY SpellbookAssumption DEF Present, Counted
<1>2. IsFiniteSet(Present')
  BY <1>1, FS_Subset
<1>3. IsFiniteSet(Counted')
  BY <1>1, <1>2, FS_Subset
<1> QED BY <1>2, <1>3, FS_CardinalityType

\* The bindings are a sequence.
LEMMA BindingsAre == ASSUME NEW w, WorkspaceOK(w)  PROVE Len(w.bindings) \in Nat
<1>1. Ordered(w.bindings)
  BY DEF WorkspaceOK, Ordered, Registers
<1> QED BY <1>1, OrderedIs

\* Without a new binding the bound stays, if no feature is counted less.
LEMMA BoundStays ==
  ASSUME Bound, WorkspaceOK(ws), ws'.bindings = ws.bindings, Counted \subseteq Counted'
  PROVE  Bound'
<1>1. IsFiniteSet(Counted') /\ Cardinality(Counted') \in Nat /\ Cardinality(Counted) \in Nat
  BY CountedIsFinite, CountedIsFiniteNext
<1>2. Cardinality(Counted) <= Cardinality(Counted')
  BY <1>1, FS_Subset
<1>3. Len(ws.bindings) \in Nat /\ Len(Existing.bindings) \in Nat
  BY BindingsAre, SpellbookAssumption
<1> DEFINE b == Len(ws.bindings)
           e == Len(Existing.bindings)
           k == Cardinality(Counted)
           l == Cardinality(Counted')
<1>4. b - e <= k /\ b \in Nat /\ e \in Nat /\ k \in Nat /\ l \in Nat /\ k <= l
  BY <1>1, <1>2, <1>3 DEF Bound
<1> HIDE DEF b, e, k, l
<1>5. b - e <= l
  BY <1>4
<1> QED BY <1>5 DEF Bound, b, e, l

\* Without a run there is nothing to bind.
LEMMA CountedNow == at = 0 => ~ Unbound /\ Counted = Present
  BY DEF Unbound, Counted

\* A run without a next step.
LEMMA AtRest == ASSUME NEW n, NEW c, NEW o  PROVE 0 \in 0 .. Len(Steps(n, c, o))
<1>1. Len(Steps(n, c, o)) \in Nat \ {0}
  BY StepsAre
<1> QED BY <1>1

-----------------------------------------------------------------------------
\* The form.

\* An input on the form changes the form, and may add a column.
LEMMA FormStep ==
  ASSUME IInv, phase = "form", UNCHANGED phase, Unwritten,
         form' \in FormSet, form'.field # "name" => form'.name # NoName,
         \/ UNCHANGED <<columns, typed>>
         \/ \E x \in ColumnSet : columns' = Append(columns, x) /\ typed' = Append(typed, x)
  PROVE  IInv'
<1> USE DEF Unwritten
<1>1. /\ Shape /\ at = 0 /\ events = <<>> /\ screen.phase = "generating" /\ phase' = "form"
      /\ at' = 0 /\ events' = <<>> /\ screen' = screen /\ ws' = ws /\ command' = command /\ since' = since
      /\ Own(command.naming.feature) \intersect ws.dirs = {}
  BY DEF IInv, Fresh
<1>2. /\ Ordered(columns') /\ Ordered(typed') /\ Range(columns') \subseteq ColumnSet
      /\ Range(typed') \subseteq ColumnSet /\ Entered'
  <2>0. /\ Ordered(columns) /\ Ordered(typed) /\ Range(columns) \subseteq ColumnSet
        /\ Range(typed) \subseteq ColumnSet /\ since \in Nat /\ since <= Len(typed) /\ columns = EnteredNow
    BY <1>1 DEF Shape, TypeOK, IInv, Entered
  <2>1. CASE UNCHANGED <<columns, typed>>
    BY <1>1, <2>0, <2>1 DEF Entered, EnteredNow
  <2>2. ASSUME NEW x \in ColumnSet, columns' = Append(columns, x), typed' = Append(typed, x)
        PROVE  /\ Ordered(columns') /\ Ordered(typed') /\ Range(columns') \subseteq ColumnSet
               /\ Range(typed') \subseteq ColumnSet /\ Entered'
    <3>1. /\ Ordered(columns') /\ Range(columns') = Range(columns) \cup {x}
          /\ Ordered(typed') /\ Range(typed') = Range(typed) \cup {x} /\ Len(typed') = Len(typed) + 1
      BY <2>0, <2>2, AppendIs
    <3>2. SubSeq(typed', since + 1, Len(typed')) = Append(EnteredNow, x)
      BY <2>0, <2>2, EnteredIs DEF EnteredNow
    <3>3. since <= Len(typed')
      BY <2>0, <3>1, OrderedIs
    <3>4. Entered'
      BY <1>1, <2>0, <2>2, <3>2, <3>3 DEF Entered, EnteredNow
    <3> QED BY <2>0, <3>1, <3>4
  <2> QED BY <2>1, <2>2
<1>3. Shape'
  <2>1. at' \in 0 .. Len(Steps(command', columns', command'.options)) /\ at' \in 0 .. Len(RunSteps')
    BY <1>1, AtRest DEF RunSteps
  <2>2. TypeOK'
    BY <1>1, <1>2, <2>1 DEF Shape, TypeOK, FormSet, EventSet, RunSteps
  <2> QED BY <1>1, <1>2, <2>2 DEF Shape
<1>4. RegisteredHasFiles'
  BY <1>1 DEF IInv, RegisteredHasFiles, FeatureComplete
<1>5. Bound'
  <2>1. Counted = Present /\ Counted' = Present' /\ Present' = Present
    BY <1>1 DEF Counted, Unbound, Present
  <2> QED BY <1>1, <2>1 DEF IInv, Bound
<1>6. Contents' /\ Fresh' /\ Progress' /\ Succeeds'
  BY <1>1, EmptyIs DEF Contents, Fresh, Progress, Succeeds, Completed
<1> QED BY <1>2, <1>3, <1>4, <1>5, <1>6 DEF IInv

\* The form, and the number of column types.
LEMMA FormIs ==
  ASSUME IInv
  PROVE  form \in FormSet /\ (form.field # "name" => form.name # NoName) /\ Len(ColumnTypes) \in Nat \ {0}
<1>1. Len(ColumnTypes) \in Nat \ {0}
  BY SpellbookAssumption
<1> QED BY <1>1 DEF IInv, Shape, TypeOK, FormSet

\* The inputs on the form, one by one.
LEMMA TypeNameKeeps == ASSUME IInv, NEW name \in Names \union {NoName}, TypeName(name)  PROVE IInv'
<1>1. form' \in FormSet /\ form'.field = "name"
  BY FormIs DEF TypeName, OnForm, FormSet
<1> QED BY <1>1, FormStep DEF TypeName, OnForm

LEMMA AddColumnKeeps ==
  ASSUME IInv, OnForm("input"), form.field = "nullable", AddColumn  PROVE IInv'
<1>1. form \in FormSet /\ form.name # NoName
  BY FormIs
<1>2. Column \in ColumnSet
  <2>1. ColumnTypes[form.typeIndex] \in Range(ColumnTypes)
    <3>1. ColumnTypes \in Seq(DOMAIN ColumnTypeToSchema)
      BY SpellbookAssumption
    <3>2. form.typeIndex \in DOMAIN ColumnTypes
      BY <1>1, <3>1 DEF FormSet
    <3> QED BY <3>2 DEF Range
  <2> QED BY <1>1, <2>1 DEF Column, ColumnSet, FormSet
<1>3. form' \in FormSet /\ form'.field = "name"
  BY BlankFormIs DEF AddColumn
<1> QED BY <1>2, <1>3, FormStep DEF AddColumn, OnForm

LEMMA TabKeeps == ASSUME IInv, Tab  PROVE IInv'
<1>1. CASE AddColumn /\ form.field = "nullable"
  BY <1>1, AddColumnKeeps DEF Tab
<1>2. CASE /\ \/ form.field = "name" /\ form.name # NoName /\ form' = [form EXCEPT !.field = "type"]
              \/ form.field = "type" /\ form' = [form EXCEPT !.field = "nullable"]
           /\ UNCHANGED <<phase, columns, typed>> /\ Unwritten
  <2>1. form' \in FormSet /\ form'.name # NoName
    BY <1>2, FormIs DEF FormSet
  <2> QED BY <1>2, <2>1, FormStep DEF Tab, OnForm
<1> QED BY <1>1, <1>2 DEF Tab

LEMMA ArrowKeeps == ASSUME IInv, NEW step \in {-1, 1}, Arrow(step)  PROVE IInv'
<1>1. form \in FormSet /\ Len(ColumnTypes) \in Nat \ {0}
  BY FormIs
<1>2. form'.field # "name" => form'.name # NoName
  BY FormIs DEF Arrow, FormSet
<1>3. form' \in FormSet
  <2>1. CASE form' = [form EXCEPT !.nullable = ~@]
    BY <1>1, <2>1 DEF FormSet
  <2>2. CASE form' = [form EXCEPT !.typeIndex = ((@ - 1 + step) % Len(ColumnTypes)) + 1]
    <3> DEFINE l == Len(ColumnTypes)
               i == form.typeIndex - 1 + step
    <3>1. l \in Nat \ {0} /\ i \in Int
      BY <1>1 DEF FormSet
    <3> HIDE DEF l, i
    <3>2. i % l \in 0 .. l - 1
      BY <3>1
    <3>3. (i % l) + 1 \in 1 .. l
      BY <3>1, <3>2
    <3>4. (i % l) + 1 \in 1 .. Len(ColumnTypes) /\ form' = [form EXCEPT !.typeIndex = (i % l) + 1]
      BY <2>2, <3>3 DEF i, l
    <3> QED BY <1>1, <3>4 DEF FormSet
  <2> QED BY <2>1, <2>2 DEF Arrow
<1> QED BY <1>2, <1>3, FormStep DEF Arrow, OnForm

LEMMA ReturnKeeps == ASSUME IInv, Return  PROVE IInv'
<1>1. CASE AddColumn /\ form.field = "nullable"
  BY <1>1, AddColumnKeeps DEF Return
<1>2. CASE /\ form.field = "name" /\ form' = [form EXCEPT !.at = "confirm"]
           /\ UNCHANGED <<phase, columns, typed>> /\ Unwritten
  <2>1. form' \in FormSet /\ form'.field = "name"
    BY <1>2, FormIs DEF FormSet
  <2> QED BY <1>2, <2>1, FormStep DEF Return, OnForm
<1> QED BY <1>1, <1>2 DEF Return

LEMMA BackKeeps == ASSUME IInv, Back  PROVE IInv'
<1>1. form' \in FormSet /\ form'.field = "name"
  BY BlankFormIs DEF Back
<1> QED BY <1>1, FormStep DEF Back, OnForm

-----------------------------------------------------------------------------
\* Starting and ending runs.

\* The first state satisfies the invariant.
LEMMA InitIInv == Init => IInv
<1> SUFFICES ASSUME Init PROVE IInv
  OBVIOUS
<1>1. /\ ws = Existing /\ phase = "idle" /\ form = BlankForm /\ columns = <<>> /\ at = 0 /\ events = <<>>
      /\ screen = BlankScreen(TRUE) /\ typed = <<>> /\ since = 0
  BY DEF Init
<1>2. command.options \in Options /\ command.naming.feature \in Features
  BY SpellbookAssumption DEF Init, DeriveNaming
<1>3. Ordered(<<>>) /\ Range(<<>>) = {} /\ Len(<<>>) = 0
  BY EmptyIs
<1>4. /\ screen.listening = TRUE /\ screen.phase = "generating" /\ screen.last \in [type : {"starting"}]
      /\ DOMAIN screen = {"listening", "phase", "last"}
  BY <1>1 DEF BlankScreen
<1>5. WorkspaceOK(ws)
  BY <1>1, SpellbookAssumption
<1>6. Shape
  <2>1. at \in 0 .. Len(Steps(command.naming, columns, command.options))
    BY <1>1, AtRest
  <2>2. form \in FormSet /\ form.field = "name"
    BY <1>1, BlankFormIs
  <2>3. \A p \in DOMAIN ws.files : p[1] \in ws.dirs
    BY <1>5 DEF WorkspaceOK
  <2>4. TypeOK
    BY <1>1, <1>2, <1>3, <1>4, <2>1, <2>2, <2>3 DEF TypeOK, FormSet
  <2> QED BY <1>1, <1>3, <1>4, <1>5, <2>2, <2>4 DEF Shape
<1>7. RegisteredHasFiles
  BY <1>1 DEF RegisteredHasFiles
<1>8. Bound
  <2>1. Cardinality(Counted) \in Nat /\ Len(ws.bindings) \in Nat
    BY <1>5, CountedIsFinite, BindingsAre
  <2> DEFINE b == Len(Existing.bindings)
             k == Cardinality(Counted)
  <2>2. b \in Nat /\ k \in Nat /\ Len(ws.bindings) = b
    BY <1>1, <2>1
  <2> HIDE DEF b, k
  <2>3. b - b <= k
    BY <2>2
  <2> QED BY <2>2, <2>3 DEF Bound, b, k
<1>9. Contents
  BY <1>1 DEF Contents
<1>10. Entered
  BY <1>1 DEF Entered
<1>11. Fresh
  BY <1>1 DEF Fresh
<1>12. Progress
  BY <1>1, <1>3 DEF Progress
<1>13. Succeeds
  BY <1>1, <1>3, <1>4 DEF Succeeds, Completed
<1> QED BY <1>6, <1>7, <1>8, <1>9, <1>10, <1>11, <1>12, <1>13 DEF IInv

\* A feature that does not exist has no directory, hence no file.
LEMMA NoFiles ==
  ASSUME WorkspaceOK(ws), NEW f, ~ FeatureExists(ws, f)
  PROVE  /\ Own(f) \intersect ws.dirs = {}
         /\ \A p \in DOMAIN ws.files : p[1] \notin Own(f)
  BY DEF WorkspaceOK, FeatureExists, Own

\* A run that starts: nothing of its feature is there.
LEMMA Starts ==
  ASSUME Shape, RegisteredHasFiles, Bound, UNCHANGED ws, at = 0,
         command'.options \in Options, command'.naming.feature \in Features,
         Own(command'.naming.feature) \intersect ws.dirs = {},
         at' \in {0, 1}, at' = 1 => phase' = "generating", phase' \in {"generating", "form"},
         form' \in FormSet, form'.field = "name",
         Ordered(columns'), Range(columns') \subseteq ColumnSet, UNCHANGED typed,
         since' \in Nat, since' <= Len(typed), columns' = SubSeq(typed, since' + 1, Len(typed)),
         events' = <<>>, screen'.phase = "generating", screen'.listening \in BOOLEAN,
         DOMAIN screen' = {"listening", "phase", "last"},
         screen'.last \in EventSet \union [type : {"starting"}], phase' = "form" => at' = 0
  PROVE  IInv'
<1>1. WorkspaceOK(ws) /\ ws' = ws /\ Ordered(typed) /\ Range(typed) \subseteq ColumnSet
  BY DEF Shape, TypeOK
<1>2. Ordered(<<>>) /\ Range(<<>>) = {} /\ Range(events') = {}
  BY EmptyIs
<1>3. /\ Ordered(RunSteps') /\ Len(RunSteps') \in Nat \ {0} /\ DOMAIN RunSteps' = 1 .. Len(RunSteps')
  <2>1. Ordered(RunSteps') /\ Len(RunSteps') \in Nat \ {0}
    BY StepsAre DEF RunSteps
  <2> QED BY <2>1, OrderedIs
<1>4. Shape'
  <2>1. at' \in 0 .. Len(RunSteps')
    BY <1>3
  <2>2. \A p \in DOMAIN ws'.files : p[1] \in ws'.dirs
    BY <1>1 DEF WorkspaceOK
  <2>3. screen'.last \in EventSet' \union [type : {"starting"}]
    BY <1>1 DEF EventSet
  <2>4. phase' \in {"idle", "form", "generating"} /\ screen'.phase \in {"generating", "success", "error"}
        /\ Range(events') \subseteq EventSet'
    BY <1>2
  <2>5. (Range(columns) \subseteq ColumnSet)' /\ (Range(typed) \subseteq ColumnSet)'
    BY <1>1 DEF ColumnSet
  <2>6. TypeOK'
    BY <2>1, <2>2, <2>3, <2>4, <2>5 DEF TypeOK, FormSet, RunSteps
  <2> QED BY <1>1, <1>2, <2>6 DEF Shape
<1>5. RegisteredHasFiles'
  BY <1>1 DEF RegisteredHasFiles, FeatureComplete
<1>6. Bound'
  <2>1. Counted = Present /\ Present' = Present
    BY <1>1 DEF Counted, Unbound, Present
  <2>2. command'.naming.feature \notin Present
    BY DEF Present, FeatureExists, Own
  <2>3. Counted' = Present'
    BY <2>1, <2>2 DEF Counted
  <2> QED BY <1>1, <2>1, <2>3 DEF Bound
<1>7. Contents'
  BY <1>1 DEF Contents, WorkspaceOK
<1>8. Entered'
  BY DEF Entered, EnteredNow
<1>9. Fresh'
  BY <1>1 DEF Fresh
<1>10. Progress'
  BY <1>2 DEF Progress
<1>11. Succeeds'
  BY <1>2 DEF Succeeds, Completed
<1> QED BY <1>4, <1>5, <1>6, <1>7, <1>8, <1>9, <1>10, <1>11 DEF IInv

\* The form, or the generator, starts on a feature that does not exist.
LEMMA InvokeKeeps ==
  ASSUME IInv, NEW f \in Features, NEW t, NEW o \in Options, Invoke(f, t, o)  PROVE IInv'
<1>1. Shape /\ RegisteredHasFiles /\ Bound /\ at = 0
  BY DEF IInv, Progress, Invoke, Shape, TypeOK
<1>2. command'.options = o /\ command'.naming.feature = f
  BY DEF Invoke, DeriveNaming
<1>3. Own(f) \intersect ws.dirs = {}
  BY <1>1, NoFiles DEF Invoke, Shape
<1>4. Ordered(<<>>) /\ Range(<<>>) = {} /\ form' \in FormSet /\ form'.field = "name"
  BY EmptyIs, BlankFormIs DEF Invoke
<1>5. o.noTui \in BOOLEAN
  BY SpellbookAssumption DEF FlagNames
<1>6. /\ screen'.phase = "generating" /\ screen'.listening \in BOOLEAN
      /\ DOMAIN screen' = {"listening", "phase", "last"} /\ screen'.last \in [type : {"starting"}]
  BY <1>5 DEF Invoke, BlankScreen
<1>7. Ordered(typed) /\ Len(typed) \in Nat
  BY <1>1, OrderedIs DEF Shape
<1>8. /\ since' \in Nat /\ since' <= Len(typed) /\ SubSeq(typed, since' + 1, Len(typed)) = <<>>
  BY <1>7 DEF Invoke, Ordered
<1> QED BY <1>1, <1>2, <1>3, <1>4, <1>6, <1>7, <1>8, Starts DEF Invoke

\* The generator starts with what the form collected.
LEMMA ConfirmKeeps == ASSUME IInv, Confirm  PROVE IInv'
<1>1. Shape /\ RegisteredHasFiles /\ Bound /\ Entered /\ Fresh /\ phase = "form"
  BY DEF IInv, Confirm, OnForm
<1>2. /\ at = 0 /\ events = <<>> /\ screen.phase = "generating"
      /\ Own(command.naming.feature) \intersect ws.dirs = {}
      /\ since <= Len(typed) /\ columns = SubSeq(typed, since + 1, Len(typed))
  BY <1>1 DEF Fresh, Entered, EnteredNow
<1>3. form' \in FormSet /\ form'.field = "name"
  BY BlankFormIs DEF Confirm
<1>4. command' = command /\ screen' = screen /\ events' = events /\ since' = since /\ columns' = columns
      /\ ws' = ws /\ typed' = typed /\ at' = 1 /\ phase' = "generating"
  BY DEF Confirm
<1>5. /\ command.options \in Options /\ command.naming.feature \in Features
      /\ Ordered(columns) /\ Range(columns) \subseteq ColumnSet /\ since \in Nat
      /\ screen.listening \in BOOLEAN /\ DOMAIN screen = {"listening", "phase", "last"}
      /\ screen.last \in EventSet \union [type : {"starting"}]
  BY <1>1 DEF Shape, TypeOK
<1> QED BY <1>1, <1>2, <1>3, <1>4, <1>5, Starts

\* Nothing but directories of w is new in v.
Leaves(w, v) == WorkspaceOK(v) /\ Grows(w, v) /\ \A f \in Parts \ {"dirs"} : v[f] = w[f]

\* Everything but the directories is the same.
LEMMA LeavesItself == ASSUME NEW w, WorkspaceOK(w)  PROVE Leaves(w, w)
  BY GrowsItself DEF Leaves

LEMMA LeavesIs ==
  ASSUME NEW w, NEW v, Leaves(w, v)
  PROVE  /\ v.files = w.files /\ v.exports = w.exports /\ v.routes = w.routes
         /\ v.bindings = w.bindings /\ v.migrations = w.migrations /\ v.resolvers = w.resolvers
         /\ v.dependencies = w.dependencies
  BY DEF Leaves, Parts, Registers

\* A run that ends, whatever it leaves behind.
LEMMA ExitKeeps == ASSUME IInv, Exit, Leaves(ws, ws')  PROVE IInv'
<1>1. Shape /\ WorkspaceOK(ws') /\ Grows(ws, ws')
  BY DEF IInv, Leaves
<1>2. /\ ws'.files = ws.files /\ ws'.exports = ws.exports /\ ws'.routes = ws.routes
      /\ ws'.bindings = ws.bindings
  BY LeavesIs
<1>3. Ordered(<<>>) /\ Range(<<>>) = {} /\ form' \in FormSet /\ form'.field = "name"
  BY EmptyIs, BlankFormIs DEF Exit
<1>4. /\ screen'.phase = "generating" /\ screen'.listening = TRUE
      /\ DOMAIN screen' = {"listening", "phase", "last"} /\ screen'.last \in [type : {"starting"}]
  BY DEF Exit, BlankScreen
<1>5. phase' = "idle" /\ columns' = <<>> /\ at' = 0 /\ events' = <<>> /\ command' = command
      /\ typed' = typed /\ since' = since
  BY DEF Exit
<1>6. Shape'
  <2>1. at' \in 0 .. Len(RunSteps')
    BY <1>5, AtRest DEF RunSteps
  <2>2. \A p \in DOMAIN ws'.files : p[1] \in ws'.dirs
    BY <1>1 DEF WorkspaceOK
  <2>3. /\ command.options \in Options /\ command.naming.feature \in Features
        /\ Ordered(typed) /\ Range(typed) \subseteq ColumnSet /\ since \in Nat
    BY <1>1 DEF Shape, TypeOK
  <2>4. (Range(columns) \subseteq ColumnSet)' /\ (Range(typed) \subseteq ColumnSet)'
    BY <1>3, <1>5, <2>3 DEF ColumnSet
  <2>5. TypeOK'
    BY <1>3, <1>4, <1>5, <2>1, <2>2, <2>3, <2>4 DEF TypeOK, FormSet, RunSteps
  <2> QED BY <1>1, <1>3, <1>4, <1>5, <2>3, <2>5 DEF Shape
<1>7. RegisteredHasFiles'
  BY <1>1, <1>2, RegisteredStays DEF IInv
<1>8. Bound'
  <2>1. Counted \subseteq Present /\ Counted' = Present'
    BY <1>5, CountedNow DEF Counted, Unbound
  <2>2. Present \subseteq Present'
    BY <1>1, PresentStays
  <2> QED BY <1>1, <1>2, <2>1, <2>2, BoundStays DEF IInv, Shape
<1>9. Contents' /\ Entered' /\ Fresh' /\ Progress' /\ Succeeds'
  BY <1>3, <1>4, <1>5 DEF Contents, Entered, Fresh, Progress, Succeeds, Completed
<1> QED BY <1>6, <1>7, <1>8, <1>9 DEF IInv

\* The ways a run ends before its last event is delivered, or after.
LEMMA RemainsLeaves == ASSUME WorkspaceOK(ws), NEW step, ws' \in Remains(step)  PROVE Leaves(ws, ws')
  BY RemainsIs DEF Leaves

LEMMA CancelKeeps == ASSUME IInv, Cancel  PROVE IInv'
  BY ExitKeeps, LeavesItself DEF Cancel, IInv, Shape

LEMMA AcknowledgeKeeps == ASSUME IInv, Acknowledge  PROVE IInv'
  BY ExitKeeps, LeavesItself DEF Acknowledge, IInv, Shape

LEMMA KillKeeps == ASSUME IInv, Kill  PROVE IInv'
<1>1. WorkspaceOK(ws) /\ Exit
  BY DEF IInv, Shape, Kill
<1>2. CASE at > 0
  <2>1. ws' \in Remains(Step)
    BY <1>2 DEF Kill
  <2> QED BY <1>1, <2>1, RemainsLeaves, ExitKeeps
<1>3. CASE ~ (at > 0)
  <2>1. ws' = ws
    BY <1>3 DEF Kill
  <2>2. Leaves(ws, ws')
    BY <1>1, <2>1, LeavesItself
  <2> QED BY <1>1, <2>2, ExitKeeps
<1> QED BY <1>2, <1>3

-----------------------------------------------------------------------------
\* Generating.

\* The next step of a run, and what the earlier ones have done.
LEMMA StepIs ==
  ASSUME Shape, Progress, at > 0
  PROVE  /\ at \in DOMAIN RunSteps /\ Step = RunSteps[at] /\ Step.do \in Kinds
         /\ Step.do = "complete" <=> at = Len(RunSteps)
         /\ at \in Nat /\ DOMAIN RunSteps = 1 .. Len(RunSteps) /\ Len(RunSteps) \in Nat
         /\ \A i \in 1 .. at - 1 : i \in DOMAIN RunSteps /\ Did(ws, command.naming, RunSteps[i])
         /\ command.options.dryRun => Step.do = "complete"
         /\ \A i \in DOMAIN RunSteps : RunSteps[i].do = "file" => RunSteps[i].file \in Range(RunFiles)
         /\ Step.do # "file" /\ ~ command.options.dryRun =>
              \A f \in Range(RunFiles) : f.path \in DOMAIN ws.files /\ ws.files[f.path] = f.content
<1> DEFINE n == command.naming
           o == command.options
           s == RunSteps
           F == FileSteps(n, columns, o)
<1>1. /\ Ordered(s) /\ Len(s) \in Nat \ {0} /\ \A i \in DOMAIN s : s[i].do = "complete" <=> i = Len(s)
      /\ o.dryRun => \A i \in DOMAIN s : s[i].do = "complete"
      /\ ~ o.dryRun => FilesFirst(s, F)
  BY StepsAre DEF RunSteps
<1>2. DOMAIN s = 1 .. Len(s)
  BY <1>1, OrderedIs
<1>3. at \in 0 .. Len(s) /\ Step = s[at]
  BY DEF Shape, TypeOK, RunSteps, Step
<1>4. at \in DOMAIN s
  BY <1>1, <1>2, <1>3
<1>5. Step.do \in Kinds
  <2>1. Step \in Range(s)
    BY <1>3, <1>4 DEF Range
  <2> QED BY <2>1, KindsAre DEF RunSteps
<1>6. \A i \in 1 .. at - 1 : i \in DOMAIN s /\ Did(ws, n, s[i])
  BY <1>1, <1>2, <1>3 DEF Progress
<1>7. /\ Ordered(F) /\ DOMAIN F = DOMAIN RunFiles /\ Ordered(RunFiles)
      /\ \A i \in DOMAIN F : F[i] = [do |-> "file", file |-> RunFiles[i]]
  BY FileStepsAre, FilesAre DEF RunFiles
<1>8. DOMAIN F = 1 .. Len(F) /\ Len(F) \in Nat
  BY <1>7, OrderedIs
<1> HIDE DEF s, F
<1>9. ASSUME ~ o.dryRun, NEW i \in DOMAIN s, s[i].do = "file"
      PROVE  s[i].file \in Range(RunFiles)
  <2>1. i \in DOMAIN F /\ s[i] = F[i]
    BY <1>1, <1>9 DEF FilesFirst
  <2>2. s[i].file = RunFiles[i]
    BY <1>7, <2>1
  <2> QED BY <1>7, <2>1, <2>2 DEF Range
<1>10. ASSUME Step.do # "file", ~ o.dryRun, NEW f \in Range(RunFiles)
       PROVE  f.path \in DOMAIN ws.files /\ ws.files[f.path] = f.content
  <2>1. PICK i \in DOMAIN RunFiles : RunFiles[i] = f
    BY DEF Range
  <2>2. i \in DOMAIN F /\ F[i] = [do |-> "file", file |-> f] /\ s[i] = F[i] /\ i \in DOMAIN s
    BY <1>1, <1>7, <1>10, <2>1 DEF FilesFirst
  <2>3. s[i].do = "file" /\ s[i].file = f
    BY <2>2
  <2>4. at \notin DOMAIN F
    <3>1. \A j \in DOMAIN F : s[j].do = "file"
      BY <1>1, <1>7, <1>10 DEF FilesFirst
    <3> QED BY <1>3, <1>10, <3>1
  <2>5. i \in 1 .. at - 1
    BY <1>2, <1>3, <1>4, <1>8, <2>2, <2>4
  <2>6. Did(ws, n, s[i])
    BY <1>6, <2>5
  <2> QED BY <2>3, <2>6 DEF Did
<1>11. ASSUME o.dryRun  PROVE Step.do = "complete" /\ \A i \in DOMAIN s : s[i].do # "file"
  BY <1>1, <1>3, <1>4, <1>11
<1>12. /\ at \in Nat /\ Step.do = "complete" <=> at = Len(s)
  BY <1>1, <1>3, <1>4
<1> QED BY <1>1, <1>2, <1>3, <1>4, <1>5, <1>6, <1>9, <1>10, <1>11, <1>12 DEF s

\* Once a run has written its files, its feature is there and complete.
LEMMA Written ==
  ASSUME WorkspaceOK(ws),
         \A f \in Range(RunFiles) : f.path \in DOMAIN ws.files /\ ws.files[f.path] = f.content,
         command.naming.feature \in Features
  PROVE  FeatureComplete(command.naming.feature) /\ command.naming.feature \in Present
<1> DEFINE n == command.naming
           own == PackageFiles(n, columns) \o WorkerFiles(n, columns)
           m == DeriveNaming(n.feature, NoTable)
<1>1. /\ Ordered(RunFiles) /\ 1 \in DOMAIN RunFiles /\ RunFiles[1].path[1] = PackageDir(n.feature)
      /\ Range(own) \subseteq Range(RunFiles)
  BY FilesAre DEF RunFiles
<1>2. RunFiles[1] \in Range(RunFiles)
  BY <1>1 DEF Range
<1>3. PackageDir(n.feature) \in ws.dirs
  BY <1>1, <1>2 DEF WorkspaceOK
<1>4. n.feature \in Present
  BY <1>3 DEF Present, FeatureExists
<1>5. OwnPaths(n, columns) = OwnPaths(m, <<>>)
  <2>1. n.feature = m.feature
    BY DEF DeriveNaming
  <2> HIDE DEF n, m
  <2> QED BY <2>1, PathsAre
<1>6. OwnPaths(n, columns) \subseteq DOMAIN ws.files
  BY <1>1 DEF OwnPaths
<1>7. OwnPaths(m, <<>>) \subseteq DOMAIN ws.files
  BY <1>5, <1>6
<1>8. FeatureComplete(n.feature)
  BY <1>7 DEF FeatureComplete, OwnPaths
<1> QED BY <1>4, <1>8

\* An event that is about a file on disk stays so.
LEMMA EventsStay == ASSUME Grows(ws, ws')  PROVE EventSet \subseteq EventSet'
  BY DEF Grows, EventSet

\* At the last step of a run, all that its options ask for is there.
LEMMA Completes ==
  ASSUME Shape, Progress, at > 0, Step.do = "complete", ~ command.options.dryRun
  PROVE  RunComplete
<1> DEFINE n == command.naming
           o == command.options
           s == RunSteps
<1>1. /\ at = Len(s) /\ DOMAIN s = 1 .. Len(s) /\ at \in Nat
      /\ \A i \in DOMAIN s : s[i].do = "complete" => i = Len(s)
      /\ \A i \in 1 .. at - 1 : Did(ws, n, s[i])
      /\ \A f \in Range(RunFiles) : f.path \in DOMAIN ws.files /\ ws.files[f.path] = f.content
  <2>1. \A i \in DOMAIN s : s[i].do = "complete" <=> i = Len(s)
    BY StepsAre DEF RunSteps
  <2> QED BY <2>1, StepIs
<1>2. /\ ~ o.skipIndex \/ ~ o.skipWrangler =>
           \A kind \in {"index", "wrangler", "package"} : Bare(kind) \in Range(s)
      /\ o.withGraphql \/ o.withAll => Bare("resolvers") \in Range(s)
      /\ o.withRoute \/ o.withAll => Bare("route") \in Range(s)
  BY StepsAre DEF RunSteps
<1> HIDE DEF s
<1>3. ASSUME NEW kind \in Edits, Bare(kind) \in Range(s)  PROVE Did(ws, n, Bare(kind))
  <2>1. PICK i \in DOMAIN s : s[i] = Bare(kind)
    BY <1>3 DEF Range
  <2>2. s[i].do # "complete"
    BY <2>1 DEF Edits, Bare
  <2>3. i \in 1 .. at - 1
    BY <1>1, <2>2, StepsAre, <2>1, StepIs DEF s
  <2> QED BY <1>1, <2>1, <2>3
<1>4. FilesPresent(ws, GenerateFiles(n, columns, o))
  BY <1>1 DEF FilesPresent, RunFiles, Range
<1>5. ~ o.skipIndex => ExportOf(n) \in Range(ws.exports)
  <2>1. ~ o.skipIndex => Did(ws, n, Bare("index"))
    BY <1>2, <1>3 DEF Edits
  <2> QED BY <2>1 DEF Did, Bare
<1>6. ~ o.skipWrangler => /\ [name |-> n.binding, class |-> n.class] \in Range(ws.bindings)
                          /\ \E m \in Range(ws.migrations) : m.class = n.class
  <2>1. ~ o.skipWrangler => Did(ws, n, Bare("wrangler"))
    BY <1>2, <1>3 DEF Edits
  <2> QED BY <2>1 DEF Did, Bare
<1>7. ~ (o.skipIndex /\ o.skipWrangler) => n.feature \in ws.dependencies
  <2>1. ~ (o.skipIndex /\ o.skipWrangler) => Did(ws, n, Bare("package"))
    BY <1>2, <1>3 DEF Edits
  <2> QED BY <2>1 DEF Did, Bare
<1>8. o.withGraphql \/ o.withAll => n.class \in Range(ws.resolvers)
  <2>1. o.withGraphql \/ o.withAll => Did(ws, n, Bare("resolvers"))
    BY <1>2, <1>3 DEF Edits
  <2> QED BY <2>1 DEF Did, Bare
<1>9. o.withRoute \/ o.withAll => n.feature \in Range(ws.routes)
  <2>1. o.withRoute \/ o.withAll => Did(ws, n, Bare("route"))
    BY <1>2, <1>3 DEF Edits
  <2> QED BY <2>1 DEF Did, Bare
<1> QED BY <1>4, <1>5, <1>6, <1>7, <1>8, <1>9 DEF RunComplete

\* The screen starts to listen.
LEMMA MountKeeps == ASSUME IInv, Mount  PROVE IInv'
<1>1. /\ phase = "generating" /\ screen' = [screen EXCEPT !.listening = TRUE]
      /\ ws' = ws /\ phase' = phase /\ at' = at /\ events' = events /\ command' = command /\ form' = form
      /\ columns' = columns /\ typed' = typed /\ since' = since
  BY DEF Mount, Idle
<1>2. /\ Shape /\ screen'.phase = screen.phase /\ screen'.last = screen.last /\ screen'.listening = TRUE
      /\ DOMAIN screen' = DOMAIN screen
  BY <1>1 DEF IInv, Shape
<1>3. TypeOK'
  BY <1>1, <1>2 DEF Shape, TypeOK, EventSet, ColumnSet
<1>4. Shape'
  BY <1>1, <1>2, <1>3 DEF Shape
<1>5. RegisteredHasFiles' /\ Contents' /\ Entered'
  BY <1>1 DEF IInv, RegisteredHasFiles, FeatureComplete, Contents, RunFiles, Entered, EnteredNow
<1>6. Bound'
  BY <1>1 DEF IInv, Bound, Counted, Unbound, Present, RunSteps
<1>7. Fresh' /\ Progress'
  BY <1>1, <1>2 DEF IInv, Fresh, Progress, RunSteps
<1>8. Succeeds'
  BY <1>1, <1>2 DEF IInv, Succeeds, Completed, RunComplete
<1> QED BY <1>4, <1>5, <1>6, <1>7, <1>8 DEF IInv

\* The screen hears an event, or misses it: success is shown only when the
\* stream carried it.
LEMMA SendProgressUpdateKeeps == ASSUME IInv, SendProgressUpdate  PROVE IInv'
<1> DEFINE event == Head(events)
<1>1. /\ phase = "generating" /\ events # <<>>
      /\ screen' = IF screen.listening THEN Heard(screen, event) ELSE screen
      /\ phase' = "generating" \/ (phase' = "idle" /\ Final(event))
      /\ ws' = ws /\ at' = at /\ events' = Tail(events) /\ command' = command /\ form' = form
      /\ columns' = columns /\ typed' = typed /\ since' = since
  BY DEF SendProgressUpdate, Idle
<1>2. Shape /\ TypeOK /\ Ordered(events)
  BY DEF IInv, Shape
<1>3. Ordered(events') /\ Range(events') \subseteq Range(events) /\ event \in Range(events)
  BY <1>1, <1>2, TailIs
<1>4. event \in EventSet
  BY <1>2, <1>3 DEF TypeOK
<1> HIDE DEF event
<1>5. /\ DOMAIN screen' = DOMAIN screen /\ screen'.listening = screen.listening
      /\ screen'.last \in {screen.last, event} /\ screen'.phase \in {screen.phase, "success", "error"}
      /\ screen'.phase = "success" => screen.phase = "success" \/ event.type = "complete"
  <2>1. DOMAIN screen = {"listening", "phase", "last"}
    BY <1>2 DEF Shape
  <2>2. CASE screen' = screen
    BY <2>2
  <2>3. CASE screen' = Heard(screen, event)
    <3>1. \/ event.type = "complete" /\ screen' = [screen EXCEPT !.phase = "success"]
          \/ screen' = [screen EXCEPT !.phase = "error"]
          \/ screen' = [screen EXCEPT !.last = event]
          \/ screen' = screen
      BY <2>3 DEF Heard
    <3> QED BY <2>1, <3>1
  <2> QED BY <1>1, <2>2, <2>3
<1>6. TypeOK'
  <2>1. screen'.last \in EventSet' \union [type : {"starting"}]
    BY <1>1, <1>2, <1>4, <1>5 DEF TypeOK, EventSet
  <2>2. Range(events') \subseteq EventSet'
    BY <1>1, <1>2, <1>3 DEF TypeOK, EventSet
  <2>3. screen'.phase \in {"generating", "success", "error"} /\ screen'.listening \in BOOLEAN
    BY <1>2, <1>5 DEF TypeOK
  <2> QED BY <1>1, <1>2, <2>1, <2>2, <2>3 DEF TypeOK, ColumnSet
<1>7. Shape'
  BY <1>1, <1>2, <1>3, <1>5, <1>6 DEF Shape
<1>8. RegisteredHasFiles' /\ Contents' /\ Entered'
  BY <1>1 DEF IInv, RegisteredHasFiles, FeatureComplete, Contents, RunFiles, Entered, EnteredNow
<1>9. Bound'
  BY <1>1 DEF IInv, Bound, Counted, Unbound, Present, RunSteps
<1>10. Fresh'
  BY <1>1 DEF Fresh
<1>11. Progress'
  <2>1. Final(event) => at = 0
    BY <1>3 DEF IInv, Progress
  <2> QED BY <1>1, <1>2, <1>3, <2>1 DEF IInv, Progress, RunSteps, Shape, TypeOK
<1>12. Succeeds'
  <2>1. Completed' => Completed
    BY <1>3, <1>5 DEF Completed
  <2> QED BY <1>1, <2>1 DEF IInv, Succeeds, RunComplete
<1> QED BY <1>7, <1>8, <1>9, <1>10, <1>11, <1>12 DEF IInv

\* A step done stays done while its run goes on: no two files of a run share a
\* path.
LEMMA StaysDone ==
  ASSUME Shape, Progress, at > 0, WorkspaceOK(ws), ws' = Effect(Step),
         NEW i \in 1 .. at
  PROVE  Did(ws', command.naming, RunSteps[i])
<1> DEFINE n == command.naming
           x == RunSteps[i]
           y == Step
<1>1. /\ at \in Nat /\ y = RunSteps[at] /\ y.do \in Kinds /\ at \in DOMAIN RunSteps
      /\ \A j \in 1 .. at - 1 : j \in DOMAIN RunSteps /\ Did(ws, n, RunSteps[j])
      /\ \A j \in DOMAIN RunSteps : RunSteps[j].do = "file" => RunSteps[j].file \in Range(RunFiles)
  BY StepIs
<1>2. /\ Grows(ws, ws') /\ Did(ws', n, y)
      /\ y.do # "file" => ws'.files = ws.files
      /\ y.do = "file" => \A p \in DOMAIN ws.files \ {y.file.path} : ws'.files[p] = ws.files[p]
  BY <1>1, EffectIs
<1>3. CASE i = at
  BY <1>1, <1>2, <1>3
<1>4. CASE i # at
  <2>1. i \in 1 .. at - 1
    BY <1>1, <1>4
  <2>2. Did(ws, n, x) /\ i \in DOMAIN RunSteps
    BY <1>1, <2>1
  <2>3. ASSUME x.do = "file"  PROVE ws'.files[x.file.path] = ws.files[x.file.path]
    <3>1. x.file.path \in DOMAIN ws.files /\ ws.files[x.file.path] = x.file.content
      BY <2>2, <2>3 DEF Did
    <3>2. CASE y.do = "file" /\ y.file.path = x.file.path
      <4>1. x.file \in Range(RunFiles) /\ y.file \in Range(RunFiles)
        BY <1>1, <2>2, <2>3, <3>2
      <4>2. Apart(Range(RunFiles))
        BY FilesAre DEF RunFiles
      <4>3. x.file = y.file
        BY <3>2, <4>1, <4>2 DEF Apart
      <4>4. ws'.files[y.file.path] = y.file.content
        BY <1>2, <3>2 DEF Did
      <4> QED BY <3>1, <4>3, <4>4
    <3>3. CASE ~ (y.do = "file" /\ y.file.path = x.file.path)
      BY <1>2, <3>1, <3>3
    <3> QED BY <3>2, <3>3
  <2> HIDE DEF x, n
  <2>4. Did(ws', n, x)
    BY <1>2, <2>2, <2>3, DidStays
  <2> QED BY <2>4 DEF x, n
<1> QED BY <1>3, <1>4

\* The step for wrangler.jsonc adds one binding, and its feature is counted from
\* then on.
LEMMA PerformBinds ==
  ASSUME IInv, Perform  PROVE Bound'
<1> DEFINE f == command.naming.feature
<1>1. /\ Shape /\ Progress /\ Bound /\ at > 0 /\ WorkspaceOK(ws) /\ f \in Features
      /\ ws' = Effect(Step) /\ command' = command /\ columns' = columns
      /\ at' = IF Step.do = "complete" THEN 0 ELSE at + 1
  BY DEF IInv, Shape, TypeOK, Perform, Idle
<1>2. /\ at \in Nat /\ at \in DOMAIN RunSteps /\ Step = RunSteps[at] /\ Step.do \in Kinds
      /\ DOMAIN RunSteps = 1 .. Len(RunSteps) /\ Len(RunSteps) \in Nat
      /\ command.options.dryRun => Step.do = "complete"
      /\ Step.do # "file" /\ ~ command.options.dryRun =>
           \A g \in Range(RunFiles) : g.path \in DOMAIN ws.files /\ ws.files[g.path] = g.content
  BY <1>1, StepIs
<1>3. /\ Grows(ws, ws')
      /\ Step.do # "wrangler" => ws'.bindings = ws.bindings
      /\ Step.do = "wrangler" => Len(ws'.bindings) = Len(ws.bindings) + 1
  BY <1>1, <1>2, EffectIs
<1>4. Present \subseteq Present' /\ RunSteps' = RunSteps
  BY <1>1, <1>3, PresentStays DEF RunSteps
<1>5. CASE Step.do # "wrangler"
  <2>1. Unbound' => Unbound
    BY <1>1, <1>2, <1>4 DEF Unbound
  <2>2. Counted \subseteq Counted'
    BY <1>1, <1>4, <2>1 DEF Counted
  <2> QED BY <1>1, <1>3, <1>5, <2>2, BoundStays
<1>6. CASE Step.do = "wrangler"
  <2>1. Unbound
    BY <1>1, <1>2, <1>6 DEF Unbound
  <2>2. ~ Unbound'
    <3>1. Once(RunSteps)
      BY StepsAre DEF RunSteps
    <3>2. ASSUME NEW i \in DOMAIN RunSteps, i >= at + 1, RunSteps[i].do = "wrangler"  PROVE FALSE
      <4>1. i = at
        BY <1>2, <1>6, <3>1, <3>2 DEF Once
      <4> QED BY <1>2, <3>2, <4>1
    <3>3. at' = at + 1
      BY <1>1, <1>6
    <3> QED BY <1>4, <3>2, <3>3 DEF Unbound
  <2>3. f \in Present
    BY <1>1, <1>2, <1>6, Written
  <2>4. Counted = Present \ {f} /\ Counted' = Present'
    BY <2>1, <2>2 DEF Counted
  <2>5. /\ IsFiniteSet(Present) /\ IsFiniteSet(Present')
        /\ Cardinality(Counted) \in Nat /\ Cardinality(Counted') \in Nat
    BY CountedIsFinite, CountedIsFiniteNext
  <2>6. Cardinality(Counted) = Cardinality(Present) - 1 /\ Cardinality(Present) \in Nat
    <3>1. Cardinality(Present \ {f}) = Cardinality(Present) - 1
      BY <2>3, <2>5, FS_RemoveElement
    <3> QED BY <2>4, <2>5, <3>1, FS_CardinalityType
  <2>7. Cardinality(Present) <= Cardinality(Counted')
    BY <1>4, <2>4, <2>5, FS_Subset
  <2> DEFINE b == Len(ws.bindings)
             b2 == Len(ws'.bindings)
             e == Len(Existing.bindings)
             k == Cardinality(Counted)
             p == Cardinality(Present)
             l == Cardinality(Counted')
  <2>8. /\ b \in Nat /\ e \in Nat /\ k \in Nat /\ l \in Nat /\ p \in Nat
        /\ b - e <= k /\ b2 = b + 1 /\ k = p - 1 /\ p <= l
    BY <1>1, <1>3, <1>6, <2>5, <2>6, <2>7, BindingsAre, SpellbookAssumption DEF Bound
  <2> HIDE DEF b, b2, e, k, p, l
  <2>9. b2 - e <= l
    BY <2>8
  <2> QED BY <2>9 DEF Bound, b2, e, l
<1> QED BY <1>5, <1>6

\* The index and the routes are edited after the files are written.
LEMMA PerformRegisters ==
  ASSUME IInv, Perform  PROVE RegisteredHasFiles'
<1> DEFINE n == command.naming
<1>1. /\ Shape /\ Progress /\ at > 0 /\ WorkspaceOK(ws) /\ n.feature \in Features /\ ws' = Effect(Step)
      /\ RegisteredHasFiles
  BY DEF IInv, Shape, TypeOK, Perform
<1>2. /\ Step.do \in Kinds
      /\ command.options.dryRun => Step.do = "complete"
      /\ Step.do # "file" /\ ~ command.options.dryRun =>
           \A g \in Range(RunFiles) : g.path \in DOMAIN ws.files /\ ws.files[g.path] = g.content
  BY <1>1, StepIs
<1>3. /\ Grows(ws, ws')
      /\ Step.do # "index" => ws'.exports = ws.exports
      /\ Range(ws'.exports) \subseteq Range(ws.exports) \cup {ExportOf(n)}
      /\ Step.do # "route" => ws'.routes = ws.routes
      /\ Range(ws'.routes) \subseteq Range(ws.routes) \cup {n.feature}
  BY <1>1, <1>2, EffectIs
<1>4. CASE Step.do \notin {"index", "route"}
  BY <1>1, <1>3, <1>4, RegisteredStays
<1>5. CASE Step.do \in {"index", "route"}
  <2>1. FeatureComplete(n.feature)
    BY <1>1, <1>2, <1>5, Written
  <2>2. \A f : FeatureComplete(f) => FeatureComplete(f)'
    BY <1>3 DEF FeatureComplete, Grows
  <2>3. ExportOf(n).feature = n.feature
    BY DEF ExportOf
  <2> HIDE DEF n
  <2> QED BY <1>1, <1>3, <2>1, <2>2, <2>3 DEF RegisteredHasFiles
<1> QED BY <1>4, <1>5

\* What a step writes is what its run generates.
LEMMA PerformWrites ==
  ASSUME IInv, Perform
  PROVE  /\ Contents'
         /\ \A p \in DOMAIN ws.files :
              p[1] \in Own(command.naming.feature) => ws'.files[p] = ws.files[p]
         /\ \A p \in DOMAIN ws.files :
              p[1] \notin Own(command.naming.feature) \cup {<<"test">>, <<"resolvers">>} =>
                ws'.files[p] = ws.files[p]
<1> DEFINE f == Step.file
           own == Own(command.naming.feature)
<1>1. /\ Shape /\ Progress /\ Contents /\ at > 0 /\ WorkspaceOK(ws) /\ ws' = Effect(Step)
      /\ phase = "generating" /\ phase' = phase /\ command' = command /\ columns' = columns
  BY DEF IInv, Shape, Perform, Idle
<1>2. /\ Step.do \in Kinds
      /\ Step.do = "file" => f \in Range(RunFiles)
  BY <1>1, StepIs
<1>3. /\ Did(ws', command.naming, Step)
      /\ Step.do # "file" => ws'.files = ws.files
      /\ Step.do = "file" =>
           /\ DOMAIN ws'.files = DOMAIN ws.files \cup {f.path}
           /\ \A p \in DOMAIN ws.files \ {f.path} : ws'.files[p] = ws.files[p]
  BY <1>1, <1>2, EffectIs
<1>4. RunFiles' = RunFiles /\ Own(command'.naming.feature) = own
  BY <1>1 DEF RunFiles
<1>5. CASE Step.do # "file"
  BY <1>1, <1>3, <1>4, <1>5 DEF Contents
<1>6. CASE Step.do = "file"
  <2>1. /\ Apart(Range(RunFiles))
        /\ \A g \in Range(RunFiles) : g.path[1] \in own \cup {<<"test">>, <<"resolvers">>}
    BY FilesAre DEF RunFiles
  <2>2. ws'.files[f.path] = f.content
    BY <1>3, <1>6 DEF Did
  <2> HIDE DEF f, own
  <2>3. Contents'
    <3> SUFFICES ASSUME NEW g \in Range(RunFiles), g.path[1] \in own, g.path \in DOMAIN ws'.files
                 PROVE  ws'.files[g.path] = g.content
      BY <1>4 DEF Contents
    <3>1. CASE g.path = f.path
      BY <1>2, <1>6, <2>1, <2>2, <3>1 DEF Apart
    <3>2. CASE g.path # f.path
      <4>1. g.path \in DOMAIN ws.files /\ ws'.files[g.path] = ws.files[g.path]
        BY <1>3, <1>6, <3>2
      <4> QED BY <1>1, <4>1 DEF Contents, own
    <3> QED BY <3>1, <3>2
  <2>4. ASSUME NEW p \in DOMAIN ws.files, p[1] \in own  PROVE ws'.files[p] = ws.files[p]
    <3>1. CASE p = f.path
      BY <1>1, <1>2, <1>6, <2>2, <2>4, <3>1 DEF Contents, own
    <3>2. CASE p # f.path
      BY <1>3, <1>6, <3>2
    <3> QED BY <3>1, <3>2
  <2>5. ASSUME NEW p \in DOMAIN ws.files, p[1] \notin own \cup {<<"test">>, <<"resolvers">>}
        PROVE  ws'.files[p] = ws.files[p]
    <3>1. p # f.path
      BY <1>2, <1>6, <2>1, <2>5
    <3> QED BY <1>3, <1>6, <3>1
  <2> QED BY <2>3, <2>4, <2>5 DEF own
<1> QED BY <1>5, <1>6

\* A step of the generator preserves the invariant.
LEMMA PerformKeeps == ASSUME IInv, Perform  PROVE IInv'
<1>1. /\ Shape /\ TypeOK /\ Progress /\ Entered /\ at > 0 /\ WorkspaceOK(ws) /\ ws' = Effect(Step)
      /\ phase = "generating" /\ phase' = phase /\ command' = command /\ columns' = columns /\ form' = form
      /\ typed' = typed /\ since' = since /\ screen' = screen
      /\ at' = IF Step.do = "complete" THEN 0 ELSE at + 1
      /\ Ordered(events)
  BY DEF IInv, Shape, Perform, Idle
<1>2. /\ at \in Nat /\ at \in DOMAIN RunSteps /\ Step = RunSteps[at] /\ Step.do \in Kinds
      /\ DOMAIN RunSteps = 1 .. Len(RunSteps) /\ Len(RunSteps) \in Nat
      /\ Step.do = "complete" <=> at = Len(RunSteps)
      /\ command.options.dryRun => Step.do = "complete"
  BY <1>1, StepIs
<1>3. /\ WorkspaceOK(ws') /\ Grows(ws, ws') /\ Did(ws', command.naming, Step)
      /\ Step.do = "complete" => ws' = ws
  BY <1>1, <1>2, EffectIs
<1>4. RunSteps' = RunSteps
  BY <1>1 DEF RunSteps
<1>5. PICK e : /\ events' = Append(events, e)
               /\ e = EventOf(Step) \/ (e = [type |-> "drizzle_failed"] /\ Step.do = "drizzle")
  BY DEF Perform
<1>6. e \in EventSet' /\ (e.type = "complete" <=> Step.do = "complete") /\ e.type # "error"
  <2>1. CASE e = [type |-> "drizzle_failed"] /\ Step.do = "drizzle"
    <3>1. e.type = "drizzle_failed" /\ e \in [type : {"drizzle_failed"}]
      BY <2>1
    <3> QED BY <2>1, <3>1 DEF EventSet
  <2>2. CASE e = EventOf(Step) /\ Step.do = "file"
    <3>1. e = [type |-> "file", path |-> Step.file.path] /\ e.type = "file"
      BY <2>2 DEF EventOf
    <3>2. Step.file.path \in DOMAIN ws'.files
      BY <1>3, <2>2 DEF Did
    <3>3. e \in [type : {"file"}, path : DOMAIN ws'.files]
      BY <3>1, <3>2
    <3> QED BY <2>2, <3>1, <3>3 DEF EventSet
  <2>3. CASE e = EventOf(Step) /\ Step.do # "file"
    <3>1. e = [type |-> Step.do] /\ e.type = Step.do
      BY <2>3 DEF EventOf
    <3>2. Step.do \in {"index", "wrangler", "package", "resolvers", "route", "drizzle_start",
                       "drizzle", "complete"}
      BY <1>2, <2>3 DEF Kinds, Edits
    <3> QED BY <3>1, <3>2 DEF EventSet
  <2> QED BY <1>5, <2>1, <2>2, <2>3
<1>7. Ordered(events') /\ Range(events') = Range(events) \cup {e}
  BY <1>1, <1>5, AppendIs
<1>8. TypeOK'
  <2>1. EventSet \subseteq EventSet'
    BY <1>3, EventsStay
  <2>2. Range(events') \subseteq EventSet' /\ screen'.last \in EventSet' \union [type : {"starting"}]
    BY <1>1, <1>6, <1>7, <2>1 DEF TypeOK
  <2>3. at' \in 0 .. Len(RunSteps')
    BY <1>1, <1>2, <1>4
  <2>4. \A p \in DOMAIN ws'.files : p[1] \in ws'.dirs
    BY <1>3 DEF WorkspaceOK
  <2>5. ColumnSet' = ColumnSet
    BY DEF ColumnSet
  <2> QED BY <1>1, <2>2, <2>3, <2>4, <2>5 DEF TypeOK, RunSteps
<1>9. Shape'
  BY <1>1, <1>3, <1>7, <1>8 DEF Shape
<1>10. RegisteredHasFiles' /\ Bound' /\ Contents'
  BY PerformRegisters, PerformBinds, PerformWrites
<1>11. Entered' /\ Fresh'
  BY <1>1 DEF Entered, EnteredNow, Fresh
<1>12. \A x \in Range(events) : ~ Final(x) /\ x.type # "complete"
  BY <1>1 DEF Progress, Final
<1>13. Progress'
  <2>1. \A i \in 1 .. at : Did(ws', command.naming, RunSteps[i])
    BY <1>1, StaysDone
  <2>2. ASSUME at' > 0  PROVE phase' = "generating" /\ \A i \in 1 .. at' - 1 : Did(ws', command'.naming, RunSteps'[i])
    <3>1. at' = at + 1
      BY <1>1, <2>2
    <3>2. at \in Nat
      BY <1>2
    <3>3. at' - 1 = at
      BY <3>1, <3>2
    <3> QED BY <1>1, <1>4, <2>1, <3>3
  <2>3. Final(e) => at' = 0
    BY <1>1, <1>6 DEF Final
  <2>4. \A x \in Range(events') : Final(x) => at' = 0
    BY <1>7, <1>12, <2>3
  <2> QED BY <2>2, <2>4 DEF Progress
<1>14. Succeeds'
  <2>1. ~ Completed
    <3>1. at # 0
      BY <1>1
    <3> QED BY <3>1 DEF IInv, Succeeds
  <2>2. Completed' => Step.do = "complete"
    BY <1>1, <1>6, <1>7, <1>12, <2>1 DEF Completed
  <2>3. ASSUME Step.do = "complete", ~ command.options.dryRun  PROVE RunComplete'
    <3>1. RunComplete
      BY <1>1, <2>3, Completes
    <3> QED BY <1>1, <1>3, <2>3, <3>1 DEF RunComplete
  <2> QED BY <1>1, <2>2, <2>3 DEF Succeeds
<1> QED BY <1>9, <1>10, <1>11, <1>13, <1>14 DEF IInv

\* So does a step that fails.
LEMMA PerformFailsKeeps == ASSUME IInv, PerformFails  PROVE IInv'
<1>1. /\ Shape /\ TypeOK /\ Entered /\ Contents /\ at > 0 /\ WorkspaceOK(ws) /\ ws' \in Remains(Step)
      /\ phase = "generating" /\ phase' = phase /\ command' = command /\ columns' = columns /\ form' = form
      /\ typed' = typed /\ since' = since /\ screen' = screen /\ at' = 0
      /\ Ordered(events) /\ at # 0
  BY DEF IInv, Shape, PerformFails, Idle
<1>2. WorkspaceOK(ws') /\ Grows(ws, ws') /\ Leaves(ws, ws')
  BY <1>1, RemainsLeaves DEF Leaves
<1>3. /\ ws'.files = ws.files /\ ws'.exports = ws.exports /\ ws'.routes = ws.routes
      /\ ws'.bindings = ws.bindings
  BY <1>2, LeavesIs
<1> DEFINE e == [type |-> "error"]
<1>4. e.type = "error" /\ e \in [type : {"error"}] /\ (events' = Append(events, e) \/ events' = <<e>>)
  BY DEF PerformFails
<1> HIDE DEF e
<1>5. Ordered(events') /\ Range(events') \subseteq Range(events) \cup {e}
  <2>1. CASE events' = Append(events, e)
    BY <1>1, <2>1, AppendIs
  <2>2. CASE events' = <<e>>
    <3>1. Ordered(<<e>>) /\ Range(<<e>>) = {e}
      BY OneIs
    <3> QED BY <2>2, <3>1
  <2> QED BY <1>4, <2>1, <2>2
<1>6. TypeOK'
  <2>1. EventSet \subseteq EventSet'
    BY <1>2, EventsStay
  <2>2. e \in EventSet'
    BY <1>4 DEF EventSet
  <2>3. Range(events') \subseteq EventSet' /\ screen'.last \in EventSet' \union [type : {"starting"}]
    BY <1>1, <1>5, <2>1, <2>2 DEF TypeOK
  <2>4. at' \in 0 .. Len(RunSteps')
    BY <1>1, AtRest DEF RunSteps
  <2>5. \A p \in DOMAIN ws'.files : p[1] \in ws'.dirs
    BY <1>2 DEF WorkspaceOK
  <2>6. ColumnSet' = ColumnSet
    BY DEF ColumnSet
  <2> QED BY <1>1, <2>3, <2>4, <2>5, <2>6 DEF TypeOK, RunSteps
<1>7. Shape'
  BY <1>1, <1>2, <1>5, <1>6 DEF Shape
<1>8. RegisteredHasFiles'
  BY <1>2, <1>3, RegisteredStays DEF IInv
<1>9. Bound'
  <2>1. Counted \subseteq Present /\ Counted' = Present'
    BY <1>1 DEF Counted, Unbound
  <2>2. Present \subseteq Present'
    BY <1>2, PresentStays
  <2> QED BY <1>1, <1>3, <2>1, <2>2, BoundStays DEF IInv
<1>10. Contents' /\ Entered' /\ Fresh'
  BY <1>1, <1>3 DEF Contents, RunFiles, Entered, EnteredNow, Fresh
<1>11. Progress'
  BY <1>1 DEF Progress
<1>12. Succeeds'
  <2>1. ~ Completed
    BY <1>1 DEF IInv, Succeeds
  <2>2. ~ Completed'
    BY <1>1, <1>4, <1>5, <2>1 DEF Completed
  <2> QED BY <2>2 DEF Succeeds
<1> QED BY <1>7, <1>8, <1>9, <1>10, <1>11, <1>12 DEF IInv

\* Nothing changes.
LEMMA StutterKeeps == ASSUME IInv, UNCHANGED vars  PROVE IInv'
<1>1. /\ ws' = ws /\ command' = command /\ phase' = phase /\ form' = form /\ columns' = columns /\ at' = at
      /\ events' = events /\ screen' = screen /\ typed' = typed /\ since' = since
  BY DEF vars
<1>2. Shape'
  BY <1>1 DEF IInv, Shape, TypeOK, EventSet, ColumnSet
<1>3. RegisteredHasFiles' /\ Contents' /\ Entered'
  BY <1>1 DEF IInv, RegisteredHasFiles, FeatureComplete, Contents, RunFiles, Entered, EnteredNow
<1>4. Bound'
  BY <1>1 DEF IInv, Bound, Counted, Unbound, Present, RunSteps
<1>5. Fresh' /\ Progress'
  BY <1>1 DEF IInv, Fresh, Progress, RunSteps
<1>6. Succeeds'
  BY <1>1 DEF IInv, Succeeds, Completed, RunComplete
<1> QED BY <1>2, <1>3, <1>4, <1>5, <1>6 DEF IInv

\* Every step preserves the invariant.
LEMMA NextKeeps == ASSUME IInv, [Next]_vars  PROVE IInv'
<1>1. CASE UNCHANGED vars
  BY <1>1, StutterKeeps
<1>2. CASE \E f \in Features, t \in Tables \union {NoTable}, o \in Options : Invoke(f, t, o)
  BY <1>2, InvokeKeeps
<1>3. CASE \E name \in Names \union {NoName} : TypeName(name)
  BY <1>3, TypeNameKeeps
<1>4. CASE \E step \in {-1, 1} : Arrow(step)
  BY <1>4, ArrowKeeps
<1>5. CASE Tab \/ Return \/ Back \/ Confirm \/ Cancel
  BY <1>5, TabKeeps, ReturnKeeps, BackKeeps, ConfirmKeeps, CancelKeeps
<1>6. CASE Perform \/ PerformFails \/ Mount \/ SendProgressUpdate \/ Acknowledge \/ Kill
  BY <1>6, PerformKeeps, PerformFailsKeeps, MountKeeps, SendProgressUpdateKeeps, AcknowledgeKeeps, KillKeeps
<1> QED BY <1>1, <1>2, <1>3, <1>4, <1>5, <1>6 DEF Next

\* Every reachable state satisfies it.
LEMMA Invariance == Spec => []IInv
<1>1. Init => IInv
  BY InitIInv
<1>2. IInv /\ [Next]_vars => IInv'
  BY NextKeeps
<1> QED BY <1>1, <1>2, PTL DEF Spec

-----------------------------------------------------------------------------
\* The theorems.

\* Wherever runs stop, the files that register features (integrations.ts) name
\* only features whose files are all written, bind a feature at most once, and
\* number the migrations in order.
THEOREM WorkspaceStaysSound == Spec => []WorkspaceSound
<1>1. ASSUME IInv  PROVE WorkspaceSound
  <2>1. TypeOK /\ RegisteredHasFiles /\ TagsAscend /\ Bound /\ WorkspaceOK(ws)
    BY <1>1 DEF IInv, Shape, WorkspaceOK, TagsAscend
  <2>2. BoundOnce
    <3>1. /\ IsFiniteSet(Present) /\ Cardinality(Counted) \in Nat /\ Counted \subseteq Present
      BY CountedIsFinite DEF Counted
    <3>2. Cardinality(Counted) <= Cardinality(Present) /\ Cardinality(Present) \in Nat
      BY <3>1, FS_Subset, FS_CardinalityType
    <3> DEFINE b == Len(ws.bindings)
               e == Len(Existing.bindings)
               k == Cardinality(Counted)
               p == Cardinality(Present)
    <3>3. b \in Nat /\ e \in Nat /\ k \in Nat /\ p \in Nat /\ b - e <= k /\ k <= p
      BY <2>1, <3>1, <3>2, BindingsAre, SpellbookAssumption DEF Bound
    <3> HIDE DEF b, e, k, p
    <3>4. b - e <= p
      BY <3>3
    <3> QED BY <3>4 DEF BoundOnce, Present, b, e, p
  <2> QED BY <2>1, <2>2 DEF WorkspaceSound
<1> QED BY <1>1, Invariance, PTL

\* The progress screen and the console list a file only when it is on disk, and
\* report success only for a run whose files and registrations are all there.
THEOREM ScreenAlwaysTellsTruth == Spec => []ScreenTellsTruth
<1>1. ASSUME IInv  PROVE ScreenTellsTruth
  <2>1. screen.last.type = "file" => screen.last.path \in DOMAIN ws.files
    BY <1>1 DEF IInv, Shape, TypeOK, EventSet
  <2>2. screen.phase = "success" /\ ~ command.options.dryRun => RunComplete
    BY <1>1 DEF IInv, Succeeds, Completed
  <2> QED BY <2>1, <2>2 DEF ScreenTellsTruth
<1> QED BY <1>1, Invariance, PTL

\* The generated files hold the columns the developer entered, all of them and
\* in order.
THEOREM AlwaysGeneratesWhatWasTyped == Spec => []GeneratesWhatWasTyped
<1>1. ASSUME IInv  PROVE GeneratesWhatWasTyped
  <2> SUFFICES ASSUME phase = "generating"
      PROVE  /\ columns = EnteredNow
             /\ \A f \in Range(PackageFiles(command.naming, EnteredNow) \o WorkerFiles(command.naming, EnteredNow)) :
                  f.path \in DOMAIN ws.files => ws.files[f.path] = f.content
    BY DEF GeneratesWhatWasTyped
  <2>1. columns = EnteredNow /\ Contents
    BY <1>1 DEF IInv, Entered
  <2> DEFINE own == PackageFiles(command.naming, columns) \o WorkerFiles(command.naming, columns)
  <2>2. /\ Range(own) \subseteq Range(RunFiles)
        /\ \A f \in Range(own) : f.path[1] \in Own(command.naming.feature)
    BY FilesAre DEF RunFiles
  <2>3. \A f \in Range(own) : f.path \in DOMAIN ws.files => ws.files[f.path] = f.content
    BY <2>1, <2>2 DEF Contents
  <2> QED BY <2>1, <2>3
<1> QED BY <1>1, Invariance, PTL

\* What a step leaves alone (RunsOnlyAdd).
OnlyAdds ==
  /\ \A p \in DOMAIN ws.files : p[1] \in OwnDirs => ws'.files[p] = ws.files[p]
  /\ command'.options.dryRun => UNCHANGED ws

\* The shared directories are no feature's.
LEMMA OwnDirsAre == ASSUME NEW d \in OwnDirs  PROVE d \notin {<<"test">>, <<"resolvers">>}
  BY DirsDiffer DEF OwnDirs, Own

\* Every step leaves the files of features alone.
LEMMA NextOnlyAdds == ASSUME IInv, Next  PROVE OnlyAdds
<1>0. WorkspaceOK(ws)
  BY DEF IInv, Shape
<1>1. CASE UNCHANGED ws
  BY <1>1 DEF OnlyAdds
<1>2. CASE Perform
  <2>1. /\ Shape /\ Progress /\ at > 0 /\ ws' = Effect(Step) /\ command' = command
    BY <1>2 DEF IInv, Perform, Idle
  <2>2. Step.do \in Kinds /\ (command.options.dryRun => Step.do = "complete")
    BY <2>1, StepIs
  <2>3. Step.do = "complete" => ws' = ws
    BY <1>0, <2>1, <2>2, EffectIs
  <2>4. ASSUME NEW p \in DOMAIN ws.files, p[1] \in OwnDirs  PROVE ws'.files[p] = ws.files[p]
    <3>1. p[1] \notin {<<"test">>, <<"resolvers">>}
      BY <2>4, OwnDirsAre
    <3> QED BY <1>2, <3>1, PerformWrites
  <2> QED BY <2>1, <2>2, <2>3, <2>4 DEF OnlyAdds
<1>3. ASSUME at > 0, ws' \in Remains(Step), command' = command  PROVE OnlyAdds
  <2>1. Shape /\ Progress
    BY DEF IInv
  <2>2. command.options.dryRun => Step.do = "complete"
    BY <1>3, <2>1, StepIs
  <2>3. (Step.do # "file" => ws' = ws) /\ Leaves(ws, ws')
    BY <1>0, <1>3, RemainsIs, RemainsLeaves
  <2>4. ws'.files = ws.files
    BY <2>3, LeavesIs
  <2> QED BY <1>3, <2>2, <2>3, <2>4 DEF OnlyAdds
<1>4. CASE PerformFails
  BY <1>3, <1>4 DEF PerformFails, Idle
<1>5. CASE Kill
  BY <1>1, <1>3, <1>5 DEF Kill, Exit
<1>6. CASE \/ \E f \in Features, t \in Tables \union {NoTable}, o \in Options : Invoke(f, t, o)
           \/ \E name \in Names \union {NoName} : TypeName(name)
           \/ \E step \in {-1, 1} : Arrow(step)
  BY <1>1, <1>6 DEF Invoke, TypeName, Arrow, Unwritten
<1>7. CASE Tab \/ Return \/ Back \/ Confirm \/ Cancel \/ Mount \/ SendProgressUpdate \/ Acknowledge
  BY <1>1, <1>7 DEF Tab, Return, Back, Confirm, Cancel, Mount, SendProgressUpdate, Acknowledge,
                    AddColumn, Unwritten
<1> QED BY <1>2, <1>4, <1>5, <1>6, <1>7 DEF Next

\* A run never changes a file in the directories of a feature that an earlier
\* run wrote, and a dry run changes nothing at all.
THEOREM RunsAlwaysOnlyAdd == Spec => RunsOnlyAdd
<1>1. IInv /\ [Next]_vars => [OnlyAdds]_vars
  BY NextOnlyAdds
<1>2. Spec => [][OnlyAdds]_vars
  BY <1>1, Invariance, PTL DEF Spec
<1> QED BY <1>2 DEF RunsOnlyAdd, OnlyAdds
=============================================================================
