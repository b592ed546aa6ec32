-------------------------- MODULE MCPrometheusDoc --------------------------
(***************************************************************************)
(* Model-checking instances of PrometheusDoc.  Metric names are the ones   *)
(* pgexporter exports, in words: two core metrics and one of every         *)
(* extension family.  A metric appears in a scrape as a HELP line, a TYPE  *)
(* line and a sample line, as in the exporter's output.                    *)
(***************************************************************************)
EXTENDS PrometheusDoc

CoreNames == {<<"pgexporter", "state">>, <<"pgexporter", "database", "size">>}

ExtensionNames ==
  {<<"pgexporter", "pg", "stat", "statements", "calls">>,
   <<"pgexporter", "pg", "buffercache", "hits">>,
   <<"pgexporter", "pgcrypto", "calls">>,
   <<"pgexporter", "postgis", "geometry", "columns">>,
   <<"pgexporter", "postgis", "raster", "size">>,
   <<"pgexporter", "postgis", "topology", "edges">>,
   <<"pgexporter", "timescaledb", "chunks">>,
   <<"pgexporter", "vector", "index", "size">>,
   <<"pgexporter", "pgexporter", "ext", "cpu">>}

Help(n, form) == [kind |-> "help", form |-> form, name |-> n, text |-> TRUE]
TypeLine(n) == [kind |-> "type", form |-> "nospace", name |-> n, text |-> TRUE]
Sample(n, label) == [kind |-> "sample", name |-> n, label |-> label]
Blank == [kind |-> "blank"]

\* how pgexporter writes a metric: "#HELP n t", "#TYPE n gauge", a sample
Block(n, label) == <<Help(n, "nospace"), TypeLine(n), Sample(n, label)>>

Labels == {"postgres", "other"}

\* one or two metrics, in either order, an unreachable exporter and a blank
\* scrape
SectionScrapes ==
  {Absent, <<Blank>>}
  \cup {Block(a, la) : a \in CoreNames \cup ExtensionNames, la \in Labels}
  \cup {Block(a, "other") \o Block(b, "postgres") :
          a, b \in CoreNames \cup ExtensionNames}

\* every command line but --toc alone, with the default
SectionFlags == {{}, {"manual"}, {"md"}, {"html", "toc"}, {"manual", "html"}}

\* extra-info files: headers of the two metrics, with and without text after
\* the name, "+ " lines and "* " lines with an attribute key ("database")
\* or a value key ("1"), up to four lines
C == <<"pgexporter", "state">>
E == <<"pgexporter", "postgis", "raster", "size">>

ExtraLines ==
  {[kind |-> "header", name |-> n, trail |-> t] : n \in {C, E}, t \in BOOLEAN}
  \cup {[kind |-> "desc", text |-> <<d>>] : d \in {"d1", "d2"}}
  \cup {[kind |-> "detail", key |-> k] : k \in {<<"a">>, <<"d">>}}

\* every scrape with no or a missing extra-info file, and one scrape of the
\* two metrics with every extra-info file
DocInputs ==
  (SectionScrapes \X {<<>>, Absent})
  \cup ({Block(C, "postgres") \o Block(E, "other")} \X BoundedSeq(ExtraLines, 4))

\* pgexporter_database and pgexporter_database_size, the longer one labelled
\* with database="postgres"
PrefixScrapes ==
  {Block(<<"pgexporter", "database">>, "other")
   \o Block(<<"pgexporter", "database", "size">>, "postgres")}

SingleScrape == {Block(C, "postgres")}

Without(scrapes) == scrapes \X {<<>>}

PrefixInputs == Without(PrefixScrapes)

SingleInputs == Without(SingleScrape)

DetailedFlags == {{"md"}}

\* no output file yet, or every one left by an earlier run
NoPriorDocs == {[f \in FileNames |-> Absent]}
PriorDocs == NoPriorDocs \cup {[f \in FileNames |-> Old]}

TocOnly == {{"toc"}}

=============================================================================
