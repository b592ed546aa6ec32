---------------------------- MODULE PrometheusDoc ----------------------------
(***************************************************************************)
(* contrib/prometheus_scrape/prometheus.py: fetch a scrape of the          *)
(* exporter, read the extra-info file, walk the scrape line by line        *)
(* collecting one entry per HELP line (its TYPE, its best sample line, its *)
(* extra description), split the entries into core and extension metrics  *)
(* and write them out as markdown/HTML or as the three manual files.       *)
(*                                                                         *)
(* Data abstraction.  A metric name is the sequence of its '_'-separated   *)
(* words, so str.startswith(p + '_') is a strict word prefix and           *)
(* `w + '_' in name` a run of words followed by another word.  Scrape      *)
(* lines are records: HELP and TYPE lines in the form "#HELP n" (form      *)
(* "nospace") or "# HELP n" ("space"), sample lines with a database label  *)
(* "postgres", another label, or none, and blank lines.  Extra-info lines  *)
(* are headers (with or without text after the name), "+ " description    *)
(* lines, "* " detail lines and other lines.  A written file is the        *)
(* sequence of the metric sections it holds; headings, the table of        *)
(* contents, the attribute tables and the markup are left out.             *)
(* A file may also hold what an earlier run left (Old), or a prefix of its *)
(* text when a write into it raised after open(name, 'w') truncated it     *)
(* (Torn); an exception in the writes is not caught and ends the run with  *)
(* status 1.                                                               *)
(***************************************************************************)
EXTENDS Integers, Sequences, SequencesExt, FiniteSets

CONSTANTS
  Absent,     \* a scrape that cannot be fetched, a missing extra-info file
  None,       \* Python None
  Inputs,     \* the (scrape, extra-info file) pairs a run may be given;
              \* each is a sequence of lines, or Absent
  FlagSets,   \* the sets of command-line flags among manual, toc, md, html
  Old,        \* a file left by an earlier run
  Torn,       \* a file truncated by a write that raised
  PriorFiles, \* the contents the output files may have before the run
  WriteFailures \* TRUE: a write into an output file may raise

VARIABLES
  scrape, extra, flags,
  extra_info,  \* parse_extra_info(extra)
  pc,          \* "start", "scan", "write", "done"
  i,           \* cursor of the scan loop
  core, ext,   \* core_metrics, extension_metrics
  files,       \* [FileNames -> sections or Absent]
  exit_code

vars == <<scrape, extra, flags, extra_info, pc, i, core, ext, files, exit_code>>

FileNames == {"prometheus.md", "prometheus.html", "extensions.md",
              "pgexporter_ext.md"}

\* str.startswith(prefix) for a prefix that ends in '_'
StartsWith(p, n) == Len(p) < Len(n) /\ IsPrefix(p, n)

\* `word + '_' in name`
HasWord(w, n) == \E k \in 0..Len(n) - Len(w) - 1 : SubSeq(n, k + 1, k + Len(w)) = w

(***************************************************************************)
(* is_extension_metric                                                     *)
(***************************************************************************)
ExtensionPrefixes ==
  {<<"pgexporter", "pg", "buffercache">>, <<"pgexporter", "pgcrypto">>,
   <<"pgexporter", "pg", "stat", "statements">>,
   <<"pgexporter", "postgis", "raster">>, <<"pgexporter", "postgis", "topology">>,
   <<"pgexporter", "postgis">>, <<"pgexporter", "timescaledb">>,
   <<"pgexporter", "vector">>, <<"pgexporter", "pgexporter", "ext">>}

is_extension_metric(n) == \E p \in ExtensionPrefixes : StartsWith(p, n)

(***************************************************************************)
(* parse_extra_info: a dict keyed by the whole (rstripped) header line,    *)
(* assigned when the next header or the end of the file is reached, so a   *)
(* later header of the same line overwrites an earlier one.  A block keeps  *)
(* its "+ " lines (the description) and its "* " lines (the details).      *)
(***************************************************************************)
\* the rstripped line: the name, then a space and more text when trail is set
HeaderKey(l) == IF l.trail THEN l.name \o <<" ", "text">> ELSE l.name

\* Mutant: a repeated header keeps its first description.
SavedBlock(st) == [description |-> st.desc, details |-> st.det]

SaveFirstWins(st) ==
  IF st.cur = None THEN st.metrics ELSE st.metrics @@ (st.cur :> SavedBlock(st))

SaveCurrent(st) ==
  IF st.cur = None THEN st.metrics ELSE (st.cur :> SavedBlock(st)) @@ st.metrics

ExtraStep(st, l) ==
  CASE l.kind = "header" -> [metrics |-> SaveCurrent(st), cur |-> HeaderKey(l),
                             desc |-> <<>>, det |-> <<>>]
    [] l.kind = "desc"   -> [st EXCEPT !.desc = Append(@, l.text)]
    [] l.kind = "detail" -> [st EXCEPT !.det = Append(@, l)]
    [] OTHER             -> st

parse_extra_info(ls) ==
  SaveCurrent(FoldLeft(ExtraStep, [metrics |-> <<>>, cur |-> None, desc |-> <<>>,
                                   det |-> <<>>], ls))

NoExtra == [description |-> <<>>, details |-> <<>>]

\* extra_info.get(name, {'description': '', 'details': ''})
ExtraFor(ei, n) == IF n \in DOMAIN ei THEN ei[n] ELSE NoExtra

(***************************************************************************)
(* extract_attributes_and_values_from_details: the "* key: text" lines,    *)
(* split by whether the key matches ^\d+(\.\d+)?$.  A key is a sequence   *)
(* of character classes: "d" a digit, "." a dot, "a" anything else; a "* " *)
(* line without a colon has the key None and is dropped.                   *)
(***************************************************************************)
IsNumber(k) ==
  /\ Range(k) \subseteq {"d", "."}
  /\ k[1] = "d" /\ k[Len(k)] = "d"
  /\ Cardinality({j \in DOMAIN k : k[j] = "."}) <= 1

extract_attributes_and_values_from_details(det) ==
  [attributes |-> SelectSeq(det, LAMBDA l : l.key # None /\ ~IsNumber(l.key)),
   values     |-> SelectSeq(det, LAMBDA l : l.key # None /\ IsNumber(l.key))]

(***************************************************************************)
(* find_best_example: the first line starting with the name that has the   *)
(* highest priority, 2 for database="postgres" and 1 otherwise.  Only      *)
(* sample lines can start with a metric name.                              *)
(***************************************************************************)
Priority(l) == IF l.label = "postgres" THEN 2 ELSE 1

find_best_example(n, content) ==
  LET match == {k \in DOMAIN content :
                  content[k].kind = "sample" /\ IsPrefix(n, content[k].name)}
      best  == {k \in match : \A j \in match :
                  Priority(content[j]) < Priority(content[k])
                  \/ (Priority(content[j]) = Priority(content[k]) /\ k <= j)}
  IN  IF match = {} THEN None ELSE content[CHOOSE k \in best : TRUE]

(***************************************************************************)
(* The scan of one HELP line.  A line is split on spaces into at most      *)
(* three parts; a word is a name (a sequence of segments), a keyword or    *)
(* the text "t".  "#HELP n t" gives the name n, "# HELP n t" the name      *)
(* HELP; a HELP line of fewer than three parts is skipped.  The TYPE is    *)
(* the third part of the next line when it matches ^#\s*TYPE\s+<name>,    *)
(* which is a prefix match on the name.                                    *)
(***************************************************************************)
Words(l) ==
  (IF l.form = "nospace" THEN <<<<"#" \o l.kind>>>> ELSE <<<<"#">>, <<l.kind>>>>)
  \o <<l.name>> \o (IF l.text THEN <<<<"t">>>> ELSE <<>>)

\* line.split(' ', 2)
Split2(ws) == IF Len(ws) < 3 THEN ws ELSE <<ws[1], ws[2], SubSeq(ws, 3, Len(ws))>>

Parts(l) == Split2(Words(l))

TypeAfter(content, k, n) ==
  IF /\ k + 1 <= Len(content)
     /\ content[k + 1].kind = "type" /\ IsPrefix(n, content[k + 1].name)
     /\ Len(Parts(content[k + 1])) >= 3
  THEN Parts(content[k + 1])[3] ELSE <<<<"unknown">>>>

Entry(content, k, ei) ==
  LET n == Parts(content[k])[2] IN
  [name |-> n, help |-> Parts(content[k])[3], type |-> TypeAfter(content, k, n),
   extra |-> ExtraFor(ei, n), example |-> find_best_example(n, content)]

(***************************************************************************)
(* Output.  The description of a section is the cleaned extra description *)
(* or, when there is none, the HELP text.                                  *)
(***************************************************************************)
Described(m) == IF m.extra.description = <<>> THEN m.help ELSE m.extra.description

\* the attributes table of the markdown and HTML sections: no values column
generate_markdown_metric(m) ==
  [name |-> m.name, desc |-> Described(m), type |-> m.type, example |-> m.example,
   table |-> extract_attributes_and_values_from_details(m.extra.details).attributes]

generate_html_metric(m) ==
  [name |-> m.name, desc |-> Described(m), type |-> m.type, example |-> m.example,
   table |-> extract_attributes_and_values_from_details(m.extra.details).attributes]

\* the row the manual table gets when the details define values only
ServerRow == [kind |-> "server", key |-> <<"a">>]

\* Mutant: no server row is added, so there is no row to carry the values.
NoServerFallback(m) ==
  extract_attributes_and_values_from_details(m.extra.details).attributes

\* the attributes of the manual table (lines 303-307)
ManualAttributes(m) ==
  LET av == extract_attributes_and_values_from_details(m.extra.details) IN
  IF av.attributes = <<>> /\ av.values # <<>> /\ StartsWith(<<"pgexporter">>, m.name)
  THEN <<ServerRow>> ELSE av.attributes

\* a table row per attribute, the values in the first row's values cell
generate_manual_metric(m, section) ==
  LET values == extract_attributes_and_values_from_details(m.extra.details).values
      attrs  == ManualAttributes(m)
  IN  [name |-> m.name, desc |-> Described(m), section |-> section,
       table |-> [j \in DOMAIN attrs |->
                   [attr |-> attrs[j], values |-> IF j = 1 THEN values ELSE <<>>]]]

\* the extensions dict of generate_manual_documentation, in insertion order
SectionOrder == <<"pg_stat_statements", "pg_buffercache", "pgcrypto", "postgis",
                  "postgis_raster", "postgis_topology", "timescaledb", "vector">>

\* Mutant: the plain postgis test comes before the raster and topology ones.
DispatchPostgisFirst ==
  <<[section |-> "pg_stat_statements", word |-> <<"pg", "stat", "statements">>],
    [section |-> "pg_buffercache", word |-> <<"pg", "buffercache">>],
    [section |-> "pgcrypto", word |-> <<"pgcrypto">>],
    [section |-> "postgis", word |-> <<"postgis">>],
    [section |-> "postgis_raster", word |-> <<"postgis", "raster">>],
    [section |-> "postgis_topology", word |-> <<"postgis", "topology">>],
    [section |-> "timescaledb", word |-> <<"timescaledb">>],
    [section |-> "vector", word |-> <<"vector">>]>>

\* the elif chain that puts a metric into a section, in the order of tests
Dispatch ==
  <<[section |-> "pg_stat_statements", word |-> <<"pg", "stat", "statements">>],
    [section |-> "pg_buffercache", word |-> <<"pg", "buffercache">>],
    [section |-> "pgcrypto", word |-> <<"pgcrypto">>],
    [section |-> "postgis_raster", word |-> <<"postgis", "raster">>],
    [section |-> "postgis_topology", word |-> <<"postgis", "topology">>],
    [section |-> "postgis", word |-> <<"postgis">>],
    [section |-> "timescaledb", word |-> <<"timescaledb">>],
    [section |-> "vector", word |-> <<"vector">>]>>

SectionOf(n) ==
  LET k == SelectInSeq(Dispatch, LAMBDA e : HasWord(e.word, n))
  IN  IF k = 0 THEN None ELSE Dispatch[k].section

IsOwnExtension(m) == StartsWith(<<"pgexporter", "pgexporter", "ext">>, m.name)

generate_manual_documentation(cms, ems) ==
  LET others == SelectSeq(ems, LAMBDA m : ~IsOwnExtension(m))
      own    == SelectSeq(ems, IsOwnExtension)
      inSection(s) == SelectSeq(others, LAMBDA m : SectionOf(m.name) = s)
  IN  [prometheus_md |-> [k \in DOMAIN cms |-> generate_manual_metric(cms[k], "core")],
       extensions_md |-> FlattenSeq([s \in DOMAIN SectionOrder |->
                           [k \in DOMAIN inSection(SectionOrder[s]) |->
                              generate_manual_metric(inSection(SectionOrder[s])[k], SectionOrder[s])]]),
       own_md        |-> [k \in DOMAIN own |-> generate_manual_metric(own[k], "pgexporter_ext")]]

\* core metrics, then extension metrics, one section each
generate_markdown_documentation(cms, ems) ==
  [k \in DOMAIN (cms \o ems) |-> generate_markdown_metric((cms \o ems)[k])]

generate_html_documentation(cms, ems) ==
  [k \in DOMAIN (cms \o ems) |-> generate_html_metric((cms \o ems)[k])]

-----------------------------------------------------------------------------
Init ==
  /\ \E pair \in Inputs : scrape = pair[1] /\ extra = pair[2]
  /\ flags \in FlagSets
  /\ extra_info = <<>>
  /\ pc = "start"
  /\ i = 1
  /\ core = <<>> /\ ext = <<>>
  /\ files \in PriorFiles
  /\ exit_code = None

\* Mutant: the output flags are not defaulted when none is given.
StartNoDefaults ==
  /\ pc = "start"
  /\ flags' = flags
  /\ IF \/ scrape = Absent
        \/ \A k \in DOMAIN scrape : scrape[k].kind = "blank"
        \/ extra = Absent
       THEN pc' = "done" /\ exit_code' = 1 /\ UNCHANGED extra_info
       ELSE pc' = "scan" /\ extra_info' = parse_extra_info(extra)
            /\ UNCHANGED exit_code
  /\ UNCHANGED <<scrape, extra, i, core, ext, files>>

\* Lines 190-213: default flags, fetch, the empty-scrape and missing-file
\* checks, and the parse of the extra-info file.
Start ==
  /\ pc = "start"
  /\ flags' = IF flags \cap {"manual", "toc", "md", "html"} = {}
              THEN {"md", "html", "toc"} ELSE flags
  /\ IF \/ scrape = Absent
        \/ \A k \in DOMAIN scrape : scrape[k].kind = "blank"
        \/ extra = Absent
       THEN pc' = "done" /\ exit_code' = 1 /\ UNCHANGED extra_info
       ELSE pc' = "scan" /\ extra_info' = parse_extra_info(extra)
            /\ UNCHANGED exit_code
  /\ UNCHANGED <<scrape, extra, i, core, ext, files>>

\* One iteration of the while loop (lines 222-260).
Scan ==
  /\ pc = "scan"
  /\ i <= Len(scrape)
  /\ IF scrape[i].kind = "help" /\ Len(Parts(scrape[i])) >= 3
       THEN LET m == Entry(scrape, i, extra_info) IN
            IF is_extension_metric(m.name)
              THEN ext' = Append(ext, m) /\ UNCHANGED core
              ELSE core' = Append(core, m) /\ UNCHANGED ext
       ELSE UNCHANGED <<core, ext>>
  /\ i' = i + 1
  /\ UNCHANGED <<scrape, extra, flags, extra_info, pc, files, exit_code>>

\* the files main writes, in the order it opens them (lines 262-272)
WriteOrder(fl) ==
  IF "manual" \in fl
  THEN <<"prometheus.md", "extensions.md", "pgexporter_ext.md">>
  ELSE SelectSeq(<<"prometheus.md", "prometheus.html">>,
                 LAMBDA f : \/ f = "prometheus.md" /\ "md" \in fl
                            \/ f = "prometheus.html" /\ "html" \in fl)

\* what each of them is given
Output(fl, cms, ems) ==
  LET man == generate_manual_documentation(cms, ems) IN
  IF "manual" \in fl
  THEN [f \in FileNames |->
          CASE f = "prometheus.md"     -> man.prometheus_md
            [] f = "extensions.md"     -> man.extensions_md
            [] OTHER                   -> man.own_md]
  ELSE [f \in FileNames |->
          IF f = "prometheus.md" THEN generate_markdown_documentation(cms, ems)
          ELSE generate_html_documentation(cms, ems)]

\* Mutant: the exit status counts the documented metrics.
WriteExitCount(fail, torn) ==
  /\ pc = "scan"
  /\ i > Len(scrape)
  /\ files' = files
  /\ pc' = "done"
  /\ exit_code' = Len(core) + Len(ext)
  /\ UNCHANGED <<scrape, extra, flags, extra_info, i, core, ext>>

\* Mutant: an exception in a write is caught and reported, and main goes
\* on to exit 0.
WriteSwallowsError(fail, torn) ==
  LET ord == WriteOrder(flags)
      out == Output(flags, core, ext)
      Done(f) == \E k \in DOMAIN ord : ord[k] = f /\ (fail = 0 \/ k # fail)
  IN
  /\ pc = "scan"
  /\ i > Len(scrape)
  /\ fail \in 0..Len(ord)
  /\ torn => fail # 0
  /\ files' = [f \in FileNames |->
                IF Done(f) THEN out[f]
                ELSE IF torn /\ ord[fail] = f THEN Torn ELSE files[f]]
  /\ pc' = "done"
  /\ exit_code' = 0
  /\ UNCHANGED <<scrape, extra, flags, extra_info, i, core, ext>>

\* Lines 262-287: the manual files, or the markdown and HTML files, one
\* after the other.  `fail` is 0, or the position of the first write that
\* raises (torn: after truncating the file); the files before it are
\* written, those after it untouched, and the exception ends the run.
Write(fail, torn) ==
  LET ord == WriteOrder(flags)
      out == Output(flags, core, ext)
      Done(f) == \E k \in DOMAIN ord : ord[k] = f /\ (fail = 0 \/ k < fail)
  IN
  /\ pc = "scan"
  /\ i > Len(scrape)
  /\ fail \in 0..Len(ord)
  /\ torn => fail # 0
  /\ files' = [f \in FileNames |->
                IF Done(f) THEN out[f]
                ELSE IF torn /\ ord[fail] = f THEN Torn ELSE files[f]]
  /\ pc' = "done"
  /\ exit_code' = IF fail = 0 THEN 0 ELSE 1
  /\ UNCHANGED <<scrape, extra, flags, extra_info, i, core, ext>>

Failures == IF WriteFailures THEN 0..3 ELSE {0}

Next == Start \/ Scan \/ \E fail \in Failures, torn \in BOOLEAN : Write(fail, torn)

Spec == Init /\ [][Next]_vars /\ WF_vars(Next)

-----------------------------------------------------------------------------
(***************************************************************************)
(* What the documentation should say, stated over the inputs.              *)
(***************************************************************************)
HelpLines == SelectSeq(scrape, LAMBDA l : l.kind = "help")

\* the metric each HELP line of the scrape announces
HelpNames == [k \in DOMAIN HelpLines |-> HelpLines[k].name]

NamesIn(doc) == [k \in DOMAIN doc |-> doc[k].name]

\* contents that are not documentation written by this run
Unwritten == {Absent, Old, Torn}

\* the files the command line asks for: --manual, or --md and --html
Requested ==
  IF "manual" \in flags
  THEN {"prometheus.md", "extensions.md", "pgexporter_ext.md"}
  ELSE {f \in {"prometheus.md", "prometheus.html"} :
          \/ f = "prometheus.md" /\ "md" \in flags
          \/ f = "prometheus.html" /\ "html" \in flags}

Detailed == {f \in {"prometheus.md", "prometheus.html"} : files[f] \notin Unwritten}

\* the documentation sets asked for: the three manual files together, or
\* each of prometheus.md and prometheus.html
DocSets ==
  IF "manual" \in flags
  THEN {files["prometheus.md"] \o files["extensions.md"] \o files["pgexporter_ext.md"]}
  ELSE {files[f] : f \in Requested}

\* the section of the longest extension prefix of a name, e.g. postgis_raster
PrefixSection(n) ==
  LET p == CHOOSE p \in ExtensionPrefixes :
             StartsWith(p, n) /\ \A q \in ExtensionPrefixes : StartsWith(q, n) => Len(q) <= Len(p)
  IN  FoldLeft(LAMBDA a, w : IF a = "" THEN w ELSE a \o "_" \o w, "", Tail(p))

IsExtension(n) == \E p \in ExtensionPrefixes : StartsWith(p, n)

\* the "+ " lines under the last header that is exactly the metric's name
DescTexts(s) ==
  LET d == SelectSeq(s, LAMBDA l : l.kind = "desc") IN [j \in DOMAIN d |-> d[j].text]

\* the lines under the last header that is exactly the metric's name
SpecBlock(n) ==
  LET hs == {k \in DOMAIN extra : extra[k].kind = "header" /\ ~extra[k].trail
                                  /\ extra[k].name = n}
  IN  IF hs = {} THEN <<>>
      ELSE LET h    == Max(hs)
               stop == Min({k \in DOMAIN extra : k > h /\ extra[k].kind = "header"}
                           \cup {Len(extra) + 1})
           IN  SubSeq(extra, h + 1, stop - 1)

SpecDescription(n) == DescTexts(SpecBlock(n))

\* its "* key: text" lines
SpecDetails(n) == SelectSeq(SpecBlock(n), LAMBDA l : l.kind = "detail" /\ l.key # None)

Docs == UNION {{files[f][k] : k \in DOMAIN files[f]} : f \in {f \in FileNames : files[f] \notin Unwritten}}

\* The program's variables keep their types; a run ends with status 0 or 1.
TypeOK ==
  /\ pc \in {"start", "scan", "done"}
  /\ flags \subseteq {"manual", "toc", "md", "html"}
  /\ i \in Nat \ {0}
  /\ exit_code \in {None, 0, 1}
  /\ \A f \in FileNames : files[f] \in Unwritten \/ files[f] \in Seq(Docs)

\* main() exits 0 only when the command line asks for some documentation,
\* every file it asks for holds this run's documentation (none is left
\* from an earlier run or half written: the three manual files are written
\* one after the other), and every set documents each metric of the
\* scrape as often as a HELP line announces it: no metric is lost by the
\* HELP parsing, the core/extension split or the section dispatch.
DocumentsEveryMetric ==
  pc = "done" /\ exit_code = 0 =>
    /\ Requested # {}
    /\ \A f \in Requested : files[f] \notin Unwritten
    /\ \A d \in DocSets : ToBag(NamesIn(d)) = ToBag(HelpNames)

\* In manual mode, generate_manual_documentation puts every metric where its
\* is_extension_metric prefix says it belongs: core metrics in
\* prometheus.md, pgexporter_ext metrics in pgexporter_ext.md, and every
\* other extension metric in extensions.md under the section of its longest
\* prefix, although the sections are chosen by a chain of substring tests.
ManualSectionsByPrefix ==
  pc = "done" /\ exit_code = 0 /\ "manual" \in flags =>
    /\ \A k \in DOMAIN files["prometheus.md"] : ~IsExtension(files["prometheus.md"][k].name)
    /\ \A k \in DOMAIN files["extensions.md"] :
         LET d == files["extensions.md"][k] IN
         IsExtension(d.name) /\ d.section = PrefixSection(d.name)
         /\ d.section # "pgexporter_ext"
    /\ \A k \in DOMAIN files["pgexporter_ext.md"] :
         PrefixSection(files["pgexporter_ext.md"][k].name) = "pgexporter_ext"

\* Every documented metric carries the description of the extra-info
\* header that names it (the last one, when the name repeats), and the HELP
\* text when there is none: parse_extra_info's save on the next header and
\* at the end of the file, keyed by the header line.
ExtraInfoAttached ==
  \A d \in Docs :
    d.desc = IF SpecDescription(d.name) = <<>> THEN <<<<"t">>>> ELSE SpecDescription(d.name)

\* The example shown for a metric is a sample line of that metric, not of
\* another metric whose name it prefixes (find_best_example).
ExampleIsOwnSample ==
  \A f \in Detailed : \A k \in DOMAIN files[f] :
    files[f][k].example = None \/ files[f][k].example.name = files[f][k].name

\* Every "* key: text" line of a metric's extra-info block shows in its
\* section of the manual files: the attribute lines as the table's rows, in
\* order, and the value lines (a numeric key) each once, in order, in the
\* values cell of the first row.  When the block defines values only,
\* generate_manual_metric adds a server row to carry them; without it the
\* values loop over the attribute rows would drop them.
ManualTablesKeepDetails ==
  "manual" \in flags =>
    \A f \in {"prometheus.md", "extensions.md", "pgexporter_ext.md"} :
      files[f] \notin Unwritten =>
        \A k \in DOMAIN files[f] :
          LET d    == files[f][k]
              det  == SpecDetails(d.name)
              rows == [j \in DOMAIN d.table |-> d.table[j].attr]
          IN  /\ SelectSeq(rows, LAMBDA r : r # ServerRow)
                   = SelectSeq(det, LAMBDA l : ~IsNumber(l.key))
              /\ FlattenSeq([j \in DOMAIN d.table |-> d.table[j].values])
                   = SelectSeq(det, LAMBDA l : IsNumber(l.key))

=============================================================================
