--------------------------- MODULE GenerateContrib --------------------------
(***************************************************************************)
(* main() of scripts/generate_contrib.py: one run of the generator, in     *)
(* generate mode (write contrib/yaml and contrib/json) or in check mode    *)
(* (write into a fresh scratch directory and compare with the committed   *)
(* files), over the loop of SupportedVersions.                             *)
(*                                                                         *)
(* A file's bytes are abstracted to [format, body, eol]: the artifact it   *)
(* serializes (or one of no version for any other content) and its line ending.      *)
(* check_file_diff reads both files in text mode, which turns CRLF into    *)
(* LF before comparing; ReadText models that translation.                  *)
(***************************************************************************)
EXTENDS ContribMetrics

CONSTANTS
  SupportedVersions,  \* SUPPORTED_VERSIONS, a sequence of integers
  Documents,          \* the superset documents the run may be given
  Modes,              \* subset of {"generate", "check"}
  FormatFlags,        \* subset of {"both", "yaml_only", "json_only", "conflict"}
  FileKinds,          \* what a committed file may hold before the run
  IOFailures,         \* TRUE: any write may raise (disk full, permissions)
  MaxRuns             \* how many invocations of the script one behaviour makes

ASSUME IsInjective(SupportedVersions)
ASSUME FileKinds \subseteq {"missing", "fresh", "stale", "crlf"}

VARIABLES
  data,        \* the parsed superset document
  mode,        \* args.check ? "check" : "generate"
  fmt,         \* --yaml-only / --json-only / both flags ("conflict") / none
  pc,          \* "start", "loop" (inside the versions loop), "done"
  vi,          \* index into SupportedVersions of the next loop iteration
  committed,   \* [Paths -> file]: contrib/yaml and contrib/json
  has_diffs,
  diff_paths,  \* sequence of paths, in the order they were appended
  exit_code,   \* None until sys.exit
  artifacts,   \* history: the output_data of each iteration, None if not yet
  runs         \* invocations so far, bounded by MaxRuns

vars == <<data, mode, fmt, pc, vi, committed, has_diffs, diff_paths,
          exit_code, artifacts, runs>>

Formats == {"yaml", "json"}
Versions == Range(SupportedVersions)
Paths == Formats \X Versions

Serialize(f, artifact) == [format |-> f, body |-> artifact, eol |-> "LF"]
\* any other content: an artifact of no supported version
Stale(f) == [format |-> f, body |-> [version |-> -1, metrics |-> <<>>],
             eol |-> "LF"]
\* what open(path, 'w') leaves when the dump into it raises: the file was
\* truncated and holds a prefix of the serialization, no artifact at all
Torn(f) == [format |-> f, body |-> [version |-> -2, metrics |-> <<>>],
            eol |-> "LF"]
\* open(path, 'r').read(): universal newlines turn CRLF into LF
ReadText(file) == [file EXCEPT !.eol = "LF"]

Fresh(d, p) == Serialize(p[1], generate_for_version(d, p[2]))

InitialFile(d, p, k) ==
  CASE k = "missing" -> Absent
    [] k = "stale"   -> Stale(p[1])
    [] k = "fresh"   -> Fresh(d, p)
    [] k = "crlf"    -> [Fresh(d, p) EXCEPT !.eol = "CRLF"]

\* an invalid document was never generated from, so nothing holds its output
KindsFor(d) == IF validate_schema(d) = Ok THEN FileKinds
               ELSE FileKinds \ {"fresh", "crlf"}

\* the formats the run writes: `if not args.json_only` / `if not args.yaml_only`
Selected(flag) ==
  {f \in Formats : ~(f = "yaml" /\ flag = "json_only")
                   /\ ~(f = "json" /\ flag = "yaml_only")}

(***************************************************************************)
(* check_file_diff                                                         *)
(***************************************************************************)
\* Mutant: a missing committed file is not counted as a difference.
CheckDiffIgnoresMissing(generated, existing) ==
  existing # Absent /\ ReadText(generated) # ReadText(existing)

check_file_diff(generated, existing) ==
  existing = Absent \/ ReadText(generated) # ReadText(existing)

(***************************************************************************)
(* Lines 395-404: check mode writes into a scratch directory, generate     *)
(* mode into contrib/ itself.                                              *)
(***************************************************************************)
\* Mutant: check mode also writes into contrib/.
AlwaysIntoContrib(m) == TRUE

WritesCommitted(m) == m = "generate"

\* the directory the writers write into: contrib/ itself, or the empty
\* directory tempfile.mkdtemp has just created
OutputDir(files) == IF WritesCommitted(mode) THEN files
                    ELSE [p \in Paths |-> Absent]

(***************************************************************************)
(* write_yaml_file / write_json_file of the formats in `done` for version  *)
(* v, as seen in the directory they write to.                              *)
(***************************************************************************)
\* Mutant: the JSON path is given the YAML serialization.
WriteFilesSwapped(files, v, out, done) ==
  [p \in DOMAIN files |-> IF p[2] = v /\ p[1] \in done
                         THEN Serialize("yaml", out) ELSE files[p]]

WriteFiles(files, v, out, done) ==
  [p \in DOMAIN files |-> IF p[2] = v /\ p[1] \in done
                         THEN Serialize(p[1], out) ELSE files[p]]

\* the write of format `fail` raised after open(path, 'w') had truncated
\* the file (torn), or before (mkdir or open raised: the file is intact)
Tear(files, v, fail, torn) ==
  IF torn THEN [files EXCEPT ![<<fail, v>>] = Torn(fail)] ELSE files

Init ==
  /\ data \in Documents
  /\ mode \in Modes
  /\ fmt \in FormatFlags
  /\ committed \in {[p \in Paths |-> InitialFile(data, p, kind[p])] :
                      kind \in [Paths -> KindsFor(data)]}
  /\ pc = "start"
  /\ vi = 1
  /\ has_diffs = FALSE
  /\ diff_paths = <<>>
  /\ exit_code = None
  /\ artifacts = [v \in Versions |-> None]
  /\ runs = 1

(***************************************************************************)
(* Argument check, extraction, parse and validation, and the choice of the *)
(* output directories (lines 375-404).  Any exception ends in exit 1.      *)
(***************************************************************************)
Start ==
  /\ pc = "start"
  /\ pc' = IF fmt = "conflict" \/ validate_schema(data) # Ok
           THEN "done" ELSE "loop"
  /\ exit_code' = IF pc' = "done" THEN 1 ELSE None
  /\ UNCHANGED <<data, mode, fmt, vi, committed, has_diffs, diff_paths,
                 artifacts, runs>>

(***************************************************************************)
(* One iteration of the versions loop (lines 410-433): build output_data,  *)
(* then for YAML and JSON in that order write the file (to the scratch     *)
(* directory in check mode, by the same writers) and, in check mode,      *)
(* compare the written file with the committed one.  `fail` is the first write that raises, if any: the      *)
(* exception leaves the loop and main exits 1 (lines 444-446).             *)
(***************************************************************************)
Iteration(fail, torn) ==
  LET v      == SupportedVersions[vi]
      out    == generate_for_version(data, v)
      \* the formats whose write completes: YAML is written before JSON
      done   == CASE fail = None   -> Selected(fmt)
                  [] fail = "json" -> Selected(fmt) \cap {"yaml"}
                  [] fail = "yaml" -> {}
      \* the same writers fill contrib/ or the scratch directory
      written == Tear(WriteFiles(OutputDir(committed), v, out, done),
                      v, fail, torn)
      after  == IF WritesCommitted(mode) THEN written ELSE committed
      differs(f) == check_file_diff(written[<<f, v>>], after[<<f, v>>])
      newDiffs == SelectSeq(<<<<"yaml", v>>, <<"json", v>>>>,
                    LAMBDA p : p[1] \in done /\ differs(p[1]))
  IN
  /\ pc = "loop"
  /\ vi <= Len(SupportedVersions)
  /\ fail = None \/ fail \in Selected(fmt)
  /\ torn => fail # None
  /\ artifacts' = [artifacts EXCEPT ![v] = out]
  /\ committed' = after
  /\ IF mode = "check"
       THEN /\ diff_paths' = diff_paths \o newDiffs
            /\ has_diffs' = (has_diffs \/ newDiffs # <<>>)
       ELSE UNCHANGED <<diff_paths, has_diffs>>
  /\ IF fail = None
       THEN /\ vi' = vi + 1
            /\ UNCHANGED <<pc, exit_code>>
       ELSE /\ pc' = "done"
            /\ exit_code' = 1
            /\ UNCHANGED vi
  /\ UNCHANGED <<data, mode, fmt, runs>>

(***************************************************************************)
(* After the loop (lines 435-442).                                         *)
(***************************************************************************)
\* Mutant: sys.exit(len(diff_paths)), the count instead of a status.
FinishExitCount ==
  /\ pc = "loop"
  /\ vi > Len(SupportedVersions)
  /\ pc' = "done"
  /\ exit_code' = Len(diff_paths)
  /\ UNCHANGED <<data, mode, fmt, vi, committed, has_diffs, diff_paths,
                 artifacts, runs>>

Finish ==
  /\ pc = "loop"
  /\ vi > Len(SupportedVersions)
  /\ pc' = "done"
  /\ exit_code' = IF mode = "check" /\ has_diffs THEN 1 ELSE 0
  /\ UNCHANGED <<data, mode, fmt, vi, committed, has_diffs, diff_paths,
                 artifacts, runs>>

Failures == IF IOFailures THEN {None, "yaml", "json"} ELSE {None}

(***************************************************************************)
(* A later invocation of the script on the same checkout (lines 449-451): *)
(* a new process, so every local of main starts afresh; only the files in  *)
(* contrib/ and the superset document carry over.                          *)
(***************************************************************************)
Rerun ==
  /\ pc = "done"
  /\ runs < MaxRuns
  /\ runs' = runs + 1
  /\ mode' \in Modes
  /\ fmt' \in FormatFlags
  /\ pc' = "start"
  /\ vi' = 1
  /\ has_diffs' = FALSE
  /\ diff_paths' = <<>>
  /\ exit_code' = None
  /\ artifacts' = [v \in Versions |-> None]
  /\ UNCHANGED <<data, committed>>

Next ==
  \/ Start
  \/ \E fail \in Failures, torn \in BOOLEAN : Iteration(fail, torn)
  \/ Finish
  \/ Rerun

Spec == Init /\ [][Next]_vars /\ WF_vars(Next)

-----------------------------------------------------------------------------
(***************************************************************************)
(* Properties                                                              *)
(***************************************************************************)
TypeOK ==
  /\ pc \in {"start", "loop", "done"}
  /\ mode \in {"generate", "check"}
  /\ vi \in 1..Len(SupportedVersions) + 1
  /\ exit_code \in {None, 0, 1}
  /\ has_diffs \in BOOLEAN
  /\ diff_paths \in Seq(Paths)
  /\ DOMAIN committed = Paths
  /\ DOMAIN artifacts = Versions
  /\ runs \in 1..MaxRuns

\* The reference projection of spec section 4.2/4.3: the metrics of the
\* document, in order, that have a tag and a variant whose version is <= v;
\* each with the variant of greatest such version.
Qualifies(m, v) ==
  /\ ~Falsy(m.tag)
  /\ \E q \in Range(m.queries) : q.version <= v
FloorVersion(m, v) == Max({q.version : q \in {r \in Range(m.queries) : r.version <= v}})

\* Floor selection and exclusion (spec section 8): every artifact the loop
\* built lists exactly the qualifying metrics of the document in document
\* order, each with one query, and that query is the document's variant
\* of greatest version <= the target, carried verbatim.  This depends on
\* select_query_variant's descending sort and on validate_schema having
\* rejected duplicate versions.
ArtifactIsFloorProjection ==
  \A v \in Versions : artifacts[v] # None =>
    LET out  == artifacts[v].metrics
        keep == SelectSeq(data.metrics, LAMBDA m : Qualifies(m, v))
    IN  /\ Len(out) = Len(keep)
        /\ \A i \in DOMAIN out :
             /\ out[i].tag = keep[i].tag
             /\ Len(out[i].queries) = 1
             /\ \E q \in Range(keep[i].queries) :
                  /\ q.version = FloorVersion(keep[i], v)
                  /\ out[i].queries[1] = [query |-> q.query,
                                          version |-> q.version,
                                          columns |-> q.columns]

\* Tags are unique within every generated artifact (spec section 3), which
\* the exporter relies on when it loads a file: only the duplicate-tag
\* check of validate_schema guarantees it.
ArtifactTagsUnique ==
  \A v \in Versions : artifacts[v] # None =>
    LET out == artifacts[v].metrics
    IN  \A i, j \in DOMAIN out : i # j => out[i].tag # out[j].tag

\* Monotone growth (spec section 8): a metric present in the artifact of a
\* version is present in the artifact of every later version.
MonotoneGrowth ==
  \A v1, v2 \in Versions :
    (v1 < v2 /\ artifacts[v1] # None /\ artifacts[v2] # None) =>
      {m.tag : m \in Range(artifacts[v1].metrics)}
        \subseteq {m.tag : m \in Range(artifacts[v2].metrics)}

SelectedPaths == Selected(fmt) \X Versions

\* Drift-check correctness (spec section 4.8): when a check run has gone
\* through the whole versions loop, it exits 0 iff every selected committed
\* file is byte-identical to the freshly generated one, and diff_paths
\* names exactly the files that are not.
DriftReportExact ==
  (pc = "done" /\ mode = "check" /\ vi > Len(SupportedVersions)) =>
    /\ exit_code = 0 <=> \A p \in SelectedPaths : committed[p] = Fresh(data, p)
    /\ Range(diff_paths) = {p \in SelectedPaths : committed[p] # Fresh(data, p)}

\* A generate run leaves every selected file of every version it has been
\* through byte-identical to the generated artifact, also when a later
\* write raised (no rollback, spec section 7).
GeneratedPrefixFresh ==
  mode = "generate" =>
    \A i \in 1..vi - 1 : \A f \in Selected(fmt) :
      committed[<<f, SupportedVersions[i]>>] = Fresh(data, <<f, SupportedVersions[i]>>)

\* A step changes a committed file only in generate mode, only for a
\* selected format, and only to the artifact generated from the document,
\* or, when the write into it raised after open(path, 'w') truncated it,
\* to a torn file in a step that ends the run with exit 1: check mode
\* never touches contrib/, and no run that exits 0 leaves a torn file.
CommittedOnlyRefreshed ==
  [][\A p \in Paths : committed'[p] # committed[p] =>
        /\ mode = "generate"
        /\ p[1] \in Selected(fmt)
        /\ \/ committed'[p] = Fresh(data, p)
           \/ committed'[p] = Torn(p[1]) /\ exit_code' = 1]_vars

\* The structural rules of spec section 4.1: tags are unique strings, every
\* metric has a non-empty list of variants with unique versions, and every
\* variant has a version, a query and a list of columns of a valid type.
MeetsStructuralRules(d) ==
  /\ d.version # Absent /\ d.metrics # Absent
  /\ \A i \in DOMAIN d.metrics :
       LET m == d.metrics[i] IN
       /\ m.tag \notin {Absent, NotAString}
       /\ \A j \in DOMAIN d.metrics : j # i => d.metrics[j].tag # m.tag
       /\ m.queries \notin {Absent, <<>>}
       /\ \A k \in DOMAIN m.queries :
            LET q == m.queries[k] IN
            /\ Absent \notin {q.version, q.query, q.columns}
            /\ \A l \in DOMAIN m.queries : l # k => m.queries[l].version # q.version
            /\ Range(q.columns) \subseteq ValidColumnTypes

\* The data model of spec section 3 adds that every variant has a
\* non-empty list of columns.
MeetsDataModel(d) ==
  /\ MeetsStructuralRules(d)
  /\ \A m \in Range(d.metrics) : \A q \in Range(m.queries) : q.columns # <<>>

\* validate_schema, a chain of early returns in nested loops, accepts
\* exactly the documents that meet the structural rules: in a generate run
\* that cannot fail on I/O, main exits 1 iff the document breaks a rule.
ValidationDecidesRules ==
  (pc # "start" /\ fmt # "conflict" /\ ~IOFailures /\ mode = "generate") =>
    (exit_code = 1 <=> ~MeetsStructuralRules(data))

\* Validation rejects every superset that breaks the data model before any
\* artifact is produced (spec sections 3 and 8): a run that enters the
\* versions loop has a document that meets it.
OnlyWellFormedGenerated ==
  pc = "loop" => MeetsDataModel(data)


Drift == INSTANCE DriftCheck
  WITH expected <- [p \in Paths |-> Fresh(data, p)],
       targets  <- SelectedPaths,
       repo     <- committed,
       done     <- {p \in SelectedPaths : artifacts[p[2]] # None},
       stale    <- Range(diff_paths),
       status   <- exit_code

\* main() of generate_contrib.py implements the abstract drift check: each
\* loop iteration handles the selected formats of one version, a write that
\* raises or an invalid document is a failure, and the exit status and
\* diff_paths are the verdict and the stale set of DriftCheck.
ImplementsDriftCheck == Drift!Spec

=============================================================================
