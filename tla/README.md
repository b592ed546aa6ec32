# TLA+ models of the pgexporter artifact generators

This directory holds TLA+ models of the two generator scripts under
`src/scripts/` and of the documentation generator under
`src/contrib/prometheus_scrape/`. It also has the TLC configurations that check them, and
`PROJECT.json`, which maps every definition to the source lines it models
and records the runs, mutants, findings and hazards.

## The system

The code is three single-threaded Python programs. None of them shares
state with another process.

* `generate_contrib.py` projects one superset metric document into
  per-version artifacts: `contrib/yaml/postgresql-<v>.yaml` and
  `contrib/json/postgresql-<v>.json`.
  * The document is embedded in `internal.h` as the C string macro
    `INTERNAL_YAML`. `extract_internal_yaml` recovers it.
  * `validate_schema` checks it.
  * Then, for every supported version, `select_query_variant`,
    `build_metric_for_version` and `generate_for_version` build the
    artifact. `main` writes it (generate mode), or writes it into a
    `mkdtemp` scratch directory and compares it with the committed file
    (`--check`).
* `generate_dashboards.py` projects one annotated Grafana template into
  per-version dashboards.
  * `filter_panels`, `strip_version_field` and `reassign_ids` select the
    panels.
  * `recalculate_grid_positions` moves the panels up over removed rows.
  * `update_dashboard_metadata` rewrites the version in the metadata.
  * `main` writes the result, or writes it to a `mktemp` file, compares
    it and deletes it (`--check`).
* `contrib/prometheus_scrape/prometheus.py` renders documentation from a
  scrape of the exporter.
  * `main` defaults the output flags, fetches the scrape, reads the
    extra-info file (`parse_extra_info`), and walks the scrape line by
    line.
  * For each HELP line it splits off the name and help text, looks for
    the TYPE on the next line, picks an example (`find_best_example`) and
    the extra description. It then files the metric as core or extension
    (`is_extension_metric`).
  * It writes the three manual files (`generate_manual_documentation`,
    which sorts extensions into sections by substring tests), or
    `prometheus.md` and/or `prometheus.html`.

The parts interact only through data:
document → validation → per-version projection → writer or drift check.
The hard parts are listed below.

* **Drift check.** It must report exactly the stale or missing files over
  every version and format, and never touch the committed files.
* **Partial failure.** A write that raises mid-loop leaves some versions
  regenerated and others not. Nothing is rolled back (spec §7). The file
  being written is truncated by `open(path, 'w')` before the dump, so it
  may be left torn.
* **Successive invocations.** CI regenerates and then runs `--check` as
  separate processes on the same checkout; the check passes only if both
  modes write the same bytes.
* **Validation order.** Validation is a chain of early exits in three
  nested loops, and every artifact property depends on it.
* **Floor selection.** It depends on a stable descending sort.
* **Row-based layout.** It shifts on the assumption that the template is
  a grid of rows.
* **Escape decoding.** The cursor loop of the escape decoder.
* **Documentation.** Two classifications must agree: the prefix test
  that files a metric as an extension, and the substring chain that picks
  its section. The extra-info parser saves a block only when the next
  header arrives.

## Modules

| Module | Models | State / actions |
|---|---|---|
| `ContribMetrics` | `validate_schema`, `select_query_variant`, `build_metric_for_version`, `generate_for_version` | These are pure operators. `MetricsError`, `QueriesError` and `ColumnsError` give the first violated rule in the code's loop order, or `Ok`. |
| `GenerateContrib` | `main()` of `generate_contrib.py`, `check_file_diff`, the writers | `committed` holds the files in `contrib/`, keyed by (format, version). `vi` is the loop index. `has_diffs`, `diff_paths` and `exit_code` are the program's variables. `artifacts` is a history variable. `Start` covers the flag conflict, validation and the directory choice. `Iteration(fail, torn)` is one version: YAML, then JSON, write and compare. `fail` is the first write that raises, and `torn` says whether it raised after `open(path, 'w')` truncated the file (`Tear`). `Finish` sets the exit status. `Rerun` is the next invocation on the same checkout (up to `MaxRuns`): every local of `main` starts afresh, `committed` and the document carry over. In check mode the writers write into `OutputDir`, an empty scratch directory, and `check_file_diff` reads the written file back. So a writer bug acts in both modes, as in the code. |
| `MacroExtract` | `extract_internal_yaml` | `Join` finds the define, joins the continuation lines and checks the prefix. Each branch of the `while` loop is one action: `SkipOutside`, `Escape`, `CloseString`, `Literal`. `Finish` ends the extraction. |
| `DashboardLayout` | `panel_min_version`, `filter_panels`, `strip_version_field`, `reassign_ids`, `recalculate_grid_positions`, `update_dashboard_metadata`, `generate_for_version` | These are pure operators. The cumulative offset of a panel is the sum of the heights of the removed rows at or above its y (`YOffset`). |
| `GenerateDashboards` | `main()` of `generate_dashboards.py`, `check_file_diff`, `write_dashboard` | The state is the same as in `GenerateContrib`, with one file per version. `WriteDashboard` chooses the temporary file or `output_path`, and models a write that raises before or after truncating the file. |
| `PrometheusDoc` | `main()` of `prometheus.py`, `parse_extra_info`, `find_best_example`, `is_extension_metric`, the three documentation writers | `scrape` and `extra` are the inputs, and `extra_info` is the parsed file. `i` is the scan cursor, `core` and `ext` are the two metric lists, and `files` holds the written files. `Start` covers the flag defaults, the fetch/empty/missing-file exits and the parse. `Scan` is one iteration of the `while` loop. `Write(fail, torn)` writes the manual files or the detailed ones in the order the code opens them (`WriteOrder`). `fail` is the position of a write that raises; the earlier files are written, the failing one is truncated or intact, and the uncaught exception ends the run with status 1. Before the run each file is absent or left by an earlier run (`Old`). `parse_extra_info` is a fold over the lines, whose state is the dict, the current header, its description and its detail lines. `extract_attributes_and_values_from_details` splits the detail lines into attributes and values; `ManualAttributes` adds the server row of the manual table. |
| `DriftCheck` | what a drift-checking generator promises (spec §4.8, §7) | This is an abstract spec. The run handles its target paths in any grouping (`Process`): it rewrites them in generate mode, or records those that differ in check mode. It may fail at any point after handling some of the paths it reached (`Fail`). In generate mode, the paths of a failing step that it did not finish may hold anything afterwards: a torn write. When every target is handled it exits 0, or 1 for drift (`Conclude`). After an exit, a new run may start on the repository the last one left (`Restart`). |
| `MCGenerateContrib`, `MCGenerateDashboards`, `MCMacroExtract`, `MCPrometheusDoc` | – | The finite instances: supported versions, documents, templates and headers. |

### Data abstraction

* **Files.** A file is a record: the artifact it serializes, its format
  and its line ending. The YAML/JSON writers are modelled as a function of
  the artifact. The text-mode read in `check_file_diff` is modelled by
  what it does: it turns CRLF into LF (`ReadText`).
* **Documents.** A document is a record of metrics and variants. A
  missing key is the model value `Absent`, and a tag of another type is
  `NotAString`.
* **Shape checks.** The `isinstance` checks on shape are not modelled.
  Documents are well shaped, as `yaml.safe_load` of the header produces
  them.
* **Optional fields.** `sort` stands for the four optional fields, which
  the code treats alike.
* **Metadata fields.** `uid` stands for `title`, `uid` and `description`.
* **Strings in `MacroExtract`.** They are token sequences:
  * `D` is the define text `#define INTERNAL_YAML` followed by
    whitespace;
  * `DX` is the same text inside a longer name (`INTERNAL_YAML_V2`) or a
    comment;
  * `Q` is a quote and `B` a backslash;
  * `n`, `t` and `r` stand for themselves;
  * `x` is any other character;
  * `NL`, `TAB` and `CR` are decoded characters.

* **Names in `PrometheusDoc`.** A metric name is the sequence of its
  `_`-separated words. So `startswith(prefix + '_')` is a strict word
  prefix, and `word + '_' in name` is a run of words followed by another
  word.
* **Lines in `PrometheusDoc`.** A scrape line is a record:
  * a HELP or TYPE line, in the `#HELP n` or `# HELP n` form, with or
    without text;
  * a sample line, whose `database` label is `postgres` or another
    value;
  * a blank line.

  `Words` and `Split2` model `line.split(' ', 2)` on these words. An
  extra-info line is a header (the name, possibly followed by more text),
  a `+ ` line, a `* ` line, or another line. The key of a `* key: text`
  line is a sequence of character classes (`d` a digit, `.` a dot, `a`
  anything else), so the numeric-key test `^\d+(\.\d+)?$` is modelled by
  what it does (`IsNumber`); a `* ` line without a colon has no key.
* **Documentation files in `PrometheusDoc`.** A written file is the
  sequence of its metric sections: name, description, type and example,
  or, for the manual files, name, description and section. Headings, the
  table of contents, attribute tables and markup are left out.

## Refinement

`GenerateContrib` and `GenerateDashboards` each instantiate `DriftCheck`
and check `ImplementsDriftCheck == Drift!Spec` as a property. The mapping:

* `repo` is `committed`.
* `targets` is the selected paths.
* `expected` is the fresh artifact of each path.
* `done` is the paths of the versions whose iteration has started.
* `stale` is `Range(diff_paths)`.
* `status` is `exit_code`.

One loop iteration is one `Process` step of all the selected formats of a
version. A write that raises, a flag conflict, an invalid document or an
unreadable template is a `Fail` step; a torn file is one of the paths
`Fail` leaves unconstrained. `Finish` is `Conclude`, and `Rerun` is
`Restart`. The abstract spec's weak fairness on handling (`Process`) and
concluding follows from the implementation's weak fairness of `Next`: the
refinement includes termination. The fairness is on `Process` alone, not
on `Process \/ Fail`: `Fail` only ends a run early, and a `Fail` step also
disables `Process`.

## Runs

| Run | Expect | What it shows |
|---|---|---|
| `contrib_documents` | pass | Covers every document of up to 2 metrics with up to 2 variants (at versions 14 and 15, tags a, b and ""), plus documents that break each rule of spec §4.1 in turn. `validate_schema` rejects a document exactly when it breaks a rule (`ValidationDecidesRules`). Every artifact is the floor projection of the document (`ArtifactIsFloorProjection`), has unique tags, and its metric set grows with the version (`MonotoneGrowth`). |
| `contrib_drift` | pass | Covers two invocations in a row, each in generate or check mode, over committed files that are missing, fresh or stale, every format flag, and writes that raise before or after truncating the file. Check mode exits 0 iff every selected file is identical, and it lists exactly the others (`DriftReportExact`). It never changes a committed file, and generate mode changes one only to the fresh artifact, or to a torn file in a step that exits 1 (`CommittedOnlyRefreshed`). Because the second run may start from a file the first one tore, a check run meets torn files too. A generate run leaves every version it got through up to date, even when a later write raised (`GeneratedPrefixFresh`). `main()` refines `DriftCheck` (`ImplementsDriftCheck`). |
| `contrib_crlf` | violation | A committed file with CRLF endings passes the check. See the findings. |
| `contrib_validation` | violation | A variant with `columns: []` passes validation. See the findings. |
| `dashboards_layout` | pass | Covers every template of up to 4 pairwise disjoint panels on a small grid, with per-panel gates. The panels are the filtered template panels numbered 1..N (`PanelsFollowTemplate`). A row-grid template stays a gap-free row grid (`LayoutStaysRowGrid`). |
| `dashboards_negative_y` | violation | A kept panel is moved to a negative y. |
| `dashboards_overlap` | violation | Two kept panels overlap after the shift. |
| `dashboards_drift` | pass | The drift check and write discipline of the dashboard generator, with writes that raise before or after truncating the file: a torn dashboard is left only by a run that exits 1. Also its refinement of `DriftCheck`. |
| `extract_decode` | pass | For every header of up to 3 lines, the loop's result equals the grammar of spec §6 (`DecodeMatchesSpec`). The loop errors only when there is no literal, and it always terminates (`ExtractionTerminates`). The headers include ones where a `#define INTERNAL_YAML_V2 ""` line (token `DX`) comes first; there the join fails, so `DecodeMatchesSpec` does not apply. |
| `prom_docs` | pass | Covers one or two pgexporter metrics of every family, under every command line but `--toc` alone, over no earlier output or an earlier run's, with writes that raise. A run exits 0 only when every file the command line asks for holds this run's documentation, and each set lists each metric once per HELP line (`DocumentsEveryMetric`); a failed manual write leaves a mixed set, but only behind exit status 1. The manual files put each metric in the section of its longest prefix (`ManualSectionsByPrefix`). Under every extra-info file of up to 4 lines, each metric gets the description of the last header that names it exactly, or its HELP text (`ExtraInfoAttached`). In the manual files each metric's table shows every `key: text` detail line of its block: attribute lines as rows in order, value lines once each in the first row, with a server row added when the block defines values only (`ManualTablesKeepDetails`). |
| `prom_example_prefix` | violation | `pgexporter_database` is documented with a sample of `pgexporter_database_size`. |
| `prom_toc_only` | violation | `--toc` alone writes no file and exits 0. |

Every property of a passing run has a mutant in `PROJECT.json`: a
plausible bug in a mapped definition that TLC catches under the run's
own configuration. Examples are a dropped duplicate check, a sort left
out, ids counted from 0, a missing cursor advance, and check mode
writing into `contrib/`.

### Findings

1. **CRLF passes the drift check.** `check_file_diff` compares in text
   mode, in both scripts. A committed artifact that differs only in line
   endings therefore passes `--check`, although the spec asks for byte
   identity (run `contrib_crlf`).
2. **Empty columns pass validation.** `validate_schema` accepts an empty
   `columns` list. Spec §3 requires it to be non-empty (run
   `contrib_validation`).
3. **Negative y.** `recalculate_grid_positions` can move a panel to a
   negative y. Example: a removed 8-high panel at y 0 sits beside a kept
   panel at y 4 (run `dashboards_negative_y`).
4. **Overlapping panels.** In a staggered layout, it can move a kept
   panel onto another kept panel (run `dashboards_overlap`). Spec §4.5
   flags only mixed gates within one y as an authoring invariant.
5. **Wrong example.** `find_best_example` takes any line that starts with
   the metric name, and prefers one labelled `database="postgres"`. A
   metric whose name is a prefix of another's is shown with the other's
   sample (run `prom_example_prefix`).
6. **`--toc` alone.** `--toc` counts as an output option, so the
   md/html defaults are not applied. With `--toc` alone no file is
   written, yet the script reports success (run `prom_toc_only`).

Two more disagreements are recorded as hazards, not as runs:

* The HELP test `^#\s*HELP` accepts `# HELP name text`, but
  `split(' ', 2)` then names the metric `HELP`. `DocumentsEveryMetric`
  fails on such a scrape.
* A `#define INTERNAL_YAML_V2 ""` line before the declaration makes the
  extraction fail. The substring search at `generate_contrib.py:47` picks
  that line first, and its joined text lacks the `""` prefix. Spec §6
  takes the literals after the recognised declaration. `extract_decode`
  includes such headers, but no property states the spec's side: a
  passing property would have to leave them out, and all run slots are
  taken.

### Bounds

* **Versions.** Three supported versions (13, 14, 15), with variants and
  panel gates at 14 and 15. Version 13 then selects nothing, 14 and 15
  select different variants, and document order differs from version
  order. The loop's structure does not depend on the length of
  `SUPPORTED_VERSIONS`. `contrib_drift` uses 14 and 15 only: two versions
  whose artifacts differ are enough for a failure after a completed
  version, and keep every mix of four committed files within reach.
* **Invocations.** `contrib_drift` runs two invocations (`MaxRuns = 2`):
  a generate or failed run followed by a check or another generate. The
  second run starts from the files the first left, torn ones included.
  A third run adds no new pair.
* **Documents.** Two metrics, enough for the duplicate-tag rule and for
  order. Two variants, enough for duplicate versions and the sort.
* **Layouts.** Four panels on a 2×3 grid. This gives removed rows above,
  between and below kept ones, rows of two panels, and panels spanning
  two rows.
* **Scrapes.** Each metric is a HELP, a TYPE and a sample line, as
  pgexporter writes them. One metric of each of the 9 extension
  prefixes, two core metrics, and every ordered pair of them: enough for
  every section, the raster/topology-before-postgis order, and the
  per-file counts.
* **Extra-info files.** Every file of up to 4 lines over the headers of
  two metrics (with and without trailing text), two `+ ` lines, and a
  `* ` line with an attribute key and one with a value key. This covers a
  repeated header, a description before any header, a header with no
  description, and blocks with attributes only, values only, or both.
* **Headers.** Literals of up to 4 tokens plus a continuation line of up
  to 3. This covers known and unknown escapes, a final backslash, an
  unterminated literal and zero, one or two literals.

### Fairness

Each program is single-threaded and never waits. An enabled step is the
next statement, so weak fairness of `Next` is what the code guarantees.
It is used for `ExtractionTerminates`, and for the fairness part of
`ImplementsDriftCheck`: a run that is not stopped by an exception
concludes. The programs end, so every
configuration sets `CHECK_DEADLOCK FALSE`: the final state is the
program's exit.

## Not modelled

* **CLI and logging.** Argparse and logging are left out. The flags are
  the constants `Modes` and `FormatFlags`.
* **The scratch and temporary files.** The `mkdtemp` directory, the
  `mktemp` name race and the unlink on an exception are listed as
  hazards without properties: nothing reads them again, and the race is
  with another process.
* **Serialization.** The YAML/JSON text is not modelled, only that it is
  a function of the artifact.
* **Documentation markup.** The table of contents, headings, the
  descriptions' whitespace cleanup and the markup of `prometheus.py` are
  not modelled: no property is about them. The attribute tables are
  modelled by their rows. The HTTP fetch is an input: a scrape, or
  `Absent` for a failed request.
* **Successive invocations of the dashboard and documentation
  generators.** Only `generate_contrib.py` is run twice in a row; the
  dashboard generator shares its `main` structure, and the documentation
  generator has no check mode.

## Plan for later work

1. **Metadata.** Check the tag rewrite of `update_dashboard_metadata`.
2. **Detailed documentation values.** `prometheus.md` and
   `prometheus.html` never show value definitions, and the server row is
   added only when a block has no attribute at all, whatever the comment
   at `prometheus.py:307` means. Both are recorded as hazards; a property
   needs a statement of what is intended.
