--------------------------- MODULE ContribMetrics ---------------------------
(***************************************************************************)
(* The pure part of scripts/generate_contrib.py: schema validation of the  *)
(* superset metric document (validate_schema), floor selection of a query  *)
(* variant (select_query_variant), assembly of one per-version metric      *)
(* (build_metric_for_version) and of one per-version artifact              *)
(* (generate_for_version).                                                 *)
(*                                                                         *)
(* Data abstraction.  A document is a record [version, metrics]; a metric  *)
(* is [tag, collector, sort, queries]; a query variant is                  *)
(* [version, query, columns]; a column is its 'type' value.  A key that is *)
(* missing from a YAML mapping is the model value Absent; a tag that is    *)
(* not a Python str is NotAString.  'sort' stands for the four optional    *)
(* top-level fields sort/server/database/optional, which the code treats   *)
(* alike.  Documents are well shaped (mappings and lists where the code    *)
(* expects them): the isinstance checks on shape are not modelled.         *)
(***************************************************************************)
EXTENDS Integers, Sequences, SequencesExt, FiniteSets

CONSTANTS
  Absent,       \* a key missing from a mapping
  NotAString,   \* a tag value that is not a str (e.g. an int in the YAML)
  None          \* Python None, returned by select/build on a miss

\* The column types accepted by validate_schema.
ValidColumnTypes == {"gauge", "counter", "label", "histogram"}

Ok == "ok"

(***************************************************************************)
(* validate_schema: the kind of the first violation in the loop order of   *)
(* the code, or Ok.  Only acceptance matters to the rest of the program;   *)
(* the kind stands for the message of the ValueError that is raised.      *)
(***************************************************************************)
ColumnsError(cols) ==
  LET bad == {k \in DOMAIN cols : cols[k] \notin ValidColumnTypes}
      first == CHOOSE k \in bad : \A l \in bad : k <= l
  IN  IF bad = {} THEN Ok
      ELSE IF cols[first] = Absent THEN "missing_type" ELSE "invalid_type"

\* Mutant: the check that a variant has a 'query' key is dropped.
RECURSIVE QueriesErrorNoQueryCheck(_, _, _)
QueriesErrorNoQueryCheck(qs, j, versionsSeen) ==
  IF j > Len(qs) THEN Ok
  ELSE LET q == qs[j] IN
       CASE q.version = Absent            -> "missing_version"
         [] q.columns = Absent            -> "missing_columns"
         [] q.version \in versionsSeen    -> "duplicate_version"
         [] ColumnsError(q.columns) # Ok  -> ColumnsError(q.columns)
         [] OTHER -> QueriesErrorNoQueryCheck(qs, j + 1, versionsSeen \cup {q.version})

RECURSIVE QueriesError(_, _, _)
QueriesError(qs, j, versionsSeen) ==
  IF j > Len(qs) THEN Ok
  ELSE LET q == qs[j] IN
       CASE q.version = Absent            -> "missing_version"
         [] q.query = Absent              -> "missing_query"
         [] q.columns = Absent            -> "missing_columns"
         [] q.version \in versionsSeen    -> "duplicate_version"
         [] ColumnsError(q.columns) # Ok  -> ColumnsError(q.columns)
         [] OTHER -> QueriesError(qs, j + 1, versionsSeen \cup {q.version})

\* Mutant: the duplicate-tag check is dropped.
RECURSIVE MetricsErrorNoDupCheck(_, _, _)
MetricsErrorNoDupCheck(ms, i, seenTags) ==
  IF i > Len(ms) THEN Ok
  ELSE LET m == ms[i] IN
       CASE m.tag = Absent                     -> "missing_tag"
         [] m.tag = NotAString                 -> "tag_not_string"
         [] m.queries = Absent                 -> "missing_queries"
         [] m.queries = <<>>                   -> "empty_queries"
         [] QueriesError(m.queries, 1, {}) # Ok -> QueriesError(m.queries, 1, {})
         [] OTHER -> MetricsErrorNoDupCheck(ms, i + 1, seenTags \cup {m.tag})

RECURSIVE MetricsError(_, _, _)
MetricsError(ms, i, seenTags) ==
  IF i > Len(ms) THEN Ok
  ELSE LET m == ms[i] IN
       CASE m.tag = Absent                     -> "missing_tag"
         [] m.tag = NotAString                 -> "tag_not_string"
         [] m.tag \in seenTags                 -> "duplicate_tag"
         [] m.queries = Absent                 -> "missing_queries"
         [] m.queries = <<>>                   -> "empty_queries"
         [] QueriesError(m.queries, 1, {}) # Ok -> QueriesError(m.queries, 1, {})
         [] OTHER -> MetricsError(ms, i + 1, seenTags \cup {m.tag})

validate_schema(data) ==
  CASE data.version = Absent -> "missing_version_field"
    [] data.metrics = Absent -> "missing_metrics_field"
    [] OTHER                 -> MetricsError(data.metrics, 1, {})

(***************************************************************************)
(* select_query_variant: sort the variants by version descending (Python's *)
(* sort is stable, so equal versions keep document order) and return the   *)
(* first whose version is <= target; a missing version counts as 0.        *)
(***************************************************************************)
VersionOf(q) == IF q.version = Absent THEN 0 ELSE q.version

\* Mutant: no sort, the first fitting variant in document order.
SelectUnsorted(metric, target) ==
  LET qs  == IF metric.queries = Absent THEN <<>> ELSE metric.queries
      fit == {j \in DOMAIN qs : VersionOf(qs[j]) <= target}
  IN  IF fit = {} THEN None ELSE qs[CHOOSE j \in fit : \A k \in fit : j <= k]

\* Mutant: only a variant of exactly the target version is selected.
SelectExact(metric, target) ==
  LET qs  == IF metric.queries = Absent THEN <<>> ELSE metric.queries
      fit == {j \in DOMAIN qs : VersionOf(qs[j]) = target}
  IN  IF fit = {} THEN None ELSE qs[CHOOSE j \in fit : TRUE]

select_query_variant(metric, target) ==
  LET qs  == IF metric.queries = Absent THEN <<>> ELSE metric.queries
      fit == {j \in DOMAIN qs : VersionOf(qs[j]) <= target}
      \* first in descending-version order, ties broken by document order
      pick == CHOOSE j \in fit :
                \A k \in fit : \/ VersionOf(qs[k]) < VersionOf(qs[j])
                               \/ VersionOf(qs[k]) = VersionOf(qs[j]) /\ j <= k
  IN  IF fit = {} THEN None ELSE qs[pick]

(***************************************************************************)
(* build_metric_for_version: a falsy tag (missing or "") skips the metric; *)
(* a selection miss skips it; otherwise the record carries tag, collector  *)
(* (defaulting to tag), the optional fields that are present, and exactly  *)
(* one query: the selected one.                                            *)
(***************************************************************************)
Falsy(tag) == tag \in {Absent, ""}

build_metric_for_version(metric, target) ==
  LET sel == select_query_variant(metric, target) IN
  IF Falsy(metric.tag) \/ sel = None THEN None
  ELSE [tag       |-> metric.tag,
        collector |-> IF metric.collector = Absent THEN metric.tag
                      ELSE metric.collector,
        sort      |-> metric.sort,
        queries   |-> <<[query   |-> sel.query,
                         version |-> sel.version,
                         columns |-> IF sel.columns = Absent THEN <<>>
                                     ELSE sel.columns]>>]

(***************************************************************************)
(* generate_for_version: {version: target, metrics: [built, ...]} keeping  *)
(* the document order of the metrics that were built.                      *)
(***************************************************************************)
generate_for_version(data, target) ==
  LET built == [i \in DOMAIN data.metrics |->
                  build_metric_for_version(data.metrics[i], target)]
  IN  [version |-> target,
       metrics |-> SelectSeq(built, LAMBDA b : b # None)]

=============================================================================
