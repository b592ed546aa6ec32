------------------------- MODULE GenerateDashboards -------------------------
(***************************************************************************)
(* main() of scripts/generate_dashboards.py: load the annotated template,  *)
(* then for every supported version either write                           *)
(* postgresql_dashboard_pg<v>.json next to the template (generate mode) or *)
(* write it to a temporary file, compare it with the committed one and     *)
(* delete it (check mode).                                                 *)
(*                                                                         *)
(* A file's bytes are [body, eol]: the dashboard it serializes (json.dump  *)
(* with indent=2 is a function of the dashboard) and its line ending;      *)
(* check_file_diff reads in text mode, which turns CRLF into LF.           *)
(***************************************************************************)
EXTENDS DashboardLayout

CONSTANTS
  None,
  Templates,     \* the template files the run may be given; Absent: not JSON
  Modes,         \* subset of {"generate", "check"}
  FileKinds,     \* subset of {"missing", "fresh", "stale", "crlf"}
  IOFailures     \* TRUE: a write may raise

VARIABLES
  template,    \* the loaded template (Absent: load_template raises)
  mode,
  pc,          \* "start", "loop", "done"
  vi,          \* index of the next version of the loop
  committed,   \* [Versions -> file]: postgresql_dashboard_pg<v>.json
  has_diffs,
  diff_paths,
  exit_code,
  dashboards   \* history: the dashboard built for each version, or None

vars == <<template, mode, pc, vi, committed, has_diffs, diff_paths,
          exit_code, dashboards>>

Versions == Range(SupportedVersions)

Serialize(dashboard) == [body |-> dashboard, eol |-> "LF"]
ReadText(file) == [file EXCEPT !.eol = "LF"]
Fresh(t, v) == Serialize(generate_for_version(t, v))
\* any other content: a dashboard with no panels and no metadata
Stale == [body |-> [panels |-> <<>>, uid |-> <<>>, tags |-> <<>>], eol |-> "LF"]
\* what open(path, 'w') leaves when json.dump into it raises: the file was
\* truncated and holds a prefix of the JSON text, no dashboard at all
Torn == [body |-> [panels |-> <<>>, uid |-> <<0>>, tags |-> <<>>], eol |-> "LF"]

InitialFile(t, v, k) ==
  CASE k = "missing" -> Absent
    [] k = "stale"   -> Stale
    [] k = "fresh"   -> Fresh(t, v)
    [] k = "crlf"    -> [Fresh(t, v) EXCEPT !.eol = "CRLF"]

KindsFor(t) == IF t = Absent THEN FileKinds \ {"fresh", "crlf"} ELSE FileKinds

\* Mutant: a missing committed file is not counted as a difference.
CheckDiffIgnoresMissing(generated, existing) ==
  existing # Absent /\ ReadText(generated) # ReadText(existing)

check_file_diff(generated, existing) ==
  existing = Absent \/ ReadText(generated) # ReadText(existing)

(***************************************************************************)
(* Lines 248-258: check mode writes to a temporary file, generate mode to  *)
(* output_path.  The dashboards on disk after the write of `board`, which  *)
(* completes ("none"), raises in mkdir or open ("before") or raises in     *)
(* json.dump after open(path, 'w') truncated the file ("torn").           *)
(***************************************************************************)
\* Mutant: output_path is written in check mode too.
WriteAlways(files, v, board, m, fail) ==
  IF fail = "none" THEN [files EXCEPT ![v] = Serialize(board)] ELSE files

WriteDashboard(files, v, board, m, fail) ==
  CASE m = "generate" /\ fail = "none" -> [files EXCEPT ![v] = Serialize(board)]
    [] m = "generate" /\ fail = "torn" -> [files EXCEPT ![v] = Torn]
    [] OTHER                           -> files

Init ==
  /\ template \in Templates
  /\ mode \in Modes
  /\ committed \in {[v \in Versions |-> InitialFile(template, v, kind[v])] :
                      kind \in [Versions -> KindsFor(template)]}
  /\ pc = "start"
  /\ vi = 1
  /\ has_diffs = FALSE
  /\ diff_paths = <<>>
  /\ exit_code = None
  /\ dashboards = [v \in Versions |-> None]

\* load_template (lines 237-239): a template that is not JSON raises.
Start ==
  /\ pc = "start"
  /\ pc' = IF template = Absent THEN "done" ELSE "loop"
  /\ exit_code' = IF template = Absent THEN 1 ELSE None
  /\ UNCHANGED <<template, mode, vi, committed, has_diffs, diff_paths,
                 dashboards>>

(***************************************************************************)
(* One iteration of the versions loop (lines 244-258).  In check mode the  *)
(* write goes to a temporary file that is compared and unlinked; in        *)
(* generate mode it overwrites the committed file.  `fail` other than     *)
(* "none": the write raises, and main exits 1 (lines 269-271).           *)
(***************************************************************************)
Iteration(fail) ==
  LET v     == SupportedVersions[vi]
      board == generate_for_version(template, v)
      differs == fail = "none" /\ check_file_diff(Serialize(board), committed[v])
  IN
  /\ pc = "loop"
  /\ vi <= Len(SupportedVersions)
  /\ dashboards' = [dashboards EXCEPT ![v] = board]
  /\ committed' = WriteDashboard(committed, v, board, mode, fail)
  /\ IF mode = "check" /\ differs
       THEN /\ has_diffs' = TRUE
            /\ diff_paths' = Append(diff_paths, v)
       ELSE UNCHANGED <<has_diffs, diff_paths>>
  /\ IF fail # "none"
       THEN pc' = "done" /\ exit_code' = 1 /\ UNCHANGED vi
       ELSE vi' = vi + 1 /\ UNCHANGED <<pc, exit_code>>
  /\ UNCHANGED <<template, mode>>

\* Mutant: sys.exit(len(diff_paths)), the count instead of a status.
FinishExitCount ==
  /\ pc = "loop"
  /\ vi > Len(SupportedVersions)
  /\ pc' = "done"
  /\ exit_code' = Len(diff_paths)
  /\ UNCHANGED <<template, mode, vi, committed, has_diffs, diff_paths,
                 dashboards>>

\* After the loop (lines 260-267).
Finish ==
  /\ pc = "loop"
  /\ vi > Len(SupportedVersions)
  /\ pc' = "done"
  /\ exit_code' = IF mode = "check" /\ has_diffs THEN 1 ELSE 0
  /\ UNCHANGED <<template, mode, vi, committed, has_diffs, diff_paths,
                 dashboards>>

Next ==
  \/ Start
  \/ \E fail \in IF IOFailures THEN {"none", "before", "torn"} ELSE {"none"} :
       Iteration(fail)
  \/ Finish

Spec == Init /\ [][Next]_vars /\ WF_vars(Next)

-----------------------------------------------------------------------------
(***************************************************************************)
(* Properties                                                              *)
(***************************************************************************)
TypeOK ==
  /\ pc \in {"start", "loop", "done"}
  /\ mode \in {"generate", "check"}
  /\ vi \in 1..Len(SupportedVersions) + 1
  /\ exit_code \in {None, 0, 1}
  /\ has_diffs \in BOOLEAN
  /\ diff_paths \in Seq(Versions)
  /\ DOMAIN committed = Versions
  /\ DOMAIN dashboards = Versions

Built == {v \in Versions : dashboards[v] # None}

Overlap(a, b) ==
  /\ a.x < b.x + b.w /\ b.x < a.x + a.w
  /\ a.y < b.y + b.h /\ b.y < a.y + a.h

Disjoint(ps) ==
  \A i, j \in DOMAIN ps : i # j => ~Overlap(ps[i].gridPos, ps[j].gridPos)

\* A row grid: disjoint panels stacked in rows from y = 0, every panel of a
\* row as tall as the row, each row starting where the one above ends.
RowGrid(ps) ==
  LET g(i) == ps[i].gridPos IN
  /\ Disjoint(ps)
  /\ \A i, j \in DOMAIN ps :
       /\ g(i).y = g(j).y => g(i).h = g(j).h
       /\ ~(g(j).y < g(i).y /\ g(i).y < g(j).y + g(j).h)
  /\ \A i \in DOMAIN ps : g(i).y = 0 \/ \E j \in DOMAIN ps : g(j).y + g(j).h = g(i).y

\* Id contiguity and order (spec sections 3, 4.4 and 8): the panels of
\* every generated dashboard are the template panels whose version is
\* absent or <= the target, in template order, without the version
\* annotation, numbered 1..N, with their x, w and h unchanged.
PanelsFollowTemplate ==
  \A v \in Built :
    LET out  == dashboards[v].panels
        keep == SelectSeq(template.panels,
                          LAMBDA p : p.version = Absent \/ p.version <= v)
    IN  /\ Len(out) = Len(keep)
        /\ \A i \in DOMAIN out :
             /\ DOMAIN out[i] = {"id", "gridPos"}
             /\ out[i].id = i
             /\ out[i].gridPos.x = keep[i].gridPos.x
             /\ out[i].gridPos.w = keep[i].gridPos.w
             /\ out[i].gridPos.h = keep[i].gridPos.h

\* The layout stays contiguous (docstring step 4, spec section 4.5): when
\* the template is a row grid, the panels recalculate_grid_positions leaves
\* for any version again form a row grid, whatever rows were removed.
LayoutStaysRowGrid ==
  RowGrid(template.panels) => \A v \in Built : RowGrid(dashboards[v].panels)

\* Removing rows never moves a kept panel above the top of the grid.
KeptPanelsInsideGrid ==
  \A v \in Built : \A i \in DOMAIN dashboards[v].panels :
    dashboards[v].panels[i].gridPos.y >= 0

\* Removing rows never makes two kept panels overlap that did not overlap
\* in the template.
KeptPanelsDisjoint ==
  Disjoint(template.panels) => \A v \in Built : Disjoint(dashboards[v].panels)

\* Drift-check correctness (spec section 4.8): after the whole loop, a
\* check run exits 0 iff every committed dashboard is byte-identical to the
\* generated one, and reports exactly those that are not.
DriftReportExact ==
  (pc = "done" /\ mode = "check" /\ vi > Len(SupportedVersions)) =>
    /\ exit_code = 0 <=> \A v \in Versions : committed[v] = Fresh(template, v)
    /\ Range(diff_paths) = {v \in Versions : committed[v] # Fresh(template, v)}

\* Only a generate run changes a committed dashboard, and only to the one
\* generated from the template for that version, or, when json.dump into
\* the truncated file raised, to a torn file in a step that ends the run
\* with exit 1: check mode never touches a committed dashboard, and no run
\* that exits 0 leaves a torn one.
CommittedOnlyRefreshed ==
  [][\A v \in Versions : committed'[v] # committed[v] =>
        /\ mode = "generate"
        /\ \/ committed'[v] = Fresh(template, v)
           \/ committed'[v] = Torn /\ exit_code' = 1]_vars


Drift == INSTANCE DriftCheck
  WITH Paths    <- Versions,
       expected <- [v \in Versions |->
                      IF template = Absent THEN None ELSE Fresh(template, v)],
       targets  <- Versions,
       repo     <- committed,
       done     <- Built,
       stale    <- Range(diff_paths),
       status   <- exit_code

\* main() of generate_dashboards.py implements the abstract drift check: one
\* dashboard per version, a template that cannot be loaded or a write that
\* raises is a failure, and the exit status and diff_paths are the verdict
\* and the stale set of DriftCheck.
ImplementsDriftCheck == Drift!Spec

=============================================================================
