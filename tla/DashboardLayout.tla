--------------------------- MODULE DashboardLayout --------------------------
(***************************************************************************)
(* The pure part of scripts/generate_dashboards.py: version filtering of   *)
(* the superset panel list, stripping of the "version" annotation, id      *)
(* renumbering, the row-based gridPos.y recalculation, the substitution of *)
(* the template version in the metadata, and generate_for_version, which  *)
(* composes them.                                                          *)
(*                                                                         *)
(* Data abstraction.  A panel is [id, gridPos, version] with gridPos a     *)
(* record [x, y, w, h] and version Absent when the key is missing; a       *)
(* stripped panel has no version field.  The opaque panel fields are       *)
(* left out.  Of the metadata fields title/uid/description, which the code *)
(* treats alike, uid stands for all three; a string is the sequence of its *)
(* characters, a version's str() the sequence of its decimal digits.       *)
(***************************************************************************)
EXTENDS Integers, Sequences, SequencesExt, FiniteSets

CONSTANTS
  Absent,             \* a key missing from a JSON object
  SupportedVersions   \* SUPPORTED_VERSIONS, ascending

\* The template is built from the highest supported version; a panel
\* without "version" is available from the lowest.
TEMPLATE_VERSION == SupportedVersions[Len(SupportedVersions)]
DEFAULT_MIN_VERSION == SupportedVersions[1]

panel_min_version(panel) ==
  IF panel.version = Absent THEN DEFAULT_MIN_VERSION ELSE panel.version

filter_panels(panels, target) ==
  SelectSeq(panels, LAMBDA p : panel_min_version(p) <= target)

strip_version_field(panel) == [id |-> panel.id, gridPos |-> panel.gridPos]

\* Mutant: enumerate(panels) without start=1, ids from 0.
ReassignIdsFromZero(panels) ==
  [i \in DOMAIN panels |-> [panels[i] EXCEPT !.id = i - 1]]

reassign_ids(panels) == [i \in DOMAIN panels |-> [panels[i] EXCEPT !.id = i]]

(***************************************************************************)
(* recalculate_grid_positions: walking the distinct y values of the full   *)
(* list top to bottom, a y at which no kept panel remains adds the largest *)
(* h of the panels at that y to the running offset; every kept panel moves *)
(* up by the offset in effect at its own y.                                *)
(***************************************************************************)
YValues(panels) == {panels[i].gridPos.y : i \in DOMAIN panels}

RowHeight(all, y) ==
  Max({all[i].gridPos.h : i \in {j \in DOMAIN all : all[j].gridPos.y = y}})

\* Mutant: kept_y_values taken from the full list, so no row is removed.
YOffsetFromAll(all, kept, y) ==
  LET removed == {r \in YValues(all) : r <= y /\ r \notin YValues(all)}
  IN  MapThenSumSet(LAMBDA r : RowHeight(all, r), removed)

YOffset(all, kept, y) ==
  LET removed == {r \in YValues(all) : r <= y /\ r \notin YValues(kept)}
  IN  MapThenSumSet(LAMBDA r : RowHeight(all, r), removed)

recalculate_grid_positions(all, kept) ==
  IF kept = <<>> THEN kept
  ELSE [i \in DOMAIN kept |->
          [kept[i] EXCEPT !.gridPos.y =
             @ - YOffset(all, kept, kept[i].gridPos.y)]]

(***************************************************************************)
(* update_dashboard_metadata: str.replace of the template version's digits *)
(* by the target's in uid, and the exact tag pg<TEMPLATE_VERSION> by       *)
(* pg<target> in tags (a tag pg<v> is the pair <<"pg", v>>).               *)
(***************************************************************************)
Digits(n) == IF n < 10 THEN <<n>> ELSE <<n \div 10, n % 10>>

update_dashboard_metadata(dashboard, target) ==
  [dashboard EXCEPT
     !.uid  = ReplaceAllSubSeqs(Digits(target), Digits(TEMPLATE_VERSION), @),
     !.tags = [i \in DOMAIN @ |->
                 IF @[i] = <<"pg", TEMPLATE_VERSION>> THEN <<"pg", target>>
                 ELSE @[i]]]

(***************************************************************************)
(* generate_for_version: filter, strip, renumber, recalculate the layout   *)
(* against the stripped full list, then substitute the metadata.           *)
(***************************************************************************)
generate_for_version(template, target) ==
  LET all  == template.panels
      kept == reassign_ids([i \in DOMAIN filter_panels(all, target) |->
                strip_version_field(filter_panels(all, target)[i])])
      allStripped == [i \in DOMAIN all |-> strip_version_field(all[i])]
  IN  update_dashboard_metadata(
        [template EXCEPT !.panels = recalculate_grid_positions(allStripped, kept)],
        target)

=============================================================================
