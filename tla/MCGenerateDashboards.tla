------------------------ MODULE MCGenerateDashboards ------------------------
(***************************************************************************)
(* Model-checking instances of GenerateDashboards.  Panels are 12 wide on  *)
(* a 24-column grid, at x 0 or 12, y 0, 4 or 8, h 4 or 8, and require no  *)
(* version or version 14 or 15, against supported versions 13, 14, 15.    *)
(* Templates are the sets of up to MaxPanels pairwise disjoint panels, in  *)
(* (y, x) order as Grafana saves them.                                     *)
(***************************************************************************)
EXTENDS GenerateDashboards

MCSupportedVersions == <<13, 14, 15>>

MaxPanels == 4

Geometries == [x : {0, 12}, y : {0, 4, 8}, w : {12}, h : {4, 8}]

ReadingOrder(a, b) == a.y < b.y \/ (a.y = b.y /\ a.x < b.x)

Layouts ==
  {SetToSortSeq(S, ReadingOrder) :
     S \in {S \in SUBSET Geometries :
              Cardinality(S) \in 1..MaxPanels
              /\ \A a, b \in S : a # b => ~Overlap(a, b)}}

\* the template of the highest version: uid "pg15", tags pg15 and another
TemplatesOf(PanelVersions) ==
  UNION {{[uid    |-> <<1, 5>>,
           tags   |-> <<<<"pg", 15>>, <<"postgresql", 0>>>>,
           panels |-> [i \in DOMAIN L |->
                         [id |-> i, gridPos |-> L[i], version |-> ver[i]]]] :
            ver \in [DOMAIN L -> PanelVersions]} : L \in Layouts}

LayoutTemplates == TemplatesOf({Absent, 14, 15})

\* one template whose panels differ between versions, and an unreadable one
DriftTemplates ==
  {Absent,
   [uid    |-> <<1, 5>>,
    tags   |-> <<<<"pg", 15>>>>,
    panels |-> <<[id |-> 1, gridPos |-> [x |-> 0, y |-> 0, w |-> 12, h |-> 4],
                  version |-> Absent],
                 [id |-> 2, gridPos |-> [x |-> 0, y |-> 4, w |-> 12, h |-> 4],
                  version |-> 14]>>]}

=============================================================================
