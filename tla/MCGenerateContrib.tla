------------------------- MODULE MCGenerateContrib --------------------------
(***************************************************************************)
(* Model-checking instances of GenerateContrib.  Documents are enumerated  *)
(* from small sets: two real tags and the empty string, query variants at  *)
(* versions 14 and 15 against the supported versions 13, 14, 15 (so that  *)
(* 13 selects nothing, 14 and 15 select different variants, and the order *)
(* of variants in the document differs from their version order).         *)
(***************************************************************************)
EXTENDS GenerateContrib

MCSupportedVersions == <<13, 14, 15>>

\* two versions whose artifacts differ, for runs over every mix of files
MCDriftVersions == <<14, 15>>

\* documents built from the given value sets, up to the given lengths
DocumentsOf(DocVersions, Tags, Collectors, Sorts, QueryTexts,
            VariantVersions, ColumnLists, QueryLists, MaxQueries, MaxMetrics) ==
  LET Variant == [version : VariantVersions, query : QueryTexts,
                  columns : ColumnLists]
      Metric  == [tag : Tags, collector : Collectors, sort : Sorts,
                  queries : BoundedSeq(Variant, MaxQueries) \cup QueryLists]
  IN  [version : DocVersions, metrics : BoundedSeq(Metric, MaxMetrics)]

\* well-shaped documents, valid or rejected by the tag/version checks
SelectionDocuments ==
  DocumentsOf({1}, {"a", "b", ""}, {Absent, "c"}, {Absent, "s"}, {"q"},
              {14, 15}, {<<"gauge">>}, {}, 2, 2)

\* documents breaking each rule of validate_schema: two metrics for the
\* duplicate and tag rules, one metric for the missing-key rules
MalformedDocuments ==
  DocumentsOf({1, Absent}, {"a", Absent, NotAString}, {Absent}, {Absent},
              {"q"}, {14, Absent}, {<<>>, <<"gauge">>, <<"bogus">>},
              {Absent}, 2, 2)
  \cup
  DocumentsOf({1}, {"a"}, {Absent}, {Absent},
              {"q", Absent}, {14, 15},
              {<<"gauge">>, <<"bogus", Absent>>, <<Absent, "bogus">>, Absent},
              {}, 2, 1)

ContribDocuments == SelectionDocuments \cup MalformedDocuments

\* a fixed document whose artifacts differ between versions
DriftDocuments ==
  {[version |-> 1,
    metrics |-> <<[tag |-> "a", collector |-> Absent, sort |-> Absent,
                   queries |-> <<[version |-> 15, query |-> "q15",
                                  columns |-> <<"gauge">>],
                                 [version |-> 14, query |-> "q14",
                                  columns |-> <<"counter">>]>>]>>]}

=============================================================================
