--------------------------- MODULE MCMacroExtract ---------------------------
(***************************************************************************)
(* Headers of up to three lines: an unrelated line, the define line with   *)
(* up to four tokens after `#define INTERNAL_YAML ""` (or a malformed      *)
(* define), and a continuation line of up to three tokens; and headers    *)
(* where a define of a longer name (DX) comes first.                       *)
(***************************************************************************)
EXTENDS MacroExtract

Bodies == BoundedSeq({"Q", "B", "n", "x"}, 4)

DefineLines == {<<"D", "Q", "Q">> \o b : b \in Bodies} \cup {<<"D", "x">>}

MCHeaders ==
  {<<d>> : d \in DefineLines}
  \cup {<<d, l>> : d \in DefineLines, l \in BoundedSeq({"Q", "B", "t", "x"}, 3)}
  \cup {<<<<"x">>>>, <<<<"x">>, <<"D", "Q", "Q", "Q", "x", "Q">>>>}
  \* an INTERNAL_YAML_V2 define before the declaration, and on its own
  \cup {<<<<"DX", "Q", "Q">>, <<"D", "Q", "Q", "Q", "x", "Q">>>>,
        <<<<"DX", "Q", "Q", "Q", "x", "Q">>>>}

=============================================================================
