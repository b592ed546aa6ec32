---------------------------- MODULE MacroExtract ----------------------------
(***************************************************************************)
(* extract_internal_yaml of scripts/generate_contrib.py: find the          *)
(* #define INTERNAL_YAML line of internal.h, join its continuation lines,  *)
(* check the `#define INTERNAL_YAML ""` prefix, then walk the rest one     *)
(* character at a time, collecting the C string literals and decoding     *)
(* their escapes.                                                          *)
(*                                                                         *)
(* Characters are abstracted to tokens: "D" is the text                    *)
(* `#define INTERNAL_YAML `, "Q" a double quote, "B" a backslash, "n", "t" *)
(* and "r" themselves, "x" any other character.  Decoded text adds "NL",   *)
(* "TAB" and "CR".  A line is a sequence of tokens without its newline and *)
(* trailing whitespace.                                                    *)
(***************************************************************************)
EXTENDS Integers, Sequences, SequencesExt

CONSTANTS
  Headers,   \* the internal.h files the run may be given: sequences of lines
  Error,     \* a ValueError raised by the extraction
  None       \* no result yet

VARIABLES
  lines,       \* the file
  content,     \* the joined macro after the prefix
  i,           \* the cursor of the decoding loop
  in_string,
  current,     \* the literal being collected
  yaml_parts,  \* the literals collected so far
  result,      \* None while running, then the YAML text or Error
  pc           \* "join", "decode", "done"

vars == <<lines, content, i, in_string, current, yaml_parts, result, pc>>

(***************************************************************************)
(* Lines 44-75: the first line containing the define, joined with the     *)
(* lines that follow it while each ends in a backslash (which is dropped). *)
(***************************************************************************)
\* '#define INTERNAL_YAML' in line: D is the declaration's text followed by
\* whitespace, DX the same text inside a longer name (INTERNAL_YAML_V2) or
\* a comment
MacroStart(ls) == SelectInSeq(ls, LAMBDA l : Range(l) \cap {"D", "DX"} # {})

RECURSIVE JoinContinuations(_, _)
JoinContinuations(ls, k) ==
  IF k > Len(ls) THEN <<>>
  ELSE IF ls[k] # <<>> /\ Last(ls[k]) = "B"
       THEN Front(ls[k]) \o JoinContinuations(ls, k + 1)
       ELSE ls[k]

\* re.match(r'#define\s+INTERNAL_YAML\s+""', full_macro)
HasPrefix(macro) == Len(macro) >= 3 /\ SubSeq(macro, 1, 3) = <<"D", "Q", "Q">>

Init ==
  /\ lines \in Headers
  /\ content = <<>>
  /\ i = 1
  /\ in_string = FALSE
  /\ current = <<>>
  /\ yaml_parts = <<>>
  /\ result = None
  /\ pc = "join"

Join ==
  LET start == MacroStart(lines)
      macro == JoinContinuations(lines, start)
  IN
  /\ pc = "join"
  /\ IF start = 0 \/ ~HasPrefix(macro)
       THEN /\ result' = Error
            /\ pc' = "done"
            /\ UNCHANGED content
       ELSE /\ content' = SubSeq(macro, 4, Len(macro))
            /\ pc' = "decode"
            /\ UNCHANGED result
  /\ UNCHANGED <<lines, i, in_string, current, yaml_parts>>

(***************************************************************************)
(* One iteration of the while loop (lines 82-124), one action per branch.  *)
(***************************************************************************)
Escapes == [n |-> "NL", t |-> "TAB", r |-> "CR", B |-> "B", Q |-> "Q"]

Decoding == pc = "decode" /\ i <= Len(content)

\* Mutant: the `i += 1` before `continue` of a non-quote is missing.
SkipOutsideNoAdvance ==
  /\ Decoding
  /\ ~in_string
  /\ in_string' = (content[i] = "Q")
  /\ i' = IF content[i] = "Q" THEN i + 1 ELSE i
  /\ UNCHANGED <<lines, content, current, yaml_parts, result, pc>>

\* outside a literal: a quote opens one, anything else is skipped
SkipOutside ==
  /\ Decoding
  /\ ~in_string
  /\ in_string' = (content[i] = "Q")
  /\ i' = i + 1
  /\ UNCHANGED <<lines, content, current, yaml_parts, result, pc>>

\* Mutant: an unknown escape consumes the character after the backslash.
EscapeDropsUnknown ==
  /\ Decoding
  /\ in_string
  /\ content[i] = "B" /\ i + 1 <= Len(content)
  /\ IF content[i + 1] \in DOMAIN Escapes
       THEN current' = Append(current, Escapes[content[i + 1]]) /\ i' = i + 2
       ELSE current' = Append(current, "B") /\ i' = i + 2
  /\ UNCHANGED <<lines, content, in_string, yaml_parts, result, pc>>

\* Mutant: a decoded escape advances the cursor by three (`i += 3`).
EscapeOverrun ==
  /\ Decoding
  /\ in_string
  /\ content[i] = "B" /\ i + 1 <= Len(content)
  /\ IF content[i + 1] \in DOMAIN Escapes
       THEN current' = Append(current, Escapes[content[i + 1]]) /\ i' = i + 3
       ELSE current' = Append(current, "B") /\ i' = i + 1
  /\ UNCHANGED <<lines, content, in_string, yaml_parts, result, pc>>

\* a backslash with a character after it
Escape ==
  /\ Decoding
  /\ in_string
  /\ content[i] = "B" /\ i + 1 <= Len(content)
  /\ IF content[i + 1] \in DOMAIN Escapes
       THEN current' = Append(current, Escapes[content[i + 1]]) /\ i' = i + 2
       ELSE current' = Append(current, "B") /\ i' = i + 1
  /\ UNCHANGED <<lines, content, in_string, yaml_parts, result, pc>>

\* a closing quote ends the literal
CloseString ==
  /\ Decoding
  /\ in_string
  /\ ~(content[i] = "B" /\ i + 1 <= Len(content))
  /\ content[i] = "Q"
  /\ in_string' = FALSE
  /\ yaml_parts' = Append(yaml_parts, current)
  /\ current' = <<>>
  /\ i' = i + 1
  /\ UNCHANGED <<lines, content, result, pc>>

\* any other character inside a literal, a final backslash included
Literal ==
  /\ Decoding
  /\ in_string
  /\ ~(content[i] = "B" /\ i + 1 <= Len(content))
  /\ content[i] # "Q"
  /\ current' = Append(current, content[i])
  /\ i' = i + 1
  /\ UNCHANGED <<lines, content, in_string, yaml_parts, result, pc>>

\* lines 126-130: no literal at all is an error, else their concatenation
Finish ==
  /\ pc = "decode"
  /\ i > Len(content)
  /\ result' = IF yaml_parts = <<>> THEN Error ELSE FlattenSeq(yaml_parts)
  /\ pc' = "done"
  /\ UNCHANGED <<lines, content, i, in_string, current, yaml_parts>>

Next ==
  \/ Join
  \/ SkipOutside
  \/ Escape
  \/ CloseString
  \/ Literal
  \/ Finish

Spec == Init /\ [][Next]_vars /\ WF_vars(Next)

-----------------------------------------------------------------------------
(***************************************************************************)
(* Properties                                                              *)
(***************************************************************************)
TypeOK ==
  /\ pc \in {"join", "decode", "done"}
  /\ i \in 1..Len(content) + 1
  /\ in_string \in BOOLEAN
  /\ current \in Seq(STRING)
  /\ yaml_parts \in Seq(Seq(STRING))

(***************************************************************************)
(* The recovery adapter of spec section 6, written over the string as a    *)
(* grammar rather than a cursor: literals are delimited by quotes; inside  *)
(* one, \n \t \r \\ \" decode to one character and any other backslash    *)
(* sequence is a literal backslash followed by the next character; a      *)
(* literal that is never closed is no segment.                             *)
(***************************************************************************)
SpecEscapes == [n |-> "NL", t |-> "TAB", r |-> "CR", B |-> "B", Q |-> "Q"]

RECURSIVE SpecOutside(_), SpecInside(_, _)
SpecOutside(s) ==
  IF s = <<>> THEN <<>>
  ELSE IF Head(s) = "Q" THEN SpecInside(Tail(s), <<>>)
  ELSE SpecOutside(Tail(s))
SpecInside(s, lit) ==
  CASE s = <<>>      -> <<>>
    [] Head(s) = "Q" -> lit \o SpecOutside(Tail(s))
    [] Head(s) = "B" /\ Len(s) >= 2 ->
         SpecInside(SubSeq(s, 3, Len(s)),
                    lit \o (IF s[2] \in DOMAIN SpecEscapes THEN <<SpecEscapes[s[2]]>>
                            ELSE <<"B", s[2]>>))
    [] OTHER         -> SpecInside(Tail(s), Append(lit, Head(s)))

\* The number of literals the grammar finds.
RECURSIVE Literals(_, _)
Literals(s, inLit) ==
  CASE s = <<>> -> 0
    [] ~inLit /\ Head(s) = "Q" -> Literals(Tail(s), TRUE)
    [] ~inLit -> Literals(Tail(s), FALSE)
    [] Head(s) = "Q" -> 1 + Literals(Tail(s), FALSE)
    [] Head(s) = "B" /\ Len(s) >= 2 -> Literals(SubSeq(s, 3, Len(s)), TRUE)
    [] OTHER -> Literals(Tail(s), TRUE)

\* The character loop decodes exactly what the spec's adapter does: when
\* it ends without an error its result is the concatenation of the decoded
\* literals, and it ends in an error only when there is no literal at all.
DecodeMatchesSpec ==
  (pc = "done" /\ MacroStart(lines) # 0
               /\ HasPrefix(JoinContinuations(lines, MacroStart(lines)))) =>
    IF Literals(content, FALSE) = 0 THEN result = Error
    ELSE result = SpecOutside(content)

\* The decoding loop always terminates: every branch advances the cursor.
ExtractionTerminates == <>(pc = "done")

=============================================================================
