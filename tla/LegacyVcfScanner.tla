------------------------- MODULE LegacyVcfScanner -------------------------
(***************************************************************************)
(* The older VCF v4.1 scanner of                                           *)
(* cpp/src/bioformats/vcf/vcf_validator_detail.hpp, byte by byte: every    *)
(* transition of its 153 Ragel states, the error actions (report, p--,     *)
(* goto st148 / st149), the skip states, the newline and column actions    *)
(* and the EOF actions of end().                                           *)
(*                                                                         *)
(* The only parse-policy event of this scanner is handle_token_begin (no   *)
(* token is ever filled or ended, and every other action is commented     *)
(* out), so the policy's state is left out.  Where the generated code     *)
(* chains two or three error handlers (tr14, tr18, tr88, tr192, ...), the *)
(* first one's goto leaves the action: only it runs.                       *)
(***************************************************************************)
EXTENDS Naturals, Sequences

CONSTANTS
  Lines,     \* candidate input lines: byte sequences ending in LF
  MaxLines   \* bound: lines the caller feeds

Tab == 9
LF  == 10
Digit     == 48..57
Alnum     == Digit \cup 65..90 \cup 97..122
Printable == 33..126
Visible   == 32..126                 \* printable or space
MetaPunct == Visible \ Alnum
IdChar    == Alnum \cup {44, 46, 95} \* alphanumeric, ',', '.', '_'
Bases     == {65, 67, 71, 78, 84}    \* ACGNT

ASSUME LinesAssumption ==
  \A l \in Lines :
    /\ l \in Seq(0..255) /\ Len(l) > 0
    /\ \A i \in 1..Len(l) : l[i] = LF <=> i = Len(l)
ASSUME BoundsAssumption == MaxLines \in Nat

(***************************************************************************)
(* A transition: from state, byte set, target, and "col" (++n_columns,     *)
(* ragel l. 25) or "eol" (the newline action, ragel l. 20, ending a line   *)
(* the scanner accepted).                                                  *)
(***************************************************************************)
T(f, on, t, act) == [from |-> f, on |-> on, to |-> t, act |-> act]

\* States first .. first + Len(lit) - 1 that accept the literal lit.
Chain(first, lit) ==
  {T(first + k - 1, {lit[k]}, first + k, {}) : k \in 1..Len(lit)}

\* st1-st13 "##fileformat=", st14 (tr15), st15, tr16.
FileformatEdges ==
  Chain(1, <<35, 35, 102, 105, 108, 101, 102, 111, 114, 109, 97, 116, 61>>)
  \cup { T(14, Printable, 15, {}), T(15, Printable, 15, {}),
         T(15, {LF}, 16, {"eol"}) }

\* st16 and st20 on '#' (tr19); st17: '#' a meta entry, 'C' the header.
MetaStartEdges ==
  { T(16, {35}, 17, {}), T(20, {35}, 17, {}),
    T(17, {35}, 18, {}), T(17, {67}, 28, {}) }

\* st18-st27: a key (st21), '=' (tr29), '<' (st23) and comma-separated
\* key=value attributes up to '>' (tr35, tr36, tr37); any visible byte
\* after a non-key byte (st19); a newline ends the entry (tr26).
MetaEntryEdges ==
  { T(s, {LF}, 20, {"eol"}) : s \in {19, 21, 22, 23, 24, 25, 26, 27} } \cup
  { T(18, MetaPunct, 19, {}), T(18, Alnum, 21, {}),
    T(19, Visible, 19, {}),
    T(21, {61}, 22, {}), T(21, MetaPunct \ {61}, 19, {}), T(21, Alnum, 21, {}),
    T(22, {60}, 23, {}), T(22, Visible \ {60}, 19, {}),
    T(23, Alnum, 24, {}), T(23, MetaPunct, 19, {}),
    T(24, {61}, 25, {}), T(24, Alnum, 24, {}), T(24, MetaPunct \ {61}, 19, {}),
    T(25, Visible, 26, {}),
    T(26, {44}, 27, {}), T(26, {62}, 26, {}), T(26, Visible \ {44, 62}, 26, {}),
    T(27, {44}, 27, {}), T(27, {62}, 26, {}), T(27, Alnum, 26, {}),
    T(27, MetaPunct \ {44, 62}, 26, {}) }

\* st28-st64 "HROM\tPOS\tID\tREF\tALT\tQUAL\tFILTER\tINFO", then a newline
\* (tr76) or "\tFORMAT\t" (st64-st71) and tab-separated sample names
\* (st72, st73, tr85, tr86).
HeaderEdges ==
  Chain(28, <<72, 82, 79, 77, Tab, 80, 79, 83, Tab, 73, 68, Tab, 82, 69, 70,
              Tab, 65, 76, 84, Tab, 81, 85, 65, 76, Tab, 70, 73, 76, 84, 69,
              82, Tab, 73, 78, 70, 79>>)
  \cup { T(64, {Tab}, 65, {}), T(64, {LF}, 150, {"eol"}) }
  \cup Chain(65, <<70, 79, 82, 77, 65, 84, Tab>>)
  \cup { T(72, Visible, 73, {}),
         T(73, {Tab}, 72, {}), T(73, {LF}, 150, {"eol"}),
         T(73, Visible, 73, {}) }

\* st150/st151 (tr193), st74, tr89: CHROM.
ChromEdges ==
  { T(s, IdChar, 74, {}) : s \in {150, 151} } \cup
  { T(74, {Tab}, 75, {"col"}), T(74, IdChar, 74, {}) }

\* st75, st76, tr93: POS, digits only.
PosEdges ==
  { T(75, Digit, 76, {}), T(76, {Tab}, 77, {"col"}), T(76, Digit, 76, {}) }

\* st77, st78, st147, tr98: ID, '.' or one identifier.
IdEdges ==
  { T(77, {46}, 78, {}), T(77, Alnum \cup {95}, 147, {}),
    T(78, {Tab}, 79, {"col"}),
    T(147, {Tab}, 79, {"col"}), T(147, Alnum \cup {95}, 147, {}) }

\* st79, st80, tr101: REF, upper-case bases.
RefEdges ==
  { T(79, Bases, 80, {}), T(80, {Tab}, 81, {"col"}), T(80, Bases, 80, {}) }

\* st81, st82, st102, st103, st127: ALT, '.', '0' or comma-separated
\* alleles of bases and '.'; tr110.
AltEdges ==
  { T(81, {46}, 82, {}), T(81, {48}, 103, {}), T(81, {60}, 104, {}),
    T(81, Bases, 127, {}), T(81, {91}, 137, {}), T(81, {93}, 143, {}),
    T(82, {Tab}, 83, {"col"}), T(82, {44}, 102, {}),
    T(82, Bases \cup {46}, 82, {}),
    T(102, Bases \cup {46}, 82, {}),
    T(103, {Tab}, 83, {"col"}),
    T(127, {Tab}, 83, {"col"}), T(127, {44}, 102, {}), T(127, {46}, 82, {}),
    T(127, Bases, 127, {}), T(127, {91}, 128, {}), T(127, {93}, 133, {}) }

\* st104-st126, st108, tr151: <CNV>, <DEL>, <DEL:ME:x>, <DUP>,
\* <DUP:TANDEM>, <INS>, <INS:ME:x>, <INV>.
AltSymbolicEdges ==
  Chain(104, <<67, 78, 86, 62>>) \cup
  { T(104, {68}, 109, {}), T(104, {73}, 125, {}),
    T(108, {Tab}, 83, {"col"}),
    T(109, {69}, 110, {}), T(109, {85}, 117, {}), T(110, {76}, 111, {}),
    T(111, {58}, 112, {}), T(111, {62}, 108, {}),
    T(112, {77}, 113, {}), T(113, {69}, 114, {}), T(114, {58}, 115, {}),
    T(115, Alnum, 116, {}), T(116, {62}, 108, {}), T(116, Alnum, 116, {}),
    T(117, {80}, 118, {}), T(118, {58}, 119, {}), T(118, {62}, 108, {}),
    T(119, {84}, 120, {}), T(120, {65}, 121, {}), T(121, {78}, 122, {}),
    T(122, {68}, 123, {}), T(123, {69}, 124, {}), T(124, {77}, 107, {}),
    T(125, {78}, 126, {}), T(126, {83}, 111, {}), T(126, {86}, 107, {}) }

\* st128-st146, st132, tr175: breakends base[chr:pos[, base]chr:pos],
\* [chr:pos[base, ]chr:pos]base.
AltBreakendEdges ==
  { T(s, IdChar, s + 1, {}) : s \in {128, 133, 137, 143} } \cup
  { T(s, IdChar, s, {}) : s \in {129, 134, 138, 144} } \cup
  { T(s, {58}, s + 1, {}) : s \in {129, 134, 138, 144} } \cup
  { T(s, Digit, s + 1, {}) : s \in {130, 135, 139, 145} } \cup
  { T(s, Digit, s, {}) : s \in {131, 136, 140, 146} } \cup
  { T(131, {91}, 132, {}), T(136, {93}, 132, {}),
    T(140, {91}, 141, {}), T(146, {93}, 141, {}),
    T(132, {Tab}, 83, {"col"}),
    T(141, Bases, 142, {}), T(142, Bases, 142, {}),
    T(142, {Tab}, 83, {"col"}) }

\* st83, st84, st99-st101, tr116: QUAL, '.' or a decimal.
QualEdges ==
  { T(83, {46}, 84, {}), T(83, Digit, 99, {}),
    T(84, {Tab}, 85, {"col"}),
    T(99, {Tab}, 85, {"col"}), T(99, {46}, 100, {}), T(99, Digit, 99, {}),
    T(100, Digit, 101, {}),
    T(101, {Tab}, 85, {"col"}), T(101, Digit, 101, {}) }

\* st85, st86, st98, tr119: FILTER, ';'-separated identifiers.
FilterEdges ==
  { T(85, IdChar, 86, {}),
    T(86, {Tab}, 87, {"col"}), T(86, IdChar, 86, {}), T(86, {59}, 98, {}),
    T(98, IdChar, 86, {}) }

\* st87, st88, st94-st97, tr125, tr126: INFO, '.' or ';'-separated keys
\* with optional values; a newline ends an eight-column line.
InfoEdges ==
  { T(s, {Tab}, 89, {"col"}) : s \in {88, 95, 97} } \cup
  { T(s, {LF}, 151, {"eol"}) : s \in {88, 95, 97} } \cup
  { T(s, {59}, 94, {}) : s \in {88, 95} } \cup
  { T(s, {61}, 96, {}) : s \in {88, 95} } \cup
  { T(87, {46}, 88, {}), T(87, Alnum \cup {95}, 95, {}),
    T(94, {46}, 88, {}), T(94, Alnum \cup {95}, 95, {}),
    T(95, Alnum \cup {95}, 95, {}),
    T(96, Printable, 97, {}), T(97, Printable, 97, {}) }

\* Seeded fault: st90 ends the line on a newline, so FORMAT needs no
\* sample.
FormatEdgesEndLine ==
  { T(89, Alnum, 90, {}),
    T(90, {Tab}, 91, {"col"}), T(90, {58}, 93, {}), T(90, Alnum, 90, {}),
    T(90, {LF}, 151, {"eol"}), T(93, Alnum, 90, {}) }

\* st89, st90, st93, tr131: FORMAT, ':'-separated alphanumeric keys.
FormatEdges ==
  { T(89, Alnum, 90, {}),
    T(90, {Tab}, 91, {"col"}), T(90, {58}, 93, {}), T(90, Alnum, 90, {}),
    T(93, Alnum, 90, {}) }

\* st91, st92, tr136, tr137: samples of printable bytes.
SampleEdges ==
  { T(91, Printable, 92, {}),
    T(92, {Tab}, 91, {"col"}), T(92, {LF}, 151, {"eol"}),
    T(92, Printable, 92, {}) }

BodyEdges ==
  ChromEdges \cup PosEdges \cup IdEdges \cup RefEdges \cup AltEdges
  \cup AltSymbolicEdges \cup AltBreakendEdges \cup QualEdges
  \cup FilterEdges \cup InfoEdges \cup FormatEdges \cup SampleEdges

Edges ==
  FileformatEdges \cup MetaStartEdges \cup MetaEntryEdges \cup HeaderEdges
  \cup BodyEdges

\* The generated code is deterministic.
ASSUME DeterministicAssumption ==
  \A e1, e2 \in Edges :
    e1.from = e2.from /\ e1 # e2 => e1.on \cap e2.on = {}

(***************************************************************************)
(* States and their error actions.                                         *)
(***************************************************************************)
LineStart == {1, 16, 20, 150, 151}
Skips     == {148, 149}
States    == 1..151

\* The section the error action of a state reports: tr0/tr14/tr18 in
\* st1-st16, tr20/tr23 in st17-st27, tr38 in the header and tr192 in st150,
\* tr88..tr134 in the body.
SectionOf(s) ==
  CASE s \in 1..16             -> "fileformat"
    [] s \in 17..27            -> "meta"
    [] s \in 28..73 \cup {150} -> "header"
    [] OTHER                   -> "body"

\* fileformat and meta errors jump to st148, header and body errors to
\* st149.
SkipOf(sec) == IF sec \in {"fileformat", "meta"} THEN 148 ELSE 149

\* Seeded fault: tr189/tr191 without their fgoto fall through to st152 /
\* st153.
ResumeFallsThrough(skip) == IF skip = 148 THEN 152 ELSE 153

\* tr189 returns to st20, tr191 to st151.
Resume(skip) == IF skip = 148 THEN 20 ELSE 151

Diag == [line : Nat, sec : {"fileformat", "meta", "header", "body"}]

VARIABLES
  cs,         \* the Ragel state
  n_lines,    \* ParsingState line counter
  n_columns,  \* ParsingState column counter
  diags,      \* errors reported, in order
  ended,      \* end() has run
  \* history, not program state:
  fed,        \* the lines fed so far
  pos,        \* index in the last line fed of the next byte to scan
  handled,    \* lines whose newline action ran outside a skip state
  accepted    \* n_lines and n_columns at the end of every accepted body line

scanner == <<cs, n_lines, n_columns, diags, ended>>
ghost   == <<fed, pos, handled, accepted>>
vars    == <<scanner, ghost>>

\* Parser(): cs = vcf_start; the counters of ParsingState start at line 1,
\* column 1.
Init ==
  /\ cs = 1
  /\ n_lines = 1
  /\ n_columns = 1
  /\ diags = <<>>
  /\ ended = FALSE
  /\ fed = <<>>
  /\ pos = 1
  /\ handled = {}
  /\ accepted = <<>>

Current == IF fed = <<>> THEN <<>> ELSE fed[Len(fed)]
Byte    == Current[pos]

Error == [line |-> n_lines, sec |-> SectionOf(cs)]

-----------------------------------------------------------------------------
\* parse(text) with one line: the caller hands the next line once the
\* previous one is scanned.
Feed ==
  /\ ~ended
  /\ pos > Len(Current)
  /\ Len(fed) < MaxLines
  /\ \E l \in Lines : fed' = Append(fed, l)
  /\ pos' = 1
  /\ UNCHANGED <<scanner, handled, accepted>>

\* A transition inside a line, with its column action.
Transition(e) ==
  /\ e.act # {"eol"}
  /\ cs' = e.to
  /\ n_columns' = IF "col" \in e.act THEN n_columns + 1 ELSE n_columns
  /\ pos' = pos + 1
  /\ UNCHANGED <<n_lines, diags, ended, fed, handled, accepted>>

\* tr16, tr26, tr76, tr86, tr126, tr137: the (commented-out) line handler,
\* then ++n_lines, n_columns = 1.
EndOfLine(e) ==
  /\ e.act = {"eol"}
  /\ cs' = e.to
  /\ n_lines' = n_lines + 1
  /\ n_columns' = 1
  /\ handled' = handled \cup {n_lines}
  /\ accepted' = IF e.to = 151
                 THEN Append(accepted, [line |-> n_lines, cols |-> n_columns])
                 ELSE accepted
  /\ pos' = pos + 1
  /\ UNCHANGED <<diags, ended, fed>>

\* Seeded fault: an error action without its goto, which stays in cs.
ErrorActionStays ==
  /\ diags' = Append(diags, Error)
  /\ UNCHANGED <<cs, n_lines, n_columns, ended, ghost>>

\* A byte no transition of cs takes: the first error handler of the action
\* reports, p-- holds the byte, and its goto jumps to the skip state.
ErrorAction ==
  /\ diags' = Append(diags, Error)
  /\ cs' = SkipOf(SectionOf(cs))
  /\ UNCHANGED <<n_lines, n_columns, ended, ghost>>

\* st148/st149 swallow bytes up to the newline.
SkipByte ==
  /\ Byte # LF
  /\ pos' = pos + 1
  /\ UNCHANGED <<scanner, fed, handled, accepted>>

\* Seeded fault: tr189/tr191 that return to the skip state.
SkipNewlineStaysInSkip ==
  /\ Byte = LF
  /\ n_lines' = n_lines + 1
  /\ n_columns' = 1
  /\ pos' = pos + 1
  /\ UNCHANGED <<cs, diags, ended, fed, handled, accepted>>

\* tr189/tr191: ++n_lines, n_columns = 1, then fgoto st20 / st151.
SkipNewline ==
  /\ Byte = LF
  /\ cs' = Resume(cs)
  /\ n_lines' = n_lines + 1
  /\ n_columns' = 1
  /\ pos' = pos + 1
  /\ UNCHANGED <<diags, ended, fed, handled, accepted>>

Takes(e) == e.from = cs /\ Byte \in e.on

\* One iteration of parse_buffer's loop on the byte at p.
Scan ==
  /\ ~ended
  /\ pos <= Len(Current)
  /\ \/ cs \in Skips /\ (SkipByte \/ SkipNewline)
     \/ \E e \in Edges : Takes(e) /\ (Transition(e) \/ EndOfLine(e))
     \/ /\ cs \notin Skips
        /\ \A e \in Edges : ~Takes(e)
        /\ ErrorAction

\* Seeded fault: no EOF action for the start state st1.
EofStatesFromSecond == 2..147

\* The states of the switch after _test_eof: all but the final states
\* st150, st151 and the skip states.
EofStates == 1..147

\* end(): parse_buffer with p = pe = eof runs the EOF action of cs.
End ==
  /\ ~ended
  /\ ended' = TRUE
  /\ \/ /\ cs \in EofStates
        /\ diags' = Append(diags, Error)
        /\ cs' = SkipOf(SectionOf(cs))
     \/ /\ cs \notin EofStates
        /\ UNCHANGED <<cs, diags>>
  /\ UNCHANGED <<n_lines, n_columns, ghost>>

\* is_valid(): cs >= vcf_first_final (150).
IsValid == cs >= 150

\* After end() the caller makes no more calls.
Stopped == ended /\ UNCHANGED vars

Next == Feed \/ Scan \/ End \/ Stopped

Spec == Init /\ [][Next]_vars

\* parse_buffer loops until p reaches pe.
FairSpec == Spec /\ WF_vars(Scan)


-----------------------------------------------------------------------------
(***************************************************************************)
(* Properties.                                                             *)
(***************************************************************************)
TypeOK ==
  /\ cs \in States
  /\ n_lines \in Nat \ {0}
  /\ n_columns \in Nat \ {0}
  /\ diags \in Seq(Diag)
  /\ ended \in BOOLEAN
  /\ pos \in 1..Len(Current) + 1
  /\ handled \subseteq 1..n_lines - 1
  /\ accepted \in Seq([line : Nat, cols : Nat])

\* Spec P2: a malformed line produces one error.  The generated error
\* actions list two or three handlers (tr14, tr18, tr88, tr91, tr192 and
\* the EOF cases of st14-st17, st20 and the body), each ending in
\* p--; goto: only the goto of the first, and the skip state swallowing
\* the held byte, keep a second handler, or the same byte, from reporting
\* again on that line.
OneErrorPerLine ==
  \A i, j \in 1..Len(diags) : i < j => diags[i].line < diags[j].line

\* Spec 3 (Header): a body line carries the eight mandatory columns, and
\* FORMAT only with at least one sample.  The column counter the ErrorPolicy
\* reads, at the end of every accepted body line, is 8 or at least 10.
AcceptedColumns ==
  \A i \in 1..Len(accepted) : accepted[i].cols = 8 \/ accepted[i].cols >= 10

\* Resynchronisation: once inside a line, the scanner gets back to the start
\* of a line (or the input ends), whatever the bytes.
LineResumes == (cs \notin LineStart) ~> (cs \in LineStart \/ ended)

(***************************************************************************)
(* Refinement of the line-level specification VcfLines: st1-st15 are the  *)
(* fileformat line, st16-st73 and st148 the meta section and the header   *)
(* line, st74-st147, st149, st150 and st151 the body.                      *)
(***************************************************************************)
LinesSection(s) ==
  CASE s \in 1..15                          -> "fileformat"
    [] s \in 16..73 \cup {148}              -> "meta"
    [] s \in 74..147 \cup {149, 150, 151}   -> "body"

LinesPending ==
  IF cs \in Skips THEN "failed"
  ELSE IF cs \in LineStart THEN "idle" ELSE "reading"

LineLevel == INSTANCE VcfLines
           WITH section <- LinesSection(cs), pending <- LinesPending,
                verdicts <- [k \in 1..n_lines - 1 |->
                               IF k \in handled THEN "handled" ELSE "failed"],
                errors <- {diags[i].line : i \in 1..Len(diags)},
                ended <- ended

\* The legacy scanner implements the same line-level contract as the
\* current one: every line gets one verdict, sections are never re-entered,
\* end() fails exactly on an unfinished line or a file without a header.
LinesRefined == LineLevel!Spec

=============================================================================
