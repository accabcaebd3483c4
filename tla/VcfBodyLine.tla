---------------------------- MODULE VcfBodyLine ----------------------------
(***************************************************************************)
(* The body section of the VCF v4.1 scanner of                             *)
(* cpp/src/bioformats/vcf/validator_detail.hpp at the level of bytes:      *)
(* the per-column sub-automata of CHROM, POS, ID, REF, ALT, QUAL, FILTER,  *)
(* INFO, FORMAT and the samples (Ragel states st400-st438, st554-st569,    *)
(* st618-st620, st623, st624), the token and column events they emit to   *)
(* the parse policy, the body error actions (report, p--, goto st622),     *)
(* the skip state st622, the end-of-line action tr592 and the EOF actions  *)
(* of the body states.                                                     *)
(*                                                                         *)
(* Bytes are their integer codes.  The typed INFO keys (AA, AC, ..., 1000G,*)
(* reached from st416/st432 on the initials in ReservedInfoInitials) and  *)
(* the ALT breakends (st570-st617, reached on '[' and ']') are not         *)
(* modelled: the input alphabet leaves those bytes out (AlphabetAssumption).*)
(***************************************************************************)
EXTENDS Naturals, Sequences, FiniteSets

CONSTANTS
  Lines,          \* candidate body lines: byte sequences ending in LF
  FirstBodyLine,  \* n_lines when the header line has been read
  MaxLines        \* bound: lines the caller feeds

Tab == 9
LF  == 10
Digit     == 48..57
Alpha     == 65..90 \cup 97..122
Alnum     == Digit \cup Alpha
Printable == 33..126
Bases     == {65, 67, 71, 78, 84, 97, 99, 103, 110, 116}   \* ACGNTacgnt

\* st416/st432: '1' and A B C D E H M N S V start the typed INFO keys.
ReservedInfoInitials == {49, 65, 66, 67, 68, 69, 72, 77, 78, 83, 86}
Alphabet == (Printable \ (ReservedInfoInitials \cup {91, 93})) \cup {Tab, LF}

\* Every candidate line ends with its only newline.
ASSUME AlphabetAssumption ==
  \A l \in Lines :
    /\ l \in Seq(Alphabet) /\ Len(l) > 0
    /\ \A i \in 1..Len(l) : l[i] = LF <=> i = Len(l)
ASSUME BoundsAssumption ==
  FirstBodyLine \in Nat \ {0} /\ MaxLines \in Nat

(***************************************************************************)
(* Byte classes that recur in the generated conditions.                    *)
(***************************************************************************)
ChromChar   == Printable \ {58, 60, 62}       \* no ':', '<', '>'
ChromPunct  == ChromChar \ Alnum
FilterPunct == Printable \ (Alnum \cup {59})  \* punctuation but ';'
InfoPunct   == Printable \ (Alnum \cup {59, 61})

(***************************************************************************)
(* A transition: from state, byte set, target state and the actions it    *)
(* runs, a subset of                                                       *)
(*   "begin" handle_token_begin    "char" handle_token_char on *p         *)
(*   "end"   handle_token_end      "col"  handle_column_end, ++n_columns   *)
(*   "eol"   tr592, the end of a body line                                 *)
(* run in the order begin, char, end, col.  Each column is the set of its *)
(* states' transitions; a byte no transition takes fires the column's     *)
(* error action.                                                           *)
(***************************************************************************)
T(f, on, t, act) == [from |-> f, on |-> on, to |-> t, act |-> act]
B  == {"begin"}
BC == {"begin", "char"}
C  == {"char"}
E  == {"end"}
EC == {"end", "col"}

\* st623/st624 (a copy of st623's code at st624), st400, tr530, tr609.
ChromEdges ==
  { T(s, {60}, 423, {}) : s \in {623, 624} } \cup
  { T(s, Alnum, 400, BC) : s \in {623, 624} } \cup
  { T(400, {Tab}, 401, EC), T(400, ChromPunct, 619, C),
    T(400, Alnum, 620, C), T(427, {Tab}, 401, {"col"}) }

\* st423-st427: '<' begins no token, '>' ends it, the tab after it only
\* ends the column (tr609).
ChromAngleEdges ==
  { T(423, Alnum, 424, BC),
    T(424, {62}, 427, E), T(424, ChromPunct, 425, C), T(424, Alnum, 426, C),
    T(425, ChromPunct, 425, C), T(425, Alnum, 426, C),
    T(426, {62}, 427, E), T(426, ChromChar, 426, C) }

\* st619, st620: after punctuation only an alphanumeric may follow before
\* the tab.
ChromTailEdges ==
  { T(619, ChromPunct, 619, C), T(619, Alnum, 620, C),
    T(620, {Tab}, 401, EC), T(620, ChromChar, 620, C) }

\* st401-st403: '-' begins the token without handing it the sign (tr534).
PosEdges ==
  { T(401, {45}, 402, B), T(401, Digit, 403, BC),
    T(402, Digit, 403, C),
    T(403, {Tab}, 404, EC), T(403, Digit, 403, C) }

\* st404, st405: ';' ends one ID and starts the next.
IdEdges ==
  { T(404, Printable \ {59}, 405, BC),
    T(405, {Tab}, 406, EC), T(405, {59}, 404, E),
    T(405, Printable \ {59}, 405, C) }

\* st406, st407.
RefEdges ==
  { T(406, Bases, 407, BC), T(407, {Tab}, 408, EC), T(407, Bases, 407, C) }

\* st408, st409: the first allele is '*', '.', '<id>' or bases.
AltEdges ==
  { T(408, {42}, 409, BC), T(408, {46}, 618, BC), T(408, {60}, 567, BC),
    T(408, Bases, 569, BC),
    T(409, {Tab}, 410, EC), T(409, {44}, 564, E) }

\* tr555, st564-st569: ',' between alleles; '.'-prefixed bases, '<id>',
\* bases optionally ending in '.'.
AltAlleleEdges ==
  { T(s, {Tab}, 410, EC) : s \in {566, 569} } \cup
  { T(s, {44}, 564, E) : s \in {566, 569} } \cup
  { T(564, {42}, 409, BC), T(564, {46}, 565, BC), T(564, {60}, 567, BC),
    T(564, Bases, 569, BC),
    T(565, Bases, 566, C), T(566, Bases, 566, C),
    T(567, {58, 95}, 567, C), T(567, Alnum, 568, C),
    T(568, {62}, 409, C), T(568, Alnum \cup {58, 95}, 568, C),
    T(569, {46}, 409, C), T(569, Bases, 569, C) }

\* st618: '.' as the first allele, alone or before bases.
AltDotEdges ==
  { T(618, {Tab}, 410, EC), T(618, Bases, 566, C) }

\* st410-st412: '.', or a decimal that tr557 lets start with '-'.
QualEdges ==
  { T(410, {45}, 411, BC), T(410, {46}, 563, BC), T(410, {48}, 412, BC),
    T(410, 49..57, 562, BC), T(411, {48}, 412, C), T(411, 49..57, 562, C),
    T(412, {Tab}, 413, EC), T(412, {46}, 557, C), T(412, {69, 101}, 559, C) }

\* st557-st563: fraction, exponent with optional sign.
QualNumberEdges ==
  { T(s, {Tab}, 413, EC) : s \in {558, 561, 562, 563} } \cup
  { T(s, {69, 101}, 559, C) : s \in {558, 562} } \cup
  { T(557, Digit, 558, C), T(558, Digit, 558, C),
    T(559, {43, 45}, 560, C), T(559, Digit, 561, C),
    T(560, Digit, 561, C), T(561, Digit, 561, C),
    T(562, {46}, 557, C), T(562, Digit, 562, C) }

\* st413-st415: punctuation before the first alphanumeric of an identifier
\* begins the token but is not handed to it (tr567, st414).
FilterEdges ==
  { T(413, {46}, 556, BC), T(413, FilterPunct \ {46}, 414, B),
    T(413, Alnum, 415, BC),
    T(414, FilterPunct, 414, {}), T(414, Alnum, 415, C),
    T(415, {Tab}, 416, EC), T(415, {59}, 555, E),
    T(415, Printable \ {59}, 415, C) }

\* st555 after ';' and st556 after a leading '.'.
FilterIdEdges ==
  { T(555, FilterPunct, 414, B), T(555, Alnum, 415, BC),
    T(556, {Tab}, 416, EC), T(556, FilterPunct, 414, {}),
    T(556, Alnum, 415, C) }

\* st416-st418: an untyped key; a newline ends the line (tr592).
InfoEdges ==
  { T(416, {46}, 554, BC), T(416, InfoPunct \ {46}, 417, BC),
    T(416, Alnum \ ReservedInfoInitials, 418, BC),
    T(417, InfoPunct, 417, C), T(417, Alnum, 418, C),
    T(418, {Tab}, 419, EC), T(418, {LF}, 624, {"eol"}),
    T(418, {59}, 432, E), T(418, {61}, 437, C),
    T(418, Printable \ {59, 61}, 418, C) }

\* tr593, st432: the key after ';'.
InfoNextKeyEdges ==
  { T(432, InfoPunct, 417, BC), T(432, Alnum \ ReservedInfoInitials, 418, BC) }

\* tr594, st437, st438: the value after '='.
InfoValueEdges ==
  { T(437, Printable \ {59}, 438, C),
    T(438, {Tab}, 419, EC), T(438, {LF}, 624, {"eol"}), T(438, {59}, 432, E),
    T(438, Printable \ {59}, 438, C) }

\* tr576, st554: INFO starting with '.'.
InfoDotEdges ==
  { T(554, {Tab}, 419, EC), T(554, {LF}, 624, {"eol"}),
    T(554, InfoPunct, 417, C), T(554, Alnum, 418, C) }

\* st419, st420: alphanumeric keys separated by ':'.  st420 has no
\* transition on a newline: a line cannot end after FORMAT.
FormatEdges ==
  { T(419, Alnum, 420, BC),
    T(420, {Tab}, 421, EC), T(420, {58}, 419, E), T(420, Alnum, 420, C) }

\* st421, st422: a sample starts with a genotype allele, a digit or '.';
\* tab to the next sample (tr597), newline to tr592.
SampleEdges ==
  { T(421, {46}, 422, BC), T(421, Digit, 429, BC),
    T(422, {Tab}, 421, EC), T(422, {LF}, 624, {"eol"}),
    T(422, {47, 124}, 428, C), T(422, {58}, 430, C) }

\* tr603, st428-st431: '/' or '|' between alleles, then ':'-separated
\* fields.
SampleFieldEdges ==
  { T(s, {Tab}, 421, EC) : s \in {429, 431} } \cup
  { T(s, {LF}, 624, {"eol"}) : s \in {429, 431} } \cup
  { T(428, {46}, 422, C), T(428, Digit, 429, C),
    T(429, {47, 124}, 428, C), T(429, {58}, 430, C), T(429, Digit, 429, C),
    T(430, Printable \ {58}, 431, C),
    T(431, {58}, 430, C), T(431, Printable \ {58}, 431, C) }

(***************************************************************************)
(* The columns, with the states whose error and EOF actions report them.   *)
(***************************************************************************)
Columns ==
  { [field |-> "CHROM",
     edges |-> ChromEdges \cup ChromAngleEdges \cup ChromTailEdges,
     states |-> {400, 423, 424, 425, 426, 427, 619, 620, 624}],
    [field |-> "POS",    edges |-> PosEdges,    states |-> 401..403],
    [field |-> "ID",     edges |-> IdEdges,     states |-> 404..405],
    [field |-> "REF",    edges |-> RefEdges,    states |-> 406..407],
    [field |-> "ALT",
     edges |-> AltEdges \cup AltAlleleEdges \cup AltDotEdges,
     states |-> {408, 409, 618} \cup 564..569],
    [field |-> "QUAL",   edges |-> QualEdges \cup QualNumberEdges,
     states |-> {410, 411, 412} \cup 557..563],
    [field |-> "FILTER", edges |-> FilterEdges \cup FilterIdEdges,
     states |-> {413, 414, 415, 555, 556}],
    [field |-> "INFO",
     edges |-> InfoEdges \cup InfoNextKeyEdges \cup InfoValueEdges
                 \cup InfoDotEdges,
     states |-> {416, 417, 418, 432, 437, 438, 554}],
    [field |-> "FORMAT", edges |-> FormatEdges, states |-> 419..420],
    [field |-> "SAMPLE", edges |-> SampleEdges \cup SampleFieldEdges,
     states |-> {421, 422} \cup 428..431] }

Edges == UNION {c.edges : c \in Columns}

\* The states that report an error: every body state but st623 (whose
\* error action tr808 is the header's) and the skip state st622.
InLine == UNION {c.states : c \in Columns}
Skip   == 622
LineStart == {623, 624}
States == InLine \cup {Skip, 623}

FieldOf(s) == (CHOOSE c \in Columns : s \in c.states).field

\* The generated code is deterministic: no two transitions of a state share
\* a byte.
ASSUME DeterministicAssumption ==
  \A e1, e2 \in Edges :
    e1.from = e2.from /\ e1 # e2 => e1.on \cap e2.on = {}

Fields == {c.field : c \in Columns} \cup {"none"}
Token  == [col : Nat, text : Seq(Printable)]
Diag   == [line : Nat, col : Nat, sec : {"header", "body"},
           field : Fields, at : Nat]
Done   == [line : Nat, cols : Seq(Nat), toks : Seq(Token), ok : BOOLEAN]

VARIABLES
  cs,         \* the Ragel state
  n_lines,    \* ParsingState line counter
  n_columns,  \* ParsingState column counter, 1-based
  token,      \* the parse policy's current token
  toks,       \* tokens handed to the policy on this line, with their column
  cols,       \* columns handed to handle_column_end on this line
  diags,      \* errors the error policy reported, in order
  ended,      \* end() has run
  \* history, not program state:
  fed,        \* the lines fed so far
  pos,        \* index in the last line fed of the next byte to scan
  done        \* what tr592 handed to handle_body_line, per line

scanner == <<cs, n_lines, n_columns, token, toks, cols, diags, ended>>
ghost   == <<fed, pos, done>>
vars    == <<scanner, ghost>>

\* The header line has just been read: tr516/tr527 leave the scanner in
\* st623 with n_columns = 1.
Init ==
  /\ cs = 623
  /\ n_lines = FirstBodyLine
  /\ n_columns = 1
  /\ token = <<>>
  /\ toks = <<>>
  /\ cols = <<>>
  /\ diags = <<>>
  /\ ended = FALSE
  /\ fed = <<>>
  /\ pos = 1
  /\ done = <<>>

\* The line being scanned; none before the first is fed.
Current == IF fed = <<>> THEN <<>> ELSE fed[Len(fed)]
Byte    == Current[pos]

(***************************************************************************)
(* The parse policy's token and column events (spec 4.2).                  *)
(***************************************************************************)
TokenAfter(act, b) ==
  CASE BC \subseteq act     -> <<b>>
    [] "begin" \in act      -> <<>>
    [] "char" \in act       -> Append(token, b)
    [] OTHER                -> token

TokensAfter(act) ==
  IF "end" \in act THEN Append(toks, [col |-> n_columns, text |-> token])
                   ELSE toks

\* handle_newline, ++n_lines, n_columns = 1 (ragel l. 27); the policy's
\* per-line accumulator is drained.
Newline ==
  /\ n_lines' = n_lines + 1
  /\ n_columns' = 1
  /\ token' = <<>>
  /\ toks' = <<>>
  /\ cols' = <<>>

BodyError(sec, field) ==
  [line |-> n_lines, col |-> n_columns, sec |-> sec, field |-> field, at |-> pos]

-----------------------------------------------------------------------------
(* The caller hands the next line once the previous one is scanned.        *)
Feed ==
  /\ ~ended
  /\ pos > Len(Current)
  /\ Len(fed) < MaxLines
  /\ \E l \in Lines : fed' = Append(fed, l)
  /\ pos' = 1
  /\ UNCHANGED <<scanner, done>>

\* A transition inside a line: the token and column events it runs.
Transition(e) ==
  /\ e.act # {"eol"}
  /\ cs' = e.to
  /\ token' = TokenAfter(e.act, Byte)
  /\ toks' = TokensAfter(e.act)
  /\ cols' = IF "col" \in e.act THEN Append(cols, n_columns) ELSE cols
  /\ n_columns' = IF "col" \in e.act THEN n_columns + 1 ELSE n_columns
  /\ pos' = pos + 1
  /\ UNCHANGED <<n_lines, diags, ended, fed, done>>

\* tr592: handle_token_end; handle_column_end for the last sample only when
\* n_columns > 9; optional_check_body_entry (its warnings are VcfParser's);
\* handle_body_line, whose ParsingError is reported; the newline action.
EndOfLine(e) ==
  LET lastToks == TokensAfter({"end"})
      lastCols == IF n_columns > 9 THEN Append(cols, n_columns) ELSE cols
  IN  /\ e.act = {"eol"}
      /\ cs' = e.to
      /\ \E ok \in BOOLEAN :
           /\ done' = Append(done, [line |-> n_lines, cols |-> lastCols,
                                    toks |-> lastToks, ok |-> ok])
           /\ diags' = IF ok THEN diags
                       ELSE Append(diags, BodyError("body", "none"))
      /\ Newline
      /\ pos' = pos + 1
      /\ UNCHANGED <<ended, fed>>

ErrorOf(s) ==
  IF s = 623 THEN BodyError("header", "none") ELSE BodyError("body", FieldOf(s))

\* Seeded fault: a body error action that jumps to the meta skip state.
ErrorActionToMetaSkip ==
  /\ diags' = Append(diags, ErrorOf(cs))
  /\ cs' = 621
  /\ UNCHANGED <<n_lines, n_columns, token, toks, cols, ended, ghost>>

\* Seeded fault: an error action without p--, which consumes the byte.
ErrorActionConsumes ==
  /\ diags' = Append(diags, ErrorOf(cs))
  /\ cs' = Skip
  /\ pos' = pos + 1
  /\ UNCHANGED <<n_lines, n_columns, token, toks, cols, ended, fed, done>>

\* A byte no transition of cs takes: the column's error action reports,
\* p-- holds the byte, and the scanner jumps to st622.  In st623 the first
\* action of tr808 is the header's error.
ErrorAction ==
  /\ diags' = Append(diags, ErrorOf(cs))
  /\ cs' = Skip
  /\ UNCHANGED <<n_lines, n_columns, token, toks, cols, ended, ghost>>

\* st622 swallows bytes up to the newline, counts it (tr807) and resumes
\* in st624.
SkipByte ==
  /\ Byte # LF
  /\ pos' = pos + 1
  /\ UNCHANGED <<scanner, fed, done>>

\* Seeded fault: tr807 that does not reset n_columns.
SkipNewlineKeepsColumn ==
  /\ Byte = LF
  /\ cs' = 624
  /\ n_lines' = n_lines + 1
  /\ token' = <<>> /\ toks' = <<>> /\ cols' = <<>>
  /\ pos' = pos + 1
  /\ UNCHANGED <<n_columns, diags, ended, fed, done>>

\* Seeded fault: tr807 that goes back to st622 instead of st624.
SkipNewlineStaysInSkip ==
  /\ Byte = LF
  /\ cs' = Skip
  /\ Newline
  /\ pos' = pos + 1
  /\ UNCHANGED <<diags, ended, fed, done>>

SkipNewline ==
  /\ Byte = LF
  /\ cs' = 624
  /\ Newline
  /\ pos' = pos + 1
  /\ UNCHANGED <<diags, ended, fed, done>>

Takes(e) == e.from = cs /\ Byte \in e.on

\* One iteration of parse_buffer's loop on the byte at p: the skip state,
\* a transition of cs, or the error action when cs has none for the byte.
Scan ==
  /\ ~ended
  /\ pos <= Len(Current)
  /\ \/ cs = Skip /\ (SkipByte \/ SkipNewline)
     \/ \E e \in Edges : Takes(e) /\ (Transition(e) \/ EndOfLine(e))
     \/ /\ cs # Skip
        /\ \A e \in Edges : ~Takes(e)
        /\ ErrorAction

\* end(): the EOF action of the current state.  The final states st623 and
\* st624 and the skip state have none; every other body state reports its
\* column's error and jumps to st622.
EofStates == InLine \ LineStart

End ==
  /\ ~ended
  /\ ended' = TRUE
  /\ \/ /\ cs \in EofStates
        /\ diags' = Append(diags, BodyError("body", FieldOf(cs)))
        /\ cs' = Skip
     \/ /\ cs \notin EofStates
        /\ UNCHANGED <<cs, diags>>
  /\ UNCHANGED <<n_lines, n_columns, token, toks, cols, ghost>>

\* After end() the caller makes no more calls.
Stopped ==
  /\ ended
  /\ UNCHANGED vars

Next == Feed \/ Scan \/ End \/ Stopped

Spec == Init /\ [][Next]_vars

\* parse_buffer runs its loop until p reaches pe: a byte that has been
\* handed over is eventually scanned.  The caller (Feed, End) is not fair.
FairSpec == Spec /\ WF_vars(Scan)

-----------------------------------------------------------------------------
(* Properties.                                                             *)

TypeOK ==
  /\ cs \in States
  /\ n_lines \in Nat /\ n_columns \in Nat \ {0}
  /\ token \in Seq(Printable)
  /\ toks \in Seq(Token) /\ cols \in Seq(Nat)
  /\ diags \in Seq(Diag) /\ ended \in BOOLEAN
  /\ fed \in Seq(Lines) /\ pos \in Nat \ {0} /\ done \in Seq(Done)

\* The input, seen from outside: the k-th body line fed is line number
\* FirstBodyLine + k - 1, and the newlines consumed so far.
LineText(n) == fed[n - FirstBodyLine + 1]
IsFed(n)    == n - FirstBodyLine + 1 \in 1..Len(fed)
NewlinesConsumed ==
  IF fed = <<>> THEN 0 ELSE Len(fed) - 1 + (IF pos > Len(Current) THEN 1 ELSE 0)

TabsBefore(l, at) == Cardinality({i \in 1..(at - 1) : l[i] = Tab})

\* Every error is reported with the column of the byte it is about: one
\* more than the tabs before that byte in its line.  n_columns is advanced
\* by each column's end action (tr609 after a '<chrom>' included) and must
\* be reset by both newline actions, tr592 and the skip state's tr807
\* (spec 2.5: column_number resets to 1 on every newline).
ErrorColumn ==
  \A i \in 1..Len(diags) :
    LET d == diags[i]
    IN  IsFed(d.line) /\ d.col = 1 + TabsBefore(LineText(d.line), d.at)

\* A grammar error (the section's error action or an EOF action), as
\* opposed to handle_body_line's ParsingError on a scanned line.
IsGrammar(d) == d.sec = "header" \/ d.field # "none"

Verdicts(n) ==
  Cardinality({i \in 1..Len(diags) : diags[i].line = n /\ IsGrammar(diags[i])})
    + Cardinality({i \in 1..Len(done) : done[i].line = n})

\* Resynchronisation at column level (spec P2, 4.5): the line counter
\* counts exactly the newline bytes consumed, whichever state consumes
\* them, and every finished line got exactly one verdict: one grammar
\* error, or one pass through tr592 to handle_body_line.  An error raised
\* on the newline itself must hold it (p--) for the skip state.
BodyLineVerdicts ==
  /\ n_lines = FirstBodyLine + NewlinesConsumed
  /\ \A n \in FirstBodyLine..(n_lines - 1) : Verdicts(n) = 1

\* Whatever a line holds, the scanner gets back to a line start (st624)
\* once its bytes are scanned, or end() is called: no body state waits
\* past the newline (spec 4.5: the skip sub-automaton resumes at the
\* next line).
LineResumes == (cs \notin LineStart) ~> (cs \in LineStart \/ ended)

(***************************************************************************)
(* The tab- and separator-delimited pieces of a line, for the properties   *)
(* that compare what the policy received with the input.                   *)
(***************************************************************************)
NSep(s, sep) == Cardinality({i \in 1..Len(s) : s[i] = sep})
SepPos(s, sep, k) ==
  CHOOSE i \in 1..Len(s) :
    s[i] = sep /\ Cardinality({j \in 1..i : s[j] = sep}) = k
Piece(s, sep, k) ==
  SubSeq(s, IF k = 1 THEN 1 ELSE SepPos(s, sep, k - 1) + 1,
            IF k > NSep(s, sep) THEN Len(s) ELSE SepPos(s, sep, k) - 1)
Pieces(s, sep) == [k \in 1..(NSep(s, sep) + 1) |-> Piece(s, sep, k)]
FieldsOf(l) == Pieces(SubSeq(l, 1, Len(l) - 1), Tab)

\* Spec 3: a position is a non-negative integer, a negative sentinel is
\* forbidden.  No line with a '-' in front of POS is accepted.
PositionNonNegative ==
  \A i \in 1..Len(done) :
    done[i].ok => FieldsOf(LineText(done[i].line))[2][1] # 45

=============================================================================
