---------------------------- MODULE VcfMetaLine ----------------------------
(***************************************************************************)
(* The meta section of the VCF v4.1 scanner of                             *)
(* cpp/src/bioformats/vcf/validator_detail.hpp at the level of bytes:      *)
(* the line starts st16, st17, st20; the key of a meta line st18-st21; the *)
(* freeform value st22-st24; the structured value '<...>' st25-st69; the   *)
(* ALT entry st70-st100; the token, key and type events they send to the  *)
(* parse policy; the meta error actions (report, p--, goto st621); the     *)
(* skip state st621 and its newline action tr805; the EOF actions.         *)
(*                                                                         *)
(* Bytes are their integer codes.  The header line ('#C', st354) and the   *)
(* typed entries FILTER, FORMAT, INFO, PEDIGREE, SAMPLE, assembly, contig  *)
(* and pedigreeDB (st101-st353, reached from st18 on their initials) are   *)
(* not modelled: no candidate line starts with them (ScopeAssumption).     *)
(***************************************************************************)
EXTENDS Naturals, Sequences, FiniteSets

CONSTANTS
  Lines,     \* candidate lines: byte sequences ending in LF
  MaxLines   \* bound: lines the caller feeds

LF      == 10
Hash    == 35
Quote   == 34
Digit   == 48..57
Alnum   == Digit \cup 65..90 \cup 97..122
Visible == 32..126
Space   == 9..13                              \* Ragel's 'space': LF included
IdPunct == {45, 46, 95}                       \* '-', '.', '_'
Punct   == Visible \ (Alnum \cup IdPunct)

\* st18: the initials of the typed entries; 'A' (ALT) is modelled.
TypedInitials == {65, 70, 73, 80, 83, 97, 99, 112}

\* A line's only newline is its last byte; bytes are visible or whitespace.
ASSUME LinesAssumption ==
  \A l \in Lines :
    /\ l \in Seq(Visible \cup Space) /\ Len(l) > 0
    /\ \A i \in 1..Len(l) : l[i] = LF <=> i = Len(l)
\* No line starts like the header or a typed entry other than ALT.
ASSUME ScopeAssumption ==
  \A l \in Lines :
    /\ Len(l) >= 2 /\ l[1] = Hash => l[2] # 67
    /\ Len(l) >= 3 /\ l[1] = Hash /\ l[2] = Hash => l[3] \notin TypedInitials \ {65}
ASSUME BoundsAssumption == MaxLines \in Nat

(***************************************************************************)
(* A transition: from state, byte set, target state and the sequence of    *)
(* actions it runs, in the generated order:                                *)
(*   "begin" handle_token_begin   "char" handle_token_char on *p          *)
(*   "end"   handle_token_end     "key"  handle_meta_key                  *)
(*   "type"  handle_meta_typeid   "line" tr35/tr49: handle_meta_line,     *)
(*           its ParsingError reported, then the newline action           *)
(* A byte no transition of the state takes fires its error action.        *)
(***************************************************************************)
T(f, on, t, act) == [from |-> f, on |-> on, to |-> t, act |-> act]
B   == <<"begin">>
C   == <<"char">>
E   == <<"end">>
BC  == <<"begin", "char">>
CB  == <<"char", "begin">>
CE  == <<"char", "end">>
EC  == <<"end", "char">>
EBC == <<"end", "begin", "char">>
BCE == <<"begin", "char", "end">>
KC  == <<"key", "char">>
CK  == <<"char", "key">>
KBC == <<"key", "begin", "char">>
EOL == <<"end", "line">>          \* tr35
L   == <<"line">>                 \* tr49

KeyPunct == (Punct \ {61}) \cup {45, 46}
KeyChar  == Alnum \cup {95}

\* st16 (after the fileformat line), st20 (after a meta line), st17.
LineStartEdges ==
  { T(16, {Hash}, 17, <<>>), T(20, {Hash}, 17, <<>>), T(17, {Hash}, 18, <<>>) }

\* st18, st19, st21: a key of alphanumerics and '_' up to '=' (tr38); a
\* line without '=' that ends in st19 or st21 is handed over (tr35).
KeyEdges ==
  { T(18, KeyPunct, 19, BC), T(18, KeyChar \ TypedInitials, 21, BC),
    T(18, {65}, 70, BC),
    T(19, {LF}, 20, EOL), T(19, Visible \ {61}, 19, C),
    T(21, {LF}, 20, EOL), T(21, KeyPunct, 19, C), T(21, KeyChar, 21, C),
    T(21, {61}, 22, <<"type">>) }

\* st22-st24: the first byte of a freeform value is consumed before the
\* token begins (tr41 on the second byte).
FreeformEdges ==
  { T(22, Visible \ {60}, 23, <<>>), T(22, {60}, 25, <<>>),
    T(23, Visible, 24, BC),
    T(24, {LF}, 20, EOL), T(24, Visible, 24, C) }

\* st25-st28: after '<'; any text up to a final '>' (st27, st28).
OpenEdges ==
  { T(25, Punct \ {60}, 26, <<>>), T(25, IdPunct, 29, B),
    T(25, Alnum, 69, BC),
    T(26, Visible, 27, BC),
    T(27, Visible \ {62}, 27, C), T(27, {62}, 28, CE),
    T(28, {LF}, 20, L), T(28, Visible \ {62}, 27, C), T(28, {62}, 28, CE) }

\* st29-st31: the first attribute key, up to '=' (tr54).
FirstKeyEdges ==
  { T(29, Punct, 27, BC), T(29, IdPunct, 30, BC), T(29, Alnum, 31, CB),
    T(30, Punct \ {62}, 27, C), T(30, IdPunct, 30, C), T(30, Alnum, 31, C),
    T(30, {62}, 28, CE),
    T(31, Punct \ {61, 62}, 27, C), T(31, Alnum \cup IdPunct, 31, C),
    T(31, {61}, 32, KC), T(31, {62}, 28, CE) }

\* st32, st33: the first value; whitespace (st33) runs to ',' or '>'.
FirstValueEdges ==
  { T(32, Space, 33, BC), T(32, Visible \ {34, 44, 62}, 48, BC),
    T(32, {34}, 62, BC), T(32, {44}, 27, C), T(32, {62}, 28, CE),
    T(33, (Visible \cup Space) \ {44, 62}, 33, C), T(33, {44}, 34, E),
    T(33, {62}, 43, E) }

\* st34-st37: a further key; leading '-', '.', '_' are not handed over.
NextKeyEdges ==
  { T(34, IdPunct, 35, B), T(34, Alnum, 36, BC),
    T(35, IdPunct, 35, <<>>), T(35, Alnum, 36, C),
    T(36, Alnum \cup IdPunct, 36, C), T(36, {61}, 37, <<"key">>),
    T(37, (Visible \cup Space) \ {34, 44, 62}, 33, BC), T(37, {34}, 38, BC) }

\* st38, st39: a value that starts with '"'.
QuotedValueEdges ==
  { T(38, Space \cup {34}, 33, C), T(38, Visible \ {34, 44, 62}, 39, CB),
    T(38, {44}, 40, EBC), T(38, {62}, 47, EBC),
    T(39, Space, 33, C), T(39, Visible \ {34, 44, 62}, 39, C),
    T(39, {34}, 33, CE), T(39, {44}, 40, EC), T(39, {62}, 47, EC) }

\* st40-st43: a quoted string and what may follow its closing '"'.
StringEdges ==
  { T(40, Punct \ {34}, 41, C), T(40, {34}, 42, E), T(40, IdPunct, 44, BC),
    T(40, Alnum, 45, BC),
    T(41, Visible \ {34}, 41, C), T(41, {34}, 42, E),
    T(42, {44}, 34, <<>>), T(42, {62}, 43, <<>>),
    T(43, {LF}, 20, L) }

\* st44-st47: a key inside an open string.
StringKeyEdges ==
  { T(44, Punct \ {34}, 41, C), T(44, {34}, 42, E), T(44, IdPunct, 44, C),
    T(44, Alnum, 45, C),
    T(45, Punct \ {34, 61}, 41, C), T(45, {34}, 42, E),
    T(45, Alnum \cup IdPunct, 45, C), T(45, {61}, 46, KC),
    T(46, Space, 33, BC), T(46, Visible \ {34, 44, 62}, 39, BC),
    T(46, {34}, 38, BCE), T(46, {44, 62}, 41, C),
    T(47, {LF}, 20, L), T(47, Visible \ {34}, 41, C), T(47, {34}, 42, E) }

\* st48-st52: an unquoted value, then the key after its ','.
UnquotedEdges ==
  { T(48, Space, 33, C), T(48, Visible \ {44, 62}, 48, C),
    T(48, {44}, 49, EC), T(48, {62}, 28, EC),
    T(49, Punct \ {62}, 27, C), T(49, IdPunct, 50, BC), T(49, Alnum, 51, BC),
    T(49, {62}, 28, CE),
    T(50, Punct \ {62}, 27, C), T(50, IdPunct, 50, C), T(50, Alnum, 51, C),
    T(50, {62}, 28, CE),
    T(51, Punct \ {61, 62}, 27, C), T(51, Alnum \cup IdPunct, 51, C),
    T(51, {61}, 52, KC), T(51, {62}, 28, CE),
    T(52, Space, 33, BC), T(52, Visible \ {34, 44, 62}, 48, BC),
    T(52, {34}, 53, BC), T(52, {44}, 27, C), T(52, {62}, 28, CE) }

\* st53-st58: a quoted value after a later key.
LaterQuotedEdges ==
  { T(53, Space, 33, C), T(53, Visible \ {34, 44, 62}, 54, CB),
    T(53, {34}, 48, C), T(53, {44}, 55, EBC), T(53, {62}, 58, EBC),
    T(54, Space, 33, C), T(54, Visible \ {34, 44, 62}, 54, C),
    T(54, {34}, 48, CE), T(54, {44}, 55, EC), T(54, {62}, 58, EC),
    T(55, Punct \ {34, 62}, 56, C), T(55, {34}, 57, EC),
    T(55, IdPunct, 59, BC), T(55, Alnum, 60, BC), T(55, {62}, 58, CE),
    T(56, Visible \ {34, 62}, 56, C), T(56, {34}, 57, EC),
    T(56, {62}, 58, CE),
    T(57, Visible \ {44, 62}, 27, C), T(57, {44}, 49, C), T(57, {62}, 28, CE),
    T(58, {LF}, 20, L), T(58, Visible \ {34, 62}, 56, C),
    T(58, {34}, 57, EC), T(58, {62}, 58, CE) }

\* st59-st61: a key inside a later quoted value.
LaterKeyEdges ==
  { T(59, Punct \ {34, 62}, 56, C), T(59, {34}, 57, EC),
    T(59, IdPunct, 59, C), T(59, Alnum, 60, C), T(59, {62}, 58, CE),
    T(60, Punct \ {34, 61, 62}, 56, C), T(60, {34}, 57, EC),
    T(60, Alnum \cup IdPunct, 60, C), T(60, {61}, 61, KC),
    T(60, {62}, 58, CE),
    T(61, Space, 33, BC), T(61, Visible \ {34, 44, 62}, 54, BC),
    T(61, {34}, 53, BCE), T(61, {44}, 56, C), T(61, {62}, 58, CE) }

\* st62-st68: the first value quoted.
FirstQuotedEdges ==
  { T(62, Space, 33, C), T(62, Visible \ {34, 44, 62}, 63, CB),
    T(62, {34}, 48, C), T(62, {44}, 64, EBC), T(62, {62}, 58, EBC),
    T(63, Space, 33, C), T(63, Visible \ {34, 44, 62}, 63, C),
    T(63, {34}, 48, CE), T(63, {44}, 64, EC), T(63, {62}, 58, EC),
    T(64, Punct \ {34, 62}, 56, C), T(64, {34}, 57, EC),
    T(64, IdPunct, 65, CB), T(64, Alnum, 66, CB), T(64, {62}, 58, CE),
    T(65, Punct \ {34, 62}, 56, C), T(65, {34}, 57, EC),
    T(65, IdPunct, 65, C), T(65, Alnum, 66, C), T(65, {62}, 58, CE),
    T(66, Punct \ {34, 61, 62}, 56, C), T(66, {34}, 57, EC),
    T(66, Alnum \cup IdPunct, 66, C), T(66, {61}, 67, CK),
    T(66, {62}, 58, CE),
    T(67, Space, 33, BC), T(67, Visible \ {34, 44, 62}, 68, CB),
    T(67, {34}, 53, EBC), T(67, {44}, 56, C), T(67, {62}, 58, CE),
    T(68, Space, 33, C), T(68, Visible \ {34, 44, 62}, 68, C),
    T(68, {34}, 48, EC), T(68, {44}, 64, CE), T(68, {62}, 58, CE) }

\* st69: the first key starts with an alphanumeric.
KeyStartEdges ==
  { T(69, Punct \ {61}, 27, BC), T(69, Alnum \cup IdPunct, 31, CB),
    T(69, {61}, 32, KBC) }


\* A literal: the states first .. first + Len(lit) - 1 each take one byte.
Chain(first, lit) ==
  { T(first + k - 1, {lit[k]}, first + k, <<>>) : k \in 1..Len(lit) }

\* st70-st72: "ALT" is a key like any other until its '=' (tr130, the
\* typeid "ALT"); any other byte falls back to st19 or st21.
AltKeyEdges ==
  { T(s, {LF}, 20, EOL) : s \in 70..72 } \cup
  { T(s, KeyPunct, 19, C) : s \in 70..72 } \cup
  { T(s, {61}, 22, <<"type">>) : s \in {70, 71} } \cup
  { T(70, KeyChar \ {76}, 21, C), T(70, {76}, 71, C),
    T(71, KeyChar \ {84}, 21, C), T(71, {84}, 72, C),
    T(72, KeyChar, 21, C), T(72, {61}, 73, <<"type">>) }

\* Mutant: st100 closes the id on ',' (an id without an alphanumeric).
AltIdEdgesNoAlnum ==
  Chain(73, <<60, 73, 68, 61>>) \cup
  { T(77, Alnum, 78, KBC), T(77, {58, 95}, 100, <<"key", "begin">>),
    T(78, {44}, 79, E), T(78, Alnum \cup {58, 95}, 78, C),
    T(100, Alnum, 78, C), T(100, {58, 95}, 100, <<>>), T(100, {44}, 79, E) }

\* st73-st78, st100: "<ID=" and the ID, alphanumerics, ':' and '_' with
\* at least one alphanumeric.  tr137 begins the token on a leading ':' or
\* '_' without handing it over, and st100 drops the ones after it.
AltIdEdges ==
  Chain(73, <<60, 73, 68, 61>>) \cup
  { T(77, Alnum, 78, KBC), T(77, {58, 95}, 100, <<"key", "begin">>),
    T(78, {44}, 79, E), T(78, Alnum \cup {58, 95}, 78, C),
    T(100, Alnum, 78, C), T(100, {58, 95}, 100, <<>>) }

\* st79-st93: "Description=" and a non-empty quoted string (tr152 marks
\* the key).
AltDescriptionEdges ==
  Chain(79, <<68, 101, 115, 99, 114, 105, 112, 116, 105, 111, 110, 61>>) \cup
  { T(91, {34}, 92, <<"key">>), T(92, Visible \ {34}, 93, BC),
    T(93, Visible \ {34}, 93, C), T(93, {34}, 94, E) }

\* st94-st99: further key="text" attributes, then '>' and the newline.
AltExtraEdges ==
  { T(94, {44}, 95, <<>>), T(94, {62}, 99, <<>>),
    T(95, IdPunct, 96, B), T(95, Alnum, 97, BC),
    T(96, IdPunct, 96, <<>>), T(96, Alnum, 97, C),
    T(97, Alnum \cup IdPunct, 97, C), T(97, {61}, 98, E),
    T(98, {34}, 92, <<>>), T(99, {LF}, 20, L) }

Edges ==
  LineStartEdges \cup KeyEdges \cup FreeformEdges \cup OpenEdges
    \cup FirstKeyEdges \cup FirstValueEdges \cup NextKeyEdges
    \cup QuotedValueEdges \cup StringEdges \cup StringKeyEdges
    \cup UnquotedEdges \cup LaterQuotedEdges \cup LaterKeyEdges
    \cup FirstQuotedEdges \cup KeyStartEdges \cup AltKeyEdges
    \cup AltIdEdges \cup AltDescriptionEdges \cup AltExtraEdges

Skip      == 621
InLine    == 16..100
States    == InLine \cup {Skip}

\* The generated code is deterministic: no two transitions of a state share
\* a byte.
ASSUME DeterministicAssumption ==
  \A e1, e2 \in Edges :
    e1.from = e2.from /\ e1 # e2 => e1.on \cap e2.on = {}

(***************************************************************************)
(* State.  The parse policy is not in the repository: its token events are *)
(* modelled by what spec 4.2 says they do (begin clears the token, char    *)
(* appends the byte, end hands the token over), and every call it receives *)
(* on the current line is recorded.  n_columns is left out: no meta        *)
(* transition ends a column.                                               *)
(***************************************************************************)
Call == [ev : {"end", "key", "type"}, text : Seq(Visible \cup Space)]
Diag == [line : Nat, sec : {"fileformat", "meta"}, kind : {"grammar", "meta_line"}]
Done == [line : Nat, calls : Seq(Call), ok : BOOLEAN]

VARIABLES
  cs,        \* the Ragel state
  n_lines,   \* ParsingState line counter
  token,     \* the parse policy's current token
  calls,     \* the policy calls of the current line
  diags,     \* errors the error policy reported, in order
  ended,     \* end() has run
  \* history, not program state:
  fed,       \* the lines fed so far
  pos,       \* index in the last line fed of the next byte to scan
  done       \* what tr35/tr49 handed to handle_meta_line, per line

scanner == <<cs, n_lines, token, calls, diags, ended>>
ghost   == <<fed, pos, done>>
vars    == <<scanner, ghost>>

\* The fileformat line has been read: its newline action leaves the
\* scanner in st16 with n_lines = 2.
Init ==
  /\ cs = 16
  /\ n_lines = 2
  /\ token = <<>>
  /\ calls = <<>>
  /\ diags = <<>>
  /\ ended = FALSE
  /\ fed = <<>>
  /\ pos = 1
  /\ done = <<>>

Current == IF fed = <<>> THEN <<>> ELSE fed[Len(fed)]
Byte    == Current[pos]

\* One policy event on byte b.
Event(st, a, b) ==
  CASE a = "begin" -> [st EXCEPT !.token = <<>>]
    [] a = "char"  -> [st EXCEPT !.token = Append(@, b)]
    [] a = "end"   -> [st EXCEPT !.calls = Append(@, [ev |-> "end", text |-> st.token])]
    [] OTHER       -> [st EXCEPT !.calls = Append(@, [ev |-> a, text |-> <<>>])]

\* The events of a transition, run in order from the current token and calls.
Events(act, b) ==
  LET f[i \in 0..Len(act)] ==
        IF i = 0 THEN [token |-> token, calls |-> calls]
        ELSE Event(f[i - 1], act[i], b)
  IN  f[Len(act)]

Ends(act) == Len(act) > 0 /\ act[Len(act)] = "line"
Front(act) == SubSeq(act, 1, Len(act) - 1)

MetaError(sec, kind) == [line |-> n_lines, sec |-> sec, kind |-> kind]

-----------------------------------------------------------------------------
(* The caller hands the next line once the previous one is scanned.        *)
Feed ==
  /\ ~ended
  /\ pos > Len(Current)
  /\ Len(fed) < MaxLines
  /\ \E l \in Lines : fed' = Append(fed, l)
  /\ pos' = 1
  /\ UNCHANGED <<scanner, done>>

\* A transition inside a line and the policy events it runs.
Transition(e) ==
  /\ ~Ends(e.act)
  /\ cs' = e.to
  /\ token' = Events(e.act, Byte).token
  /\ calls' = Events(e.act, Byte).calls
  /\ pos' = pos + 1
  /\ UNCHANGED <<n_lines, diags, ended, fed, done>>

\* tr35, tr49: the token end (tr35), handle_meta_line, whose ParsingError
\* is reported as a meta error, then handle_newline, ++n_lines.
EndOfLine(e) ==
  /\ Ends(e.act)
  /\ cs' = e.to
  /\ \E ok \in BOOLEAN :
       /\ done' = Append(done, [line |-> n_lines,
                                calls |-> Events(Front(e.act), Byte).calls,
                                ok |-> ok])
       /\ diags' = IF ok THEN diags
                   ELSE Append(diags, MetaError("meta", "meta_line"))
  /\ n_lines' = n_lines + 1
  /\ token' = <<>>
  /\ calls' = <<>>
  /\ pos' = pos + 1
  /\ UNCHANGED <<ended, fed>>

\* The section an error action reports: tr18 in st16 runs the fileformat
\* handler first, every other meta error action the meta handler.
SectionOf(s) == IF s = 16 THEN "fileformat" ELSE "meta"

\* Mutant: the error action jumps past the skip state.
ErrorActionPastSkip ==
  /\ diags' = Append(diags, MetaError(SectionOf(cs), "grammar"))
  /\ cs' = Skip + 1
  /\ UNCHANGED <<n_lines, token, calls, ended, ghost>>

\* A byte no transition of cs takes: the first error handler of the chain
\* reports, p-- holds the byte, and the scanner jumps to st621.
ErrorAction ==
  /\ diags' = Append(diags, MetaError(SectionOf(cs), "grammar"))
  /\ cs' = Skip
  /\ UNCHANGED <<n_lines, token, calls, ended, ghost>>

\* st621 swallows bytes up to the newline.
SkipByte ==
  /\ Byte # LF
  /\ pos' = pos + 1
  /\ UNCHANGED <<scanner, fed, done>>

\* Mutant: the skipped newline is not counted.
SkipNewlineUncounted ==
  /\ Byte = LF
  /\ cs' = 20
  /\ token' = <<>>
  /\ calls' = <<>>
  /\ pos' = pos + 1
  /\ UNCHANGED <<n_lines, diags, ended, fed, done>>

\* tr805: handle_newline, ++n_lines, and back to st20.
SkipNewline ==
  /\ Byte = LF
  /\ cs' = 20
  /\ n_lines' = n_lines + 1
  /\ token' = <<>>
  /\ calls' = <<>>
  /\ pos' = pos + 1
  /\ UNCHANGED <<diags, ended, fed, done>>

Takes(e) == e.from = cs /\ Byte \in e.on

\* One iteration of parse_buffer's loop on the byte at p.
Scan ==
  /\ ~ended
  /\ pos <= Len(Current)
  /\ \/ cs = Skip /\ (SkipByte \/ SkipNewline)
     \/ \E e \in Edges : Takes(e) /\ (Transition(e) \/ EndOfLine(e))
     \/ /\ cs # Skip
        /\ \A e \in Edges : ~Takes(e)
        /\ ErrorAction

\* end(): every meta state has an EOF action, the first handler of its
\* chain reports (fileformat in st16, meta otherwise) and p-- goto st621.
End ==
  /\ ~ended
  /\ ended' = TRUE
  /\ \/ /\ cs \in InLine
        /\ diags' = Append(diags, MetaError(SectionOf(cs), "grammar"))
        /\ cs' = Skip
     \/ /\ cs = Skip
        /\ UNCHANGED <<cs, diags>>
  /\ UNCHANGED <<n_lines, token, calls, ghost>>

\* After end() the caller makes no more calls.
Stopped ==
  /\ ended
  /\ UNCHANGED vars

Next == Feed \/ Scan \/ End \/ Stopped

Spec == Init /\ [][Next]_vars


-----------------------------------------------------------------------------
(* Properties.                                                             *)

TypeOK ==
  /\ cs \in States
  /\ n_lines \in Nat \ {0}
  /\ token \in Seq(Visible \cup Space)
  /\ calls \in Seq(Call)
  /\ diags \in Seq(Diag) /\ ended \in BOOLEAN
  /\ fed \in Seq(Lines) /\ pos \in Nat \ {0} /\ done \in Seq(Done)

\* The input, seen from outside: the k-th line fed after the fileformat
\* line is line k + 1, and the newline bytes consumed so far.
LineText(n) == fed[n - 1]
IsFed(n)    == n - 1 \in 1..Len(fed)
NewlinesConsumed ==
  IF fed = <<>> THEN 0 ELSE Len(fed) - 1 + (IF pos > Len(Current) THEN 1 ELSE 0)

Handed(n) == \E i \in 1..Len(done) : done[i].line = n

Verdicts(n) ==
  Cardinality({i \in 1..Len(diags) : diags[i].line = n /\ diags[i].kind = "grammar"})
    + Cardinality({i \in 1..Len(done) : done[i].line = n})

\* Line-by-line resynchronisation in the meta section (spec 2.5, 4.5): the
\* line counter counts exactly the newline bytes consumed, whichever state
\* consumes them, and every finished line got exactly one verdict: one
\* grammar error, or one pass through tr35/tr49 to handle_meta_line.
MetaLineVerdicts ==
  /\ n_lines = 2 + NewlinesConsumed
  /\ \A n \in 2..(n_lines - 1) : Verdicts(n) = 1

(***************************************************************************)
(* The ALT meta entry (spec 3, 6): ##ALT=<ID=id,Description="text"> with    *)
(* optional further key="text" attributes.  An id is alphanumerics, ':'    *)
(* and '_' with at least one alphanumeric; a key is alphanumerics, '-',    *)
(* '.' and '_' with at least one alphanumeric; a text is printable bytes   *)
(* but '"', at least one.                                                  *)
(***************************************************************************)
AltPrefix   == <<35, 35, 65, 76, 84, 61, 60, 73, 68, 61>>          \* ##ALT=<ID=
DescrPrefix == <<44, 68, 101, 115, 99, 114, 105, 112, 116, 105, 111, 110, 61, 34>>

IsAltLine(l) == Len(l) >= 6 /\ SubSeq(l, 1, 6) = SubSeq(AltPrefix, 1, 6)

AllIn(s, S)   == \A i \in 1..Len(s) : s[i] \in S
HasAlnum(s)   == \E i \in 1..Len(s) : s[i] \in Alnum
IsAltId(s)    == AllIn(s, Alnum \cup {58, 95}) /\ HasAlnum(s)
IsAttrKey(s)  == AllIn(s, Alnum \cup IdPunct) /\ HasAlnum(s)
IsText(s)     == Len(s) > 0 /\ AllIn(s, Visible \ {Quote})

\* ,key="text"
IsExtra(s) ==
  /\ Len(s) >= 5 /\ s[1] = 44 /\ s[Len(s)] = Quote
  /\ \E e \in 3..(Len(s) - 2) :
       /\ s[e] = 61 /\ s[e + 1] = Quote
       /\ IsAttrKey(SubSeq(s, 2, e - 1))
       /\ IsText(SubSeq(s, e + 2, Len(s) - 1))

\* s is a run of zero or more extras: ok[k] holds when its first k bytes are.
IsExtras(s) ==
  LET ok[k \in 0..Len(s)] ==
        k = 0 \/ \E j \in 0..(k - 1) : ok[j] /\ IsExtra(SubSeq(s, j + 1, k))
  IN  ok[Len(s)]

IsAltEntry(l) ==
  LET n == Len(l) IN
  /\ n > Len(AltPrefix) + 2
  /\ SubSeq(l, 1, Len(AltPrefix)) = AltPrefix
  /\ l[n - 1] = 62 /\ l[n] = LF
  /\ \E i \in (Len(AltPrefix) + 1)..n, j \in 1..(n - 2) :
       /\ i + Len(DescrPrefix) < j
       /\ IsAltId(SubSeq(l, Len(AltPrefix) + 1, i))
       /\ SubSeq(l, i + 1, i + Len(DescrPrefix)) = DescrPrefix
       /\ IsText(SubSeq(l, i + Len(DescrPrefix) + 1, j - 1))
       /\ l[j] = Quote
       /\ IsExtras(SubSeq(l, j + 1, n - 2))

\* Evaluated once: the candidate lines that are well-formed ALT entries.
AltEntries == {l \in Lines : IsAltEntry(l)}

\* The ALT sub-automaton st70-st100 accepts exactly the ALT entries: a
\* line that starts "##ALT=" reaches handle_meta_line if and only if it is
\* a well-formed entry, and otherwise gets its grammar error.
AltLinesAsSpecified ==
  \A n \in 2..(n_lines - 1) :
    IsFed(n) /\ IsAltLine(LineText(n)) => (Handed(n) <=> LineText(n) \in AltEntries)

(***************************************************************************)
(* What the policy receives, compared with the line.                       *)
(***************************************************************************)
Ended(cl) == LET e == SelectSeq(cl, LAMBDA c : c.ev = "end")
             IN  [k \in 1..Len(e) |-> e[k].text]

FirstAt(l, b) == CHOOSE i \in 1..Len(l) : l[i] = b /\ \A j \in 1..(i - 1) : l[j] # b

\* Spec 3 (MetaEntry) and P5: each ALT id is unique, so the policy must
\* receive the id of an accepted ALT entry whole, as the first token the
\* line hands over (tr138).
AltIdHandedWhole ==
  \A i \in 1..Len(done) :
    LET l == LineText(done[i].line)
    IN  IsAltLine(l) =>
          Ended(done[i].calls)[1] = SubSeq(l, Len(AltPrefix) + 1, FirstAt(l, 44) - 1)

\* ##KEY=VALUE with a key of alphanumerics and '_' and a value not
\* starting with '<'.
IsFreeform(l) ==
  \E e \in 4..(Len(l) - 1) :
    /\ l[e] = 61 /\ AllIn(SubSeq(l, 3, e - 1), Alnum \cup {95})
    /\ l[1] = Hash /\ l[2] = Hash /\ l[e + 1] # 60

FreeValue(l) == SubSeq(l, FirstAt(l, 61) + 1, Len(l) - 1)

\* Spec 3 (MetaEntry.value): a simple meta line like ##reference=... has
\* its value as a freeform string, so the token handed over at the end of
\* the line (tr35) must be the whole value.
FreeformValueHandedWhole ==
  \A i \in 1..Len(done) :
    LET l == LineText(done[i].line)
    IN  IsFreeform(l) => Ended(done[i].calls) = <<FreeValue(l)>>

=============================================================================
