------------------------ MODULE MCLegacyVcfScanner ------------------------
(***************************************************************************)
(* TLC instance of LegacyVcfScanner: whole files drawn line by line from   *)
(* a few line shapes of every section.                                     *)
(***************************************************************************)
EXTENDS LegacyVcfScanner

\* The bytes of a string, written as codes.
Hash == 35
Dot == 46
x == 120
d1 == 49
d5 == 53
A == 65

\* Columns joined by tabs, then the newline.
RECURSIVE JoinTabs(_)
JoinTabs(c) ==
  IF Len(c) = 1 THEN Head(c) ELSE Head(c) \o <<Tab>> \o JoinTabs(Tail(c))
Line(c) == JoinTabs(c) \o <<LF>>

\* "##fileformat=v"
FileformatLine ==
  <<35, 35, 102, 105, 108, 101, 102, 111, 114, 109, 97, 116, 61, 118, LF>>
\* "##x=<a=b>"
MetaLine == <<35, 35, x, 61, 60, 97, 61, 98, 62, LF>>
\* "#x": neither a meta entry nor the header.
BadMetaLine == <<35, x, LF>>
\* "#CHROM\tPOS\tID\tREF\tALT\tQUAL\tFILTER\tINFO\tFORMAT\ts"
HeaderLine ==
  <<35, 67, 72, 82, 79, 77, Tab, 80, 79, 83, Tab, 73, 68, Tab, 82, 69, 70,
    Tab, 65, 76, 84, Tab, 81, 85, 65, 76, Tab, 70, 73, 76, 84, 69, 82, Tab,
    73, 78, 70, 79, Tab, 70, 79, 82, 77, 65, 84, Tab, 115, LF>>
\* Ten columns.
Body10 == Line(<< <<d1>>, <<d5>>, <<Dot>>, <<A>>, <<Dot>>, <<Dot>>,
                  <<Dot>>, <<Dot>>, <<x>>, <<d1>> >>)
\* Nine columns: FORMAT without a sample.
Body9 == Line(<< <<d1>>, <<d5>>, <<Dot>>, <<A>>, <<Dot>>, <<Dot>>,
                 <<Dot>>, <<Dot>>, <<x>> >>)
\* Eight columns, ending in INFO.
Body8 == Line(<< <<d1>>, <<d5>>, <<Dot>>, <<A>>, <<Dot>>, <<Dot>>,
                 <<Dot>>, <<Dot>> >>)
EmptyLine == <<LF>>

MCLines ==
  {FileformatLine, MetaLine, BadMetaLine, HeaderLine, Body10, Body9, Body8,
   EmptyLine}

=============================================================================
