--------------------------- MODULE MCVcfBodyLine ---------------------------
(***************************************************************************)
(* TLC instance of VcfBodyLine: body lines written column by column over  *)
(* a small alphabet of bytes.                                              *)
(***************************************************************************)
EXTENDS VcfBodyLine

\* Bytes of the instance.
x == 120      \* a letter that is not a base
e == 101      \* the exponent letter, an ordinary letter outside QUAL
a == 97       \* a base
g == 103      \* a base
d0 == 48
d5 == 53
Dot == 46
Minus == 45
Semi == 59
Colon == 58
Eq == 61
Comma == 44
Slash == 47
Pipe == 124
Lt == 60
Gt == 62
Star == 42
Us == 95      \* other punctuation

\* The columns joined by tabs, then the newline.
RECURSIVE JoinTabs(_)
JoinTabs(cs_) ==
  IF Len(cs_) = 1 THEN Head(cs_)
  ELSE Head(cs_) \o <<Tab>> \o JoinTabs(Tail(cs_))
Line(cs_) == JoinTabs(cs_) \o <<LF>>

\* Ten columns: a genotype sample.
Full == Line(<< <<x>>, <<d5>>, <<Dot>>, <<a>>, <<Dot>>, <<Dot>>, <<Dot>>,
                <<Dot>>, <<x>>, <<d0, Slash, d0>> >>)
\* Eight columns, ending in INFO; several IDs, two alleles, a signed
\* exponent, two filters, a key=value pair.
NoSamples == Line(<< <<x>>, <<d5>>, <<x, Semi, x>>, <<a, g>>,
                     <<a, Comma, Star>>, <<d5, Dot, d5, e, Minus, d5>>,
                     <<x, Semi, x>>, <<x, Eq, x>> >>)
\* '<x>' chromosome, symbolic allele, '.'-started INFO, two FORMAT keys,
\* a phased sample with a field.
Angles == Line(<< <<Lt, x, Gt>>, <<d5>>, <<Dot>>, <<a>>, <<Lt, x, Gt>>,
                  <<d0>>, <<x>>, <<Dot, x>>, <<x, Colon, x>>,
                  <<d5, Pipe, Dot, Colon, x>> >>)
\* POS is not a number: error in column 2.
BadPos == Line(<< <<x>>, <<x>>, <<Dot>>, <<a>> >>)
\* Nine columns: st420 has no transition on the newline.
NoSample == Line(<< <<x>>, <<d5>>, <<Dot>>, <<a>>, <<Dot>>, <<Dot>>, <<Dot>>,
                    <<Dot>>, <<x>> >>)
\* A first byte no CHROM can start with.
BadStart == Line(<< <<Colon>> >>)

MCLines == {Full, NoSamples, Angles, BadPos, NoSample, BadStart}

\* A '-' in front of POS, then ordinary columns.
NegPos == Line(<< <<x>>, <<Minus, d5>>, <<Dot>>, <<a>>, <<Dot>>, <<Dot>>,
                  <<Dot>>, <<Dot>> >>)
MCNegLines == {Full, NegPos}

=============================================================================
