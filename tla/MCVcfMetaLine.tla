--------------------------- MODULE MCVcfMetaLine ---------------------------
(***************************************************************************)
(* TLC instance of VcfMetaLine: meta lines over a small alphabet of bytes. *)
(***************************************************************************)
EXTENDS VcfMetaLine

x     == 120
Colon == 58
Us    == 95
Bang  == 33
Lt    == 60
Gt    == 62
Eq    == 61
Comma == 44

\* Literals of the instance.
Hashes == <<Hash, Hash>>
AltOpen == AltPrefix
Descr(t) == DescrPrefix \o t \o <<Quote>>
Quoted(t) == <<Quote>> \o t \o <<Quote>>

\* ##ALT=<ID=x,Description="x">
AltLine == AltOpen \o <<x>> \o Descr(<<x>>) \o <<Gt, LF>>
\* ##ALT=<ID=x:x,Description="x",x="x">
AltExtraLine == AltOpen \o <<x, Colon, x>> \o Descr(<<x>>)
                  \o <<Comma, x, Eq>> \o Quoted(<<x>>) \o <<Gt, LF>>
\* ##ALT=<ID=:,Description="x">: no alphanumeric in the id.
AltBadIdLine == AltOpen \o <<Colon>> \o Descr(<<x>>) \o <<Gt, LF>>
\* ##ALT=<ID=x>: no description.
AltNoDescrLine == AltOpen \o <<x, Gt, LF>>
\* ##ALT=x: not structured.
AltFreeLine == <<Hash, Hash, 65, 76, 84, Eq, x, LF>>
\* ##x=xx
FreeLine == Hashes \o <<x, Eq, x, x, LF>>
\* ##x=<x="x",x=x>
StructLine == Hashes \o <<x, Eq, Lt, x, Eq>> \o Quoted(<<x>>)
                \o <<Comma, x, Eq, x, Gt, LF>>
\* #x: not a meta line.
BadLine == <<Hash, x, LF>>

MCLines == {AltLine, AltExtraLine, AltBadIdLine, AltNoDescrLine, AltFreeLine,
            FreeLine, StructLine, BadLine}

\* ##x=<x= ends in the middle of a structured value; x> closes it.
OpenValueLine == Hashes \o <<x, Eq, Lt, x, Eq, LF>>
CloseLine == <<x, Gt, LF>>
MCOpenLines == {OpenValueLine, CloseLine, FreeLine}

\* ##ALT=<ID=_x,Description="x">
AltUsLine == AltOpen \o <<Us, x>> \o Descr(<<x>>) \o <<Gt, LF>>
MCAltIdLines == {AltLine, AltUsLine}

\* ##x=!x
MCFreeLines == {Hashes \o <<x, Eq, Bang, x, LF>>}

=============================================================================
