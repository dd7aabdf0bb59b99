-------------------------------- MODULE MCPage --------------------------------
(* Page for TLC.                                                            *)
EXTENDS Page

CONSTANTS t1, t2, en, be

Both == {t1, t2}
One == {t1}
MCLang == {en, be}
=============================================================================
