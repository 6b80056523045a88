---------------------------- MODULE MCDepsChecker ----------------------------
(***************************************************************************)
(* An instance of DepsChecker for TLC: three words and one define, which   *)
(* may hold itself.  The root `b' holds the directories `b/u' and `b/n',   *)
(* and `b/.*' is a pattern that matches both.                              *)
(***************************************************************************)
EXTENDS DepsChecker

CONSTANTS b, wild, bu, base

MCWords == {b, wild, bu}
MCAliases == {base}
MCLines == {<<wild, b>>, <<b, bu>>, <<bu, wild>>, <<wild, bu>>, <<bu, b>>, <<bu, bu>>,
            <<base, b>>, <<wild, base>>}

MCRoot == <<"b">>
MCCovers == {<<b, MCRoot>>, <<bu, <<"b", "u">>>>,
             <<wild, <<"b", "u">>>>, <<wild, <<"b", "n">>>>}
MCIncludes == {<<MCRoot, <<"u">>>>, <<<<"b", "n">>, MCRoot>>, <<<<"b", "u">>, <<"b", "n">>>>}
=============================================================================
