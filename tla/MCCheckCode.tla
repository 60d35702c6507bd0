---------------------------- MODULE MCCheckCode ----------------------------
(***************************************************************************)
(* The source tree that TLC walks: every kind of entry at several depths,  *)
(* a link from one folder to one that is nowhere near it, a build folder   *)
(* and the template of a source file.                                      *)
(***************************************************************************)
EXTENDS CheckCode, TLC

MCFolders == {<<"lib">>, <<"lib", "src">>, <<"lib", "build">>, <<"scripts">>, <<".metadata">>}
MCFiles ==
  { <<"lib", "src", "overfs.cc">>, <<"lib", "src", "config.cc.in">>, <<"lib", "overfs.h">>,
    <<"lib", "build", "config.cc">>, <<".metadata", "overfs.h">>,
    <<"scripts", "testall.py">>, <<"scripts", "frag_tidy.py">> }
MCLinks == <<"scripts", "link">> :> <<"lib", "src">>
NoNames == {}

MCHidden    == {".metadata"}
MCFragments == {"frag_tidy.py"}
MCExt ==
  "overfs.cc" :> ".cc" @@ "config.cc" :> ".cc" @@ "config.cc.in" :> ".in" @@ "overfs.h" :> ".h"
    @@ "testall.py" :> ".py" @@ "frag_tidy.py" :> ".py"
=============================================================================
