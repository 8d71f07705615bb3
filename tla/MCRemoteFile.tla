---------------------------- MODULE MCRemoteFile ----------------------------
(***************************************************************************)
(* Instances of RemoteFile for TLC: a text of two characters, a file just   *)
(* above the size cap, and one that is not text.                            *)
(***************************************************************************)
EXTENDS RemoteFile

Texts == {<<"a", "h", "t">>, <<"a", "a", "a", "a", "a">>, <<"a", "t">>}

Edit(old, new, all) == [old |-> old, new |-> new, all |-> all]

\* Replacements that build on one another and just fit, ones that do not fit,
\* ones that undo each other, and one without anything to replace.
Lists ==
  {<<Edit(<<"h", "t">>, <<"a", "a">>, FALSE), Edit(<<"a", "a">>, <<"h", "t", "a">>, TRUE)>>,
   <<Edit(<<"a">>, <<"a", "h", "t">>, TRUE)>>,
   <<Edit(<<"h", "t">>, <<"a">>, FALSE), Edit(<<"a">>, <<>>, FALSE)>>,
   <<Edit(<<"a">>, <<>>, FALSE), Edit(<<"h">>, <<"a", "h">>, FALSE)>>,
   <<Edit(<<>>, <<"a">>, FALSE)>>}
=============================================================================
