------------------------------- MODULE MCStartup -------------------------------
(* How the program is started for model checking Startup: every short line   *)
(* of words that mix and abbreviate options in all ways, longer lines of few *)
(* words whose blocks divide into one, two and three cycles, and the lines   *)
(* with each combination of the options that matter later, these with any    *)
(* descriptors or identity.                                                  *)
EXTENDS Startup

Switch == <<"-", "B">>
MCWords ==
  {<<>>, <<"-">>, EndOfOptions, <<"name">>, <<"1">>, Switch,
   <<"-", "u">>, <<"-", "B", "d">>, <<"-", "d", "B">>, <<"-", "u", "20">>,
   <<"-", "B", "-", "uid">>, <<"-", "-", "uid", "=", "1">>, <<"-", "-", "di">>,
   <<"-", "-", "d", "=", "/data">>, <<"-", "-", "da">>, <<"-", "-", "da", "=", "x">>,
   <<"-", "-", "x">>, <<"-", "B", "x">>, <<"-", "h">>, <<"-", "R", "1">>,
   <<"-", "R", "=">>, <<"-", "-", "=", "x">>}

FewWords == {<<"name">>, <<"other">>, Switch, <<"-", "g">>, <<"0">>}
MoreWords == FewWords \cup {EndOfOptions, <<"-", "-", "port">>, <<"-", "D", "-", "ip", "=">>}

MCLines ==
  UNION {[1 .. n -> MCWords] : n \in 0 .. 3} \cup
  [1 .. 4 -> MoreWords] \cup [1 .. 5 -> FewWords] \cup
  [1 .. 6 -> {<<"name">>, Switch, <<"-", "D">>}]

MCPosixLines ==
  UNION {[1 .. n -> MCWords] : n \in 1 .. 2} \cup [1 .. 4 -> FewWords]

Plain ==
  [B : {<<>>, <<Switch>>}, d : {<<>>} \cup {<<<<"-", "d", name>>>> : name \in {"name", "/", ".", ".."}},
   u : {<<>>, <<<<"-", "u", "1">>>>}, g : {<<>>, <<<<"-", "g">>, <<"1">>>>}]
PlainLines == {<<<<"-", "D">>>> \o c.B \o c.d \o c.u \o c.g : c \in Plain}

MCNobody == [uid |-> 1, gid |-> 1, groups |-> {1}]
MCNoDescriptor == [fd \in Fds |-> "closed"]

MCStarts ==
  [line : MCLines, posix : {FALSE}, fds : {MCNoDescriptor}, ids : {MCNobody}] \cup
  [line : MCPosixLines, posix : {TRUE}, fds : {MCNoDescriptor}, ids : {MCNobody}] \cup
  [line : PlainLines, posix : {FALSE}, fds : {MCNoDescriptor}, ids : Identities] \cup
  [line : PlainLines, posix : {FALSE}, fds : [Fds -> {"closed", "tty", "other"}],
   ids : {[uid |-> 0, gid |-> 0, groups |-> {0}]}]
===============================================================================
