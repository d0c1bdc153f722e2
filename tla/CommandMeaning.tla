----------------------------- MODULE CommandMeaning -----------------------------
(***************************************************************************)
(* The options of sharedanced, and what a command line means: the table of *)
(* sharedanced_p.h, the limits of main's switch, and a definition of what  *)
(* the words ask for that looks at all of them at once.  CommandLine is    *)
(* the scan that finds it out a letter at a time.                          *)
(*                                                                         *)
(* A word is a sequence of pieces: "-", "=", the letters of a cluster, a   *)
(* value.  What follows two dashes up to "=" is one piece, a name or the   *)
(* beginning of one.                                                       *)
(***************************************************************************)
EXTENDS Integers, Sequences

(* GETOPT_OPTIONS and long_options.                                        *)
Letters == {"b", "d", "e", "g", "h", "i", "p", "r", "t", "u", "B", "D", "R"}
TakeArgument == Letters \ {"h", "B", "D"}
Long ==
  [help |-> "h", daemonize |-> "B", debug |-> "D", ip |-> "i", port |-> "p",
   backlog |-> "b", directory |-> "d", readsize |-> "r", maxreadsize |-> "R",
   expiration |-> "e", timeout |-> "t", gid |-> "g", uid |-> "u"]
Names == DOMAIN Long

(* The beginnings of names that are in use: those of one letter, and those *)
(* of two that tell the names in d apart.                                  *)
Beginnings ==
  [h |-> {"help"}, d |-> {"daemonize", "debug", "directory"},
   da |-> {"daemonize"}, de |-> {"debug"}, di |-> {"directory"}, i |-> {"ip"},
   p |-> {"port"}, b |-> {"backlog"}, r |-> {"readsize"}, m |-> {"maxreadsize"},
   e |-> {"expiration"}, t |-> {"timeout"}, g |-> {"gid"}, u |-> {"uid"}]

(* The names that a given name stands for.                                 *)
Matches(name) ==
  IF name = <<>> THEN Names
  ELSE IF Len(name) > 1 THEN {}
  ELSE IF name[1] \in Names THEN {name[1]}
  ELSE IF name[1] \in DOMAIN Beginnings THEN Beginnings[name[1]]
  ELSE {}

(* Values.  An option that is not given has none.                          *)
NotGiven == <<"not given">>
IsNumber(value) == value \in {<<"0">>, <<"1">>, <<"20">>}

(* atoi and strtoul read the digits a value begins with.                   *)
NumberOf(value) ==
  IF value = <<>> THEN 0
  ELSE CASE value[1] = "1" -> 1 [] value[1] = "20" -> 20 [] OTHER -> 0

(* The switch of main: what is below its limit, no number where one is     *)
(* needed, or a request for help ends the program.                         *)
Least == [b |-> 1, r |-> 1, R |-> 10, e |-> 1, t |-> 1]
Accepts(letter, value) ==
  /\ letter # "h"
  /\ letter \in DOMAIN Least => NumberOf(value) >= Least[letter]
  /\ letter \in {"u", "g"} => IsNumber(value)

(* An option, as opposed to an operand; "--" is the last of them.          *)
IsOption(word) == Len(word) > 1 /\ word[1] = "-"
EndOfOptions == <<"-", "-">>

(* The text of a long option: a name, and what follows "=" if there is one. *)
HasEqual(text) == \E n \in 1 .. 2 : n <= Len(text) /\ text[n] = "="
NameOf(text) ==
  IF ~ HasEqual(text) THEN text ELSE IF text[1] = "=" THEN <<>> ELSE <<text[1]>>
AfterEqual(text) == SubSeq(text, IF text[1] = "=" THEN 2 ELSE 3, Len(text))

-----------------------------------------------------------------------------
(* What a command line means.                                              *)

(* A cluster is switches up to a letter that takes an argument, or to a    *)
(* dash that begins a long name.                                           *)
LastOf(word) ==
  CHOOSE n \in 2 .. Len(word) + 1 :
    /\ n = Len(word) + 1 \/ word[n] \in TakeArgument \cup {"-"}
    /\ \A before \in 2 .. n - 1 : word[before] \notin TakeArgument \cup {"-"}
Switches(word) == {word[n] : n \in 2 .. LastOf(word) - 1}
Remainder(word) == SubSeq(word, LastOf(word) + 1, Len(word))
EndsLong(word) == LastOf(word) <= Len(word) /\ word[LastOf(word)] = "-"

(* The letters that the last option of a word may stand for.               *)
Final(word) ==
  IF LastOf(word) > Len(word) THEN {}
  ELSE IF EndsLong(word) THEN {Long[name] : name \in Matches(NameOf(Remainder(word)))}
  ELSE {word[LastOf(word)]}

Attached(word) ==
  IF EndsLong(word) THEN HasEqual(Remainder(word)) ELSE Remainder(word) # <<>>
AttachedValue(word) ==
  IF EndsLong(word) THEN AfterEqual(Remainder(word)) ELSE Remainder(word)
WantsNext(word) ==
  ~ Attached(word) /\ \E letter \in TakeArgument : Final(word) = {letter}

(* The positions of words that are the argument of the option before.      *)
Arguments(line) ==
  LET taken[n \in 0 .. Len(line)] ==
        /\ n > 1
        /\ ~ taken[n - 1]
        /\ IsOption(line[n - 1]) /\ WantsNext(line[n - 1])
  IN  {n \in 1 .. Len(line) : taken[n]}

(* The word that ends the options: "--", or the first operand for a        *)
(* program that is asked to be POSIX.                                      *)
LastWord(line, posix) ==
  LET ends == {n \in (1 .. Len(line)) \ Arguments(line) :
                 line[n] = EndOfOptions \/ (posix /\ ~ IsOption(line[n]))}
  IN  CHOOSE n \in ends \cup {Len(line) + 1} :
        \A before \in 1 .. n - 1 : before \notin ends

OptionWords(line, posix) ==
  LET last == LastWord(line, posix)
      arguments == Arguments(line)
  IN  {n \in 1 .. Len(line) : n <= last /\ (IsOption(line[n]) \/ n \in arguments)}

(* The words with options, without their arguments and "--".               *)
Mentions(line, posix) ==
  OptionWords(line, posix) \ (Arguments(line) \cup {LastWord(line, posix)})

ValueFor(line, n) ==
  IF WantsNext(line[n]) THEN line[n + 1] ELSE AttachedValue(line[n])

Unacceptable(line, n) ==
  LET word == line[n] IN
  \/ \E letter \in Switches(word) : letter \notin Letters \/ letter = "h"
  \/ /\ LastOf(word) <= Len(word)
     /\ \A letter \in Letters :
          \/ Final(word) # {letter}
          \/ letter \notin TakeArgument /\ Attached(word)
          \/ WantsNext(word) /\ n = Len(line)
          \/ ~ Accepts(letter, ValueFor(line, n))

(* The program ends if it is given no word at all, or one word that it     *)
(* cannot accept.                                                          *)
Refuses(line, posix) ==
  line = <<>> \/ \E n \in Mentions(line, posix) : Unacceptable(line, n)

(* Otherwise every option has the value it is given last.                  *)
Meaning(line, posix) ==
  LET mentions == Mentions(line, posix) IN
  [letter \in Letters |->
    LET with == {n \in mentions : letter \in Switches(line[n]) \cup Final(line[n])}
        last == CHOOSE n \in with : \A other \in with : other <= n
    IN  IF with = {} THEN NotGiven
        ELSE IF letter \in TakeArgument THEN ValueFor(line, last) ELSE <<>>]
===============================================================================
