------------------------------- MODULE CommandLine -------------------------------
(***************************************************************************)
(* The scan of the command line: pure_getopt_long of                       *)
(* src/src/bsd-getopt_long.c, which a system without getopt_long builds    *)
(* in, and the switch of main that takes the options one by one.           *)
(*                                                                         *)
(* The scan moves operands behind the options by exchanging two            *)
(* neighbouring blocks of nargv in place, a cycle of the exchange at a     *)
(* time.  nargv is an array of pointers: argv[n] is the position that the  *)
(* word now at n had at first.  Position n here is index n there: the name *)
(* of the program is at 0.                                                 *)
(***************************************************************************)
EXTENDS CommandMeaning

VARIABLES
  line,         \* the words, as typed
  posix,        \* posixly_correct
  phase,        \* where the scan is
  argv, optind, \* nargv, pure_optind
  place,        \* pure_place: what is left of the word being read
  nonopt_start, \* first operand of the block that is being passed over
  nonopt_end,   \* first option after it
  perm,         \* the local variables of pure_permute_args and pure_gcd
  given         \* the variables that main keeps the options in

lineVars == <<line, posix, phase, argv, optind, place, nonopt_start, nonopt_end,
              perm, given>>

Argc == Len(line)
Word(n) == line[argv[n]]

(* pure_permute_args has not been called.                                  *)
NoPermutation ==
  [then |-> "none", opt_end |-> 0, a |-> 0, b |-> 1, i |-> 0, j |-> 0, pos |-> 0]

-----------------------------------------------------------------------------
(* Exchanging the block from nonopt_start to nonopt_end with the one from  *)
(* nonopt_end to opt_end.                                                  *)

nnonopts == nonopt_end - nonopt_start
nopts == perm.opt_end - nonopt_end
cyclelen == (perm.opt_end - nonopt_start) \div perm.b

(* Called with the ends of the two blocks, to go on as `then' says.        *)
Permute(then, blockend, end) ==
  /\ nonopt_end' = blockend
  /\ perm' = [then |-> then, opt_end |-> end, a |-> blockend - nonopt_start,
              b |-> end - blockend, i |-> 0, j |-> 0, pos |-> 0]
  /\ phase' = "gcd"

(* The number of cycles is that of the shorter block.                      *)
GcdShorter ==
  /\ phase = "gcd"
  /\ perm' = [perm EXCEPT !.b = IF perm.a < perm.b THEN perm.a ELSE perm.b,
                          !.pos = nonopt_end]
  /\ phase' = "cycles"
  /\ UNCHANGED <<line, posix, argv, optind, place, nonopt_start, nonopt_end, given>>

(* pure_gcd; its result, the number of cycles, is left in perm.b.          *)
Gcd ==
  /\ phase = "gcd"
  /\ IF perm.a % perm.b # 0
     THEN /\ perm' = [perm EXCEPT !.a = perm.b, !.b = perm.a % perm.b]
          /\ phase' = phase
     ELSE /\ perm' = [perm EXCEPT !.pos = nonopt_end]
          /\ phase' = "cycles"
  /\ UNCHANGED <<line, posix, argv, optind, place, nonopt_start, nonopt_end, given>>

(* The word at cstart changes places with that at m.                       *)
Overwritten(m, cstart) == [argv EXCEPT ![m] = argv[cstart]]
Exchanged(m, cstart) == [argv EXCEPT ![m] = argv[cstart], ![cstart] = argv[m]]

(* The next position of the cycle.                                         *)
NextPos == IF perm.pos >= nonopt_end THEN perm.pos - nnonopts ELSE perm.pos + nopts

(* The body of the loops of pure_permute_args.                             *)
Swap ==
  /\ phase = "cycles" /\ perm.i < perm.b
  /\ argv' = Exchanged(NextPos, nonopt_end + perm.i)
  /\ perm' = IF perm.j + 1 < cyclelen
             THEN [perm EXCEPT !.j = perm.j + 1, !.pos = NextPos]
             ELSE [perm EXCEPT !.i = perm.i + 1, !.j = 0,
                               !.pos = nonopt_end + perm.i + 1]
  /\ UNCHANGED <<line, posix, phase, optind, place, nonopt_start, nonopt_end, given>>

(* Back from pure_permute_args: the block has moved; at an operand the     *)
(* scan goes on, with that in the block, at the end it is over.            *)
Permuted ==
  /\ phase = "cycles" /\ perm.i >= perm.b
  /\ nonopt_end' = -1
  /\ IF perm.then = "operand"
     THEN optind' = optind + 1 /\ phase' = "scan" /\ nonopt_start' = optind - nnonopts
     ELSE optind' = optind - nnonopts /\ phase' = "parsed" /\ nonopt_start' = -1
  /\ perm' = NoPermutation
  /\ UNCHANGED <<line, posix, argv, place, given>>

-----------------------------------------------------------------------------
(* pure_getopt_internal, at the beginning of a word.                       *)

Scanning == phase = "scan" /\ place = <<>>

(* End of the argument vector.                                             *)
EndOfVector ==
  /\ Scanning /\ optind > Argc /\ line # <<>>
  /\ UNCHANGED <<line, posix, argv, place, given>>
  /\ IF nonopt_end # -1
     THEN Permute("end", nonopt_end, optind) /\ UNCHANGED <<optind, nonopt_start>>
     ELSE /\ optind' = IF nonopt_start # -1 THEN nonopt_start ELSE optind
          /\ nonopt_start' = -1 /\ nonopt_end' = -1
          /\ phase' = "parsed" /\ UNCHANGED perm

(* An operand is passed over, or ends the scan of a POSIX program.         *)
Operand ==
  /\ Scanning /\ optind <= Argc /\ ~ IsOption(Word(optind))
  /\ UNCHANGED <<line, posix, argv, place, given>>
  /\ \/ posix /\ phase' = "parsed" /\ UNCHANGED <<optind, nonopt_start, nonopt_end, perm>>
     \/ /\ ~ posix /\ nonopt_end # -1
        /\ Permute("operand", nonopt_end, optind) /\ UNCHANGED <<optind, nonopt_start>>
     \/ /\ ~ posix /\ nonopt_end = -1
        /\ nonopt_start' = IF nonopt_start = -1 THEN optind ELSE nonopt_start
        /\ optind' = optind + 1
        /\ UNCHANGED <<phase, nonopt_end, perm>>

(* The first option after operands ends their block.                       *)
BlockEnds == IF nonopt_start # -1 /\ nonopt_end = -1 THEN optind ELSE nonopt_end

(* "--"                                                                    *)
DoubleDash ==
  /\ Scanning /\ optind <= Argc /\ Word(optind) = EndOfOptions
  /\ optind' = optind + 1
  /\ IF BlockEnds # -1
     THEN Permute("end", BlockEnds, optind + 1) /\ UNCHANGED nonopt_start
     ELSE /\ nonopt_start' = -1 /\ nonopt_end' = -1
          /\ phase' = "parsed" /\ UNCHANGED perm
  /\ UNCHANGED <<line, posix, argv, place, given>>

(* A word with options: its first dash is skipped.                         *)
OptionWord ==
  /\ Scanning /\ optind <= Argc
  /\ IsOption(Word(optind)) /\ Word(optind) # EndOfOptions
  /\ nonopt_end' = BlockEnds
  /\ place' = Tail(Word(optind))
  /\ UNCHANGED <<line, posix, phase, argv, optind, nonopt_start, perm, given>>

-----------------------------------------------------------------------------
(* The options of a word, and what main does with them.                    *)

(* usage(), or return 1.                                                   *)
Refuse ==
  /\ phase' = "refused"
  /\ UNCHANGED <<line, posix, argv, optind, place, nonopt_start, nonopt_end, perm, given>>

(* The option `letter' with its value; the scan goes on at `next', or with *)
(* what is left of the word.  The strings of -i, -p and -d are copied.     *)
Take(letter, value, next, left) ==
  IF ~ Accepts(letter, value) THEN Refuse
  ELSE /\ \/ /\ given' = [given EXCEPT ![letter] = value]
             /\ UNCHANGED phase
          \/ letter \in {"i", "p", "d"} /\ phase' = "no memory" /\ UNCHANGED given
       /\ optind' = next /\ place' = left
       /\ UNCHANGED <<line, posix, argv, nonopt_start, nonopt_end, perm>>

(* The next word is looked at again after the argument was taken from it.  *)
TakeNextAgain(letter) ==
  IF optind + 1 > Argc THEN Refuse
  ELSE Take(letter, Word(optind + 1), optind + 1, <<>>)

(* The next word is read even if it is an option itself.                   *)
TakeNext(letter) ==
  IF optind + 1 > Argc THEN Refuse
  ELSE Take(letter, Word(optind + 1), optind + 2, <<>>)

(* A switch never lets go of its word.                                     *)
ShortOptionStuck ==
  /\ phase = "scan" /\ place # <<>> /\ Head(place) # "-"
  /\ LET letter == Head(place) IN
     IF letter \notin Letters THEN Refuse
     ELSE IF letter \notin TakeArgument THEN Take(letter, <<>>, optind, Tail(place))
     ELSE IF Tail(place) # <<>> THEN Take(letter, Tail(place), optind + 1, <<>>)
     ELSE TakeNext(letter)

(* The next letter of a cluster.                                           *)
ShortOption ==
  /\ phase = "scan" /\ place # <<>> /\ Head(place) # "-"
  /\ LET letter == Head(place) IN
     IF letter \notin Letters THEN Refuse
     ELSE IF letter \notin TakeArgument
     THEN Take(letter, <<>>, IF Tail(place) = <<>> THEN optind + 1 ELSE optind, Tail(place))
     ELSE IF Tail(place) # <<>> THEN Take(letter, Tail(place), optind + 1, <<>>)
     ELSE TakeNext(letter)

(* pure_parse_long_options.                                                *)
LongOption ==
  /\ phase = "scan" /\ place # <<>> /\ Head(place) = "-"
  /\ LET text  == Tail(place)
         found == Matches(NameOf(text)) IN
     IF \E name \in found : found = {name}
     THEN \E name \in found :
            LET letter == Long[name] IN
            IF HasEqual(text)
            THEN IF letter \in TakeArgument
                 THEN Take(letter, AfterEqual(text), optind + 1, <<>>) ELSE Refuse
            ELSE IF letter \in TakeArgument THEN TakeNext(letter)
            ELSE Take(letter, <<>>, optind + 1, <<>>)
     ELSE Refuse

(* main: without any word there is usage().                                *)
NoWord == Scanning /\ line = <<>> /\ Refuse

-----------------------------------------------------------------------------

LineInit ==
  /\ phase = "scan"
  /\ argv = [n \in 1 .. Len(line) |-> n]
  /\ optind = 1 /\ place = <<>>
  /\ nonopt_start = -1 /\ nonopt_end = -1
  /\ perm = NoPermutation
  /\ given = [letter \in Letters |-> NotGiven]

LineNext ==
  \/ NoWord \/ EndOfVector \/ Operand \/ DoubleDash \/ OptionWord
  \/ ShortOption \/ LongOption
  \/ Gcd \/ Swap \/ Permuted

LineSpec ==
  /\ line \in Seq(Seq(STRING)) /\ posix \in BOOLEAN /\ LineInit
  /\ [][LineNext]_lineVars

-----------------------------------------------------------------------------
(* Properties.                                                             *)

LineTypeOK ==
  /\ line \in Seq(Seq(STRING)) /\ posix \in BOOLEAN
  /\ phase \in {"scan", "gcd", "cycles", "parsed", "refused", "no memory"}
  /\ argv \in [1 .. Argc -> 1 .. Argc]
  /\ optind \in 1 .. Argc + 1
  /\ place \in Seq(STRING)
  /\ nonopt_start \in {-1} \cup 1 .. Argc /\ nonopt_end \in {-1} \cup 1 .. Argc
  /\ perm \in [then : {"none", "operand", "end"}, opt_end : 0 .. Argc + 1,
              a : Nat, b : Nat, i : Nat, j : Nat, pos : Int]
  /\ given \in [Letters -> Seq(STRING) \cup {NotGiven}]

(* pure_getopt_internal, a letter at a time and with the words changing    *)
(* places meanwhile, takes exactly the options that the line as typed asks *)
(* for, each with the value it was given last, and stops the program for   *)
(* exactly the lines that have something it cannot accept.                 *)
OptionsTaken ==
  /\ phase = "parsed"  => ~ Refuses(line, posix) /\ given = Meaning(line, posix)
  /\ phase = "refused" => Refuses(line, posix)

(* pure_permute_args loses no word and doubles none, however the two       *)
(* blocks divide into cycles, and never touches a word that has not been   *)
(* looked at.                                                              *)
EachWordOnce ==
  /\ \A n, m \in 1 .. Argc : argv[n] = argv[m] => n = m
  /\ phase = "scan" => \A n \in optind .. Argc : argv[n] = n

(* The words of `where' in argv are those of `what', in the order they     *)
(* were typed in.                                                          *)
InOrder(where, what) ==
  /\ {argv[n] : n \in where} = what
  /\ \A n, m \in where : n < m => argv[n] < argv[m]

(* Between words, the operands that were passed over are one block and in  *)
(* order, and so are the options around it; when the scan is over all the  *)
(* operands are at the end, and pure_optind is at the first.               *)
Arranged ==
  LET options == OptionWords(line, posix)
      block   == IF nonopt_start = -1 THEN {}
                 ELSE nonopt_start .. (IF nonopt_end = -1 THEN optind ELSE nonopt_end) - 1
      seen    == 1 .. optind - 1
  IN
  /\ phase = "scan" =>
       InOrder(block, seen \ options) /\ InOrder(seen \ block, seen \cap options)
  /\ phase = "parsed" =>
       InOrder(seen, options) /\ InOrder(optind .. Argc, (1 .. Argc) \ options)
===============================================================================
