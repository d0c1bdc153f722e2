---------------------------- MODULE CommandLineProofs ----------------------------
(***************************************************************************)
(* Proofs about CommandLine, for every command line: exchanging the blocks *)
(* a cycle at a time stays inside them and keeps every word.               *)
(***************************************************************************)
EXTENDS CommandLine, SequenceTheorems, TLAPS

(* The block of operands is before the word that is read.                  *)
Blocks ==
  /\ nonopt_start = -1 => nonopt_end = -1
  /\ nonopt_start # -1 => nonopt_start < optind
  /\ nonopt_end # -1 =>
       /\ nonopt_start < nonopt_end /\ nonopt_end <= optind
       /\ phase = "scan" /\ place = <<>> => nonopt_end < optind

(* Neither block is empty, and there are no more cycles than words in the  *)
(* second.                                                                 *)
Cycles ==
  phase \in {"gcd", "cycles"} =>
    /\ nonopt_start # -1 /\ nonopt_end # -1
    /\ nonopt_end < perm.opt_end /\ perm.opt_end = optind
    /\ perm.then = "operand" => optind <= Argc
    /\ 0 < perm.b /\ perm.b <= nopts /\ perm.i <= perm.b
    /\ phase = "gcd" => perm.i = 0

(* The cycle stays in the blocks.                                          *)
InBlocks ==
  phase = "cycles" =>
    /\ nonopt_start <= perm.pos
    /\ perm.i < perm.b => perm.pos < perm.opt_end

Reading ==
  /\ phase = "scan" /\ place # <<>> => optind <= Argc
  /\ phase \in {"gcd", "cycles"} => place = <<>>

(* The words that have not been looked at are where they were.             *)
Ahead ==
  phase \in {"scan", "gcd", "cycles"} => \A n \in optind .. Argc : argv[n] = n

Distinct == \A n, m \in 1 .. Argc : argv[n] = argv[m] => n = m

LineInv == LineTypeOK /\ Blocks /\ Cycles /\ InBlocks /\ Reading /\ Ahead /\ Distinct

LEMMA LineInitInv ==
  ASSUME line \in Seq(Seq(STRING)), posix \in BOOLEAN, LineInit
  PROVE  LineInv
<1>1. Argc \in Nat
  BY LenProperties DEF Argc
<1>2. LineTypeOK
  <2>1. given \in [Letters -> Seq(STRING) \cup {NotGiven}]
    BY DEF LineInit
  <2>2. argv \in [1 .. Argc -> 1 .. Argc]
    BY <1>1 DEF LineInit, Argc
  <2>3. perm \in [then : {"none", "operand", "end"}, opt_end : 0 .. Argc + 1,
                  a : Nat, b : Nat, i : Nat, j : Nat, pos : Int]
    BY <1>1 DEF LineInit, NoPermutation
  <2>4. place \in Seq(STRING)
    BY DEF LineInit
  <2> QED BY <1>1, <2>1, <2>2, <2>3, <2>4 DEF LineInit, LineTypeOK
<1> QED BY <1>1, <1>2 DEF LineInit, LineInv, Blocks, Cycles, InBlocks, Reading,
             Ahead, Distinct, Argc, NoPermutation

(* The program ends: nothing else changes.                                 *)
LEMMA RefuseStep ==
  ASSUME LineInv, Refuse
  PROVE  LineInv'
<1>1. LineTypeOK'
  BY DEF LineInv, Refuse, LineTypeOK, Argc
<1> QED BY <1>1 DEF Refuse, LineInv, Blocks, Cycles, InBlocks, Reading, Ahead,
             Distinct, Argc

(* The facts about types that most steps need.                             *)
LEMMA LineFacts ==
  ASSUME LineInv
  PROVE  /\ line \in Seq(Seq(STRING)) /\ Argc \in Nat
         /\ argv \in [1 .. Argc -> 1 .. Argc]
         /\ optind \in 1 .. Argc + 1
         /\ \A n \in 1 .. Argc : Word(n) \in Seq(STRING)
<1>1. line \in [1 .. Argc -> Seq(STRING)] /\ Argc \in Nat
  BY LenProperties DEF LineInv, LineTypeOK, Argc
<1> QED BY <1>1 DEF LineInv, LineTypeOK, Word

(* Taking an option from the word that is read, and perhaps the next.      *)
LEMMA TakeStep ==
  ASSUME LineInv, phase = "scan", place # <<>>,
         NEW letter, NEW value \in Seq(STRING), NEW next, NEW left \in Seq(STRING),
         /\ next \in optind .. Argc + 1
         /\ left = <<>> => next > optind
         /\ left # <<>> => next = optind,
         Take(letter, value, next, left)
  PROVE  LineInv'
<1>1. CASE Refuse
  BY <1>1, RefuseStep
<1>2. CASE /\ \/ /\ given' = [given EXCEPT ![letter] = value]
                 /\ UNCHANGED phase
              \/ letter \in {"i", "p", "d"} /\ phase' = "no memory" /\ UNCHANGED given
           /\ optind' = next /\ place' = left
           /\ UNCHANGED <<line, posix, argv, nonopt_start, nonopt_end, perm>>
  <2>1. Argc' = Argc
    BY <1>2 DEF Argc
  <2>2. /\ Argc \in Nat /\ optind \in 1 .. Argc + 1 /\ next \in optind .. Argc + 1
        /\ Argc' = Argc
    BY <2>1, LineFacts
  <2>3. next \in 1 .. Argc + 1 /\ next \in Int /\ optind \in Int /\ optind <= next
    BY <2>2
  <2>4. given' \in [Letters -> Seq(STRING) \cup {NotGiven}]
    BY <1>2 DEF LineInv, LineTypeOK
  <2>5. phase' \in {"scan", "no memory"}
    BY <1>2
  <2>6. LineTypeOK'
    <3>1. /\ line' \in Seq(Seq(STRING)) /\ posix' \in BOOLEAN
          /\ argv' \in [1 .. Argc -> 1 .. Argc]
      BY <1>2 DEF LineInv, LineTypeOK
    <3>2. optind' \in 1 .. Argc + 1 /\ place' \in Seq(STRING)
      BY <1>2, <2>3
    <3>3. /\ nonopt_start' \in {-1} \cup 1 .. Argc
          /\ nonopt_end' \in {-1} \cup 1 .. Argc
          /\ perm' \in [then : {"none", "operand", "end"}, opt_end : 0 .. Argc + 1,
                        a : Nat, b : Nat, i : Nat, j : Nat, pos : Int]
      BY <1>2 DEF LineInv, LineTypeOK
    <3> QED BY <2>1, <2>4, <2>5, <3>1, <3>2, <3>3 DEF LineTypeOK
  <2>7. Blocks' /\ Reading'
    <3>1. Blocks /\ (nonopt_end # -1 => nonopt_end \in Int) /\ nonopt_start \in Int
      BY <2>2 DEF LineInv, LineTypeOK
    <3>2. optind <= next /\ (left = <<>> => next > optind)
      BY <2>2
    <3>3. /\ optind' = next /\ place' = left
          /\ nonopt_start' = nonopt_start /\ nonopt_end' = nonopt_end
      BY <1>2
    <3>4. Blocks'
      BY <2>2, <3>1, <3>2, <3>3 DEF Blocks
    <3>5. place' # <<>> => optind' <= Argc'
      BY <1>2, <2>2 DEF LineInv, Reading
    <3> QED BY <2>5, <3>4, <3>5 DEF Reading
  <2>8. Ahead' /\ Distinct'
    <3>1. argv' = argv
      BY <1>2
    <3>2. optind' = next
      BY <1>2
    <3>3. \A n \in optind' .. Argc : n \in optind .. Argc
      BY <3>2, <2>2, <2>3
    <3>4. Ahead'
      BY <2>1, <3>1, <3>3 DEF LineInv, Ahead
    <3> QED BY <2>1, <3>1, <3>4 DEF LineInv, Distinct
  <2>9. Cycles' /\ InBlocks'
    BY <2>5 DEF Cycles, InBlocks
  <2> QED BY <2>6, <2>7, <2>8, <2>9 DEF LineInv
<1> QED BY <1>1, <1>2 DEF Take

LEMMA TakeNextStep ==
  ASSUME LineInv, phase = "scan", place # <<>>, NEW letter, TakeNext(letter)
  PROVE  LineInv'
<1>1. CASE optind + 1 > Argc
  BY <1>1, RefuseStep DEF TakeNext
<1>2. CASE ~ (optind + 1 > Argc)
  <2>1. optind + 2 \in optind .. Argc + 1 /\ Word(optind + 1) \in Seq(STRING)
    BY <1>2, LineFacts
  <2>2. Take(letter, Word(optind + 1), optind + 2, <<>>) /\ optind + 2 > optind
    BY <1>2, LineFacts DEF TakeNext
  <2>3. <<>> \in Seq(STRING)
    OBVIOUS
  <2> QED BY <2>1, <2>2, <2>3, TakeStep
<1> QED BY <1>1, <1>2

LEMMA ShortOptionStep ==
  ASSUME LineInv, ShortOption
  PROVE  LineInv'
<1> DEFINE letter == Head(place)
<1>1. /\ phase = "scan" /\ place # <<>> /\ place \in Seq(STRING)
      /\ Tail(place) \in Seq(STRING) /\ <<>> \in Seq(STRING)
      /\ optind \in 1 .. Argc /\ Argc \in Nat
  BY LineFacts DEF ShortOption, LineInv, LineTypeOK, Reading
<1>2. CASE Refuse
  BY <1>2, RefuseStep
<1>3. CASE TakeNext(letter)
  BY <1>1, <1>3, TakeNextStep
<1>4. CASE Take(letter, Tail(place), optind + 1, <<>>)
  <2>1. optind + 1 \in optind .. Argc + 1 /\ optind + 1 > optind
    BY <1>1
  <2> QED BY <1>1, <1>4, <2>1, TakeStep
<1>5. CASE Take(letter, <<>>, IF Tail(place) = <<>> THEN optind + 1 ELSE optind,
                Tail(place))
  <2> DEFINE next == IF Tail(place) = <<>> THEN optind + 1 ELSE optind
  <2>1. /\ next \in optind .. Argc + 1
        /\ Tail(place) = <<>> => next > optind
        /\ Tail(place) # <<>> => next = optind
    BY <1>1
  <2>2. Take(letter, <<>>, next, Tail(place))
    BY <1>5
  <2> HIDE DEF next
  <2> QED BY <1>1, <2>1, <2>2, TakeStep
<1> QED BY <1>2, <1>3, <1>4, <1>5 DEF ShortOption

LEMMA LongOptionStep ==
  ASSUME LineInv, LongOption
  PROVE  LineInv'
<1> DEFINE text == Tail(place)
<1>1. /\ phase = "scan" /\ place # <<>> /\ place \in Seq(STRING)
      /\ text \in Seq(STRING) /\ <<>> \in Seq(STRING)
      /\ optind \in 1 .. Argc /\ Argc \in Nat
  BY LineFacts DEF LongOption, LineInv, LineTypeOK, Reading
<1>2. optind + 1 \in optind .. Argc + 1 /\ optind + 1 > optind
  BY <1>1
<1>3. AfterEqual(text) \in Seq(STRING)
  BY <1>1 DEF AfterEqual
<1>4. CASE Refuse
  BY <1>4, RefuseStep
<1>5. ASSUME NEW name,
             \/ Take(Long[name], AfterEqual(text), optind + 1, <<>>)
             \/ TakeNext(Long[name])
             \/ Take(Long[name], <<>>, optind + 1, <<>>)
      PROVE  LineInv'
  <2>1. CASE Take(Long[name], AfterEqual(text), optind + 1, <<>>)
    BY <1>1, <1>2, <1>3, <2>1, TakeStep
  <2>2. CASE TakeNext(Long[name])
    BY <1>1, <2>2, TakeNextStep
  <2>3. CASE Take(Long[name], <<>>, optind + 1, <<>>)
    BY <1>1, <1>2, <2>3, TakeStep
  <2> QED BY <1>5, <2>1, <2>2, <2>3
<1> QED BY <1>4, <1>5 DEF LongOption

(* Calling pure_permute_args, with pure_optind at the end of the blocks.   *)
LEMMA PermuteStep ==
  ASSUME LineInv, phase = "scan", place = <<>>,
         NEW then \in {"operand", "end"}, NEW blockend \in 1 .. Argc,
         NEW end \in 1 .. Argc + 1,
         nonopt_start # -1, nonopt_start < blockend, blockend < end, optind <= end,
         then = "operand" => end <= Argc,
         Permute(then, blockend, end), optind' = end,
         UNCHANGED <<line, posix, argv, place, nonopt_start, given>>
  PROVE  LineInv'
<1>1. Argc' = Argc /\ Argc \in Nat
  BY LineFacts DEF Argc
<1>2. nonopt_start \in 1 .. Argc /\ optind \in 1 .. Argc + 1
  BY DEF LineInv, LineTypeOK
<1>3. /\ phase' = "gcd" /\ nonopt_end' = blockend /\ nonopt_start' = nonopt_start
      /\ perm' = [then |-> then, opt_end |-> end, a |-> blockend - nonopt_start,
                  b |-> end - blockend, i |-> 0, j |-> 0, pos |-> 0]
  BY DEF Permute
<1>4. blockend - nonopt_start \in Nat /\ end - blockend \in Nat
  BY <1>1, <1>2
<1>5. perm' \in [then : {"none", "operand", "end"}, opt_end : 0 .. Argc + 1,
                a : Nat, b : Nat, i : Nat, j : Nat, pos : Int]
  BY <1>1, <1>3, <1>4
<1>6. LineTypeOK'
  <2>1. /\ line' \in Seq(Seq(STRING)) /\ posix' \in BOOLEAN
        /\ argv' \in [1 .. Argc -> 1 .. Argc] /\ place' \in Seq(STRING)
        /\ given' \in [Letters -> Seq(STRING) \cup {NotGiven}]
    BY DEF LineInv, LineTypeOK
  <2> QED BY <1>1, <1>2, <1>3, <1>5, <2>1 DEF LineTypeOK
<1>7. Blocks' /\ Reading' /\ InBlocks'
  BY <1>1, <1>2, <1>3 DEF Blocks, Reading, InBlocks
<1>8. Cycles'
  BY <1>1, <1>2, <1>3, <1>4 DEF Cycles, nopts
<1>9. Ahead' /\ Distinct'
  <2>1. \A n \in end .. Argc : n \in optind .. Argc
    BY <1>1, <1>2
  <2> QED BY <1>1, <2>1 DEF LineInv, Ahead, Distinct
<1> QED BY <1>6, <1>7, <1>8, <1>9 DEF LineInv

(* The scan is over.                                                       *)
LEMMA ParsedStep ==
  ASSUME LineInv, phase' = "parsed", optind' \in 1 .. Argc + 1,
         nonopt_start' = -1, nonopt_end' = -1,
         UNCHANGED <<line, posix, argv, place, perm, given>>
  PROVE  LineInv'
<1>1. Argc' = Argc /\ Argc \in Nat
  BY LineFacts DEF Argc
<1>2. LineTypeOK'
  BY <1>1 DEF LineInv, LineTypeOK
<1>3. Blocks' /\ Cycles' /\ InBlocks' /\ Reading' /\ Ahead'
  BY DEF Blocks, Cycles, InBlocks, Reading, Ahead
<1>4. Distinct'
  BY <1>1 DEF LineInv, Distinct
<1> QED BY <1>2, <1>3, <1>4 DEF LineInv

LEMMA EndOfVectorStep ==
  ASSUME LineInv, EndOfVector
  PROVE  LineInv'
<1>1. /\ phase = "scan" /\ place = <<>> /\ optind > Argc
      /\ optind \in 1 .. Argc + 1 /\ Argc \in Nat
      /\ nonopt_start \in {-1} \cup 1 .. Argc /\ nonopt_end \in {-1} \cup 1 .. Argc
      /\ Blocks
      /\ UNCHANGED <<line, posix, argv, place, given>>
  BY LineFacts DEF EndOfVector, Scanning, LineInv, LineTypeOK
<1>2. CASE nonopt_end # -1
  <2>1. /\ Permute("end", nonopt_end, optind) /\ optind' = optind
        /\ nonopt_start' = nonopt_start
    BY <1>2 DEF EndOfVector
  <2>2. /\ nonopt_start # -1 /\ nonopt_start < nonopt_end /\ nonopt_end < optind
        /\ nonopt_end \in 1 .. Argc /\ optind <= optind
    BY <1>1, <1>2 DEF Blocks
  <2> QED BY <1>1, <2>1, <2>2, PermuteStep
<1>3. CASE nonopt_end = -1
  <2>1. /\ optind' = IF nonopt_start # -1 THEN nonopt_start ELSE optind
        /\ nonopt_start' = -1 /\ nonopt_end' = -1 /\ phase' = "parsed" /\ perm' = perm
    BY <1>3 DEF EndOfVector
  <2>2. optind' \in 1 .. Argc + 1
    BY <1>1, <2>1
  <2> QED BY <1>1, <2>1, <2>2, ParsedStep
<1> QED BY <1>2, <1>3

LEMMA DoubleDashStep ==
  ASSUME LineInv, DoubleDash
  PROVE  LineInv'
<1>1. /\ phase = "scan" /\ place = <<>> /\ optind <= Argc
      /\ optind \in 1 .. Argc + 1 /\ Argc \in Nat /\ optind' = optind + 1
      /\ nonopt_start \in {-1} \cup 1 .. Argc /\ nonopt_end \in {-1} \cup 1 .. Argc
      /\ Blocks
      /\ UNCHANGED <<line, posix, argv, place, given>>
  BY LineFacts DEF DoubleDash, Scanning, LineInv, LineTypeOK
<1>2. CASE BlockEnds # -1
  <2>1. /\ Permute("end", BlockEnds, optind + 1) /\ nonopt_start' = nonopt_start
    BY <1>2 DEF DoubleDash
  <2>2. /\ nonopt_start # -1 /\ nonopt_start < BlockEnds /\ BlockEnds < optind + 1
        /\ BlockEnds \in 1 .. Argc /\ optind <= optind + 1 /\ optind + 1 \in 1 .. Argc + 1
    BY <1>1, <1>2 DEF Blocks, BlockEnds
  <2> QED BY <1>1, <2>1, <2>2, PermuteStep
<1>3. CASE BlockEnds = -1
  <2>1. /\ nonopt_start' = -1 /\ nonopt_end' = -1 /\ phase' = "parsed" /\ perm' = perm
    BY <1>3 DEF DoubleDash
  <2>2. optind' \in 1 .. Argc + 1
    BY <1>1
  <2> QED BY <1>1, <2>1, <2>2, ParsedStep
<1> QED BY <1>2, <1>3

LEMMA OperandStep ==
  ASSUME LineInv, Operand
  PROVE  LineInv'
<1>1. /\ phase = "scan" /\ place = <<>> /\ optind <= Argc
      /\ optind \in 1 .. Argc + 1 /\ Argc \in Nat /\ Argc' = Argc
      /\ nonopt_start \in {-1} \cup 1 .. Argc /\ nonopt_end \in {-1} \cup 1 .. Argc
      /\ Blocks
      /\ UNCHANGED <<line, posix, argv, place, given>>
  BY LineFacts DEF Operand, Scanning, LineInv, LineTypeOK, Argc
<1>2. CASE /\ phase' = "parsed"
           /\ UNCHANGED <<optind, nonopt_start, nonopt_end, perm>>
  <2>1. LineTypeOK'
    BY <1>1, <1>2 DEF LineInv, LineTypeOK
  <2>2. Blocks' /\ Cycles' /\ InBlocks' /\ Reading' /\ Ahead'
    BY <1>1, <1>2 DEF Blocks, Cycles, InBlocks, Reading, Ahead
  <2>3. Distinct'
    BY <1>1 DEF LineInv, Distinct
  <2> QED BY <2>1, <2>2, <2>3 DEF LineInv
<1>3. CASE /\ nonopt_end # -1 /\ Permute("operand", nonopt_end, optind)
           /\ UNCHANGED <<optind, nonopt_start>>
  <2>1. /\ nonopt_start # -1 /\ nonopt_start < nonopt_end /\ nonopt_end < optind
        /\ nonopt_end \in 1 .. Argc /\ optind <= optind
    BY <1>1, <1>3 DEF Blocks
  <2> QED BY <1>1, <1>3, <2>1, PermuteStep
<1>4. CASE /\ nonopt_end = -1
           /\ nonopt_start' = IF nonopt_start = -1 THEN optind ELSE nonopt_start
           /\ optind' = optind + 1
           /\ UNCHANGED <<phase, nonopt_end, perm>>
  <2>1. LineTypeOK'
    <3>1. /\ nonopt_start' \in {-1} \cup 1 .. Argc /\ optind' \in 1 .. Argc + 1
      BY <1>1, <1>4
    <3>2. /\ line' \in Seq(Seq(STRING)) /\ posix' \in BOOLEAN
          /\ argv' \in [1 .. Argc -> 1 .. Argc] /\ place' \in Seq(STRING)
          /\ given' \in [Letters -> Seq(STRING) \cup {NotGiven}]
          /\ nonopt_end' \in {-1} \cup 1 .. Argc /\ phase' = "scan"
          /\ perm' \in [then : {"none", "operand", "end"}, opt_end : 0 .. Argc + 1,
                        a : Nat, b : Nat, i : Nat, j : Nat, pos : Int]
      BY <1>1, <1>4 DEF LineInv, LineTypeOK
    <3> QED BY <1>1, <3>1, <3>2 DEF LineTypeOK
  <2>2. Blocks' /\ Cycles' /\ InBlocks' /\ Reading'
    BY <1>1, <1>4 DEF Blocks, Cycles, InBlocks, Reading
  <2>3. Ahead' /\ Distinct'
    <3>1. \A n \in optind' .. Argc : n \in optind .. Argc
      BY <1>1, <1>4
    <3> QED BY <1>1, <1>4, <3>1 DEF LineInv, Ahead, Distinct
  <2> QED BY <2>1, <2>2, <2>3 DEF LineInv
<1> QED BY <1>2, <1>3, <1>4 DEF Operand

LEMMA OptionWordStep ==
  ASSUME LineInv, OptionWord
  PROVE  LineInv'
<1>1. /\ phase = "scan" /\ phase' = "scan" /\ place = <<>> /\ optind <= Argc
      /\ optind \in 1 .. Argc + 1 /\ optind' = optind /\ Argc \in Nat /\ Argc' = Argc
      /\ nonopt_start \in {-1} \cup 1 .. Argc /\ nonopt_end \in {-1} \cup 1 .. Argc
      /\ nonopt_end' = BlockEnds /\ place' = Tail(Word(optind))
      /\ Blocks
      /\ UNCHANGED <<line, posix, argv, nonopt_start, perm, given>>
  BY LineFacts DEF OptionWord, Scanning, LineInv, LineTypeOK, Argc
<1>2. /\ Word(optind) \in Seq(STRING) /\ Len(Word(optind)) > 1
  BY <1>1, LineFacts DEF OptionWord, IsOption
<1>3. place' \in Seq(STRING) /\ place' # <<>>
  <2>1. Word(optind) # <<>> /\ Len(Tail(Word(optind))) = Len(Word(optind)) - 1
        /\ Tail(Word(optind)) \in Seq(STRING)
    BY <1>2, HeadTailProperties, EmptySeq
  <2>2. Len(place') > 0
    BY <1>1, <1>2, <2>1
  <2>3. Len(<<>>) = 0
    BY EmptySeq
  <2>4. place' # <<>>
    BY <2>2, <2>3
  <2> QED BY <1>1, <2>1, <2>4
<1>4. LineTypeOK'
  <2>1. nonopt_end' \in {-1} \cup 1 .. Argc
    BY <1>1 DEF BlockEnds
  <2>2. /\ line' \in Seq(Seq(STRING)) /\ posix' \in BOOLEAN
        /\ argv' \in [1 .. Argc -> 1 .. Argc]
        /\ given' \in [Letters -> Seq(STRING) \cup {NotGiven}]
        /\ nonopt_start' \in {-1} \cup 1 .. Argc
        /\ perm' \in [then : {"none", "operand", "end"}, opt_end : 0 .. Argc + 1,
                      a : Nat, b : Nat, i : Nat, j : Nat, pos : Int]
    BY <1>1 DEF LineInv, LineTypeOK
  <2> QED BY <1>1, <1>3, <2>1, <2>2 DEF LineTypeOK
<1>5. Blocks' /\ Cycles' /\ InBlocks' /\ Reading'
  BY <1>1, <1>3 DEF Blocks, Cycles, InBlocks, Reading, BlockEnds
<1>6. Ahead' /\ Distinct'
  BY <1>1 DEF LineInv, Ahead, Distinct
<1> QED BY <1>4, <1>5, <1>6 DEF LineInv

(* What a call of pure_permute_args works on.                              *)
LEMMA CycleFacts ==
  ASSUME LineInv, phase \in {"gcd", "cycles"}
  PROVE  /\ Argc \in Nat /\ nonopt_start \in 1 .. Argc /\ nonopt_end \in 1 .. Argc
         /\ optind \in 1 .. Argc + 1 /\ perm.opt_end = optind
         /\ nonopt_start < nonopt_end /\ nonopt_end < optind
         /\ perm.b \in Nat /\ 0 < perm.b /\ perm.b <= optind - nonopt_end
         /\ perm.i \in Nat /\ perm.i <= perm.b /\ perm.j \in Nat
         /\ perm.a \in Nat /\ perm.pos \in Int
BY LineFacts DEF LineInv, LineTypeOK, Cycles, Blocks, nopts

(* The divisor of pure_gcd is never 0.                                     *)
LEMMA GcdStep ==
  ASSUME LineInv, Gcd
  PROVE  LineInv'
<1>1. /\ phase = "gcd" /\ Argc' = Argc
      /\ UNCHANGED <<line, posix, argv, optind, place, nonopt_start, nonopt_end, given>>
  BY DEF Gcd, Argc
<1>2. perm.a % perm.b \in 0 .. perm.b - 1
  BY <1>1, CycleFacts
<1>3. /\ perm' \in [then : {"none", "operand", "end"}, opt_end : 0 .. Argc + 1,
                    a : Nat, b : Nat, i : Nat, j : Nat, pos : Int]
      /\ phase' \in {"gcd", "cycles"}
      /\ perm'.opt_end = perm.opt_end /\ perm'.then = perm.then /\ perm'.i = perm.i
      /\ 0 < perm'.b /\ perm'.b <= perm.b
      /\ phase' = "cycles" => perm'.pos = nonopt_end
  <2>1. perm \in [then : {"none", "operand", "end"}, opt_end : 0 .. Argc + 1,
                 a : Nat, b : Nat, i : Nat, j : Nat, pos : Int]
    BY DEF LineInv, LineTypeOK
  <2>2. perm.b \in Nat /\ 0 < perm.b /\ nonopt_end \in Int /\ Argc \in Nat
    BY <1>1, CycleFacts
  <2> DEFINE c == perm.a % perm.b
  <2>3. c \in Nat /\ c < perm.b
    BY <1>2, <2>2
  <2>4. CASE c # 0
    <3>1. /\ perm' = [perm EXCEPT !.a = perm.b, !.b = c] /\ phase' = phase
      BY <2>4 DEF Gcd
    <3> HIDE DEF c
    <3>2. /\ perm'.opt_end = perm.opt_end /\ perm'.then = perm.then /\ perm'.i = perm.i
          /\ perm'.b = c
      BY <2>1, <3>1
    <3>3. perm' \in [then : {"none", "operand", "end"}, opt_end : 0 .. Argc + 1,
                    a : Nat, b : Nat, i : Nat, j : Nat, pos : Int]
      BY <2>1, <2>2, <2>3, <3>1
    <3> QED BY <1>1, <2>2, <2>3, <2>4, <3>1, <3>2, <3>3
  <2>5. CASE c = 0
    <3>1. /\ perm' = [perm EXCEPT !.pos = nonopt_end] /\ phase' = "cycles"
      BY <2>5 DEF Gcd
    <3>2. /\ perm'.opt_end = perm.opt_end /\ perm'.then = perm.then /\ perm'.i = perm.i
          /\ perm'.b = perm.b /\ perm'.pos = nonopt_end
      BY <2>1, <3>1
    <3>3. perm' \in [then : {"none", "operand", "end"}, opt_end : 0 .. Argc + 1,
                    a : Nat, b : Nat, i : Nat, j : Nat, pos : Int]
      BY <2>1, <2>2, <3>1
    <3> QED BY <2>2, <3>1, <3>2, <3>3
  <2> QED BY <2>4, <2>5
<1>4. LineTypeOK'
  BY <1>1, <1>3 DEF LineInv, LineTypeOK
<1>5. Blocks' /\ Reading' /\ Ahead' /\ Distinct'
  BY <1>1, <1>3 DEF LineInv, Blocks, Reading, Ahead, Distinct
<1>6. Cycles'
  <2>1. nopts' = nopts
    BY <1>1, <1>3 DEF nopts
  <2>2. perm'.b \in Int /\ perm.b \in Int /\ nopts \in Int
    BY <1>1, <1>3, CycleFacts DEF nopts
  <2>3. /\ nonopt_start # -1 /\ nonopt_end # -1 /\ nonopt_end < perm.opt_end
        /\ perm.opt_end = optind /\ (perm.then = "operand" => optind <= Argc)
        /\ perm.b <= nopts /\ perm.i = 0
    BY <1>1 DEF LineInv, Cycles
  <2> QED BY <1>1, <1>3, <2>1, <2>2, <2>3 DEF Cycles
<1>7. InBlocks'
  BY <1>1, <1>3, CycleFacts DEF InBlocks
<1> QED BY <1>4, <1>5, <1>6, <1>7 DEF LineInv

(* Two words that change places stay two words.                            *)
LEMMA ExchangedFacts ==
  ASSUME LineInv, NEW m \in 1 .. Argc, NEW cstart \in 1 .. Argc
  PROVE  /\ Exchanged(m, cstart) \in [1 .. Argc -> 1 .. Argc]
         /\ \A n, k \in 1 .. Argc :
              Exchanged(m, cstart)[n] = Exchanged(m, cstart)[k] => n = k
         /\ \A n \in 1 .. Argc :
              n # m /\ n # cstart => Exchanged(m, cstart)[n] = argv[n]
<1>1. argv \in [1 .. Argc -> 1 .. Argc] /\ Distinct
  BY DEF LineInv, LineTypeOK
<1>2. \A n \in 1 .. Argc :
        Exchanged(m, cstart)[n] = IF n = cstart THEN argv[m]
                                  ELSE IF n = m THEN argv[cstart] ELSE argv[n]
  BY <1>1 DEF Exchanged
<1> QED BY <1>1, <1>2 DEF Exchanged, Distinct

(* A step of a cycle goes from one block to the other.                     *)
LEMMA SwapStep ==
  ASSUME LineInv, Swap
  PROVE  LineInv'
<1>1. /\ phase = "cycles" /\ phase' = "cycles" /\ perm.i < perm.b /\ Argc' = Argc
      /\ UNCHANGED <<line, posix, optind, place, nonopt_start, nonopt_end, given>>
  BY DEF Swap, Argc
<1>2. nonopt_start <= perm.pos /\ perm.pos < optind
  BY <1>1, CycleFacts DEF LineInv, InBlocks
<1>3. nonopt_start <= NextPos /\ NextPos < optind /\ NextPos \in Int
  BY <1>1, <1>2, CycleFacts DEF NextPos, nnonopts, nopts
<1>4. NextPos \in 1 .. Argc /\ nonopt_end + perm.i \in 1 .. Argc
      /\ nonopt_end + perm.i < optind
  BY <1>1, <1>3, CycleFacts
<1>5. /\ perm' \in [then : {"none", "operand", "end"}, opt_end : 0 .. Argc + 1,
                    a : Nat, b : Nat, i : Nat, j : Nat, pos : Int]
      /\ perm'.opt_end = perm.opt_end /\ perm'.then = perm.then
      /\ perm'.b = perm.b /\ perm'.i <= perm.b
      /\ nonopt_start <= perm'.pos /\ (perm'.i < perm.b => perm'.pos < optind)
  <2>1. perm \in [then : {"none", "operand", "end"}, opt_end : 0 .. Argc + 1,
                 a : Nat, b : Nat, i : Nat, j : Nat, pos : Int]
    BY DEF LineInv, LineTypeOK
  <2>2. /\ perm.i \in Nat /\ perm.j \in Nat /\ perm.b \in Nat /\ perm.i < perm.b
        /\ nonopt_end \in Int /\ nonopt_start \in Int /\ nonopt_start < nonopt_end
        /\ optind \in Int /\ perm.b <= optind - nonopt_end
    BY <1>1, CycleFacts
  <2>3. CASE perm' = [perm EXCEPT !.j = perm.j + 1, !.pos = NextPos]
    <3>1. /\ perm'.opt_end = perm.opt_end /\ perm'.then = perm.then
          /\ perm'.b = perm.b /\ perm'.i = perm.i /\ perm'.pos = NextPos
      BY <2>1, <2>3
    <3>2. perm' \in [then : {"none", "operand", "end"}, opt_end : 0 .. Argc + 1,
                    a : Nat, b : Nat, i : Nat, j : Nat, pos : Int]
      <4>1. perm.j + 1 \in Nat
        BY <2>2
      <4> QED BY <1>3, <2>1, <2>3, <4>1
    <3> QED BY <1>3, <2>2, <3>1, <3>2
  <2>4. CASE perm' = [perm EXCEPT !.i = perm.i + 1, !.j = 0,
                                  !.pos = nonopt_end + perm.i + 1]
    <3>1. /\ perm'.opt_end = perm.opt_end /\ perm'.then = perm.then
          /\ perm'.b = perm.b /\ perm'.i = perm.i + 1
          /\ perm'.pos = nonopt_end + perm.i + 1
      BY <2>1, <2>4
    <3>2. perm' \in [then : {"none", "operand", "end"}, opt_end : 0 .. Argc + 1,
                    a : Nat, b : Nat, i : Nat, j : Nat, pos : Int]
      <4>1. perm.i + 1 \in Nat /\ nonopt_end + perm.i + 1 \in Int
        BY <2>2
      <4> QED BY <2>1, <2>4, <4>1
    <3> QED BY <2>2, <3>1, <3>2
  <2> QED BY <2>3, <2>4 DEF Swap
<1>6. argv' = Exchanged(NextPos, nonopt_end + perm.i)
  BY DEF Swap
<1>7. LineTypeOK'
  <2>1. argv' \in [1 .. Argc -> 1 .. Argc]
    BY <1>4, <1>6, ExchangedFacts
  <2> QED BY <1>1, <1>5, <2>1 DEF LineInv, LineTypeOK
<1>8. Distinct'
  BY <1>1, <1>4, <1>6, ExchangedFacts DEF Distinct
<1>9. Ahead'
  <2>1. \A n \in optind .. Argc : n \in 1 .. Argc /\ n # NextPos /\ n # nonopt_end + perm.i
    BY <1>1, <1>3, <1>4, CycleFacts
  <2>2. \A n \in optind .. Argc : argv'[n] = argv[n]
    BY <1>4, <1>6, <2>1, ExchangedFacts
  <2> QED BY <1>1, <2>2 DEF LineInv, Ahead
<1>10. Blocks' /\ Reading'
  BY <1>1 DEF LineInv, Blocks, Reading
<1>11. Cycles' /\ InBlocks'
  BY <1>1, <1>5, CycleFacts DEF LineInv, Cycles, InBlocks, nopts
<1> QED BY <1>7, <1>8, <1>9, <1>10, <1>11 DEF LineInv

LEMMA PermutedStep ==
  ASSUME LineInv, Permuted
  PROVE  LineInv'
<1>1. /\ phase = "cycles" /\ Argc' = Argc /\ nonopt_end' = -1 /\ perm' = NoPermutation
      /\ UNCHANGED <<line, posix, argv, place, given>>
  BY DEF Permuted, Argc
<1>2. NoPermutation \in [then : {"none", "operand", "end"}, opt_end : 0 .. Argc + 1,
                       a : Nat, b : Nat, i : Nat, j : Nat, pos : Int]
  BY <1>1, CycleFacts DEF NoPermutation
<1>3. /\ line' \in Seq(Seq(STRING)) /\ posix' \in BOOLEAN
      /\ argv' \in [1 .. Argc -> 1 .. Argc] /\ place' \in Seq(STRING)
      /\ given' \in [Letters -> Seq(STRING) \cup {NotGiven}]
  BY <1>1 DEF LineInv, LineTypeOK
<1>4. CASE /\ perm.then = "operand"
           /\ optind' = optind + 1 /\ phase' = "scan" /\ nonopt_start' = optind - nnonopts
  <2>1. optind <= Argc
    BY <1>1, <1>4 DEF LineInv, Cycles
  <2>2. optind' \in 1 .. Argc + 1 /\ nonopt_start' \in 1 .. Argc /\ nonopt_start' < optind'
    BY <1>1, <1>4, <2>1, CycleFacts DEF nnonopts
  <2>3. LineTypeOK'
    BY <1>1, <1>2, <1>3, <1>4, <2>2 DEF LineTypeOK
  <2>4. place = <<>>
    BY <1>1 DEF LineInv, Reading
  <2>5. Blocks' /\ Cycles' /\ InBlocks' /\ Reading'
    BY <1>1, <1>4, <2>2, <2>4 DEF Blocks, Cycles, InBlocks, Reading
  <2>6. Ahead' /\ Distinct'
    <3>1. \A n \in optind' .. Argc : n \in optind .. Argc
      BY <1>1, <1>4, CycleFacts
    <3> QED BY <1>1, <1>4, <3>1 DEF LineInv, Ahead, Distinct
  <2> QED BY <2>3, <2>5, <2>6 DEF LineInv
<1>5. CASE optind' = optind - nnonopts /\ phase' = "parsed" /\ nonopt_start' = -1
  <2>1. optind' \in 1 .. Argc + 1
    BY <1>1, <1>5, CycleFacts DEF nnonopts
  <2>2. LineTypeOK'
    BY <1>1, <1>2, <1>3, <1>5, <2>1 DEF LineTypeOK
  <2>3. Blocks' /\ Cycles' /\ InBlocks' /\ Reading' /\ Ahead'
    BY <1>1, <1>5 DEF Blocks, Cycles, InBlocks, Reading, Ahead
  <2>4. Distinct'
    BY <1>1 DEF LineInv, Distinct
  <2> QED BY <2>2, <2>3, <2>4 DEF LineInv
<1> QED BY <1>4, <1>5 DEF Permuted

LEMMA LineStep ==
  ASSUME LineInv, [LineNext]_lineVars
  PROVE  LineInv'
<1>1. CASE UNCHANGED lineVars
  BY <1>1 DEF lineVars, LineInv, LineTypeOK, Blocks, Cycles, InBlocks, Reading,
              Ahead, Distinct, Argc, nopts
<1>2. CASE LineNext
  BY <1>2, RefuseStep, EndOfVectorStep, OperandStep, DoubleDashStep, OptionWordStep,
     ShortOptionStep, LongOptionStep, GcdStep, SwapStep, PermutedStep
     DEF LineNext, NoWord
<1> QED BY <1>1, <1>2

(* What the scan preserves at every step.                                  *)
THEOREM LineInvariance == LineSpec => []LineInv
<1>1. /\ line \in Seq(Seq(STRING)) /\ posix \in BOOLEAN /\ LineInit => LineInv
  BY LineInitInv
<1>2. LineInv /\ [LineNext]_lineVars => LineInv'
  BY LineStep
<1> QED BY <1>1, <1>2, PTL DEF LineSpec

(* However many words and options there are, pure_permute_args keeps every *)
(* word, once, and the words ahead of the scan in their places.            *)
THEOREM WordsKept == LineSpec => []EachWordOnce
<1>1. LineInv => EachWordOnce
  BY DEF LineInv, Distinct, Ahead, EachWordOnce
<1> QED BY <1>1, LineInvariance, PTL

(* It divides by no 0, and exchanges only words of the two blocks, which   *)
(* are in front of the word that is read.                                  *)
InTheBlocks ==
  /\ phase = "gcd" => perm.b # 0
  /\ phase = "cycles" /\ perm.i < perm.b =>
       NextPos \in nonopt_start .. optind - 1 /\ nonopt_end + perm.i < optind

THEOREM ExchangesInBlocks == LineSpec => []InTheBlocks
<1>1. LineInv => InTheBlocks
  <2> SUFFICES ASSUME LineInv
               PROVE  InTheBlocks
    OBVIOUS
  <2>1. CASE phase = "gcd"
    BY <2>1, CycleFacts DEF InTheBlocks
  <2>2. CASE phase = "cycles" /\ perm.i < perm.b
    <3>1. nonopt_start <= perm.pos /\ perm.pos < optind
      BY <2>2, CycleFacts DEF LineInv, InBlocks
    <3> QED BY <2>2, <3>1, CycleFacts DEF InTheBlocks, NextPos, nnonopts, nopts
  <2> QED BY <2>1, <2>2 DEF InTheBlocks
<1> QED BY <1>1, LineInvariance, PTL
===============================================================================
