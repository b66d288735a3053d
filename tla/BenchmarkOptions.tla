--------------------------- MODULE BenchmarkOptions ---------------------------
(***************************************************************************)
(* parse_options: one pass over argv, of any length, then the checks that  *)
(* need the whole command line.  A step reads one option with its value.   *)
(*                                                                         *)
(* A text is what a command line may hold where a value is wanted, or a    *)
(* piece of such a text between commas.  The code takes the next argument  *)
(* as a value whatever it looks like, so "--csv --help" names a file.      *)
(***************************************************************************)
EXTENDS BenchmarkTypes

CONSTANTS
  Texts,     \* all texts
  Arguments, \* those that may stand where a value is wanted
  Written,   \* what number a text shows: its absolute value (0 where there are no
             \* digits), whether a minus precedes it, whether it is the whole text
  Fields,    \* the fields of a text between its commas, empty ones included
  SizeMax    \* 2^64 - 1, the greatest std::size_t

ASSUME OptionsAssumption == SizeMax \in Nat /\ SizeMax > IntMax

ASSUME TextsAssumption ==
  /\ Arguments \subseteq Texts
  /\ Written \in [Texts -> [number : Nat, minus : BOOLEAN, whole : BOOLEAN]]
  /\ Fields \in [Texts -> Seq(Texts) \ {<<>>}]

VARIABLES
  parsed,       \* parsed.options
  custom_sizes, \* --sizes was given
  rectangular,  \* one of --m, --n, --k was given
  mnk,          \* m, n and k, 0 when not given
  stage,        \* "read", "check", "parsed", "help", or the exception thrown
  illegal,      \* history: a numeric option was given a value that is no positive integer
  given         \* history: the value of the last --sizes, "" before the first

parseVars == <<parsed, custom_sizes, rectangular, mnk, stage, illegal, given>>

\* std::stoull negates a number with a minus modulo 2^64.
Conversion(text) ==
  IF Written[text].minus /\ Written[text].number > 0
  THEN SizeMax + 1 - Written[text].number
  ELSE Written[text].number

\* The texts stoull refuses with std::out_of_range.  Those without digits, which it
\* refuses with std::invalid_argument, fall together with an incomplete conversion.
OutOfRange(text) == Written[text].number > SizeMax

\* parse_positive_size returns a value for these ...
IsSize(text) == ~OutOfRange(text) /\ Written[text].whole /\ Conversion(text) # 0

\* ... and throws for the others.
SizeError(text) == IF OutOfRange(text) THEN "out_of_range" ELSE "invalid_argument"

\* std::getline with ',': a last field that is empty is not delivered.
Pieces(text) ==
  LET last == Len(Fields[text])
  IN  IF Fields[text][last] = "" THEN SubSeq(Fields[text], 1, last - 1) ELSE Fields[text]

\* What a user calls a positive integer that fits.
Positive(text) ==
  Written[text].whole /\ ~Written[text].minus /\ Written[text].number \in 1 .. SizeMax

ParseInit ==
  /\ parsed = DefaultOptions
  /\ custom_sizes = FALSE
  /\ rectangular = FALSE
  /\ mnk = [m |-> 0, n |-> 0, k |-> 0]
  /\ stage = "read"
  /\ illegal = FALSE
  /\ given = ""

\* The value is not legal: an exception leaves parse_options.
Refuse(exception) ==
  /\ stage' = exception
  /\ UNCHANGED <<parsed, custom_sizes, rectangular, mnk, given>>

MissingValue ==
  /\ stage = "read"
  /\ Refuse("invalid_argument")
  /\ UNCHANGED illegal

UnknownArgument ==
  /\ stage = "read"
  /\ Refuse("invalid_argument")
  /\ UNCHANGED illegal

\* A numeric option whose value is refused; repeats has an upper limit too.
BadNumber(text) ==
  /\ stage = "read"
  /\ ~IsSize(text)
  /\ Refuse(SizeError(text))
  /\ illegal' = (illegal \/ ~Positive(text))

BadRepeats(text) ==
  /\ stage = "read"
  /\ IsSize(text)
  /\ Conversion(text) > IntMax
  /\ Refuse("invalid_argument")
  /\ illegal' = (illegal \/ ~Positive(text))

Repeats(text) ==
  /\ stage = "read"
  /\ IsSize(text)
  /\ Conversion(text) <= IntMax
  /\ parsed' = [parsed EXCEPT !.repeats = Conversion(text)]
  /\ illegal' = (illegal \/ ~Positive(text))
  /\ UNCHANGED <<custom_sizes, rectangular, mnk, stage, given>>

\* parse_square_sizes: no piece at all, or the first bad piece, is an error.
Square(size) == <<size, size, size>>
Squares(text) == [x \in DOMAIN Pieces(text) |-> Square(Conversion(Pieces(text)[x]))]

BadSizes(text) ==
  /\ stage = "read"
  /\ \/ Pieces(text) = <<>> /\ Refuse("invalid_argument")
     \/ \E x \in DOMAIN Pieces(text) :
          /\ ~IsSize(Pieces(text)[x])
          /\ \A y \in 1 .. x - 1 : IsSize(Pieces(text)[y])
          /\ Refuse(SizeError(Pieces(text)[x]))
  /\ illegal' = (illegal \/ \E x \in DOMAIN Pieces(text) : ~Positive(Pieces(text)[x]))

AreSizes(text) ==
  Pieces(text) # <<>> /\ \A x \in DOMAIN Pieces(text) : IsSize(Pieces(text)[x])

Sizes(text) ==
  /\ stage = "read"
  /\ AreSizes(text)
  /\ parsed' = [parsed EXCEPT !.shapes = Squares(text)]
  /\ custom_sizes' = TRUE
  /\ given' = text
  /\ illegal' = (illegal \/ \E x \in DOMAIN Pieces(text) : ~Positive(Pieces(text)[x]))
  /\ UNCHANGED <<rectangular, mnk, stage>>

Dimension(d, text) ==
  /\ stage = "read"
  /\ IsSize(text)
  /\ mnk' = [mnk EXCEPT ![d] = Conversion(text)]
  /\ rectangular' = TRUE
  /\ illegal' = (illegal \/ ~Positive(text))
  /\ UNCHANGED <<parsed, custom_sizes, stage, given>>

Csv(text) ==
  /\ stage = "read"
  /\ parsed' = [parsed EXCEPT !.csv_path = text]
  /\ UNCHANGED <<custom_sizes, rectangular, mnk, stage, illegal, given>>

Kernel(text) ==
  /\ stage = "read"
  /\ text \in Kernels
  /\ parsed' = [parsed EXCEPT !.kernel = text]
  /\ UNCHANGED <<custom_sizes, rectangular, mnk, stage, illegal, given>>

BadKernel(text) ==
  /\ stage = "read"
  /\ text \notin Kernels
  /\ Refuse("invalid_argument")
  /\ UNCHANGED illegal

BlockSize(text) ==
  /\ stage = "read"
  /\ IsSize(text)
  /\ parsed' = [parsed EXCEPT !.block_size = Conversion(text)]
  /\ illegal' = (illegal \/ ~Positive(text))
  /\ UNCHANGED <<custom_sizes, rectangular, mnk, stage, given>>

Threads(text) ==
  /\ stage = "read"
  /\ IsSize(text)
  /\ parsed' = [parsed EXCEPT !.thread_count = Conversion(text)]
  /\ illegal' = (illegal \/ ~Positive(text))
  /\ UNCHANGED <<custom_sizes, rectangular, mnk, stage, given>>

SkipVerification ==
  /\ stage = "read"
  /\ parsed' = [parsed EXCEPT !.verify_results = FALSE]
  /\ UNCHANGED <<custom_sizes, rectangular, mnk, stage, illegal, given>>

\* --help returns at once: nothing after it is looked at, and the checks on
\* the whole command line are not made.
Help ==
  /\ stage = "read"
  /\ stage' = "help"
  /\ UNCHANGED <<parsed, custom_sizes, rectangular, mnk, illegal, given>>

EndOfArguments ==
  /\ stage = "read"
  /\ stage' = "check"
  /\ UNCHANGED <<parsed, custom_sizes, rectangular, mnk, illegal, given>>

\* The checks after the loop.  (SlipSumOfDimensions and SlipThreadsOnly are
\* plausible mistakes in the definitions after them, which no specification uses.)
SlipSumOfDimensions == rectangular /\ mnk.m + mnk.n + mnk.k = 0
IncompleteShape == rectangular /\ (mnk.m = 0 \/ mnk.n = 0 \/ mnk.k = 0)

ModeConflict == (custom_sizes /\ rectangular) \/ IncompleteShape

SlipThreadsOnly == ~SupportsThreads(parsed.kernel) /\ parsed.thread_count # 1
OptionConflict ==
  \/ ~SupportsThreads(parsed.kernel) /\ parsed.thread_count # 1
  \/ ~parsed.verify_results /\ parsed.csv_path # ""

RejectConflict ==
  /\ stage = "check"
  /\ ModeConflict \/ OptionConflict
  /\ Refuse("invalid_argument")
  /\ UNCHANGED illegal

Accept ==
  /\ stage = "check"
  /\ ~ModeConflict /\ ~OptionConflict
  /\ parsed' = IF rectangular
                THEN [parsed EXCEPT !.shapes = <<<<mnk.m, mnk.n, mnk.k>>>>]
                ELSE parsed
  /\ stage' = "parsed"
  /\ UNCHANGED <<custom_sizes, rectangular, mnk, illegal, given>>

ReadValue(text) ==
  \/ BadNumber(text) \/ BadRepeats(text) \/ BadSizes(text) \/ BadKernel(text)
  \/ Repeats(text) \/ Sizes(text) \/ Csv(text) \/ Kernel(text)
  \/ BlockSize(text) \/ Threads(text)
  \/ \E d \in {"m", "n", "k"} : Dimension(d, text)

ParseNext ==
  \/ \E text \in Arguments : ReadValue(text)
  \/ MissingValue \/ UnknownArgument \/ SkipVerification \/ Help
  \/ EndOfArguments \/ RejectConflict \/ Accept

ParseSpec == ParseInit /\ [][ParseNext]_parseVars
-------------------------------------------------------------------------------
\* Whatever the order, repetition and number of the options, what parse_options
\* returns is a configuration the benchmark can run: Benchmark starts from it.
AcceptedIsAdmissible == stage = "parsed" => Admissible(parsed)

\* The two ways to name shapes do not mix (docs/benchmark-methodology.md,
\* line 14): the shapes are the one of --m, --n and --k, all three of them given;
\* or the squares of the last --sizes, every size of it in its order and whatever
\* was read before and after it; or, without either, the defaults.
ShapesFromOneMode ==
  stage = "parsed" =>
    /\ rectangular => /\ ~custom_sizes
                      /\ parsed.shapes = <<<<mnk.m, mnk.n, mnk.k>>>>
                      /\ \A d \in 1 .. 3 : parsed.shapes[1][d] # 0
    /\ custom_sizes => AreSizes(given) /\ parsed.shapes = Squares(given)
    /\ ~rectangular /\ ~custom_sizes => parsed.shapes = DefaultShapes

\* benchmark_options.hpp, line 16: parse_options throws std::invalid_argument
\* when a value is illegal; parse_positive_size names what is legal: "must be a
\* positive integer".
IllegalValueIsInvalidArgument ==
  illegal /\ stage \in {"parsed", "help", "invalid_argument", "out_of_range"} =>
    stage = "invalid_argument"
===============================================================================
