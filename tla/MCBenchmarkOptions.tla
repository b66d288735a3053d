-------------------------- MODULE MCBenchmarkOptions --------------------------
(* Command lines of any length over one text of each kind: a small number,   *)
(* zero, a negated one (beyond int and the greatest size), one beyond 64     *)
(* bits, one followed by rubbish, lists, among them the default sizes, a     *)
(* list that ends in a comma, a kernel, the empty text and a flag.           *)
EXTENDS BenchmarkOptions

MCArguments ==
  {"1", "0", "-1", "18446744073709551616", "1x", "4,", "4,0,1", "256,512,1024",
   "", "avx2-mt", "--help"}

MCTexts == MCArguments \cup {"4", "256", "512", "1024"}

\* A size_t of 12 bits stands for that of 64.
MCWritten ==
  LET Shown(n, m, w) == [number |-> n, minus |-> m, whole |-> w]
  IN  [text \in MCTexts |->
         CASE text = "-1" -> Shown(1, TRUE, TRUE)
           [] text = "1" -> Shown(1, FALSE, TRUE)
           [] text = "4" -> Shown(4, FALSE, TRUE)
           [] text = "256" -> Shown(256, FALSE, TRUE)
           [] text = "512" -> Shown(512, FALSE, TRUE)
           [] text = "1024" -> Shown(1024, FALSE, TRUE)
           [] text = "0" -> Shown(0, FALSE, TRUE)
           [] text = "18446744073709551616" -> Shown(SizeMax + 1, FALSE, TRUE)
           [] text = "1x" -> Shown(1, FALSE, FALSE)
           [] text \in {"4,", "4,0,1"} -> Shown(4, FALSE, FALSE)
           [] text = "256,512,1024" -> Shown(256, FALSE, FALSE)
           [] OTHER -> Shown(0, FALSE, FALSE)]

MCFields ==
  [text \in MCTexts |->
     CASE text = "4," -> <<"4", "">>
       [] text = "4,0,1" -> <<"4", "0", "1">>
       [] text = "256,512,1024" -> <<"256", "512", "1024">>
       [] OTHER -> <<text>>]
===============================================================================
