------------------------------- MODULE MCCli -------------------------------
(***************************************************************************)
(* Cli for TLC: every line of up to three arguments, most of them refused,   *)
(* and lines that run every program of two cells, and longer ones, on every  *)
(* engine, with limits on both sides of the program's length, a stop         *)
(* address, and a result that is mapped, partly mapped or beyond the address *)
(* space.                                                                   *)
(***************************************************************************)
EXTENDS Cli, MCPrograms, TLC

File(raw, image) == [raw |-> raw, entry_point |-> image.entry_point, memory |-> image.memory]

PairPath(code) == "p" \o ToString(20 * code[1] + code[2])
Short ==
  LET codeOf == [path \in { PairPath(code) : code \in (1..20) \X (1..20) } |->
                   CHOOSE code \in (1..20) \X (1..20) : PairPath(code) = path]
  IN  [path \in DOMAIN codeOf |-> File(FALSE, Image(0, codeOf[path] \o <<17, 4>>))]

Long == [ loop |-> File(FALSE, MCLoop), rewrite |-> File(FALSE, MCRewrite),
          pending |-> File(FALSE, MCPending), fails |-> File(FALSE, MCFails),
          resets |-> File(FALSE, MCResets), raw |-> File(TRUE, MCResets) ]
MCFiles == Short @@ Long

MCNumbers == "0" :> 0 @@ "1" :> 1 @@ "2" :> 2 @@ "3" :> 3 @@ "7" :> 7 @@ "62" :> 62 @@ "-1" :> 63
MCNames   == (DOMAIN MCNumbers \ {"-1"}) \cup DOMAIN MCFiles \cup {"ref", "ca", "compare", "absent", "out", "info"}

(***************************************************************************)
(* Lines of a few arguments.                                                *)
(***************************************************************************)
Loose == { "--engine", "ca", "compare", "--bin", "fails", "absent", "--disasm", "--disasm-only",
           "--no-reference", "--max-cycles", "0", "-1", "--stop-pc", "--raw-base",
           "--compare-window", "--result-size", "--log-level", "info", "-h", "--bogus" }
Mentions(line, token) == \E i \in 1..Len(line) : line[i] = token
Brief == { line \in UNION { [1..n -> Loose] : n \in 0..3 } :
              ~(Mentions(line, "ca") /\ Mentions(line, "--no-reference")) }

(***************************************************************************)
(* Lines that run.                                                          *)
(***************************************************************************)
Export(address) == <<"--result-dump", "out", "--result-size", "3", "--result-address", address>>
Limit(n)        == <<"--max-cycles", n>>
Stop            == <<"--stop-pc", "2">>
Window(n)       == <<"--compare-window", n>>

Variations ==
  { Limit("7") \o Window("2"), Limit("7") \o Stop \o Export("0"), Limit("7") \o Export("3"),
    Limit("1") \o Export("0") \o Window("1"), Limit("0") \o Export("62"),
    <<"--disasm-only">> \o Limit("7") \o Export("0"), <<"--no-report", "--no-pipeview", "--disasm">> \o Limit("1") }

Runs(paths, options) ==
  { <<"--engine", engine>> \o option \o <<path>> :
      engine \in {"ref", "ca", "compare"}, option \in options, path \in paths }

Idle == { <<"--no-reference", "--engine", "ca", path>> \o option :
            path \in {"loop", "fails"}, option \in Variations }

Raw == Runs({"raw"}, { <<"--raw-base", base>> \o Export("0") : base \in {"0", "2", "-1"} })

Ending == Runs({"fails", "resets"}, { << >>, Export("0"), Stop, Window("1") })

MCCommandLines == Brief \cup Runs(DOMAIN MCFiles, Variations) \cup Idle \cup Raw \cup Ending
=============================================================================
