----------------------------- MODULE CodeBuilder -----------------------------
(***************************************************************************)
(* How a submission becomes a program: NormalizeLanguage, Sanitize, Build  *)
(* and the analyzer of Go code (internal/executor), as operators.          *)
(*                                                                         *)
(* A text is what these functions see of it:                               *)
(*   length     its number of bytes                                        *)
(*   matches    the pattern categories it matches, as <<table, category>>  *)
(*   parses     it is well-formed as, or inside of, a Go file              *)
(*   imports    the packages its import declarations name                  *)
(*   selectors  the identifiers x of its expressions x.y                   *)
(*   holes      the placeholders it contains                               *)
(*   generated  the packages of a generated import declaration             *)
(***************************************************************************)
EXTENDS Naturals, FiniteSets

DefaultMaxCodeLength == 1000

(***************************************************************************)
(* NormalizeLanguage.                                                      *)
(***************************************************************************)
\* The spellings, in lower case, of each standard name.
LanguageMap ==
  [Javascript |-> {"js", "jscript", "javscript", "javsscript", "javascipt", "javasript",
                   "javascript", "java script", "jscipt"},
   Python     |-> {"python", "pyt", "pyn", "pythn", "phyton", "py", "py thon", "pthon"},
   Golang     |-> {"go", "golang", "gol", "goo", "g o", "golangg"}]

NormalizeLanguage(lang) ==
  LET names == {n \in DOMAIN LanguageMap : lang \in LanguageMap[n]}
  IN  IF names = {} THEN [name |-> lang, found |-> FALSE]
      ELSE [name |-> CHOOSE n \in names : TRUE, found |-> TRUE]

(***************************************************************************)
(* Sanitize.                                                               *)
(***************************************************************************)
CommonPatterns ==
  {"common"} \X {"systemOperations", "codeExecution", "resourceDepletion", "forkBombs"}

LanguagePatterns ==
  [python |-> {"python"} \X {"dangerousModules", "dangerousOperations", "pythonResourceDepletion"},
   go     |-> {"go"} \X {"infiniteLoops", "dangerousOsFunctions", "goResourceDepletion"},
   js     |-> {"js"} \X {"dangerousModules", "dangerousOperations", "jsResourceDepletion"},
   cpp    |-> {"cpp"} \X {"dangerousOperations", "cppResourceDepletion"}]

\* A name that is not a key of the map has no patterns.
PatternsOf(lang) == IF lang \in DOMAIN LanguagePatterns THEN LanguagePatterns[lang] ELSE {}

Sanitized(code, lang, maxCodeLength) ==
  /\ code.length <= maxCodeLength
  /\ code.matches \cap (CommonPatterns \cup PatternsOf(lang)) = {}

(***************************************************************************)
(* Build.                                                                  *)
(***************************************************************************)
Placeholder(lang) ==
  CASE lang = "Golang"     -> [code |-> "// USER_CODE_HERE", import |-> "// IMPORTS_HERE"]
    [] lang = "Python"     -> [code |-> "# USER_CODE_HERE", import |-> ""]
    [] lang = "Javascript" -> [code |-> "// USER_CODE_HERE", import |-> ""]

\* A driver without the placeholder stays as it is.
Combine(driver, code, hole) ==
  IF hole \notin driver.holes THEN driver
  ELSE [driver EXCEPT !.imports   = @ \cup code.imports,
                      !.selectors = @ \cup code.selectors,
                      !.parses    = @ /\ code.parses]

\* GoPackageAnalyzer.Analyze: every selector is taken for a package.
Analyze(text) == text.imports \cup text.selectors

GenerateImports(text, hole) ==
  IF hole \in text.holes THEN [text EXCEPT !.generated = Analyze(text)] ELSE text

\* NewGoPackageAnalyzer is the only analyzer main registers.
Analyzed == {NormalizeLanguage("golang").name}

Build(lang, driver, code) ==
  LET place    == Placeholder(lang)
      combined == Combine(driver, code, place.code)
  IN  IF ~Sanitized(code, lang, DefaultMaxCodeLength)
      THEN [err |-> "sanitization", text |-> driver]
      ELSE IF lang \notin Analyzed THEN [err |-> "none", text |-> combined]
      ELSE IF ~combined.parses THEN [err |-> "parsed", text |-> driver]
      ELSE [err |-> "none", text |-> GenerateImports(combined, place.import)]
=============================================================================
