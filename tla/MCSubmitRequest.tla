--------------------------- MODULE MCSubmitRequest ---------------------------
(* Instances of SubmitRequest for TLC.                                      *)
EXTENDS SubmitRequest

CONSTANTS j1, j2, j3

MCTests ==
  [j \in Jobs |-> CASE j = j1 -> <<"pass">>
                    [] j = j2 -> <<"pass", "wrong">>
                    [] OTHER  -> <<"crash">>]

Text(selectors, imports) ==
  [length |-> 10, matches |-> {}, parses |-> TRUE, imports |-> imports,
   selectors |-> selectors, holes |-> {}, generated |-> {}]

GoDriver ==
  [Text({"fmt"}, {}) EXCEPT !.holes = {"// USER_CODE_HERE", "// IMPORTS_HERE"}]
PythonDriver == [Text({}, {}) EXCEPT !.holes = {"# USER_CODE_HERE"}]

Written(language, driver, code) ==
  [wellFormed |-> TRUE, language |-> language, offered |-> TRUE, driver |-> driver, code |-> code]

Python == Written("py", PythonDriver, Text({"list"}, {}))

\* A Go program that uses packages by their names; one that selects from a variable,
\* which the analyzer takes for a package, and so does not compile.
GoodGo  == Written("golang", GoDriver, Text({"strings"}, {}))
LocalGo == Written("go", GoDriver, Text({"node"}, {}))

\* Posts that fail one check each.
Malformed == [Python EXCEPT !.wellFormed = FALSE]
Unknown   == [Python EXCEPT !.language = "cobol"]
Missing   == [Python EXCEPT !.language = "js"]
NotOffered == [Python EXCEPT !.offered = FALSE]
BadSyntax == [GoodGo EXCEPT !.code.parses = FALSE]
TooLong   == [GoodGo EXCEPT !.code.length = 1001]
Forbidden == [GoodGo EXCEPT !.code.matches = {<<"common", "codeExecution">>}]

MCPosts ==
  [j \in Jobs |-> CASE j = j1 -> {Python, Malformed, Unknown, Missing, NotOffered}
                    [] j = j2 -> {GoodGo, BadSyntax, TooLong, Forbidden}
                    [] OTHER  -> {LocalGo}]

MCCompile ==
  [j \in Jobs |-> CASE j = j1 -> "interpreted" [] j = j2 -> "good" [] OTHER -> "broken"]

\* Bound: one failure in a run, of Docker, of the database or of a connection.
OneFailure == faults + lapses <= 1
=============================================================================
