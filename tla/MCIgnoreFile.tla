---------------------------- MODULE MCIgnoreFile ----------------------------
(***************************************************************************)
(* Ignore files in a tree of directories, / over /b over /b/a.  Lines is   *)
(* about the answers of a file in / that is found by its relative path;    *)
(* Moves is about the working directory: where the file is looked for and  *)
(* what is asked about it.                                                 *)
(***************************************************************************)
EXTENDS IgnoreFile

\* The runes of a string.
AsRune(c) == CASE c = " " -> "sp" [] c = "\\" -> "esc" [] c = "$" -> "nl" [] c = "%" -> "e acute" [] OTHER -> c
AsText(string) == [i \in 1..Len(string) |-> AsRune(SubSeq(string, i, i))]

Letters == {"a", "b", "c", "?", "[", "]", "-", ".", "^", "e acute"}
Points == ("sp" :> 32) @@ ("!" :> 33) @@ ("#" :> 35) @@ ("*" :> 42) @@ ("-" :> 45) @@ ("." :> 46)
          @@ ("/" :> 47) @@ ("?" :> 63) @@ ("[" :> 91) @@ ("esc" :> 92) @@ ("]" :> 93) @@ ("^" :> 94)
          @@ ("a" :> 97) @@ ("b" :> 98) @@ ("c" :> 99) @@ ("e acute" :> 233)

Tree == {<<>>, <<<<"b">>>>, <<<<"b">>, <<"a">>>>}
Unmarked == [d \in Tree |-> {}]
Relatively(paths) == {[absolute |-> FALSE, parts |-> p] : p \in paths}

\* One line made of up to four pieces, and lines and files of more.
Pieces == {"a", "b", "*", "**", "/"}
Upto(n) == LET lines[k \in 1..n] == IF k = 1 THEN Pieces
                                   ELSE lines[k - 1] \cup {l \o x : l \in lines[k - 1], x \in Pieces}
           IN lines[n]
Short == Upto(4)
Long == {"a/**/b", "/**/a", "a/**/", "**/a/b", "*/*/", "/a*b", "*a*b*", "a?b", "?", "!", "!a", "#a", "\\#",
         "[ab]", "[a-b]b", "[!a]*", "a[", "a/[!b]", "\\*", "a\\", "a ", "a\\ ", " a", "a b", "**/ab/**/a",
         "/*/", "!/", "*[b-c]", "[a-]", "a/b*/c", "[^b]", "*\\b", "a/*b/", "*.b", "/b/a/", "a\\/b", "a/b\\/c",
         "[a%]b", "[!b-%]", "%*"}
Files == {"*$!b", "a/$!/a", "a/**$!a/b", "**/b$!/b", "*$!*/", "!a$a", "a***$b", "b$$#b$!a/b", "*$!/*$/*/*"}
Doubled(l) == \E i \in 1..Len(l) - 1 : SubSeq(l, i, i + 1) = "//"

Names == {<<"a">>, <<"b">>, <<"a", "b">>, <<"c">>, <<".", "b">>, <<"a", "sp", "b">>, <<"*">>, <<"#">>}
Asked == {<<x>> : x \in Names} \cup {<<x, y>> : x, y \in {<<"a">>, <<"b">>, <<"a", "b">>}}
         \cup {<<<<"e acute">>>>, <<<<"e acute", "b">>>>}
         \cup {<<<<"a">>, <<"b">>, y>> : y \in {<<"a">>, <<"b">>, <<"c">>}}

World(l, paths) ==
  [text |-> AsText(l), marks |-> Unmarked, cwd |-> <<>>,
   given |-> [absolute |-> FALSE, parts |-> <<>>],
   questions |-> Relatively(paths), calls |-> 1, moves |-> 0]
Lines == {World(l, Asked) : l \in {x \in Short : ~Doubled(x)} \cup Long \cup Files}

Moves ==
  {[text |-> AsText(l), marks |-> [Unmarked EXCEPT ![<<>>] = top, ![<<<<"b">>>>] = middle],
    cwd |-> <<<<"b">>>>, given |-> given,
    questions |-> {[absolute |-> r, parts |-> p] : r \in BOOLEAN, p \in {<<<<"a">>>>, <<<<"b">>, <<"a">>>>}},
    calls |-> 2, moves |-> 1] :
     l \in {"a", "/b$!b/*"}, top \in {{}, {"git file"}}, middle \in {{"git other", "hg file"}, {"hg directory"}},
     given \in {[absolute |-> FALSE, parts |-> <<>>], Given(<<<<"b">>, <<"a">>>>)}}

\* Classes without an end whose last member takes two bytes, at the places where
\* the kinds of pattern come to them, and classes that have none of the two.
Falling == {World(l, Asked) : l \in {"[%", "a/[b%", "**/b/[!%", "*[\\%", "a[%$!a", "[\\]%", "[b%/**",
                                    "[ab", "a/[!b", "[%b", "[a-%", "[a]%"}}

All == Lines \cup Moves \cup Falling

TextsOf == {w.text : w \in All}
=============================================================================
