------------------------------ MODULE MCFrontend ------------------------------
(***************************************************************************)
(* Instances of Frontend in a tree of files: all programs of three         *)
(* statements in the main file, and statements spread over the files.      *)
(* Beside them the texts the scanner reads: a run either loads files or    *)
(* reads one text.                                                         *)
(***************************************************************************)
EXTENDS Frontend, ScannerProps

Of(needs, gives) == [needs |-> needs, wants |-> {}, gives |-> gives]
Wanting(wants, gives) == [needs |-> {}, wants |-> wants, gives |-> gives]

(***************************************************************************)
(* The files: main references a and b, both of them c, and a missing file. *)
(***************************************************************************)
Tree     == {"main", "lib", "a", "b", "c", "gone"}
TreeRefs == [f \in Tree |-> CASE f = "main" -> <<"a", "gone", "b">>
                              [] f = "a" -> <<"c">>
                              [] f = "b" -> <<"c", "gone">>
                              [] OTHER -> <<>>]

(***************************************************************************)
(* One file, three statements; statement i declares i and needs any of the *)
(* names.  A class also has a stage: it gives its name first.              *)
(***************************************************************************)
Three == 1..3
Declaration(i) == {<<Of(ns, {i})>> : ns \in SUBSET Three}
Class(i)       == {<<Of({}, {i}), Of(ns, {i + 3})>> : ns \in SUBSET (4..6)}

InMain(A) == {[f \in Tree |-> IF f = "main" THEN <<a, b, c>> ELSE <<>>] :
                 a \in A[1], b \in A[2], c \in A[3]}
ThreeStatements == InMain([i \in Three |-> Declaration(i) \cup Class(i)])

(***************************************************************************)
(* The same with static fields, 7 to 9, and with uses that discovery lets  *)
(* pass.                                                                   *)
(***************************************************************************)
StaticFields == 7..9
WithStatic(i) == {<<Of({}, {i}), Of(ns, {i + 6})>> : ns \in SUBSET (StaticFields \ {i + 6})}
AtMostOne(S)  == {{}} \cup {{n} : n \in S}
Using(i)      == {<<Of(ns, {i})>> : ns \in AtMostOne(StaticFields)}
Calling(i)    == {<<Wanting(ns, {i})>> : ns \in AtMostOne(Three)}
PartlyResolved == InMain([i \in Three |-> WithStatic(i) \cup Using(i) \cup Calling(i)])

(***************************************************************************)
(* Statements of main, b and c that declare 1 to 3 and need any of them.   *)
(***************************************************************************)
TreePrograms ==
    {[f \in Tree |-> CASE f = "main" -> <<<<Of({2}, {3})>>, <<Of(m, {})>>>>
                       [] f = "b" -> <<<<Of(b, {2})>>>>
                       [] f = "c" -> <<<<Of(c, {1})>>, <<Of({}, {})>>>>
                       [] OTHER -> <<>>] :
        m \in SUBSET Three, b \in SUBSET Three, c \in SUBSET Three}

AllPrograms == ThreeStatements \cup PartlyResolved \cup TreePrograms
MCPrograms  == AllPrograms \cup {[f \in Tree |-> <<>>]}

(***************************************************************************)
(* Texts: all short ones over the characters of one kind of token.         *)
(***************************************************************************)
Upto(S, n) == UNION {[1..k -> S] : k \in 0..n}
Units(S, n) == {FlattenSeq(u) : u \in Upto(S, n)}
Around(before, middles, after) == {before \o m \o after : m \in middles}
Escape(w) == <<"\\", "u">> \o w
Times(n, c) == [i \in 1..n |-> c]

NumberTexts ==
    Upto({"0", "1", "9", "_", ".", "e", "n"}, 4)
    \cup Around(<<"1">>, Upto({"e", "+", "-", "_", "0", "n"}, 3), <<>>)
    \cup {<<"1", "e", "-", d>> : d \in {"5", "6", "7"}}
    \cup UNION {Around(<<"0", x>>, Upto({"0", "1", "8", "a", "_", "n"}, 3), <<>>) : x \in {"x", "b", "o"}}
    \* More than an int holds.
    \cup {<<"0">> \o Times(11, "7")}
StringTexts ==
    Around(<<"'">>, Upto({"\\", "'", "LF", "CR", "a", "0", "1", "8", "x", "u"}, 3), <<"'">>)
    \cup Around(<<"quote">>,
                Units({<<"a">>, <<"\\">>} \cup
                      {Escape(w) : w \in {<<"0", "0">>, <<"{">>, <<"6", "1">>, <<"}">>,
                                         <<"{">> \o Times(9, "f")}}, 3),
                <<"quote">>)
    \cup Around(<<"tick">>, Upto({"tick", "$", "{", "\\", "CR", "LF", "u"}, 3), <<"tick">>)
    \cup Around(<<"tick", "$", "{">>, Upto({"tick", "$", "{", "}", "a", "\\"}, 4), <<>>)
    \cup Around(<<"/">>, Upto({"/", "[", "]", "\\", "a", "LF"}, 4), <<>>)
NameTexts ==
    Units({<<"a">>, <<"d", "o">>, <<"1">>, <<"#">>, <<"!">>, <<"\\">>} \cup
          {Escape(w) : w \in {<<"0", "0", "6", "1">>, <<"{", "6", "f", "}">>, <<"0", "0", "2", "0">>,
                             <<"{", "1", "1", "0", "0", "0", "0", "}">>}}, 3)
    \cup Around(<<"#", "!">>, Upto({"a", "LF", "#", "!"}, 3), <<>>)
OperatorTexts ==
    Upto({"<", ">", "=", "!", "?", ".", "&", "*", "/", "+", "1"}, 3)
    \cup Upto({"a", "/", "*", "LF", "CR", " ", "LS"}, 4)
    \cup Units({Times(7, "=") \o <<"LF">>, Times(7, "<") \o <<" ", "a">>, Times(7, ">") \o <<" ", "a">>,
                Times(7, "|") \o <<" ", "a">>, <<"a">>, <<"LF">>}, 3)
MCTexts == NumberTexts \cup StringTexts \cup NameTexts \cup OperatorTexts
MCWords == {Codes(<<"d", "o">>), Codes(<<"i", "f">>)}

(***************************************************************************)
(* A run loads the files of a program, or reads a text beside an empty     *)
(* program that has been compiled.                                         *)
(***************************************************************************)
LoadsFiles == Init /\ text = <<>> /\ scanner = [Reset EXCEPT !.token = "EOF"] /\ read = <<>>
ReadsText  == /\ ScannerInit
              /\ program = [f \in Tree |-> <<>>] /\ phase = "done" /\ toLoad = <<>> /\ includes = <<>>
              /\ at = 1 /\ next = 1 /\ processed = {} /\ notResolved = 0 /\ lastTime = 0
              /\ known = {} /\ output = <<>>
allVars == <<program, phase, toLoad, includes, at, next, processed, notResolved, lastTime, known, output,
             text, scanner, read>>
FrontSpec == /\ LoadsFiles \/ ReadsText
             /\ [][(Next /\ UNCHANGED <<text, scanner, read>>) \/ (ScannerNext /\ UNCHANGED vars)]_allVars
             /\ WF_vars(Next)
=============================================================================
