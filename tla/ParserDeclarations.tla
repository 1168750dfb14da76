-------------------------- MODULE ParserDeclarations --------------------------
(***************************************************************************)
(* The rules of declarations, imports, exports and the source file.        *)
(***************************************************************************)
EXTENDS ParserStatements

parseDeclaration ==
    <<CallWith("parseModifiers", ModifiersOf(TRUE, FALSE, FALSE)), Then("parseAmbientOrOtherDeclaration")>>

parseAmbientOrOtherDeclaration ==
    <<SetFlags(IF HasModifier("declare") THEN {"Ambient"} ELSE {}, {}), Then("parseDeclarationWorker"),
      Restore({"Ambient"})>>

\* When no modifier was read and no declaration follows, there is no node.
parseDeclarationWorker ==
    CASE Token \in {"var", "let", "const", "using", "await"} -> parseVariableStatement
      [] Token = "function"  -> parseFunctionDeclaration
      [] Token = "class"     -> parseClassDeclarationOrExpression("ClassDeclaration")
      [] Token = "interface" -> <<Then("parseInterfaceDeclaration")>>
      [] Token = "type"      -> <<Then("parseTypeAliasDeclaration")>>
      [] Token = "enum"      -> <<Then("parseEnumDeclaration")>>
      [] Token \in {"global", "module", "namespace"} -> <<Then("parseModuleDeclaration")>>
      [] Token = "import"    -> <<Expect("import"), Then("parseImportDeclarationOrImportEqualsDeclaration")>>
      [] Token = "export"    -> <<Next, Then("parseExport")>>
      [] OTHER -> IF Made # <<>> THEN <<ErrorFull, Missing, Group("MissingDeclaration")>> ELSE <<Group("undefined")>>

parseDecoratedExpression ==
    <<CallWith("parseModifiers", ModifiersOf(TRUE, FALSE, FALSE)),
      When({"class"}, <<ThenWith("parseClassDeclarationOrExpression", "ClassExpression")>>,
           <<ErrorFull, Missing, Group("MissingDeclaration")>>)>>

parseInterfaceDeclaration ==
    <<Expect("interface"), Call("parseIdentifier"), Call("parseTypeParameters"), Call("parseHeritageClauses"),
      Call("parseObjectTypeMembers"), Finish("InterfaceDeclaration")>>

parseTypeAliasDeclaration ==
    <<Expect("type")>> \o (IF HasPrecedingLineBreak(After(scan)) THEN <<Error>> ELSE <<>>)
    \o <<Call("parseIdentifier"), Call("parseTypeParameters"), Expect("="),
         When({"intrinsic"}, <<TryParse("parseKeywordAndNoDot", 0), If(<<>>, <<Call("parseType")>>)>>,
              <<Call("parseType")>>),
         Then("parseSemicolon"), Finish("TypeAliasDeclaration")>>

parseEnumMember ==
    <<Call("parsePropertyName"), AllowInAnd("parseInitializer", 0), Finish("EnumMember")>>

parseEnumDeclaration ==
    <<Expect("enum"), Call("parseIdentifier"), Expect("{"),
      If(<<Outside({"Yield", "Await"}, "parseDelimitedList", <<"EnumMembers", "parseEnumMember", 0>>), Expect("}")>>,
         <<Call("createMissingList")>>),
      Finish("EnumDeclaration")>>

-----------------------------------------------------------------------------
(* Modules.                                                                *)
-----------------------------------------------------------------------------
parseModuleBlock ==
    <<Expect("{"), If(<<Statements("BlockStatements"), Expect("}")>>, <<MissingList>>), Finish("ModuleBlock")>>

parseModuleOrNamespaceDeclaration(nested) ==
    <<Call(IF nested THEN "parseIdentifierName" ELSE "parseIdentifier"),
      OptionalThen(".", <<CallWith("parseModuleOrNamespaceDeclaration", TRUE)>>, <<Call("parseModuleBlock")>>),
      Finish("ModuleDeclaration")>>

parseAmbientExternalModuleDeclaration ==
    (IF Token = "global" THEN parseIdentifier ELSE <<TokenNode>>)
    \o <<When({"{"}, <<Call("parseModuleBlock")>>, <<Then("parseSemicolon")>>), Finish("ModuleDeclaration")>>

parseModuleDeclaration ==
    LET named == <<ThenWith("parseModuleOrNamespaceDeclaration", FALSE)>>
    IN CASE Token = "global"    -> parseAmbientExternalModuleDeclaration
         [] Token = "namespace" -> <<Next>> \o named
         [] OTHER -> <<Expect("module"), When({"'s'"}, <<Then("parseAmbientExternalModuleDeclaration")>>, named)>>

-----------------------------------------------------------------------------
(* Imports.                                                                *)
-----------------------------------------------------------------------------
\* What 'import' brings in: its own name and after it whatever begins the clause.
parseImportDeclarationOrImportEqualsDeclaration ==
    LET n == After(scan)
        isTypeOnly == /\ IsIdentifier(scan) /\ Token = "type" /\ n.token # "from"
                      /\ IsIdentifier(n) \/ n.token \in {"*", "{"}
        start == IF isTypeOnly THEN n ELSE scan
        identifier == IsIdentifier(start)
        next  == IF identifier THEN After(start) ELSE start
    IN (IF isTypeOnly THEN <<Next>> ELSE <<>>)
       \o (CASE identifier /\ next.token \notin {",", "from"} ->
                  <<Call("parseIdentifier"), Expect("="), Call("parseModuleReference"), Then("parseSemicolon"),
                    Finish("ImportEqualsDeclaration")>>
             [] \/ identifier /\ next.token \in {",", "from"}
                \/ ~identifier /\ next.token \in {"*", "{"} ->
                  <<CallWith("parseImportClause", identifier), Expect("from"), Then("parseImportedModule")>>
             [] OTHER -> <<Then("parseImportedModule")>>)

parseImportedModule ==
    <<Call("parseModuleSpecifier"), Then("parseAttributesOfModule"), Then("parseSemicolon"),
      Finish("ImportDeclaration")>>

\* The keyword is to be skipped, and nothing skipped it.
parseAttributesOfModule ==
    IF Token \in {"with", "assert"} /\ ~HasPrecedingLineBreak(scan)
    THEN <<CallWith("parseImportAttributes", TRUE)>> ELSE <<>>

parseImportAttributes(skipKeyword) ==
    (IF skipKeyword THEN <<>> ELSE <<Expect(Token)>>)
    \o <<Expect("{"),
         If(<<CallWith("parseDelimitedList", <<"ImportAttributes", "parseImportAttribute", 0>>), Expect("}")>>,
            <<Array>>),
         Finish("ImportAttributes")>>

parseImportAttribute ==
    (IF TokenIsIdentifierOrKeyword(scan) THEN parseIdentifierName ELSE <<TokenNode>>)
    \o <<Expect(":"), Assign(TRUE), Finish("ImportAttribute")>>

parseImportClause(identifier) ==
    LET bindings == <<When({"*"}, <<Call("parseNamespaceImport")>>,
                           <<CallWith("parseNamedImportsOrExports", "ImportSpecifier")>>)>>
    IN (IF identifier THEN parseIdentifier \o <<OptionalThen(",", bindings, <<>>)>> ELSE bindings)
       \o <<Finish("ImportClause")>>

parseModuleReference ==
    IF Token = "require" /\ After(scan).token = "("
    THEN <<Expect("require"), Expect("("), Call("parseModuleSpecifier"), Expect(")"),
           Finish("ExternalModuleReference")>>
    ELSE parseEntityName(FALSE)

parseModuleSpecifier == IF Token = "'s'" THEN <<TokenNode>> ELSE parseExpression

parseNamespaceImport == <<Expect("*"), Expect("as"), Call("parseIdentifier"), Finish("NamespaceImport")>>

parseNamedImportsOrExports(kind) ==
    <<CallWith("parseBracketedList", <<"ImportOrExportSpecifiers", "parseImportOrExportSpecifier", kind, "{", "}">>),
      Finish("NamedImportsOrExports")>>

\* The name a specifier binds is no reserved word, when it is imported.
CheckedName(kind) ==
    parseIdentifierName
    \o (IF kind = "ImportSpecifier" /\ Token \in Keywords /\ ~IsIdentifier(scan) THEN <<ErrorAt(scan.start)>> ELSE <<>>)
parseCheckedName(kind) == CheckedName(kind)

\* Mutant: the name before 'as' is forgotten.
parseSpecifierNamesWithoutProperty(kind) ==
    IF After(scan).token = "as" THEN <<Next, Next, ThenWith("parseCheckedName", kind)>> ELSE CheckedName(kind)

parseSpecifierNames(kind) ==
    IF After(scan).token = "as" THEN parseIdentifierName \o <<Next, ThenWith("parseCheckedName", kind)>>
    ELSE CheckedName(kind)

\* 'type' and 'as' are names or not, as what follows them says.
parseImportOrExportSpecifier(kind) ==
    LET a == After(scan)
        b == After(a)
        c == After(b)
        last == ThenWith("parseCheckedName", kind)
    IN (CASE Token # "type" \/ ~TokenIsIdentifierOrKeyword(a) -> <<ThenWith("parseSpecifierNames", kind)>>
          [] Token = "type" /\ a.token = "as" /\ b.token = "as" ->
               IF TokenIsIdentifierOrKeyword(c) THEN <<Next, IdentifierNode, Next, last>>
               ELSE <<IdentifierNode, Next, IdentifierNode>>
          [] Token = "type" /\ a.token = "as" /\ b.token # "as" ->
               IF TokenIsIdentifierOrKeyword(b) THEN <<IdentifierNode, Next, last>> ELSE <<Next, IdentifierNode>>
          [] OTHER -> <<Next, ThenWith("parseSpecifierNames", kind)>>)
       \o <<Finish(kind)>>

-----------------------------------------------------------------------------
(* Exports.                                                                *)
-----------------------------------------------------------------------------
parseExport ==
    CASE Token \in {"default", "="} -> <<Then("parseExportAssignment")>>
      [] Token = "as" -> <<Next, Expect("namespace"), Call("parseIdentifier"), Then("parseSemicolon"),
                           Finish("NamespaceExportDeclaration")>>
      [] OTHER -> <<Then("parseExportDeclaration")>>

parseExportAssignment ==
    <<SetFlags({"Await"}, {}), OptionalThen("=", <<>>, <<Expect("default")>>), Assign(TRUE), Then("parseSemicolon"),
      Restore({"Await"}), Finish("ExportAssignment")>>

parseNamespaceExport == parseIdentifierName \o <<Finish("NamespaceExport")>>

parseExportedModule == <<Expect("from"), Call("parseModuleSpecifier"), Then("parseAttributesOfModule")>>
parseModuleOfExport ==
    IF Token = "from" \/ (Token = "'s'" /\ ~HasPrecedingLineBreak(scan)) THEN parseExportedModule ELSE <<>>

parseExportDeclaration ==
    <<SetFlags({"Await"}, {}), Optional("type"),
      OptionalThen("*", <<OptionalThen("as", <<Call("parseNamespaceExport")>>, <<>>)>> \o parseExportedModule,
                   <<CallWith("parseNamedImportsOrExports", "ExportSpecifier"), Then("parseModuleOfExport")>>),
      Then("parseSemicolon"), Restore({"Await"}), Finish("ExportDeclaration")>>

-----------------------------------------------------------------------------
(* The file.                                                               *)
-----------------------------------------------------------------------------
parseSourceFile == <<Statements("SourceElements"), Then("parseEndOfFile"), Finish("SourceFile")>>
parseEndOfFile  == <<DebugAssert("end of file", Token = "EOF"), TokenNode>>
==============================================================================
