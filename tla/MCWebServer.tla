----------------------------- MODULE MCWebServer -----------------------------
(***************************************************************************)
(* Values of WebServer for TLC.  One block, two numbers: n1 is a prefix of *)
(* n2, so that n2 can fall into n1 and a short rest.  The first client     *)
(* sends a request of every kind; the second, with the same cookie, the    *)
(* ones that can disturb it.  "low" is a number like 0xxxxx.               *)
(***************************************************************************)
EXTENDS WebServer

CONSTANTS NoBlock, NoPostfix, empty, negative, c1, c2, s

MCWords == {"insert", "delete", "dump_file", "create", "remove", "edit", "login",
            "word"}
MCTexts == {"n1", "n2", "long", "low", "a1", "short", "letters"} \cup MCWords
MCShort == {"short"}
MCLetters == {"letters"}
MCAliases == {"a1"}
MCBlocks == {"b"}
MCLowPrefixes == {"0"}
MCBadLengths == {empty, negative}
MCPostfixes == {1, 2}
MCSessionOf == [c \in {c1, c2} |-> s]

MCNbr ==
  [v \in MCTexts |->
     CASE v = "n1" -> [prefix |-> "b", postfix |-> 1]
       [] v = "n2" -> [prefix |-> "b", postfix |-> 2]
       [] v = "long" -> [prefix |-> "b", postfix |-> NoPostfix]
       [] v = "low" -> [prefix |-> "0", postfix |-> 1]
       [] OTHER -> [prefix |-> NoBlock, postfix |-> NoPostfix]]

MCCuts ==
  [v \in MCTexts |->
     CASE v = "n2" -> {<<"n1", "short">>}
       [] v = "delete" -> {<<"word", "word">>}
       [] OTHER -> {}]

MCForm(url, body) ==
  [url |-> url, method |-> "POST", ctype |-> "form", body |-> body]

MCUpload(name, tag, pieces) ==
  [url |-> "nlkup", method |-> "POST", ctype |-> "multipart", name |-> name,
   tag |-> tag, pieces |-> pieces, empty |-> FALSE]

MCEmptyUpload(name) ==
  [url |-> "nlkup", method |-> "POST", ctype |-> "multipart", name |-> name,
   tag |-> "none", pieces |-> 1, empty |-> TRUE]

MCRefused(url, method, ctype) == [url |-> url, method |-> method, ctype |-> ctype]

MCQuery(url, cmd, number, length, before) ==
  [url |-> url, method |-> "GET", ctype |-> "none",
   query |-> [cmd |-> cmd, number |-> number, length |-> length,
              nbr_before |-> before, nbr_after |-> "1"]]

MCGet(cmd, number) == MCQuery("nlkup", cmd, number, <<1, 2>>, "1")

MCRange(number, length) == MCQuery("nlkup", "range", number, length, "1")

MCInsert(number, alias) == MCForm("nlkup",
  <<<<"cmd", "insert">>, <<"number", number>>, <<"alias", alias>>>>)

MCGuiForm(action, number, alias) == MCForm("gui",
  <<<<"action", action>>, <<"[number]", number>>, <<"[alias]", alias>>>>)

MCLogin(password) == MCForm("gui",
  <<<<"cmd", "login">>, <<"username", "word">>, <<"password", password>>>>)

MCClientForms ==
  {MCInsert("n2", "a1"), MCInsert("n1", "long"), MCInsert("short", "a1"),
   MCInsert("n1", "letters"), MCInsert("n1", ""),
   MCForm("nlkup", << >>),
   MCForm("nlkup", <<<<"cmd", "">>, <<"number", "n1">>>>),
   MCForm("nlkup", <<<<"cmd", "word">>, <<"", "n1">>>>),
   MCForm("nlkup", <<<<"cmd", "delete">>, <<"number", "n1">>>>),
   MCForm("nlkup", <<<<"cmd", "delete">>, <<"number", "n2">>>>),
   MCForm("nlkup", <<<<"cmd", "delete">>, <<"number", "long">>>>),
   MCForm("nlkup", <<<<"cmd", "delete">>, <<"number", "low">>>>),
   MCForm("nlkup", <<<<"cmd", "delete">>, <<"alias", "a1">>, <<"number", "">>,
                     <<"number", "n2">>>>),
   MCForm("nlkup", <<<<"number", "n1">>, <<"number", "n2">>, <<"alias", "a1">>,
                     <<"cmd", "delete">>>>),
   MCForm("nlkup", <<<<"cmd", "dump_file">>, <<"file_name", "word">>>>),
   MCForm("nlkup", <<<<"cmd", "dump_file">>>>),
   MCForm("nlkup", <<<<"cmd", "word">>>>)}

MCGuiForms ==
  {MCLogin("word"), MCLogin(""),
   MCGuiForm("create", "n1", "letters"), MCGuiForm("create", "n2", "a1"),
   MCGuiForm("create", "n1", ""),
   MCGuiForm("remove", "n1", "a1"), MCForm("gui", <<<<"action", "edit">>>>),
   MCForm("gui", <<<<"action", "word">>>>)}

MCQueries ==
  {MCGet("alias", "n1"), MCGet("alias", "long"), MCGet("alias", "letters"),
   MCGet("block", "n1"), MCGet("block", "short"), MCGet("", "n1"),
   MCGet("word", "n1"), MCGet("range", "n1"), MCGet("range_around", "n1"),
   MCGet("range_around", "long"), MCGet("range_around", "low"),
   MCRange("n2", <<2, 2>>), MCRange("n1", empty), MCRange("low", negative),
   MCRange("n1", Missing), MCRange("n1", TooLong),
   MCQuery("nlkup", "range_around", "n1", Missing, "0"),
   MCQuery("gui", "range_around", "n1", Missing, "1"),
   MCQuery("gui", "alias", "n1", Missing, "1")}

MCClients ==
  [c \in {c1, c2} |->
     IF c = c1
     THEN MCClientForms \cup MCGuiForms \cup MCQueries
            \cup {MCUpload("f", "x", 2), MCUpload("", "x", 1), MCEmptyUpload("f"),
                  MCRefused("other", "POST", "none"), MCRefused("nlkup", "POST", "none"),
                  MCRefused("nlkup", "PUT", "none"),
                  MCRefused("nlkup", "POST", "no boundary")}
     ELSE {MCUpload("f", "y", 1), MCLogin("word"), MCGet("range_around", "n1")}]
=============================================================================
