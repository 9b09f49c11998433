----------------------------- MODULE MCConfCalls ------------------------------
(* Small instances of ConfCalls for TLC. *)
EXTENDS ConfCalls

MCWords == {"port", "host"}
MCTexts == {"1", "2", " 1 ", ""}
MCTrim == [t \in MCTexts |-> IF t = " 1 " THEN "1" ELSE t]

E(key, text, type) == [key |-> key, text |-> text, type |-> type]
Ask(type, entries) == [type |-> type, entries |-> entries]
Plain(text) == [quoted |-> FALSE, text |-> text]

\* An empty file, comments with and without their setting, a key set twice in
\* two formats, and empty lines at the end.
MCConfFiles0 ==
    { << >>,
      <<Comment("port"), Comment("host"), Comment("port"), Empty>>,
      <<Comment("port"), Setting("port", "=", Plain("2"))>>,
      <<Setting("host", " ", Plain("1")), Empty, Comment("host"), Empty, Empty>> }

\* In each format, of each type: one key, two, one twice, and a blank key.
MCRequests ==
    { Ask("EQUAL", <<E("port", "1", "NUMBER")>>),
      Ask("EQUAL", <<E("host", " 1 ", "STRING"), E("port", "2", "UNSPECIFIED")>>),
      Ask("EQUAL", <<E("port", "2", "NUMBER"), E("port", "1", "NUMBER")>>),
      Ask("SPACE", <<E("port", "2", "NUMBER")>>),
      Ask("SPACE", <<E("host", "", "NUMBER")>>),
      Ask("COLON", <<E("host", "", "STRING"), E("port", "1", "NUMBER")>>),
      Ask("EQUAL", <<E("host", "2", "NUMBER"), E("", "1", "NUMBER")>>),
      Ask("UNSPECIFIED", <<E("host", "1", "NUMBER")>>) }

\* The columns of pg_hba.conf.
MCHbaWords == {"local", "host", "unspecified", "all", "app", "lan", "md5", "map=x", "\"shed", "db\""}
Row(type, database, users, address, method, options) ==
    [type |-> type, database |-> database, users |-> users, address |-> address,
     method |-> method, options |-> options]
Fields(words) == [words |-> words, comment |-> FALSE]

MCHbaFiles0 ==
    { [lines |-> << >>, ended |-> TRUE],
      [lines |-> <<Fields(<<"local", "all", "all", "md5">>), [words |-> << >>, comment |-> TRUE]>>,
       ended |-> FALSE],
      [lines |-> <<Fields(<<"host", "all">>)>>, ended |-> FALSE] }

MCRules ==
    { Row("LOCAL", <<"all">>, <<"all">>, <<"lan">>, <<"md5">>, << >>),
      Row("HOST", <<"all">>, <<"app">>, <<"lan">>, <<"md5">>, <<"map=x">>),
      Row("HOST", <<"all">>, <<"app">>, <<"lan">>, <<"md5">>, << >>) }

\* A database whose quoted name holds a space.
SpacedRules == { Row("LOCAL", <<"\"shed", "db\"">>, <<"all">>, NoAddress, <<"md5">>, << >>) }
=============================================================================
