----------------------------- MODULE MCToolCall -----------------------------
(* Two tasks: "a" tries everything, "b" saves the document it was given.    *)
EXTENDS ToolCall, TLC

MCTask == {"a", "b"}
MCName == {"a", "b", "ws", "tasks", "out", "reports", "raw", "..",
           "book.xlsx", "note.txt", "book.md", "note.md", "r"}
MCWorkspace == <<"ws">>
MCReportPrefix == <<"reports">>
MCInputPrefix == <<"raw">>
MCAllowedTools == {"run_python", "read_file", "parse_document", "save_report", "read_tool_output"}
MCAllowedPermissions == {"file.read", "sandbox.execute", "artifact.write", "tool_output.read"}

Relative(parts) == [abs |-> FALSE, parts |-> parts, spelling |-> "plain"]
Absolute(parts) == [abs |-> TRUE, parts |-> parts, spelling |-> "plain"]

MCInputs == [t \in MCTask |->
    IF t = "a"
    THEN <<[key |-> Relative(<<"raw", "book.xlsx">>), name |-> Relative(<<"book.xlsx">>), size |-> 3]>>
    ELSE <<[key |-> Relative(<<"raw", "note.txt">>), name |-> Relative(<<"note.txt">>), size |-> 1]>>]

Ask(tool, file, key, ref) ==
    [tool |-> tool, valid |-> TRUE, file |-> file, key |-> key, ref |-> ref]

MCAnything ==
    {Ask("delete_file", None, None, None),
     [Ask("run_python", None, None, None) EXCEPT !.valid = FALSE],
     Ask("run_python", None, None, None),
     Ask("search_memory", None, None, None),
     Ask("read_file", Relative(<<"out", "r">>), None, None),
     Ask("read_file", Relative(<<"book.xlsx">>), None, None),
     Ask("read_file", Absolute(<<"ws", "tasks", "b", "note.txt">>), None, None),
     Ask("read_file", Relative(<<"..", "b", "note.txt">>), None, None),
     Ask("parse_document", Relative(<<"book.xlsx">>), None, None),
     Ask("parse_document", Relative(<<"out", "book.xlsx">>), None, None),
     Ask("save_report", Relative(<<"book.xlsx">>), Relative(<<"reports", "r">>), None),
     Ask("save_report", Relative(<<"out", "r">>), Relative(<<"reports", "b", "r">>), None),
     Ask("save_report", Relative(<<"out", "r">>), Relative(<<"reports", "r">>), None),
     Ask("read_tool_output", None, None, <<"a", 1>>),
     Ask("read_tool_output", None, None, <<"b", 1>>)}

\* Its third call saves a report once more, under a key it may have used.
MCRequests == [t \in MCTask |->
    IF t = "b"
    THEN <<{Ask("save_report", Relative(<<"note.txt">>), Relative(<<"reports", "r">>), None)}>>
    ELSE <<MCAnything, MCAnything,
           {Ask("save_report", Relative(<<"book.xlsx">>), Relative(<<"reports", "r">>), None)}>>]

MCWrites == {<<"r">>, <<"book.xlsx">>}
MCSizes == {0, 3}
\* A busy object store, a host short of processes, an unreadable text.
MCRaised == [tool \in {"run_python", "read_file", "parse_document", "save_report", "read_tool_output"} |->
    CASE tool = "save_report" -> {<<"StorageError", "StatusBusy">>, <<"BotoCoreError">>}
      [] tool \in {"run_python", "parse_document"} -> {<<"OSErrorAgain">>}
      [] OTHER -> {<<"ValueError">>, <<"OSErrorAgain">>}]
MCBinary == {"book.xlsx"}
MCSupported == {"book.xlsx", "note.txt", "book.md", "note.md"}
\* Right for the supported names; no other name is converted.
MCMarkdown == [n \in MCName |-> IF n \in {"book.xlsx", "book.md"} THEN "book.md" ELSE "note.md"]
=============================================================================
