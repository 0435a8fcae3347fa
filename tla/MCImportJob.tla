---------------------------- MODULE MCImportJob ----------------------------
(* A sheet of a batch and a half on one level, and then a second sheet. *)
EXTENDS ImportJob

Row(type, date, mark) ==
    [type |-> type, level |-> "l", named |-> FALSE, id |-> None, date |-> date,
     mark |-> mark, data |-> None, resolution |-> None]

\* A completion, an undated drop, and a session on the day after.
MCSheet == <<Row("COMPLETION", 2, None), Row("DROP", None, None), Row("PROGRESS", 3, 1)>>

\* The level again, by name and for an overwrite; the session the log begins with.
MCOtherSheet ==
    <<[Row("COMPLETION", 1, None) EXCEPT !.named = TRUE],
      [Row("PROGRESS", 2, None) EXCEPT !.id = <<0, 1, None>>]>>

MCSheets == <<{MCSheet}, {MCOtherSheet}>>

\* A log of a single session; a level dropped after it was beaten comes about on the way.
MCLog ==
    [lp |-> [l \in Levels |-> [id |-> 1, status |-> "IN_PROGRESS"]], made |-> [l \in Levels |-> 1],
     entries |-> {[id |-> <<0, 1, None>>, kind |-> "PROGRESS", level |-> "l", date |-> 1, mark |-> 1, data |-> None]},
     wanted |-> {"l"}]

MCInitLogs == {MCLog}
=============================================================================
