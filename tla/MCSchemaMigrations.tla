-------------------------- MODULE MCSchemaMigrations --------------------------
(***************************************************************************)
(* An instance of SchemaMigrations for TLC: the four files of supabase/    *)
(* migrations and the databases that the releases before the last one, and *)
(* the operator before there was a history, may have left.                 *)
(***************************************************************************)
EXTENDS SchemaMigrations

TheFiles == <<"initial", "alert_events", "first_seen_context", "campaigns">>

\* The schema of today holds the column that the third file adds to older ones.
TheBuilds == [f \in {"initial", "alert_events", "first_seen_context", "campaigns"} |->
    CASE f = "initial"            -> {"scopes_table", "context_column"}
      [] f = "alert_events"       -> {"events_table"}
      [] f = "first_seen_context" -> {"context_column"}
      [] f = "campaigns"          -> {"campaigns_table"}]

\* The row of "initial" may have been written for the schema without the column.
TheRows == [f \in {"initial", "alert_events", "first_seen_context", "campaigns"} |->
    IF f = "initial" THEN {"scopes_table"} ELSE TheBuilds[f]]

IfNotExists == {"first_seen_context"}

WithoutHistory ==
    {[built |-> {}, history |-> {}, scopes |-> "none"]} \cup
    [built : {{"scopes_table"} \cup more : more \in SUBSET {"context_column", "events_table"}},
     history : {{}}, scopes : {"none", "seeded", "tuned"}]

\* Earlier releases knew the first two, three or all of the files.
WithHistory ==
    {[built   |-> {"schema_migrations", "scopes_table"} \cup more \cup
                  UNION {TheRows[TheFiles[i]] : i \in 1..n},
      history |-> {TheFiles[i] : i \in 1..n},
      scopes  |-> rows] :
        n \in 2..4, more \in SUBSET {"context_column"}, rows \in {"seeded", "tuned"}}

AllDatabases == WithoutHistory \cup WithHistory

TwoProcesses == {"runner", "second"}
==============================================================================
