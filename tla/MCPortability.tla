---------------------------- MODULE MCPortability ----------------------------
(* Small instances of Portability: tables whose columns meet every type,   *)
(* every style of name and a reference from table to table; texts a cell   *)
(* may confuse; and a file of every kind a person may write.               *)
EXTENDS Portability

Orders == Name("orders", "plain")
note == Column(Name("note", "plain"), "string", FALSE)
qty == Column(Name("qty", "plain"), "integer", FALSE)
price == Column(Name("price", "plain"), "decimal", FALSE)
paid == Column(Name("paid", "plain"), "boolean", FALSE)
due == Column(Name("due", "plain"), "datetime", FALSE)
order_id == Column(Name("order_id", "plain"), "integer", FALSE)

MCTableNames == {Name("orders", "upper"), Name("lines", "spaced"), Name("lines", "plain"), Orders}
MCLayouts ==
  (Name("orders", "upper") :> {<<due>>})
  @@ (Name("lines", "spaced") :> {<<[qty EXCEPT !.name.style = "upper"], qty>>})
  @@ (Name("lines", "plain") :> {<<>>, <<order_id, price>>})
  @@ (Orders :> {<<qty, due>>, <<note, paid>>})
MCSays == [string |-> {"", "+7"}, integer |-> {"007"}, decimal |-> {"7", "nan", "-inf"},
           boolean |-> {"false"}, datetime |-> {"2024-05-01"}]
MCAsks == {<<"table">>, <<"schema", "as", "diagram">>, <<"everything", "as", "sql">>,
           <<"database", "with", "data">>, <<"design">>}

Raw(column, type) == [name |-> column.name, type |-> type, required |-> FALSE]
Must(column, type) == [name |-> column.name, type |-> type, required |-> TRUE]
Script ==
  <<[kind |-> "CREATE", name |-> Orders, optional |-> TRUE, keys |-> {qty.name},
     columns |-> <<Raw(note, "TEXT"), Raw(qty, "INT")>>],
    [kind |-> "DROP"],
    [kind |-> "INSERT", name |-> Orders, columns |-> None,
     rows |-> <<<<None, Value("integer", "7")>>, <<Value("string", "nan"), Value("integer", "7")>>>>]>>
Orphans ==
  <<[kind |-> "INSERT", name |-> Orders, columns |-> <<note.name>>, rows |-> <<<<Value("boolean", "true")>>>>]>>
Drawing ==
  [entities |-> <<[name |-> Orders, columns |-> <<Must(note, "string")>>],
                  [name |-> Name("lines", "upper"), columns |-> <<Raw(qty, "INT"), Must(qty, "INT")>>]>>,
   relations |-> <<[left |-> Orders, leftMany |-> FALSE, right |-> Name("lines", "upper"), rightMany |-> TRUE,
                    label |-> note.name],
                   [left |-> Orders, leftMany |-> TRUE, right |-> Name("lines", "upper"), rightMany |-> TRUE,
                    label |-> None]>>]
MCDrafts ==
  {File("sql", "shop", Script), File("sql", None, Orphans),
   File("mermaid", None, Drawing),
   File("markdown", None, [sections |-> <<>>, diagram |-> Drawing]),
   File("csv", None, [name |-> Orders, header |-> <<qty.name, note.name, note.name>>,
                      lines |-> <<<<"7", "nan">>, <<"", "">>>>]),
   File("prompt", None, <<[name |-> Orders, columns |-> <<Must(price, None), Raw(note, None)>>]>>),
   File("native", "shop", <<[name |-> Orders, columns |-> <<[note EXCEPT !.required = TRUE]>>,
                             rows |-> <<[id |-> None, values |-> (note.name :> None)]>>]>>)}
=============================================================================
