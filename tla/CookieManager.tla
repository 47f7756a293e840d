--------------------------- MODULE CookieManager ---------------------------
(***************************************************************************)
(* The dialog that edits the cookies of the program: a table of domains,   *)
(* names and values, read from two settings when it is opened and written  *)
(* back to them when it is saved.                                          *)
(*                                                                         *)
(* Cookies for every domain are one setting, pairs separated by semicolons;*)
(* those of one domain are the other, a line each.  A hint says whether two *)
(* rows have the same domain and name; it is made anew when a cell changes *)
(* and left as it is when rows are removed.                                *)
(*                                                                         *)
(* A value is plain, has a semicolon, or is the part before it.            *)
(***************************************************************************)
EXTENDS Naturals, Sequences, SequencesExt, FiniteSets

CONSTANTS
    Domains,    \* what the user writes for a domain; "" and "*" mean all
    Values,     \* what the user writes for a value
    Names,      \* what the user writes for a name; "" is no name yet
    MaxRows,    \* bound: rows of the table
    MaxOps      \* bound: buttons pressed and cells written

VARIABLES
    open,       \* the dialog is open
    rows,       \* the table: domain, name, value, and hidden by the filter
    picked,     \* the rows that are selected, in the order they were
    hint,       \* the hint says that there are duplicates
    file,       \* the file of an import or export: its lines
    header,     \* http_cookie_header, in the file of the settings
    rules,      \* http_cookie_rules
    ops

vars == <<open, rows, picked, hint, file, header, rules, ops>>

dialog == <<open, rows, picked, hint, file>>

Row(d, n, v) == [domain |-> d, name |-> n, value |-> v, hidden |-> FALSE]
AllDomains(d) == d \in {"", "*"}
Domain(d) == IF d = "" THEN "*" ELSE d
Lower(s) == CASE s = "X" -> "x" [] s = "A" -> "a" [] OTHER -> s

Init ==
    /\ open = FALSE /\ rows = <<>> /\ picked = <<>> /\ hint = FALSE
    /\ file = <<>> /\ header = <<>> /\ rules = <<>>
    /\ ops = 0

\* refreshDuplicateHighlight: the domain and the name in lower case, an empty
\* domain as all of them.  Rows without a name are left out.
Marked(r) == {i \in DOMAIN r : r[i].name # "" /\ \E j \in DOMAIN r \ {i} :
                /\ Lower(r[j].name) = Lower(r[i].name)
                /\ Lower(Domain(r[j].domain)) = Lower(Domain(r[i].domain))}

\* The rows of r that are in S, in their order; those with a name.
Those(r, S) == FoldLeft(LAMBDA t, w : IF w \in S THEN Append(t, w) ELSE t, <<>>, r)
Named(r) == Those(r, {w \in ToSet(r) : w.name # ""})

\* The cells of r are the table's, and the hint is made from them.
Displayed(r) == rows' = r /\ hint' = (Marked(r) # {})

-----------------------------------------------------------------------------
(* The dialog is opened.                                                   *)

\* A pair of the header is cut at the semicolon of its value.
Cut(v) == IF v = "semicolon" THEN "before" ELSE v

Loaded == [i \in DOMAIN header |-> Row("*", header[i].name, Cut(header[i].value))]
          \o [i \in DOMAIN rules |-> Row(rules[i].domain, rules[i].name, rules[i].value)]

\* openCookieManagerDialog
OpenDialog ==
    /\ ~open
    /\ open' = TRUE /\ Displayed(Loaded) /\ picked' = <<>>
    /\ UNCHANGED <<file, header, rules>>

-----------------------------------------------------------------------------
(* The table.                                                              *)

\* The add button.
AddRow ==
    /\ open /\ Len(rows) < MaxRows
    /\ Displayed(Append(rows, Row("*", "", "")))
    /\ UNCHANGED <<open, picked, file, header, rules>>

\* The user fills in a new row; the hint follows each cell.
EditRow ==
    \E i \in DOMAIN rows, d \in Domains, n \in Names, v \in Values :
      /\ open /\ ~rows[i].hidden
      /\ rows[i].name = ""
      /\ Displayed([rows EXCEPT ![i] = Row(d, n, v)])
      /\ UNCHANGED <<open, picked, file, header, rules>>

\* The user selects one more row that is shown.
PickRow ==
    \E i \in DOMAIN rows :
      /\ open /\ ~rows[i].hidden /\ i \notin ToSet(picked)
      /\ picked' = Append(picked, i)
      /\ UNCHANGED <<open, rows, hint, file, header, rules>>

\* Mutant of Without: the rows are removed first to last.
WithoutForwards(r, p) ==
    FoldLeft(LAMBDA t, i : IF i \in DOMAIN t THEN RemoveAt(t, i) ELSE t, r, p)

\* The rows left when those of p are removed, last selected first; each is
\* found by the number it had at the start.
Without(r, p) ==
    FoldLeft(LAMBDA t, i : IF i \in DOMAIN t THEN RemoveAt(t, i) ELSE t, r, Reverse(p))

\* The remove button.  The hint and the red rows stay as they are.
RemoveRows ==
    /\ open /\ picked # <<>>
    /\ rows' = Without(rows, picked) /\ picked' = <<>>
    /\ UNCHANGED <<open, hint, file, header, rules>>

\* The text of the filter changes: rows of one name stay, or all.  What was
\* selected stays selected, also when it is hidden.
FilterRows ==
    \E n \in Names :
      /\ open
      /\ rows' = [i \in DOMAIN rows |->
                    [rows[i] EXCEPT !.hidden = n # "" /\ Lower(rows[i].name) # Lower(n)]]
      /\ rows' # rows
      /\ UNCHANGED <<open, picked, hint, file, header, rules>>

\* The lines a row of the table is exported to: none without a name.
Lines(r) == [i \in DOMAIN Named(r) |->
               LET w == Named(r)[i] IN Row(Domain(w.domain), w.name, w.value)]

\* The export button; the first line is a comment.  The file is used in the
\* same opening of the dialog, once.
ExportRows ==
    /\ open /\ file = <<>> /\ file' = Lines(rows) /\ file' # <<>>
    /\ UNCHANGED <<open, rows, picked, hint, header, rules>>

\* The import button: the lines of the file come after the rows there are,
\* comments and lines without a name excepted.
ImportRows ==
    /\ open /\ file # <<>> /\ Len(rows) + Len(file) <= MaxRows
    /\ Displayed(rows \o file) /\ file' = <<>>
    /\ UNCHANGED <<open, picked, header, rules>>

-----------------------------------------------------------------------------
(* The dialog is left.                                                     *)

\* Mutants of SameKey: the case of the name counts; the domain does not.
SameKeyExact(a, b) == Lower(a.domain) = Lower(b.domain) /\ a.name = b.name
SameKeyName(a, b) == Lower(a.name) = Lower(b.name)

\* dedupKey: here an empty domain is one of its own.
SameKey(a, b) == Lower(a.domain) = Lower(b.domain) /\ Lower(a.name) = Lower(b.name)

Duplicate == \E i, j \in DOMAIN Named(rows) :
                i # j /\ SameKey(Named(rows)[i], Named(rows)[j])

\* Mutant of Globals: only the star.
GlobalsStar == LET all == Those(Named(rows), {r \in ToSet(rows) : r.domain = "*"})
               IN  [i \in DOMAIN all |-> [name |-> all[i].name, value |-> all[i].value]]

\* globalPairs and domainRules
Globals == LET all == Those(Named(rows), {r \in ToSet(rows) : AllDomains(r.domain)})
           IN  [i \in DOMAIN all |-> [name |-> all[i].name, value |-> all[i].value]]
Rules == LET own == Those(Named(rows), {r \in ToSet(rows) : ~AllDomains(r.domain)})
         IN  [i \in DOMAIN own |-> [domain |-> Lower(own[i].domain), name |-> own[i].name,
                                    value |-> own[i].value]]

\* The dialog and its table are gone.
Left == open' = FALSE /\ rows' = <<>> /\ picked' = <<>> /\ hint' = FALSE /\ file' = <<>>

\* Nothing is written when two rows have the same key.
SaveRefused ==
    /\ open /\ Duplicate
    /\ UNCHANGED <<dialog, header, rules>>

\* The rows as the user means them: for every domain or for one.
Meant == {[domain |-> Lower(Domain(r.domain)), name |-> r.name, value |-> r.value] :
            r \in ToSet(Named(rows))}

\* saveCombinedSettings: the cookies are in the application's part, which is
\* written first.  The application is told when both parts are written,
\* otherwise the dialog stays.
SaveRows ==
    /\ open /\ ~Duplicate
    /\ \/ /\ header' = Globals /\ rules' = Rules
          /\ \/ Left
             \/ UNCHANGED dialog
       \/ UNCHANGED <<dialog, header, rules>>

CloseDialog ==
    /\ open /\ Left
    /\ UNCHANGED <<header, rules>>

Next ==
    /\ ops < MaxOps /\ ops' = ops + 1
    /\ \/ OpenDialog \/ AddRow \/ EditRow \/ PickRow \/ RemoveRows \/ FilterRows
       \/ ExportRows \/ ImportRows \/ SaveRefused \/ SaveRows \/ CloseDialog

Spec == Init /\ [][Next]_vars

-----------------------------------------------------------------------------
(* Properties                                                              *)

\* Rows and settings have the parts they should, and a name is never saved
\* twice for one domain, whatever its case.
TypeOK ==
    /\ open \in BOOLEAN /\ hint \in BOOLEAN
    /\ \A i \in DOMAIN rows :
         rows[i] \in [domain : Domains \cup {"*", "a"}, name : Names,
                      value : Values \cup {"", "before"}, hidden : BOOLEAN]
    /\ ToSet(picked) \subseteq DOMAIN rows
    /\ \A i, j \in DOMAIN rules :
         rules[i].domain = rules[j].domain /\ Lower(rules[i].name) = Lower(rules[j].name)
           => i = j

\* The two settings give back every cookie that was saved, each for the
\* domain it was meant for; a value with a semicolon comes back whole only
\* for a domain of its own.
SavedComesBack ==
    [][SaveRows /\ ~open' =>
        {[domain |-> r.domain, name |-> r.name, value |-> r.value] : r \in ToSet(Loaded')} =
        {IF c.domain = "*" THEN [c EXCEPT !.value = Cut(c.value)] ELSE c : c \in Meant}]_vars

\* A save that is refused for a duplicate has a hint above it that says so,
\* although the hint and the save decide it by different rules and the hint
\* is not made anew when rows go.
RefusalIsAnnounced == [][SaveRefused => hint]_vars

\* Rows that were selected from top to bottom are the ones removed, and no
\* other (selected in another order, rows that move up are taken for them).
RemovesWhatIsSelected ==
    [][RemoveRows /\ (\A i, j \in DOMAIN picked : i < j => picked[i] < picked[j])
         => rows' = [k \in 1..(Len(rows) - Len(picked)) |->
                       rows[CHOOSE i \in DOMAIN rows \ ToSet(picked) :
                              Cardinality({j \in 1..i : j \notin ToSet(picked)}) = k]]]_vars
=============================================================================
